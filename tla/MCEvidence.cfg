CONSTANTS
    l1 = l1
    l2 = l2
    Launchers = {l1, l2}
    Versions <- Versions0
    Options <- Options0
SPECIFICATION Spec
SYMMETRY Symmetry
INVARIANTS TypeOK DispatchIsUnambiguous EmptyIsHarmless
