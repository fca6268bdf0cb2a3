SPECIFICATION Spec
CONSTANTS
    None = None
    Players = {p1, p2}
    Revisions = {r1, r2}
    CardIds = {1, 2}
    StarterIds = {1}
    UnitIds = {starter, other}
    StarterUnitId = starter
    InitialVersions = {0}
    MaxStarts = 2
INVARIANT NoForeignCardInUnit
CHECK_DEADLOCK FALSE
