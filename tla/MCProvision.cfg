SPECIFICATION Spec
CONSTANTS
    None = None
    Players = {p1, p2}
    Revisions = {r1, r2}
    CardIds = {1, 2}
    StarterIds = {2}
    UnitIds = {starter, other}
    StarterUnitId = starter
    InitialVersions = {0, 1, 2, 3}
    MaxStarts = 4
INVARIANTS
    TypeOK
    ServesCompleteProfile
    ProvisioningSucceeds
PROPERTIES
    RestartKeepsProfile
CHECK_DEADLOCK FALSE
