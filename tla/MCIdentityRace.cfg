SPECIFICATION FairSpec
CONSTANTS
    Connections = {c1, c2}
    Scopes = {cards}
    DomainIds = {d1}
    None = None
    MaxNumber = 2
    MaxCrashes = 0
    InitialVersions = {0, 1, 2}
INVARIANT OpenersNeverCollide
