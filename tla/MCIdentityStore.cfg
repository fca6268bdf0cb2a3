SPECIFICATION FairSpec
CONSTANTS
    Connections = {c1, c2}
    Scopes = {cards, units}
    DomainIds = {d1, d2, d3}
    None = None
    MaxNumber = 3
    MaxCrashes = 1
    InitialVersions = {0, 1, 2, 3}
INVARIANTS
    TypeOK
    SchemaMatchesVersion
    Consecutive
    NoConstraintFailure
    IssuedNumbersResolve
PROPERTIES
    ImplementsAllocator
    EventuallyMigrated
