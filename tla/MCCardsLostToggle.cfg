SPECIFICATION Spec
CONSTANTS
    c1 = c1
    c2 = c2
    c3 = c3
    t1 = t1
    t2 = t2
    sold = sold
    None = None
    Cards = {c1}
    CardOf <- MCCardOf
    Threads = {t1, t2}
    RequestsOf <- SameCard
    InitialCards <- AnyRows
    MaxCrashes = 0
INVARIANT NoLostToggle
