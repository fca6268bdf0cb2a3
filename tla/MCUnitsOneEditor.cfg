SPECIFICATION FairSpec
CONSTANTS
    e1 = e1
    e2 = e2
    teamA = teamA
    teamB = teamB
    teamBad = teamBad
    dressA = dressA
    dressB = dressB
    dressBad = dressBad
    NoTeam = NoTeam
    NoDress = NoDress
    None = None
    Editors = {e1}
    Loaders = {l1}
    Units = {1, 2}
    Teams = {teamA, teamB, teamBad}
    Dresses = {dressA, dressB, dressBad}
    RequestsOf <- OneEditor
    MaxCrashes = 1
INVARIANTS
    TypeOK
    AnsweredEditHolds
    RefusedEditsLeaveNoTrace
PROPERTY RequestsEnd
