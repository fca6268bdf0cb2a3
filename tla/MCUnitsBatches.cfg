SPECIFICATION Spec
CONSTANTS
    e1 = e1
    e2 = e2
    teamA = teamA
    teamB = teamB
    teamBad = teamBad
    dressA = dressA
    dressB = dressB
    dressBad = dressBad
    NoTeam = NoTeam
    NoDress = NoDress
    None = None
    Editors = {e1, e2}
    Loaders = {}
    Units = {1, 2}
    Teams = {teamA, teamB, teamBad}
    Dresses = {dressA, dressB, dressBad}
    RequestsOf <- Batches
    MaxCrashes = 0
INVARIANT EditsStayWhole
