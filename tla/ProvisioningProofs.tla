------------------------- MODULE ProvisioningProofs -------------------------
(***************************************************************************)
(* Theorems about Provisioning, for any number of players, revisions,      *)
(* cards, units and starts, on files of any version and content, wherever  *)
(* each start dies.  The argument: every commit leaves rows that belong    *)
(* together, and a card in each file with a profile (RowsOK); each step of *)
(* a start leaves a trace in the file that the next step, or the next      *)
(* start, finds (StartedSoFar).                                            *)
(***************************************************************************)
EXTENDS Provisioning, FiniteSetTheorems, WellFoundedInduction, TLAPS

(* Min finds the least element of a set of numbers. *)
LEMMA MinIsLeast ==
    ASSUME NEW S \in SUBSET Nat, S # {}
    PROVE  Min(S) \in S /\ \A y \in S : Min(S) =< y
<1> DEFINE R == OpToRel(<, Nat)
<1>1. PICK x \in S : \A y \in S : ~ (<<y, x>> \in R)
  <2> HIDE DEF R
  <2>1. IsWellFoundedOn(R, Nat)
    BY NatLessThanWellFounded DEF R
  <2> QED
    BY <2>1, WFMin
<1>2. \A y \in S : x =< y
  <2> SUFFICES ASSUME NEW y \in S PROVE x =< y
    OBVIOUS
  <2>1. <<y, x>> \in R <=> y < x
    BY DEF OpToRel
  <2> HIDE DEF R
  <2>2. ~ (y < x)
    BY <1>1, <2>1
  <2> QED
    BY <2>2
<1> QED
  BY <1>2 DEF Min

(* The leader that /load/index shows is a card of the player. *)
LEMMA LeaderIsOwned ==
    ASSUME Cards(player) # {}
    PROVE  Min(Cards(player)) \in Cards(player)
<1>1. Cards(player) \subseteq Nat
  BY CardsAssumption DEF Cards
<1> QED
  BY <1>1, MinIsLeast

(* The starter unit is a row of its player with cards of the player. *)
LEMMA StarterUnitIsAUnit ==
    ASSUME player \in Players
    PROVE  [owner |-> player, members |-> FirstFive(Cards(player))] \in Units
BY DEF Units, FirstFive, Cards

(* A file of any version, new or used, is one the server can be started on. *)
LEMMA InitIInv == Init => IInv
<1> SUFFICES ASSUME Init PROVE IInv
  OBVIOUS
<1>1. TypeOK
  <2>1. schema \in 0..SchemaVersion + 1 /\ starts \in 0..MaxStarts
    BY VersionAssumption, StartsAssumption DEF Init
  <2>2. owner \in [CardIds -> Players \cup {None}]
    BY DEF Init
  <2>3. units \in [UnitIds -> Units \cup {None}]
    BY DEF Init, Units
  <2> QED
    BY <2>1, <2>2, <2>3 DEF Init, TypeOK
<1>2. RowsOK
  BY DEF Init
<1>3. StartedSoFar /\ ProvisioningSucceeds
  BY DEF Init, StartedSoFar, ProvisioningSucceeds
<1> QED
  BY <1>1, <1>2, <1>3 DEF IInv

(* The steps of a start keep the types and what the start has found so far. *)
LEMMA StepTypeOK == IInv /\ [Next]_vars => TypeOK'
<1> SUFFICES ASSUME IInv, [Next]_vars PROVE TypeOK'
  OBVIOUS
<1> USE DEF IInv
<1>1. CASE UNCHANGED vars
  BY <1>1 DEF TypeOK, EmptyFile, vars, db
<1>2. ASSUME NEW p \in Players, NEW r \in Revisions, Start(p, r) PROVE TypeOK'
  BY <1>2, StartsAssumption DEF TypeOK, EmptyFile, Start, Goto, db
<1>3. CASE MigrateOne
  <2>1. schema' \in 0..SchemaVersion + 1 /\ schema' # 0
    BY <1>3 DEF TypeOK, MigrateOne, SchemaVersion
  <2> QED
    BY <1>3, <2>1 DEF TypeOK, MigrateOne
<1>4. CASE RefuseNewer
  BY <1>4 DEF TypeOK, EmptyFile, RefuseNewer, Goto, db
<1>5. CASE BindRevision
  BY <1>5 DEF TypeOK, StartedSoFar, BindRevision, Goto, SchemaVersion
<1>6. CASE ProfileExists
  BY <1>6 DEF TypeOK, EmptyFile, ProfileExists, Goto, db
<1>7. CASE BeginBootstrap
  BY <1>7 DEF TypeOK, EmptyFile, BeginBootstrap, Goto, db
<1>8. CASE CommitBootstrap
  <2>1. player \in Players /\ schema # 0
    BY <1>8 DEF StartedSoFar, CommitBootstrap, Goto, SchemaVersion
  <2>2. owner' \in [CardIds -> Players \cup {None}]
    BY <1>8, <2>1 DEF TypeOK, CommitBootstrap
  <2> QED
    BY <1>8, <2>1, <2>2 DEF TypeOK, CommitBootstrap, Goto
<1>9. CASE NoOwnedCard
  BY <1>9 DEF TypeOK, EmptyFile, NoOwnedCard, Goto, db
<1>10. CASE TakeLeader
  <2>1. leader' \in CardIds
    BY <1>10, LeaderIsOwned DEF TakeLeader, Cards
  <2> QED
    BY <1>10, <2>1 DEF TypeOK, EmptyFile, TakeLeader, Goto, db
<1>11. CASE SaveStarterUnit
  <2>1. player \in Players /\ schema # 0
    BY <1>11 DEF StartedSoFar, SaveStarterUnit, Goto, SchemaVersion
  <2>2. units' \in [UnitIds -> Units \cup {None}]
    BY <1>11, <2>1, StarterUnitIsAUnit DEF TypeOK, SaveStarterUnit
  <2> QED
    BY <1>11, <2>1, <2>2 DEF TypeOK, SaveStarterUnit, Goto
<1>12. ASSUME NEW u \in UnitIds, NEW team \in SUBSET CardIds, EditUnit(u, team) PROVE TypeOK'
  <2>1. player \in Players /\ schema # 0
    BY <1>12 DEF StartedSoFar, EditUnit, SchemaVersion
  <2>2. [owner |-> player, members |-> team] \in Units
    BY <2>1 DEF Units
  <2>3. units' \in [UnitIds -> Units \cup {None}]
    BY <1>12, <2>2 DEF TypeOK, EditUnit
  <2> QED
    BY <1>12, <2>1, <2>3 DEF TypeOK, EditUnit
<1>13. CASE Stop
  BY <1>13 DEF TypeOK, EmptyFile, Stop, db
<1> QED
  BY <1>1, <1>2, <1>3, <1>4, <1>5, <1>6, <1>7, <1>8, <1>9, <1>10, <1>11, <1>12, <1>13
     DEF Next, Proceed

(* Every step keeps StartedSoFar. *)
LEMMA StepStarted == IInv /\ [Next]_vars => StartedSoFar'
<1> SUFFICES ASSUME IInv, [Next]_vars PROVE StartedSoFar'
  OBVIOUS
<1> USE DEF IInv
<1>1. CASE UNCHANGED vars
  BY <1>1 DEF StartedSoFar, vars, db, Cards, HasUnit
<1>2. ASSUME NEW p \in Players, NEW r \in Revisions, Start(p, r) PROVE StartedSoFar'
  BY <1>2 DEF StartedSoFar, Start, Goto
<1>3. CASE MigrateOne \/ RefuseNewer
  BY <1>3 DEF StartedSoFar, MigrateOne, RefuseNewer, Goto, db
<1>4. CASE BindRevision
  <2>1. revision' # None
    BY <1>4, NoneAssumption DEF StartedSoFar, BindRevision, Goto
  <2> QED
    BY <1>4, <2>1 DEF StartedSoFar, BindRevision, Goto
<1>5. CASE ProfileExists \/ BeginBootstrap
  BY <1>5 DEF StartedSoFar, ProfileExists, BeginBootstrap, Goto, db
<1>6. CASE CommitBootstrap
  BY <1>6 DEF StartedSoFar, CommitBootstrap, Goto
<1>7. CASE NoOwnedCard
  BY <1>7 DEF StartedSoFar, NoOwnedCard, Goto, db
<1>8. CASE TakeLeader
  <2>1. leader' \in Cards(player) /\ Cards(player)' = Cards(player)
    BY <1>8, LeaderIsOwned DEF TakeLeader, Cards, db
  <2> QED
    BY <1>8, <2>1 DEF StartedSoFar, TakeLeader, Goto, db, HasUnit
<1>9. CASE SaveStarterUnit
  <2>1. player \in Players
    BY <1>9 DEF StartedSoFar, SaveStarterUnit, Goto
  <2>2. PICK row \in Units : row.owner = player /\ units' = [units EXCEPT ![StarterUnitId] = row]
    BY <1>9, <2>1, StarterUnitIsAUnit DEF SaveStarterUnit
  <2>3. units'[StarterUnitId] = row /\ row # None
    BY <2>2, UnitsAssumption, NoneAssumption DEF TypeOK
  <2>4. HasUnit(player)'
    BY <1>9, <2>2, <2>3, UnitsAssumption DEF HasUnit, SaveStarterUnit
  <2> QED
    BY <1>9, <2>4 DEF StartedSoFar, SaveStarterUnit, Goto, Cards
<1>10. ASSUME NEW u \in UnitIds, NEW team \in SUBSET CardIds, EditUnit(u, team) PROVE StartedSoFar'
  <2>1. [owner |-> player, members |-> team] \in Units
    BY <1>10 DEF StartedSoFar, EditUnit, Units
  <2>2. units'[u] = [owner |-> player, members |-> team]
    BY <1>10 DEF EditUnit, TypeOK
  <2>3. units'[u] # None /\ units'[u].owner = player
    BY <2>1, <2>2, NoneAssumption
  <2>4. HasUnit(player)'
    BY <1>10, <2>3 DEF HasUnit, EditUnit
  <2> QED
    BY <1>10, <2>4 DEF StartedSoFar, EditUnit, Cards
<1>11. CASE Stop
  BY <1>11 DEF StartedSoFar, Stop
<1> QED
  BY <1>1, <1>2, <1>3, <1>4, <1>5, <1>6, <1>7, <1>8, <1>9, <1>10, <1>11 DEF Next, Proceed

(* Every commit leaves rows that belong together: a bootstrap saves its profile
   with the cards, and units are saved for a profile with cards of its own. *)
LEMMA StepRows == IInv /\ [Next]_vars => RowsOK'
<1> SUFFICES ASSUME IInv, [Next]_vars PROVE RowsOK'
  OBVIOUS
<1> USE DEF IInv
<1>1. CASE CommitBootstrap
  <2>1. /\ player \in Players /\ player # None
        /\ profiles' = profiles \cup {player} /\ units' = units
        /\ owner' = [c \in CardIds |-> IF c \in StarterIds THEN player ELSE owner[c]]
    BY <1>1, NoneAssumption DEF StartedSoFar, CommitBootstrap, Goto
  <2>2. IsFiniteSet(profiles')
    BY <2>1, FS_AddElement DEF RowsOK
  <2>3. \A c \in CardIds : owner'[c] # None => owner'[c] \in profiles'
    BY <2>1 DEF RowsOK
  <2>4. \A c \in CardIds : owner[c] # None => owner'[c] # None
    BY <2>1
  <2>5. \A u \in UnitIds : units[u] # None => units[u].members \subseteq CardIds
    BY DEF TypeOK, Units
  <2>6. \A u \in UnitIds : units'[u] # None =>
            units'[u].owner \in profiles' /\ \A c \in units'[u].members : owner'[c] # None
    BY <2>1, <2>4, <2>5 DEF RowsOK
  <2>7. \E c \in CardIds : owner'[c] # None
    BY <2>1, CardsAssumption
  <2> QED
    BY <2>2, <2>3, <2>6, <2>7 DEF RowsOK
<1>2. ASSUME NEW u \in UnitIds, NEW team \in SUBSET Cards(player), player \in profiles,
             units' = [units EXCEPT ![u] = [owner |-> player, members |-> team]],
             UNCHANGED <<profiles, owner>>
      PROVE  RowsOK'
  <2>1. player # None
    BY <1>2, NoneAssumption DEF TypeOK
  <2>2. \A c \in team : owner[c] # None
    BY <2>1 DEF Cards
  <2>3. \A v \in UnitIds : units'[v] = IF v = u THEN [owner |-> player, members |-> team] ELSE units[v]
    BY <1>2 DEF TypeOK
  <2>4. \A v \in UnitIds : units'[v] # None =>
            units'[v].owner \in profiles /\ \A c \in units'[v].members : owner[c] # None
    BY <1>2, <2>2, <2>3 DEF RowsOK
  <2> QED
    BY <1>2, <2>4 DEF RowsOK
<1>3. CASE SaveStarterUnit
  <2>1. FirstFive(Cards(player)) \in SUBSET Cards(player)
    BY DEF FirstFive
  <2>2. /\ player \in profiles /\ UNCHANGED <<profiles, owner>>
        /\ units' = [units EXCEPT ![StarterUnitId] = [owner |-> player, members |-> FirstFive(Cards(player))]]
    BY <1>3 DEF StartedSoFar, SaveStarterUnit, Goto
  <2> QED
    BY <1>2, <2>1, <2>2, UnitsAssumption
<1>4. ASSUME NEW u \in UnitIds, NEW team \in SUBSET CardIds, EditUnit(u, team)
      PROVE  RowsOK'
  BY <1>2, <1>4 DEF EditUnit, StartedSoFar
<1>5. CASE UNCHANGED <<profiles, owner, units>>
  BY <1>5 DEF RowsOK
<1> QED
  BY <1>1, <1>3, <1>4, <1>5
     DEF Next, Proceed, vars, db, Start, MigrateOne, RefuseNewer, BindRevision, ProfileExists,
         BeginBootstrap, NoOwnedCard, TakeLeader, Stop

(* Two profiles are more than one. *)
LEMMA OneProfile ==
    ASSUME IsFiniteSet(profiles), Cardinality(profiles) <= 1, NEW p \in profiles, NEW q \in profiles
    PROVE  p = q
<1> SUFFICES ASSUME p # q PROVE FALSE
  OBVIOUS
<1>1. IsFiniteSet({p}) /\ Cardinality({p}) = 1
  BY FS_Singleton
<1>2. q \notin {p}
  OBVIOUS
<1>3. IsFiniteSet({p} \cup {q}) /\ Cardinality({p} \cup {q}) = Cardinality({p}) + 1
  BY <1>1, <1>2, FS_AddElement
<1>4. {p} \cup {q} \subseteq profiles
  OBVIOUS
<1>5. Cardinality({p} \cup {q}) <= Cardinality(profiles)
  BY <1>4, FS_Subset
<1>6. Cardinality(profiles) \in Nat
  BY FS_CardinalityType
<1> QED
  BY <1>1, <1>3, <1>5, <1>6

(* A profile without cards has lost them to another profile. *)
LEMMA NoCardsTwoProfiles ==
    ASSUME RowsOK, player \in profiles, Cards(player) = {}
    PROVE  ~ (Cardinality(profiles) <= 1)
<1>1. PICK c \in CardIds : owner[c] \in profiles
  BY DEF RowsOK
<1>2. owner[c] # player
  BY <1>1 DEF Cards
<1> QED
  BY <1>1, <1>2, OneProfile DEF RowsOK

(* Every step keeps ProvisioningSucceeds. *)
LEMMA StepSucceeds == IInv /\ [Next]_vars => ProvisioningSucceeds'
<1> SUFFICES ASSUME IInv, [Next]_vars, pc' = "failed", Cardinality(profiles') <= 1
             PROVE  schema' > SchemaVersion
  BY DEF ProvisioningSucceeds
<1> USE DEF IInv
<1>1. CASE NoOwnedCard
  BY <1>1, NoCardsTwoProfiles DEF NoOwnedCard, Goto, db, StartedSoFar
<1>2. CASE RefuseNewer
  BY <1>2 DEF RefuseNewer, Goto, db
<1>3. CASE ~NoOwnedCard /\ ~RefuseNewer
  <2>1. pc = "failed" /\ schema' = schema /\ profiles' = profiles
    BY <1>3 DEF Next, Proceed, vars, db, Goto, Start, MigrateOne, BindRevision, ProfileExists,
                BeginBootstrap, CommitBootstrap, TakeLeader, SaveStarterUnit, EditUnit, Stop
  <2> QED
    BY <2>1 DEF ProvisioningSucceeds
<1> QED
  BY <1>1, <1>2, <1>3

-----------------------------------------------------------------------------
(* The invariant of provisioning, for any number of players, starts and deaths. *)
THEOREM InductiveInvariant == Spec => []IInv
<1>1. IInv /\ [Next]_vars => IInv'
  BY StepTypeOK, StepStarted, StepRows, StepSucceeds DEF IInv
<1> QED
  BY <1>1, InitIInv, PTL DEF Spec

(* Types; nothing is written to a file before it has its tables. *)
THEOREM TypeCorrect == Spec => []TypeOK
<1>1. IInv => TypeOK
  BY DEF IInv
<1> QED
  BY <1>1, InductiveInvariant, PTL

(* A server that serves works on a migrated file of its revision with a profile, a
   unit and a leader of the player's own, whatever the file held and wherever earlier
   starts have died; in a file of one player no unit names a card of somebody else. *)
THEOREM ServersAreComplete == Spec => []ServesCompleteProfile
<1>1. IInv => ServesCompleteProfile
  <2> SUFFICES ASSUME IInv, pc = "serving"
               PROVE  /\ schema = SchemaVersion /\ revision = wanted
                      /\ Provisioned(player) /\ leader \in Cards(player)
                      /\ Cardinality(profiles) <= 1 => \A u \in UnitIds : units[u] # None =>
                            units[u].owner = player /\ units[u].members \subseteq Cards(player)
    BY DEF ServesCompleteProfile
  <2>1. /\ schema = SchemaVersion /\ revision = wanted
        /\ player \in profiles /\ leader \in Cards(player) /\ HasUnit(player)
    BY DEF IInv, StartedSoFar
  <2>2. ASSUME Cardinality(profiles) <= 1, NEW u \in UnitIds, units[u] # None
        PROVE  units[u].owner = player /\ units[u].members \subseteq Cards(player)
    <3>1. units[u].owner \in profiles /\ \A c \in units[u].members : owner[c] # None
      BY <2>2 DEF IInv, RowsOK
    <3>2. units[u].members \subseteq CardIds
      BY <2>2 DEF IInv, TypeOK, Units
    <3>3. \A c \in units[u].members : owner[c] \in profiles
      BY <3>1, <3>2 DEF IInv, RowsOK
    <3>4. \A p \in profiles : p = player
      BY <2>1, <2>2, OneProfile DEF IInv, RowsOK
    <3> QED
      BY <3>1, <3>2, <3>3, <3>4 DEF Cards
  <2> QED
    BY <2>1, <2>2 DEF Provisioned
<1> QED
  BY <1>1, InductiveInvariant, PTL

(* Provisioning fails only for a file of a newer schema, as long as the file has
   been used for one player. *)
THEOREM ProvisioningNeverLacksCards == Spec => []ProvisioningSucceeds
<1>1. IInv => ProvisioningSucceeds
  BY DEF IInv
<1> QED
  BY <1>1, InductiveInvariant, PTL

(* A start that finds a complete profile changes nothing in it. *)
THEOREM RestartsKeepProfile == Spec => RestartKeepsProfile
<1>1. IInv /\ [Next]_vars =>
          [pc \notin {"down", "serving"} /\ Provisioned(player) => UNCHANGED <<profiles, owner, units>>]_vars
  <2> SUFFICES ASSUME IInv, [Next]_vars, pc \notin {"down", "serving"}, Provisioned(player)
               PROVE  UNCHANGED <<profiles, owner, units>>
    OBVIOUS
  <2>1. ~CommitBootstrap /\ ~SaveStarterUnit
    BY DEF IInv, StartedSoFar, Provisioned, CommitBootstrap, SaveStarterUnit, Goto
  <2> QED
    BY <2>1 DEF Next, Proceed, vars, db, Goto, Start, MigrateOne, RefuseNewer, BindRevision,
                ProfileExists, BeginBootstrap, NoOwnedCard, TakeLeader, EditUnit, Stop
<1> QED
  BY <1>1, InductiveInvariant, PTL DEF Spec, RestartKeepsProfile

(* The theft that MCProvisionTheft finds needs a second player: in a file that is
   started for one player only no unit holds a card of somebody else. *)
THEOREM OnePlayerKeepsCards ==
    ASSUME \A p, q \in Players : p = q
    PROVE  Spec => []NoForeignCardInUnit
<1>1. IInv => NoForeignCardInUnit
  <2> SUFFICES ASSUME IInv, NEW u \in UnitIds, units[u] # None, NEW c \in units[u].members
               PROVE  owner[c] = units[u].owner
    BY DEF NoForeignCardInUnit
  <2>1. units[u].owner \in profiles /\ c \in CardIds /\ owner[c] \in profiles
    BY DEF IInv, TypeOK, RowsOK, Units
  <2>2. profiles \subseteq Players
    BY DEF IInv, TypeOK
  <2> QED
    BY <2>1, <2>2
<1> QED
  BY <1>1, InductiveInvariant, PTL
=============================================================================
