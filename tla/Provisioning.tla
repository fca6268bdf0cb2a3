---------------------------- MODULE Provisioning ----------------------------
(***************************************************************************)
(* The start of server/domain_server.py on a domain database file: migrate *)
(* the schema, bind the revisions, bootstrap the profile of --player-id if *)
(* it is missing, give it a starter unit, and only then serve.  Over the   *)
(* life of the file the server is started many times, for one player or    *)
(* for several, and may die at any step.  The file may come from an        *)
(* earlier version of the program and hold the profiles, cards and units   *)
(* that were saved with it, bound to a revision or to none.                *)
(***************************************************************************)
EXTENDS Naturals, FiniteSets, FiniteSetsExt

CONSTANTS
    Players,          \* the --player-id values the server is started with
    Revisions,        \* the --master-revision values the server is started with
    CardIds,          \* ids of user_cards rows, numbered in the order of list_cards
    StarterIds,       \* those a new SequentialIdGenerator gives to the starter cards
    UnitIds,          \* ids of units rows
    StarterUnitId,    \* "unit:starter"
    None,             \* no player, no unit, no revision, no card
    InitialVersions,  \* schema versions of the files the server may be started on
    MaxStarts         \* bound on the number of starts

SchemaVersion == 2
Units == [owner : Players, members : SUBSET CardIds]

ASSUME CardsAssumption == CardIds \subseteq Nat /\ StarterIds \subseteq CardIds /\ StarterIds # {}
ASSUME UnitsAssumption == StarterUnitId \in UnitIds
ASSUME VersionAssumption == InitialVersions \subseteq 0..SchemaVersion + 1
ASSUME StartsAssumption == MaxStarts \in Nat
ASSUME NoneAssumption == None \notin Players \cup Revisions \cup CardIds \cup Units

VARIABLES
    schema,     \* committed user_version
    revision,   \* committed master_revision metadata, or None
    profiles,   \* committed players rows
    owner,      \* committed player_id of each user_cards row, None where there is none
    units,      \* committed row and members of each unit, None where there is none
    pc,         \* what the server process does next
    player,     \* its --player-id
    wanted,     \* its --master-revision
    leader,     \* the leader card handed to the /load/index configuration
    starts

db   == <<schema, revision, profiles, owner, units>>
vars == <<db, pc, player, wanted, leader, starts>>

Cards(p) == {c \in CardIds : owner[c] = p}
HasUnit(p) == \E u \in UnitIds : units[u] # None /\ units[u].owner = p
Provisioned(p) == p \in profiles /\ Cards(p) # {} /\ HasUnit(p)

\* What the tables of every version keep: an owner has a profile, and a member
\* of a unit is a card (foreign keys).  A file with a profile holds a card: each
\* bootstrap gives one, and no program of the repository deletes any.
RowsOK ==
    /\ IsFiniteSet(profiles)
    /\ \A c \in CardIds : owner[c] # None => owner[c] \in profiles
    /\ \A u \in UnitIds : units[u] # None =>
          units[u].owner \in profiles /\ \A c \in units[u].members : owner[c] # None
    /\ profiles # {} => \E c \in CardIds : owner[c] # None

\* A file without tables holds nothing.
EmptyFile ==
    /\ revision = None
    /\ profiles = {}
    /\ owner = [c \in CardIds |-> None]
    /\ units = [u \in UnitIds |-> None]

\* A new file, or one of an earlier or a newer version with whatever was saved in it.
Init ==
    /\ schema \in InitialVersions
    /\ revision \in Revisions \cup {None}
    /\ profiles \in SUBSET Players
    /\ owner \in [CardIds -> profiles \cup {None}]
    /\ units \in [UnitIds -> [owner : profiles, members : SUBSET {c \in CardIds : owner[c] # None}] \cup {None}]
    /\ RowsOK
    /\ schema = 0 => EmptyFile
    /\ pc = "down"
    /\ player = None
    /\ wanted = None
    /\ leader = None
    /\ starts = 0

-----------------------------------------------------------------------------
Goto(from, to) == pc = from /\ pc' = to

Start(p, r) ==
    /\ starts < MaxStarts
    /\ starts' = starts + 1
    /\ Goto("down", "migrate")
    /\ player' = p
    /\ wanted' = r
    /\ UNCHANGED <<db, leader>>

\* migrate: one transaction per missing version.
MigrateOne ==
    /\ pc = "migrate"
    /\ schema < SchemaVersion
    /\ schema' = schema + 1
    /\ UNCHANGED <<revision, profiles, owner, units, pc, player, wanted, leader, starts>>

\* RuntimeError: the file was written by a newer program.
RefuseNewer ==
    /\ schema > SchemaVersion
    /\ Goto("migrate", "failed")
    /\ UNCHANGED <<db, player, wanted, leader, starts>>

\* Mutant: the revisions are bound before the schema is complete.
BindRevisionEarly ==
    /\ Goto("migrate", IF revision \in {None, wanted} THEN "bootstrap" ELSE "refused")
    /\ revision' = IF revision = None THEN wanted ELSE revision
    /\ UNCHANGED <<schema, profiles, owner, units, player, wanted, leader, starts>>

\* The last transaction of migrate binds the revisions, or raises ValueError.
BindRevision ==
    /\ schema = SchemaVersion
    /\ Goto("migrate", IF revision \in {None, wanted} THEN "bootstrap" ELSE "refused")
    /\ revision' = IF revision = None THEN wanted ELSE revision
    /\ UNCHANGED <<schema, profiles, owner, units, player, wanted, leader, starts>>

\* bootstrap_profile returns an existing profile as it is.
ProfileExists ==
    /\ player \in profiles
    /\ Goto("bootstrap", "snapshot")
    /\ UNCHANGED <<db, player, wanted, leader, starts>>

\* Mutant: the profile row is committed before the cards are.
BootstrapWithoutTransaction ==
    /\ player \notin profiles
    /\ Goto("bootstrap", "granting")
    /\ profiles' = profiles \cup {player}
    /\ UNCHANGED <<schema, revision, owner, units, player, wanted, leader, starts>>

BeginBootstrap ==
    /\ player \notin profiles
    /\ Goto("bootstrap", "granting")
    /\ UNCHANGED <<db, player, wanted, leader, starts>>

\* save_profile, save_card for each grant, and COMMIT.  A new SequentialIdGenerator
\* counts from card:1 again, and save_card overwrites the row that has its id.
CommitBootstrap ==
    /\ Goto("granting", "snapshot")
    /\ profiles' = profiles \cup {player}
    /\ owner' = [c \in CardIds |-> IF c \in StarterIds THEN player ELSE owner[c]]
    /\ UNCHANGED <<schema, revision, units, player, wanted, leader, starts>>

\* RuntimeError("archival provisioning has no owned card")
NoOwnedCard ==
    /\ Cards(player) = {}
    /\ Goto("snapshot", "failed")
    /\ UNCHANGED <<db, player, wanted, leader, starts>>

\* Mutant: the starter unit is saved at every start.
TakeLeaderAndReset ==
    /\ Cards(player) # {}
    /\ leader' = Min(Cards(player))
    /\ Goto("snapshot", "saveunit")
    /\ UNCHANGED <<db, player, wanted, starts>>

\* Mutant: the server starts to serve without a unit.
TakeLeaderOnly ==
    /\ Cards(player) # {}
    /\ leader' = Min(Cards(player))
    /\ Goto("snapshot", "serving")
    /\ UNCHANGED <<db, player, wanted, starts>>

TakeLeader ==
    /\ Cards(player) # {}
    /\ leader' = Min(Cards(player))
    /\ Goto("snapshot", IF HasUnit(player) THEN "serving" ELSE "saveunit")
    /\ UNCHANGED <<db, player, wanted, starts>>

\* The first five cards that list_cards returns.
FirstFive(cards) == {c \in cards : Cardinality({d \in cards : d < c}) < 5}

\* save_unit overwrites the row "unit:starter"; all its members belong to the player.
SaveStarterUnit ==
    /\ Goto("saveunit", "serving")
    /\ units' = [units EXCEPT ![StarterUnitId] = [owner |-> player, members |-> FirstFive(Cards(player))]]
    /\ UNCHANGED <<schema, revision, profiles, owner, player, wanted, leader, starts>>

\* Served requests only replace the members of the player's units by cards of the player.
EditUnit(u, team) ==
    /\ pc = "serving"
    /\ units[u] # None /\ units[u].owner = player
    /\ team \subseteq Cards(player)
    /\ units' = [units EXCEPT ![u] = [owner |-> player, members |-> team]]
    /\ UNCHANGED <<schema, revision, profiles, owner, pc, player, wanted, leader, starts>>

\* The process exits after an error, is stopped, or dies: open transactions roll back.
Stop ==
    /\ pc # "down"
    /\ pc' = "down"
    /\ player' = None
    /\ wanted' = None
    /\ leader' = None
    /\ UNCHANGED <<db, starts>>

-----------------------------------------------------------------------------
Proceed ==
    \/ MigrateOne
    \/ RefuseNewer
    \/ BindRevision
    \/ ProfileExists
    \/ BeginBootstrap
    \/ CommitBootstrap
    \/ NoOwnedCard
    \/ TakeLeader
    \/ SaveStarterUnit

Next ==
    \/ \E p \in Players, r \in Revisions : Start(p, r)
    \/ Proceed
    \/ \E u \in UnitIds, team \in SUBSET CardIds : EditUnit(u, team)
    \/ Stop

Spec == Init /\ [][Next]_vars

-----------------------------------------------------------------------------
(* Properties *)

\* Types, and nothing is written to a file before it has its tables (persistence.py migrate).
TypeOK ==
    /\ schema \in 0..SchemaVersion + 1
    /\ revision \in Revisions \cup {None}
    /\ profiles \subseteq Players
    /\ owner \in [CardIds -> Players \cup {None}]
    /\ units \in [UnitIds -> Units \cup {None}]
    /\ pc \in {"down", "migrate", "bootstrap", "granting", "snapshot", "saveunit", "serving",
               "failed", "refused"}
    /\ player \in Players \cup {None}
    /\ wanted \in Revisions \cup {None}
    /\ leader \in CardIds \cup {None}
    /\ starts \in 0..MaxStarts
    /\ schema = 0 => EmptyFile

\* A server that serves works on a migrated file of its own revision and has
\* everything /load/index projects: a profile, a unit, and a leader among the
\* player's own cards, whatever an older version or a start that died has left in
\* the file.  As long as one player uses it, no unit names a card of somebody else.
ServesCompleteProfile ==
    pc = "serving" =>
        /\ schema = SchemaVersion /\ revision = wanted
        /\ Provisioned(player)
        /\ leader \in Cards(player)
        /\ Cardinality(profiles) <= 1 => \A u \in UnitIds :
              units[u] # None => units[u].owner = player /\ units[u].members \subseteq Cards(player)

\* Starting the server again changes nothing in a profile that is complete, in
\* particular not what the player has edited since; nor does a migration ("Preserve
\* old profiles through an explicit migration").
RestartKeepsProfile ==
    [][pc \notin {"down", "serving"} /\ Provisioned(player) => UNCHANGED <<profiles, owner, units>>]_vars

\* "Ensure one deterministic archival profile and starter unit exist": wherever
\* an earlier start has died, provisioning does not fail for want of a card, as
\* long as the file has been used for one player only.
ProvisioningSucceeds ==
    pc = "failed" /\ Cardinality(profiles) <= 1 => schema > SchemaVersion

\* "unit cannot reference a card owned by another player"
NoForeignCardInUnit ==
    \A u \in UnitIds : units[u] # None => \A c \in units[u].members : owner[c] = units[u].owner

-----------------------------------------------------------------------------
(* The inductive invariant *)

\* What the steps of the start have found or made so far.
StartedSoFar ==
    /\ pc # "down" => player \in Players /\ wanted \in Revisions
    /\ pc \in {"bootstrap", "granting", "snapshot", "saveunit", "serving"} =>
          schema = SchemaVersion /\ revision = wanted
    /\ pc = "granting" => player \notin profiles
    /\ pc \in {"snapshot", "saveunit", "serving"} => player \in profiles
    /\ pc \in {"saveunit", "serving"} => leader \in Cards(player)
    /\ pc = "saveunit" => ~HasUnit(player)
    /\ pc = "serving" => HasUnit(player)

IInv ==
    /\ TypeOK
    /\ RowsOK
    /\ StartedSoFar
    /\ ProvisioningSucceeds
=============================================================================
