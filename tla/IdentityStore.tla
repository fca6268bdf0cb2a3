--------------------------- MODULE IdentityStore ---------------------------
(***************************************************************************)
(* server/adapters/identity_store.py: the compatibility identity database. *)
(* Every HTTP request thread opens a connection of its own, migrates the   *)
(* schema if needed, and then binds domain ids to client-facing numbers.   *)
(*                                                                         *)
(* A transaction (BEGIN IMMEDIATE ... COMMIT) holds SQLite's single write  *)
(* lock from its first statement, so its uncommitted writes are visible to *)
(* nobody: they are installed by the step that commits.  Reads outside a   *)
(* transaction see the committed state.                                    *)
(***************************************************************************)
EXTENDS Naturals, FiniteSets, FiniteSetsExt

CONSTANTS
    Connections,     \* SQLite connections: one per request in flight
    Scopes,          \* (table, player) pairs: the card and the unit table of each player
    DomainIds,       \* opaque semantic ids such as "card:1" or "unit:starter"
    None,            \* no connection, no row, no error
    MaxNumber,       \* bound on the client-facing numbers
    MaxCrashes,      \* bound on the server crashes
    InitialVersions  \* PRAGMA user_version of the files the server may be started on

SchemaVersion == 2

ASSUME BoundsAssumption == MaxNumber \in Nat /\ MaxCrashes \in Nat
ASSUME InitialVersionsAssumption == InitialVersions \subseteq 0..SchemaVersion + 1
Errors == {"newer", "exists", "locked", "constraint"}

ASSUME NoneAssumption == None \notin Connections \cup Errors

VARIABLES
    version,   \* committed PRAGMA user_version
    schema,    \* the migrations whose tables exist in the committed database
    bindings,  \* committed rows of card_identity_bindings and unit_identity_bindings
    lock,      \* the connection holding the write lock, or None
    pc,        \* what each connection does next
    job,       \* the row each connection's ensure call is about
    error,     \* the exception that ended each connection's request, or None
    issued,    \* rows returned to a caller so far
    crashes

vars == <<version, schema, bindings, lock, pc, job, error, issued, crashes>>

Rows == [scope : Scopes, domain : DomainIds, number : 1..MaxNumber]
Jobs == [scope : Scopes, domain : DomainIds, number : 0..MaxNumber]  \* 0: not chosen yet

Waiting == {"migrate1", "migrate2", "ensure"}            \* about to BEGIN IMMEDIATE
Holding == {"create1", "create2", "select", "insert", "commit"}
States  == {"closed", "opening", "ready", "failed"} \cup Waiting \cup Holding

Init ==
    /\ version \in InitialVersions
    /\ schema = 1..version
    /\ bindings = {}
    /\ lock = None
    /\ pc = [c \in Connections |-> "closed"]
    /\ job = [c \in Connections |-> None]
    /\ error = [c \in Connections |-> None]
    /\ issued = {}
    /\ crashes = 0

-----------------------------------------------------------------------------
(* The tables *)

Numbers(rows, s) == {row.number : row \in {r \in rows : r.scope = s}}

\* Mutants: numbers that start at 0, and a MAX over the rows of every player.
NextNumberFromZero(rows, s) ==
    IF Numbers(rows, s) = {} THEN 0 ELSE Max(Numbers(rows, s)) + 1
NextNumberOfTable(rows, s) ==
    IF rows = {} THEN 1 ELSE Max({row.number : row \in rows}) + 1

\* SELECT COALESCE(MAX(number), 0) + 1 ... WHERE player_id = ?
NextNumber(rows, s) ==
    IF Numbers(rows, s) = {} THEN 1 ELSE Max(Numbers(rows, s)) + 1

\* PRIMARY KEY (player_id, domain_id) and UNIQUE (player_id, number)
Conflicts(rows, row) ==
    \E other \in rows :
        /\ other.scope = row.scope
        /\ other.domain = row.domain \/ other.number = row.number

\* get_user_card_id and get_domain_unit_id: the ids a number resolves to
Resolve(rows, s, n) == {r.domain : r \in {row \in rows : row.scope = s /\ row.number = n}}

-----------------------------------------------------------------------------
(* Steps of one connection *)

Goto(c, from, to) == pc[c] = from /\ pc' = [pc EXCEPT ![c] = to]

\* An exception ends the request: the transaction, if any, is rolled back.
Raise(c, kind) ==
    /\ pc' = [pc EXCEPT ![c] = "failed"]
    /\ error' = [error EXCEPT ![c] = kind]
    /\ job' = [job EXCEPT ![c] = None]
    /\ lock' = IF lock = c THEN None ELSE lock

Open(c) ==
    /\ Goto(c, "closed", "opening")
    /\ UNCHANGED <<version, schema, bindings, lock, job, error, issued, crashes>>

\* _migrate reads user_version before, and outside, any transaction.
ReadVersion(c) ==
    /\ pc[c] = "opening"
    /\ version <= SchemaVersion
    /\ pc' = [pc EXCEPT ![c] = CASE version = 0 -> "migrate1"
                                 [] version = 1 -> "migrate2"
                                 [] OTHER       -> "ready"]
    /\ UNCHANGED <<version, schema, bindings, lock, job, error, issued, crashes>>

RefuseNewer(c) ==
    /\ pc[c] = "opening"
    /\ version > SchemaVersion
    /\ Raise(c, "newer")
    /\ UNCHANGED <<version, schema, bindings, issued, crashes>>

\* ensure_card_serial / ensure_unit_id is called on an open store.
StartEnsure(c, s, d) ==
    /\ Goto(c, "ready", "ensure")
    /\ job' = [job EXCEPT ![c] = [scope |-> s, domain |-> d, number |-> 0]]
    /\ UNCHANGED <<version, schema, bindings, lock, error, issued, crashes>>

InTransaction(state) == CASE state = "migrate1" -> "create1"
                          [] state = "migrate2" -> "create2"
                          [] state = "ensure"   -> "select"

\* Mutant: a deferred BEGIN, which takes no lock before the first write.
BeginDeferred(c) ==
    /\ pc[c] \in Waiting
    /\ lock' = c
    /\ pc' = [pc EXCEPT ![c] = InTransaction(pc[c])]
    /\ UNCHANGED <<version, schema, bindings, job, error, issued, crashes>>

BeginImmediate(c) ==
    /\ pc[c] \in Waiting
    /\ lock = None
    /\ lock' = c
    /\ pc' = [pc EXCEPT ![c] = InTransaction(pc[c])]
    /\ UNCHANGED <<version, schema, bindings, job, error, issued, crashes>>

\* The connection's busy timeout runs out while another connection writes.
BusyTimeout(c) ==
    /\ pc[c] \in Waiting
    /\ lock # None
    /\ Raise(c, "locked")
    /\ UNCHANGED <<version, schema, bindings, issued, crashes>>

\* Mutant: the second migration records the version of the first.
MigrateAsFirst(c, v, from, to) ==
    /\ Goto(c, from, to)
    /\ v \notin schema
    /\ schema' = schema \cup {v}
    /\ version' = 1
    /\ lock' = None
    /\ UNCHANGED <<bindings, job, error, issued, crashes>>

\* The DDL of one migration, PRAGMA user_version and COMMIT.
Migrate(c, v, from, to) ==
    /\ Goto(c, from, to)
    /\ v \notin schema
    /\ schema' = schema \cup {v}
    /\ version' = v
    /\ lock' = None
    /\ UNCHANGED <<bindings, job, error, issued, crashes>>

\* CREATE TABLE without IF NOT EXISTS, on a table another connection created.
TableExists(c, v, from) ==
    /\ pc[c] = from
    /\ v \in schema
    /\ Raise(c, "exists")
    /\ UNCHANGED <<version, schema, bindings, issued, crashes>>

SelectBinding(c) ==
    LET mine == {r \in bindings : r.scope = job[c].scope /\ r.domain = job[c].domain}
    IN  /\ pc[c] = "select"
        /\ \/ /\ mine # {}
              /\ \E r \in mine : job' = [job EXCEPT ![c] = r]
              /\ pc' = [pc EXCEPT ![c] = "commit"]
           \/ /\ mine = {}
              /\ NextNumber(bindings, job[c].scope) <= MaxNumber
              /\ job' = [job EXCEPT ![c].number = NextNumber(bindings, job[c].scope)]
              /\ pc' = [pc EXCEPT ![c] = "insert"]
        /\ UNCHANGED <<version, schema, bindings, lock, error, issued, crashes>>

InsertBinding(c) ==
    /\ pc[c] = "insert"
    /\ IF Conflicts(bindings, job[c])
         THEN Raise(c, "constraint")
         ELSE /\ pc' = [pc EXCEPT ![c] = "commit"]
              /\ UNCHANGED <<lock, job, error>>
    /\ UNCHANGED <<version, schema, bindings, issued, crashes>>

\* Mutant: the number is returned and the transaction is never committed.
CommitForgotten(c) ==
    /\ Goto(c, "commit", "ready")
    /\ issued' = issued \cup {job[c]}
    /\ job' = [job EXCEPT ![c] = None]
    /\ lock' = None
    /\ UNCHANGED <<version, schema, bindings, error, crashes>>

\* COMMIT, and only then the number is returned.
Commit(c) ==
    /\ Goto(c, "commit", "ready")
    /\ bindings' = bindings \cup {job[c]}
    /\ issued' = issued \cup {job[c]}
    /\ job' = [job EXCEPT ![c] = None]
    /\ lock' = None
    /\ UNCHANGED <<version, schema, error, crashes>>

Close(c) ==
    /\ pc[c] \in {"ready", "failed"}
    /\ pc' = [pc EXCEPT ![c] = "closed"]
    /\ error' = [error EXCEPT ![c] = None]
    /\ UNCHANGED <<version, schema, bindings, lock, job, issued, crashes>>

\* Mutants: DDL outside a transaction survives the crash that interrupts it, and
\* a database that is created anew at every start.
CrashKeepsTables ==
    /\ crashes < MaxCrashes
    /\ crashes' = crashes + 1
    /\ schema' = schema \cup {v \in {1, 2} : \E c \in Connections :
                                pc[c] = IF v = 1 THEN "create1" ELSE "create2"}
    /\ pc' = [c \in Connections |-> "closed"]
    /\ job' = [c \in Connections |-> None]
    /\ error' = [c \in Connections |-> None]
    /\ lock' = None
    /\ UNCHANGED <<version, bindings, issued>>
CrashLosesFile ==
    /\ crashes < MaxCrashes
    /\ crashes' = crashes + 1
    /\ version' = 0 /\ schema' = {} /\ bindings' = {}
    /\ pc' = [c \in Connections |-> "closed"]
    /\ job' = [c \in Connections |-> None]
    /\ error' = [c \in Connections |-> None]
    /\ lock' = None
    /\ UNCHANGED issued

\* The server dies: SQLite rolls back whatever was not committed.
Crash ==
    /\ crashes < MaxCrashes
    /\ crashes' = crashes + 1
    /\ pc' = [c \in Connections |-> "closed"]
    /\ job' = [c \in Connections |-> None]
    /\ error' = [c \in Connections |-> None]
    /\ lock' = None
    /\ UNCHANGED <<version, schema, bindings, issued>>

-----------------------------------------------------------------------------
MigrateStep(c) ==
    \/ Migrate(c, 1, "create1", "migrate2")
    \/ Migrate(c, 2, "create2", "ready")
    \/ TableExists(c, 1, "create1")
    \/ TableExists(c, 2, "create2")

\* What the connection's thread does by itself once a request is under way.
Proceed(c) ==
    \/ ReadVersion(c)
    \/ RefuseNewer(c)
    \/ BeginImmediate(c)
    \/ BusyTimeout(c)
    \/ MigrateStep(c)
    \/ SelectBinding(c)
    \/ InsertBinding(c)
    \/ Commit(c)

Next ==
    \/ \E c \in Connections :
          \/ Open(c)
          \/ Proceed(c)
          \/ \E s \in Scopes, d \in DomainIds : StartEnsure(c, s, d)
          \/ Close(c)
    \/ Crash

Spec == Init /\ [][Next]_vars

\* Threads run to the end of their request, and clients keep sending requests.
Fairness == \A c \in Connections : WF_vars(Open(c)) /\ WF_vars(Proceed(c)) /\ WF_vars(Close(c))

FairSpec == Spec /\ Fairness

-----------------------------------------------------------------------------
(* Properties *)

\* Every variable keeps its type; in particular every stored and every answered
\* number is positive, as the CHECK constraints and the client require.
TypeOK ==
    /\ version \in 0..SchemaVersion + 1
    /\ schema \subseteq 1..SchemaVersion + 1
    /\ bindings \subseteq Rows
    /\ lock \in Connections \cup {None}
    /\ pc \in [Connections -> States]
    /\ job \in [Connections -> Jobs \cup {None}]
    /\ error \in [Connections -> Errors \cup {None}]
    /\ issued \subseteq Rows
    /\ crashes \in 0..MaxCrashes

\* Whatever connections race and whenever the server dies, the recorded
\* user_version tells exactly which migrations' tables exist.
SchemaMatchesVersion == schema = 1..version

\* The numbers of a scope are 1, 2, ... without a gap: MAX + 1 is computed per
\* player and under the lock that also covers the insert.
Consecutive == \A s \in Scopes : \E n \in 0..MaxNumber : Numbers(bindings, s) = 1..n

\* No ensure call of a live connection runs into the PRIMARY KEY or the UNIQUE
\* constraint, however calls interleave.
NoConstraintFailure == \A c \in Connections : error[c] # "constraint"

\* A number the client has been given still resolves to the one id it was given
\* for, across later allocations, failed requests and crashes.
IssuedNumbersResolve ==
    \A row \in issued : Resolve(bindings, row.scope, row.number) = {row.domain}

\* A connection is inside a transaction exactly when it holds the write lock.
WriterHoldsLock == \A c \in Connections : pc[c] \in Holding <=> lock = c

\* A connection that goes on migrating has read a version that is still reached.
MigrationInOrder ==
    \A c \in Connections : pc[c] \in {"migrate2", "create2"} => version >= 1

\* No two rows of a scope share an id or a number.
Bijective ==
    \A row, other \in bindings :
        row.scope = other.scope =>
            (row.domain = other.domain <=> row.number = other.number)

\* What a writer has selected stays true until it commits.
SelectionStays ==
    \A c \in Connections :
        /\ pc[c] \in {"ensure", "select", "insert", "commit"} => job[c] \in Jobs
        /\ pc[c] = "insert" => job[c] \in Rows /\ ~Conflicts(bindings, job[c])
                               /\ job[c].number = NextNumber(bindings, job[c].scope)
        /\ pc[c] = "commit" => /\ job[c] \in Rows
                               /\ \/ job[c] \in bindings
                                  \/ /\ ~Conflicts(bindings, job[c])
                                     /\ job[c].number = NextNumber(bindings, job[c].scope)

\* The inductive invariant behind the properties above: what a transaction has
\* read under the write lock cannot change before it commits.
IInv ==
    /\ TypeOK
    /\ WriterHoldsLock
    /\ MigrationInOrder
    /\ SchemaMatchesVersion
    /\ Bijective
    /\ Consecutive
    /\ SelectionStays
    /\ issued \subseteq bindings
    /\ NoConstraintFailure

\* Although openers may collide in a migration, the schema is completed in the
\* end: a failed opener's next request finds work it can finish.
EventuallyMigrated == <>[](version >= SchemaVersion)

\* "Thread-safe" stores per request: no request fails because another one has
\* just created the tables.
OpenersNeverCollide == \A c \in Connections : error[c] # "exists"

Allocator == INSTANCE IdentityAllocator

\* The store implements the abstract allocator.
ImplementsAllocator == Allocator!Spec
=============================================================================
