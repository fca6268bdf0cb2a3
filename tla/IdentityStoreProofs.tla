------------------------ MODULE IdentityStoreProofs ------------------------
(***************************************************************************)
(* Theorems about IdentityStore, for any number of connections, scopes and *)
(* ids.  The argument: what a transaction selects under the write lock     *)
(* cannot change before the transaction commits (SelectionStays), so the   *)
(* insert never meets a constraint and keeps the numbers of its scope      *)
(* consecutive; rows are never removed, so an answer stays true.           *)
(***************************************************************************)
EXTENDS IdentityStore, TLAPS

(* The largest element of 1..n, as FiniteSetsExt defines Max. *)
LEMMA MaxOfInterval ==
    ASSUME NEW n \in Nat, n # 0
    PROVE  Max(1..n) = n
<1>1. n \in 1..n /\ \A y \in 1..n : n >= y
  OBVIOUS
<1>2. \A x \in 1..n : (\A y \in 1..n : x >= y) => x = n
  BY <1>1
<1> QED
  BY <1>1, <1>2 DEF Max

(* When the numbers of a scope are consecutive, MAX + 1 is the next one. *)
LEMMA NextNumberIsNext ==
    ASSUME NEW rows, NEW s, NEW n \in Nat, Numbers(rows, s) = 1..n
    PROVE  NextNumber(rows, s) = n + 1
<1>1. CASE n = 0
  BY <1>1 DEF NextNumber
<1>2. CASE n # 0
  <2>1. Numbers(rows, s) # {}
    BY <1>2
  <2> QED
    BY <1>2, <2>1, MaxOfInterval DEF NextNumber
<1> QED
  BY <1>1, <1>2

(* Adding the next number to a scope keeps every scope consecutive. *)
LEMMA AddNext ==
    ASSUME NEW rows, NEW row, NEW s, NEW n \in Nat,
           Numbers(rows, s) = 1..n,
           row.scope = s => row.number = n + 1
    PROVE  Numbers(rows \cup {row}, s) = IF row.scope = s THEN 1..(n + 1) ELSE 1..n
<1>1. Numbers(rows \cup {row}, s)
        = Numbers(rows, s) \cup (IF row.scope = s THEN {row.number} ELSE {})
  BY DEF Numbers
<1>2. CASE row.scope = s
  <2>1. Numbers(rows \cup {row}, s) = (1..n) \cup {n + 1}
    BY <1>1, <1>2
  <2>2. (1..n) \cup {n + 1} = 1..(n + 1)
    OBVIOUS
  <2> QED
    BY <1>2, <2>1, <2>2
<1>3. CASE row.scope # s
  BY <1>1, <1>3
<1> QED
  BY <1>2, <1>3

(* The invariant holds in the files the server may be started on. *)
THEOREM InitIInv == Init => IInv
<1> SUFFICES ASSUME Init PROVE IInv
  OBVIOUS
<1> USE BoundsAssumption, InitialVersionsAssumption, NoneAssumption
<1>1. TypeOK
  BY DEF Init, TypeOK, States, Rows, Jobs, SchemaVersion
<1>2. WriterHoldsLock /\ MigrationInOrder /\ SchemaMatchesVersion /\ NoConstraintFailure
  BY DEF Init, WriterHoldsLock, MigrationInOrder, SchemaMatchesVersion,
         NoConstraintFailure, Holding, Errors
<1>3. Bijective /\ SelectionStays /\ issued \subseteq bindings
  BY DEF Init, Bijective, SelectionStays
<1>4. Consecutive
  <2> SUFFICES ASSUME NEW s \in Scopes
               PROVE  \E n \in 0..MaxNumber : Numbers(bindings, s) = 1..n
    BY DEF Consecutive
  <2>1. Numbers(bindings, s) = 1..0
    BY DEF Init, Numbers
  <2> QED
    BY <2>1
<1> QED
  BY <1>1, <1>2, <1>3, <1>4 DEF IInv

(* The steps that write no table: one conjunct after the other. *)
LEMMA TablesUnchanged ==
    ASSUME UNCHANGED bindings
    PROVE  /\ Bijective => Bijective'
           /\ Consecutive => Consecutive'
BY DEF Bijective, Consecutive, Numbers

(* One step per action: the invariant is inductive. *)
THEOREM StepIInv == IInv /\ [Next]_vars => IInv'
<1> SUFFICES ASSUME IInv, [Next]_vars PROVE IInv'
  OBVIOUS
<1> USE BoundsAssumption, InitialVersionsAssumption, NoneAssumption
<1>1. ASSUME NEW c \in Connections, Open(c) PROVE IInv'
  <2>1. TypeOK'
    BY <1>1 DEF IInv, TypeOK, Open, Goto, States, Holding, Waiting, Errors, Jobs, SchemaVersion
  <2>2. WriterHoldsLock'
    BY <1>1 DEF IInv, TypeOK, WriterHoldsLock, Open, Goto, Holding, Waiting
  <2>3. MigrationInOrder' /\ SchemaMatchesVersion'
    BY <1>1 DEF IInv, TypeOK, MigrationInOrder, SchemaMatchesVersion, Open, Goto, Waiting
  <2>4. Bijective' /\ Consecutive'
    BY <1>1, TablesUnchanged DEF IInv, Open, Goto
  <2>5. SelectionStays'
    BY <1>1 DEF IInv, TypeOK, SelectionStays, Open, Goto, Waiting
  <2>6. (issued \subseteq bindings)' /\ NoConstraintFailure'
    BY <1>1 DEF IInv, TypeOK, NoConstraintFailure, Open, Goto
  <2> QED
    BY <2>1, <2>2, <2>3, <2>4, <2>5, <2>6 DEF IInv
<1>2. ASSUME NEW c \in Connections, ReadVersion(c) PROVE IInv'
  <2>1. TypeOK'
    BY <1>2 DEF IInv, TypeOK, ReadVersion, States, Holding, Waiting, Errors, Jobs, SchemaVersion
  <2>2. WriterHoldsLock'
    BY <1>2 DEF IInv, TypeOK, WriterHoldsLock, ReadVersion, Holding, Waiting
  <2>3. MigrationInOrder' /\ SchemaMatchesVersion'
    BY <1>2 DEF IInv, TypeOK, MigrationInOrder, SchemaMatchesVersion, ReadVersion, Waiting
  <2>4. Bijective' /\ Consecutive'
    BY <1>2, TablesUnchanged DEF IInv, ReadVersion
  <2>5. SelectionStays'
    BY <1>2 DEF IInv, TypeOK, SelectionStays, ReadVersion, Waiting
  <2>6. (issued \subseteq bindings)' /\ NoConstraintFailure'
    BY <1>2 DEF IInv, TypeOK, NoConstraintFailure, ReadVersion
  <2> QED
    BY <2>1, <2>2, <2>3, <2>4, <2>5, <2>6 DEF IInv
<1>3. ASSUME NEW c \in Connections, RefuseNewer(c) PROVE IInv'
  <2>1. TypeOK'
    BY <1>3 DEF IInv, TypeOK, RefuseNewer, Raise, States, Holding, Waiting, Errors, Jobs, SchemaVersion
  <2>2. WriterHoldsLock'
    BY <1>3 DEF IInv, TypeOK, WriterHoldsLock, RefuseNewer, Raise, Holding, Waiting
  <2>3. MigrationInOrder' /\ SchemaMatchesVersion'
    BY <1>3 DEF IInv, TypeOK, MigrationInOrder, SchemaMatchesVersion, RefuseNewer, Raise, Waiting
  <2>4. Bijective' /\ Consecutive'
    BY <1>3, TablesUnchanged DEF IInv, RefuseNewer, Raise
  <2>5. SelectionStays'
    BY <1>3 DEF IInv, TypeOK, SelectionStays, RefuseNewer, Raise, Waiting
  <2>6. (issued \subseteq bindings)' /\ NoConstraintFailure'
    BY <1>3 DEF IInv, TypeOK, NoConstraintFailure, RefuseNewer, Raise
  <2> QED
    BY <2>1, <2>2, <2>3, <2>4, <2>5, <2>6 DEF IInv
<1>4. ASSUME NEW c \in Connections, NEW s \in Scopes, NEW d \in DomainIds,
            StartEnsure(c, s, d)
     PROVE  IInv'
  <2>1. TypeOK'
    BY <1>4 DEF IInv, TypeOK, StartEnsure, Goto, States, Holding, Waiting, Errors, Jobs, SchemaVersion
  <2>2. WriterHoldsLock'
    BY <1>4 DEF IInv, TypeOK, WriterHoldsLock, StartEnsure, Goto, Holding, Waiting
  <2>3. MigrationInOrder' /\ SchemaMatchesVersion'
    BY <1>4 DEF IInv, TypeOK, MigrationInOrder, SchemaMatchesVersion, StartEnsure, Goto, Waiting, Jobs
  <2>4. Bijective' /\ Consecutive'
    BY <1>4, TablesUnchanged DEF IInv, StartEnsure, Goto
  <2>5. SelectionStays'
    BY <1>4 DEF IInv, TypeOK, SelectionStays, StartEnsure, Goto, Waiting, Jobs
  <2>6. (issued \subseteq bindings)' /\ NoConstraintFailure'
    BY <1>4 DEF IInv, TypeOK, NoConstraintFailure, StartEnsure, Goto
  <2> QED
    BY <2>1, <2>2, <2>3, <2>4, <2>5, <2>6 DEF IInv
<1>5. ASSUME NEW c \in Connections, BeginImmediate(c) PROVE IInv'
  <2>1. TypeOK'
    BY <1>5 DEF IInv, TypeOK, BeginImmediate, InTransaction, States, Holding, Waiting, Errors, Jobs, SchemaVersion
  <2>2. WriterHoldsLock'
    BY <1>5 DEF IInv, TypeOK, WriterHoldsLock, BeginImmediate, InTransaction, Holding, Waiting
  <2>3. MigrationInOrder' /\ SchemaMatchesVersion'
    BY <1>5 DEF IInv, TypeOK, MigrationInOrder, SchemaMatchesVersion, BeginImmediate, InTransaction, Waiting
  <2>4. Bijective' /\ Consecutive'
    BY <1>5, TablesUnchanged DEF IInv, BeginImmediate, InTransaction
  <2>5. SelectionStays'
    BY <1>5 DEF IInv, TypeOK, SelectionStays, BeginImmediate, InTransaction, Waiting
  <2>6. (issued \subseteq bindings)' /\ NoConstraintFailure'
    BY <1>5 DEF IInv, TypeOK, NoConstraintFailure, BeginImmediate, InTransaction
  <2> QED
    BY <2>1, <2>2, <2>3, <2>4, <2>5, <2>6 DEF IInv
<1>6. ASSUME NEW c \in Connections, BusyTimeout(c) PROVE IInv'
  <2>1. TypeOK'
    BY <1>6 DEF IInv, TypeOK, BusyTimeout, Raise, States, Holding, Waiting, Errors, Jobs, SchemaVersion
  <2>2. WriterHoldsLock'
    BY <1>6 DEF IInv, TypeOK, WriterHoldsLock, BusyTimeout, Raise, Holding, Waiting
  <2>3. MigrationInOrder' /\ SchemaMatchesVersion'
    BY <1>6 DEF IInv, TypeOK, MigrationInOrder, SchemaMatchesVersion, BusyTimeout, Raise, Waiting
  <2>4. Bijective' /\ Consecutive'
    BY <1>6, TablesUnchanged DEF IInv, BusyTimeout, Raise
  <2>5. SelectionStays'
    BY <1>6 DEF IInv, TypeOK, SelectionStays, BusyTimeout, Raise, Waiting
  <2>6. (issued \subseteq bindings)' /\ NoConstraintFailure'
    BY <1>6 DEF IInv, TypeOK, NoConstraintFailure, BusyTimeout, Raise
  <2> QED
    BY <2>1, <2>2, <2>3, <2>4, <2>5, <2>6 DEF IInv
<1>7. ASSUME NEW c \in Connections, Migrate(c, 1, "create1", "migrate2") PROVE IInv'
  <2>1. TypeOK'
    BY <1>7 DEF IInv, TypeOK, Migrate, Goto, States, Holding, Waiting, Errors, Jobs, SchemaVersion
  <2>2. WriterHoldsLock'
    BY <1>7 DEF IInv, TypeOK, WriterHoldsLock, Migrate, Goto, Holding, Waiting
  <2>3. MigrationInOrder' /\ SchemaMatchesVersion'
    BY <1>7 DEF IInv, TypeOK, MigrationInOrder, SchemaMatchesVersion, WriterHoldsLock, Migrate, Goto, Holding, Waiting
  <2>4. Bijective' /\ Consecutive'
    BY <1>7, TablesUnchanged DEF IInv, Migrate, Goto
  <2>5. SelectionStays'
    BY <1>7 DEF IInv, TypeOK, SelectionStays, Migrate, Goto, Waiting
  <2>6. (issued \subseteq bindings)' /\ NoConstraintFailure'
    BY <1>7 DEF IInv, TypeOK, NoConstraintFailure, Migrate, Goto, Errors
  <2> QED
    BY <2>1, <2>2, <2>3, <2>4, <2>5, <2>6 DEF IInv
<1>8. ASSUME NEW c \in Connections, Migrate(c, 2, "create2", "ready") PROVE IInv'
  <2>1. TypeOK'
    BY <1>8 DEF IInv, TypeOK, Migrate, Goto, States, Holding, Waiting, Errors, Jobs, SchemaVersion
  <2>2. WriterHoldsLock'
    BY <1>8 DEF IInv, TypeOK, WriterHoldsLock, Migrate, Goto, Holding, Waiting
  <2>3. MigrationInOrder' /\ SchemaMatchesVersion'
    BY <1>8 DEF IInv, TypeOK, MigrationInOrder, SchemaMatchesVersion, WriterHoldsLock, Migrate, Goto, Holding, Waiting
  <2>4. Bijective' /\ Consecutive'
    BY <1>8, TablesUnchanged DEF IInv, Migrate, Goto
  <2>5. SelectionStays'
    BY <1>8 DEF IInv, TypeOK, SelectionStays, Migrate, Goto, Waiting
  <2>6. (issued \subseteq bindings)' /\ NoConstraintFailure'
    BY <1>8 DEF IInv, TypeOK, NoConstraintFailure, Migrate, Goto, Errors
  <2> QED
    BY <2>1, <2>2, <2>3, <2>4, <2>5, <2>6 DEF IInv
<1>9. ASSUME NEW c \in Connections, TableExists(c, 1, "create1") PROVE IInv'
  <2>1. TypeOK'
    BY <1>9 DEF IInv, TypeOK, TableExists, Raise, States, Holding, Waiting, Errors, Jobs, SchemaVersion
  <2>2. WriterHoldsLock'
    BY <1>9 DEF IInv, TypeOK, WriterHoldsLock, TableExists, Raise, Holding, Waiting
  <2>3. MigrationInOrder' /\ SchemaMatchesVersion'
    BY <1>9 DEF IInv, TypeOK, MigrationInOrder, SchemaMatchesVersion, WriterHoldsLock, TableExists, Raise, Holding, Waiting
  <2>4. Bijective' /\ Consecutive'
    BY <1>9, TablesUnchanged DEF IInv, TableExists, Raise
  <2>5. SelectionStays'
    BY <1>9 DEF IInv, TypeOK, SelectionStays, TableExists, Raise, Waiting
  <2>6. (issued \subseteq bindings)' /\ NoConstraintFailure'
    BY <1>9 DEF IInv, TypeOK, NoConstraintFailure, TableExists, Raise, Errors
  <2> QED
    BY <2>1, <2>2, <2>3, <2>4, <2>5, <2>6 DEF IInv
<1>10. ASSUME NEW c \in Connections, TableExists(c, 2, "create2") PROVE IInv'
  <2>1. TypeOK'
    BY <1>10 DEF IInv, TypeOK, TableExists, Raise, States, Holding, Waiting, Errors, Jobs, SchemaVersion
  <2>2. WriterHoldsLock'
    BY <1>10 DEF IInv, TypeOK, WriterHoldsLock, TableExists, Raise, Holding, Waiting
  <2>3. MigrationInOrder' /\ SchemaMatchesVersion'
    BY <1>10 DEF IInv, TypeOK, MigrationInOrder, SchemaMatchesVersion, WriterHoldsLock, TableExists, Raise, Holding, Waiting
  <2>4. Bijective' /\ Consecutive'
    BY <1>10, TablesUnchanged DEF IInv, TableExists, Raise
  <2>5. SelectionStays'
    BY <1>10 DEF IInv, TypeOK, SelectionStays, TableExists, Raise, Waiting
  <2>6. (issued \subseteq bindings)' /\ NoConstraintFailure'
    BY <1>10 DEF IInv, TypeOK, NoConstraintFailure, TableExists, Raise, Errors
  <2> QED
    BY <2>1, <2>2, <2>3, <2>4, <2>5, <2>6 DEF IInv
<1>11. ASSUME NEW c \in Connections, SelectBinding(c) PROVE IInv'
  <2> DEFINE next == NextNumber(bindings, job[c].scope)
             mine == {r \in bindings : r.scope = job[c].scope /\ r.domain = job[c].domain}
  <2>0. job[c] \in Jobs
    BY <1>11 DEF IInv, SelectionStays, SelectBinding
  <2>1. PICK n \in 0..MaxNumber : Numbers(bindings, job[c].scope) = 1..n
    BY <2>0 DEF IInv, Consecutive, Jobs
  <2>2. next = n + 1
    BY <2>1, NextNumberIsNext
  <2>3. CASE mine # {}
    <3>1. PICK r \in mine : job' = [job EXCEPT ![c] = r]
      BY <1>11, <2>3 DEF SelectBinding
    <3>2. pc' = [pc EXCEPT ![c] = "commit"] /\ r \in bindings /\ r \in Rows /\ r \in Jobs
      BY <1>11, <2>3, <3>1 DEF SelectBinding, IInv, TypeOK, Rows, Jobs
    <3>3. TypeOK' /\ WriterHoldsLock'
      BY <1>11, <3>1, <3>2 DEF SelectBinding, IInv, TypeOK, WriterHoldsLock, States, Holding
    <3>4. SelectionStays'
      BY <1>11, <3>1, <3>2 DEF SelectBinding, IInv, TypeOK, SelectionStays
    <3> QED
      BY <1>11, <3>2, <3>3, <3>4, TablesUnchanged
         DEF SelectBinding, IInv, TypeOK, MigrationInOrder, SchemaMatchesVersion,
             NoConstraintFailure
  <2>4. CASE mine = {}
    <3> DEFINE row == [job[c] EXCEPT !.number = next]
    <3>1. job' = [job EXCEPT ![c] = row] /\ next <= MaxNumber
      BY <1>11, <2>4, <2>0 DEF SelectBinding, IInv, TypeOK
    <3>2. /\ row \in Rows /\ row \in Jobs
          /\ row.scope = job[c].scope /\ row.domain = job[c].domain /\ row.number = next
      BY <2>0, <2>1, <2>2, <3>1 DEF Rows, Jobs
    <3>3. ~Conflicts(bindings, row)
      <4> SUFFICES ASSUME NEW other \in bindings, other.scope = row.scope
                   PROVE  other.domain # row.domain /\ other.number # row.number
        BY DEF Conflicts
      <4>1. other.number \in 1..n
        BY <2>1, <3>2 DEF Numbers
      <4> QED
        BY <2>2, <2>4, <3>2, <4>1
    <3>4. pc' = [pc EXCEPT ![c] = "insert"]
      BY <1>11, <2>4 DEF SelectBinding
    <3>5. TypeOK' /\ WriterHoldsLock'
      BY <1>11, <3>1, <3>2, <3>4
         DEF SelectBinding, IInv, TypeOK, WriterHoldsLock, States, Holding
    <3>6. SelectionStays'
      BY <1>11, <3>1, <3>2, <3>3, <3>4 DEF SelectBinding, IInv, TypeOK, SelectionStays
    <3> QED
      BY <1>11, <3>4, <3>5, <3>6, TablesUnchanged
         DEF SelectBinding, IInv, TypeOK, MigrationInOrder, SchemaMatchesVersion,
             NoConstraintFailure
  <2> QED
    BY <2>3, <2>4
<1>12. ASSUME NEW c \in Connections, InsertBinding(c) PROVE IInv'
  <2>1. TypeOK'
    BY <1>12 DEF IInv, TypeOK, InsertBinding, Raise, States, Holding, Waiting, Errors, Jobs, SchemaVersion
  <2>2. WriterHoldsLock'
    BY <1>12 DEF IInv, TypeOK, WriterHoldsLock, InsertBinding, Raise, Holding, Waiting
  <2>3. MigrationInOrder' /\ SchemaMatchesVersion'
    BY <1>12 DEF IInv, TypeOK, MigrationInOrder, SchemaMatchesVersion, InsertBinding, Raise, Waiting
  <2>4. Bijective' /\ Consecutive'
    BY <1>12, TablesUnchanged DEF IInv, InsertBinding, Raise
  <2>5. SelectionStays'
    BY <1>12 DEF IInv, TypeOK, SelectionStays, InsertBinding, Raise, Waiting
  <2>6. (issued \subseteq bindings)' /\ NoConstraintFailure'
    BY <1>12 DEF IInv, TypeOK, NoConstraintFailure, InsertBinding, Raise, SelectionStays, Errors
  <2> QED
    BY <2>1, <2>2, <2>3, <2>4, <2>5, <2>6 DEF IInv
<1>13. ASSUME NEW c \in Connections, Commit(c) PROVE IInv'
  <2> DEFINE row == job[c]
  <2>1. /\ row \in Rows
        /\ \/ row \in bindings
           \/ ~Conflicts(bindings, row) /\ row.number = NextNumber(bindings, row.scope)
    BY <1>13 DEF Commit, Goto, IInv, SelectionStays
  <2>2. /\ bindings' = bindings \cup {row} /\ issued' = issued \cup {row}
        /\ pc' = [pc EXCEPT ![c] = "ready"] /\ job' = [job EXCEPT ![c] = None]
        /\ lock' = None /\ UNCHANGED <<version, schema, error, crashes>>
    BY <1>13 DEF Commit, Goto
  <2>3. TypeOK'
    BY <2>1, <2>2 DEF IInv, TypeOK, States
  <2>4. WriterHoldsLock'
    BY <1>13, <2>2 DEF IInv, TypeOK, WriterHoldsLock, Holding, Commit, Goto
  <2>5. Bijective'
    BY <2>1, <2>2 DEF IInv, Bijective, Conflicts
  <2>6. Consecutive'
    <3> SUFFICES ASSUME NEW s \in Scopes
                 PROVE  \E n \in 0..MaxNumber : Numbers(bindings', s) = 1..n
      BY DEF Consecutive
    <3>1. PICK n \in 0..MaxNumber : Numbers(bindings, s) = 1..n
      BY DEF IInv, Consecutive
    <3>2. CASE row \in bindings
      <4>1. bindings' = bindings
        BY <2>2, <3>2
      <4> QED
        BY <3>1, <4>1
    <3>3. CASE row \notin bindings
      <4>1. row.scope = s => row.number = n + 1
        BY <2>1, <3>1, <3>3, NextNumberIsNext
      <4>2. Numbers(bindings', s) = IF row.scope = s THEN 1..(n + 1) ELSE 1..n
        <5>1. Numbers(bindings \cup {row}, s) = IF row.scope = s THEN 1..(n + 1) ELSE 1..n
          <6> HIDE DEF row
          <6> QED
            BY <3>1, <4>1, AddNext
        <5> QED
          BY <2>2, <5>1
      <4>3. row.scope = s => n + 1 <= MaxNumber
        BY <2>1, <4>1 DEF Rows
      <4> QED
        BY <4>2, <4>3
    <3> QED
      BY <3>2, <3>3
  <2>7. SelectionStays'
    <3>1. \A o \in Connections : o # c => pc[o] \notin {"insert", "commit"}
      BY <1>13 DEF IInv, WriterHoldsLock, Holding, Commit, Goto
    <3> QED
      BY <2>2, <3>1 DEF IInv, TypeOK, SelectionStays
  <2>8. (issued \subseteq bindings)' /\ NoConstraintFailure'
        /\ MigrationInOrder' /\ SchemaMatchesVersion'
    BY <2>2 DEF IInv, TypeOK, NoConstraintFailure, MigrationInOrder, SchemaMatchesVersion
  <2> QED
    BY <2>3, <2>4, <2>5, <2>6, <2>7, <2>8 DEF IInv
<1>14. ASSUME NEW c \in Connections, Close(c) PROVE IInv'
  <2>1. TypeOK'
    BY <1>14 DEF IInv, TypeOK, Close, States, Holding, Waiting, Errors, Jobs, SchemaVersion
  <2>2. WriterHoldsLock'
    BY <1>14 DEF IInv, TypeOK, WriterHoldsLock, Close, Holding, Waiting
  <2>3. MigrationInOrder' /\ SchemaMatchesVersion'
    BY <1>14 DEF IInv, TypeOK, MigrationInOrder, SchemaMatchesVersion, Close, Waiting
  <2>4. Bijective' /\ Consecutive'
    BY <1>14, TablesUnchanged DEF IInv, Close
  <2>5. SelectionStays'
    BY <1>14 DEF IInv, TypeOK, SelectionStays, Close, Waiting
  <2>6. (issued \subseteq bindings)' /\ NoConstraintFailure'
    BY <1>14 DEF IInv, TypeOK, NoConstraintFailure, Close, Errors
  <2> QED
    BY <2>1, <2>2, <2>3, <2>4, <2>5, <2>6 DEF IInv
<1>15. CASE Crash
  <2>1. TypeOK'
    BY <1>15 DEF IInv, TypeOK, Crash, States
  <2>2. Bijective' /\ Consecutive'
    BY <1>15, TablesUnchanged DEF IInv, Crash
  <2> QED
    BY <1>15, <2>1, <2>2
       DEF IInv, WriterHoldsLock, MigrationInOrder, SchemaMatchesVersion, SelectionStays,
           NoConstraintFailure, Crash, Holding, Errors
<1>16. CASE UNCHANGED vars
  <2>1. TypeOK' /\ WriterHoldsLock' /\ SelectionStays'
    BY <1>16 DEF IInv, TypeOK, WriterHoldsLock, SelectionStays, vars
  <2>2. Bijective' /\ Consecutive'
    BY <1>16, TablesUnchanged DEF IInv, vars
  <2> QED
    BY <1>16, <2>1, <2>2
       DEF IInv, MigrationInOrder, SchemaMatchesVersion, NoConstraintFailure, vars
<1> QED
  BY <1>1, <1>2, <1>3, <1>4, <1>5, <1>6, <1>7, <1>8, <1>9, <1>10, <1>11, <1>12, <1>13,
     <1>14, <1>15, <1>16 DEF Next, Proceed, MigrateStep

(* Every reachable state satisfies the inductive invariant. *)
THEOREM InductiveInvariant == Spec => []IInv
  BY InitIInv, StepIInv, PTL DEF Spec

(* Type correctness: stored and answered numbers are positive. *)
THEOREM TypeCorrect == Spec => []TypeOK
<1>1. IInv => TypeOK
  BY DEF IInv
<1> QED
  BY <1>1, InductiveInvariant, PTL

(* The recorded user_version always tells which tables exist. *)
THEOREM SchemaVersioned == Spec => []SchemaMatchesVersion
<1>1. IInv => SchemaMatchesVersion
  BY DEF IInv
<1> QED
  BY <1>1, InductiveInvariant, PTL

(* An ensure call of any connection never fails on a constraint. *)
THEOREM EnsureNeverConflicts == Spec => []NoConstraintFailure
<1>1. IInv => NoConstraintFailure
  BY DEF IInv
<1> QED
  BY <1>1, InductiveInvariant, PTL

(* The numbers of every scope are consecutive. *)
THEOREM NumbersConsecutive == Spec => []Consecutive
<1>1. IInv => Consecutive
  BY DEF IInv
<1> QED
  BY <1>1, InductiveInvariant, PTL

(* A number that was answered resolves to the id it was answered for. *)
THEOREM AnswersStayTrue == Spec => []IssuedNumbersResolve
<1>1. IInv => IssuedNumbersResolve
  <2> SUFFICES ASSUME IInv, NEW row \in issued
               PROVE  Resolve(bindings, row.scope, row.number) = {row.domain}
    BY DEF IssuedNumbersResolve
  <2> QED
    BY DEF IInv, Bijective, Resolve
<1> QED
  BY <1>1, InductiveInvariant, PTL

(* The store implements the abstract allocator: a commit is one Ensure of the
   row the transaction holds, every other step is a stutter. *)
THEOREM Implementation == Spec => ImplementsAllocator
<1>1. Init => Allocator!Init
  BY DEF Init, Allocator!Init
<1>2. IInv /\ [Next]_vars => [Allocator!Next]_Allocator!vars
  <2> SUFFICES ASSUME IInv, [Next]_vars,
                      ~UNCHANGED Allocator!vars
               PROVE  Allocator!Next
    OBVIOUS
  <2>1. PICK c \in Connections : Commit(c)
    BY DEF Next, Proceed, MigrateStep, vars, Allocator!vars, Open, ReadVersion, RefuseNewer,
           StartEnsure, BeginImmediate, BusyTimeout, Migrate, TableExists, SelectBinding,
           InsertBinding, Close, Crash
  <2>2. /\ job[c] \in Rows
        /\ job[c] \in bindings \/ ~Conflicts(bindings, job[c])
    BY <2>1 DEF Commit, Goto, IInv, SelectionStays
  <2>3. Allocator!Compatible(job[c])
    BY <2>2 DEF Allocator!Compatible, Conflicts, IInv, Bijective
  <2>4. Allocator!Ensure(job[c])
    BY <2>1, <2>3 DEF Allocator!Ensure, Commit
  <2> QED
    BY <2>2, <2>4 DEF Allocator!Next, Allocator!Rows, Rows
<1> QED
  BY <1>1, <1>2, InductiveInvariant, PTL DEF Spec, ImplementsAllocator, Allocator!Spec

-----------------------------------------------------------------------------
(* When openers can collide: TLC finds that two first openers do.  It takes
   two connections, and a file that is not yet of the newest version. *)

(* A migration finds the version that its connection has read. *)
UpToDate ==
    \A c \in Connections : /\ pc[c] \in {"migrate1", "create1"} => version = 0
                           /\ pc[c] \in {"migrate2", "create2"} => version = 1
Unrivalled == (\A c, d \in Connections : c = d) \/ version >= SchemaVersion

(* A migration that finds its version has no table to meet. *)
LEMMA StepUnrivalled ==
    ASSUME IInv, UpToDate, Unrivalled, OpenersNeverCollide, [Next]_vars
    PROVE  UpToDate' /\ Unrivalled' /\ OpenersNeverCollide'
<1> USE DEF SchemaVersion
<1>0. TypeOK /\ version \in 0..3 /\ schema = 1..version
  BY DEF IInv, TypeOK, SchemaMatchesVersion
<1>1. CASE UNCHANGED vars
  BY <1>1 DEF vars, UpToDate, Unrivalled, OpenersNeverCollide
<1>2. ASSUME NEW c \in Connections, Migrate(c, 1, "create1", "migrate2") \/ Migrate(c, 2, "create2", "ready")
      PROVE  UpToDate' /\ Unrivalled' /\ OpenersNeverCollide'
  <2>1. version < SchemaVersion /\ \A d \in Connections : d = c
    BY <1>0, <1>2 DEF Migrate, Goto, UpToDate, Unrivalled
  <2> QED
    BY <1>0, <1>2, <2>1 DEF TypeOK, Migrate, Goto, UpToDate, Unrivalled, OpenersNeverCollide
<1>3. ASSUME NEW c \in Connections, TableExists(c, 1, "create1") \/ TableExists(c, 2, "create2")
      PROVE  FALSE
  BY <1>0, <1>3 DEF TableExists, UpToDate
<1>4. ASSUME NEW c \in Connections,
             \/ Open(c) \/ ReadVersion(c) \/ RefuseNewer(c) \/ BeginImmediate(c) \/ BusyTimeout(c)
             \/ SelectBinding(c) \/ InsertBinding(c) \/ Commit(c) \/ Close(c)
             \/ \E s \in Scopes, d \in DomainIds : StartEnsure(c, s, d)
      PROVE  UpToDate' /\ Unrivalled' /\ OpenersNeverCollide'
  <2>1. UNCHANGED version
    BY <1>4 DEF Open, ReadVersion, RefuseNewer, BeginImmediate, BusyTimeout, SelectBinding, InsertBinding,
                Commit, Close, StartEnsure
  <2>2. UpToDate'
    BY <1>0, <1>4, <2>1 DEF TypeOK, UpToDate, Open, ReadVersion, RefuseNewer, BeginImmediate, InTransaction, Waiting,
                BusyTimeout, SelectBinding, InsertBinding, Commit, Close, StartEnsure, Goto, Raise
  <2>3. OpenersNeverCollide'
    BY <1>0, <1>4, NoneAssumption DEF TypeOK, OpenersNeverCollide, Open, ReadVersion, RefuseNewer, BeginImmediate,
                BusyTimeout, SelectBinding, InsertBinding, Commit, Close, StartEnsure, Goto, Raise, Errors
  <2> QED
    BY <2>1, <2>2, <2>3 DEF Unrivalled
<1>5. ASSUME Crash PROVE UpToDate' /\ Unrivalled' /\ OpenersNeverCollide'
  BY <1>5, NoneAssumption DEF Crash, UpToDate, Unrivalled, OpenersNeverCollide, Errors
<1> QED
  BY <1>1, <1>2, <1>3, <1>4, <1>5 DEF Next, Proceed, MigrateStep

(* No request fails because another one has just created the tables, unless two
   are in flight and the file is older than the code. *)
THEOREM CollisionsNeedTwoFirstOpeners ==
    ASSUME \/ \A c, d \in Connections : c = d
           \/ \A v \in InitialVersions : v >= SchemaVersion
    PROVE  Spec => []OpenersNeverCollide
<1>1. Init => UpToDate /\ Unrivalled /\ OpenersNeverCollide
  BY NoneAssumption DEF Init, UpToDate, Unrivalled, OpenersNeverCollide, Errors
<1> QED
  BY <1>1, StepUnrivalled, InductiveInvariant, PTL DEF Spec
=============================================================================
