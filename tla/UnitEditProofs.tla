--------------------------- MODULE UnitEditProofs ---------------------------
(***************************************************************************)
(* Theorems about UnitEdit, for any number of editors, loaders, units and  *)
(* crashes.  The argument: an editor writes what a request it has found    *)
(* without fault asks for (Validated), so no refused edit leaves a trace;  *)
(* and as long as edits of different editors are about different units     *)
(* (Apart), what an editor has read of its units stays stored until it     *)
(* commits (OwnUnits), so that leaving an unchanged unit out of the        *)
(* transaction is right.                                                   *)
(***************************************************************************)
EXTENDS UnitEdit, WellFoundedInduction, TLAPS

(* Min finds the least element of a set of numbers. *)
LEMMA MinIsLeast ==
    ASSUME NEW S \in SUBSET Nat, S # {}
    PROVE  Min(S) \in S /\ \A y \in S : Min(S) =< y
<1> DEFINE R == OpToRel(<, Nat)
<1>1. PICK x \in S : \A y \in S : ~ (<<y, x>> \in R)
  <2> HIDE DEF R
  <2>1. IsWellFoundedOn(R, Nat)
    BY NatLessThanWellFounded DEF R
  <2> QED
    BY <2>1, WFMin
<1>2. \A y \in S : x =< y
  <2> SUFFICES ASSUME NEW y \in S PROVE x =< y
    OBVIOUS
  <2>1. <<y, x>> \in R <=> y < x
    BY DEF OpToRel
  <2> HIDE DEF R
  <2>2. ~ (y < x)
    BY <1>1, <2>1
  <2> QED
    BY <2>2
<1> QED
  BY <1>2 DEF Min

(* The unit that is read next is one of the player's. *)
LEMMA NextUnit ==
    ASSUME NEW some \in SUBSET Units, some # {}
    PROVE  Min(some) \in some
BY MinIsLeast, UnitsAssumption

(* What has been read so far, as a type. *)
Part(S) == UNION {[some -> S] : some \in SUBSET Units}

(* At first nothing has been read. *)
LEMMA NothingIsPart ==
    ASSUME NEW S
    PROVE  <<>> \in Part(S)
<1>1. {} \in SUBSET Units /\ <<>> \in [{} -> S]
  OBVIOUS
<1> QED
  BY <1>1 DEF Part

(* One more unit is read. *)
LEMMA ExtendIsPart ==
    ASSUME NEW S, NEW f \in Part(S), NEW u \in Units, NEW value \in S
    PROVE  Extend(f, u, value) \in Part(S)
<1>1. PICK some \in SUBSET Units : f \in [some -> S]
  BY DEF Part
<1>2. Extend(f, u, value) \in [some \cup {u} -> S]
  BY <1>1 DEF Extend
<1> QED
  BY <1>2 DEF Part

(* The types of the variables alone. *)
Typed ==
    /\ members \in [Units -> Teams \cup {NoTeam}]
    /\ slots \in [Units -> Dresses \cup {NoDress}]
    /\ main \in Units \cup {None}
    /\ domLock \in Threads \cup {None}
    /\ idLock \in Threads \cup {None}
    /\ pc \in [Threads -> States]
    /\ request \in [Threads -> AllRequests \cup {None}]
    /\ unread \in [Threads -> SUBSET Units]
    /\ seen \in [Threads -> Part(Teams \cup {NoTeam})]
    /\ dressed \in [Threads -> Part(Dresses \cup {NoDress})]
    /\ todo \in [Threads -> SUBSET Units]
    /\ saved \in [Threads -> SUBSET Units]
    /\ crashes \in 0..MaxCrashes

(* Who holds which lock, and has something to save, where. *)
Consistent(t) ==
    /\ domLock = t <=> saved[t] # {}
    /\ idLock = t <=> pc[t] = "write"
    /\ pc[t] = "save" <=> todo[t] \cup saved[t] # {}
    /\ t \in Editors => (request[t] = None <=> pc[t] = "idle")

(* The type invariant by its parts, as the steps take them. *)
LEMMA TypesSplit == TypeOK <=> Typed /\ \A t \in Threads : Consistent(t)
BY DEF TypeOK, Typed, Consistent, Part

(* Requests that editors are given are those the assumption is about. *)
LEMMA GivenRequests ==
    ASSUME NEW e \in Editors, NEW req \in RequestsOf[e]
    PROVE  /\ req \in AllRequests /\ req # None
           /\ req.fault \in {"id", "card", "none"}
           /\ req.main \in Units \cup {None}
           /\ DOMAIN req.edit \subseteq Units
           /\ \A u \in DOMAIN req.edit : req.edit[u].team \in Teams /\ req.edit[u].dress \in Dresses
<1>1. req \in AllRequests
  BY DEF AllRequests
<1> QED
  BY <1>1, RequestsAssumption

(* The types hold of a fresh pair of databases. *)
LEMMA InitTypeOK == Init => TypeOK
<1> SUFFICES ASSUME Init PROVE Typed /\ \A t \in Threads : Consistent(t)
  BY TypesSplit
<1>1. <<>> \in Part(Teams \cup {NoTeam}) /\ <<>> \in Part(Dresses \cup {NoDress})
  BY NothingIsPart
<1>2. Typed
  BY <1>1, CrashesAssumption DEF Init, Typed, States
<1>3. \A t \in Threads : Consistent(t)
  BY ThreadsAssumption DEF Init, Consistent
<1> QED
  BY <1>2, <1>3

(* Ending requests keeps the types; who ends must not hold a lock any more. *)
LEMMA ForgetTypes ==
    ASSUME TypeOK, NEW some \in SUBSET Threads, Forget(some),
           domLock' \in Threads \cup {None}, idLock' \in Threads \cup {None},
           UNCHANGED dbs, crashes' \in 0..MaxCrashes,
           \A t \in some : domLock' # t /\ idLock' # t,
           \A t \in Threads \ some : (domLock' = t <=> domLock = t) /\ (idLock' = t <=> idLock = t)
    PROVE  TypeOK'
<1>1. Typed /\ \A t \in Threads : Consistent(t)
  BY TypesSplit
<1>2. <<>> \in Part(Teams \cup {NoTeam}) /\ <<>> \in Part(Dresses \cup {NoDress})
  BY NothingIsPart
<1>3. Typed'
  BY <1>1, <1>2 DEF Typed, Forget, dbs, States, Part
<1>4. \A t \in Threads : Consistent(t)'
  BY <1>1 DEF Typed, Consistent, Forget
<1> QED
  BY <1>3, <1>4, TypesSplit DEF TypeOK, Typed, Consistent, Part

(* Every step keeps the types and the locks, given that requests are validated
   before anything is written. *)
LEMMA StepTypeOK == TypeOK /\ Validated /\ [Next]_vars => TypeOK'
<1> SUFFICES ASSUME TypeOK, Validated, [Next]_vars PROVE TypeOK'
  OBVIOUS
<1> SUFFICES Typed' /\ \A t \in Threads : Consistent(t)'
  BY DEF TypeOK, Typed, Consistent, Part
<1>0. Typed /\ \A t \in Threads : Consistent(t)
  BY TypesSplit
<1> DEFINE Kept == Typed' /\ \A t \in Threads : Consistent(t)'
<1> SUFFICES Kept
  OBVIOUS
<1>1. CASE UNCHANGED vars
  BY <1>0, <1>1 DEF Typed, Consistent, vars, dbs, work
<1>2. ASSUME NEW e \in Editors, NEW req \in RequestsOf[e], ReceiveEdit(e, req) PROVE Kept
  <2>1. req \in AllRequests /\ req # None /\ e \in Threads
    BY GivenRequests DEF Threads
  <2> QED
    BY <1>0, <1>2, <2>1 DEF Typed, Consistent, ReceiveEdit, Goto, States, dbs, work
<1>3. ASSUME NEW l \in Loaders, ReceiveLoad(l) PROVE Kept
  <2>1. l \in Threads /\ l \notin Editors
    BY ThreadsAssumption DEF Threads
  <2> QED
    BY <1>0, <1>3, <2>1 DEF Typed, Consistent, ReceiveLoad, Goto, States, dbs, work
<1>4. ASSUME NEW t \in Threads, OpenStores(t) PROVE Kept
  BY <1>0, <1>4 DEF Typed, Consistent, OpenStores, States, dbs
<1>5. ASSUME NEW t \in Threads, ReadMembers(t) PROVE Kept
  <2> DEFINE u == Min(unread[t])
  <2>1. u \in Units
    BY <1>0, <1>5, NextUnit DEF Typed, ReadMembers
  <2>2. Extend(seen[t], u, members[u]) \in Part(Teams \cup {NoTeam})
    <3>1. seen[t] \in Part(Teams \cup {NoTeam}) /\ members[u] \in Teams \cup {NoTeam}
      BY <1>0, <2>1 DEF Typed
    <3> QED
      BY <2>1, <3>1, ExtendIsPart
  <2> HIDE DEF u
  <2>3. /\ seen' = [seen EXCEPT ![t] = Extend(@, u, members[u])]
        /\ unread' = [unread EXCEPT ![t] = @ \ {u}]
        /\ UNCHANGED <<dbs, domLock, idLock, pc, request, dressed, todo, saved, crashes>>
    BY <1>5 DEF ReadMembers, u
  <2> QED
    BY <1>0, <2>2, <2>3 DEF Typed, Consistent, dbs
<1>6. ASSUME NEW t \in Threads, Listed(t) PROVE Kept
  BY <1>0, <1>6 DEF Typed, Consistent, Listed, States, dbs, work
<1>7. ASSUME NEW t \in Threads, Finish(t) PROVE Kept
  <2>1. domLock # t /\ idLock # t
    BY <1>0, <1>7 DEF Consistent, Finish
  <2>2. TypeOK'
    BY <1>0, <1>7, <2>1, ForgetTypes DEF Finish, Typed
  <2> QED
    BY <2>2 DEF TypeOK, Typed, Consistent, Part
<1>8. ASSUME NEW e \in Editors, Resolve(e) PROVE Kept
  BY <1>0, <1>8 DEF Typed, Consistent, Resolve, States, dbs, work, Threads
<1>9. ASSUME NEW e \in Editors, Check(e) PROVE Kept
  <2>1. e \in Threads /\ Changed(e) \subseteq Units
    BY <1>0, <1>9, GivenRequests DEF Changed, Consistent, Check, Validated, Threads
  <2> QED
    BY <1>0, <1>9, <2>1 DEF Typed, Consistent, Check, States, dbs
<1>10. ASSUME NEW e \in Editors, NEW u \in Units, SaveUnit(e, u) PROVE Kept
  <2>1. e \in Threads
    BY DEF Threads
  <2>2. Typed'
    BY <1>0, <1>10, <2>1 DEF Typed, SaveUnit, dbs
  <2>3. \A t \in Threads : domLock' = t <=> saved'[t] # {}
    BY <1>0, <1>10, <2>1, ThreadsAssumption DEF Typed, Consistent, SaveUnit
  <2>4. todo'[e] \cup saved'[e] # {} /\ \A t \in Threads \ {e} : todo'[t] = todo[t] /\ saved'[t] = saved[t]
    BY <1>0, <1>10, <2>1 DEF Typed, SaveUnit
  <2> QED
    BY <1>0, <1>10, <2>1, <2>2, <2>3, <2>4 DEF Consistent, SaveUnit
<1>11. ASSUME NEW e \in Editors, CommitMembers(e) PROVE Kept
  <2>1. e \in Threads /\ request[e] \in RequestsOf[e] /\ saved[e] \subseteq DOMAIN request[e].edit
    BY <1>0, <1>11 DEF Consistent, CommitMembers, Goto, Validated, Threads
  <2>2. domLock = e /\ \A t \in Threads \ {e} : saved[t] = {}
    BY <1>0, <1>11, <2>1 DEF Consistent, CommitMembers, Goto
  <2>3. members' \in [Units -> Teams \cup {NoTeam}]
    BY <1>0, <1>11, <2>1, GivenRequests DEF Typed, CommitMembers
  <2>4. Typed'
    BY <1>0, <1>11, <2>1, <2>3 DEF Typed, CommitMembers, Goto, States
  <2>5. \A t \in Threads : domLock' = t <=> saved'[t] # {}
    BY <1>0, <1>11, <2>1, <2>2, ThreadsAssumption DEF Typed, CommitMembers
  <2>6. \A t \in Threads : pc'[t] = "save" <=> todo'[t] \cup saved'[t] # {}
    BY <1>0, <1>11, <2>1 DEF Typed, Consistent, CommitMembers, Goto
  <2>7. \A t \in Threads : /\ idLock' = t <=> pc'[t] = "write"
                           /\ t \in Editors => (request'[t] = None <=> pc'[t] = "idle")
    BY <1>0, <1>11, <2>1 DEF Typed, Consistent, CommitMembers, Goto
  <2> QED
    BY <2>4, <2>5, <2>6, <2>7 DEF Consistent
<1>12. ASSUME NEW e \in Editors, BeginIdentity(e) PROVE Kept
  <2>1. e \in Threads
    BY DEF Threads
  <2> QED
    BY <1>0, <1>12, <2>1, ThreadsAssumption DEF Typed, Consistent, BeginIdentity, Goto, States, dbs, work
<1>13. ASSUME NEW e \in Editors, CommitIdentity(e) PROVE Kept
  <2>1. e \in Threads /\ request[e] \in RequestsOf[e]
    BY <1>0, <1>13 DEF Consistent, CommitIdentity, Goto, Validated, Threads
  <2>2. slots' \in [Units -> Dresses \cup {NoDress}] /\ main' \in Units \cup {None}
    BY <1>0, <1>13, <2>1, GivenRequests DEF Typed, CommitIdentity
  <2>3. Typed'
    BY <1>0, <1>13, <2>1, <2>2 DEF Typed, CommitIdentity, Goto, States, work
  <2>4. \A t \in Threads : idLock' = t <=> pc'[t] = "write"
    BY <1>0, <1>13, <2>1, ThreadsAssumption DEF Typed, Consistent, CommitIdentity, Goto
  <2> QED
    BY <1>0, <1>13, <2>1, <2>3, <2>4 DEF Typed, Consistent, CommitIdentity, Goto, work
<1>14. ASSUME NEW l \in Loaders, EnsureIds(l) PROVE Kept
  BY <1>0, <1>14 DEF Typed, Consistent, EnsureIds, Goto, States, dbs, Threads
<1>15. ASSUME NEW l \in Loaders, ReadCostumes(l) PROVE Kept
  <2> DEFINE u == Min(unread[l])
  <2>1. l \in Threads /\ u \in Units
    BY <1>0, <1>15, NextUnit DEF Typed, ReadCostumes, Threads
  <2>2. Extend(dressed[l], u, slots[u]) \in Part(Dresses \cup {NoDress})
    <3>1. dressed[l] \in Part(Dresses \cup {NoDress}) /\ slots[u] \in Dresses \cup {NoDress}
      BY <1>0, <2>1 DEF Typed
    <3> QED
      BY <2>1, <3>1, ExtendIsPart
  <2> HIDE DEF u
  <2>3. /\ dressed' = [dressed EXCEPT ![l] = Extend(@, u, slots[u])]
        /\ unread' = [unread EXCEPT ![l] = @ \ {u}]
        /\ UNCHANGED <<dbs, domLock, idLock, pc, request, seen, todo, saved, crashes>>
    BY <1>15 DEF ReadCostumes, u
  <2> QED
    BY <1>0, <2>1, <2>2, <2>3 DEF Typed, Consistent, dbs
<1>16. ASSUME NEW l \in Loaders, Project(l) PROVE Kept
  BY <1>0, <1>16 DEF Typed, Consistent, Project, Goto, States, dbs, work, Threads
<1>17. ASSUME NEW t \in Threads, Locked(t) PROVE Kept
  <2>1. pc[t] \in {"open", "save", "identity", "ensure"}
    BY <1>17 DEF Locked, Blocked
  <2>2. Typed'
    BY <1>0, <1>17 DEF Typed, Locked, States, dbs
  <2>3. \A o \in Threads : domLock' = o <=> saved'[o] # {}
    BY <1>0, <1>17, ThreadsAssumption DEF Typed, Consistent, Locked
  <2> QED
    BY <1>0, <1>17, <2>1, <2>2, <2>3 DEF Typed, Consistent, Locked
<1>18. CASE Crash
  <2>1. crashes' \in 0..MaxCrashes
    BY <1>0, <1>18, CrashesAssumption DEF Typed, Crash
  <2>2. TypeOK'
    BY <1>18, <2>1, ThreadsAssumption, ForgetTypes DEF Crash
  <2> QED
    BY <2>2 DEF TypeOK, Typed, Consistent, Part
<1> HIDE DEF Kept
<1> QED
  BY <1>1, <1>2, <1>3, <1>4, <1>5, <1>6, <1>7, <1>8, <1>9, <1>10, <1>11, <1>12, <1>13, <1>14,
     <1>15, <1>16, <1>17, <1>18
     DEF Next, Proceed, CommonStep, EditStep, LoadStep

(* A step of the kind every request takes leaves the other requests and the stored units alone. *)
LEMMA OthersStay ==
    ASSUME TypeOK, NEW e \in Threads, NEW t \in Threads, t # e, CommonStep(t)
    PROVE  /\ pc'[e] = pc[e] /\ request'[e] = request[e] /\ unread'[e] = unread[e]
           /\ seen'[e] = seen[e] /\ todo'[e] = todo[e] /\ saved'[e] = saved[e]
           /\ members' = members /\ slots' = slots
<1>1. CASE OpenStores(t)
  BY <1>1 DEF TypeOK, OpenStores, dbs
<1>2. CASE ReadMembers(t)
  BY <1>2 DEF TypeOK, ReadMembers, dbs
<1>3. CASE Listed(t)
  BY <1>3 DEF TypeOK, Listed, work, dbs
<1>4. CASE Locked(t)
  BY <1>4 DEF TypeOK, Locked, work, dbs
<1>5. CASE Finish(t)
  BY <1>5 DEF TypeOK, Finish, Forget, work, dbs
<1> QED
  BY <1>1, <1>2, <1>3, <1>4, <1>5 DEF CommonStep

(* Every step keeps Validated: the ids are looked up before the units are
   listed, the cards are checked before a unit is saved. *)
LEMMA StepValidated == TypeOK /\ Validated /\ [Next]_vars => Validated'
<1> SUFFICES ASSUME TypeOK, Validated, [Next]_vars, NEW e \in Editors
             PROVE  /\ request'[e] \in RequestsOf[e] \cup {None}
                    /\ pc'[e] \in {"list", "check"} => request'[e].fault # "id"
                    /\ pc'[e] \in {"save", "identity", "write", "ok"} => request'[e].fault = "none"
                    /\ pc'[e] = "save" => todo'[e] \cup saved'[e] \subseteq DOMAIN request'[e].edit
                    /\ pc'[e] = "check" => unread'[e] = {}
  BY DEF Validated
<1> DEFINE Kept == /\ request'[e] \in RequestsOf[e] \cup {None}
                   /\ pc'[e] \in {"list", "check"} => request'[e].fault # "id"
                   /\ pc'[e] \in {"save", "identity", "write", "ok"} => request'[e].fault = "none"
                   /\ pc'[e] = "save" => todo'[e] \cup saved'[e] \subseteq DOMAIN request'[e].edit
                   /\ pc'[e] = "check" => unread'[e] = {}
<1> SUFFICES Kept
  OBVIOUS
<1>a. e \in Threads /\ e \notin Loaders
  BY ThreadsAssumption DEF Threads
<1>b. pc[e] # "idle" => request[e] \in RequestsOf[e]
  BY <1>a DEF TypeOK, Validated
<1>c. ASSUME pc'[e] = pc[e], request'[e] = request[e], unread'[e] = unread[e],
             todo'[e] = todo[e], saved'[e] = saved[e]
      PROVE  Kept
  BY <1>c DEF Validated
<1>d. ASSUME pc'[e] \notin {"list", "check", "save", "identity", "write", "ok"},
             request'[e] \in RequestsOf[e] \cup {None}
      PROVE  Kept
  BY <1>d
<1>1. CASE UNCHANGED vars
  BY <1>c, <1>1 DEF vars, work
<1>2. ASSUME NEW o \in Editors, NEW req \in RequestsOf[o], ReceiveEdit(o, req) PROVE Kept
  <2>1. CASE o = e
    BY <1>a, <1>d, <1>2, <2>1 DEF TypeOK, ReceiveEdit, Goto
  <2>2. CASE o # e
    BY <1>c, <1>2, <2>2 DEF TypeOK, ReceiveEdit, Goto, work
  <2> QED
    BY <2>1, <2>2
<1>3. ASSUME NEW l \in Loaders, ReceiveLoad(l) \/ EnsureIds(l) \/ ReadCostumes(l) \/ Project(l) PROVE Kept
  <2>1. l # e
    BY <1>a
  <2> QED
    BY <1>a, <1>c, <1>3, <2>1 DEF TypeOK, ReceiveLoad, EnsureIds, ReadCostumes, Project, Goto, work
<1>4. ASSUME NEW t \in Threads, t # e,
             OpenStores(t) \/ ReadMembers(t) \/ Listed(t) \/ Locked(t) \/ Finish(t)
      PROVE  Kept
  BY <1>a, <1>c, <1>4, OthersStay DEF CommonStep
<1>5. ASSUME NEW t \in Threads, t = e, OpenStores(t) PROVE Kept
  BY <1>a, <1>d, <1>5 DEF TypeOK, Validated, OpenStores
<1>6. ASSUME NEW t \in Threads, t = e, ReadMembers(t) PROVE Kept
  BY <1>6 DEF TypeOK, Validated, ReadMembers
<1>7. ASSUME NEW t \in Threads, t = e, Listed(t) PROVE Kept
  BY <1>a, <1>7 DEF TypeOK, Validated, Listed, work
<1>8. ASSUME NEW t \in Threads, t = e, Locked(t) PROVE Kept
  BY <1>a, <1>d, <1>8 DEF TypeOK, Validated, Locked
<1>9. ASSUME NEW t \in Threads, t = e, Finish(t) PROVE Kept
  BY <1>a, <1>d, <1>9 DEF Finish, Forget
<1>10. ASSUME NEW o \in Editors, o # e, EditStep(o) PROVE Kept
  BY <1>a, <1>c, <1>10 DEF TypeOK, EditStep, Resolve, Check, SaveUnit, CommitMembers, BeginIdentity,
                     CommitIdentity, Goto, work
<1>11. ASSUME NEW o \in Editors, o = e, Resolve(o) PROVE Kept
  BY <1>a, <1>b, <1>11 DEF TypeOK, Validated, Resolve, work
<1>12. ASSUME NEW o \in Editors, o = e, Check(o) PROVE Kept
  <2>1. request[e] \in RequestsOf[e] /\ request[e].fault \in {"card", "none"}
    BY <1>b, <1>12, GivenRequests DEF Validated, Check
  <2>2. Changed(e) \subseteq DOMAIN request[e].edit /\ saved[e] = {}
    BY <1>a, <1>12 DEF Changed, Check, TypeOK
  <2> QED
    BY <1>a, <1>12, <2>1, <2>2 DEF TypeOK, Check
<1>13. ASSUME NEW o \in Editors, o = e, NEW u \in Units, SaveUnit(o, u) PROVE Kept
  BY <1>a, <1>13 DEF TypeOK, Validated, SaveUnit
<1>14. ASSUME NEW o \in Editors, o = e, CommitMembers(o) PROVE Kept
  BY <1>a, <1>14 DEF TypeOK, Validated, CommitMembers, Goto
<1>15. ASSUME NEW o \in Editors, o = e, BeginIdentity(o) PROVE Kept
  BY <1>a, <1>15 DEF TypeOK, Validated, BeginIdentity, Goto, work
<1>16. ASSUME NEW o \in Editors, o = e, CommitIdentity(o) PROVE Kept
  BY <1>a, <1>16 DEF TypeOK, Validated, CommitIdentity, Goto, work
<1>17. CASE Crash
  BY <1>a, <1>d, <1>17 DEF Crash, Forget
<1> HIDE DEF Kept
<1> QED
  <2>1. ASSUME NEW t \in Threads, CommonStep(t) PROVE Kept
    BY <1>4, <1>5, <1>6, <1>7, <1>8, <1>9, <2>1 DEF CommonStep
  <2>2. ASSUME NEW o \in Editors, EditStep(o) PROVE Kept
    BY <1>10, <1>11, <1>12, <1>13, <1>14, <1>15, <1>16, <2>2 DEF EditStep
  <2> QED
    BY <1>1, <1>2, <1>3, <1>17, <2>1, <2>2 DEF Next, Proceed, LoadStep

(* Every step keeps RefusedEditsLeaveNoTrace: only a validated request is
   written. *)
LEMMA StepRefused ==
    ASSUME TypeOK, Validated, RefusedEditsLeaveNoTrace, [Next]_vars
    PROVE  RefusedEditsLeaveNoTrace'
<1>1. ASSUME NEW e \in Editors, CommitMembers(e) PROVE RefusedEditsLeaveNoTrace'
  <2>1. e \in Threads /\ request[e] \in RequestsOf[e] /\ request[e] \in Accepted
        /\ saved[e] \subseteq DOMAIN request[e].edit
    BY <1>1, GivenRequests DEF TypeOK, Validated, CommitMembers, Goto, Accepted, Threads
  <2>2. ASSUME NEW u \in Units, members'[u] # NoTeam
        PROVE  \E req \in Accepted : u \in DOMAIN req.edit /\ req.edit[u].team = members'[u]
    <3>1. CASE u \in saved[e]
      BY <1>1, <2>1, <3>1 DEF CommitMembers
    <3>2. CASE u \notin saved[e]
      BY <1>1, <2>2, <3>2 DEF CommitMembers, RefusedEditsLeaveNoTrace
    <3> QED
      BY <3>1, <3>2
  <2> QED
    BY <1>1, <2>2 DEF CommitMembers, RefusedEditsLeaveNoTrace
<1>2. ASSUME NEW e \in Editors, CommitIdentity(e) PROVE RefusedEditsLeaveNoTrace'
  <2>1. request[e] \in RequestsOf[e] /\ request[e] \in Accepted
    BY <1>2, GivenRequests DEF TypeOK, Validated, CommitIdentity, Goto, Accepted, Threads
  <2>2. ASSUME NEW u \in Units, slots'[u] # NoDress
        PROVE  \E req \in Accepted : u \in DOMAIN req.edit /\ req.edit[u].dress = slots'[u]
    <3>1. CASE u \in DOMAIN request[e].edit
      BY <1>2, <2>1, <3>1 DEF CommitIdentity
    <3>2. CASE u \notin DOMAIN request[e].edit
      BY <1>2, <2>2, <3>2 DEF CommitIdentity, RefusedEditsLeaveNoTrace
    <3> QED
      BY <3>1, <3>2
  <2> QED
    BY <1>2, <2>2 DEF CommitIdentity, RefusedEditsLeaveNoTrace
<1>3. CASE ~ \E e \in Editors : CommitMembers(e) \/ CommitIdentity(e)
  <2>1. UNCHANGED <<members, slots>>
    BY <1>3 DEF Next, Proceed, CommonStep, EditStep, LoadStep, ReceiveEdit, ReceiveLoad, OpenStores,
                ReadMembers, Listed, Locked, Finish, Resolve, Check, SaveUnit, BeginIdentity,
                EnsureIds, ReadCostumes, Project, Crash, vars, dbs
  <2> QED
    BY <2>1 DEF RefusedEditsLeaveNoTrace
<1> QED
  BY <1>1, <1>2, <1>3

(* An editor keeps OwnUnits while it does nothing and its units stay the same. *)
LEMMA Unaffected ==
    ASSUME NEW e \in Editors, OwnUnits(e),
           pc'[e] = pc[e], request'[e] = request[e], unread'[e] = unread[e], seen'[e] = seen[e],
           todo'[e] = todo[e], saved'[e] = saved[e],
           request[e] # None /\ request[e].fault = "none" =>
               \A u \in DOMAIN request[e].edit : members'[u] = members[u] /\ slots'[u] = slots[u]
    PROVE  OwnUnits(e)'
BY DEF OwnUnits

(* Before it has opened the stores, and after its request, an editor owns nothing. *)
LEMMA NothingListed ==
    ASSUME NEW e \in Editors,
           request'[e] = None \/ pc'[e] \notin {"resolve", "list", "check", "save", "identity", "write", "ok"}
    PROVE  OwnUnits(e)'
BY DEF OwnUnits

(* What another editor writes is not among the units of this one. *)
LEMMA NothingShared ==
    ASSUME Apart, TypeOK, Validated, NEW e \in Editors, NEW o \in Editors, o # e,
           request[e] # None, request[e].fault = "none",
           request[o] # None, request[o].fault = "none"
    PROVE  /\ DOMAIN request[e].edit \cap DOMAIN request[o].edit = {}
           /\ request[e].main = request[o].main
<1>1. request[e] \in RequestsOf[e] /\ request[o] \in RequestsOf[o]
  BY DEF Validated
<1> QED
  BY <1>1 DEF Apart

(* Every step keeps OwnUnits, as long as edits of different editors are apart. *)
LEMMA StepOwnUnits ==
    ASSUME Apart, TypeOK, Validated, \A e \in Editors : OwnUnits(e), [Next]_vars
    PROVE  \A e \in Editors : OwnUnits(e)'
<1> SUFFICES ASSUME NEW e \in Editors PROVE OwnUnits(e)'
  OBVIOUS
<1>a. e \in Threads /\ e \notin Loaders
  BY ThreadsAssumption DEF Threads
<1>b. request[e] # None => DOMAIN request[e].edit \subseteq Units
  BY GivenRequests DEF Validated
<1>1. CASE UNCHANGED vars
  BY <1>1, Unaffected DEF vars, work, dbs
<1>2. ASSUME NEW o \in Editors, NEW req \in RequestsOf[o], ReceiveEdit(o, req) PROVE OwnUnits(e)'
  <2>1. CASE o = e
    BY <1>a, <1>2, <2>1, NothingListed DEF TypeOK, ReceiveEdit, Goto
  <2>2. CASE o # e
    BY <1>a, <1>2, <2>2, Unaffected DEF TypeOK, ReceiveEdit, Goto, work, dbs
  <2> QED
    BY <2>1, <2>2
<1>3. ASSUME NEW l \in Loaders, ReceiveLoad(l) \/ LoadStep(l) PROVE OwnUnits(e)'
  <2>1. l # e
    BY <1>a
  <2> QED
    BY <1>a, <1>3, <2>1, Unaffected
       DEF TypeOK, LoadStep, ReceiveLoad, EnsureIds, ReadCostumes, Project, Goto, work, dbs
<1>4. ASSUME NEW t \in Threads, t # e, CommonStep(t) PROVE OwnUnits(e)'
  BY <1>a, <1>4, OthersStay, Unaffected
<1>5. ASSUME NEW t \in Threads, t = e, OpenStores(t) PROVE OwnUnits(e)'
  BY <1>a, <1>b, <1>5 DEF TypeOK, OpenStores, OwnUnits
<1>6. ASSUME NEW t \in Threads, t = e, ReadMembers(t) PROVE OwnUnits(e)'
  <2> DEFINE v == Min(unread[e])
  <2>1. /\ seen'[e] = Extend(seen[e], v, members[v])
        /\ unread'[e] = unread[e] \ {v}
        /\ pc'[e] = "list" /\ pc[e] = "list" /\ request'[e] = request[e]
        /\ members' = members
    BY <1>a, <1>6 DEF TypeOK, ReadMembers, dbs
  <2> HIDE DEF v
  <2>2. ASSUME request[e] # None, request[e].fault = "none",
               NEW u \in DOMAIN request[e].edit, u \notin unread'[e]
        PROVE  u \in DOMAIN seen'[e] /\ seen'[e][u] = members'[u]
    <3>1. u = v \/ (u \in DOMAIN seen[e] /\ seen[e][u] = members[u])
      BY <2>1, <2>2 DEF OwnUnits
    <3> QED
      BY <2>1, <3>1 DEF Extend
  <2> QED
    BY <2>1, <2>2 DEF OwnUnits
<1>7. ASSUME NEW t \in Threads, t = e, Listed(t) PROVE OwnUnits(e)'
  BY <1>a, <1>7 DEF TypeOK, Listed, OwnUnits, work, dbs
<1>8. ASSUME NEW t \in Threads, t = e, Locked(t) PROVE OwnUnits(e)'
  BY <1>a, <1>8, NothingListed DEF TypeOK, Locked
<1>9. ASSUME NEW t \in Threads, t = e, Finish(t) PROVE OwnUnits(e)'
  BY <1>a, <1>9, NothingListed DEF Finish, Forget
<1>10. ASSUME NEW o \in Editors, o # e, EditStep(o) PROVE OwnUnits(e)'
  <2>0. /\ pc'[e] = pc[e] /\ request'[e] = request[e] /\ unread'[e] = unread[e]
        /\ seen'[e] = seen[e] /\ todo'[e] = todo[e] /\ saved'[e] = saved[e]
    BY <1>a, <1>10 DEF TypeOK, EditStep, Resolve, Check, SaveUnit, CommitMembers, BeginIdentity,
                       CommitIdentity, Goto, work
  <2>1. CASE CommitMembers(o)
    <3>1. request[o] # None /\ request[o].fault = "none" /\ saved[o] \subseteq DOMAIN request[o].edit
      BY <2>1 DEF TypeOK, Validated, CommitMembers, Goto, Threads
    <3> QED
      BY <1>b, <1>10, <2>0, <2>1, <3>1, NothingShared, Unaffected DEF CommitMembers
  <2>2. CASE CommitIdentity(o)
    <3>1. request[o] # None /\ request[o].fault = "none"
      BY <2>2 DEF TypeOK, Validated, CommitIdentity, Goto, Threads
    <3> QED
      BY <1>b, <1>10, <2>0, <2>2, <3>1, NothingShared, Unaffected DEF CommitIdentity
  <2>3. CASE ~CommitMembers(o) /\ ~CommitIdentity(o)
    <3>1. UNCHANGED <<members, slots>>
      BY <1>10, <2>3 DEF EditStep, Resolve, Check, SaveUnit, BeginIdentity, dbs
    <3> QED
      BY <2>0, <3>1, Unaffected
  <2> QED
    BY <2>1, <2>2, <2>3
<1>11. ASSUME NEW o \in Editors, o = e, Resolve(o) PROVE OwnUnits(e)'
  BY <1>a, <1>11 DEF TypeOK, Resolve, OwnUnits, work, dbs
<1>12. ASSUME NEW o \in Editors, o = e, Check(o) PROVE OwnUnits(e)'
  <2>1. /\ pc[e] = "check" /\ unread[e] = {} /\ saved[e] = {} /\ saved'[e] = saved[e]
        /\ request'[e] = request[e] /\ members' = members
        /\ request[e].fault = "none" =>
              pc'[e] = (IF Changed(e) = {} THEN "identity" ELSE "save") /\ todo'[e] = Changed(e)
    BY <1>a, <1>12 DEF TypeOK, Validated, Check, dbs
  <2>2. ASSUME request[e] # None, request[e].fault = "none", NEW u \in DOMAIN request[e].edit
        PROVE  u \in Changed(e) <=> members[u] # request[e].edit[u].team
    BY <2>1, <2>2 DEF OwnUnits, Changed
  <2> QED
    BY <2>1, <2>2 DEF OwnUnits
<1>13. ASSUME NEW o \in Editors, o = e, NEW u \in Units, SaveUnit(o, u) PROVE OwnUnits(e)'
  <2>1. todo'[e] \cup saved'[e] = todo[e] \cup saved[e]
    BY <1>a, <1>13 DEF TypeOK, SaveUnit
  <2> QED
    BY <1>a, <1>13, <2>1 DEF TypeOK, SaveUnit, OwnUnits, dbs
<1>14. ASSUME NEW o \in Editors, o = e, CommitMembers(o) PROVE OwnUnits(e)'
  <2>1. /\ pc[e] = "save" /\ pc'[e] = "identity" /\ todo[e] = {} /\ request'[e] = request[e]
        /\ members' = [u \in Units |-> IF u \in saved[e] THEN request[e].edit[u].team ELSE members[u]]
    BY <1>a, <1>14 DEF TypeOK, CommitMembers, Goto
  <2>2. ASSUME request[e] # None, request[e].fault = "none", NEW u \in DOMAIN request[e].edit
        PROVE  members'[u] = request[e].edit[u].team
    BY <1>b, <2>1, <2>2 DEF OwnUnits
  <2> QED
    BY <2>1, <2>2 DEF OwnUnits
<1>15. ASSUME NEW o \in Editors, o = e, BeginIdentity(o) PROVE OwnUnits(e)'
  BY <1>a, <1>15 DEF TypeOK, BeginIdentity, Goto, OwnUnits, work, dbs
<1>16. ASSUME NEW o \in Editors, o = e, CommitIdentity(o) PROVE OwnUnits(e)'
  BY <1>a, <1>b, <1>16 DEF TypeOK, CommitIdentity, Goto, OwnUnits, work
<1>17. CASE Crash
  BY <1>a, <1>17, NothingListed DEF Crash, Forget
<1> QED
  <2>1. ASSUME NEW t \in Threads, CommonStep(t) PROVE OwnUnits(e)'
    BY <1>4, <1>5, <1>6, <1>7, <1>8, <1>9, <2>1 DEF CommonStep
  <2>2. ASSUME NEW o \in Editors, EditStep(o) PROVE OwnUnits(e)'
    BY <1>10, <1>11, <1>12, <1>13, <1>14, <1>15, <1>16, <2>2 DEF EditStep
  <2> QED
    BY <1>1, <1>2, <1>3, <1>17, <2>1, <2>2 DEF Next, Proceed

(* Every step keeps OwnMain: editors that could be between their commit and
   their reply at once name the same main unit. *)
LEMMA StepOwnMain ==
    ASSUME Apart, TypeOK, Validated, OwnMain, [Next]_vars
    PROVE  OwnMain'
<1> SUFFICES ASSUME NEW e \in Editors, pc'[e] = "ok" PROVE main' = request'[e].main
  BY DEF OwnMain
<1>a. e \in Threads /\ e \notin Loaders
  BY ThreadsAssumption DEF Threads
<1>1. ASSUME NEW o \in Editors, CommitIdentity(o) PROVE main' = request'[e].main
  <2>1. /\ o \in Threads /\ request[o] # None /\ request[o].fault = "none"
        /\ main' = request[o].main /\ request' = request
    BY <1>1 DEF TypeOK, Validated, CommitIdentity, Goto, Threads
  <2>2. CASE o # e
    <3>1. pc[e] = "ok" /\ request[e] # None /\ request[e].fault = "none"
      BY <1>a, <1>1, <2>2 DEF TypeOK, Validated, CommitIdentity, Goto
    <3> QED
      BY <2>1, <2>2, <3>1, NothingShared
  <2> QED
    BY <2>1, <2>2
<1>2. CASE ~ \E o \in Editors : CommitIdentity(o)
  <2> SUFFICES main' = main /\ pc[e] = "ok" /\ request'[e] = request[e]
    BY DEF OwnMain
  <2>1. CASE UNCHANGED vars
    BY <2>1 DEF vars, dbs
  <2>2. ASSUME NEW o \in Editors, NEW req \in RequestsOf[o], ReceiveEdit(o, req)
        PROVE  main' = main /\ pc[e] = "ok" /\ request'[e] = request[e]
    BY <1>a, <2>2 DEF ReceiveEdit, Goto, dbs, TypeOK
  <2>3. ASSUME NEW t \in Threads, CommonStep(t)
        PROVE  main' = main /\ pc[e] = "ok" /\ request'[e] = request[e]
    <3>1. CASE OpenStores(t)
      BY <1>a, <3>1 DEF OpenStores, dbs, TypeOK
    <3>2. CASE ReadMembers(t)
      BY <1>a, <3>2 DEF ReadMembers, dbs, TypeOK
    <3>3. CASE Listed(t)
      BY <1>a, <3>3 DEF Listed, dbs, work, TypeOK
    <3>4. CASE Locked(t)
      BY <1>a, <3>4 DEF Locked, dbs, work, TypeOK
    <3>5. CASE Finish(t)
      BY <1>a, <3>5 DEF Finish, Forget, dbs, TypeOK
    <3> QED
      BY <2>3, <3>1, <3>2, <3>3, <3>4, <3>5 DEF CommonStep
  <2>4. ASSUME NEW o \in Editors, EditStep(o)
        PROVE  main' = main /\ pc[e] = "ok" /\ request'[e] = request[e]
    <3>1. o \in Threads
      BY DEF Threads
    <3> QED
      BY <1>a, <1>2, <2>4, <3>1
         DEF EditStep, Resolve, Check, SaveUnit, CommitMembers, BeginIdentity, Goto, dbs, work, TypeOK
  <2>5. ASSUME NEW l \in Loaders, ReceiveLoad(l) \/ LoadStep(l)
        PROVE  main' = main /\ pc[e] = "ok" /\ request'[e] = request[e]
    BY <1>a, <2>5 DEF ReceiveLoad, LoadStep, EnsureIds, ReadCostumes, Project, Goto, dbs, work, TypeOK
  <2>6. CASE Crash
    BY <1>a, <2>6 DEF Crash, Forget, dbs
  <2> QED
    BY <2>1, <2>2, <2>3, <2>4, <2>5, <2>6 DEF Next, Proceed
<1> QED
  BY <1>1, <1>2

(* The invariant holds of a fresh pair of databases. *)
LEMMA InitIInv == Init => IInv
<1> SUFFICES ASSUME Init PROVE IInv
  OBVIOUS
<1>1. Validated /\ RefusedEditsLeaveNoTrace /\ OwnMain /\ \A e \in Editors : OwnUnits(e)
  BY DEF Init, Validated, RefusedEditsLeaveNoTrace, OwnMain, OwnUnits, Threads
<1> QED
  BY <1>1, InitTypeOK DEF IInv

(* The invariant of the edits, for any number of editors, loaders and crashes:
   what is written was validated, and, as long as edits of different editors are
   apart, what an editor has read is what it overwrites. *)
THEOREM InductiveInvariant == Spec => []IInv
<1>1. IInv /\ [Next]_vars => IInv'
  BY StepTypeOK, StepValidated, StepRefused, StepOwnUnits, StepOwnMain DEF IInv, Apart
<1> QED
  BY <1>1, InitIInv, PTL DEF Spec

(* Who has saved a unit holds the domain database's lock, who is inside BEGIN
   IMMEDIATE that of the identity data, and nobody else does. *)
THEOREM TypeCorrect == Spec => []TypeOK
<1>1. IInv => TypeOK
  BY DEF IInv
<1> QED
  BY <1>1, InductiveInvariant, PTL

(* Whatever editors interleave and crash: what is stored, in either database,
   comes from an edit whose ids and cards were all found good. *)
THEOREM RefusalsLeaveNothing == Spec => []RefusedEditsLeaveNoTrace
<1>1. IInv => RefusedEditsLeaveNoTrace
  BY DEF IInv
<1> QED
  BY <1>1, InductiveInvariant, PTL

(* An edit that is answered is in both databases, as long as edits of different
   editors share no unit. *)
THEOREM AnswersHold ==
    ASSUME Apart
    PROVE  Spec => []AnsweredEditHolds
<1>1. IInv => AnsweredEditHolds
  BY DEF IInv, TypeOK, Validated, OwnMain, OwnUnits, AnsweredEditHolds, Threads
<1> QED
  BY <1>1, InductiveInvariant, PTL

(* The mixed units that TLC finds after edits of two editors need both: as long as
   edits of different editors are apart, a commit leaves every unit of its edit
   with the team that the edit gives it, also those it has not written. *)
LEMMA CommitsAreWhole ==
    ASSUME NEW e \in Editors, IInv, Apart, CommitMembers(e)
    PROVE  /\ request[e] \in Accepted
           /\ \A u \in DOMAIN request[e].edit : members'[u] = request[e].edit[u].team
<1>1. e \in Threads /\ request[e] \in AllRequests
  BY DEF CommitMembers, Goto, IInv, Validated, Threads, TypeOK, AllRequests
<1>2. request[e].fault = "none" /\ request[e] # None
  BY <1>1, RequestsAssumption DEF CommitMembers, Goto, IInv, Validated
<1>3. DOMAIN request[e].edit \subseteq Units
  BY <1>1, RequestsAssumption
<1>4. ASSUME NEW u \in DOMAIN request[e].edit, u \notin saved[e]
      PROVE  members[u] = request[e].edit[u].team
  BY <1>2, <1>4 DEF CommitMembers, Goto, IInv, OwnUnits
<1> QED
  BY <1>1, <1>2, <1>3, <1>4 DEF CommitMembers, Accepted

(* When every edit that is applied gives all units one team, and edits of different
   editors are apart, all units have one team at any moment. *)
THEOREM SeparateEditsStayWhole ==
    ASSUME Apart,
           \A req \in Accepted : /\ DOMAIN req.edit = Units
                                 /\ \A u, v \in Units : req.edit[u].team = req.edit[v].team
    PROVE  Spec => []EditsStayWhole
<1>1. Init => EditsStayWhole
  BY DEF Init, EditsStayWhole
<1>2. IInv /\ EditsStayWhole /\ [Next]_vars => EditsStayWhole'
  <2> SUFFICES ASSUME IInv, EditsStayWhole, [Next]_vars PROVE EditsStayWhole'
    OBVIOUS
  <2>1. CASE UNCHANGED members
    BY <2>1 DEF EditsStayWhole
  <2>2. ASSUME NEW e \in Editors, CommitMembers(e) PROVE EditsStayWhole'
    BY <2>2, CommitsAreWhole DEF EditsStayWhole
  <2> QED
    BY <2>1, <2>2 DEF Next, Proceed, CommonStep, EditStep, LoadStep, vars, dbs, ReceiveEdit, ReceiveLoad,
           OpenStores, ReadMembers, Listed, Locked, Finish, Resolve, Check, SaveUnit, BeginIdentity,
           CommitIdentity, EnsureIds, ReadCostumes, Project, Crash
<1> QED
  BY <1>1, <1>2, InductiveInvariant, PTL DEF Spec
=============================================================================
