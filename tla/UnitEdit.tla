------------------------------ MODULE UnitEdit ------------------------------
(***************************************************************************)
(* POST /unit/edit and the part of POST /load/index that reads what it     *)
(* writes (server/application/unit_edit.py and load_index.py,              *)
(* server/domain/unit_services.py, server/domain/persistence.py,           *)
(* server/adapters/identity_store.py).                                     *)
(*                                                                         *)
(* The members of a unit are in the domain database, its costumes and the  *)
(* choice of the main unit in the compatibility identity database.  An     *)
(* edit commits first in the one and then in the other; list_units reads   *)
(* the units one SELECT after the other.                                   *)
(***************************************************************************)
EXTENDS Naturals, FiniteSets, FiniteSetsExt, Functions

CONSTANTS
    Editors,     \* threads that serve /unit/edit
    Loaders,     \* threads that serve /load/index
    Units,       \* the player's units, numbered in the order of their slots
    Teams,       \* memberships a unit can have
    Dresses,     \* costume rows a unit can have
    NoTeam,      \* the starter membership
    NoDress,     \* no costume rows yet
    RequestsOf,  \* the requests each editor may be given
    None,        \* no thread, no unit, no request
    MaxCrashes   \* bound on the server crashes

Threads == Editors \cup Loaders

\* edit: the new members and costumes of some units; main: the main unit, or
\* None for 0; fault: "id" for an unbound or duplicate client id or an array
\* without five slots, "card" for a card that is not owned, else "none".
AllRequests == UNION {RequestsOf[e] : e \in Editors}

ASSUME UnitsAssumption == Units \subseteq Nat /\ IsFiniteSet(Units)
ASSUME CrashesAssumption == MaxCrashes \in Nat
ASSUME ThreadsAssumption == Editors \cap Loaders = {} /\ None \notin Threads
ASSUME RequestsAssumption ==
    \A req \in AllRequests :
        /\ req # None
        /\ req.fault \in {"id", "card", "none"}
        /\ req.main \in Units \cup {None}
        /\ DOMAIN req.edit \subseteq Units
        /\ \A u \in DOMAIN req.edit : req.edit[u].team \in Teams /\ req.edit[u].dress \in Dresses

VARIABLES
    members,   \* committed unit_members, per unit
    slots,     \* committed unit_compatibility_slots, per unit
    main,      \* committed player_unit_preferences
    domLock,   \* the thread holding the domain database's write lock, or None
    idLock,    \* the thread holding the identity database's write lock, or None
    pc,
    request,   \* what each editor works on
    unread,    \* units whose members, or costumes, each thread has still to read
    seen,      \* members read so far by list_units
    dressed,   \* costumes each loader has read so far
    todo,      \* units each editor has still to save in its transaction
    saved,     \* units each editor has saved in its open transaction
    crashes

dbs  == <<members, slots, main>>
work == <<unread, seen, dressed, todo, saved>>
vars == <<dbs, domLock, idLock, pc, request, work, crashes>>

States == {"idle", "open", "resolve", "list", "check", "save", "identity", "write",
           "ensure", "costumes", "ok", "bad", "dropped"}

Init ==
    /\ members = [u \in Units |-> NoTeam]
    /\ slots = [u \in Units |-> NoDress]
    /\ main = None
    /\ domLock = None
    /\ idLock = None
    /\ pc = [t \in Threads |-> "idle"]
    /\ request = [t \in Threads |-> None]
    /\ unread = [t \in Threads |-> {}]
    /\ seen = [t \in Threads |-> <<>>]
    /\ dressed = [t \in Threads |-> <<>>]
    /\ todo = [t \in Threads |-> {}]
    /\ saved = [t \in Threads |-> {}]
    /\ crashes = 0

-----------------------------------------------------------------------------
(* Steps every request takes *)

Goto(t, from, to) == pc[t] = from /\ pc' = [pc EXCEPT ![t] = to]

Extend(f, u, value) == [x \in DOMAIN f \cup {u} |-> IF x = u THEN value ELSE f[x]]

\* The threads in some end their requests, and with them what only they know.
Forget(some) ==
    /\ pc' = [t \in Threads |-> IF t \in some THEN "idle" ELSE pc[t]]
    /\ request' = [t \in Threads |-> IF t \in some THEN None ELSE request[t]]
    /\ unread' = [t \in Threads |-> IF t \in some THEN {} ELSE unread[t]]
    /\ seen' = [t \in Threads |-> IF t \in some THEN <<>> ELSE seen[t]]
    /\ dressed' = [t \in Threads |-> IF t \in some THEN <<>> ELSE dressed[t]]
    /\ todo' = [t \in Threads |-> IF t \in some THEN {} ELSE todo[t]]
    /\ saved' = [t \in Threads |-> IF t \in some THEN {} ELSE saved[t]]

ReceiveEdit(e, req) ==
    /\ Goto(e, "idle", "open")
    /\ request' = [request EXCEPT ![e] = req]
    /\ UNCHANGED <<dbs, domLock, idLock, work, crashes>>

ReceiveLoad(l) ==
    /\ Goto(l, "idle", "open")
    /\ UNCHANGED <<dbs, domLock, idLock, request, work, crashes>>

\* Opening the domain store always writes schema_metadata.
OpenStores(t) ==
    /\ pc[t] = "open"
    /\ domLock = None
    /\ pc' = [pc EXCEPT ![t] = IF t \in Editors THEN "resolve" ELSE "list"]
    /\ unread' = [unread EXCEPT ![t] = Units]
    /\ UNCHANGED <<dbs, domLock, idLock, request, seen, dressed, todo, saved, crashes>>

\* list_units: one SELECT on unit_members per unit, in the order of the slots.
ReadMembers(t) ==
    /\ pc[t] = "list"
    /\ unread[t] # {}
    /\ LET u == Min(unread[t]) IN
           /\ seen' = [seen EXCEPT ![t] = Extend(@, u, members[u])]
           /\ unread' = [unread EXCEPT ![t] = @ \ {u}]
    /\ UNCHANGED <<dbs, domLock, idLock, pc, request, dressed, todo, saved, crashes>>

Listed(t) ==
    /\ pc[t] = "list"
    /\ unread[t] = {}
    /\ pc' = [pc EXCEPT ![t] = IF t \in Editors THEN "check" ELSE "ensure"]
    /\ UNCHANGED <<dbs, domLock, idLock, request, work, crashes>>

Finish(t) ==
    /\ pc[t] \in {"ok", "bad", "dropped"}
    /\ Forget({t})
    /\ UNCHANGED <<dbs, domLock, idLock, crashes>>

-----------------------------------------------------------------------------
(* POST /unit/edit *)

\* Mutant: the ids are only looked up when they are needed.
ResolveLazily(e) ==
    /\ pc[e] = "resolve"
    /\ pc' = [pc EXCEPT ![e] = "list"]
    /\ UNCHANGED <<dbs, domLock, idLock, request, work, crashes>>

\* _resolve: every id is validated before any database is written.
Resolve(e) ==
    /\ pc[e] = "resolve"
    /\ pc' = [pc EXCEPT ![e] = IF request[e].fault = "id" THEN "bad" ELSE "list"]
    /\ UNCHANGED <<dbs, domLock, idLock, request, work, crashes>>

Changed(e) == {u \in DOMAIN request[e].edit : seen[e][u] # request[e].edit[u].team}

\* Mutant: an edit that changes no membership is answered at once.
CheckAndReturn(e) ==
    /\ pc[e] = "check"
    /\ pc' = [pc EXCEPT ![e] = IF request[e].fault = "card" THEN "bad"
                               ELSE IF Changed(e) = {} THEN "ok" ELSE "save"]
    /\ todo' = [todo EXCEPT ![e] = IF request[e].fault = "card" THEN {} ELSE Changed(e)]
    /\ UNCHANGED <<dbs, domLock, idLock, request, unread, seen, dressed, saved, crashes>>

\* replace_members: unowned cards are refused, and only units whose members
\* differ from what was read are saved.
Check(e) ==
    /\ pc[e] = "check"
    /\ pc' = [pc EXCEPT ![e] = IF request[e].fault = "card" THEN "bad"
                               ELSE IF Changed(e) = {} THEN "identity" ELSE "save"]
    /\ todo' = [todo EXCEPT ![e] = IF request[e].fault = "card" THEN {} ELSE Changed(e)]
    /\ UNCHANGED <<dbs, domLock, idLock, request, unread, seen, dressed, saved, crashes>>

SaveUnit(e, u) ==
    /\ pc[e] = "save"
    /\ u \in todo[e]
    /\ domLock \in {None, e}
    /\ domLock' = e
    /\ todo' = [todo EXCEPT ![e] = @ \ {u}]
    /\ saved' = [saved EXCEPT ![e] = @ \cup {u}]
    /\ UNCHANGED <<dbs, idLock, pc, request, unread, seen, dressed, crashes>>

\* Mutant: the members are written, the transaction stays open.
CommitMembersOpen(e) ==
    /\ Goto(e, "save", "identity")
    /\ todo[e] = {}
    /\ members' = [u \in Units |-> IF u \in saved[e] THEN request[e].edit[u].team
                                                    ELSE members[u]]
    /\ saved' = [saved EXCEPT ![e] = {}]
    /\ UNCHANGED <<slots, main, domLock, idLock, request, unread, seen, dressed, todo, crashes>>

CommitMembers(e) ==
    /\ Goto(e, "save", "identity")
    /\ todo[e] = {}
    /\ members' = [u \in Units |-> IF u \in saved[e] THEN request[e].edit[u].team
                                                    ELSE members[u]]
    /\ saved' = [saved EXCEPT ![e] = {}]
    /\ domLock' = None
    /\ UNCHANGED <<slots, main, idLock, request, unread, seen, dressed, todo, crashes>>

BeginIdentity(e) ==
    /\ Goto(e, "identity", "write")
    /\ idLock = None
    /\ idLock' = e
    /\ UNCHANGED <<dbs, domLock, request, work, crashes>>

\* replace_unit_compatibility_slots for every unit of the request and
\* set_main_unit, in one transaction of the identity store.
CommitIdentity(e) ==
    /\ Goto(e, "write", "ok")
    /\ slots' = [u \in Units |-> IF u \in DOMAIN request[e].edit THEN request[e].edit[u].dress
                                                                ELSE slots[u]]
    /\ main' = request[e].main
    /\ idLock' = None
    /\ UNCHANGED <<members, domLock, request, work, crashes>>

-----------------------------------------------------------------------------
(* POST /load/index *)

\* ensure_card_serial and ensure_unit_id need the write lock in turn.
EnsureIds(l) ==
    /\ Goto(l, "ensure", "costumes")
    /\ idLock = None
    /\ unread' = [unread EXCEPT ![l] = Units]
    /\ UNCHANGED <<dbs, domLock, idLock, request, seen, dressed, todo, saved, crashes>>

ReadCostumes(l) ==
    /\ pc[l] = "costumes"
    /\ unread[l] # {}
    /\ LET u == Min(unread[l]) IN
           /\ dressed' = [dressed EXCEPT ![l] = Extend(@, u, slots[u])]
           /\ unread' = [unread EXCEPT ![l] = @ \ {u}]
    /\ UNCHANGED <<dbs, domLock, idLock, pc, request, seen, todo, saved, crashes>>

Project(l) ==
    /\ Goto(l, "costumes", "ok")
    /\ unread[l] = {}
    /\ UNCHANGED <<dbs, domLock, idLock, request, work, crashes>>

-----------------------------------------------------------------------------
(* Failures *)

\* Someone else may keep the thread from the lock it needs next.
Blocked(t) ==
    \/ pc[t] = "open" /\ domLock # None
    \/ pc[t] = "save" /\ \E o \in Editors \ {t} : pc[o] = "save"
    \/ pc[t] \in {"identity", "ensure"} /\ idLock # None

\* Mutant: the busy handler waits without a limit.
LockedRetry(t) ==
    /\ Blocked(t)
    /\ UNCHANGED vars

\* "database is locked": after the busy timeout, or at once when a transaction
\* that has already read asks for the write lock.  The open transaction is
\* rolled back and the connection dropped without a reply.
Locked(t) ==
    /\ Blocked(t)
    /\ pc' = [pc EXCEPT ![t] = "dropped"]
    /\ domLock' = IF domLock = t THEN None ELSE domLock
    /\ todo' = [todo EXCEPT ![t] = {}]
    /\ saved' = [saved EXCEPT ![t] = {}]
    /\ UNCHANGED <<dbs, idLock, request, unread, seen, dressed, crashes>>

Crash ==
    /\ crashes < MaxCrashes
    /\ crashes' = crashes + 1
    /\ domLock' = None
    /\ idLock' = None
    /\ Forget(Threads)
    /\ UNCHANGED dbs

-----------------------------------------------------------------------------
EditStep(e) ==
    \/ Resolve(e)
    \/ Check(e)
    \/ \E u \in Units : SaveUnit(e, u)
    \/ CommitMembers(e)
    \/ BeginIdentity(e)
    \/ CommitIdentity(e)

LoadStep(l) == EnsureIds(l) \/ ReadCostumes(l) \/ Project(l)

CommonStep(t) == OpenStores(t) \/ ReadMembers(t) \/ Listed(t) \/ Locked(t) \/ Finish(t)

Proceed(t) ==
    \/ CommonStep(t)
    \/ t \in Editors /\ EditStep(t)
    \/ t \in Loaders /\ LoadStep(t)

Next ==
    \/ \E t \in Threads : Proceed(t)
    \/ \E e \in Editors : \E req \in RequestsOf[e] : ReceiveEdit(e, req)
    \/ \E l \in Loaders : ReceiveLoad(l)
    \/ Crash

Spec == Init /\ [][Next]_vars

\* A thread that serves a request is scheduled until it is done.
FairSpec == Spec /\ \A t \in Threads : WF_vars(Proceed(t))

-----------------------------------------------------------------------------
(* Properties *)

\* Types, and who holds which lock: the domain lock is held from the first save
\* to the commit, the identity lock from BEGIN IMMEDIATE to the commit.
TypeOK ==
    /\ members \in [Units -> Teams \cup {NoTeam}]
    /\ slots \in [Units -> Dresses \cup {NoDress}]
    /\ main \in Units \cup {None}
    /\ domLock \in Threads \cup {None}
    /\ idLock \in Threads \cup {None}
    /\ pc \in [Threads -> States]
    /\ request \in [Threads -> AllRequests \cup {None}]
    /\ unread \in [Threads -> SUBSET Units]
    /\ seen \in [Threads -> UNION {[some -> Teams \cup {NoTeam}] : some \in SUBSET Units}]
    /\ dressed \in [Threads -> UNION {[some -> Dresses \cup {NoDress}] : some \in SUBSET Units}]
    /\ todo \in [Threads -> SUBSET Units]
    /\ saved \in [Threads -> SUBSET Units]
    /\ crashes \in 0..MaxCrashes
    /\ \A t \in Threads :
          /\ domLock = t <=> saved[t] # {}
          /\ idLock = t <=> pc[t] = "write"
          /\ pc[t] = "save" <=> todo[t] \cup saved[t] # {}
          /\ t \in Editors => (request[t] = None <=> pc[t] = "idle")

\* When an edit is answered, both databases hold what it asked for, also when an
\* earlier attempt died between the two commits and this one finds its members
\* already stored, and the main unit is the one it names.  (One editor, or Apart.)
AnsweredEditHolds ==
    \A e \in Editors : pc[e] = "ok" =>
        /\ \A u \in DOMAIN request[e].edit :
            /\ members[u] = request[e].edit[u].team
            /\ slots[u] = request[e].edit[u].dress
        /\ main = request[e].main

Accepted == {req \in AllRequests : req.fault = "none"}

\* Whatever is stored, in either database, comes from an edit without fault:
\* ids and cards are all checked before the first write of either.
RefusedEditsLeaveNoTrace ==
    \A u \in Units :
        /\ members[u] # NoTeam =>
              \E req \in Accepted : u \in DOMAIN req.edit /\ req.edit[u].team = members[u]
        /\ slots[u] # NoDress =>
              \E req \in Accepted : u \in DOMAIN req.edit /\ req.edit[u].dress = slots[u]

\* Every request in flight ends, with a reply or by a dropped connection.
RequestsEnd == \A t \in Threads : pc[t] # "idle" ~> pc[t] = "idle"

\* "Atomically replace membership for one or more existing player units": when
\* every edit gives all units one and the same team, they all have it.
EditsStayWhole == \A u, v \in Units : members[u] = members[v]

-----------------------------------------------------------------------------
(* The inductive invariant *)

\* What an editor writes comes from a request it was given and found without
\* fault, and only to units of that request.
Validated ==
    \A e \in Editors :
        /\ request[e] \in RequestsOf[e] \cup {None}
        /\ pc[e] \in {"list", "check"} => request[e].fault # "id"
        /\ pc[e] \in {"save", "identity", "write", "ok"} => request[e].fault = "none"
        /\ pc[e] = "save" => todo[e] \cup saved[e] \subseteq DOMAIN request[e].edit
        /\ pc[e] = "check" => unread[e] = {}

\* Edits that are applied by different editors share no unit and agree on the
\* main unit; any requests of a single editor do.
Apart ==
    \A e, f \in Editors : \A req \in RequestsOf[e], other \in RequestsOf[f] :
        e # f /\ req.fault = "none" /\ other.fault = "none" =>
            DOMAIN req.edit \cap DOMAIN other.edit = {} /\ req.main = other.main

\* What an editor has read of its units is still stored, and what it need not
\* save, or has committed, is what its request asks for.
OwnUnits(e) ==
    request[e] # None /\ request[e].fault = "none" =>
        \A u \in DOMAIN request[e].edit :
            /\ pc[e] \in {"resolve", "list", "check"} /\ u \notin unread[e] =>
                  u \in DOMAIN seen[e] /\ seen[e][u] = members[u]
            /\ pc[e] = "save" /\ u \notin todo[e] \cup saved[e] => members[u] = request[e].edit[u].team
            /\ pc[e] \in {"identity", "write", "ok"} => members[u] = request[e].edit[u].team
            /\ pc[e] = "ok" => slots[u] = request[e].edit[u].dress

OwnMain == \A e \in Editors : pc[e] = "ok" => main = request[e].main

IInv ==
    /\ TypeOK
    /\ Validated
    /\ RefusedEditsLeaveNoTrace
    /\ Apart => OwnMain /\ \A e \in Editors : OwnUnits(e)
=============================================================================
