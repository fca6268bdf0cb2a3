---------------------------- MODULE CardCommands ----------------------------
(***************************************************************************)
(* POST /member/protect_card and POST /favorite/edit, from the thread that *)
(* receives the request to its reply (server/application/member_protect.py *)
(* and member_favorite.py, server/domain/services.py and card_services.py, *)
(* server/domain/persistence.py).                                          *)
(*                                                                         *)
(* Each request has its own connections.  It reads the player's cards with *)
(* one autocommitted SELECT, computes the rows it wants, and then writes   *)
(* those rows whole in a transaction.  The write lock is taken by the      *)
(* first write of the transaction; what a transaction has written is seen  *)
(* by others when it commits.                                              *)
(***************************************************************************)
EXTENDS CardRequests, FiniteSets

CONSTANTS
    Threads,     \* request threads of the ThreadingHTTPServer
    RequestsOf,  \* the requests each thread may be given
    InitialCards,\* the tables of cards the server may be started on
    None,        \* no thread, no request, no rows
    MaxCrashes   \* bound on the server crashes

AllRequests == UNION {RequestsOf[t] : t \in Threads}

ASSUME InitialAssumption == InitialCards \subseteq [Cards -> Card]
ASSUME CrashesAssumption == MaxCrashes \in Nat
ASSUME NoneAssumption == None \notin Threads \cup AllRequests

VARIABLES
    cards,    \* committed user_cards rows of the player
    lock,     \* the thread whose transaction holds SQLite's write lock, or None
    pc,       \* what each thread does next
    request,  \* the request each thread works on
    cache,    \* the rows each thread has read with list_cards
    todo,     \* cards each thread has still to save in its transaction
    saved,    \* cards each thread has saved in its open transaction
    reply,    \* the reply each thread is about to send
    flips,    \* history: parity of the committed toggles of each card
    crashes

vars == <<cards, lock, pc, request, cache, todo, saved, reply, flips, crashes>>

Replies == [status : {200, 400}, protected : SUBSET DOMAIN CardOf]
NoReply == [status |-> 400, protected |-> {}]
States  == {"idle", "open", "resolve", "read", "save", "readback", "reply", "dropped"}

Init ==
    /\ cards \in InitialCards
    /\ lock = None
    /\ pc = [t \in Threads |-> "idle"]
    /\ request = [t \in Threads |-> None]
    /\ cache = [t \in Threads |-> None]
    /\ todo = [t \in Threads |-> {}]
    /\ saved = [t \in Threads |-> {}]
    /\ reply = [t \in Threads |-> NoReply]
    /\ flips = [c \in Cards |-> cards[c].protected]
    /\ crashes = 0

-----------------------------------------------------------------------------
Goto(t, from, to) == pc[t] = from /\ pc' = [pc EXCEPT ![t] = to]

\* The threads in some end their requests, and with them what only they know.
Forget(some) ==
    /\ pc' = [t \in Threads |-> IF t \in some THEN "idle" ELSE pc[t]]
    /\ request' = [t \in Threads |-> IF t \in some THEN None ELSE request[t]]
    /\ cache' = [t \in Threads |-> IF t \in some THEN None ELSE cache[t]]
    /\ todo' = [t \in Threads |-> IF t \in some THEN {} ELSE todo[t]]
    /\ saved' = [t \in Threads |-> IF t \in some THEN {} ELSE saved[t]]
    /\ reply' = [t \in Threads |-> IF t \in some THEN NoReply ELSE reply[t]]

Receive(t, req) ==
    /\ Goto(t, "idle", "open")
    /\ request' = [request EXCEPT ![t] = req]
    /\ UNCHANGED <<cards, lock, cache, todo, saved, reply, flips, crashes>>

\* SQLiteDomainStore.open always ends with a transaction on schema_metadata,
\* for which it has to get the write lock.
OpenStores(t) ==
    /\ Goto(t, "open", "resolve")
    /\ lock = None
    /\ UNCHANGED <<cards, lock, request, cache, todo, saved, reply, flips, crashes>>

BadRequest(t) ==
    /\ pc' = [pc EXCEPT ![t] = "reply"]
    /\ reply' = [reply EXCEPT ![t] = NoReply]
    /\ UNCHANGED <<cards, lock, request, cache, todo, saved, flips, crashes>>

\* Duplicate or unbound serials: ValueError, before the domain is read.
RejectSerials(t) ==
    /\ pc[t] = "resolve"
    /\ ~Resolvable(request[t])
    /\ BadRequest(t)

ResolveSerials(t) ==
    /\ Goto(t, "resolve", "read")
    /\ Resolvable(request[t])
    /\ UNCHANGED <<cards, lock, request, cache, todo, saved, reply, flips, crashes>>

\* A bound card the player does not own (any more): KeyError.
RejectMissing(t) ==
    /\ pc[t] = "read"
    /\ ~(CardsOf(request[t]) \subseteq Cards)
    /\ BadRequest(t)

\* list_cards, outside any transaction, and the rows to write.
ReadCards(t) ==
    /\ pc[t] = "read"
    /\ CardsOf(request[t]) \subseteq Cards
    /\ cache' = [cache EXCEPT ![t] = cards]
    /\ todo' = [todo EXCEPT ![t] = Updates(request[t], cards)]
    /\ pc' = [pc EXCEPT ![t] = IF Updates(request[t], cards) = {} THEN "readback" ELSE "save"]
    /\ UNCHANGED <<cards, lock, request, saved, reply, flips, crashes>>

\* Mutant: without the transaction, each save_card is a commit of its own.
SaveCardAutocommit(t, c) ==
    /\ pc[t] = "save"
    /\ c \in todo[t]
    /\ lock \in {None, t}
    /\ lock' = t
    /\ todo' = [todo EXCEPT ![t] = @ \ {c}]
    /\ cards' = [cards EXCEPT ![c] = NewRow(request[t], c, cache[t][c])]
    /\ UNCHANGED <<pc, request, cache, saved, reply, flips, crashes>>

\* save_card writes every column of the row that was read.
SaveCard(t, c) ==
    /\ pc[t] = "save"
    /\ c \in todo[t]
    /\ lock \in {None, t}
    /\ lock' = t
    /\ todo' = [todo EXCEPT ![t] = @ \ {c}]
    /\ saved' = [saved EXCEPT ![t] = @ \cup {c}]
    /\ UNCHANGED <<cards, pc, request, cache, reply, flips, crashes>>

Commit(t) ==
    /\ Goto(t, "save", "readback")
    /\ todo[t] = {}
    /\ cards' = [c \in Cards |-> IF c \in saved[t] THEN NewRow(request[t], c, cache[t][c])
                                                   ELSE cards[c]]
    /\ flips' = [c \in Cards |-> IF request[t].kind = "protect" /\ c \in saved[t]
                                   THEN ~flips[c] ELSE flips[c]]
    /\ saved' = [saved EXCEPT ![t] = {}]
    /\ lock' = None
    /\ UNCHANGED <<request, cache, todo, reply, crashes>>

\* Mutant: the busy handler waits without a limit.
BusyRetry(t) ==
    /\ pc[t] = "open" \/ (pc[t] = "save" /\ todo[t] # {})
    /\ lock \notin {None, t}
    /\ UNCHANGED vars

\* "database is locked": sqlite3.OperationalError, which the HTTP handler does
\* not catch, so the connection is dropped without a reply.
BusyTimeout(t) ==
    /\ pc[t] = "open" \/ (pc[t] = "save" /\ todo[t] # {})
    /\ lock \notin {None, t}
    /\ pc' = [pc EXCEPT ![t] = "dropped"]
    /\ todo' = [todo EXCEPT ![t] = {}]
    /\ saved' = [saved EXCEPT ![t] = {}]
    /\ UNCHANGED <<cards, lock, request, cache, reply, flips, crashes>>

ProtectedIn(req, rows) == {s \in DOMAIN CardOf : /\ \E i \in DOMAIN req.serials : req.serials[i] = s
                                                 /\ rows[CardOf[s]].protected}

\* Mutant: the reply is computed from the rows read before the toggle.
ReadBackCache(t) ==
    /\ Goto(t, "readback", "reply")
    /\ reply' = [reply EXCEPT ![t] =
         [status |-> 200,
          protected |-> IF request[t].kind = "protect" THEN ProtectedIn(request[t], cache[t])
                                                       ELSE {}]]
    /\ UNCHANGED <<cards, lock, request, cache, todo, saved, flips, crashes>>

\* protect_card answers with the requested cards that a new snapshot shows
\* protected; favorite/edit answers with an empty body.
ReadBack(t) ==
    /\ Goto(t, "readback", "reply")
    /\ reply' = [reply EXCEPT ![t] =
         [status |-> 200,
          protected |-> IF request[t].kind = "protect" THEN ProtectedIn(request[t], cards)
                                                       ELSE {}]]
    /\ UNCHANGED <<cards, lock, request, cache, todo, saved, flips, crashes>>

\* The reply is sent, or the connection is closed without one.
Finish(t) ==
    /\ pc[t] \in {"reply", "dropped"}
    /\ Forget({t})
    /\ UNCHANGED <<cards, lock, flips, crashes>>

Crash ==
    /\ crashes < MaxCrashes
    /\ crashes' = crashes + 1
    /\ lock' = None
    /\ Forget(Threads)
    /\ UNCHANGED <<cards, flips>>

-----------------------------------------------------------------------------
Proceed(t) ==
    \/ OpenStores(t)
    \/ RejectSerials(t)
    \/ ResolveSerials(t)
    \/ RejectMissing(t)
    \/ ReadCards(t)
    \/ \E c \in Cards : SaveCard(t, c)
    \/ Commit(t)
    \/ BusyTimeout(t)
    \/ ReadBack(t)
    \/ Finish(t)

Next ==
    \/ \E t \in Threads : \/ Proceed(t)
                          \/ \E req \in RequestsOf[t] : Receive(t, req)
    \/ Crash

Spec == Init /\ [][Next]_vars

\* A thread that serves a request is scheduled until it is done.
FairSpec == Spec /\ \A t \in Threads : WF_vars(Proceed(t))

-----------------------------------------------------------------------------
(* Properties *)

\* Types, and the shape of an open transaction: it concerns requested cards
\* only, and whoever has written holds the write lock.
TypeOK ==
    /\ cards \in [Cards -> Card]
    /\ lock \in Threads \cup {None}
    /\ pc \in [Threads -> States]
    /\ request \in [Threads -> AllRequests \cup {None}]
    /\ cache \in [Threads -> [Cards -> Card] \cup {None}]
    /\ todo \in [Threads -> SUBSET Cards]
    /\ saved \in [Threads -> SUBSET Cards]
    /\ reply \in [Threads -> Replies]
    /\ flips \in [Cards -> BOOLEAN]
    /\ crashes \in 0..MaxCrashes
    /\ \A t \in Threads :
          /\ request[t] = None <=> pc[t] = "idle"
          /\ pc[t] \in {"save", "readback"} => cache[t] \in [Cards -> Card]
          /\ pc[t] = "save" => /\ todo[t] \cup saved[t] # {}
                              /\ todo[t] \cup saved[t] \subseteq CardsOf(request[t])
          /\ pc[t] # "save" => todo[t] = {} /\ saved[t] = {}
          /\ lock = t <=> saved[t] # {}

\* A request counts as applied from its commit (or from the read that showed
\* that there is nothing to write) until it is answered.
PhaseOf(state, answer) ==
    IF state = "idle" THEN "none"
    ELSE IF state = "readback" \/ answer.status = 200 THEN "applied" ELSE "pending"

Phase == [t \in Threads |-> PhaseOf(pc[t], reply[t])]

\* No two threads are ever given requests about the same card.
Disjoint ==
    \A t, u \in Threads : t # u =>
        \A r \in RequestsOf[t], q \in RequestsOf[u] :
            Resolvable(r) /\ Resolvable(q) => CardsOf(r) \cap CardsOf(q) = {}

Atomic == INSTANCE AtomicCards WITH phase <- Phase

\* A request takes effect at one instant or not at all, whatever crashes or
\* lock timeouts happen.  Holds when requests are Disjoint.
ImplementsAtomicCards == Atomic!Spec

\* A toggle's reply lists the cards this very toggle has protected.
ReplyTellsOwnToggle ==
    \A t \in Threads :
        pc[t] = "reply" /\ reply[t].status = 200 /\ request[t].kind = "protect" =>
            reply[t].protected =
                {s \in DOMAIN CardOf : /\ \E i \in DOMAIN request[t].serials : request[t].serials[i] = s
                                       /\ ~cache[t][CardOf[s]].protected}

\* A thread that is about to write has read what is still stored for its cards,
\* and a thread that has written sees what it wrote: nobody else touches them.
OwnCards(t) ==
    /\ pc[t] # "idle" => request[t] \in RequestsOf[t]
    /\ pc[t] = "read" => Resolvable(request[t])
    /\ pc[t] \in {"save", "readback"} \/ reply[t].status = 200 =>
          Resolvable(request[t]) /\ CardsOf(request[t]) \subseteq Cards
    /\ pc[t] = "save" =>
          /\ todo[t] \cup saved[t] = Updates(request[t], cache[t])
          /\ \A c \in CardsOf(request[t]) : cards[c] = cache[t][c]
    /\ pc[t] = "readback" \/ reply[t].status = 200 =>
          \A c \in CardsOf(request[t]) : cards[c] = NewRow(request[t], c, cache[t][c])
    /\ reply[t].status = 200 => pc[t] = "reply"

\* The inductive invariant behind the two properties above, when requests are
\* Disjoint.
IInv == TypeOK /\ (\A t \in Threads : OwnCards(t)) /\ ReplyTellsOwnToggle

\* Every request in flight ends, with a reply or by a dropped connection.
RequestsEnd == \A t \in Threads : pc[t] # "idle" ~> pc[t] = "idle"

\* "Atomically toggle protection": the protection of a card is its initial one
\* flipped by each committed toggle.
NoLostToggle == \A c \in Cards : cards[c].protected = flips[c]
=============================================================================
