------------------------- MODULE CardCommandsProofs -------------------------
(***************************************************************************)
(* Theorems about CardCommands, for any number of threads, cards and       *)
(* crashes.  The argument: a request's rows may be computed outside the    *)
(* transaction that writes them as long as no other thread is ever given a *)
(* request about the same cards (Disjoint), because then what was read is  *)
(* still stored at the commit (OwnCards).                                  *)
(***************************************************************************)
EXTENDS CardCommands, TLAPS

(* What a command writes is a card row again. *)
LEMMA NewRowIsCard ==
    ASSUME NEW req, NEW c, NEW row \in Card
    PROVE  NewRow(req, c, row) \in Card
<1>1. Flag(req, c) \in BOOLEAN
  BY DEF Flag
<1>2. [row EXCEPT !.favorite = Flag(req, c)] \in Card
  BY <1>1 DEF Card
<1>3. [row EXCEPT !.protected = ~row.protected] \in Card
  BY DEF Card
<1> QED
  BY <1>2, <1>3 DEF NewRow

(* A request only updates cards it names. *)
LEMMA UpdatesAreRequested ==
    ASSUME NEW req, NEW rows
    PROVE  Updates(req, rows) \subseteq CardsOf(req)
BY DEF Updates

(* The types hold in the tables the server may be started on. *)
LEMMA InitTypeOK == Init => TypeOK
<1> SUFFICES ASSUME Init PROVE TypeOK
  OBVIOUS
<1>1. cards \in [Cards -> Card]
  BY InitialAssumption DEF Init
<1>2. flips \in [Cards -> BOOLEAN]
  BY <1>1 DEF Init, Card
<1>3. reply \in [Threads -> Replies]
  BY DEF Init, NoReply, Replies
<1>4. crashes \in 0..MaxCrashes
  BY CrashesAssumption DEF Init
<1> QED
  BY <1>1, <1>2, <1>3, <1>4, NoneAssumption DEF Init, TypeOK, States

(* Forgetting threads that hold no lock keeps the types. *)
LEMMA ForgetTypes ==
    ASSUME TypeOK, NEW some \in SUBSET Threads, Forget(some)
    PROVE  /\ pc' \in [Threads -> States]
           /\ request' \in [Threads -> AllRequests \cup {None}]
           /\ cache' \in [Threads -> [Cards -> Card] \cup {None}]
           /\ todo' \in [Threads -> SUBSET Cards]
           /\ saved' \in [Threads -> SUBSET Cards]
           /\ reply' \in [Threads -> Replies]
           /\ \A t \in Threads :
                 /\ request'[t] = None <=> pc'[t] = "idle"
                 /\ pc'[t] \in {"save", "readback"} => cache'[t] \in [Cards -> Card]
                 /\ pc'[t] = "save" => /\ todo'[t] \cup saved'[t] # {}
                                      /\ todo'[t] \cup saved'[t] \subseteq CardsOf(request'[t])
                 /\ pc'[t] # "save" => todo'[t] = {} /\ saved'[t] = {}
<1>1. NoReply \in Replies
  BY DEF NoReply, Replies
<1> QED
  BY <1>1 DEF TypeOK, Forget, States

(* Every step keeps the types. *)
LEMMA StepTypeOK == TypeOK /\ [Next]_vars => TypeOK'
<1> SUFFICES ASSUME TypeOK, [Next]_vars PROVE TypeOK'
  OBVIOUS
<1>1. CASE UNCHANGED vars
  BY <1>1 DEF TypeOK, vars
<1>2. ASSUME NEW t \in Threads, NEW req \in RequestsOf[t], Receive(t, req) PROVE TypeOK'
  <2>1. req \in AllRequests /\ req # None
    BY NoneAssumption DEF AllRequests
  <2> QED
    BY <1>2, <2>1 DEF TypeOK, Receive, Goto, States
<1>3. ASSUME NEW t \in Threads, OpenStores(t) PROVE TypeOK'
  BY <1>3 DEF TypeOK, OpenStores, Goto, States
<1>4. ASSUME NEW t \in Threads, RejectSerials(t) PROVE TypeOK'
  BY <1>4 DEF TypeOK, RejectSerials, BadRequest, NoReply, Replies, States
<1>5. ASSUME NEW t \in Threads, ResolveSerials(t) PROVE TypeOK'
  BY <1>5 DEF TypeOK, ResolveSerials, Goto, States
<1>6. ASSUME NEW t \in Threads, RejectMissing(t) PROVE TypeOK'
  <2>1. request[t] # None
    BY <1>6 DEF TypeOK, RejectMissing
  <2>2. reply' \in [Threads -> Replies]
    BY <1>6 DEF TypeOK, RejectMissing, BadRequest, NoReply, Replies
  <2> QED
    BY <1>6, <2>1, <2>2 DEF TypeOK, RejectMissing, BadRequest, States
<1>7. ASSUME NEW t \in Threads, ReadCards(t) PROVE TypeOK'
  <2>1. Updates(request[t], cards) \subseteq CardsOf(request[t])
    BY UpdatesAreRequested
  <2>2. todo[t] = {} /\ saved[t] = {}
    BY <1>7 DEF TypeOK, ReadCards
  <2> QED
    BY <1>7, <2>1, <2>2 DEF TypeOK, ReadCards, States
<1>8. ASSUME NEW t \in Threads, NEW c \in Cards, SaveCard(t, c) PROVE TypeOK'
  <2>1. \A u \in Threads : lock' = u <=> saved'[u] # {}
    BY <1>8, NoneAssumption DEF TypeOK, SaveCard
  <2>2. \A u \in Threads : /\ todo'[u] \cup saved'[u] = todo[u] \cup saved[u]
                           /\ pc[u] # "save" => todo'[u] = {} /\ saved'[u] = {}
    BY <1>8 DEF TypeOK, SaveCard
  <2> QED
    BY <1>8, <2>1, <2>2 DEF TypeOK, SaveCard
<1>9. ASSUME NEW t \in Threads, Commit(t) PROVE TypeOK'
  <2>1. cache[t] \in [Cards -> Card]
    BY <1>9 DEF TypeOK, Commit, Goto
  <2>2. cards' \in [Cards -> Card]
    BY <1>9, <2>1, NewRowIsCard DEF TypeOK, Commit
  <2>3. flips' \in [Cards -> BOOLEAN]
    BY <1>9 DEF TypeOK, Commit
  <2>4. lock = t
    BY <1>9 DEF TypeOK, Commit, Goto
  <2>5. \A u \in Threads : lock' = u <=> saved'[u] # {}
    BY <1>9, <2>4, NoneAssumption DEF TypeOK, Commit
  <2>6. pc' \in [Threads -> States] /\ saved' \in [Threads -> SUBSET Cards]
    BY <1>9 DEF TypeOK, Commit, Goto, States
  <2>7. ASSUME NEW u \in Threads
        PROVE  /\ request'[u] = None <=> pc'[u] = "idle"
               /\ pc'[u] \in {"save", "readback"} => cache'[u] \in [Cards -> Card]
               /\ pc'[u] = "save" => /\ todo'[u] \cup saved'[u] # {}
                                    /\ todo'[u] \cup saved'[u] \subseteq CardsOf(request'[u])
               /\ pc'[u] # "save" => todo'[u] = {} /\ saved'[u] = {}
    <3>1. CASE u = t
      BY <1>9, <2>1, <3>1 DEF TypeOK, Commit, Goto
    <3>2. CASE u # t
      BY <1>9, <3>2 DEF TypeOK, Commit, Goto
    <3> QED
      BY <3>1, <3>2
  <2>8. /\ lock' \in Threads \cup {None}
        /\ request' \in [Threads -> AllRequests \cup {None}]
        /\ cache' \in [Threads -> [Cards -> Card] \cup {None}]
        /\ todo' \in [Threads -> SUBSET Cards]
        /\ reply' \in [Threads -> Replies]
        /\ crashes' \in 0..MaxCrashes
    BY <1>9 DEF TypeOK, Commit
  <2> QED
    BY <2>2, <2>3, <2>5, <2>6, <2>7, <2>8 DEF TypeOK
<1>10. ASSUME NEW t \in Threads, BusyTimeout(t) PROVE TypeOK'
  <2>1. lock # t /\ saved[t] = {}
    BY <1>10 DEF TypeOK, BusyTimeout
  <2>2. \A u \in Threads : lock' = u <=> saved'[u] # {}
    BY <1>10, <2>1 DEF TypeOK, BusyTimeout
  <2>3. request[t] # None
    BY <1>10 DEF TypeOK, BusyTimeout
  <2> QED
    BY <1>10, <2>2, <2>3 DEF TypeOK, BusyTimeout, States
<1>11. ASSUME NEW t \in Threads, ReadBack(t) PROVE TypeOK'
  <2>1. ProtectedIn(request[t], cards) \in SUBSET DOMAIN CardOf
    BY DEF ProtectedIn
  <2>2. reply' \in [Threads -> Replies]
    BY <1>11, <2>1 DEF TypeOK, ReadBack, Replies
  <2> QED
    BY <1>11, <2>2 DEF TypeOK, ReadBack, Goto, States
<1>12. ASSUME NEW t \in Threads, Finish(t) PROVE TypeOK'
  <2>1. \A u \in Threads : lock' = u <=> saved'[u] # {}
    BY <1>12 DEF TypeOK, Finish, Forget
  <2> QED
    BY <1>12, <2>1, ForgetTypes DEF TypeOK, Finish
<1>13. ASSUME Crash PROVE TypeOK'
  <2>1. \A u \in Threads : lock' = u <=> saved'[u] # {}
    BY <1>13, NoneAssumption DEF TypeOK, Crash, Forget
  <2>2. crashes' \in 0..MaxCrashes
    BY <1>13, CrashesAssumption DEF TypeOK, Crash
  <2> QED
    BY <1>13, <2>1, <2>2, ForgetTypes DEF TypeOK, Crash
<1> QED
  BY <1>1, <1>2, <1>3, <1>4, <1>5, <1>6, <1>7, <1>8, <1>9, <1>10, <1>11, <1>12, <1>13
     DEF Next, Proceed

(* Whatever threads, crashes and lock timeouts do: who has written a row in its
   transaction holds the write lock, nobody writes a card it was not asked for. *)
THEOREM TypeCorrect == Spec => []TypeOK
BY InitTypeOK, StepTypeOK, PTL DEF Spec

-----------------------------------------------------------------------------
(* Requests of different threads that got as far as the cards share none. *)
LEMMA NothingShared ==
    ASSUME Disjoint, NEW t \in Threads, NEW u \in Threads, t # u,
           request[t] \in RequestsOf[t], Resolvable(request[t]),
           request[u] \in RequestsOf[u], Resolvable(request[u])
    PROVE  CardsOf(request[t]) \cap CardsOf(request[u]) = {}
BY DEF Disjoint

(* A thread keeps OwnCards while it does nothing and its cards stay the same. *)
LEMMA Unaffected ==
    ASSUME NEW u \in Threads, OwnCards(u),
           pc'[u] = pc[u], request'[u] = request[u], cache'[u] = cache[u],
           todo'[u] = todo[u], saved'[u] = saved[u], reply'[u] = reply[u],
           pc[u] \in {"save", "readback"} \/ reply[u].status = 200 =>
               \A c \in CardsOf(request[u]) : cards'[c] = cards[c]
    PROVE  OwnCards(u)'
BY DEF OwnCards

(* A thread whose request is over, or has not read anything, owns its cards. *)
LEMMA NothingRead ==
    ASSUME NEW u \in Threads,
           pc'[u] \notin {"read", "save", "readback"},
           reply'[u].status # 200,
           pc'[u] # "idle" => request'[u] \in RequestsOf[u]
    PROVE  OwnCards(u)'
BY DEF OwnCards

(* No thread has read anything at the start. *)
LEMMA InitIInv == Init => IInv
<1> SUFFICES ASSUME Init PROVE IInv
  OBVIOUS
<1>1. \A t \in Threads : OwnCards(t)
  BY DEF Init, OwnCards, NoReply
<1>2. ReplyTellsOwnToggle
  BY DEF Init, ReplyTellsOwnToggle
<1> QED
  BY <1>1, <1>2, InitTypeOK DEF IInv

(* What a committed toggle has written is what its reply is made of. *)
LEMMA RepliesOwnToggle ==
    ASSUME NEW t \in Threads, TypeOK, OwnCards(t), ReadBack(t), request[t].kind = "protect"
    PROVE  reply'[t].protected =
               {s \in DOMAIN CardOf : /\ \E i \in DOMAIN request[t].serials : request[t].serials[i] = s
                                      /\ ~cache[t][CardOf[s]].protected}
<1>1. reply'[t].protected = ProtectedIn(request[t], cards)
  BY DEF TypeOK, ReadBack
<1>2. ASSUME NEW i \in DOMAIN request[t].serials
      PROVE  cards[CardOf[request[t].serials[i]]].protected
                <=> ~cache[t][CardOf[request[t].serials[i]]].protected
  <2> DEFINE c == CardOf[request[t].serials[i]]
  <2>1. c \in CardsOf(request[t])
    BY DEF CardsOf
  <2>2. cache[t][c] \in Card /\ cards[c] = NewRow(request[t], c, cache[t][c])
    BY <2>1 DEF OwnCards, TypeOK, ReadBack, Goto
  <2>3. cards[c] = [cache[t][c] EXCEPT !.protected = ~cache[t][c].protected]
    BY <2>2 DEF NewRow
  <2> QED
    BY <2>2, <2>3 DEF Card
<1> QED
  BY <1>1, <1>2 DEF ProtectedIn

(* Every step keeps OwnCards, as long as requests are disjoint. *)
LEMMA StepOwnCards ==
    ASSUME Disjoint, TypeOK, \A t \in Threads : OwnCards(t), [Next]_vars
    PROVE  \A t \in Threads : OwnCards(t)'
<1> USE DEF NoReply
<1> SUFFICES ASSUME NEW u \in Threads PROVE OwnCards(u)'
  OBVIOUS
<1>0. reply[u].status = 200 => pc[u] = "reply"
  BY DEF OwnCards
<1>1. CASE UNCHANGED vars
  BY <1>1, Unaffected DEF vars
<1>2. ASSUME NEW t \in Threads, NEW req \in RequestsOf[t], Receive(t, req) PROVE OwnCards(u)'
  <2>1. CASE u = t
    BY <1>0, <1>2, <2>1, NothingRead DEF Receive, Goto, TypeOK
  <2>2. CASE u # t
    BY <1>2, <2>2, Unaffected DEF Receive, Goto, TypeOK
  <2> QED
    BY <2>1, <2>2
<1>3. ASSUME NEW t \in Threads, OpenStores(t) PROVE OwnCards(u)'
  <2>1. CASE u = t
    BY <1>0, <1>3, <2>1, NothingRead DEF OpenStores, Goto, TypeOK, OwnCards
  <2>2. CASE u # t
    BY <1>3, <2>2, Unaffected DEF OpenStores, Goto, TypeOK
  <2> QED
    BY <2>1, <2>2
<1>4. ASSUME NEW t \in Threads, RejectSerials(t) \/ RejectMissing(t) PROVE OwnCards(u)'
  <2>1. CASE u = t
    <3>1. pc'[t] = "reply" /\ reply'[t].status = 400 /\ request'[t] \in RequestsOf[t]
      BY <1>4 DEF RejectSerials, RejectMissing, BadRequest, TypeOK, OwnCards
    <3> QED
      BY <2>1, <3>1, NothingRead
  <2>2. CASE u # t
    BY <1>4, <2>2, Unaffected DEF RejectSerials, RejectMissing, BadRequest, TypeOK
  <2> QED
    BY <2>1, <2>2
<1>5. ASSUME NEW t \in Threads, ResolveSerials(t) PROVE OwnCards(u)'
  <2>1. CASE u = t
    BY <1>0, <1>5, <2>1 DEF ResolveSerials, Goto, TypeOK, OwnCards
  <2>2. CASE u # t
    BY <1>5, <2>2, Unaffected DEF ResolveSerials, Goto, TypeOK
  <2> QED
    BY <2>1, <2>2
<1>6. ASSUME NEW t \in Threads, ReadCards(t) PROVE OwnCards(u)'
  <2>1. CASE u = t
    <3>1. /\ cache'[t] = cards /\ todo'[t] = Updates(request[t], cards) /\ saved'[t] = {}
          /\ request'[t] \in RequestsOf[t] /\ request'[t] = request[t]
          /\ Resolvable(request[t]) /\ CardsOf(request[t]) \subseteq Cards
          /\ cards' = cards /\ reply'[t].status # 200
      BY <1>0, <1>6, <2>1 DEF ReadCards, TypeOK, OwnCards
    <3>2. pc'[t] = "readback" => \A c \in CardsOf(request[t]) : NewRow(request[t], c, cards[c]) = cards[c]
      BY <1>6 DEF ReadCards, TypeOK, Updates
    <3>3. pc'[t] \in {"readback", "save"}
      BY <1>6 DEF ReadCards, TypeOK
    <3> QED
      BY <2>1, <3>1, <3>2, <3>3 DEF OwnCards
  <2>2. CASE u # t
    BY <1>6, <2>2, Unaffected DEF ReadCards, TypeOK
  <2> QED
    BY <2>1, <2>2
<1>7. ASSUME NEW t \in Threads, NEW c \in Cards, SaveCard(t, c) PROVE OwnCards(u)'
  <2>1. CASE u = t
    <3>1. todo'[t] \cup saved'[t] = todo[t] \cup saved[t]
      BY <1>7 DEF SaveCard, TypeOK
    <3> QED
      BY <1>0, <1>7, <2>1, <3>1 DEF SaveCard, OwnCards
  <2>2. CASE u # t
    BY <1>7, <2>2, Unaffected DEF SaveCard, TypeOK
  <2> QED
    BY <2>1, <2>2
<1>8. ASSUME NEW t \in Threads, Commit(t) PROVE OwnCards(u)'
  <2>0. /\ pc[t] = "save" /\ saved[t] = Updates(request[t], cache[t])
        /\ CardsOf(request[t]) \subseteq Cards /\ request[t] \in RequestsOf[t]
        /\ Resolvable(request[t])
    BY <1>8 DEF Commit, Goto, OwnCards
  <2>1. CASE u = t
    <3>1. ASSUME NEW c \in CardsOf(request[t])
          PROVE  cards'[c] = NewRow(request[t], c, cache[t][c])
      <4>1. CASE c \in saved[t]
        BY <1>8, <2>0, <4>1 DEF Commit
      <4>2. CASE c \notin saved[t]
        <5>1. NewRow(request[t], c, cache[t][c]) = cache[t][c] /\ cards[c] = cache[t][c]
          BY <2>0, <4>2 DEF Updates, OwnCards
        <5> QED
          BY <1>8, <2>0, <4>2, <5>1 DEF Commit
      <4> QED
        BY <4>1, <4>2
    <3>2. pc'[t] = "readback" /\ request'[t] = request[t] /\ cache'[t] = cache[t] /\ reply'[t] = reply[t]
      BY <1>8 DEF Commit, Goto, TypeOK
    <3> QED
      BY <1>0, <2>0, <2>1, <3>1, <3>2 DEF OwnCards
  <2>2. CASE u # t
    <3>1. ASSUME pc[u] \in {"save", "readback"} \/ reply[u].status = 200,
                 NEW c \in CardsOf(request[u])
          PROVE  cards'[c] = cards[c]
      <4>1. request[u] \in RequestsOf[u] /\ Resolvable(request[u]) /\ CardsOf(request[u]) \subseteq Cards
        BY <1>0, <3>1 DEF OwnCards
      <4>2. c \notin saved[t]
        BY <2>0, <2>2, <4>1, <3>1, NothingShared, UpdatesAreRequested
      <4> QED
        BY <1>8, <4>1, <4>2 DEF Commit
    <3>2. /\ pc'[u] = pc[u] /\ request'[u] = request[u] /\ cache'[u] = cache[u]
          /\ todo'[u] = todo[u] /\ saved'[u] = saved[u] /\ reply'[u] = reply[u]
      BY <1>8, <2>2 DEF Commit, Goto, TypeOK
    <3> QED
      BY <3>1, <3>2, Unaffected
  <2> QED
    BY <2>1, <2>2
<1>9. ASSUME NEW t \in Threads, BusyTimeout(t) PROVE OwnCards(u)'
  <2>1. CASE u = t
    BY <1>0, <1>9, <2>1, NothingRead DEF BusyTimeout, TypeOK, OwnCards
  <2>2. CASE u # t
    BY <1>9, <2>2, Unaffected DEF BusyTimeout, TypeOK
  <2> QED
    BY <2>1, <2>2
<1>10. ASSUME NEW t \in Threads, ReadBack(t) PROVE OwnCards(u)'
  <2>1. CASE u = t
    BY <1>10, <2>1 DEF ReadBack, Goto, TypeOK, OwnCards
  <2>2. CASE u # t
    BY <1>10, <2>2, Unaffected DEF ReadBack, Goto, TypeOK
  <2> QED
    BY <2>1, <2>2
<1>11. ASSUME NEW t \in Threads, Finish(t) PROVE OwnCards(u)'
  <2>1. CASE u = t
    BY <1>11, <2>1, NothingRead DEF Finish, Forget
  <2>2. CASE u # t
    BY <1>11, <2>2, Unaffected DEF Finish, Forget
  <2> QED
    BY <2>1, <2>2
<1>12. ASSUME Crash PROVE OwnCards(u)'
  BY <1>12, NothingRead DEF Crash, Forget
<1> QED
  BY <1>1, <1>2, <1>3, <1>4, <1>5, <1>6, <1>7, <1>8, <1>9, <1>10, <1>11, <1>12 DEF Next, Proceed

(* Every step keeps the replies true. *)
LEMMA StepReplies ==
    ASSUME TypeOK, \A t \in Threads : OwnCards(t), ReplyTellsOwnToggle, [Next]_vars
    PROVE  ReplyTellsOwnToggle'
<1> USE DEF NoReply
<1> SUFFICES ASSUME NEW u \in Threads,
                    pc'[u] = "reply", reply'[u].status = 200, request'[u].kind = "protect"
             PROVE  reply'[u].protected =
                      {s \in DOMAIN CardOf :
                          /\ \E i \in DOMAIN request'[u].serials : request'[u].serials[i] = s
                          /\ ~cache'[u][CardOf[s]].protected}
  BY DEF ReplyTellsOwnToggle
<1>1. CASE ReadBack(u)
  <2>1. request' = request /\ cache' = cache
    BY <1>1 DEF ReadBack
  <2> QED
    BY <1>1, <2>1, RepliesOwnToggle
<1>2. CASE ~ReadBack(u)
  <2>1. /\ pc[u] = "reply" /\ reply'[u] = reply[u]
        /\ request'[u] = request[u] /\ cache'[u] = cache[u]
    BY <1>2 DEF Next, Proceed, vars, TypeOK, Goto, Receive, OpenStores, RejectSerials, RejectMissing,
           BadRequest, ResolveSerials, ReadCards, SaveCard, Commit, BusyTimeout, ReadBack, Finish,
           Crash, Forget
  <2> QED
    BY <2>1 DEF ReplyTellsOwnToggle
<1> QED
  BY <1>1, <1>2

(* When no two threads are given requests about the same card, what a thread has
   read is still stored when it writes. *)
THEOREM InductiveInvariant ==
    ASSUME Disjoint
    PROVE  Spec => []IInv
<1>1. IInv /\ [Next]_vars => IInv'
  BY StepTypeOK, StepOwnCards, StepReplies DEF IInv
<1> QED
  BY <1>1, InitIInv, PTL DEF Spec

(* The reply of protect_card lists the cards this very toggle has protected. *)
THEOREM RepliesTellOwnToggle ==
    ASSUME Disjoint
    PROVE  Spec => []ReplyTellsOwnToggle
<1>1. IInv => ReplyTellsOwnToggle
  BY DEF IInv
<1> QED
  BY <1>1, InductiveInvariant, PTL

-----------------------------------------------------------------------------
(* Refinement *)

(* The abstract module reads a request as this one does. *)
LEMMA SameRequests ==
    /\ \A req : Atomic!CardsOf(req) = CardsOf(req)
    /\ \A req, c, row : Atomic!NewRow(req, c, row) = NewRow(req, c, row)
BY DEF Atomic!CardsOf, CardsOf, Atomic!NewRow, NewRow, Atomic!Flag, Flag

(* A request that is applied changes the cards as the abstract command does. *)
LEMMA CommitIsEffect ==
    ASSUME NEW t \in Threads, TypeOK, OwnCards(t), Commit(t)
    PROVE  cards' = Atomic!Effect(request[t], cards)
<1>1. /\ pc[t] = "save" /\ saved[t] = Updates(request[t], cache[t])
      /\ \A c \in CardsOf(request[t]) : cards[c] = cache[t][c]
  BY DEF Commit, Goto, OwnCards
<1>2. ASSUME NEW c \in Cards
      PROVE  cards'[c] = IF c \in CardsOf(request[t]) THEN NewRow(request[t], c, cards[c]) ELSE cards[c]
  <2>1. c \in saved[t] <=> c \in CardsOf(request[t]) /\ NewRow(request[t], c, cache[t][c]) # cache[t][c]
    BY <1>1 DEF Updates
  <2> QED
    BY <1>1, <2>1 DEF Commit
<1> QED
  BY <1>2, SameRequests DEF Commit, Atomic!Effect

(* Nor does a request that finds nothing to write. *)
LEMMA NothingToWriteIsEffect ==
    ASSUME NEW t \in Threads, TypeOK, Updates(request[t], cards) = {}
    PROVE  cards = Atomic!Effect(request[t], cards)
<1>1. \A c \in CardsOf(request[t]) : NewRow(request[t], c, cards[c]) = cards[c]
  BY DEF Updates
<1> QED
  BY <1>1, SameRequests DEF Atomic!Effect, TypeOK

(* A step of one thread leaves the phases of the others alone. *)
LEMMA OnlyPhaseOf ==
    ASSUME NEW t \in Threads,
           \A u \in Threads \ {t} : pc'[u] = pc[u] /\ reply'[u] = reply[u]
    PROVE  Phase' = [Phase EXCEPT ![t] = PhaseOf(pc'[t], reply'[t])]
BY DEF Phase

(* When it leaves its own phase alone too, nothing is to be seen of it. *)
LEMMA SamePhase ==
    ASSUME NEW t \in Threads,
           \A u \in Threads \ {t} : pc'[u] = pc[u] /\ reply'[u] = reply[u],
           PhaseOf(pc'[t], reply'[t]) = PhaseOf(pc[t], reply[t])
    PROVE  Phase' = Phase
BY DEF Phase

(* The steps nobody sees. *)
LEMMA Stutters ==
    ASSUME NEW t \in Threads, TypeOK, OwnCards(t),
           \/ OpenStores(t) \/ RejectSerials(t) \/ ResolveSerials(t) \/ RejectMissing(t)
           \/ (ReadCards(t) /\ Updates(request[t], cards) # {})
           \/ (\E c \in Cards : SaveCard(t, c))
           \/ BusyTimeout(t) \/ ReadBack(t)
    PROVE  UNCHANGED <<cards, Phase, request>>
<1>1. UNCHANGED <<cards, request>>
  BY DEF OpenStores, RejectSerials, ResolveSerials, RejectMissing, BadRequest, ReadCards, SaveCard,
         BusyTimeout, ReadBack
<1>2. \A u \in Threads \ {t} : pc'[u] = pc[u] /\ reply'[u] = reply[u]
  BY DEF TypeOK, Goto, OpenStores, RejectSerials, ResolveSerials, RejectMissing, BadRequest,
         ReadCards, SaveCard, BusyTimeout, ReadBack
<1>3. CASE ReadBack(t)
  <2>1. pc[t] = "readback" /\ pc'[t] = "reply" /\ reply'[t].status = 200
    BY <1>3 DEF ReadBack, Goto, TypeOK
  <2>2. PhaseOf(pc'[t], reply'[t]) = PhaseOf(pc[t], reply[t])
    BY <2>1 DEF PhaseOf
  <2> QED
    BY <1>1, <1>2, <2>2, SamePhase
<1>4. CASE ~ReadBack(t)
  <2>1. pc[t] \notin {"idle", "readback", "reply"} /\ pc'[t] \notin {"idle", "readback"}
    BY <1>4 DEF TypeOK, Goto, OpenStores, RejectSerials, ResolveSerials, RejectMissing, BadRequest,
                ReadCards, SaveCard, BusyTimeout
  <2>2. reply[t].status # 200 /\ reply'[t].status # 200
    BY <1>4, <2>1 DEF TypeOK, OwnCards, NoReply, OpenStores, RejectSerials, ResolveSerials,
                      RejectMissing, BadRequest, ReadCards, SaveCard, BusyTimeout
  <2>3. PhaseOf(pc'[t], reply'[t]) = PhaseOf(pc[t], reply[t])
    BY <2>1, <2>2 DEF PhaseOf
  <2> QED
    BY <1>1, <1>2, <2>3, SamePhase
<1> QED
  BY <1>3, <1>4

(* Threads that forget their requests end them. *)
LEMMA ForgetEnds ==
    ASSUME NEW some \in SUBSET Threads, some # {}, Forget(some), UNCHANGED cards
    PROVE  Atomic!End(some)
<1>1. Phase' = [u \in Threads |-> IF u \in some THEN "none" ELSE Phase[u]]
  BY DEF Forget, Phase, PhaseOf
<1> QED
  BY <1>1 DEF Forget, Atomic!End

(* A thread that has read that there is nothing to write, or commits, applies
   its request. *)
LEMMA Applies ==
    ASSUME NEW t \in Threads, TypeOK, OwnCards(t),
           Commit(t) \/ (ReadCards(t) /\ Updates(request[t], cards) = {})
    PROVE  Atomic!Apply(t)
<1>1. cards' = Atomic!Effect(request[t], cards)
  BY CommitIsEffect, NothingToWriteIsEffect DEF ReadCards
<1>2. /\ pc[t] \in {"read", "save"} /\ pc'[t] = "readback" /\ reply[t].status # 200
      /\ UNCHANGED request
  BY DEF Commit, ReadCards, Goto, TypeOK, OwnCards
<1>3. Phase[t] = "pending" /\ PhaseOf(pc'[t], reply'[t]) = "applied"
  BY <1>2 DEF Phase, PhaseOf
<1>4. \A u \in Threads \ {t} : pc'[u] = pc[u] /\ reply'[u] = reply[u]
  BY DEF Commit, ReadCards, Goto, TypeOK
<1> QED
  BY <1>1, <1>2, <1>3, <1>4, OnlyPhaseOf DEF Atomic!Apply

(* A request that is received is accepted. *)
LEMMA Accepts ==
    ASSUME NEW t \in Threads, NEW req \in RequestsOf[t], TypeOK, OwnCards(t), Receive(t, req)
    PROVE  Atomic!Accept(t)
<1>1. pc[t] = "idle" /\ pc'[t] = "open" /\ reply'[t].status # 200
  BY DEF Receive, Goto, TypeOK, OwnCards
<1>2. Phase[t] = "none" /\ PhaseOf(pc'[t], reply'[t]) = "pending"
  BY <1>1 DEF Phase, PhaseOf
<1>3. \A u \in Threads \ {t} : pc'[u] = pc[u] /\ reply'[u] = reply[u]
  BY DEF Receive, Goto, TypeOK
<1> QED
  BY <1>2, <1>3, OnlyPhaseOf DEF Atomic!Accept, Receive

(* When no two threads are given requests about the same card, each request takes
   effect at one instant or not at all, whatever crashes or times out: the
   request threads implement the atomic commands their docstrings promise. *)
THEOREM Implementation ==
    ASSUME Disjoint
    PROVE  Spec => ImplementsAtomicCards
<1>1. Init => Atomic!Init
  <2>1. Init => Phase = [t \in Threads |-> "none"]
    BY DEF Init, Phase, PhaseOf
  <2>2. Init => cards \in [Cards -> Atomic!Card]
    BY InitialAssumption DEF Init, Card, Atomic!Card
  <2> QED
    BY <2>1, <2>2 DEF Init, Atomic!Init
<1>2. IInv /\ [Next]_vars => [Atomic!Next]_Atomic!vars
  <2> SUFFICES ASSUME IInv, [Next]_vars
               PROVE  Atomic!Next \/ UNCHANGED <<cards, Phase, request>>
    BY DEF Atomic!vars
  <2> USE DEF IInv
  <2>1. CASE UNCHANGED vars
    BY <2>1 DEF vars, Phase
  <2>2. ASSUME NEW t \in Threads, Proceed(t)
        PROVE  Atomic!Next \/ UNCHANGED <<cards, Phase, request>>
    <3>1. CASE Commit(t) \/ (ReadCards(t) /\ Updates(request[t], cards) = {})
      BY <3>1, Applies DEF Atomic!Next
    <3>2. CASE Finish(t)
      BY <3>2, ForgetEnds DEF Finish, Atomic!Next
    <3> QED
      BY <2>2, <3>1, <3>2, Stutters DEF Proceed
  <2>3. ASSUME NEW t \in Threads, NEW req \in RequestsOf[t], Receive(t, req)
        PROVE  Atomic!Next
    BY <2>3, Accepts DEF Atomic!Next
  <2>4. CASE Crash
    <3>1. CASE Threads = {}
      BY <2>4, <3>1 DEF Crash, Forget, Phase, TypeOK
    <3>2. CASE Threads # {}
      BY <2>4, <3>2, ForgetEnds DEF Crash, Atomic!Next
    <3> QED
      BY <3>1, <3>2
  <2> QED
    BY <2>1, <2>2, <2>3, <2>4 DEF Next
<1> QED
  BY <1>1, <1>2, InductiveInvariant, PTL DEF Spec, ImplementsAtomicCards, Atomic!Spec

(* A commit flips the stored protection of the cards it counts as flipped. *)
LEMMA CommitFlips ==
    ASSUME NEW t \in Threads, TypeOK, OwnCards(t), NoLostToggle, Commit(t)
    PROVE  NoLostToggle'
<1>1. /\ request[t] \in AllRequests /\ cache[t] \in [Cards -> Card]
      /\ \A c \in saved[t] : c \in Cards /\ cards[c] = cache[t][c]
  BY DEF Commit, Goto, TypeOK, OwnCards
<1> SUFFICES ASSUME NEW c \in Cards PROVE cards'[c].protected = flips'[c]
  BY DEF NoLostToggle
<1>2. cards[c].protected = flips[c] /\ cards[c] \in Card
  BY DEF NoLostToggle, TypeOK
<1>3. CASE c \notin saved[t]
  BY <1>2, <1>3 DEF Commit
<1>4. CASE c \in saved[t]
  <2>1. cards'[c] = NewRow(request[t], c, cards[c])
    BY <1>1, <1>4 DEF Commit
  <2>2. flips'[c] = IF request[t].kind = "protect" THEN ~flips[c] ELSE flips[c]
    BY <1>4 DEF Commit
  <2>3. cards'[c].protected = IF request[t].kind = "protect" THEN ~cards[c].protected ELSE cards[c].protected
    BY <1>2, <2>1 DEF NewRow, Card
  <2> QED
    BY <1>2, <2>2, <2>3
<1> QED
  BY <1>3, <1>4

(* The toggle that TLC finds lost by two threads on one card needs both: when no two
   threads are given requests about the same card, the protection of every card
   is its first one flipped by each toggle that was committed. *)
THEOREM SeparateTogglesCount ==
    ASSUME Disjoint
    PROVE  Spec => []NoLostToggle
<1>1. Init => NoLostToggle
  BY DEF Init, NoLostToggle
<1>2. IInv /\ NoLostToggle /\ [Next]_vars => NoLostToggle'
  <2> SUFFICES ASSUME IInv, NoLostToggle, [Next]_vars PROVE NoLostToggle'
    OBVIOUS
  <2>1. CASE UNCHANGED <<cards, flips>>
    BY <2>1 DEF NoLostToggle
  <2>2. ASSUME NEW t \in Threads, Commit(t) PROVE NoLostToggle'
    BY <2>2, CommitFlips DEF IInv
  <2> QED
    BY <2>1, <2>2 DEF Next, Proceed, vars, Receive, OpenStores, RejectSerials, BadRequest, ResolveSerials,
           RejectMissing, ReadCards, SaveCard, BusyTimeout, ReadBack, Finish, Crash
<1> QED
  BY <1>1, <1>2, InductiveInvariant, PTL DEF Spec
=============================================================================
