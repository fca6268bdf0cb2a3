---------------------------- MODULE GatewayProofs ----------------------------
(***************************************************************************)
(* Theorems about Gateway, for any number of requests and any scenario,    *)
(* wherever clients leave, backends die, the log breaks and the timeout    *)
(* strikes.  The argument: the status line that reaches a client is the    *)
(* backend's (then the backend had decided, committed and recorded before  *)
(* it), a 502, or a refusal of a request that no backend has seen.         *)
(***************************************************************************)
EXTENDS Gateway, FiniteSetTheorems, TLAPS

(* The checks of the mux refuse with one of three codes. *)
LEMMA MuxRefusals ==
    ASSUME NEW shape, MuxVerdict(shape) # Ready
    PROVE  MuxVerdict(shape) \in {400, 421, 501}
BY DEF MuxVerdict, Ready

(* The checks of the backend never refuse with 200 or 502. *)
LEMMA BackendVerdicts ==
    ASSUME NEW route, NEW length
    PROVE  Verdict(Cfg, route, length) \in {Ready, 400, 404, 411, 413, 501, 503}
<1>1. LengthVerdict(length) \in {Ready, 400, 411, 413}
  BY DEF LengthVerdict
<1> QED
  BY <1>1 DEF Verdict

(* The variables that hold the state of one request, by type. *)
Typed ==
    /\ [req |-> req, after |-> after, fails |-> fails] \in Scenarios
    /\ DOMAIN req \subseteq Requests
    /\ acceptor \in Requests \cup {None}
    /\ pc \in [Requests -> {"idle", "queued", "handshake", "request", "forward", "status", "copy", "end"}]
    /\ back \in [Requests -> Working \cup {"none", "sent", "cut", "dead"}]
    /\ out \in [Requests -> Statuses \cup {Ready}]
    /\ lines \in [Requests -> Seq(Statuses)]
    /\ whole \in [Requests -> BOOLEAN] /\ client \in [Requests -> {"here", "gone"}]
    /\ done \in [Requests -> 0..1]
    /\ log \in [Planes -> Seq(DOMAIN req)]
    /\ up \subseteq Planes /\ logOK \in BOOLEAN

Clock == /\ now <= Cardinality(Stamped)
         /\ stamp \in [Requests -> 0..now] /\ now \in 0..Cardinality(Requests)

(* A scenario names requests only. *)
LEMMA ScenarioRequests ==
    ASSUME [req |-> req, after |-> after, fails |-> fails] \in Scenarios
    PROVE  DOMAIN req \subseteq Requests
BY ScenariosAssumption

(* The invariant by its parts, as the steps take them. *)
LEMMA IInvSplit ==
    IInv <=> /\ Typed /\ (\A p \in Planes : LogOfPlane(p)) /\ Clock
             /\ \A r \in Requests : MuxSide(r) /\ BackSide(r)
             /\ \A r, s \in Requests : InTurn(r, s)
<1>1. TypeOK => Typed
  BY ScenarioRequests DEF TypeOK, Typed
<1>2. TypeOK => \A p \in Planes : LogOfPlane(p)
  BY DEF TypeOK
<1>3. IInv => Clock
  BY DEF IInv, TypeOK, Clock
<1>4. Typed /\ (\A p \in Planes : LogOfPlane(p)) /\ Clock => TypeOK
  BY DEF TypeOK, Typed, Clock
<1> QED
  BY <1>1, <1>2, <1>3, <1>4 DEF IInv, Clock

(* Before the first request nothing is known of any. *)
LEMMA InitIInv == Init => IInv
<1> SUFFICES ASSUME Init PROVE IInv
  OBVIOUS
<1>1. Typed
  <2>1. [req |-> req, after |-> after, fails |-> fails] \in Scenarios
    BY ScenariosAssumption DEF Init
  <2>2. << >> \in Seq(Statuses) /\ << >> \in Seq(DOMAIN req)
    OBVIOUS
  <2> QED
    BY <2>1, <2>2, ScenarioRequests DEF Init, Typed
<1>2. \A p \in Planes : LogOfPlane(p)
  BY DEF Init, LogOfPlane
<1>3. Clock
  <2>1. Stamped = {}
    BY DEF Init, Stamped
  <2>2. Cardinality(Stamped) = 0 /\ Cardinality(Requests) \in Nat
    BY <2>1, FS_EmptySet, FS_CardinalityType, RequestsAssumption
  <2> QED
    BY <2>2 DEF Init, Clock
<1>4. ASSUME NEW r \in Requests PROVE MuxSide(r) /\ BackSide(r)
  <2>1. Recorded = {}
    BY DEF Init, Recorded, Planes
  <2> QED
    BY <2>1 DEF Init, MuxSide, BackSide, Decided
<1>5. \A r, s \in Requests : InTurn(r, s)
  BY DEF Init, InTurn
<1> QED
  BY <1>1, <1>2, <1>3, <1>4, <1>5, IInvSplit

-----------------------------------------------------------------------------
(* A step of the mux answers a request, or does not. *)
LEMMA AnswerTypes ==
    ASSUME Typed, NEW r \in Requests, NEW status \in Statuses, MuxAnswers(r, status)
    PROVE  /\ lines' \in [Requests -> Seq(Statuses)]
           /\ whole' \in [Requests -> BOOLEAN]
           /\ pc' \in [Requests -> {"idle", "queued", "handshake", "request", "forward", "status", "copy", "end"}]
<1>1. Append(lines[r], status) \in Seq(Statuses)
  BY DEF Typed
<1> QED
  BY <1>1 DEF Typed, MuxAnswers, Line

(* Every step keeps the types. *)
LEMMA StepTyped ==
    ASSUME IInv, [Next]_vars
    PROVE  Typed'
<1> USE DEF scenario, muxVars, backVars, envVars
<1>0. Typed /\ \A r \in Requests : MuxSide(r) /\ BackSide(r)
  BY IInvSplit
<1>a. DOMAIN req \subseteq Requests
  BY <1>0 DEF Typed
<1>1. CASE UNCHANGED vars
  BY <1>0, <1>1 DEF Typed, vars
<1>2. ASSUME NEW r \in DOMAIN req, Connect(r) \/ Accept(r) \/ Handshake(r) \/ MuxRead(r) \/ MuxLosesBody(r) PROVE Typed'
  BY <1>0, <1>a, <1>2 DEF Typed, Connect, Accept, Handshake, MuxRead, MuxLosesBody, Goto
<1>3. ASSUME NEW r \in DOMAIN req, MuxRefuse(r) \/ NoBackend(r) \/ MuxLosesBackend(r) PROVE Typed'
  <2>1. PICK status \in Statuses : MuxAnswers(r, status)
    BY <1>3, MuxRefusals DEF MuxRefuse, NoBackend, MuxLosesBackend, Statuses
  <2>2. UNCHANGED <<req, after, fails, acceptor, back, out, done, log, client, up, logOK>>
    BY <1>3 DEF MuxRefuse, NoBackend, MuxLosesBackend
  <2> QED
    BY <1>0, <1>a, <2>1, <2>2, AnswerTypes DEF Typed
<1>4. ASSUME NEW r \in DOMAIN req, MuxTimeout(r) PROVE Typed'
  <2>1. UNCHANGED <<req, after, fails, acceptor, back, out, done, log, client, up, logOK>>
    BY <1>4 DEF MuxTimeout
  <2>2. CASE MuxAnswers(r, 502)
    BY <1>0, <1>a, <2>1, <2>2, AnswerTypes DEF Typed, Statuses
  <2>3. CASE Goto(r, "copy", "end") /\ UNCHANGED <<lines, whole>>
    BY <1>0, <1>a, <2>1, <2>3 DEF Typed, Goto
  <2> QED
    BY <1>4, <2>2, <2>3 DEF MuxTimeout
<1>5. ASSUME NEW r \in DOMAIN req, Forward(r) PROVE Typed'
  BY <1>0, <1>a, <1>5 DEF Typed, Forward, Goto, Step, Working
<1>6. ASSUME NEW r \in DOMAIN req, MuxStatus(r) PROVE Typed'
  <2>1. out[r] \in Statuses
    BY <1>0, <1>a, <1>6 DEF BackSide, MuxStatus, Decided
  <2>2. Append(lines[r], out[r]) \in Seq(Statuses)
    BY <1>0, <1>a, <2>1 DEF Typed
  <2> QED
    BY <1>0, <1>a, <1>6, <2>2 DEF Typed, MuxStatus, Goto, Line
<1>7. ASSUME NEW r \in DOMAIN req, MuxCopy(r) PROVE Typed'
  BY <1>0, <1>a, <1>7 DEF Typed, MuxCopy, Goto
<1>8. ASSUME NEW r \in DOMAIN req, Dispatch(r) PROVE Typed'
  <2>1. out' \in [Requests -> Statuses \cup {Ready}]
    BY <1>0, <1>a, <1>8, BackendVerdicts DEF Typed, Dispatch, Statuses
  <2> QED
    BY <1>0, <1>a, <1>8, <2>1 DEF Typed, Dispatch, Step, Working
<1>9. ASSUME NEW r \in DOMAIN req, Resource(r) \/ Reject(r) \/ Answer(r) PROVE Typed'
  <2>1. out' \in [Requests -> Statuses \cup {Ready}]
    <3>1. PICK status \in Statuses : out' = [out EXCEPT ![r] = status]
      BY <1>9 DEF Resource, Outcomes, Reject, Answer, Statuses
    <3> QED
      BY <1>0, <1>a, <3>1 DEF Typed
  <2>2. back' = [back EXCEPT ![r] = "record"] /\ UNCHANGED <<scenario, muxVars, done, log, envVars>>
    BY <1>9 DEF Resource, Reject, Answer, Step
  <2> QED
    BY <1>0, <1>a, <2>1, <2>2 DEF Typed, Working
<1>10. ASSUME NEW r \in DOMAIN req, ReadBody(r) \/ Raise(r) \/ Stamp(r) \/ SendHeaders(r) \/ SendBody(r) PROVE Typed'
  BY <1>0, <1>a, <1>10 DEF Typed, ReadBody, Raise, Stamp, SendHeaders, SendBody, Step, Working
<1>11. ASSUME NEW r \in DOMAIN req, Commit(r) PROVE Typed'
  <2>1. done[r] = 0
    BY <1>0, <1>a, <1>11 DEF BackSide, Commit, Step
  <2> QED
    BY <1>0, <1>a, <1>11, <2>1 DEF Typed, Commit, Step, Working, Statuses
<1>12. ASSUME NEW r \in DOMAIN req, Record(r) PROVE Typed'
  <2>1. req[r].host \in Planes
    BY <1>0, <1>a, <1>12 DEF BackSide, Record, Step
  <2>2. Append(log[req[r].host], r) \in Seq(DOMAIN req)
    BY <1>0, <2>1 DEF Typed
  <2>3. log' \in [Planes -> Seq(DOMAIN req)]
    BY <1>0, <1>12, <2>1, <2>2 DEF Typed, Record, Logged
  <2> QED
    BY <1>0, <1>a, <1>12, <2>3 DEF Typed, Record, Step, Working
<1>13. ASSUME NEW r \in DOMAIN req, Leave(r) PROVE Typed'
  BY <1>0, <1>a, <1>13 DEF Typed, Leave
<1>14. ASSUME NEW b \in Planes, BackendDies(b) PROVE Typed'
  BY <1>0, <1>14 DEF Typed, BackendDies, Working
<1>15. CASE LogBreaks
  BY <1>0, <1>15 DEF Typed, LogBreaks
<1> QED
  BY <1>1, <1>2, <1>3, <1>4, <1>5, <1>6, <1>7, <1>8, <1>9, <1>10, <1>11, <1>12, <1>13, <1>14, <1>15
     DEF Next, Mux, Backend, Ended

(* Recording a request adds it to the log of its plane, and nothing else. *)
LEMMA Recording ==
    ASSUME Typed, NEW r \in DOMAIN req, req[r].host \in Planes,
           log' = [log EXCEPT ![req[r].host] = Append(@, r)]
    PROVE  Recorded' = Recorded \cup {r}
<1> DEFINE h == req[r].host
<1>1. \A p \in Planes : log[p] \in Seq(DOMAIN req)
  BY DEF Typed
<1>2. /\ DOMAIN log'[h] = 1..(Len(log[h]) + 1)
      /\ \A i \in 1..Len(log[h]) : log'[h][i] = log[h][i]
      /\ log'[h][Len(log[h]) + 1] = r
      /\ DOMAIN log[h] = 1..Len(log[h]) /\ Len(log[h]) \in Nat
  BY <1>1 DEF Typed
<1>3. \A p \in Planes \ {h} : log'[p] = log[p]
  BY DEF Typed
<1>4. {log'[h][i] : i \in DOMAIN log'[h]} = {log[h][i] : i \in DOMAIN log[h]} \cup {r}
  BY <1>2
<1>5. CASE h = "api"
  BY <1>3, <1>4, <1>5 DEF Recorded, Planes
<1>6. CASE h = "resource"
  BY <1>3, <1>4, <1>6 DEF Recorded, Planes
<1> QED
  BY <1>5, <1>6 DEF Planes

(* Every step keeps each log to the requests of its plane, each recorded once. *)
LEMMA StepLogs ==
    ASSUME IInv, [Next]_vars
    PROVE  \A p \in Planes : LogOfPlane(p)'
<1> USE DEF scenario, muxVars, backVars, envVars
<1>0. Typed /\ (\A p \in Planes : LogOfPlane(p)) /\ \A r \in Requests : MuxSide(r) /\ BackSide(r)
  BY IInvSplit
<1>1. CASE UNCHANGED <<req, log>>
  BY <1>0, <1>1 DEF LogOfPlane
<1>2. ASSUME NEW r \in DOMAIN req, Record(r), logOK PROVE \A p \in Planes : LogOfPlane(p)'
  <2>0. r \in Requests /\ req[r].host \in Planes /\ r \notin Recorded
    BY <1>0, <1>2 DEF Typed, BackSide, Record, Step
  <2>1. PICK h \in Planes : h = req[r].host
    BY <2>0
  <2>2. log' = [log EXCEPT ![h] = Append(@, r)] /\ req' = req
    BY <1>2, <2>1 DEF Record, Logged
  <2>3. \A p \in Planes \ {h} : log'[p] = log[p]
    BY <1>0, <2>2 DEF Typed
  <2>4. log[h] \in Seq(DOMAIN req)
    BY <1>0, <2>1 DEF Typed
  <2>5. \A i \in DOMAIN log[h] : log[h][i] # r
    BY <2>0 DEF Recorded, Planes
  <2>6. /\ DOMAIN log'[h] = 1..(Len(log[h]) + 1)
        /\ \A i \in 1..Len(log[h]) : log'[h][i] = log[h][i]
        /\ log'[h][Len(log[h]) + 1] = r
        /\ DOMAIN log[h] = 1..Len(log[h]) /\ Len(log[h]) \in Nat
    BY <1>0, <2>2, <2>4 DEF Typed
  <2>7. LogOfPlane(h)'
    <3>1. LogOfPlane(h)
      BY <1>0, <2>1
    <3>2. ASSUME NEW i \in DOMAIN log'[h], NEW j \in DOMAIN log'[h]
          PROVE  req[log'[h][i]].host = h /\ (log'[h][i] = log'[h][j] => i = j)
      <4>1. (i \in DOMAIN log[h] \/ i = Len(log[h]) + 1) /\ (j \in DOMAIN log[h] \/ j = Len(log[h]) + 1)
        BY <2>6
      <4>2. ASSUME NEW k \in DOMAIN log[h]
            PROVE  log'[h][k] = log[h][k] /\ req[log[h][k]].host = h /\ log[h][k] # r
        BY <2>5, <2>6, <3>1 DEF LogOfPlane
      <4>3. req[log'[h][i]].host = h
        BY <2>1, <2>6, <4>1, <4>2
      <4>4. CASE i \in DOMAIN log[h] /\ j \in DOMAIN log[h]
        BY <3>1, <4>2, <4>3, <4>4 DEF LogOfPlane
      <4>5. CASE i \notin DOMAIN log[h] \/ j \notin DOMAIN log[h]
        BY <2>6, <4>1, <4>2, <4>3, <4>5
      <4> QED
        BY <4>4, <4>5
    <3> QED
      BY <2>1, <2>2, <3>2 DEF LogOfPlane
  <2>8. ASSUME NEW p \in Planes \ {h} PROVE LogOfPlane(p)'
    BY <1>0, <2>2, <2>3 DEF LogOfPlane
  <2> QED
    BY <2>7, <2>8
<1>3. ASSUME NEW r \in DOMAIN req, Record(r), ~logOK PROVE UNCHANGED <<req, log>>
  BY <1>3 DEF Record, Logged
<1>4. (\E r \in DOMAIN req : Record(r)) \/ UNCHANGED <<req, log>>
  BY DEF Next, vars, Mux, Backend, Ended, Connect, Accept, Handshake, MuxRefuse, MuxRead, Forward,
         NoBackend, MuxStatus, MuxCopy, MuxLosesBackend, MuxLosesBody, MuxTimeout, Dispatch, Resource,
         ReadBody, Reject, Commit, Raise, Answer, Stamp, SendHeaders, SendBody, Leave, BackendDies,
         LogBreaks
<1> QED
  BY <1>1, <1>2, <1>3, <1>4

(* The clock moves at most one step for each request that reads it, and each reads it once. *)
LEMMA StepClock ==
    ASSUME IInv, [Next]_vars
    PROVE  Clock'
<1> USE DEF scenario, muxVars, backVars, envVars
<1>0. Typed /\ Clock /\ \A r \in Requests : MuxSide(r) /\ BackSide(r)
  BY IInvSplit
<1>1. CASE UNCHANGED <<stamp, now>>
  BY <1>0, <1>1 DEF Clock, Stamped
<1>2. ASSUME NEW r \in DOMAIN req, Stamp(r) PROVE Clock'
  <2>1. /\ r \in Requests /\ stamp[r] = 0 /\ stamp' = [stamp EXCEPT ![r] = now']
        /\ now' \in {now, now + 1} /\ now' # 0
    BY <1>0, <1>2 DEF Typed, BackSide, Stamp, Step
  <2>2. now \in Nat /\ now' \in Nat \ {0} /\ stamp \in [Requests -> 0..now] /\ Cardinality(Requests) \in Nat
    BY <1>0, <2>1, FS_CardinalityType, RequestsAssumption DEF Clock
  <2>3. Stamped' = Stamped \cup {r} /\ r \notin Stamped
    BY <2>1, <2>2 DEF Stamped
  <2>4. IsFiniteSet(Stamped) /\ IsFiniteSet(Stamped') /\ Cardinality(Stamped') <= Cardinality(Requests)
    <3>1. Stamped \subseteq Requests /\ Stamped' \subseteq Requests
      BY <2>1, <2>3 DEF Stamped
    <3> QED
      BY <3>1, FS_Subset, RequestsAssumption
  <2>5. Cardinality(Stamped') = Cardinality(Stamped) + 1
    BY <2>3, <2>4, FS_AddElement
  <2>6. stamp' \in [Requests -> 0..now']
    BY <2>1, <2>2
  <2>7. Cardinality(Stamped) \in Nat /\ Cardinality(Stamped') \in Nat
    BY <2>4, FS_CardinalityType
  <2>8. now' <= Cardinality(Stamped')
    BY <1>0, <2>1, <2>2, <2>5, <2>7 DEF Clock
  <2>9. now' \in 0..Cardinality(Requests)
    BY <2>2, <2>4, <2>7, <2>8
  <2> QED
    BY <2>6, <2>8, <2>9 DEF Clock
<1>3. (\E r \in DOMAIN req : Stamp(r)) \/ UNCHANGED <<stamp, now>>
  BY DEF Next, vars, Mux, Backend, Ended, Connect, Accept, Handshake, MuxRefuse, MuxRead, Forward,
         NoBackend, MuxStatus, MuxCopy, MuxLosesBackend, MuxLosesBody, MuxTimeout, Dispatch, Resource,
         ReadBody, Reject, Commit, Raise, Answer, Record, SendHeaders, SendBody, Leave, BackendDies,
         LogBreaks
<1> QED
  BY <1>1, <1>2, <1>3

-----------------------------------------------------------------------------
(* What is known of a request stays true while its state does. *)
LEMMA SameMux ==
    ASSUME NEW q, MuxSide(q), req' = req, pc'[q] = pc[q], back'[q] = back[q], out'[q] = out[q],
           lines'[q] = lines[q], whole'[q] = whole[q]
    PROVE  MuxSide(q)'
BY DEF MuxSide

(* What a step leaves alone, on the side of the backend. *)
LEMMA SameBack ==
    ASSUME NEW q, BackSide(q), req' = req, back'[q] = back[q], out'[q] = out[q],
           done'[q] = done[q], stamp'[q] = stamp[q], q \in Recorded' <=> q \in Recorded
    PROVE  BackSide(q)'
BY DEF BackSide, IsCommand

(* What a step leaves alone, in the logs. *)
LEMMA SameLog ==
    ASSUME log' = log
    PROVE  Recorded' = Recorded
BY DEF Recorded

(* A thread of the backend that moves on before the reply begins does not
   concern the client: the mux waits for a status line, or has given up. *)
LEMMA BackMoves ==
    ASSUME NEW q \in Requests, MuxSide(q), req' = req, pc' = pc, lines' = lines, whole' = whole,
           back[q] \in {"dispatch", "read", "run", "record", "append", "headers"}
    PROVE  MuxSide(q)'
BY DEF MuxSide

(* The first line a client receives, if it is still there. *)
LEMMA FirstLine ==
    ASSUME Typed, NEW r \in Requests, NEW status, lines[r] = << >>, Line(r, status)
    PROVE  lines'[r] \in {<< >>, <<status>>}
<1>1. lines \in [Requests -> Seq(Statuses)]
  BY DEF Typed
<1>2. lines'[r] = Append(lines[r], status) \/ lines'[r] = lines[r]
  BY <1>1 DEF Line
<1>3. Append(<< >>, status) = <<status>>
  OBVIOUS
<1> QED
  BY <1>2, <1>3

(* The steps of the mux, and of the client, keep what is known of the request. *)
LEMMA StepMuxSides ==
    ASSUME IInv, NEW r \in DOMAIN req, Connect(r) \/ Mux(r) \/ Leave(r), NEW q \in Requests
    PROVE  MuxSide(q)' /\ BackSide(q)'
<1> USE DEF scenario, muxVars, backVars, envVars
<1>0. Typed /\ r \in Requests /\ \A x \in Requests : MuxSide(x) /\ BackSide(x)
  BY IInvSplit DEF Typed
<1>1. UNCHANGED <<req, out, done, stamp, log>>
  BY DEF Mux, Connect, Accept, Handshake, MuxRefuse, MuxRead, Forward, NoBackend, MuxStatus, MuxCopy,
         MuxLosesBackend, MuxLosesBody, MuxTimeout, Leave
<1>2. Recorded' = Recorded
  BY <1>1, SameLog
<1>3. CASE q # r
  <2>1. pc'[q] = pc[q] /\ back'[q] = back[q] /\ lines'[q] = lines[q] /\ whole'[q] = whole[q]
    BY <1>0, <1>3
       DEF Typed, Mux, Connect, Accept, Handshake, MuxRefuse, MuxRead, Forward, NoBackend, MuxStatus,
           MuxCopy, MuxLosesBackend, MuxLosesBody, MuxTimeout, Leave, MuxAnswers, Line, Goto, Step
  <2> QED
    BY <1>0, <1>1, <1>2, <2>1, SameMux, SameBack
<1>4. back' = back => BackSide(r)'
  BY <1>0, <1>1, <1>2, SameBack
<1> SUFFICES MuxSide(r)' /\ BackSide(r)'
  BY <1>3
<1>5. CASE Connect(r) \/ Accept(r) \/ MuxRead(r) \/ Leave(r)
  <2>1. MuxSide(r)'
    BY <1>0, <1>5 DEF Typed, MuxSide, Connect, Accept, MuxRead, Leave, Goto
  <2> QED
    BY <1>4, <1>5, <2>1 DEF Connect, Accept, MuxRead, Leave
<1>6. CASE Handshake(r)
  <2>1. MuxSide(r)'
    BY <1>0, <1>6 DEF Typed, MuxSide, Handshake, Goto
  <2> QED
    BY <1>4, <1>6, <2>1 DEF Handshake
<1>7. CASE MuxRefuse(r)
  <2>1. pc[r] = "request" /\ pc'[r] = "end" /\ back' = back
    BY <1>0, <1>7 DEF Typed, MuxRefuse, MuxAnswers
  <2>2. MuxVerdict(req[r]) \in {400, 421, 501}
    BY <1>7, MuxRefusals DEF MuxRefuse
  <2>3. lines'[r] \in {<< >>, <<MuxVerdict(req[r])>>}
    BY <1>0, <1>7, <2>1, FirstLine DEF MuxSide, MuxRefuse, MuxAnswers
  <2>4. MuxSide(r)'
    BY <1>0, <1>1, <2>1, <2>2, <2>3 DEF MuxSide
  <2> QED
    BY <1>4, <2>1, <2>4
<1>8. ASSUME MuxAnswers(r, 502), back' = back, pc[r] \in {"forward", "status"}
      PROVE  MuxSide(r)' /\ BackSide(r)'
  <2>1. pc'[r] = "end"
    BY <1>0, <1>8 DEF Typed, MuxAnswers
  <2>2. lines'[r] \in {<< >>, << 502 >>}
    BY <1>0, <1>8, FirstLine DEF MuxSide, MuxAnswers
  <2>3. MuxSide(r)'
    BY <1>0, <1>1, <1>8, <2>1, <2>2 DEF MuxSide
  <2> QED
    BY <1>4, <1>8, <2>3
<1>9. CASE NoBackend(r) \/ MuxLosesBackend(r)
  BY <1>8, <1>9 DEF NoBackend, MuxLosesBackend
<1>10. ASSUME Goto(r, "copy", "end"), back' = back, UNCHANGED <<lines, whole>>
       PROVE  MuxSide(r)' /\ BackSide(r)'
  <2>1. MuxSide(r)'
    BY <1>0, <1>1, <1>10 DEF Typed, MuxSide, Goto
  <2> QED
    BY <1>4, <1>10, <2>1
<1>11. CASE MuxTimeout(r)
  BY <1>8, <1>10, <1>11 DEF MuxTimeout
<1>12. CASE MuxLosesBody(r)
  BY <1>10, <1>12 DEF MuxLosesBody
<1>13. CASE Forward(r)
  <2>1. MuxSide(r)'
    <3>1. pc[r] = "forward" /\ pc'[r] = "status" /\ UNCHANGED <<req, lines, whole>>
      BY <1>0, <1>13 DEF Typed, Forward, Goto
    <3> QED
      BY <1>0, <3>1 DEF MuxSide
  <2>2. BackSide(r)'
    <3>1. back[r] = "none" /\ back'[r] = "dispatch" /\ req[r].host \in Planes
      BY <1>0, <1>13 DEF Typed, Forward, Step
    <3> QED
      BY <1>0, <1>1, <1>2, <3>1 DEF BackSide, Decided
  <2> QED
    BY <2>1, <2>2
<1>14. CASE MuxStatus(r)
  <2>1. pc[r] = "status" /\ pc'[r] = "copy" /\ back' = back /\ ~whole'[r]
    BY <1>0, <1>14 DEF Typed, MuxSide, MuxStatus, Goto
  <2>2. lines'[r] \in {<< >>, <<out[r]>>}
    BY <1>0, <1>14, <2>1, FirstLine DEF MuxSide, MuxStatus
  <2>3. MuxSide(r)'
    BY <1>0, <1>1, <1>14, <2>1, <2>2 DEF MuxSide, MuxStatus
  <2> QED
    BY <1>4, <2>1, <2>3
<1>15. CASE MuxCopy(r)
  <2>1. MuxSide(r)'
    BY <1>0, <1>15 DEF Typed, MuxSide, MuxCopy, Goto
  <2> QED
    BY <1>4, <1>15, <2>1 DEF MuxCopy
<1> QED
  BY <1>5, <1>6, <1>7, <1>9, <1>11, <1>12, <1>13, <1>14, <1>15 DEF Mux

(* The steps of the backend keep what is known of the request: it decides before
   it records, and records before the mux hears of it. *)
LEMMA StepBackSides ==
    ASSUME IInv, NEW r \in DOMAIN req, Backend(r), NEW q \in Requests
    PROVE  MuxSide(q)' /\ BackSide(q)'
<1> USE DEF scenario, muxVars, backVars, envVars
<1>0. Typed /\ Clock /\ r \in Requests /\ \A x \in Requests : MuxSide(x) /\ BackSide(x)
  BY IInvSplit DEF Typed
<1>1. UNCHANGED <<req, pc, lines, whole>>
  BY DEF Backend, Dispatch, Resource, ReadBody, Reject, Commit, Raise, Answer, Stamp, Record,
         SendHeaders, SendBody
<1>2. Recorded' = Recorded \/ (Record(r) /\ logOK /\ Recorded' = Recorded \cup {r})
  <2>1. CASE Record(r) /\ logOK
    <3>1. req[r].host \in Planes
      BY <1>0, <2>1 DEF BackSide, Record, Step
    <3> QED
      BY <1>0, <2>1, <3>1, Recording DEF Record, Logged
  <2>2. CASE ~(Record(r) /\ logOK)
    <3>1. log' = log
      BY <2>2 DEF Backend, Dispatch, Resource, ReadBody, Reject, Commit, Raise, Answer, Stamp, Record,
                  Logged, SendHeaders, SendBody
    <3> QED
      BY <3>1, SameLog
  <2> QED
    BY <2>1, <2>2
<1>3. CASE q # r
  <2>1. out'[q] = out[q]
    BY <1>0, <1>3 DEF Typed, Backend, Dispatch, Resource, ReadBody, Reject, Commit, Raise, Answer,
                      Stamp, Record, SendHeaders, SendBody
  <2>2. back'[q] = back[q]
    BY <1>0, <1>3 DEF Typed, Backend, Dispatch, Resource, ReadBody, Reject, Commit, Raise, Answer,
                      Stamp, Record, SendHeaders, SendBody, Step
  <2>3. done'[q] = done[q] /\ stamp'[q] = stamp[q]
    BY <1>0, <1>3 DEF Typed, Clock, Backend, Dispatch, Resource, ReadBody, Reject, Commit, Raise,
                      Answer, Stamp, Record, SendHeaders, SendBody
  <2> QED
    BY <1>0, <1>1, <1>2, <1>3, <2>1, <2>2, <2>3, SameMux, SameBack
<1> SUFFICES MuxSide(r)' /\ BackSide(r)'
  BY <1>3
<1>4. ASSUME back[r] \in {"dispatch", "read", "run", "record", "append", "headers"} PROVE MuxSide(r)'
  BY <1>0, <1>1, <1>4, BackMoves
<1>5. CASE Dispatch(r)
  <2>1. back[r] = "dispatch" /\ out'[r] \in {Ready, 400, 404, 411, 413, 501, 503}
        /\ back'[r] = (IF out'[r] = Ready THEN "read" ELSE "record")
        /\ done' = done /\ stamp' = stamp /\ log' = log /\ req[r].host = "api"
    BY <1>0, <1>5, BackendVerdicts DEF Typed, Dispatch, Step
  <2>2. BackSide(r)'
    BY <1>0, <1>1, <1>2, <2>1, SameLog DEF BackSide, Decided, Statuses, Planes, Ready, IsCommand
  <2> QED
    BY <1>4, <2>1, <2>2
<1>6. CASE Resource(r)
  <2>1. back[r] = "dispatch" /\ out'[r] \in Outcomes(req[r].route) /\ back'[r] = "record"
        /\ done' = done /\ stamp' = stamp /\ log' = log /\ req[r].host = "resource"
    BY <1>0, <1>6 DEF Typed, Resource, Step
  <2>2. out'[r] \in {200, 404}
    BY <2>1 DEF Outcomes
  <2>3. BackSide(r)'
    BY <1>0, <1>1, <2>1, <2>2, SameLog DEF BackSide, Decided, Statuses, Planes, IsCommand, Ready
  <2> QED
    BY <1>4, <2>1, <2>3
<1>7. CASE ReadBody(r)
  <2>1. back[r] = "read" /\ back'[r] = "run" /\ UNCHANGED <<out, done, stamp, log>>
    BY <1>0, <1>7 DEF Typed, ReadBody, Step
  <2>2. BackSide(r)'
    BY <1>0, <1>1, <2>1, SameLog DEF BackSide, Decided
  <2> QED
    BY <1>4, <2>1, <2>2
<1>8. CASE Reject(r) \/ Answer(r) \/ Commit(r)
  <2>1. /\ back[r] = "run" /\ back'[r] = "record" /\ stamp' = stamp /\ log' = log
        /\ out'[r] \in {200, 400}
        /\ done'[r] = IF out'[r] = 200 /\ IsCommand(r) THEN 1 ELSE 0
    BY <1>0, <1>8 DEF Typed, BackSide, Reject, Answer, Commit, Step
  <2>2. BackSide(r)'
    BY <1>0, <1>1, <2>1, SameLog DEF BackSide, Decided, Statuses, IsCommand
  <2> QED
    BY <1>4, <2>1, <2>2
<1>9. CASE Raise(r)
  <2>1. back[r] = "run" /\ back'[r] = "dead" /\ UNCHANGED <<out, done, stamp, log>>
    BY <1>0, <1>9 DEF Typed, Raise, Step
  <2>2. BackSide(r)'
    BY <1>0, <1>1, <2>1, SameLog DEF BackSide, Decided
  <2> QED
    BY <1>4, <2>1, <2>2
<1>10. CASE Stamp(r)
  <2>1. back[r] = "record" /\ back'[r] = "append" /\ UNCHANGED <<out, done, log>> /\ stamp'[r] # 0
    BY <1>0, <1>10 DEF Typed, Clock, Stamp, Step
  <2>2. BackSide(r)'
    BY <1>0, <1>1, <2>1, SameLog DEF BackSide, Decided, IsCommand
  <2> QED
    BY <1>4, <2>1, <2>2
<1>11. CASE Record(r)
  <2>1. /\ back[r] = "append" /\ back'[r] = (IF logOK THEN "headers" ELSE "dead")
        /\ UNCHANGED <<out, done, stamp>>
    BY <1>0, <1>11 DEF Typed, Record, Step
  <2>2. logOK => r \in Recorded'
    <3>1. logOK => req[r].host \in Planes /\ log' = [log EXCEPT ![req[r].host] = Append(@, r)]
      BY <1>0, <1>11 DEF BackSide, Record, Step, Logged
    <3> QED
      BY <1>0, <3>1, Recording
  <2>3. BackSide(r)'
    BY <1>0, <1>1, <1>2, <2>1, <2>2 DEF BackSide, Decided, IsCommand, Statuses, Ready
  <2> QED
    BY <1>4, <2>1, <2>3
<1>12. CASE SendHeaders(r)
  <2>1. back[r] = "headers" /\ back'[r] = "body" /\ UNCHANGED <<out, done, stamp, log>>
    BY <1>0, <1>12 DEF Typed, SendHeaders, Step
  <2>2. BackSide(r)'
    BY <1>0, <1>1, <2>1, SameLog DEF BackSide, Decided, IsCommand
  <2> QED
    BY <1>4, <2>1, <2>2
<1>13. CASE SendBody(r)
  <2>1. back[r] = "body" /\ back'[r] = "sent" /\ UNCHANGED <<out, done, stamp, log>>
    BY <1>0, <1>13 DEF Typed, SendBody, Step
  <2>2. BackSide(r)'
    BY <1>0, <1>1, <2>1, SameLog DEF BackSide, Decided, IsCommand
  <2>3. MuxSide(r)'
    BY <1>0, <1>1, <2>1 DEF MuxSide
  <2> QED
    BY <2>2, <2>3
<1> QED
  BY <1>5, <1>6, <1>7, <1>8, <1>9, <1>10, <1>11, <1>12, <1>13 DEF Backend

(* A backend that dies takes its threads with it: what it had not answered is
   never answered, and what it had begun is cut off. *)
LEMMA StepDeathSides ==
    ASSUME IInv, NEW b \in Planes, BackendDies(b), NEW q \in Requests
    PROVE  MuxSide(q)' /\ BackSide(q)'
<1> USE DEF scenario, muxVars, backVars, envVars
<1>0. Typed /\ MuxSide(q) /\ BackSide(q)
  BY IInvSplit
<1>1. UNCHANGED <<req, pc, lines, whole, out, done, stamp, log>>
  BY DEF BackendDies
<1>2. Recorded' = Recorded
  BY <1>1, SameLog
<1>3. CASE back'[q] = back[q]
  BY <1>0, <1>1, <1>2, <1>3, SameMux, SameBack
<1>4. CASE back[q] = "body" /\ back'[q] = "cut"
  <2>1. MuxSide(q)'
    BY <1>0, <1>1, <1>4 DEF MuxSide
  <2>2. BackSide(q)'
    BY <1>0, <1>1, <1>2, <1>4 DEF BackSide, Decided, IsCommand
  <2> QED
    BY <2>1, <2>2
<1>5. CASE back[q] \in Working \ {"body"} /\ back'[q] = "dead"
  <2>1. MuxSide(q)'
    BY <1>0, <1>1, <1>5 DEF MuxSide, Working
  <2>2. BackSide(q)'
    BY <1>0, <1>1, <1>2, <1>5 DEF BackSide, Decided, Working
  <2> QED
    BY <2>1, <2>2
<1> QED
  BY <1>3, <1>4, <1>5 DEF BackendDies

-----------------------------------------------------------------------------
(* The clock never steps back, and a scenario is not changed. *)
LEMMA ClockRuns ==
    ASSUME [Next]_vars
    PROVE  after' = after /\ now' \in {now, now + 1}
<1> USE DEF scenario, muxVars, backVars, envVars
<1>1. after' = after
  BY DEF Next, vars, Mux, Backend, Ended, Connect, Accept, Handshake, MuxRefuse, MuxRead, Forward,
         NoBackend, MuxStatus, MuxCopy, MuxLosesBackend, MuxLosesBody, MuxTimeout, Dispatch, Resource,
         ReadBody, Reject, Commit, Raise, Answer, Stamp, Record, SendHeaders, SendBody, Leave,
         BackendDies, LogBreaks
<1>2. now' \in {now, now + 1}
  BY DEF Next, vars, Mux, Backend, Ended, Connect, Accept, Handshake, MuxRefuse, MuxRead, Forward,
         NoBackend, MuxStatus, MuxCopy, MuxLosesBackend, MuxLosesBody, MuxTimeout, Dispatch, Resource,
         ReadBody, Reject, Commit, Raise, Answer, Stamp, Record, SendHeaders, SendBody, Leave,
         BackendDies, LogBreaks
<1> QED
  BY <1>1, <1>2

(* Who has been answered 200 has an event with a time. *)
LEMMA AnsweredIsStamped ==
    ASSUME NEW r, MuxSide(r), BackSide(r), lines[r] = << 200 >>
    PROVE  out[r] = 200 /\ r \in Recorded /\ stamp[r] # 0
<1>1. \A x, y : <<x>> = <<y>> => x = y
  OBVIOUS
<1>2. << 200 >> # << >>
  OBVIOUS
<1>3. out[r] = 200 /\ back[r] \in {"body", "sent", "cut"}
  BY <1>1, <1>2 DEF MuxSide
<1> QED
  BY <1>3 DEF BackSide

(* What a step does to the connection and the event of one request. *)
LEMMA OneMoves ==
    ASSUME IInv, [Next]_vars, NEW q \in Requests
    PROVE  /\ pc[q] = "end" => pc'[q] = "end" /\ lines'[q] = lines[q]
           /\ pc[q] = "idle" => lines'[q] = lines[q]
           /\ pc'[q] # "idle" => pc[q] # "idle" \/ (\A p \in Requests : <<p, q>> \in after => pc[p] = "end")
           /\ stamp'[q] = stamp[q] \/ (stamp'[q] = now' /\ stamp[q] = 0 /\ pc[q] # "idle")
<1> USE DEF scenario, muxVars, backVars, envVars
<1>0. Typed /\ Clock /\ MuxSide(q) /\ BackSide(q) /\ DOMAIN req \subseteq Requests
  BY IInvSplit DEF Typed
<1>1. CASE UNCHANGED <<pc, lines, stamp>>
  BY <1>1
<1>2. ASSUME NEW r \in DOMAIN req, Connect(r)
      PROVE  UNCHANGED <<lines, stamp>> /\ pc[r] = "idle" /\ pc' = [pc EXCEPT ![r] = "queued"]
             /\ \A p \in Requests : <<p, r>> \in after => pc[p] = "end"
  BY <1>2 DEF Connect, Goto
<1>3. ASSUME NEW r \in DOMAIN req, Mux(r)
      PROVE  stamp' = stamp /\ pc[r] \notin {"idle", "end"} /\ (\E to : pc' = [pc EXCEPT ![r] = to])
             /\ (lines' = lines \/ \E status : Line(r, status))
  <2>1. stamp' = stamp /\ pc[r] \notin {"idle", "end"}
    BY <1>3 DEF Mux, Accept, Handshake, MuxRefuse, MuxRead, Forward, NoBackend, MuxStatus, MuxCopy,
                MuxLosesBackend, MuxLosesBody, MuxTimeout, MuxAnswers, Goto
  <2>2. CASE Accept(r) \/ Handshake(r) \/ MuxRead(r) \/ Forward(r) \/ MuxCopy(r) \/ MuxLosesBody(r)
    BY <2>1, <2>2 DEF Accept, Handshake, MuxRead, Forward, MuxCopy, MuxLosesBody, Goto
  <2>3. CASE MuxRefuse(r) \/ NoBackend(r) \/ MuxStatus(r) \/ MuxLosesBackend(r) \/ MuxTimeout(r)
    BY <2>1, <2>3 DEF MuxRefuse, NoBackend, MuxStatus, MuxLosesBackend, MuxTimeout, MuxAnswers, Goto
  <2> QED
    BY <1>3, <2>2, <2>3 DEF Mux
<1>4. ASSUME NEW r \in DOMAIN req, Backend(r)
      PROVE  UNCHANGED <<pc, lines>> /\ (stamp' = stamp \/ (stamp' = [stamp EXCEPT ![r] = now'] /\ back[r] = "record"))
  BY <1>4 DEF Backend, Dispatch, Resource, ReadBody, Reject, Commit, Raise, Answer, Stamp, Step, Record,
              SendHeaders, SendBody
<1>5. ASSUME NEW r \in DOMAIN req, Connect(r) \/ Mux(r) \/ Backend(r)
      PROVE  /\ pc[q] = "end" => pc'[q] = "end" /\ lines'[q] = lines[q]
             /\ pc[q] = "idle" => lines'[q] = lines[q]
             /\ pc'[q] # "idle" => pc[q] # "idle" \/ (\A p \in Requests : <<p, q>> \in after => pc[p] = "end")
             /\ stamp'[q] = stamp[q] \/ (stamp'[q] = now' /\ stamp[q] = 0 /\ pc[q] # "idle")
  <2>0. r \in Requests
    BY <1>0
  <2>1. CASE Connect(r)
    BY <1>0, <1>2, <2>0, <2>1 DEF Typed
  <2>2. CASE Mux(r)
    <3>1. CASE q = r
      BY <1>3, <2>2, <3>1
    <3>2. CASE q # r
      BY <1>0, <1>3, <2>0, <2>2, <3>2 DEF Typed, Line
    <3> QED
      BY <3>1, <3>2
  <2>3. CASE Backend(r)
    <3>1. CASE q = r
      <4>1. back[r] = "record" => pc[q] # "idle" /\ stamp[q] = 0
        BY <1>0, <3>1 DEF MuxSide, BackSide
      <4> QED
        BY <1>0, <1>4, <2>0, <2>3, <3>1, <4>1 DEF Clock
    <3>2. CASE q # r
      BY <1>0, <1>4, <2>0, <2>3, <3>2 DEF Clock
    <3> QED
      BY <3>1, <3>2
  <2> QED
    BY <1>5, <2>1, <2>2, <2>3
<1>6. UNCHANGED <<pc, lines, stamp>> \/ \E r \in DOMAIN req : Connect(r) \/ Mux(r) \/ Backend(r)
  BY DEF Next, vars, Ended, Leave, BackendDies, LogBreaks
<1> QED
  BY <1>1, <1>5, <1>6

(* Who has an event, or is about to add it, is connected. *)
LEMMA RecordedIsSent ==
    ASSUME NEW q, MuxSide(q), BackSide(q), q \in Recorded \/ back[q] = "append"
    PROVE  pc[q] # "idle"
BY DEF MuxSide, BackSide

(* A request is added to a log at the end, and what was there stays where it was. *)
LEMMA LogGrows ==
    ASSUME IInv, [Next]_vars, NEW p \in Planes, NEW j \in DOMAIN log'[p]
    PROVE  /\ \A i \in DOMAIN log[p] : i \in Nat
           /\ \/ j \in DOMAIN log[p] /\ log'[p][j] = log[p][j]
              \/ /\ j \in Nat /\ \A i \in DOMAIN log[p] : i < j
                 /\ log'[p][j] \in DOMAIN req /\ back[log'[p][j]] = "append"
<1> USE DEF scenario, muxVars, backVars, envVars
<1>0. Typed /\ log[p] \in Seq(DOMAIN req) /\ \A r \in Requests : BackSide(r)
  BY IInvSplit DEF Typed
<1>1. DOMAIN log[p] = 1..Len(log[p]) /\ Len(log[p]) \in Nat
  BY <1>0
<1>2. CASE log' = log
  BY <1>1, <1>2
<1>3. ASSUME NEW r \in DOMAIN req, Record(r), log' # log
      PROVE  \/ j \in DOMAIN log[p] /\ log'[p][j] = log[p][j]
             \/ j = Len(log[p]) + 1 /\ log'[p][j] = r /\ back[r] = "append"
  <2>1. log' = [log EXCEPT ![req[r].host] = Append(@, r)] /\ back[r] = "append"
    BY <1>3 DEF Record, Logged, Step
  <2>2. CASE req[r].host = p
    <3>1. log'[p] = Append(log[p], r)
      BY <1>0, <2>1, <2>2 DEF Typed
    <3> QED
      BY <1>0, <1>1, <2>1, <3>1
  <2>3. CASE req[r].host # p
    <3>1. log'[p] = log[p]
      BY <1>0, <2>1, <2>3 DEF Typed
    <3> QED
      BY <3>1
  <2> QED
    BY <2>2, <2>3
<1>4. (\E r \in DOMAIN req : Record(r)) \/ log' = log
  BY DEF Next, vars, Mux, Backend, Ended, Connect, Accept, Handshake, MuxRefuse, MuxRead, Forward,
         NoBackend, MuxStatus, MuxCopy, MuxLosesBackend, MuxLosesBody, MuxTimeout, Dispatch, Resource,
         ReadBody, Reject, Commit, Raise, Answer, Stamp, SendHeaders, SendBody, Leave, BackendDies,
         LogBreaks
<1> QED
  BY <1>1, <1>2, <1>3, <1>4

(* A request that waits for another is not sent, so has no event and no line in
   a log, before that one's reply has come. *)
LEMMA StepTurns ==
    ASSUME IInv, [Next]_vars, NEW r \in Requests, NEW s \in Requests
    PROVE  InTurn(r, s)'
<1>0. /\ Clock /\ MuxSide(r) /\ BackSide(r) /\ MuxSide(s) /\ BackSide(s) /\ InTurn(r, s)
      /\ now \in Nat /\ stamp \in [Requests -> 0..now] /\ after' = after /\ now' \in {now, now + 1}
  BY IInvSplit, ClockRuns DEF Clock
<1> SUFFICES ASSUME <<r, s>> \in after
             PROVE  /\ pc'[s] # "idle" => pc'[r] = "end"
                    /\ stamp'[s] # 0 /\ lines'[r] = << 200 >> => stamp'[r] <= stamp'[s]
                    /\ lines'[r] = << 200 >> => \A p \in Planes : \A i, j \in DOMAIN log'[p] :
                           log'[p][i] = r /\ log'[p][j] = s => i < j
  BY <1>0 DEF InTurn
<1>1. pc'[s] # "idle" => pc[r] = "end" /\ pc'[r] = "end" /\ lines'[r] = lines[r]
  BY <1>0, OneMoves DEF InTurn
<1>2. pc[s] # "idle" /\ lines'[r] = << 200 >> => lines[r] = << 200 >>
  BY <1>0, OneMoves DEF InTurn
<1>3. ASSUME stamp'[s] # 0, lines'[r] = << 200 >> PROVE stamp'[r] <= stamp'[s]
  <2>1. pc[s] # "idle"
    <3>1. pc[s] = "idle" => stamp[s] = 0
      BY <1>0 DEF MuxSide, BackSide
    <3> QED
      BY <1>3, <3>1, OneMoves
  <2>2. lines[r] = << 200 >>
    BY <1>2, <1>3, <2>1
  <2>3. stamp[r] # 0 /\ r \in Recorded
    BY <1>0, <2>2, AnsweredIsStamped
  <2>4. stamp'[r] = stamp[r]
    BY <2>3, OneMoves
  <2>5. CASE stamp'[s] = stamp[s]
    BY <1>0, <1>3, <2>2, <2>4, <2>5 DEF InTurn
  <2>6. CASE stamp'[s] = now'
    BY <1>0, <2>4, <2>6
  <2> QED
    BY <2>5, <2>6, OneMoves
<1>4. ASSUME lines'[r] = << 200 >>, NEW p \in Planes, NEW i \in DOMAIN log'[p], NEW j \in DOMAIN log'[p],
             log'[p][i] = r, log'[p][j] = s
      PROVE  i < j
  <2>1. /\ (j \in DOMAIN log[p] /\ log[p][j] = s) \/ back[s] = "append"
        /\ (i \in DOMAIN log[p] /\ log[p][i] = r) \/ back[r] = "append"
    BY <1>4, LogGrows
  <2>2. pc[s] # "idle"
    <3>1. j \in DOMAIN log[p] /\ log[p][j] = s => s \in Recorded
      BY DEF Recorded, Planes
    <3> QED
      BY <1>0, <2>1, <3>1, RecordedIsSent
  <2>3. lines[r] = << 200 >>
    BY <1>2, <1>4, <2>2
  <2>4. back[r] # "append"
    BY <1>0, <2>3, AnsweredIsStamped DEF BackSide
  <2>5. i \in DOMAIN log[p] /\ log[p][i] = r
    BY <2>1, <2>4
  <2>6. CASE j \in DOMAIN log[p] /\ log[p][j] = s
    BY <1>0, <2>3, <2>5, <2>6 DEF InTurn
  <2>7. CASE \A k \in DOMAIN log[p] : k < j
    BY <2>5, <2>7
  <2> QED
    BY <1>4, <2>6, <2>7, LogGrows
<1> QED
  BY <1>1, <1>3, <1>4

-----------------------------------------------------------------------------
(* The invariant of the stack, for any number of requests and whatever fails. *)
THEOREM InductiveInvariant == Spec => []IInv
<1>1. IInv /\ [Next]_vars => IInv'
  <2> SUFFICES ASSUME IInv, [Next]_vars PROVE IInv'
    OBVIOUS
  <2>1. ASSUME NEW q \in Requests PROVE MuxSide(q)' /\ BackSide(q)'
    <3>0. MuxSide(q) /\ BackSide(q)
      BY DEF IInv
    <3>1. ASSUME NEW r \in DOMAIN req, Connect(r) \/ Mux(r) \/ Leave(r) PROVE MuxSide(q)' /\ BackSide(q)'
      BY <3>1, StepMuxSides
    <3>2. ASSUME NEW r \in DOMAIN req, Backend(r) PROVE MuxSide(q)' /\ BackSide(q)'
      BY <3>2, StepBackSides
    <3>3. ASSUME NEW b \in Planes, BackendDies(b) PROVE MuxSide(q)' /\ BackSide(q)'
      BY <3>3, StepDeathSides
    <3>4. CASE LogBreaks \/ UNCHANGED vars
      <4>1. UNCHANGED <<req, pc, lines, whole, back, out, done, stamp, log>>
        BY <3>4 DEF LogBreaks, vars, scenario, muxVars, backVars, envVars
      <4> QED
        BY <3>0, <4>1, SameLog, SameMux, SameBack
    <3> QED
      BY <3>1, <3>2, <3>3, <3>4 DEF Next, Ended
  <2>2. Typed' /\ (\A p \in Planes : LogOfPlane(p)') /\ Clock'
    BY StepTyped, StepLogs, StepClock
  <2>3. TypeOK'
    BY <2>2 DEF TypeOK, Typed, Clock
  <2>4. \A r, s \in Requests : InTurn(r, s)'
    BY StepTurns
  <2> QED
    BY <2>1, <2>2, <2>3, <2>4 DEF IInv, Clock
<1> QED
  BY <1>1, InitIInv, PTL DEF Spec

(* Types; no request is recorded twice, or by another plane than it was sent to,
   and the clock has been read by no more requests than there are. *)
THEOREM TypeCorrect == Spec => []TypeOK
<1>1. IInv => TypeOK
  BY DEF IInv
<1> QED
  BY <1>1, InductiveInvariant, PTL

(* A client that is answered 200 can rely on it. *)
THEOREM SuccessesAreDone == Spec => []SuccessIsDoneAndRecorded
<1>1. IInv => SuccessIsDoneAndRecorded
  <2> SUFFICES ASSUME IInv, NEW r \in DOMAIN req, lines[r] = << 200 >>
               PROVE  /\ r \in Recorded
                      /\ done[r] = IF req[r].host = "api" /\ IsCommand(r) THEN 1 ELSE 0
    BY DEF SuccessIsDoneAndRecorded
  <2>1. r \in Requests /\ MuxSide(r) /\ BackSide(r)
    BY IInvSplit DEF Typed
  <2>2. out[r] = 200 /\ back[r] \in {"body", "sent", "cut"}
    <3>1. \A x, y : <<x>> = <<y>> => x = y
      OBVIOUS
    <3>2. << 200 >> # << >>
      OBVIOUS
    <3> QED
      BY <2>1, <3>1, <3>2 DEF MuxSide
  <2> QED
    BY <2>1, <2>2 DEF BackSide, Decided
<1> QED
  BY <1>1, InductiveInvariant, PTL

(* A definite refusal is one. *)
THEOREM RefusalsAreDefinite == Spec => []RefusalsLeaveNoTrace
<1>1. IInv => RefusalsLeaveNoTrace
  <2> SUFFICES ASSUME IInv, NEW r \in Requests, NEW i \in 1..Len(lines[r]), lines[r][i] \in Refusals
               PROVE  done[r] = 0
    BY DEF RefusalsLeaveNoTrace
  <2>1. MuxSide(r) /\ BackSide(r)
    BY DEF IInv
  <2>2. PICK s : lines[r] = <<s>>
    BY <2>1 DEF MuxSide
  <2>3. s \in Refusals /\ s \notin {200, 502}
    BY <2>2 DEF Refusals
  <2>4. (s = out[r] /\ back[r] \in {"body", "sent", "cut"}) \/ back[r] = "none"
    BY <2>1, <2>2, <2>3 DEF MuxSide
  <2> QED
    BY <2>1, <2>3, <2>4 DEF BackSide, Decided
<1> QED
  BY <1>1, InductiveInvariant, PTL

(* No second status line, and a complete 200 is the whole of the backend's. *)
THEOREM AnswersOnce == Spec => []OneAnswer
<1>1. IInv => OneAnswer
  <2> SUFFICES ASSUME IInv, NEW r \in Requests
               PROVE  Len(lines[r]) <= 1 /\ (whole[r] /\ lines[r] = << 200 >> => back[r] = "sent")
    BY DEF OneAnswer
  <2>1. MuxSide(r)
    BY DEF IInv
  <2>2. Len(lines[r]) <= 1
    <3>1. CASE lines[r] = << >>
      <4>1. Len(<< >>) = 0
        OBVIOUS
      <4> QED
        BY <3>1, <4>1
    <3>2. CASE \E s : lines[r] = <<s>>
      <4>1. PICK s : lines[r] = <<s>>
        BY <3>2
      <4>2. Len(<<s>>) = 1
        OBVIOUS
      <4> QED
        BY <4>1, <4>2
    <3> QED
      BY <2>1, <3>1, <3>2 DEF MuxSide
  <2>3. whole[r] /\ lines[r] = << 200 >> => back[r] = "sent"
    BY <2>1 DEF MuxSide
  <2> QED
    BY <2>2, <2>3
<1> QED
  BY <1>1, InductiveInvariant, PTL

-----------------------------------------------------------------------------
(* The merge of event streams. *)

(* What is merged is finite. *)
LEMMA TaggedIsFinite ==
    ASSUME NEW Events, NEW streams \in Seq(Seq(Events))
    PROVE  IsFiniteSet(Tagged(streams))
<1> DEFINE Lines(s) == {<<s, i>> : i \in DOMAIN streams[s]}
           f        == [s \in DOMAIN streams |-> Lines(s)]
           All      == {Lines(s) : s \in DOMAIN streams}
<1>1. IsFiniteSet(DOMAIN streams)
  BY FS_Interval
<1>2. IsFiniteSet(All)
  <2>1. f \in Surjection(DOMAIN streams, All)
    BY DEF Surjection
  <2> QED
    BY <1>1, <2>1, FS_Surjection
<1>3. ASSUME NEW s \in DOMAIN streams PROVE IsFiniteSet(Lines(s))
  <2> DEFINE g == [i \in DOMAIN streams[s] |-> <<s, i>>]
  <2>1. streams[s] \in Seq(Events)
    OBVIOUS
  <2>2. IsFiniteSet(DOMAIN streams[s])
    BY <2>1, FS_Interval
  <2>3. g \in Surjection(DOMAIN streams[s], Lines(s))
    BY DEF Surjection
  <2> QED
    BY <2>2, <2>3, FS_Surjection
<1>4. IsFiniteSet(UNION All)
  BY <1>2, <1>3, FS_UNION
<1> QED
  BY <1>4 DEF Tagged

(* Of any two lines one comes before the other: by time, stream and place in it. *)
LEMMA OneIsBefore ==
    ASSUME NEW Events, \A e \in Events : e.time \in Int, NEW streams \in Seq(Seq(Events))
    PROVE  /\ \A t \in Tagged(streams) : /\ t = <<t[1], t[2]>> /\ t[1] \in Nat /\ t[2] \in Nat
                                         /\ LineAt(streams, t) \in Events
           /\ \A t, u \in Tagged(streams) : t = u \/ Before(streams, t, u) \/ Before(streams, u, t)
           /\ \A t \in Tagged(streams) : ~Before(streams, t, t)
           /\ \A t, u, v \in Tagged(streams) :
                  Before(streams, t, u) /\ Before(streams, u, v) => Before(streams, t, v)
<1> DEFINE Q == Tagged(streams)
<1>1. ASSUME NEW t \in Q
      PROVE  t = <<t[1], t[2]>> /\ t[1] \in Nat /\ t[2] \in Nat /\ LineAt(streams, t) \in Events
  <2>1. PICK s \in DOMAIN streams : \E i \in DOMAIN streams[s] : t = <<s, i>>
    BY DEF Tagged
  <2>2. PICK i \in DOMAIN streams[s] : t = <<s, i>>
    BY <2>1
  <2>3. streams[s] \in Seq(Events)
    OBVIOUS
  <2> QED
    BY <2>2, <2>3 DEF LineAt
<1>2. \A t \in Q : LineAt(streams, t).time \in Int
  BY <1>1
<1> HIDE DEF Q
<1>3. \A t, u \in Q : t = u \/ Before(streams, t, u) \/ Before(streams, u, t)
  BY <1>1, <1>2 DEF Before
<1>4. \A t \in Q : ~Before(streams, t, t)
  BY <1>1, <1>2 DEF Before
<1>5. \A t, u, v \in Q : Before(streams, t, u) /\ Before(streams, u, v) => Before(streams, t, v)
  BY <1>1, <1>2 DEF Before
<1> QED
  BY <1>1, <1>3, <1>4, <1>5 DEF Q

(* Merging gives each line one place, in the order of Before. *)
LEMMA MergePlaces ==
    ASSUME NEW Events, \A e \in Events : e.time \in Int, NEW streams \in Seq(Seq(Events))
    PROVE  /\ Cardinality(Tagged(streams)) \in Nat
           /\ \A t \in Tagged(streams) : Place(streams, t) \in 1..Cardinality(Tagged(streams))
           /\ \A t, u \in Tagged(streams) : Before(streams, t, u) => Place(streams, t) < Place(streams, u)
           /\ \A k \in 1..Cardinality(Tagged(streams)) : \E t \in Tagged(streams) : Place(streams, t) = k
<1> DEFINE Q    == Tagged(streams)
           n    == Cardinality(Q)
           B(t) == {u \in Q : Before(streams, u, t)}
           f    == [t \in Q |-> Place(streams, t)]
<1>1. IsFiniteSet(Q) /\ n \in Nat
  BY TaggedIsFinite, FS_CardinalityType
<1>2. /\ \A t, u \in Q : t = u \/ Before(streams, t, u) \/ Before(streams, u, t)
      /\ \A t \in Q : ~Before(streams, t, t)
      /\ \A t, u, v \in Q : Before(streams, t, u) /\ Before(streams, u, v) => Before(streams, t, v)
  BY OneIsBefore
<1>3. \A t \in Q : Place(streams, t) = Cardinality(B(t)) + 1
  BY DEF Place
<1> HIDE DEF Q
<1>4. ASSUME NEW t \in Q PROVE IsFiniteSet(B(t)) /\ Cardinality(B(t)) \in Nat /\ Cardinality(B(t)) < n
  <2>1. B(t) \in SUBSET Q /\ t \notin B(t)
    BY <1>2
  <2>2. IsFiniteSet(B(t)) /\ Cardinality(B(t)) =< n /\ (n = Cardinality(B(t)) => Q = B(t))
    BY <1>1, <2>1, FS_Subset
  <2>3. Cardinality(B(t)) \in Nat
    BY <2>2, FS_CardinalityType
  <2> QED
    BY <1>1, <2>1, <2>2, <2>3
<1>5. ASSUME NEW t \in Q, NEW u \in Q, Before(streams, t, u) PROVE Cardinality(B(t)) < Cardinality(B(u))
  <2>1. B(t) \in SUBSET B(u) /\ t \in B(u) /\ t \notin B(t)
    BY <1>2, <1>5
  <2>2. Cardinality(B(t)) =< Cardinality(B(u)) /\ Cardinality(B(t)) # Cardinality(B(u))
    BY <1>4, <2>1, FS_Subset
  <2>3. Cardinality(B(t)) \in Nat /\ Cardinality(B(u)) \in Nat
    BY <1>4
  <2> HIDE DEF B
  <2> QED
    BY <2>2, <2>3
<1> HIDE DEF B
<1>6. \A t \in Q : Place(streams, t) \in 1..n
  BY <1>1, <1>3, <1>4
<1>7. \A t, u \in Q : Before(streams, t, u) => Place(streams, t) < Place(streams, u)
  BY <1>3, <1>4, <1>5
<1>8. \A k \in 1..n : \E t \in Q : Place(streams, t) = k
  <2>1. f \in [Q -> 1..n]
    BY <1>6
  <2>2. \A t, u \in Q : f[t] = f[u] => t = u
    <3>1. \A t, u \in Q : Place(streams, t) = Place(streams, u) => ~Before(streams, t, u) /\ ~Before(streams, u, t)
      BY <1>6, <1>7
    <3> QED
      BY <1>2, <3>1
  <2>3. f \in Injection(Q, 1..n)
    BY <2>1, <2>2 DEF Injection, IsInjective
  <2>4. IsFiniteSet(1..n) /\ Cardinality(1..n) = n
    BY <1>1, FS_Interval
  <2>5. f \in Surjection(Q, 1..n)
    BY <2>3, <2>4, FS_Injection
  <2> QED
    BY <2>5 DEF Surjection
<1> QED
  BY <1>1, <1>6, <1>7, <1>8 DEF Q

(* Every line is in the merged stream, there is nothing else in it, and it is in
   the order of time, and of Before where times are equal. *)
LEMMA MergeIsOrdered ==
    ASSUME NEW Events, \A e \in Events : e.time \in Int, NEW streams \in Seq(Seq(Events))
    PROVE  /\ \A k \in DOMAIN Merge(streams) : \E t \in Tagged(streams) : Merge(streams)[k] = LineAt(streams, t)
           /\ \A t \in Tagged(streams) : \E k \in DOMAIN Merge(streams) : Merge(streams)[k] = LineAt(streams, t)
           /\ \A k, l \in DOMAIN Merge(streams) : k < l => Merge(streams)[k].time =< Merge(streams)[l].time
           /\ \A k \in DOMAIN Merge(streams) : k \in Nat
           /\ \A t, u \in Tagged(streams) : Before(streams, t, u) => \E k, l \in DOMAIN Merge(streams) :
                  k < l /\ Merge(streams)[k] = LineAt(streams, t) /\ Merge(streams)[l] = LineAt(streams, u)
<1> DEFINE Q     == Tagged(streams)
           n     == Cardinality(Q)
           At(k) == CHOOSE t \in Q : Place(streams, t) = k
           m     == Merge(streams)
<1>1. /\ n \in Nat
      /\ \A t \in Q : Place(streams, t) \in 1..n
      /\ \A t, u \in Q : Before(streams, t, u) => Place(streams, t) < Place(streams, u)
      /\ \A k \in 1..n : \E t \in Q : Place(streams, t) = k
  BY MergePlaces
<1>2. /\ \A t \in Q : LineAt(streams, t) \in Events
      /\ \A t, u \in Q : t = u \/ Before(streams, t, u) \/ Before(streams, u, t)
  BY OneIsBefore
<1>3. m = [k \in 1..n |-> LineAt(streams, At(k))]
  BY DEF Merge
<1> HIDE DEF Q, m
<1>4. \A k \in 1..n : At(k) \in Q /\ Place(streams, At(k)) = k
  BY <1>1
<1>5. \A t \in Q : At(Place(streams, t)) = t
  <2> SUFFICES ASSUME NEW t \in Q PROVE At(Place(streams, t)) = t
    OBVIOUS
  <2> DEFINE u == At(Place(streams, t))
  <2>1. u \in Q /\ Place(streams, u) = Place(streams, t)
    BY <1>1, <1>4
  <2> HIDE DEF u
  <2>2. ~Before(streams, t, u) /\ ~Before(streams, u, t)
    BY <1>1, <2>1
  <2>3. u = t
    BY <1>2, <2>1, <2>2
  <2> QED
    BY <2>3 DEF u
<1> HIDE DEF At, n
<1>6. DOMAIN m = 1..n /\ \A k \in 1..n : m[k] = LineAt(streams, At(k))
  BY <1>3
<1>7. ASSUME NEW k \in 1..n, NEW l \in 1..n, k < l PROVE m[k].time =< m[l].time
  <2>1. Before(streams, At(k), At(l)) \/ At(k) = At(l)
    BY <1>1, <1>2, <1>4, <1>7
  <2>2. LineAt(streams, At(k)).time \in Int /\ LineAt(streams, At(l)).time \in Int
    BY <1>2, <1>4
  <2>3. LineAt(streams, At(k)).time =< LineAt(streams, At(l)).time
    BY <2>1, <2>2 DEF Before
  <2> QED
    BY <1>6, <2>3
<1>8. \A t \in Q : \E k \in 1..n : m[k] = LineAt(streams, t)
  BY <1>1, <1>5, <1>6
<1>9. \A k \in 1..n : \E t \in Q : m[k] = LineAt(streams, t)
  BY <1>4, <1>6
<1>10. \A k \in 1..n : k \in Nat
  BY <1>1
<1>11. ASSUME NEW t \in Q, NEW u \in Q, Before(streams, t, u)
       PROVE  \E k, l \in 1..n : k < l /\ m[k] = LineAt(streams, t) /\ m[l] = LineAt(streams, u)
  <2>1. Place(streams, t) \in 1..n /\ Place(streams, u) \in 1..n /\ Place(streams, t) < Place(streams, u)
    BY <1>1, <1>11
  <2>2. m[Place(streams, t)] = LineAt(streams, t) /\ m[Place(streams, u)] = LineAt(streams, u)
    BY <1>5, <1>6, <2>1
  <2> QED
    BY <2>1, <2>2
<1>12. /\ \A k \in DOMAIN m : \E t \in Q : m[k] = LineAt(streams, t)
       /\ \A t \in Q : \E k \in DOMAIN m : m[k] = LineAt(streams, t)
       /\ \A k, l \in DOMAIN m : k < l => m[k].time =< m[l].time
       /\ \A k \in DOMAIN m : k \in Nat
  BY <1>6, <1>7, <1>8, <1>9, <1>10
<1>13. \A t, u \in Q : Before(streams, t, u) =>
          \E k, l \in DOMAIN m : k < l /\ m[k] = LineAt(streams, t) /\ m[l] = LineAt(streams, u)
  BY <1>6, <1>11
<1> QED
  BY <1>12, <1>13 DEF Q, m

-----------------------------------------------------------------------------
(* What the analysis says of a stream of events. *)

(* The phase is the last of those that hold, and the last of all is the blocker. *)
LEMMA LastPhase ==
    ASSUME NEW holds \in SUBSET (1..12), 1 \in holds
    PROVE  PhaseOf(holds) = "semantic_contract_blocker_observed" <=> 12 \in holds
<1> DEFINE last == CHOOSE n \in holds : \A m \in holds : m =< n
<1>1. \E n \in holds : \A m \in holds : m =< n
  <2> DEFINE T == {n \in 1..12 : \A m \in holds : m =< n}
  <2>1. 12 \in T
    OBVIOUS
  <2>2. \A n \in 2..12 : n \in T /\ n \notin holds => n - 1 \in T
    OBVIOUS
  <2> HIDE DEF T
  <2>3. \E n \in T : n \in holds
    BY <2>1, <2>2
  <2> QED
    BY <2>3 DEF T
<1>2. last \in holds /\ \A m \in holds : m =< last
  BY <1>1
<1>3. PhaseOf(holds) = Phases[last]
  BY DEF PhaseOf
<1> HIDE DEF last
<1>4. last \in 1..12
  BY <1>2
<1>5. Phases[last] = "semantic_contract_blocker_observed" <=> last = 12
  BY <1>4 DEF Phases
<1>6. last = 12 <=> 12 \in holds
  BY <1>2, <1>4
<1> QED
  BY <1>3, <1>5, <1>6

(* Who was told to update, and what was served. *)
Told(e)   == e.route = "/load/check" /\ "result_code" \in DOMAIN e.result /\ e.result["result_code"] = 214
Served(e) == e.route \in ResourceRoutes /\ e.route # Unresolved /\ e.status < 400

(* Each conclusion, by the events that it rests on. *)
LEMMA Conclusions ==
    ASSUME NEW events, NEW final
    PROVE  /\ Analyze(events, final).servedAfter214 <=>
                 \E i, j \in DOMAIN events : i < j /\ Told(events[i]) /\ Served(events[j])
           /\ Analyze(events, final).finalAfter214 <=>
                 \E i, j \in DOMAIN events : /\ i < j /\ Told(events[i]) /\ events[j].route = "/load/check"
                                             /\ Value(events[j].headers, "RES-VER") = final
           /\ Analyze(events, final).phase = "semantic_contract_blocker_observed" <=>
                 \E i \in DOMAIN events : Blocked(events[i])
<1> DEFINE check      == {i \in DOMAIN events : events[i].route = "/load/check"}
           resource   == {i \in DOMAIN events : events[i].route \in ResourceRoutes}
           served     == {i \in resource : events[i].route # Unresolved /\ events[i].status < 400}
           told214    == {i \in check : ResultCode(events[i]) = 214}
           finalCheck == {i \in check : Value(events[i].headers, "RES-VER") = final}
           blockers   == {i \in DOMAIN events : Blocked(events[i])}
           index      == {i \in DOMAIN events : events[i].route = "/load/index"}
           finalOK    == {i \in finalCheck : ResultCode(events[i]) = 1}
           direct     == {i \in check \ finalCheck : /\ ResultCode(events[i]) = 1
                                                     /\ Value(events[i].result, "required_res_ver") = final}
           holds      == <<TRUE, events # << >>, check # {}, told214 # {}, direct # {}, finalCheck # {}, finalOK # {},
                           resource # {}, served # {}, index # {}, index # {} /\ ~(Len(events) \in index),
                           blockers # {}>>
           phases     == {n \in 1..12 : holds[n]}
<1>1. /\ Analyze(events, final).servedAfter214 <=> Later(told214, served)
      /\ Analyze(events, final).finalAfter214 <=> Later(told214, finalCheck)
  BY DEF Analyze
<1>2. /\ phases \in SUBSET (1..12)
      /\ 1 \in phases /\ (12 \in phases <=> blockers # {})
  <2>1. holds[1] /\ (holds[12] <=> blockers # {})
    OBVIOUS
  <2>2. \A n : n \in phases <=> n \in 1..12 /\ holds[n]
    OBVIOUS
  <2> HIDE DEF holds, phases, blockers
  <2> QED
    BY <2>1, <2>2
<1>2a. Analyze(events, final).phase = PhaseOf(phases)
  BY DEF Analyze
<1>3. told214 = {i \in DOMAIN events : Told(events[i])}
  BY DEF Told, ResultCode
<1>4. served = {i \in DOMAIN events : Served(events[i])}
  BY DEF Served
<1>5. Later(told214, served) <=> \E i, j \in DOMAIN events : i < j /\ Told(events[i]) /\ Served(events[j])
  BY <1>3, <1>4 DEF Later
<1>6. Later(told214, finalCheck) <=>
        \E i, j \in DOMAIN events : /\ i < j /\ Told(events[i]) /\ events[j].route = "/load/check"
                                    /\ Value(events[j].headers, "RES-VER") = final
  BY <1>3 DEF Later
<1>7. Analyze(events, final).phase = "semantic_contract_blocker_observed" <=> blockers # {}
  BY <1>2, <1>2a, LastPhase
<1> QED
  BY <1>1, <1>5, <1>6, <1>7

Merged == Merge(<<Stream("api"), Stream("resource")>>)

(* Where the time of two events is the same, the merge takes the control server's
   first, and those of one log in their order there. *)
LogOrder(r, s) ==
    \/ req[r].host = "api" /\ req[s].host = "resource"
    \/ \E p \in Planes : \E i, j \in DOMAIN log[p] : log[p][i] = r /\ log[p][j] = s /\ i < j
Precedes(r, s) == stamp[r] < stamp[s] \/ (stamp[r] = stamp[s] /\ LogOrder(r, s))

(* The merged stream is made of the events of the requests that are recorded, in
   the order of their times. *)
LEMMA MergedEvents ==
    ASSUME IInv
    PROVE  /\ \A k \in DOMAIN Merged : k \in Nat /\ \E r \in Recorded : Merged[k] = EventOf(r)
           /\ \A r \in Recorded : \E k \in DOMAIN Merged : Merged[k] = EventOf(r)
           /\ \A k, l \in DOMAIN Merged : k < l => Merged[k].time =< Merged[l].time
           /\ \A r, s \in Recorded : Precedes(r, s) =>
                 \E k, l \in DOMAIN Merged : k < l /\ Merged[k] = EventOf(r) /\ Merged[l] = EventOf(s)
<1> DEFINE Events  == {EventOf(r) : r \in DOMAIN req}
           streams == <<Stream("api"), Stream("resource")>>
           Plane(p) == IF p = "api" THEN 1 ELSE 2
<1>0. Typed /\ Clock /\ DOMAIN req \subseteq Requests /\ \A p \in Planes : LogOfPlane(p)
  BY IInvSplit DEF Typed
<1>1. \A e \in Events : e.time \in Int
  <2>1. \A r \in Requests : stamp[r] \in Int
    BY <1>0 DEF Clock
  <2> QED
    BY <1>0, <2>1 DEF EventOf, BuildEvent
<1> HIDE DEF Events
<1>2. ASSUME NEW p \in Planes PROVE Stream(p) \in Seq(Events) /\ DOMAIN Stream(p) = DOMAIN log[p]
  <2>1. log[p] \in Seq(DOMAIN req)
    BY <1>0 DEF Typed
  <2>2. \A i \in DOMAIN log[p] : EventOf(log[p][i]) \in Events
    BY <2>1 DEF Events
  <2>3. DOMAIN log[p] = 1..Len(log[p]) /\ Len(log[p]) \in Nat
    BY <2>1
  <2> QED
    BY <2>2, <2>3 DEF Stream
<1>3. streams \in Seq(Seq(Events)) /\ DOMAIN streams = {1, 2}
      /\ streams[1] = Stream("api") /\ streams[2] = Stream("resource")
  <2>1. Stream("api") \in Seq(Events) /\ Stream("resource") \in Seq(Events)
    BY <1>2 DEF Planes
  <2> QED
    BY <2>1
<1>4. Recorded = {log["api"][i] : i \in DOMAIN log["api"]} \cup {log["resource"][i] : i \in DOMAIN log["resource"]}
  BY DEF Recorded
<1>5. \A p \in Planes : \A i \in DOMAIN log[p] : Stream(p)[i] = EventOf(log[p][i])
  BY DEF Stream
<1>6. DOMAIN Stream("api") = DOMAIN log["api"] /\ DOMAIN Stream("resource") = DOMAIN log["resource"]
  BY <1>2 DEF Planes
<1>7. ASSUME NEW t \in Tagged(streams) PROVE \E r \in Recorded : LineAt(streams, t) = EventOf(r)
  <2>1. PICK s \in DOMAIN streams : \E i \in DOMAIN streams[s] : t = <<s, i>>
    BY DEF Tagged
  <2>2. PICK i \in DOMAIN streams[s] : t = <<s, i>>
    BY <2>1
  <2>3. LineAt(streams, t) = streams[s][i]
    BY <2>2 DEF LineAt
  <2> QED
    BY <1>3, <1>4, <1>5, <1>6, <2>3 DEF Planes
<1>8. ASSUME NEW p \in Planes, NEW i \in DOMAIN log[p]
      PROVE  /\ <<Plane(p), i>> \in Tagged(streams)
             /\ LineAt(streams, <<Plane(p), i>>) = EventOf(log[p][i])
  <2>1. Plane(p) \in DOMAIN streams /\ streams[Plane(p)] = Stream(p) /\ i \in DOMAIN Stream(p)
    BY <1>2, <1>3 DEF Planes
  <2>2. <<Plane(p), i>> \in Tagged(streams)
    BY <2>1 DEF Tagged
  <2> QED
    BY <1>5, <2>1, <2>2 DEF LineAt
<1>9. Merged = Merge(streams)
  BY DEF Merged
<1>10. ASSUME NEW r \in Recorded
       PROVE  \E i \in DOMAIN log[req[r].host] : req[r].host \in Planes /\ log[req[r].host][i] = r
  BY <1>0, <1>4 DEF LogOfPlane, Planes
<1>11. ASSUME NEW r \in Recorded PROVE \E t \in Tagged(streams) : LineAt(streams, t) = EventOf(r)
  BY <1>8, <1>10
<1>12. \A r : EventOf(r).time = stamp[r]
  BY DEF EventOf, BuildEvent
<1> HIDE DEF streams
<1>13. ASSUME NEW r \in Recorded, NEW s \in Recorded, Precedes(r, s)
       PROVE  \E t, u \in Tagged(streams) : /\ LineAt(streams, t) = EventOf(r)
                                             /\ LineAt(streams, u) = EventOf(s)
                                             /\ Before(streams, t, u)
  <2>1. CASE stamp[r] < stamp[s]
    <3>1. PICK t \in Tagged(streams) : LineAt(streams, t) = EventOf(r)
      BY <1>11
    <3>2. PICK u \in Tagged(streams) : LineAt(streams, u) = EventOf(s)
      BY <1>11
    <3>3. Before(streams, t, u)
      BY <1>12, <2>1, <3>1, <3>2 DEF Before
    <3> QED
      BY <3>1, <3>2, <3>3
  <2>2. CASE stamp[r] = stamp[s] /\ req[r].host = "api" /\ req[s].host = "resource"
    <3>1. PICK i \in DOMAIN log["api"] : log["api"][i] = r
      BY <1>10, <2>2
    <3>2. PICK j \in DOMAIN log["resource"] : log["resource"][j] = s
      BY <1>10, <2>2
    <3>3. /\ <<1, i>> \in Tagged(streams) /\ LineAt(streams, <<1, i>>) = EventOf(r)
          /\ <<2, j>> \in Tagged(streams) /\ LineAt(streams, <<2, j>>) = EventOf(s)
      BY <1>8, <3>1, <3>2 DEF Planes
    <3>4. Before(streams, <<1, i>>, <<2, j>>)
      BY <1>12, <2>2, <3>3 DEF Before
    <3> QED
      BY <3>3, <3>4
  <2>3. CASE stamp[r] = stamp[s] /\ \E p \in Planes : \E i, j \in DOMAIN log[p] :
                                      log[p][i] = r /\ log[p][j] = s /\ i < j
    <3>1. PICK p \in Planes : \E i, j \in DOMAIN log[p] : log[p][i] = r /\ log[p][j] = s /\ i < j
      BY <2>3
    <3>2. PICK i \in DOMAIN log[p], j \in DOMAIN log[p] : log[p][i] = r /\ log[p][j] = s /\ i < j
      BY <3>1
    <3>3. PICK k : k = Plane(p)
      OBVIOUS
    <3>4. /\ <<k, i>> \in Tagged(streams) /\ LineAt(streams, <<k, i>>) = EventOf(r)
          /\ <<k, j>> \in Tagged(streams) /\ LineAt(streams, <<k, j>>) = EventOf(s)
      BY <1>8, <3>2, <3>3
    <3>5. Before(streams, <<k, i>>, <<k, j>>)
      BY <1>12, <2>3, <3>2, <3>4 DEF Before
    <3> QED
      BY <3>4, <3>5
  <2> QED
    BY <1>13, <2>1, <2>2, <2>3 DEF Precedes, LogOrder
<1>14. /\ \A k \in DOMAIN Merged : k \in Nat /\ \E r \in Recorded : Merged[k] = EventOf(r)
       /\ \A r \in Recorded : \E k \in DOMAIN Merged : Merged[k] = EventOf(r)
       /\ \A k, l \in DOMAIN Merged : k < l => Merged[k].time =< Merged[l].time
  BY <1>1, <1>3, <1>7, <1>9, <1>11, MergeIsOrdered
<1>15. ASSUME NEW r \in Recorded, NEW s \in Recorded, Precedes(r, s)
       PROVE  \E k, l \in DOMAIN Merged : k < l /\ Merged[k] = EventOf(r) /\ Merged[l] = EventOf(s)
  <2>1. PICK t \in Tagged(streams), u \in Tagged(streams) :
           LineAt(streams, t) = EventOf(r) /\ LineAt(streams, u) = EventOf(s) /\ Before(streams, t, u)
    BY <1>13, <1>15
  <2> QED
    BY <1>1, <1>3, <1>9, <2>1, MergeIsOrdered
<1> QED
  BY <1>14, <1>15

(* What the two logs say, merged, is what has happened. *)
THEOREM ConclusionsAreTrue == Spec => []AnalysisIsTrue
<1> DEFINE Told214(r) == /\ req[r].route = VersionCheck /\ out[r] = 200
                         /\ "result_code" \in Keys(ResponseOf(r).data_headers)
                         /\ ResponseOf(r).data_headers["result_code"] = 214
           Final(r)   == /\ req[r].route = VersionCheck /\ "RES-VER" \in Keys(req[r].headers)
                         /\ req[r].headers["RES-VER"] = Cfg.finalResVer
           Blocker    == "semantic_contract_blocker_observed"
<1>1. IInv => AnalysisIsTrue
  <2> SUFFICES ASSUME IInv
               PROVE  /\ Report.servedAfter214 <=> \E r, s \in Recorded :
                            Told214(r) /\ req[s].host = "resource" /\ out[s] = 200 /\ stamp[r] <= stamp[s]
                      /\ \A r, s \in DOMAIN req : <<r, s>> \in after /\ lines[r] = << 200 >>
                            /\ r \in Recorded /\ s \in Recorded /\ Told214(r) /\ Final(s) => Report.finalAfter214
                      /\ \A r \in DOMAIN req : lines[r] = << 501 >> /\ out[r] = 501 => Report.phase = Blocker
                      /\ Report.phase = Blocker => \E r \in Recorded : out[r] = 501
    BY DEF AnalysisIsTrue
  <2>0. /\ DOMAIN req \subseteq Requests /\ Clock
        /\ \A r \in Requests : MuxSide(r) /\ BackSide(r)
        /\ \A r, s \in Requests : InTurn(r, s)
        /\ \A p \in Planes : LogOfPlane(p)
        /\ \A r \in DOMAIN req : req[r].host = "resource" <=> req[r].route \in ResourceRoutes
    BY IInvSplit, ScenariosAssumption DEF Typed
  <2>1. Recorded \subseteq DOMAIN req /\ \A r \in Recorded : r \in Requests /\ stamp[r] \in Nat
    <3>1. \A r \in Recorded : r \in DOMAIN req
      BY IInvSplit DEF Typed, Recorded, Planes
    <3>2. \A r \in Requests : stamp[r] \in Nat
      BY <2>0 DEF Clock
    <3> QED
      BY <2>0, <3>1, <3>2
  <2>2. Report = Analyze(Merged, Cfg.finalResVer)
    BY DEF Report, Merged
  <2>3. /\ \A k \in DOMAIN Merged : k \in Nat /\ \E r \in Recorded : Merged[k] = EventOf(r)
        /\ \A r \in Recorded : \E k \in DOMAIN Merged : Merged[k] = EventOf(r)
        /\ \A k, l \in DOMAIN Merged : k < l => Merged[k].time =< Merged[l].time
        /\ \A r, s \in Recorded : Precedes(r, s) =>
              \E i, j \in DOMAIN Merged : i < j /\ Merged[i] = EventOf(r) /\ Merged[j] = EventOf(s)
    BY MergedEvents
  <2>4. \A r : EventOf(r).time = stamp[r] /\ EventOf(r).route = req[r].route /\ EventOf(r).status = out[r]
               /\ EventOf(r).error = ErrorOf(r)
    BY DEF EventOf, BuildEvent
  <2>5. ASSUME NEW r \in Recorded PROVE Told(EventOf(r)) <=> Told214(r)
    <3>1. EventOf(r).result = Only(ResponseOf(r).data_headers, ResultHeaders)
      BY DEF EventOf, BuildEvent
    <3>2. /\ "result_code" \in DOMAIN EventOf(r).result <=> "result_code" \in Keys(ResponseOf(r).data_headers)
          /\ "result_code" \in DOMAIN EventOf(r).result =>
                EventOf(r).result["result_code"] = ResponseOf(r).data_headers["result_code"]
      BY <3>1 DEF Only, ResultHeaders
    <3>3. out[r] # 200 => "result_code" \notin Keys(ResponseOf(r).data_headers)
      <4>1. out[r] # 200 => ResponseOf(r).data_headers = << >>
        BY DEF ResponseOf, NoResponse, Payload
      <4> QED
        BY <4>1 DEF Keys
    <3> QED
      BY <2>4, <3>2, <3>3 DEF Told, VersionCheck
  <2>6. ASSUME NEW r \in Recorded PROVE Served(EventOf(r)) <=> req[r].host = "resource" /\ out[r] = 200
    <3>1. req[r].host = "resource" <=> req[r].route \in ResourceRoutes
      BY <2>0, <2>1
    <3>2. req[r].host = "resource" => out[r] \in Outcomes(req[r].route)
      BY <2>0, <2>1 DEF BackSide
    <3> QED
      BY <2>4, <3>1, <3>2 DEF Served, Outcomes
  <2>7. ASSUME NEW r \in Recorded, req[r].route = VersionCheck PROVE req[r].host = "api"
    <3>1. req[r].host # "resource"
      BY <2>0, <2>1, <2>7 DEF VersionCheck, ResourceRoutes, Unresolved
    <3>2. BackSide(r)
      BY <2>0, <2>1
    <3>3. req[r].host \in Planes
      BY <3>2 DEF BackSide
    <3> QED
      BY <3>1, <3>3 DEF Planes
  <2>8. Report.servedAfter214 <=> \E r, s \in Recorded :
           Told214(r) /\ req[s].host = "resource" /\ out[s] = 200 /\ stamp[r] <= stamp[s]
    <3>1. Report.servedAfter214 <=> \E i, j \in DOMAIN Merged : i < j /\ Told(Merged[i]) /\ Served(Merged[j])
      BY <2>2, Conclusions
    <3>2. ASSUME NEW i \in DOMAIN Merged, NEW j \in DOMAIN Merged, i < j, Told(Merged[i]), Served(Merged[j])
          PROVE  \E r, s \in Recorded :
                     Told214(r) /\ req[s].host = "resource" /\ out[s] = 200 /\ stamp[r] <= stamp[s]
      <4>1. PICK r \in Recorded : Merged[i] = EventOf(r)
        BY <2>3
      <4>2. PICK s \in Recorded : Merged[j] = EventOf(s)
        BY <2>3
      <4>3. Told214(r) /\ req[s].host = "resource" /\ out[s] = 200
        BY <2>5, <2>6, <3>2, <4>1, <4>2
      <4>4. stamp[r] =< stamp[s]
        BY <2>3, <2>4, <3>2, <4>1, <4>2
      <4> HIDE DEF Told214
      <4> QED
        BY <4>3, <4>4
    <3>3. ASSUME NEW r \in Recorded, NEW s \in Recorded, Told214(r), req[s].host = "resource", out[s] = 200,
                 stamp[r] <= stamp[s]
          PROVE  Report.servedAfter214
      <4>1. Told(EventOf(r)) /\ Served(EventOf(s))
        BY <2>5, <2>6, <3>3
      <4>2. Precedes(r, s)
        BY <2>1, <2>7, <3>3 DEF Precedes, LogOrder
      <4> QED
        BY <2>3, <3>1, <4>1, <4>2
    <3>4. (\E i, j \in DOMAIN Merged : i < j /\ Told(Merged[i]) /\ Served(Merged[j])) =>
             \E r, s \in Recorded : Told214(r) /\ req[s].host = "resource" /\ out[s] = 200 /\ stamp[r] <= stamp[s]
      BY <3>2
    <3>5. (\E r, s \in Recorded : Told214(r) /\ req[s].host = "resource" /\ out[s] = 200 /\ stamp[r] <= stamp[s]) =>
             Report.servedAfter214
      BY <3>3
    <3> QED
      BY <3>1, <3>4, <3>5
  <2>9. ASSUME NEW r \in DOMAIN req, NEW s \in DOMAIN req, <<r, s>> \in after, lines[r] = << 200 >>,
               r \in Recorded, s \in Recorded, Told214(r), Final(s)
        PROVE  Report.finalAfter214
    <3>1. Precedes(r, s)
      <4>1. stamp[r] <= stamp[s]
        BY <2>0, <2>1, <2>9 DEF InTurn, BackSide
      <4>2. req[r].host = "api" /\ req[s].host = "api"
        BY <2>7, <2>9
      <4>3. PICK i \in DOMAIN log["api"] : log["api"][i] = r
        BY <2>0, <2>9, <4>2 DEF Recorded, LogOfPlane, Planes
      <4>4. PICK j \in DOMAIN log["api"] : log["api"][j] = s
        BY <2>0, <2>9, <4>2 DEF Recorded, LogOfPlane, Planes
      <4>5. i < j
        BY <2>0, <2>1, <2>9, <4>3, <4>4 DEF InTurn, Planes
      <4>6. LogOrder(r, s)
        BY <4>3, <4>4, <4>5 DEF LogOrder, Planes
      <4> QED
        BY <2>1, <2>9, <4>1, <4>6 DEF Precedes
    <3>2. PICK i \in DOMAIN Merged, j \in DOMAIN Merged :
             i < j /\ Merged[i] = EventOf(r) /\ Merged[j] = EventOf(s)
      BY <2>3, <2>9, <3>1
    <3>3. Told(Merged[i]) /\ Merged[j].route = "/load/check"
      BY <2>4, <2>5, <2>9, <3>2 DEF VersionCheck
    <3>4. Value(Merged[j].headers, "RES-VER") = Cfg.finalResVer
      <4>1. req[s].host # "resource"
        BY <2>0, <2>9 DEF VersionCheck, ResourceRoutes, Unresolved
      <4>2. Merged[j].headers = Only(req[s].headers, SafeHeaders)
        BY <3>2, <4>1 DEF EventOf, BuildEvent
      <4> QED
        BY <2>9, <4>2 DEF Only, SafeHeaders, Keys, Value
    <3> QED
      BY <2>2, <3>2, <3>3, <3>4, Conclusions
  <2>10. ASSUME NEW r \in Recorded PROVE Blocked(EventOf(r)) <=> out[r] = 501
    <3>1. req[r].host = "resource" => out[r] \in {200, 404}
      BY <2>0, <2>1 DEF BackSide, Outcomes
    <3>2. Blocked(EventOf(r)) <=> ErrorOf(r) = "contract_known_template_missing"
      BY <2>4 DEF Blocked
    <3>3. CASE out[r] = 200 \/ req[r].host = "resource"
      <4>1. ErrorOf(r) = ""
        BY <3>1, <3>3 DEF ErrorOf
      <4>2. out[r] # 501
        BY <3>1, <3>3
      <4> QED
        BY <3>2, <4>1, <4>2
    <3>4. CASE ~(out[r] = 200 \/ req[r].host = "resource") /\ out[r] = 501
      BY <3>2, <3>4 DEF ErrorOf
    <3>5. CASE ~(out[r] = 200 \/ req[r].host = "resource") /\ out[r] # 501
      <4>1. ErrorOf(r) = "refused"
        BY <3>5 DEF ErrorOf
      <4> QED
        BY <3>2, <3>5, <4>1
    <3> QED
      BY <3>3, <3>4, <3>5
  <2>11. Report.phase = Blocker <=> \E k \in DOMAIN Merged : Blocked(Merged[k])
    BY <2>2, Conclusions
  <2>12. ASSUME NEW r \in DOMAIN req, lines[r] = << 501 >>, out[r] = 501 PROVE Report.phase = Blocker
    <3>1. MuxSide(r) /\ BackSide(r)
      BY <2>0
    <3>2. back[r] \in {"body", "sent", "cut"}
      <4>1. \A x, y : <<x>> = <<y>> => x = y
        OBVIOUS
      <4>2. << 501 >> # << >>
        OBVIOUS
      <4>3. back[r] # "none"
        BY <2>12, <3>1 DEF BackSide, Ready
      <4> QED
        BY <2>12, <3>1, <4>1, <4>2, <4>3 DEF MuxSide
    <3>3. r \in Recorded
      BY <3>1, <3>2 DEF BackSide
    <3> QED
      BY <2>3, <2>10, <2>11, <2>12, <3>3
  <2>13. Report.phase = Blocker => \E r \in Recorded : out[r] = 501
    BY <2>3, <2>10, <2>11
  <2> HIDE DEF Told214, Final, Blocker
  <2> QED
    BY <2>8, <2>9, <2>12, <2>13
<1> QED
  BY <1>1, InductiveInvariant, PTL
=============================================================================
