------------------------------- MODULE Gateway -------------------------------
(***************************************************************************)
(* One HTTPS request of the client through the whole stack: the acceptor   *)
(* thread of the TLS host mux, the mux's handler thread, the thread of the *)
(* backend (control or resource server), the event log, and back.  Clients *)
(* leave, the backend dies, the log cannot be written, the mux's timeout   *)
(* of 60 seconds strikes, all at any step.  Nothing is ever sent twice.    *)
(***************************************************************************)
EXTENDS Front, RuntimeEvents

CONSTANTS
    Requests,     \* one connection each
    Scenarios,    \* what they send, which one waits for the end of another, what may fail
    Cfg           \* the configuration of the control server

ASSUME ConfigAssumption == ConfigOK(Cfg)
ASSUME RequestsAssumption == IsFiniteSet(Requests)
\* A path starts with a slash, the labels of the resource plane's events do not.
ASSUME ScenariosAssumption == \A s \in Scenarios :
    /\ s = [req |-> s.req, after |-> s.after, fails |-> s.fails]
    /\ DOMAIN s.req \subseteq Requests
    /\ \A r \in DOMAIN s.req : s.req[r].host = "resource" <=> s.req[r].route \in ResourceRoutes

VARIABLES
    req,          \* what each connection of the scenario sends
    after,        \* the pairs <<r, s>> of it where s is sent once r has ended
    fails,        \* which of "client", "backend", "log", "timeout" may fail in it
    acceptor,     \* the connection in its TLS handshake, or None
    pc,           \* the mux's handler thread of each connection
    back,         \* the backend's handler thread of each connection
    out,          \* the status that thread is going to answer
    lines,        \* the status lines the client has received
    whole,        \* the client has received a complete reply
    client,       \* the client's end of the connection: "here" or "gone"
    done,         \* how many times the request's command has committed
    stamp,        \* the time of the event of the request, 0 before it is made
    log,          \* the event log of each plane: the requests in the order appended
    now,          \* the last time that was read from the host's clock, 0 at the start
    up,           \* the backends that run
    logOK         \* the event logs can be written

muxVars  == <<acceptor, pc, lines, whole>>
backVars == <<back, out, done, stamp, log, now>>
envVars  == <<client, up, logOK>>
scenario == <<req, after, fails>>
vars     == <<scenario, muxVars, backVars, envVars>>

Planes    == {"api", "resource"}
Working   == {"dispatch", "read", "run", "record", "append", "headers", "body"}
Statuses  == {200, 400, 404, 411, 413, 421, 501, 502, 503}
Refusals  == Statuses \ {200, 502}

Init == /\ \E s \in Scenarios : req = s.req /\ after = s.after /\ fails = s.fails
        /\ acceptor = None
        /\ pc     = [r \in Requests |-> "idle"]
        /\ back   = [r \in Requests |-> "none"]
        /\ out    = [r \in Requests |-> Ready]
        /\ lines  = [r \in Requests |-> << >>]
        /\ whole  = [r \in Requests |-> FALSE]
        /\ client = [r \in Requests |-> "here"]
        /\ done   = [r \in Requests |-> 0]
        /\ stamp  = [r \in Requests |-> 0]
        /\ log    = [p \in Planes |-> << >>]
        /\ now = 0 /\ up = Planes /\ logOK = TRUE

Goto(r, from, to) == pc[r] = from /\ pc' = [pc EXCEPT ![r] = to]
Step(r, from, to) == back[r] = from /\ back' = [back EXCEPT ![r] = to]

---------------------------------------------------------------------------
\* The acceptor.  The socket that serve_forever accepts from is a TLS socket:
\* a handshake runs inside accept, and no other connection is accepted meanwhile.

Connect(r) == /\ r \in DOMAIN req /\ \A q \in Requests : <<q, r>> \in after => pc[q] = "end"
              /\ Goto(r, "idle", "queued")
              /\ UNCHANGED <<scenario, acceptor, lines, whole, backVars, envVars>>

Accept(r) == /\ acceptor = None
             /\ acceptor' = r
             /\ Goto(r, "queued", "handshake")
             /\ UNCHANGED <<scenario, lines, whole, backVars, envVars>>

\* The handshake has no timeout: it takes as long as the client does.
\* Mutant: it is not given up either when the client has left.
HandshakeForever(r) == /\ client[r] = "here" /\ ~req[r].stalls
                       /\ Goto(r, "handshake", "request")
                       /\ acceptor' = None
                       /\ UNCHANGED <<scenario, lines, whole, backVars, envVars>>
Handshake(r) == /\ req[r].stalls => client[r] = "gone"
                /\ Goto(r, "handshake", IF client[r] = "here" THEN "request" ELSE "end")
                /\ acceptor' = None
                /\ UNCHANGED <<scenario, lines, whole, backVars, envVars>>

---------------------------------------------------------------------------
\* The mux's handler thread.

\* The checks of _proxy, in their order.
MuxVerdict(shape) ==
    CASE shape.host \notin Planes              -> 421
      [] shape.host \in Planes /\ shape.chunked -> 501
      [] shape.host \in Planes /\ ~shape.chunked /\ shape.length \in {"nan", "negative"} -> 400
      [] OTHER                                  -> Ready

\* A status line reaches a client that is still there.
Line(r, status) ==
    lines' = IF client[r] = "here" THEN [lines EXCEPT ![r] = Append(@, status)] ELSE lines

\* _send_error_without_path: a complete reply of the mux's own.
MuxAnswers(r, status) ==
    /\ Line(r, status)
    /\ whole' = [whole EXCEPT ![r] = client[r] = "here"]
    /\ pc' = [pc EXCEPT ![r] = "end"]

MuxRefuse(r) == /\ pc[r] = "request"
                /\ MuxVerdict(req[r]) # Ready
                /\ MuxAnswers(r, MuxVerdict(req[r]))
                /\ UNCHANGED <<scenario, acceptor, backVars, envVars>>

\* rfile.read returns when all of the body, or the end of the stream, is there.
MuxRead(r) == /\ MuxVerdict(req[r]) = Ready
              /\ req[r].cut => client[r] = "gone"
              /\ Goto(r, "request", "forward")
              /\ UNCHANGED <<scenario, acceptor, lines, whole, backVars, envVars>>

\* A POST without a length is sent on with Content-Length 0 by http.client.
ForwardedLength(shape) == IF shape.length = "missing" THEN "fits" ELSE shape.length
ForwardedBody(shape)   == IF shape.length = "missing" THEN EmptyBody ELSE shape.body

\* Nothing is sent twice.  Mutant: it is when the connection broke.
ForwardAgain(r) == /\ req[r].host \in up
                   /\ pc[r] = "forward" \/ (pc[r] = "status" /\ back[r] = "dead")
                   /\ pc' = [pc EXCEPT ![r] = "status"] /\ back' = [back EXCEPT ![r] = "dispatch"]
                   /\ UNCHANGED <<scenario, acceptor, lines, whole, out, done, stamp, log, now, envVars>>
Forward(r) == /\ req[r].host \in up
              /\ Goto(r, "forward", "status")
              /\ Step(r, "none", "dispatch")
              /\ UNCHANGED <<scenario, acceptor, lines, whole, out, done, stamp, log, now, envVars>>

NoBackend(r) == /\ pc[r] = "forward"
                /\ req[r].host \notin up
                /\ MuxAnswers(r, 502)
                /\ UNCHANGED <<scenario, acceptor, backVars, envVars>>

MuxStatus(r) == /\ back[r] \in {"body", "sent", "cut"}
                /\ Goto(r, "status", "copy")
                /\ Line(r, out[r])
                /\ UNCHANGED <<scenario, acceptor, whole, backVars, envVars>>

MuxCopy(r) == /\ back[r] = "sent"
              /\ Goto(r, "copy", "end")
              /\ whole' = [whole EXCEPT ![r] = client[r] = "here"]
              /\ UNCHANGED <<scenario, acceptor, lines, backVars, envVars>>

\* The backend's connection breaks before its status line has come: it died or
\* dropped the connection, or it answered 413 and closed while the mux was
\* still sending, which http.client reports as a broken pipe.
Broken(r) == back[r] = "dead" \/ (back[r] = "sent" /\ req[r].length = "huge")

MuxLosesBackend(r) == /\ pc[r] = "status" /\ Broken(r)
                      /\ MuxAnswers(r, 502)
                      /\ UNCHANGED <<scenario, acceptor, backVars, envVars>>

\* A reply that has begun is only cut off.  Mutant: it is followed by a 502.
MuxLosesBodyTwice(r) == /\ pc[r] = "copy" /\ back[r] = "cut"
                        /\ MuxAnswers(r, 502)
                        /\ UNCHANGED <<scenario, acceptor, backVars, envVars>>
MuxLosesBody(r) == /\ back[r] = "cut"
                   /\ Goto(r, "copy", "end")
                   /\ UNCHANGED <<scenario, acceptor, lines, whole, backVars, envVars>>

\* 60 seconds without a byte from the backend.
MuxTimeout(r) == /\ "timeout" \in fails \/ (req[r].cut /\ back[r] = "read")
                 /\ \/ pc[r] = "status" /\ back[r] \in Working \ {"body"} /\ MuxAnswers(r, 502)
                    \/ back[r] = "body" /\ Goto(r, "copy", "end") /\ UNCHANGED <<lines, whole>>
                 /\ UNCHANGED <<scenario, acceptor, backVars, envVars>>

---------------------------------------------------------------------------
\* The backend's handler thread.

Dispatch(r) ==
    LET verdict == Verdict(Cfg, req[r].route, ForwardedLength(req[r])) IN
    /\ req[r].host = "api"
    /\ out' = [out EXCEPT ![r] = verdict]
    /\ Step(r, "dispatch", IF verdict = Ready THEN "read" ELSE "record")
    /\ UNCHANGED <<scenario, muxVars, done, stamp, log, now, envVars>>

\* The resource server, see ResourceArchive, serves a file or knows none; a path
\* that it cannot even classify it does not resolve either.
Outcomes(route) == IF route = Unresolved THEN {404} ELSE {200, 404}
Resource(r) == /\ req[r].host = "resource"
               /\ \E status \in Outcomes(req[r].route) : out' = [out EXCEPT ![r] = status]
               /\ Step(r, "dispatch", "record")
               /\ UNCHANGED <<scenario, muxVars, done, stamp, log, now, envVars>>

\* A body that ends early is read when the mux has given up and closed.
ReadBody(r) == /\ req[r].cut => pc[r] = "end"
               /\ Step(r, "read", "run")
               /\ UNCHANGED <<scenario, muxVars, out, done, stamp, log, now, envVars>>

Decoded(r) == IF req[r].cut THEN Absent ELSE DecodeRequest(req[r].headers, ForwardedBody(req[r]))
IsCommand(r) == req[r].route \in Cfg.handlers
\* A command reads and writes the databases; so does /load/index, whose mapping is
\* projected anew for each reply.
UsesDatabase(r) == IsCommand(r) \/ req[r].route = LoadIndex

\* A handler that raises ValueError, KeyError or UnicodeError has not committed.
Reject(r) == /\ Decoded(r) = Absent \/ UsesDatabase(r)
             /\ out' = [out EXCEPT ![r] = 400]
             /\ Step(r, "run", "record")
             /\ UNCHANGED <<scenario, muxVars, done, stamp, log, now, envVars>>

\* Mutant: the reply is checked to be encodable only after the commit.
CommitThenReject(r) ==
    /\ Decoded(r) # Absent /\ IsCommand(r)
    /\ done' = [done EXCEPT ![r] = @ + 1]
    /\ \E status \in {200, 400} : out' = [out EXCEPT ![r] = status]
    /\ Step(r, "run", "record")
    /\ UNCHANGED <<scenario, muxVars, stamp, log, now, envVars>>
Commit(r) == /\ Decoded(r) # Absent /\ IsCommand(r)
             /\ done' = [done EXCEPT ![r] = @ + 1]
             /\ out'  = [out EXCEPT ![r] = 200]
             /\ Step(r, "run", "record")
             /\ UNCHANGED <<scenario, muxVars, stamp, log, now, envVars>>

\* Any other exception, such as a locked database, drops the connection.
Raise(r) == /\ Decoded(r) # Absent /\ UsesDatabase(r)
            /\ Step(r, "run", "dead")
            /\ UNCHANGED <<scenario, muxVars, out, done, stamp, log, now, envVars>>

Answer(r) == /\ Decoded(r) # Absent /\ ~IsCommand(r)
             /\ out' = [out EXCEPT ![r] = 200]
             /\ Step(r, "run", "record")
             /\ UNCHANGED <<scenario, muxVars, done, stamp, log, now, envVars>>

\* build_event takes the time before the log's lock is taken.  The clock may show
\* the time of the last event still; it is assumed never to step back.
Stamp(r) == /\ Step(r, "record", "append")
            /\ now' \in {now, now + 1} \ {0}
            /\ stamp' = [stamp EXCEPT ![r] = now']
            /\ UNCHANGED <<scenario, muxVars, out, done, log, envVars>>

\* The event is appended before the reply is sent; where it cannot be, the
\* exception drops the connection.  Mutant: the reply goes out all the same.
Logged(r) == log' = IF logOK THEN [log EXCEPT ![req[r].host] = Append(@, r)] ELSE log
RecordOrNot(r) == /\ Step(r, "append", "headers") /\ Logged(r)
                  /\ UNCHANGED <<scenario, muxVars, out, done, stamp, now, envVars>>
Record(r) == /\ Step(r, "append", IF logOK THEN "headers" ELSE "dead") /\ Logged(r)
             /\ UNCHANGED <<scenario, muxVars, out, done, stamp, now, envVars>>

\* _send_bytes: the headers are flushed, then the body is written.
SendHeaders(r) == Step(r, "headers", "body") /\ UNCHANGED <<scenario, muxVars, out, done, stamp, log, now, envVars>>
SendBody(r)    == Step(r, "body", "sent") /\ UNCHANGED <<scenario, muxVars, out, done, stamp, log, now, envVars>>

---------------------------------------------------------------------------
\* What fails around them.

\* A client that stalls, or has sent less than it announced, leaves in the end.
Stuck(r) == req[r].cut \/ req[r].stalls
Leave(r) == /\ "client" \in fails \/ Stuck(r)
            /\ client[r] = "here" /\ pc[r] # "end"
            /\ client' = [client EXCEPT ![r] = "gone"]
            /\ UNCHANGED <<scenario, muxVars, backVars, up, logOK>>

BackendDies(b) ==
    /\ "backend" \in fails /\ b \in up
    /\ up' = up \ {b}
    /\ back' = [r \in Requests |-> IF r \notin DOMAIN req THEN back[r]
                                   ELSE IF req[r].host # b THEN back[r]
                                   ELSE IF back[r] = "body" THEN "cut"
                                   ELSE IF back[r] \in Working THEN "dead" ELSE back[r]]
    /\ UNCHANGED <<scenario, muxVars, out, done, stamp, log, now, client, logOK>>

LogBreaks == /\ "log" \in fails /\ logOK
             /\ logOK' = FALSE
             /\ UNCHANGED <<scenario, muxVars, backVars, client, up>>

---------------------------------------------------------------------------
Mux(r) == \/ Accept(r) \/ Handshake(r) \/ MuxRefuse(r) \/ MuxRead(r) \/ Forward(r) \/ NoBackend(r)
          \/ MuxStatus(r) \/ MuxCopy(r) \/ MuxLosesBackend(r) \/ MuxLosesBody(r) \/ MuxTimeout(r)
Backend(r) == \/ Dispatch(r) \/ Resource(r) \/ ReadBody(r) \/ Reject(r) \/ Commit(r) \/ Raise(r)
              \/ Answer(r) \/ Stamp(r) \/ Record(r) \/ SendHeaders(r) \/ SendBody(r)
Ended == /\ \A r \in DOMAIN req : pc[r] = "end" /\ back[r] \in {"none", "sent", "dead", "cut"}
         /\ UNCHANGED vars

Next == \/ \E r \in DOMAIN req : Connect(r) \/ Mux(r) \/ Backend(r) \/ Leave(r)
        \/ \E b \in Planes : BackendDies(b)
        \/ LogBreaks
        \/ Ended
Spec == Init /\ [][Next]_vars

\* Threads are scheduled, a timeout strikes a read that nothing will end, and
\* a client that has stopped sending closes its connection in the end.
FairSpec == /\ Spec
            /\ \A r \in Requests :
                 /\ WF_vars(r \in DOMAIN req /\ Mux(r)) /\ WF_vars(r \in DOMAIN req /\ Backend(r))
                 /\ SF_vars(r \in DOMAIN req /\ Accept(r))
                 /\ WF_vars(r \in DOMAIN req /\ Stuck(r) /\ Leave(r))

---------------------------------------------------------------------------
\* What a log entry says of its request, and what the analysis of the two logs
\* reports.  Mutant: the logs are read one after the other.
ErrorOf(r) == CASE out[r] = 200 \/ req[r].host = "resource" -> ""
                [] out[r] = 501 -> "contract_known_template_missing"
                [] OTHER        -> "refused"
ResponseOf(r) == IF out[r] # 200 \/ req[r].host = "resource" \/ IsCommand(r) THEN NoResponse
                 ELSE Exchange(Cfg, req[r].route, req[r].headers)
EventOf(r) == BuildEvent(stamp[r], req[r].route, out[r],
                         IF req[r].host = "resource" THEN << >> ELSE req[r].headers,
                         IF out[r] = 200 THEN Decoded(r) ELSE Absent, ResponseOf(r), ErrorOf(r),
                         Cfg.contracts \cap {req[r].route})
Stream(p)  == [i \in DOMAIN log[p] |-> EventOf(log[p][i])]
Recorded   == {log["api"][i] : i \in DOMAIN log["api"]} \cup {log["resource"][i] : i \in DOMAIN log["resource"]}
ReportUnmerged == Analyze(Stream("api") \o Stream("resource"), Cfg.finalResVer)
Report == Analyze(Merge(<<Stream("api"), Stream("resource")>>), Cfg.finalResVer)

---------------------------------------------------------------------------
\* Each plane records its own requests, each once.
LogOfPlane(p) == \A i, j \in DOMAIN log[p] : /\ req[log[p][i]].host = p
                                             /\ log[p][i] = log[p][j] => i = j

\* Types; the clock has been read by no more requests than there are.
TypeOK ==
    /\ [req |-> req, after |-> after, fails |-> fails] \in Scenarios
    /\ acceptor \in Requests \cup {None}
    /\ pc \in [Requests -> {"idle", "queued", "handshake", "request", "forward", "status", "copy", "end"}]
    /\ back \in [Requests -> Working \cup {"none", "sent", "cut", "dead"}]
    /\ out \in [Requests -> Statuses \cup {Ready}]
    /\ lines \in [Requests -> Seq(Statuses)]
    /\ whole \in [Requests -> BOOLEAN] /\ client \in [Requests -> {"here", "gone"}]
    /\ done \in [Requests -> 0..1]
    /\ log \in [Planes -> Seq(DOMAIN req)]
    /\ \A p \in Planes : LogOfPlane(p)
    /\ stamp \in [Requests -> 0..now] /\ now \in 0..Cardinality(Requests)
    /\ up \subseteq Planes /\ logOK \in BOOLEAN

\* A client that is answered 200 can rely on it: its command has committed
\* exactly once, and the event of it was recorded, by the plane it was sent to
\* (application_http.do_POST commits, records and replies in this order).
SuccessIsDoneAndRecorded ==
    \A r \in DOMAIN req : lines[r] = <<200>> =>
        /\ r \in Recorded
        /\ done[r] = IF req[r].host = "api" /\ IsCommand(r) THEN 1 ELSE 0

\* A definite refusal is one: whatever fails or times out around it, a command
\* that is answered anything but 200 and 502 has not committed and never does.
\* Only a 502, or no answer at all, leaves the client in doubt.
RefusalsLeaveNoTrace ==
    \A r \in Requests : \A i \in 1..Len(lines[r]) : lines[r][i] \in Refusals => done[r] = 0

\* A client never gets a second status line, and a 200 that it takes for
\* complete is the whole of one (tls_mux._proxy, response_started).
OneAnswer == \A r \in Requests :
    /\ Len(lines[r]) <= 1
    /\ whole[r] /\ lines[r] = <<200>> => back[r] = "sent"

\* What analyze-runtime-events concludes from the two logs, at any moment, is
\* what has happened, although each is written by threads of its own: the plane
\* served a resource after the client was told to update exactly if it did, a
\* client that was told 214 and came back is seen to have come back, and a client
\* that met a route without a template, and no other, is reported as blocked there.
AnalysisIsTrue ==
    LET report == Report
        Told214(r) == /\ req[r].route = VersionCheck /\ out[r] = 200
                      /\ "result_code" \in Keys(ResponseOf(r).data_headers)
                      /\ ResponseOf(r).data_headers["result_code"] = 214
        Final(r)   == /\ req[r].route = VersionCheck /\ "RES-VER" \in Keys(req[r].headers)
                      /\ req[r].headers["RES-VER"] = Cfg.finalResVer
    IN  /\ report.servedAfter214 <=> \E r, s \in Recorded :
              Told214(r) /\ req[s].host = "resource" /\ out[s] = 200 /\ stamp[r] <= stamp[s]
        /\ \A r, s \in DOMAIN req : <<r, s>> \in after /\ lines[r] = <<200>>
              /\ r \in Recorded /\ s \in Recorded /\ Told214(r) /\ Final(s) => report.finalAfter214
        /\ (\E r \in DOMAIN req : lines[r] = <<501>> /\ out[r] = 501) =>
              report.phase = "semantic_contract_blocker_observed"
        /\ report.phase = "semantic_contract_blocker_observed" => \E r \in Recorded : out[r] = 501

\* Every connection is dealt with, also one that waits behind a client that
\* stalls in its handshake, or whose backend waits for a body that never comes.
RequestsEnd == \A r \in Requests : pc[r] = "queued" ~> pc[r] = "end"

---------------------------------------------------------------------------
(* The inductive invariant *)

\* What the client has received, by how far the mux has come: nothing before the
\* reply has begun, then its status line, or a 502 or a refusal of the mux's own.
MuxSide(r) ==
    /\ r \notin DOMAIN req => pc[r] = "idle"
    /\ pc[r] \in {"idle", "queued", "handshake", "request", "forward"} => back[r] = "none"
    /\ pc[r] \notin {"copy", "end"} => lines[r] = << >>
    /\ pc[r] # "end" => ~whole[r]
    /\ pc[r] = "copy" => back[r] \in {"body", "sent", "cut"} /\ lines[r] \in {<< >>, <<out[r]>>}
    /\ pc[r] = "end" =>
          \/ lines[r] \in {<< >>, <<502>>}
          \/ lines[r] = <<out[r]>> /\ back[r] \in {"body", "sent", "cut"} /\ (whole[r] => back[r] = "sent")
          \/ lines[r] \in {<<400>>, <<421>>, <<501>>} /\ back[r] = "none"

\* What the backend has done, by how far its thread has come.
Decided == {"record", "append", "headers", "body", "sent", "cut"}
BackSide(r) ==
    /\ back[r] # "none" => r \in DOMAIN req /\ req[r].host \in Planes
    /\ back[r] \in {"none", "dispatch", "read", "run"} => done[r] = 0
    /\ back[r] \in {"none", "dispatch", "read", "run"} => out[r] = Ready
    /\ back[r] \in {"none", "dispatch", "read", "run", "record"} => stamp[r] = 0
    /\ back[r] \in {"read", "run"} => req[r].host = "api"
    /\ back[r] \in Decided =>
          /\ out[r] \in Statuses \ {502}
          /\ req[r].host = "resource" => out[r] \in Outcomes(req[r].route)
          /\ done[r] = IF out[r] = 200 /\ req[r].host = "api" /\ IsCommand(r) THEN 1 ELSE 0
    /\ back[r] \in {"headers", "body", "sent", "cut"} => r \in Recorded
    /\ r \in Recorded => stamp[r] # 0 /\ out[r] # Ready /\ back[r] \in {"headers", "body", "sent", "cut", "dead"}
    /\ r \in Recorded /\ req[r].host = "resource" => out[r] \in Outcomes(req[r].route)
    /\ back[r] = "append" => stamp[r] # 0

\* The events that have read the clock.
Stamped == {r \in Requests : stamp[r] # 0}

\* A request that waits for the end of another has no earlier event than it, and
\* a later line where both are in one log.
InTurn(r, s) == <<r, s>> \in after =>
    /\ pc[s] # "idle" => pc[r] = "end"
    /\ stamp[s] # 0 /\ lines[r] = <<200>> => stamp[r] <= stamp[s]
    /\ lines[r] = <<200>> =>
          \A p \in Planes : \A i, j \in DOMAIN log[p] : log[p][i] = r /\ log[p][j] = s => i < j

IInv ==
    /\ TypeOK
    /\ now <= Cardinality(Stamped)
    /\ \A r \in Requests : MuxSide(r) /\ BackSide(r)
    /\ \A r, s \in Requests : InTurn(r, s)
=============================================================================
