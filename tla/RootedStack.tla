----------------------------- MODULE RootedStack -----------------------------
(***************************************************************************)
(* scripts/run-rooted-local-stack.py: one foreground process that starts   *)
(* the control API, the resource backend and the TLS mux one after the     *)
(* other, waits until each answers, watches them, and takes all of them    *)
(* down when one exits.  It may be interrupted or killed at any step and   *)
(* started again, while what an earlier run has left behind still listens. *)
(***************************************************************************)
EXTENDS Integers

CONSTANTS
    Polls,         \* attempts of a readiness loop (HEALTH_TIMEOUT / POLL_INTERVAL)
    MaxStarts,     \* bounds: how often the stack is started,
    MaxInterrupts, \* how often it is interrupted,
    MaxKills,      \* killed outright,
    MaxCrashes     \* and how often a child exits by itself

ASSUME PollsAssumption == Polls \in Nat \ {0}
ASSUME BoundsAssumption ==
    MaxStarts \in Nat /\ MaxInterrupts \in Nat /\ MaxKills \in Nat /\ MaxCrashes \in Nat

Services == {"api", "resource", "mux"}

\* The readiness checks in order, and the child that each polls; the last two go
\* through the mux, with the Host of a backend.
Checks == 1..4
ChildOf == <<"api", "resource", "mux", "mux">>
Behind  == <<"api", "resource", "api", "resource">>

VARIABLES
    phase,     \* what the supervisor does next
    check,     \* the readiness check it is at
    polls,     \* attempts left in its loop
    children,  \* the list that terminate_children gets
    left,      \* the children that the current loop of terminate_children has not seen
    proc,      \* this run's process for each service
    port,      \* who listens on the service's port: this run's child or an orphan
    orphaned,  \* history: the ports an orphan held when this run began
    ending,    \* history: "abandoned" once terminate_children cannot reach every child
    budget     \* what is left of the bounds

supervisor == <<phase, check, polls, children, left>>
history    == <<orphaned, ending>>
vars       == <<supervisor, proc, port, history, budget>>

Trying   == {"start", "append", "poll", "ask", "ready"}
Cleaning == {"terminate", "wait", "reap"}
Alive    == {"booting", "up", "stopping"}

Init ==
    /\ phase = "preflight"
    /\ check = 1
    /\ polls = 0
    /\ children = {}
    /\ left = {}
    /\ proc = [s \in Services |-> "none"]
    /\ port = [s \in Services |-> "free"]
    /\ orphaned = {}
    /\ ending = "complete"
    /\ budget = [starts |-> MaxStarts, interrupts |-> MaxInterrupts, kills |-> MaxKills,
                 crashes |-> MaxCrashes]

-----------------------------------------------------------------------------
(* The processes *)

\* The port of a process that ends is free again.
Freed(s) == IF port[s] = "own" THEN [port EXCEPT ![s] = "free"] ELSE port

\* A child binds its port, or finds it taken and exits.
Boot(s) ==
    /\ proc[s] = "booting"
    /\ IF port[s] = "free"
         THEN proc' = [proc EXCEPT ![s] = "up"] /\ port' = [port EXCEPT ![s] = "own"]
         ELSE proc' = [proc EXCEPT ![s] = "dead"] /\ port' = port
    /\ UNCHANGED <<supervisor, history, budget>>

\* A child exits by itself.
Crash(s) ==
    /\ proc[s] \in Alive
    /\ budget.crashes > 0
    /\ budget' = [budget EXCEPT !.crashes = @ - 1]
    /\ proc' = [proc EXCEPT ![s] = "dead"]
    /\ port' = Freed(s)
    /\ UNCHANGED <<supervisor, history>>

\* Told to stop, a child that serves may finish something first.
ToldToStop(p) == IF p = "booting" THEN "dead" ELSE IF p = "up" THEN "stopping" ELSE p

\* A child that was told to stop does; it may also take its time.
Die(s) ==
    /\ proc[s] = "stopping"
    /\ proc' = [proc EXCEPT ![s] = "dead"]
    /\ port' = Freed(s)
    /\ UNCHANGED <<supervisor, history, budget>>

\* Somebody ends an orphan.
OrphanEnds(s) ==
    /\ port[s] = "orphan"
    /\ port' = [port EXCEPT ![s] = "free"]
    /\ UNCHANGED <<supervisor, proc, history, budget>>

-----------------------------------------------------------------------------
(* main *)

PreflightPasses ==
    /\ phase = "preflight"
    /\ phase' = "start"
    /\ UNCHANGED <<check, polls, children, left, proc, port, history, budget>>

PreflightFails ==
    /\ phase = "preflight"
    /\ phase' = "exited"
    /\ UNCHANGED <<check, polls, children, left, proc, port, history, budget>>

\* Mutant: the child is put on the list once it is healthy.
StartUnlisted ==
    /\ phase = "start"
    /\ phase' = "poll"
    /\ polls' = Polls
    /\ proc' = [proc EXCEPT ![ChildOf[check]] = "booting"]
    /\ UNCHANGED <<check, children, left, port, history, budget>>

\* start_child: Popen returns the process.
Start ==
    /\ phase = "start"
    /\ phase' = "append"
    /\ proc' = [proc EXCEPT ![ChildOf[check]] = "booting"]
    /\ UNCHANGED <<check, polls, children, left, port, history, budget>>

\* children.append, and the deadline of the readiness loop.
Append ==
    /\ phase = "append"
    /\ phase' = "poll"
    /\ children' = children \cup {ChildOf[check]}
    /\ polls' = Polls
    /\ UNCHANGED <<check, left, proc, port, history, budget>>

\* The handlers of RuntimeError and OSError end in the finally clause.
CleanUp == phase' = "terminate" /\ left' = children

StartFails ==
    /\ phase = "start"
    /\ CleanUp
    /\ UNCHANGED <<check, polls, children, proc, port, history, budget>>

\* Mutant: one attempt after the deadline.
PollLate ==
    /\ phase = "poll"
    /\ IF polls < 0 \/ proc[ChildOf[check]] = "dead"
         THEN CleanUp
         ELSE phase' = "ask" /\ left' = left
    /\ UNCHANGED <<check, polls, children, proc, port, history, budget>>

\* One turn of the loop: past the deadline, or the child has exited, or it is asked.
Poll ==
    /\ phase = "poll"
    /\ IF polls = 0 \/ proc[ChildOf[check]] = "dead"
         THEN CleanUp
         ELSE phase' = "ask" /\ left' = left
    /\ UNCHANGED <<check, polls, children, proc, port, history, budget>>

\* Mutant: the two routes are asked at the backends, not through the mux.
AnsweredBehindMux ==
    /\ phase = "ask"
    /\ port[Behind[check]] # "free"
    /\ check' = IF check < 4 THEN check + 1 ELSE check
    /\ phase' = CASE check < 3 -> "start"
                  [] check = 3 -> "poll"
                  [] check = 4 -> "ready"
    /\ polls' = Polls
    /\ UNCHANGED <<children, left, proc, port, history, budget>>

\* /healthz answers 200, whoever listens there: the next child is started, the next
\* route asked, or the stack is ready.
Answered ==
    /\ phase = "ask"
    /\ port[ChildOf[check]] # "free"
    /\ port[Behind[check]] # "free"
    /\ check' = IF check < 4 THEN check + 1 ELSE check
    /\ phase' = CASE check < 3 -> "start"
                  [] check = 3 -> "poll"
                  [] check = 4 -> "ready"
    /\ polls' = Polls
    /\ UNCHANGED <<children, left, proc, port, history, budget>>

\* Mutant: the loop has no deadline.
UnansweredForever ==
    /\ phase = "ask"
    /\ phase' = "poll"
    /\ UNCHANGED <<check, polls, children, left, proc, port, history, budget>>

\* Nobody listens, the mux answers 502, or the answer takes more than 0.5 s.
Unanswered ==
    /\ phase = "ask"
    /\ phase' = "poll"
    /\ polls' = polls - 1
    /\ UNCHANGED <<check, children, left, proc, port, history, budget>>

\* Mutant: only the process that faces the client is watched.
MonitorMux ==
    /\ phase = "ready"
    /\ proc["mux"] = "dead"
    /\ CleanUp
    /\ UNCHANGED <<check, polls, children, proc, port, history, budget>>

\* The monitor finds a child that has exited.
Monitor ==
    /\ phase = "ready"
    /\ \E s \in children : proc[s] = "dead"
    /\ CleanUp
    /\ UNCHANGED <<check, polls, children, proc, port, history, budget>>

-----------------------------------------------------------------------------
(* terminate_children: three loops over the list, last child first *)

Last(set) == IF "mux" \in set THEN "mux" ELSE IF "resource" \in set THEN "resource" ELSE "api"

LoopEnds(to) ==
    /\ left = {}
    /\ phase' = to
    /\ left' = IF to = "exited" THEN {} ELSE children
    /\ UNCHANGED <<check, polls, children, proc, port, history, budget>>

\* process.terminate().
Terminate ==
    /\ phase = "terminate"
    /\ \/ LoopEnds("wait")
       \/ /\ left # {}
          /\ LET s == Last(left) IN
                /\ proc' = [proc EXCEPT ![s] = ToldToStop(@)]
                /\ left' = left \ {s}
          /\ UNCHANGED <<phase, check, polls, children, port, history, budget>>

\* Mutant: a child that does not stop in time is left alone.
WaitOnly ==
    /\ phase = "wait"
    /\ \/ LoopEnds("exited")
       \/ /\ left # {}
          /\ left' = left \ {Last(left)}
          /\ UNCHANGED <<phase, check, polls, children, proc, port, history, budget>>

\* wait until the common deadline; a child that is still running is killed.
Wait ==
    /\ phase = "wait"
    /\ \/ LoopEnds("reap")
       \/ /\ left # {}
          /\ LET s == Last(left) IN
                /\ proc' = [proc EXCEPT ![s] = "dead"]
                /\ port' = Freed(s)
                /\ left' = left \ {s}
          /\ UNCHANGED <<phase, check, polls, children, history, budget>>

Reap ==
    /\ phase = "reap"
    /\ \/ LoopEnds("exited")
       \/ /\ left # {}
          /\ proc[Last(left)] = "dead"
          /\ left' = left \ {Last(left)}
          /\ UNCHANGED <<phase, check, polls, children, proc, port, history, budget>>

-----------------------------------------------------------------------------
(* Signals *)

\* Ctrl+C reaches the children too, SIGINT to the supervisor does not.
ChildrenInterrupted(both) ==
    IF both THEN [s \in Services |-> ToldToStop(proc[s])] ELSE proc

\* KeyboardInterrupt: caught in the try block; in the finally clause, or before the
\* try block, it ends the supervisor.  The child that Popen has just returned is not
\* on the list yet.
Interrupt(both) ==
    /\ budget.interrupts > 0
    /\ phase # "exited"
    /\ budget' = [budget EXCEPT !.interrupts = @ - 1]
    /\ proc' = ChildrenInterrupted(both)
    /\ IF phase \in Trying
         THEN CleanUp
         ELSE phase' = "exited" /\ left' = {}
    /\ ending' = IF phase \in {"append"} \cup Cleaning THEN "abandoned" ELSE ending
    /\ UNCHANGED <<check, polls, children, port, orphaned>>

\* SIGKILL, SIGTERM or a closed terminal: no clause of the supervisor runs.
Kill ==
    /\ budget.kills > 0
    /\ phase # "exited"
    /\ budget' = [budget EXCEPT !.kills = @ - 1]
    /\ phase' = "exited"
    /\ left' = {}
    /\ ending' = "abandoned"
    /\ UNCHANGED <<check, polls, children, proc, port, orphaned>>

\* The stack is started again; what still runs is an orphan from now on.
Restart ==
    /\ phase = "exited"
    /\ budget.starts > 0
    /\ budget' = [budget EXCEPT !.starts = @ - 1]
    /\ phase' = "preflight"
    /\ check' = 1
    /\ polls' = 0
    /\ children' = {}
    /\ left' = {}
    /\ port' = [s \in Services |-> IF proc[s] \in Alive THEN "orphan" ELSE port[s]]
    /\ proc' = [s \in Services |-> "none"]
    /\ orphaned' = {s \in Services : port'[s] = "orphan"}
    /\ ending' = "complete"

-----------------------------------------------------------------------------
Supervise ==
    \/ PreflightPasses \/ PreflightFails
    \/ Start \/ StartFails \/ Append
    \/ Poll \/ Answered \/ Unanswered
    \/ Monitor
    \/ Terminate \/ Wait \/ Reap

Next ==
    \/ Supervise
    \/ \E s \in Services : Boot(s) \/ Crash(s) \/ Die(s) \/ OrphanEnds(s)
    \/ \E both \in BOOLEAN : Interrupt(both)
    \/ Kill
    \/ Restart

Spec == Init /\ [][Next]_vars

\* The supervisor and a process that is starting run; wait() has a deadline.
FairSpec == /\ Spec
            /\ WF_vars(Supervise)
            /\ \A s \in Services : WF_vars(Boot(s))

-----------------------------------------------------------------------------
(* Properties *)

\* Types, and a port is held by this run's child exactly while that child is up.
TypeOK ==
    /\ phase \in {"preflight", "exited"} \cup Trying \cup Cleaning
    /\ check \in Checks
    /\ polls \in 0..Polls /\ (phase = "ask" => polls > 0)
    /\ left \subseteq children /\ children \subseteq Services
    /\ proc \in [Services -> {"none", "dead"} \cup Alive]
    /\ port \in [Services -> {"free", "own", "orphan"}]
    /\ orphaned \subseteq Services
    /\ ending \in {"complete", "abandoned"}
    /\ budget \in [starts : 0..MaxStarts, interrupts : 0..MaxInterrupts, kills : 0..MaxKills,
                   crashes : 0..MaxCrashes]
    /\ \A s \in Services : port[s] = "own" <=> proc[s] \in {"up", "stopping"}

\* A supervisor that was not killed, and not interrupted in its clean-up or between
\* Popen and append, leaves no process behind, at whatever step it failed.
NoChildLeftBehind ==
    phase = "exited" /\ ending = "complete" => \A s \in Services : proc[s] \notin Alive

\* Readiness never rests on a process of this run that has not come up yet, unless an
\* orphan of an earlier run listened in its place when the run began.
ReadyMeansUp ==
    phase = "ready" => \A s \in Services : proc[s] \in {"none", "booting"} => s \in orphaned

\* The inductive invariant behind these: nothing is started twice; what runs is on the
\* list, or is the process that Popen has just returned; what a loop of
\* terminate_children has seen is dead; and a check is passed by a child that has come
\* up, or by an orphan.
NotStarted ==
    /\ \A k \in 1..3 :
          k > check \/ (k = check /\ phase \in {"preflight", "start"}) => proc[ChildOf[k]] = "none"
    /\ \A s \in children : proc[s] # "none"
    /\ phase = "append" => proc[ChildOf[check]] # "none"
Listed == \A s \in Services :
    proc[s] \in Alive =>
        s \in children \/ (phase = "append" /\ s = ChildOf[check]) \/ ending = "abandoned"
Stopped == /\ phase = "preflight" => check = 1 /\ \A s \in Services : proc[s] = "none"
           /\ phase = "wait" => \A s \in children \ left : proc[s] \notin Alive
           /\ phase = "reap" => \A s \in children : proc[s] \notin Alive
Passed == {ChildOf[k] : k \in 1..(check - 1)}
ChecksPassed ==
    /\ \A s \in Services : port[s] = "orphan" => s \in orphaned
    /\ phase \in {"start", "append"} => check < 4
    /\ phase = "ready" => check = 4
    /\ phase \in Trying =>
          \A s \in Passed : proc[s] \notin {"none", "booting"} \/ s \in orphaned

IInv == TypeOK /\ NotStarted /\ Listed /\ Stopped /\ ChecksPassed /\ NoChildLeftBehind

\* Every start ends, or reaches readiness.
StartsEnd == phase = "preflight" ~> phase \in {"ready", "exited"}

\* "Any unexpected child exit tears down the full local stack."
ExitTearsDown ==
    phase \in Trying /\ (\E s \in children : proc[s] = "dead")
        ~> phase = "exited" /\ (ending = "abandoned" \/ \A s \in Services : proc[s] \notin Alive)

\* A stack that came to be ready on the answers of orphans does not last: it is served
\* by its own children in the end, or it is taken down.
OrphansAreFoundOut ==
    phase = "ready" ~> phase = "exited" \/ \A s \in Services : port[s] = "own"
=============================================================================
