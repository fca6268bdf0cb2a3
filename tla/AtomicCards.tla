---------------------------- MODULE AtomicCards ----------------------------
(***************************************************************************)
(* What the docstrings of server/domain/services.py and card_services.py   *)
(* promise: "Atomically toggle protection for a batch of owned cards" and  *)
(* "Atomically set favorite state for a batch of owned card instances".    *)
(* A request takes effect at one instant, on the cards as they are then,   *)
(* or not at all.                                                          *)
(***************************************************************************)
EXTENDS CardRequests

CONSTANTS
    Threads,    \* request threads
    RequestsOf, \* the requests each thread may be given
    None        \* no request

VARIABLES
    cards,      \* the player's cards
    phase,      \* "none", "pending" or "applied", per thread
    request     \* the request of each thread

vars == <<cards, phase, request>>

Init ==
    /\ cards \in [Cards -> Card]
    /\ phase = [t \in Threads |-> "none"]
    /\ request = [t \in Threads |-> None]

Accept(t) ==
    /\ phase[t] = "none"
    /\ phase' = [phase EXCEPT ![t] = "pending"]
    /\ \E req \in RequestsOf[t] : request' = [request EXCEPT ![t] = req]
    /\ UNCHANGED cards

Effect(req, rows) ==
    [c \in Cards |-> IF c \in CardsOf(req) THEN NewRow(req, c, rows[c]) ELSE rows[c]]

Apply(t) ==
    /\ phase[t] = "pending"
    /\ phase' = [phase EXCEPT ![t] = "applied"]
    /\ cards' = Effect(request[t], cards)
    /\ UNCHANGED request

\* Requests end: answered once applied, refused or lost while still pending.
\* (A request is over when its thread is free again.)
End(some) ==
    /\ some # {}
    /\ phase' = [t \in Threads |-> IF t \in some THEN "none" ELSE phase[t]]
    /\ request' = [t \in Threads |-> IF t \in some THEN None ELSE request[t]]
    /\ UNCHANGED cards

Next ==
    \/ \E t \in Threads : Accept(t) \/ Apply(t)
    \/ \E some \in SUBSET Threads : End(some)

Spec == Init /\ [][Next]_vars
=============================================================================
