------------------------ MODULE IdentityAllocator ------------------------
(***************************************************************************)
(* What the compatibility identity store promises to the rest of the       *)
(* server (server/adapters/identity_store.py, "Stable mappings"): within a *)
(* scope (one player's rows of one identity table) a domain id is given a  *)
(* positive number once, no two ids share one, and a number that has been  *)
(* handed out keeps its meaning for good.                                  *)
(***************************************************************************)
EXTENDS Naturals

CONSTANTS
    Scopes,     \* (table, player) pairs: the card table and the unit table of each player
    DomainIds,  \* opaque semantic ids such as "card:1" or "unit:starter"
    MaxNumber   \* bound on the client-facing numbers

VARIABLES
    bindings,   \* the durable rows
    issued      \* the rows a caller has been told about

vars == <<bindings, issued>>

Rows == [scope : Scopes, domain : DomainIds, number : 1..MaxNumber]

\* A row may be answered when it is already stored, or when neither its id nor
\* its number is taken in its scope.
Compatible(row) ==
    \A other \in bindings :
        other.scope = row.scope =>
            (other.domain = row.domain <=> other.number = row.number)

Init ==
    /\ bindings = {}
    /\ issued = {}

\* One call of ensure_card_serial or ensure_unit_id, as its caller sees it.
Ensure(row) ==
    /\ Compatible(row)
    /\ bindings' = bindings \cup {row}
    /\ issued' = issued \cup {row}

Next == \E row \in Rows : Ensure(row)

Spec == Init /\ [][Next]_vars
===========================================================================
