---------------------------- MODULE CardRequests ----------------------------
(***************************************************************************)
(* The card commands a client may send and what each of them asks for:     *)
(* POST /member/protect_card toggles the protection of the listed cards,   *)
(* POST /favorite/edit sets their favorite flags to the listed values.     *)
(* Clients name cards by the serials of the identity store.                *)
(***************************************************************************)
EXTENDS Naturals, Sequences

CONSTANTS
    Cards,      \* the card instances the player owns
    CardOf      \* the identity store's card bindings: serial |-> card id

Card == [protected : BOOLEAN, favorite : BOOLEAN]

\* A request is [kind |-> "protect", serials |-> sequence] or
\* [kind |-> "favorite", serials |-> sequence, flags |-> sequence of BOOLEAN].
CardsOf(req) == {CardOf[req.serials[i]] : i \in DOMAIN req.serials}

HasDuplicates(req) ==
    \E i, j \in DOMAIN req.serials : i # j /\ req.serials[i] = req.serials[j]

AllBound(req) == \A i \in DOMAIN req.serials : req.serials[i] \in DOMAIN CardOf

\* Requests the controllers accept before they touch the domain database.
Resolvable(req) == ~HasDuplicates(req) /\ AllBound(req)

Flag(req, c) == \E i \in DOMAIN req.serials : CardOf[req.serials[i]] = c /\ req.flags[i]

\* The row of card c that the command writes when it has read "row".
NewRow(req, c, row) ==
    IF req.kind = "protect"
      THEN [row EXCEPT !.protected = ~@]
      ELSE [row EXCEPT !.favorite = Flag(req, c)]

\* Mutant: every owned card is written, not only the requested ones.
UpdatesOfAllCards(req, rows) == {c \in Cards : NewRow(req, c, rows[c]) # rows[c]}

\* The cards whose rows change: all requested ones for a toggle, those with the
\* other value for an explicit set.
Updates(req, rows) == {c \in CardsOf(req) : NewRow(req, c, rows[c]) # rows[c]}
=============================================================================
