-------------------------- MODULE MCCardCommands --------------------------
(* CardCommands on small instances: which requests which thread may get. *)
EXTENDS CardCommands, TLC

CONSTANTS c1, c2, c3, t1, t2, sold

\* Serial 9 is bound to a card that is no longer owned; 7 is not bound at all.
MCCardOf == (1 :> c1) @@ (2 :> c2) @@ (3 :> c3) @@ (9 :> sold)

Protect(serials) == [kind |-> "protect", serials |-> serials]
Favorite(serials, flags) == [kind |-> "favorite", serials |-> serials, flags |-> flags]

\* Every shape of request on cards a and b: empty, single, batch, duplicate,
\* unbound serial, unowned card.
AnyOn(a, b) ==
    {Protect(q) : q \in {<<>>, <<b, a>>, <<a, a>>, <<a, 7>>, <<9>>}}
      \cup {Favorite(<<a>>, <<TRUE>>), Favorite(<<a, b>>, <<FALSE, TRUE>>),
            Favorite(<<b, b>>, <<TRUE, TRUE>>), Favorite(<<9, a>>, <<TRUE, TRUE>>)}

\* Two threads whose requests never share a card.
Separate == (t1 :> AnyOn(1, 2)) @@ (t2 :> {Protect(<<3>>), Favorite(<<3>>, <<TRUE>>)})

\* Two threads on one card.
Single == {Protect(<<1>>), Favorite(<<1>>, <<TRUE>>), Favorite(<<1>>, <<FALSE>>)}
SameCard == (t1 :> Single) @@ (t2 :> Single)

AnyRows == [Cards -> Card]

\* Any row of the first card, the other two as different as can be.
OtherRows == c2 :> [protected |-> TRUE, favorite |-> FALSE] @@ c3 :> [protected |-> FALSE, favorite |-> TRUE]
SomeRows  == {c1 :> row @@ OtherRows : row \in Card}
=============================================================================
