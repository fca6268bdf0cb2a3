----------------------------- MODULE MCUnitEdit -----------------------------
(* UnitEdit on small instances: which edits which editor may be given. *)
EXTENDS UnitEdit, TLC

CONSTANTS e1, e2, teamA, teamB, teamBad, dressA, dressB, dressBad

Look(x) == CASE x = "A"   -> [team |-> teamA, dress |-> dressA]
             [] x = "B"   -> [team |-> teamB, dress |-> dressB]
             [] x = "bad" -> [team |-> teamBad, dress |-> dressBad]

Edit(some, x, m, fault) == [edit |-> [u \in some |-> Look(x)], main |-> m, fault |-> fault]

Whole(x) == Edit({1, 2}, x, 1, "none")

\* One editor: batches, single units, an edit that keeps the members and changes
\* the costumes, no main unit, refused edits.
OneEditor == e1 :> {Whole("A"), Whole("B"), Edit({1}, "A", 2, "none"), Edit({2}, "B", None, "none"),
                    [edit |-> [u \in {1} |-> [team |-> teamA, dress |-> dressB]], main |-> 1, fault |-> "none"],
                    Edit({1, 2}, "bad", 1, "id"), Edit({1, 2}, "bad", 1, "card")}

\* Two editors that always edit all units.
Batches == e1 :> {Whole("A"), Whole("B")} @@ e2 :> {Whole("A"), Whole("B")}
=============================================================================
