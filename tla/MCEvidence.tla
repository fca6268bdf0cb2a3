----------------------------- MODULE MCEvidence ------------------------------
(***************************************************************************)
(* An instance of Evidence for TLC, and the checks of the operators of     *)
(* Contracts and Backlog over bounded inputs.                              *)
(***************************************************************************)
EXTENDS Evidence, Backlog, StaticChecks, ScanChecks, ClientChecks

CONSTANTS l1, l2

Row(id, route)        == [id |-> id, route |-> route, label |-> "x"]
Field(id, name, req)  == [endpoint |-> id, task |-> "T", method |-> "M", field |-> name, req |-> req, types |-> {}]
Mutation(route)       == [state |-> "S", candidates |-> <<[route |-> route, label |-> "x"]>>]
Inherits(id, route, task, method) ==
    [endpoint |-> Row(id, route), task |-> task, method |-> method, rva |-> 16, fields |-> << >>, provenance |-> "chain"]
Envelope(id, route)   == Inherits(id, route, "Stage.BaseTask", "Stage.BaseTask$$Parse")
ParsesList(id, route) == Inherits(id, route, "Stage.BaseTask", "Stage.BaseTask$$ParseList")
Calls(relation, caller) ==
    relation @@ [edge |-> "BL", callerParses |-> TRUE, caller |-> caller, sites |-> {caller}]

\* One analysis input; /b, or whatever has the id 2, has an optional field.
Inputs(rows, fields, c7a, c12) ==
    [rows |-> rows, fields |-> fields \o <<Field(2, "f", "optional-defaulted")>>, requests |-> <<1>>, c7a |-> c7a,
     c7b |-> {<<"S", "reader">>}, c8 |-> <<[state |-> "S", reader |-> "reader", consumer |-> "c", subsystem |-> "ui"]>>,
     taxonomy |-> {"ui"}, relationCount |-> 1, consumerCount |-> 1, expected |-> Len(rows),
     mutationCount |-> Len(c7a), readerCount |-> 1, bridgeCount |-> Len(c7a),
     c11 |-> << >>, c12 |-> c12, residuals |-> 0]
Rows3 == <<Row(1, "/a"), Row(2, "/b"), Row(3, Title)>>

\* A mutation of an endpoint that is not found; other ids, where each route but /c has
\* a reason not to be answered {} (a mutation, a base parser beyond the envelope that
\* it calls twice and also inherits, two endpoints, a field that must be there); a
\* consumer of an unknown reader.
Versions0 == <<
    Inputs(Rows3, << >>, <<[Mutation("/a") EXCEPT !.candidates[1].label = "y"]>>, <<Envelope(1, "/a")>>),
    [Inputs(<<Row(2, "/a"), Row(1, "/b"), Row(3, "/c"), Row(4, "/d"), Row(5, "/d"), Row(6, "/e")>>,
            <<Field(6, "g", "required-path")>>, <<Mutation("/a")>>,
            <<Envelope(2, "/a"), ParsesList(1, "/b")>>)
       EXCEPT !.c11 = <<Calls(ParsesList(1, "/b"), "x"), Calls(ParsesList(1, "/b"), "y")>>],
    [Inputs(Rows3, << >>, << >>, << >>) EXCEPT !.c7b = {}]>>
Symmetry == Permutations(Launchers)

Report0 == [schema |-> 1, route |-> "/b", id |-> 2, class |-> "dead-value", safe |-> TRUE,
            promotion |-> "parser-local-safe-if-field-present", sinks |-> {}, unresolved |-> {}, returns |-> 1,
            tails |-> 0, accepted |-> FALSE, visible |-> FALSE, task |-> "T", method |-> "M"]
Document0(route, id) ==
    [schema |-> 1, entries |-> <<[route |-> route, keys |-> EntryKeys, id |-> id, data |-> "d"]>>]
Options0 == {[reports |-> {}, explicit |-> {}], [reports |-> {Report0}, explicit |-> {Document0("/a", 1)}],
             [reports |-> {}, explicit |-> {Document0(Title, 3)}]}

---------------------------------------------------------------------------
\* The rows of a catalog with one or two endpoints.
Parser(scope, req)   == [rva |-> 16, scope |-> scope, fields |-> <<Field(1, "b", req)>>]
Endpoints0 == [id : {1}, mutations : {0, 1, 3},
               concrete : {<< >>, <<Field(1, "f", "optional-defaulted")>>, <<Field(1, "servertime", "required-path")>>,
                           <<Field(1, "f", "unknown-cfg"), Field(1, "data", "required-path")>>},
               parsers : {<< >>, <<Parser("common-envelope", "required-path")>>,
                          <<Parser("common-envelope", "unknown-cfg"), Parser("base-parser-surface", "optional-defaulted")>>}]
CatalogRows == {[route |-> r, endpoints |-> <<e>>] : r \in {"/a", Title}, e \in Endpoints0}
               \cup {[route |-> "/a", endpoints |-> <<e, [e EXCEPT !.id = 2]>>] : e \in Endpoints0}
CatalogOf(row) == [routes |-> <<row>>, counts |-> << >>]

\* Generator, loader and backlog decide by themselves which routes get an empty
\* object, and agree; no route is in two layers.
ASSUME EligibilityAgrees == \A row \in CatalogRows :
    /\ Generate(CatalogOf(row)) = C15(CatalogOf(row))
    /\ (Tier(row) = "c15-empty-baseline") <=> (row.route \in Keys(C15(CatalogOf(row))))
    /\ Keys(C15(CatalogOf(row))) \cap Keys(C18(CatalogOf(row))) = {}

\* No tier but the first two and the last promises a route with unknown fields or
\* mutations less work than there is.
ASSUME TiersAreHonest == \A row \in CatalogRows :
    LET m == UnresolvedMetrics(row.endpoints[1]) IN
    /\ Tier(row) \in {"envelope-only", "shape-only-low", "shape-plus-base-low"} => m.unknown = 0 /\ m.mutations = 0
    /\ Tier(row) = "unknown-cfg" => m.unknown > 0
    /\ Tier(row) = "c15-empty-baseline" => m.mutations = 0 /\ m.concrete + m.base = 0

\* Merging keeps every route, and takes what both have from the override.
Stores0 == {<< >>, "/a" :> Template(1, "x"), "/a" :> Template(1, "y") @@ "/b" :> Template(2, "y"), "/a" :> Template(2, "z")}
ASSUME MergeOverrides == \A s, t \in Stores0 : Mergeable(s, t) =>
    /\ \A r \in Keys(t) : Merged(s, t)[r] = t[r]
    /\ \A r \in Keys(s) : Merged(s, t)[r].id = s[r].id

\* Shape evidence proves no empty value and accepts nothing, and the stronger
\* report decides.
Classes(names) == {<< >>} \cup {<<[route |-> "/a", class |-> c, empty |-> e]>> : c \in names, e \in {"no", "object-zero-path"}}
C17Row == [route |-> "/a", ids |-> {1}, dataOnly |-> TRUE, shape |-> "opaque:json"]
ASSUME ShapesAreOrdered ==
    \A c21 \in Classes(C24Verdicts), c19c \in Classes({"string-key-object", "mixed"}), c24 \in Classes(C24Verdicts) :
        LET c22 == LowComplexity(<<C17Row>>, << >>, c19c, << >>, c21)
            c25 == OverlayShapes(c22, c24)
        IN  OverlayAccepts(c22, c24, 1) =>
                /\ EvidenceAccepts(c25, "C25", {}) /\ Proven(c25) = {}
                /\ c25["/a"].source = "C24" => c25["/a"].shape \in {"proven-object", "proven-array"}
                /\ c24 # << >> /\ c24[1].class \notin C24Proofs => c25["/a"].shape = c22["/a"].shape

\* The blocker of a run is told to need a model unless one endpoint is meant and
\* its empty value is proven.
ASSUME BlockersAreHonest == \A row \in CatalogRows, e \in {"not-proven", "empty-object-zero-path"} :
    LET blocker == [route |-> row.route, ids |-> [i \in DOMAIN row.endpoints |-> row.endpoints[i].id]]
        low     == "/a" :> [ids |-> {1}, empty |-> e]
    IN  EnrichAccepts(blocker, CatalogOf(row), low)
          /\ Enrich(blocker, CatalogOf(row), low).action = "validate_empty_value_before_template"
        => Len(row.endpoints) = 1 /\ e # "not-proven"
=============================================================================
