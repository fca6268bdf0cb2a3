------------------------------- MODULE Backlog -------------------------------
(***************************************************************************)
(* What remains to be modelled behind each route: the evidence about       *)
(* responses with few fields (C22, C25) and its reader, the backlog of     *)
(* routes by tier (C16), and the report that tells of the route a client   *)
(* run stopped at what is known about it.                                  *)
(***************************************************************************)
EXTENDS Contracts

\* A report of one row per route: refused when a route is given twice.
ByRoute(rows) == [r \in {row.route : row \in All(rows)} |-> CHOOSE row \in All(rows) : row.route = r]
RowsOK(rows)  == Unique(rows, LAMBDA row : row.route)

Known22 == {"proven-object", "proven-array", "countable-collection-ambiguous"}
ShapeAction(shape) == IF shape \in Known22 THEN "observe-or-prove-empty-value" ELSE "reconstruct-value"

---------------------------------------------------------------------------
\* C22: the shape of a response's data, by the strongest evidence.  In a report,
\* a row has the class that report gives its route, and at most one endpoint id: C21 reads helpers, C19c the
\* use of the container, C17 the parser itself.
C21Shapes == "helper-proven-object" :> "proven-object" @@ "helper-proven-array" :> "proven-array"
               @@ "helper-countable-ambiguous" :> "countable-collection-ambiguous"
C19Shapes == "string-key-object" :> "proven-object" @@ "integer-index-sequence" :> "proven-array"
               @@ "count-only-no-index" :> "countable-collection-ambiguous"

\* Only a route of the class data-only:<shape> has a shape of its own.
BaseShape(row) == IF row.dataOnly THEN row.shape ELSE "multi-field"

EffectiveShape(route, c17, c19c, c21) ==
    CASE route \in Keys(c21) /\ c21[route].class \in Keys(C21Shapes)  -> <<C21Shapes[c21[route].class], "C21">>
      [] route \in Keys(c19c) /\ c19c[route].class \in Keys(C19Shapes)
           /\ ~(route \in Keys(c21) /\ c21[route].class \in Keys(C21Shapes)) -> <<C19Shapes[c19c[route].class], "C19c">>
      [] OTHER                                                        -> <<BaseShape(c17[route]), "C17">>

EmptyStatus(route, c19b, c19c) ==
    CASE route \in Keys(c19b) /\ c19b[route].empty = "object-zero-path" -> "empty-object-zero-path"
      [] route \in Keys(c19c) /\ c19c[route].empty = "object-zero-path" -> "empty-object-zero-path"
      [] route \in Keys(c19c) /\ c19c[route].empty = "sequence-zero-path"
           /\ ~(route \in Keys(c19b) /\ c19b[route].empty = "object-zero-path") -> "empty-array-zero-path"
      [] OTHER                                                          -> "not-proven"

\* expected is the number of C17 routes the build insists on.
LowComplexityAccepts(c17, c19b, c19c, c20, c21, expected) ==
    /\ \A report \in {c17, c19b, c19c, c20, c21} : RowsOK(report)
    /\ Cardinality(Keys(ByRoute(c17))) = expected
    /\ \A report \in {c19b, c19c, c20, c21} : Keys(ByRoute(report)) \subseteq Keys(ByRoute(c17))

LowComplexity(c17, c19b, c19c, c20, c21) ==
    [r \in Keys(ByRoute(c17)) |->
        LET shape == EffectiveShape(r, ByRoute(c17), ByRoute(c19c), ByRoute(c21))
            empty == EmptyStatus(r, ByRoute(c19b), ByRoute(c19c))
        IN  [ids      |-> ByRoute(c17)[r].ids,
             shape    |-> shape[1], source |-> shape[2], empty |-> empty,
             consumer |-> IF r \in Keys(ByRoute(c20)) THEN ByRoute(c20)[r].class ELSE "not-applicable",
             action   |-> IF empty = "not-proven" THEN ShapeAction(shape[1]) ELSE "reconstruct-value",
             accepted |-> FALSE]]

Proven(evidence) == {r \in Keys(evidence) : evidence[r].empty # "not-proven"}

---------------------------------------------------------------------------
\* C25: C22 with the shapes that C24 found in recursive helpers; it may prove
\* shapes, never empty values.
C24Proofs   == {"helper-proven-object", "helper-proven-array"}
C24Verdicts == C24Proofs \cup {"helper-unresolved", "helper-opaque-json", "helper-countable-ambiguous"}

OverlayAccepts(c22, c24, expected) ==
    /\ Cardinality(Keys(c22)) = expected
    /\ Proven(c22) = {} /\ \A r \in Keys(c22) : ~c22[r].accepted
    /\ RowsOK(c24) /\ Keys(ByRoute(c24)) \subseteq Keys(c22)
    /\ \A row \in All(c24) : row.class \in C24Verdicts

OverlayShapes(c22, c24) ==
    LET new == {row.route : row \in {s \in All(c24) : s.class \in C24Proofs}}
        Shape(r) == IF r \in new THEN C21Shapes[ByRoute(c24)[r].class] ELSE c22[r].shape
    IN  [r \in Keys(c22) |-> [c22[r] EXCEPT !.shape  = Shape(r),
                                            !.source = IF r \in new THEN "C24" ELSE @,
                                            !.action = ShapeAction(Shape(r))]]

\* low_complexity_evidence: what the reader of either generation insists on.
ShapeCounts(evidence) ==
    [s \in {evidence[r].shape : r \in Keys(evidence)} |-> Cardinality({r \in Keys(evidence) : evidence[r].shape = s})]
EvidenceAccepts(evidence, generation, final) ==
    /\ \A r \in Keys(evidence) : r # "/" /\ ~evidence[r].accepted /\ \A id \in evidence[r].ids : id > 0
    /\ final # {} => /\ generation \in {"C22", "C25"}
                     /\ \E f \in final : f[generation] = ShapeCounts(evidence)
                     /\ Proven(evidence) = {}

---------------------------------------------------------------------------
\* C16: one tier per route.
EnvelopeFields == {"data_headers", "result_code", "servertime", "sid"}
Business(e)    == RestrictValues(e.concrete, LAMBDA f : f.field \notin EnvelopeFields)
BaseSurface(e) == FoldLeft(LAMBDA all, p : all \o p.fields, << >>,
                           SelectSeq(e.parsers, LAMBDA p : p.scope # "common-envelope"))
CountOf(fields, req) == Cardinality({i \in DOMAIN fields : fields[i].req = req})

UnresolvedMetrics(e) ==
    [concrete  |-> Size(Business(e)),
     base      |-> Len(BaseSurface(e)),
     parsers   |-> Len(SelectSeq(e.parsers, LAMBDA p : p.scope # "common-envelope")),
     unknown   |-> CountOf(Business(e), "unknown-cfg") + CountOf(BaseSurface(e), "unknown-cfg"),
     baseUnknown |-> CountOf(BaseSurface(e), "unknown-cfg"),
     required  |-> CountOf(Business(e), "required-path") + CountOf(BaseSurface(e), "required-path"),
     mutations |-> e.mutations,
     hints     |-> UNION {f.types : f \in {g \in All(Business(e)) \cup All(BaseSurface(e)) : g.field = "data"}}]

IsC15(row) == LET e == row.endpoints[1] IN
    row.route \notin BootstrapRoutes /\ DOMAIN e.concrete = {} /\ e.mutations = 0 /\ OnlyEnvelope(e)

\* The chain of returns of _tier: the first tier whose test holds.
Tests(row) ==
    LET m == UnresolvedMetrics(row.endpoints[1])
        total == m.concrete + m.base
        quiet == m.unknown = 0 /\ m.mutations = 0
    IN  <<<<"bootstrap-owned",        row.route \in BootstrapRoutes>>,
          <<"c15-empty-baseline",     IsC15(row)>>,
          <<"envelope-only",          quiet /\ total = 0>>,
          <<"shape-only-low",         quiet /\ m.parsers = 0 /\ m.concrete <= 3>>,
          <<"shape-plus-base-low",    quiet /\ total <= 8>>,
          <<"state-light-no-unknown", m.unknown = 0 /\ m.mutations <= 2 /\ total <= 8>>,
          <<"unknown-cfg",            m.unknown > 0>>,
          <<"complex-state",          m.mutations > 2>>,
          <<"large-shape",            TRUE>>>>
Tier(row) == IF Ambiguous(row) THEN "ambiguous-route"
             ELSE Tests(row)[Min({i \in 1..9 : Tests(row)[i][2]})][1]

TierOrder  == <<"bootstrap-owned", "c15-empty-baseline", "envelope-only", "shape-only-low",
                "shape-plus-base-low", "state-light-no-unknown", "large-shape", "complex-state",
                "unknown-cfg", "ambiguous-route">>
NextAction(tier) ==
    CASE tier = "ambiguous-route"      -> "resolve_endpoint_identity_before_modeling"
      [] tier = "bootstrap-owned"      -> "already-served-by-specialized-bootstrap"
      [] tier = "c15-empty-baseline"   -> "runtime-validate-c15-baseline"
      [] tier = "envelope-only"        -> "define-offline-semantics-before-enabling"
      [] tier \in {"shape-only-low", "shape-plus-base-low"}      -> "reconstruct-response-shape"
      [] tier \in {"state-light-no-unknown", "complex-state"}    -> "reconstruct-shape-and-state-transition"
      [] tier = "unknown-cfg"          -> "close-unknown-cfg-before-modeling"
      [] tier = "large-shape"          -> "reconstruct-large-response-shape"

BacklogAccepts(catalog, final) ==
    /\ \A row \in All(catalog.routes) : row.route # "/" /\ row.endpoints # << >>
    /\ Unique(catalog.routes, LAMBDA row : row.route)
    /\ \A row \in All(catalog.routes) : ~Ambiguous(row) => row.endpoints[1].mutations >= 0
    /\ final # {} => [t \in {Tier(row) : row \in All(catalog.routes)} |->
                         Cardinality({row \in All(catalog.routes) : Tier(row) = t})] \in final

\* The rows of the backlog: by tier, unknown fields, mutations and size; what an
\* ambiguous route does not have counts as 999.
Urgency(row) ==
    LET m    == UnresolvedMetrics(row.endpoints[1])
        tier == CHOOSE i \in DOMAIN TierOrder : TierOrder[i] = Tier(row)
    IN  IF Ambiguous(row) THEN <<tier, 999, 999, 999, 999 + 999>>
        ELSE <<tier, m.unknown - m.baseUnknown, m.baseUnknown, m.mutations, m.concrete + m.base>>
Before(a, b) == \E i \in DOMAIN a : a[i] < b[i] /\ \A j \in 1..(i - 1) : a[j] = b[j]
BuildBacklog(catalog) ==
    SetToSortSeq({[route |-> row.route, tier |-> Tier(row), action |-> NextAction(Tier(row)), urgency |-> Urgency(row)]
                    : row \in All(catalog.routes)},
                 LAMBDA a, b : Before(a.urgency, b.urgency))

---------------------------------------------------------------------------
\* The blocker of a run: the route and the endpoint ids that the event log gave
\* for the first answer 501, looked up in the catalog.
IndexCatalog(catalog) ==
    {[route |-> row.route, endpoint |-> e] : <<row, e>> \in
        {<<r, f>> \in All(catalog.routes) \X UNION {All(s.endpoints) : s \in All(catalog.routes)} : f \in All(r.endpoints)}}
CatalogOK(catalog) ==
    /\ \A x, y \in IndexCatalog(catalog) : x.endpoint.id = y.endpoint.id => x = y
    /\ \A x \in IndexCatalog(catalog) : x.endpoint.id > 0

CandidateSummary(x) ==
    [id |-> x.endpoint.id, route |-> x.route, concrete |-> Size(x.endpoint.concrete),
     required |-> CountOf(x.endpoint.concrete, "required-path"),
     unknown |-> CountOf(x.endpoint.concrete, "unknown-cfg"),
     mutations |-> x.endpoint.mutations, parsers |-> Len(x.endpoint.parsers)]

\* low is the function of low-complexity evidence, possibly empty.
EnrichAccepts(blocker, catalog, low) ==
    /\ CatalogOK(catalog)
    /\ \A id \in All(blocker.ids) : id > 0 /\ \E x \in IndexCatalog(catalog) : x.endpoint.id = id /\ x.route = blocker.route
    /\ blocker.route \in Keys(low) => low[blocker.route].ids \subseteq All(blocker.ids)

BlockerAction(blocker, low) ==
    CASE Len(blocker.ids) # 1          -> "resolve_endpoint_identity_before_response_model"
      [] Len(blocker.ids) = 1 /\ blocker.route \notin Keys(low) -> "reconstruct_response_model"
      [] OTHER -> IF low[blocker.route].empty = "not-proven" THEN "prove_empty_value_before_template"
                  ELSE "validate_empty_value_before_template"

Enrich(blocker, catalog, low) ==
    [route      |-> blocker.route,
     candidates |-> {CandidateSummary(x) : x \in {y \in IndexCatalog(catalog) : y.endpoint.id \in All(blocker.ids)}},
     ambiguous  |-> Len(blocker.ids) # 1,
     action     |-> BlockerAction(blocker, low)]
=============================================================================
