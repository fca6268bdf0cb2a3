------------------------------ MODULE Contracts ------------------------------
(***************************************************************************)
(* The evidence about the client's endpoints that decides which requests   *)
(* the control server answers from a template: the semantic database (C9), *)
(* the base parser overlays (C11b, C13), the catalogs (C10, C14), and the  *)
(* template layers (C15, C18, C27, explicit), each with what its reader    *)
(* accepts and what it makes of it.  Evidence runs them as a pipeline.     *)
(* A route is given in its normalized form, "/" being the empty one.       *)
(***************************************************************************)
EXTENDS Front, FiniteSetsExt, SequencesExt

Unique(seq, Key(_))  == \A i, j \in DOMAIN seq : Key(seq[i]) = Key(seq[j]) => i = j
Times(x, seq)        == Cardinality({i \in DOMAIN seq : seq[i] = x})
All(seq)             == {seq[i] : i \in DOMAIN seq}
Size(table)          == Cardinality(DOMAIN table)

---------------------------------------------------------------------------
\* C9: the SQLite database and the index of it.
SchemaObjects == {"endpoints", "request_fields", "response_fields", "endpoint_state_mutations",
                  "endpoint_subsystems", "subsystems", "endpoint_semantics"}

\* The contract of one row of endpoints.  A field row has the endpoint it is
\* bound to, or 0; the other tables are here the endpoints of their rows.
\* What is selected of a table keeps the numbers of its rows, and so their order.
EndpointContract(db, row) ==
    [id         |-> row.id,
     route      |-> row.route,
     label      |-> row.label,
     requests   |-> Times(row.id, db.requests),
     fields     |-> RestrictValues(db.fields, LAMBDA f : f.endpoint = row.id),
     mutations  |-> Times(row.id, db.mutations),
     subsystems |-> {s.name : s \in {t \in All(db.subsystems) : t.endpoint = row.id}}]

Having(endpoint, req) == RestrictValues(endpoint.fields, LAMBDA f : f.req = req)
RequiredFields(e) == Having(e, "required-path")
UnknownFields(e)  == Having(e, "unknown-cfg")

SafeEventSummary(e) ==
    [id |-> e.id, label |-> e.label, requests |-> e.requests, responses |-> Size(e.fields),
     required |-> Size(RequiredFields(e)), unknown |-> Size(UnknownFields(e)), mutations |-> e.mutations]

SemanticIndex(db)            == {EndpointContract(db, row) : row \in All(db.endpoints)}
RouteCandidates(index, route) == {e \in index : e.route = route}
RoutesOf(index)              == {e.route : e \in index}
DuplicateRoutes(index)       == {r \in RoutesOf(index) : Cardinality(RouteCandidates(index, r)) > 1}

\* final is the record of the expected counts, or None when they are not enforced.
IndexCounts(index) == [endpoints  |-> Cardinality(index), routes |-> Cardinality(RoutesOf(index)),
                       duplicates |-> Cardinality(DuplicateRoutes(index))]
IndexAccepts(db, final) ==
    /\ db.quick /\ SchemaObjects \subseteq db.objects
    /\ \A row \in All(db.endpoints) : row.route # "/"
    /\ Unique(db.endpoints, LAMBDA row : row.id)
    /\ final = {} \/ IndexCounts(SemanticIndex(db)) \in final

\* The one candidate of a route has the id that the evidence names.
SameIdentity(index, route, id) == {e.id : e \in RouteCandidates(index, route)} = {id}
                                  /\ Cardinality(RouteCandidates(index, route)) = 1

---------------------------------------------------------------------------
\* C11b: direct calls of base parsers.  A relation of C11 joins an endpoint, a
\* base parser and one caller with its call sites.
BaseParser(r)  == [task |-> r.task, method |-> r.method]
OverlayKey(r)  == <<r.endpoint.id, r.rva>>
DirectParse(r) == r.edge \in {None, "BL"} /\ r.callerParses
Kept(relations) == {r \in All(relations) : DirectParse(r)}

\* Two relations of one key disagree about the endpoint, the parser or its fields.
BaseDrift(relations) ==
    \E r, s \in Kept(relations) :
        /\ OverlayKey(r) = OverlayKey(s)
        /\ r.endpoint # s.endpoint \/ BaseParser(r) # BaseParser(s) \/ r.fields # s.fields

Callers(relations, key) ==
    LET of == {r \in Kept(relations) : OverlayKey(r) = key}
    IN  [c \in {r.caller : r \in of} |-> UNION {r.sites : r \in {s \in of : s.caller = c}}]

RefineBase(relations) ==
    {[endpoint |-> r.endpoint, task |-> r.task, method |-> r.method, rva |-> r.rva, fields |-> r.fields,
      callers  |-> Callers(relations, OverlayKey(r))] : r \in Kept(relations)}

\* C13: the direct overlays, then those inherited without an override; the first
\* of a key gives the overlay, the others add their provenance.
Surface(fields) == [f \in All(fields) |-> Times(f, fields)]

EffectiveDrift(sources) ==
    \E i, j \in DOMAIN sources :
        /\ OverlayKey(sources[i]) = OverlayKey(sources[j])
        /\ \/ sources[i].endpoint # sources[j].endpoint
           \/ BaseParser(sources[i]) # BaseParser(sources[j])
           \/ Surface(sources[i].fields) # Surface(sources[j].fields)

FirstOf(sources, key) == sources[Min({i \in DOMAIN sources : OverlayKey(sources[i]) = key})]
Provenance(sources, key) ==
    [i \in 1..Len(SelectSeq(sources, LAMBDA s : OverlayKey(s) = key)) |->
        SelectSeq(sources, LAMBDA s : OverlayKey(s) = key)[i].kind]

EffectiveOverlays(sources) ==
    {LET s == FirstOf(sources, key) IN
     [endpoint |-> s.endpoint, task |-> s.task, method |-> s.method, rva |-> s.rva, fields |-> s.fields,
      provenance |-> Provenance(sources, key)] : key \in {OverlayKey(s) : s \in All(sources)}}

\* parser_overlays: the index of C13 against the C9 index it is read with.
ProvenanceKinds == {"direct-BL", "inherited-no-override"}
OverlayCounts(doc) == [relations |-> Len(doc.overlays),
                       endpoints |-> Cardinality({o.endpoint.id : o \in All(doc.overlays)}),
                       links     |-> FoldLeft(LAMBDA n, o : n + Len(o.fields), 0, doc.overlays),
                       residuals |-> doc.residuals]
OverlaysAccept(doc, index, final) ==
    /\ doc.schema = 1
    /\ Unique(doc.overlays, OverlayKey)
    /\ \A o \in All(doc.overlays) :
         /\ o.endpoint.id > 0
         /\ {e.route : e \in {f \in index : f.id = o.endpoint.id}} = {o.endpoint.route}
         /\ o.provenance # << >> /\ All(o.provenance) \subseteq ProvenanceKinds
    /\ final = {} \/ OverlayCounts(doc) \in final

\* The overlays of an endpoint; nothing depends on their order.
EndpointOverlays(doc, id) == {o \in All(doc.overlays) : o.endpoint.id = id}

---------------------------------------------------------------------------
\* C10 and C14: what the server knows of each route, in one document.  Routes,
\* the endpoints of a route and its parsers are in some order; nothing depends
\* on which.
EndpointRecord(e) ==
    [id |-> e.id, label |-> e.label, requests |-> e.requests, mutations |-> e.mutations,
     fields |-> e.fields, required |-> RequiredFields(e), unknown |-> UnknownFields(e)]

BuildCatalog(index) ==
    [r \in RoutesOf(index) |->
        LET of == SetToSeq(RouteCandidates(index, r)) IN [i \in DOMAIN of |-> EndpointRecord(of[i])]]

\* Mutant: any parser of the envelope's task.
ResponseScopeByTask(overlay) ==
    IF overlay.task = "Stage.BaseTask" THEN "common-envelope" ELSE "base-parser-surface"
ResponseScope(overlay) ==
    IF BaseParser(overlay) = [task |-> "Stage.BaseTask", method |-> "Stage.BaseTask$$Parse"]
    THEN "common-envelope" ELSE "base-parser-surface"

EffectiveEndpoint(e, overlays) ==
    LET own == SetToSeq(EndpointOverlays(overlays, e.id)) IN
    [id       |-> e.id,
     concrete |-> e.fields,
     mutations |-> e.mutations,
     parsers  |-> [i \in DOMAIN own |-> [rva |-> own[i].rva, fields |-> own[i].fields,
                                         scope |-> ResponseScope(own[i])]]]

\* The catalog is a sequence of routes, each with the endpoints that share it.
EffectiveCatalog(index, overlays) ==
    LET routes == SetToSeq(RoutesOf(index)) IN
    [counts |-> IndexCounts(index),
     routes |-> [n \in DOMAIN routes |->
        LET of == SetToSeq(RouteCandidates(index, routes[n])) IN
        [route |-> routes[n], endpoints |-> [i \in DOMAIN of |-> EffectiveEndpoint(of[i], overlays)]]]]

---------------------------------------------------------------------------
\* C15: nothing to send.  C18: only what may be left out.
Ambiguous(row)    == Len(row.endpoints) > 1
OnlyEnvelope(e)   == \A p \in All(e.parsers) : p.scope = "common-envelope"
Servable(row)     == ~Ambiguous(row) /\ row.route \notin BootstrapRoutes

ConservativeEligible(row) ==
    LET e == row.endpoints[1] IN
    Servable(row) /\ DOMAIN e.concrete = {} /\ e.mutations = 0 /\ OnlyEnvelope(e)

Optional == {"optional-conditional", "optional-defaulted"}
OmissionEligible(row) ==
    LET e == row.endpoints[1] IN
    /\ Servable(row) /\ e.mutations = 0 /\ DOMAIN e.concrete # {} /\ OnlyEnvelope(e)
    /\ \A f \in All(e.concrete) : f.req \in Optional

\* The loader of a layer: a malformed catalog is refused, and one in which an
\* eligible route has not the one C9 endpoint that the catalog names.
RowOK(row) == row.route # "/" /\ row.endpoints # << >> /\ (Servable(row) => row.endpoints[1].mutations >= 0)
LayerAccepts(chosen, catalog, index, final, expected) ==
    /\ \A row \in All(catalog.routes) : RowOK(row)
    /\ Unique(catalog.routes, LAMBDA row : row.route)
    /\ \A row \in chosen : SameIdentity(index, row.route, row.endpoints[1].id)
    /\ final = {} \/ (catalog.counts \in final /\ Cardinality(chosen) = expected)

Template(id, data) == [id |-> id, data |-> data]
Layer(chosen) ==
    [r \in {row.route : row \in chosen} |->
        Template((CHOOSE row \in chosen : row.route = r).endpoints[1].id, "{}")]

\* The generator of the C15 document classifies the same rows by itself.
ClassifyRoute(row) ==
    LET e == row.endpoints[1] IN
    CASE Ambiguous(row)                 -> "ambiguous-route"
      [] row.route \in BootstrapRoutes  -> "bootstrap-owned"
      [] DOMAIN e.concrete # {}         -> "concrete-response-shape-required"
      [] e.mutations # 0                -> "state-mutation-semantics-required"
      [] ~OnlyEnvelope(e)               -> "base-parser-shape-required"
      [] OTHER                          -> "conservative-empty-data-candidate"
Generate(catalog) ==
    Layer({row \in All(catalog.routes) : ClassifyRoute(row) = "conservative-empty-data-candidate"})

---------------------------------------------------------------------------
\* C27: the data value that one parser never looks at.
ProofOK(report) ==
    /\ report.schema = 1 /\ report.id > 0
    /\ report.class = "dead-value" /\ report.safe /\ report.promotion = "parser-local-safe-if-field-present"
    /\ report.sinks = {} /\ report.unresolved = {}
    /\ report.returns + report.tails > 0
    /\ ~report.accepted /\ ~report.visible
DeadValueAccepts(report, index, finalIdentity) ==
    /\ ProofOK(report)
    /\ finalIdentity = {} \/ <<report.route, report.id, report.task, report.method>> \in finalIdentity
    /\ SameIdentity(index, report.route, report.id)
DeadValueLayer(report) == [r \in {report.route} |-> Template(report.id, "{}")]

---------------------------------------------------------------------------
\* ResponseTemplateStore: a document is a sequence of entries, or "torn" when it
\* is no JSON.  load wants each entry to name the one endpoint of its route.
EntryKeys == {"endpoint_id", "data", "evidence"}
\* Mutant: the identity is not checked again when the document is loaded.
StoreAcceptsUnchecked(doc, index) == doc.schema = 1 /\ Unique(doc.entries, LAMBDA e : e.route)
StoreAccepts(doc, index) ==
    /\ doc.schema = 1
    /\ Unique(doc.entries, LAMBDA e : e.route)
    /\ \A e \in All(doc.entries) :
         /\ {"endpoint_id", "data"} \subseteq e.keys /\ e.keys \subseteq EntryKeys
         /\ SameIdentity(index, e.route, e.id)
StoreOf(doc) ==
    [r \in {e.route : e \in All(doc.entries)} |->
        LET e == CHOOSE f \in All(doc.entries) : f.route = r IN Template(e.id, e.data)]

\* merged: the override wins, for the same endpoint only.
Mergeable(store, override) == \A r \in Keys(store) \cap Keys(override) : store[r].id = override[r].id
Merged(store, override)    ==
    [r \in Keys(store) \cup Keys(override) |-> IF r \in Keys(override) THEN override[r] ELSE store[r]]

\* compile_templates: what is written for the server to load.
Document(store) ==
    LET routes == SetToSeq(Keys(store)) IN
    [schema |-> 1, entries |-> [n \in DOMAIN routes |->
        [route |-> routes[n], keys |-> EntryKeys, id |-> store[routes[n]].id, data |-> store[routes[n]].data]]]

ConservativeRows(catalog) == {row \in All(catalog.routes) : ConservativeEligible(row)}
OmissionRows(catalog)     == {row \in All(catalog.routes) : OmissionEligible(row)}
C15(catalog) == Layer(ConservativeRows(catalog))
C18(catalog) == Layer(OmissionRows(catalog))

\* A dead-value report and an explicit document are optional: sets of at most one.
StaticBaseline(catalog, reports) ==
    LET zero == Merged(C15(catalog), C18(catalog)) IN
    IF reports = {} THEN zero ELSE Merged(zero, DeadValueLayer(CHOOSE r \in reports : TRUE))
Compiled(catalog, reports, explicit) ==
    LET static == StaticBaseline(catalog, reports) IN
    IF explicit = {} THEN static ELSE Merged(static, StoreOf(CHOOSE d \in explicit : TRUE))

CompileAccepts(db, catalog, reports, explicit, final, finalIdentity) ==
    LET index  == SemanticIndex(db)
        counts == {f.index : f \in final}
        zero   == Merged(C15(catalog), C18(catalog))
        Enforced(n) == IF final = {} THEN 0 ELSE n
    IN  /\ IndexAccepts(db, counts)
        /\ LayerAccepts(ConservativeRows(catalog), catalog, index, counts, Enforced((CHOOSE f \in final : TRUE).c15))
        /\ LayerAccepts(OmissionRows(catalog), catalog, index, counts, Enforced((CHOOSE f \in final : TRUE).c18))
        /\ Mergeable(C15(catalog), C18(catalog))
        /\ \A r \in reports  : DeadValueAccepts(r, index, finalIdentity) /\ Mergeable(zero, DeadValueLayer(r))
        /\ \A d \in explicit : StoreAccepts(d, index) /\ Mergeable(StaticBaseline(catalog, reports), StoreOf(d))

\* The launcher hands the database and the compiled templates to the supervisor,
\* and nobody else may name them.
Forbidden == {"--semantic-db", "--response-templates"}
DelegateCommand(db, templates, passthrough) ==
    <<<<"--semantic-db", db>>, <<"--response-templates", templates>>>> \o passthrough
LaunchOK(files, passthrough) ==
    /\ {"db", "catalog"} \subseteq files
    /\ \A i \in DOMAIN passthrough : passthrough[i][1] \notin Forbidden

---------------------------------------------------------------------------
(* How the semantic database is made: the endpoint records of C6 joined with the   *)
(* mutations (C7a), the readers and consumers (C7b) and their subsystems (C8), and *)
(* the checks that the build makes of the result.  An endpoint's label stands for  *)
(* its enum, status, group and key.                                                *)
\* C9.  An input is a record: the C6 rows (rows, fields, requests), c7a, the
\* mutation relations with their endpoint candidates, c7b, the readers as pairs
\* <<state, reader>>, c8, the consumer relations, and the taxonomy of subsystems.
Identity(x)         == <<x.route, x.label>>
Matching(c6, cand)  == {row.id : row \in {r \in All(c6.rows) : Identity(r) = Identity(cand)}}

MutationLinks(in) ==
    UNION {{<<id, n>> : id \in UNION {Matching(in, c) : c \in All(in.c7a[n].candidates)}} : n \in DOMAIN in.c7a}
UnmatchedCandidates(in) ==
    UNION {{<<n, i>> : i \in {j \in DOMAIN in.c7a[n].candidates : Matching(in, in.c7a[n].candidates[j]) = {}}} :
        n \in DOMAIN in.c7a}
MissingReaders(in)  == {rel \in All(in.c8) : <<rel.state, rel.reader>> \notin in.c7b}

\* The inference from a state an endpoint mutates to those who read that state.
ConsumerLinks(in) ==
    UNION {{<<l[1], k>> : k \in {j \in DOMAIN in.c8 : in.c8[j].state = in.c7a[l[2]].state}} :
        l \in MutationLinks(in)}
SubsystemLinks(in) ==
    {[endpoint |-> l[1], state |-> in.c8[l[2]].state, name |-> in.c8[l[2]].subsystem] :
        l \in {m \in ConsumerLinks(in) : in.c8[m[2]].subsystem \in in.taxonomy}}
MethodBridges(in) ==
    {<<l[1], in.c8[l[2]].state, in.c8[l[2]].consumer>> : l \in ConsumerLinks(in)}

\* The file while it is built: the copy of C6; the same with the new tables, the
\* views not yet; all of it, once the second executescript has committed.
C6Objects   == {"endpoints", "request_fields", "response_fields"}
C6Copy(in) ==
    [quick |-> TRUE, objects |-> C6Objects, endpoints |-> in.rows, fields |-> in.fields,
     requests |-> in.requests, mutations |-> << >>, subsystems |-> << >>]
WithTables(in) == [C6Copy(in) EXCEPT !.objects = SchemaObjects \ {"endpoint_semantics"}]
BuildSemanticDb(in) ==
    [C6Copy(in) EXCEPT !.objects    = SchemaObjects,
                       !.mutations  = LET links == SetToSeq(MutationLinks(in)) IN [i \in DOMAIN links |-> links[i][1]],
                       !.subsystems = SetToSeq(SubsystemLinks(in))]

\* The inputs the build refuses before it writes, by the numbers that C8 and C7b
\* declare, and the result it refuses to confirm, by what it has counted: the file
\* is complete and committed by then.
InputsOK(in)  == in.relationCount = in.consumerCount
ResultOK(in, expected) ==
    /\ Len(in.rows) = expected
    /\ Len(in.c7a) = in.mutationCount /\ Cardinality(in.c7b) = in.readerCount
    /\ Len(in.c8) = in.relationCount
    /\ Cardinality(MethodBridges(in)) = in.bridgeCount
    /\ UnmatchedCandidates(in) = {}
=============================================================================
