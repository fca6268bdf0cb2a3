----------------------------- MODULE Endpoints ------------------------------
(***************************************************************************)
(* From the client's api map and the findings about its network tasks to   *)
(* the endpoint records of C6: which task carries which api key and how    *)
(* well that is proven, the candidates by name, the request and response   *)
(* inventories (C2, C3), the merge with the field contracts (C4, C5) into  *)
(* the contract database, and the consumers of client state that are       *)
(* refined (C7b) and put into subsystems (C8).                             *)
(*                                                                         *)
(* A name is the sequence of its words, <<"Card", "Edit", "Task">>; a task *)
(* is a record [id, name], id being its full name.                         *)
(***************************************************************************)
EXTENDS Integers, FiniteSets, FiniteSetsExt, SequencesExt

LastKey == 515
TypeOffset == 80                          \* 0x50, NetworkTask.type

\* Strip NetworkTask, Task, Api, Request and Response from the end, as often as it goes.
NameSuffixes == {<<"Network", "Task">>, <<"Task">>, <<"Api">>, <<"Request">>, <<"Response">>}
StripOnce(name) ==
    IF IsSuffix(<<"Network", "Task">>, name) THEN SubSeq(name, 1, Len(name) - 2) ELSE SubSeq(name, 1, Len(name) - 1)
normalize(name) ==
    LET strip[n \in Seq(STRING)] == IF \E s \in NameSuffixes : IsSuffix(s, n) THEN strip[StripOnce(n)] ELSE n
    IN  strip[name]
NameCandidates(tasks, name) == {t \in tasks : normalize(t.name) = normalize(name)}

-----------------------------------------------------------------------------
(* Bindings of api keys to tasks.  A binding is [key, task, evidence, mark]; mark  *)
(* stands for the call site, condition, constant or input key it names.            *)
Binding(key, task, evidence, mark) == [key |-> key, task |-> task, evidence |-> evidence, mark |-> mark]

\* Tasks that set the key in a base constructor, where it is not theirs.
IsBase(task) == task.name \in {<<"Base", "Task">>, <<"Arcade", "Phase", "Base", "Task">>}
                \/ IsSuffix(<<"Task", "Base">>, task.name)

\* f: a task's findings [task, constants, zero, converted]: the constants it writes to
\* the field, a write of the zero register, a call of ConvertType, whose key 11 is a marker.
WrittenKeys(f) ==
    LET values == f.constants \cup (IF f.zero THEN {0} ELSE {})
    IN  IF f.converted THEN values \ {11} ELSE values
DirectBindings(findings) ==
    UNION {{Binding(k, f.task.id, IF k = 0 /\ f.zero THEN "zero-register-write" ELSE "type-write", "none") :
            k \in WrittenKeys(f) \cap 0..LastKey} : f \in {g \in findings : ~IsBase(g.task)}}
Converted(findings) == {f.task : f \in {g \in findings : g.converted}}

\* rows [task, offset, cases]: the keys a constructor may write, with the condition of
\* each or the constant of the only one, whose low dword must be the key.
DynamicAccepts(proof) ==
    /\ proof.schema = 1
    /\ \A row \in proof.rows : row.offset = TypeOffset /\ \A c \in row.cases : c.low = c.key
DynamicBindings(proof) ==
    UNION {{Binding(c.key, row.task, IF c.condition = "none" THEN "constant-pool-ctor-write" ELSE "conditional-ctor-write",
                    c.condition) : c \in row.cases} : row \in proof.rows}

\* constructors [task, input, expected] that pass their key through ConvertType.
ArcadeAccepts(report) == report.schema \in {2, 3} /\ \A c \in report.constructors : c.input = c.expected
ArcadeBindings(report) == {Binding(c.input, c.task, "convert-type-input", "none") : c \in report.constructors}

\* mappings [input, output, inputEnum, outputEnum]: ConvertType puts Garden before the name.
EnumOf(map, key) == {e.enum : e \in {e \in map : e.group = "A" /\ e.key = key}}
GardenAccepts(map, report, garden) ==
    /\ garden.schema = 1 /\ garden.algorithm
    /\ \A m \in garden.mappings :
        /\ \E c \in report.constructors : c.input = m.input
        /\ EnumOf(map, m.input) = {m.inputEnum} /\ EnumOf(map, m.output) = {m.outputEnum}
        /\ m.outputEnum = <<"Garden">> \o m.inputEnum
GardenBindings(report, garden) ==
    {Binding(m.output, (CHOOSE c \in report.constructors : c.input = m.input).task, "garden-name-conversion", m.input) :
     m \in garden.mappings}

\* observations [key, task, caller] of an object passed to set_type with a known key.
SetTypeAccepts(report) == report.schema \in {1, 2}
SetTypeBindings(report) ==
    {Binding(o.key, o.task, "caller-object-provenance", o.caller) : o \in {o \in report.observations : o.key \in 0..LastKey}}

\* The B group as a legacy table: every fact is the expected one, and the keys are all there.
LegacyKeys == {0, 1, 2} \cup 8..26
LegacyAccepts(proof) ==
    /\ proof.schema = 1 /\ proof.classification = "orphaned-legacy-static"
    /\ proof.policy = "exclude-unless-runtime-evidence-appears"
    /\ proof.facts /\ proof.keys = LegacyKeys

\* in: all inputs; dynamic, garden, setType and legacy are sets of at most one report.
Accepts(in) ==
    /\ in.field.typed
    /\ ArcadeAccepts(in.arcade)
    /\ \A p \in in.legacy : LegacyAccepts(p)
    /\ \A p \in in.dynamic : DynamicAccepts(p)
    /\ \A p \in in.garden : GardenAccepts(in.map, in.arcade, p)
    /\ \A p \in in.setType : SetTypeAccepts(p)
Bindings(in) ==
    DirectBindings(in.field.tasks) \cup ArcadeBindings(in.arcade)
    \cup UNION {DynamicBindings(p) : p \in in.dynamic}
    \cup UNION {GardenBindings(in.arcade, p) : p \in in.garden}
    \cup UNION {SetTypeBindings(p) : p \in in.setType}

\* One row of the contract table: naming alone never proves a binding.
EndpointRow(in, e) ==
    LET legacy == e.group = "B" /\ in.legacy # {}
        bound == IF e.group = "A" THEN {b \in Bindings(in) : b.key = e.key} ELSE {}
        candidates == IF legacy \/ bound # {} THEN {}
                      ELSE NameCandidates({f.task : f \in in.field.tasks}, e.enum) \ Converted(in.field.tasks)
    IN  [endpoint |-> e, bindings |-> bound, candidates |-> candidates,
         status |-> IF legacy THEN "orphaned-legacy-static" ELSE IF bound # {} THEN "proven-static"
                    ELSE IF candidates # {} THEN "candidate-name" ELSE "unresolved",
         generate |-> IF legacy THEN "exclude" ELSE IF bound # {} THEN "include" ELSE "defer"]
EndpointContracts(in) == {EndpointRow(in, e) : e \in in.map}
StatusCount(rows, group, status) == Cardinality({r \in rows : r.endpoint.group = group /\ r.status = status})

-----------------------------------------------------------------------------
(* C1 candidates.  Similar(e, t) is the similarity in hundredths of hundredths:    *)
(* ratios gives, in percent, how alike the enum and the path are to a task's name. *)
Noise == {"Task", "Load", "Top", "Get", "Set", "Update", "Exec", "Exe", "Index", "Info", "List", "Start", "End"}
Tokens(name) == ToSet(name) \ Noise
Dice(a, b) == IF a \cup b = {} THEN 0 ELSE (200 * Cardinality(a \cap b)) \div (Cardinality(a) + Cardinality(b))
Similar(e, t, ratios) ==
    LET dice == Dice(Tokens(e.enum), Tokens(t.name))
        r == ratios[<<e, t>>]
    IN  Max({100 * r.enum, 70 * r.enum + 30 * dice, 60 * r.path + 40 * dice})
RankedAccept == 7800
RankedMargin == 800

Bind(e, tasks, ratios) ==
    LET exact == NameCandidates(tasks, e.enum)
        Score(t) == Similar(e, t, ratios)
        best == {t \in tasks : \A u \in tasks : Score(t) >= Score(u)}
        top == CHOOSE t \in best : TRUE
        clear == Score(top) >= RankedAccept /\ \A u \in tasks \ {top} : Score(top) - Score(u) >= RankedMargin
    IN  IF Cardinality(exact) = 1 THEN [status |-> "candidate-exact-name", primary |-> exact]
        ELSE IF tasks # {} /\ clear THEN [status |-> "candidate-ranked", primary |-> {top}]
        ELSE [status |-> "unresolved", primary |-> {}]

-----------------------------------------------------------------------------
(* C2 and C3.  A method is [task, role, literals], literals being pairs of a kind  *)
(* and a value; the request and the response inventory differ in the role.         *)
Surface(methods, task, role, kind) ==
    {l.value : l \in {l \in UNION {m.literals : m \in {m \in methods : m.task = task /\ m.role = role}} : l.kind = kind}}
SurfaceTasks(methods, role) == {m.task : m \in {m \in methods : m.role = role}}
Inventory(methods, contracts, role) ==
    {[endpoint |-> c.endpoint, tasks |-> {b.task : b \in c.bindings} \cap SurfaceTasks(methods, role)] :
     c \in {c \in contracts : c.status = "proven-static"}}
ResponseInventory(methods, contracts) == Inventory(methods, contracts, "response")
FieldFrequency(methods, role, field) ==
    Cardinality({t \in SurfaceTasks(methods, role) : field \in Surface(methods, t, role, "field_key")})

-----------------------------------------------------------------------------
(* C6.  An endpoint row is [route, bindings], bindings a sequence of [task,        *)
(* evidence]; a field contract is [task, field].  A contract is appended to an     *)
(* endpoint once for each binding of its task.                                     *)
BindingsOf(row, task) == {i \in DOMAIN row.bindings : row.bindings[i].task = task}
FieldRows(row, contracts) ==
    FoldLeft(LAMBDA acc, c : acc \o [i \in 1..Cardinality(BindingsOf(row, c.task)) |-> c], <<>>, contracts)
Unbound(rows, contracts) == SelectSeq(contracts, LAMBDA c : \A r \in ToSet(rows) : BindingsOf(r, c.task) = {})
Merge(rows, c4, c5) ==
    [endpoints |-> [i \in DOMAIN rows |-> [route |-> rows[i].route, requests |-> FieldRows(rows[i], c4),
                                          responses |-> FieldRows(rows[i], c5)]],
     unboundRequests |-> Unbound(rows, c4), unboundResponses |-> Unbound(rows, c5)]

\* The tables: endpoint n has the id n; INSERT OR IGNORE keeps one row of equal bindings,
\* NULL evidence never being equal; an unbound contract has the endpoint 0.
Kept(row, i) ==
    row.bindings[i].evidence = "NULL" \/ \A j \in 1..i - 1 : row.bindings[j] # row.bindings[i]
ContractDb(rows, c4, c5) ==
    LET m == Merge(rows, c4, c5)
        Tagged(part(_), unbound) ==
            FlattenSeq([n \in DOMAIN rows |-> [i \in DOMAIN part(m.endpoints[n]) |->
                [endpoint |-> n, field |-> part(m.endpoints[n])[i]]]])
            \o [i \in DOMAIN unbound |-> [endpoint |-> 0, field |-> unbound[i]]]
    IN  [endpoints |-> [n \in DOMAIN rows |-> rows[n].route],
         bindings |-> [n \in DOMAIN rows |-> {i \in DOMAIN rows[n].bindings : Kept(rows[n], i)}],
         requests |-> Tagged(LAMBDA e : e.requests, m.unboundRequests),
         responses |-> Tagged(LAMBDA e : e.responses, m.unboundResponses)]

-----------------------------------------------------------------------------
(* C7b.  A relation is [state, reader, readerRva, consumer, consumerRva, edge,     *)
(* sites, game]; a name is given by the markers it contains.                       *)
GeneratedKind(name) ==
    IF name \in {"DisplayClass", "lambda"} THEN "compiler-generated-lambda"
    ELSE IF name \in {"iterator", "MoveNext"} THEN "async-or-iterator-state-machine"
    ELSE IF name = "closure" THEN "compiler-generated-closure" ELSE "regular"
ZeroOffsetTail(r) == r.edge = "B-tail" /\ r.consumerRva # r.readerRva /\ r.consumerRva \in r.sites
Refine(r) == [relation |-> r, kind |-> GeneratedKind(r.consumer), zero |-> ZeroOffsetTail(r)]

ConsumersOf(relations, state) == {<<r.consumer, r.consumerRva>> : r \in {r \in relations : r.state = state}}
GameConsumersOf(relations, state) == ConsumersOf({r \in relations : r.game}, state)
\* upstream: the endpoints that mutate each state
EndpointConsumers(relations, upstream) ==
    UNION {{<<e, s, c>> : e \in upstream[s], c \in ConsumersOf(relations, s)} : s \in DOMAIN upstream}
XrefCount(xrefs, confidence, edge) == Cardinality({x \in xrefs : x.confidence = confidence /\ x.edge = edge})

-----------------------------------------------------------------------------
(* C8.  Each text of a relation is the set of taxonomy tokens that occur in it;     *)
(* Taxonomy and TokensOf are abridged to the subsystems that discount one another.  *)
Taxonomy == {"home", "live-result", "live", "story-commu", "event", "shop", "room", "payment", "card-idol"}
TokensOf == [home |-> {"Home"}, event |-> {"Event", "Carnival"}, live |-> {"Live", "Music"}, shop |-> {"Shop", "Store"},
             room |-> {"Room"}, payment |-> {"Payment"}] @@
            ("live-result" :> {"LiveResult"} @@ "story-commu" :> {"Story", "Commu"} @@ "card-idol" :> {"Card"})
Weight(source) == CASE source = "owner" -> 20 [] source = "method" -> 8 [] source = "state" -> 3 [] OTHER -> 2
Sources == {"owner", "method", "state", "reader"}

\* A token counts less where another one explains it.
Discount(subsystem, token, text) ==
    CASE subsystem = "event" /\ token = "Event" /\ text \cap {"Story", "Commu"} # {} -> 4
      [] subsystem = "live" /\ token = "Live" /\ "LiveResult" \in text -> 4
      [] subsystem = "shop" /\ token = "Shop" /\ "Room" \in text -> 3
      [] subsystem = "shop" /\ token = "Shop" /\ "Payment" \in text -> 2
      [] OTHER -> 1
LexicalScore(subsystem, text, weight) ==
    MapThenSumSet(LAMBDA token : Max({1, weight \div Discount(subsystem, token, text)}) , TokensOf[subsystem] \cap text)

\* texts: source -> tokens
Total(texts, subsystem) == MapThenSumSet(LAMBDA s : LexicalScore(subsystem, texts[s], Weight(s)), Sources)
Scored(texts) == {s \in Taxonomy : Total(texts, s) > 0}
Classify(texts) ==
    LET top == Max({Total(texts, s) : s \in Scored(texts)})
        leaders == {s \in Scored(texts) : Total(texts, s) = top}
        leader == CHOOSE s \in leaders : TRUE
        rest == {Total(texts, s) : s \in Scored(texts) \ {leader}}
        margin == top - (IF rest = {} THEN 0 ELSE Max(rest))
        Of(source) == LexicalScore(leader, texts[source], Weight(source))
        As(confidence) == [primary |-> {leader}, confidence |-> confidence]
    IN  IF Scored(texts) = {} THEN [primary |-> {}, confidence |-> "unknown"]
        ELSE IF (Of("owner") >= 12 \/ Of("method") >= 8) /\ margin >= 4 THEN As("high")
        ELSE IF top >= 8 /\ margin >= 3 THEN As("medium")
        ELSE IF top >= 4 /\ margin >= 2 THEN As("low")
        ELSE [primary |-> {}, confidence |-> "ambiguous"]

\* A consumer that its relations put into more than one subsystem.
Conflicts(rows) ==
    {c \in {r.consumer : r \in rows} :
        Cardinality(UNION {Classify(r.texts).primary : r \in {r \in rows : r.consumer = c}}) > 1}

=============================================================================
