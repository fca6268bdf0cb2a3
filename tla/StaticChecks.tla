---------------------------- MODULE StaticChecks ----------------------------
(***************************************************************************)
(* Checks over bounded inputs of the endpoint contracts (Endpoints) and of  *)
(* the parser analyses (Cfg, EmptyObjects), evaluated by the run whose      *)
(* module extends this one.                                                 *)
(***************************************************************************)
EXTENDS Integers, Sequences, FiniteSets, TLC

N == INSTANCE Endpoints

---------------------------------------------------------------------------
(* Endpoint contracts.  Two tasks of a name, a base task, an arcade phase task.    *)
TaskOf(id, name) == [id |-> id, name |-> name]
EditTask   == TaskOf("EditTask", <<"Card", "Edit", "Network", "Task">>)
OtherTask  == TaskOf("Other.EditTask", <<"Card", "Edit", "Task">>)
PhaseTask  == TaskOf("PhaseTask", <<"Phase", "Start", "Task">>)
BaseTask   == TaskOf("BaseTask", <<"Base", "Task">>)
FindingOf(t, values, zero, converted) == [task |-> t, constants |-> values, zero |-> zero, converted |-> converted]
ApiMap == {[group |-> g, key |-> k, enum |-> n] : <<g, k, n>> \in {
    <<"A", 3, <<"Card", "Edit">>>>, <<"A", 11, <<"Marker">>>>, <<"A", 20, <<"Phase", "Start">>>>,
    <<"A", 21, <<"Garden", "Phase", "Start">>>>, <<"A", 0, <<"Base">>>>, <<"B", 3, <<"Card", "Edit">>>>}}
FieldReports == {[typed |-> TRUE, tasks |-> {FindingOf(EditTask, e, FALSE, FALSE), FindingOf(OtherTask, o, FALSE, FALSE),
                                             FindingOf(PhaseTask, p, FALSE, TRUE), FindingOf(BaseTask, {3}, z, FALSE)}] :
                 e \in {{}, {3}}, o \in {{}, {3, 700}}, p \in {{11}, {11, 20}}, z \in BOOLEAN}
ArcadeOf == [schema |-> 3, constructors |-> {[task |-> "PhaseTask", input |-> 20, expected |-> 20]}]
GardenOf == [schema |-> 1, algorithm |-> TRUE,
             mappings |-> {[input |-> 20, output |-> 21, inputEnum |-> <<"Phase", "Start">>,
                            outputEnum |-> <<"Garden", "Phase", "Start">>]}]
DynamicOf == [schema |-> 1, rows |-> {[task |-> "EditTask", offset |-> 80,
                                       cases |-> {[key |-> 3, low |-> 3, condition |-> c] : c \in {"w0 = 0", "w0 # 0"}}]}]
LegacyOf == [schema |-> 1, classification |-> "orphaned-legacy-static", facts |-> TRUE,
             policy |-> "exclude-unless-runtime-evidence-appears", keys |-> N!LegacyKeys]
ContractInputs ==
    {[field |-> f, map |-> ApiMap, arcade |-> ArcadeOf, garden |-> g, dynamic |-> d, legacy |-> l,
      setType |-> {[schema |-> 2, observations |-> {[key |-> 3, task |-> "Other.EditTask", caller |-> "c"],
                                                    [key |-> 600, task |-> "EditTask", caller |-> "c"]}]}] :
     f \in FieldReports, g \in {{}, {GardenOf}}, d \in {{}, {DynamicOf}}, l \in {{}, {LegacyOf}}}

\* An endpoint is generated exactly when a task is proven to carry its key; a name
\* alone, an entry of the B group and the ConvertType marker prove nothing.
ASSUME NamesProveNothing == \A in \in ContractInputs :
    /\ N!Accepts(in)
    /\ \A r \in N!EndpointContracts(in) :
        /\ (r.generate = "include") <=> (r.bindings # {})
        /\ r.bindings = {} \/ r.candidates = {}
        /\ r.endpoint.group = "B" => r.generate # "include"
        /\ r.endpoint.key = 11 => r.status # "proven-static"
        /\ "PhaseTask" \notin {t.id : t \in r.candidates}
        /\ \A b \in r.bindings : b.task # "BaseTask" /\ b.key = r.endpoint.key
    /\ in.legacy # {} => \A r \in N!EndpointContracts(in) : (r.endpoint.group = "B") <=> (r.generate = "exclude")

\* An input constructor that does not carry the key it should, and a garden name
\* that is not its input's, are refused.
ASSUME ReportsAreRefused == \A in \in ContractInputs :
    /\ ~N!Accepts([in EXCEPT !.arcade.constructors = {[task |-> "PhaseTask", input |-> 20, expected |-> 19]}])
    /\ ~N!Accepts([in EXCEPT !.garden = {[GardenOf EXCEPT !.mappings = {[input |-> 20, output |-> 3,
                    inputEnum |-> <<"Phase", "Start">>, outputEnum |-> <<"Card", "Edit">>]}]}])
    /\ ~N!Accepts([in EXCEPT !.legacy = {[LegacyOf EXCEPT !.keys = @ \ {26}]}])

\* The suffixes are gone for good: a name and what it is reduced to have the same
\* candidates, and only words of the end are lost.
NameWords == {"Card", "Network", "Task", "Api", "Request"}
ASSUME SuffixesAreGone == \A n \in UNION {[1..k -> NameWords] : k \in 0..4} :
    LET short == N!normalize(n)
    IN  /\ N!normalize(short) = short
        /\ \E k \in 0..Len(n) : short = SubSeq(n, 1, k) /\ "Card" \notin {n[i] : i \in k + 1..Len(n)}

\* C1: a candidate by rank leads every other by the margin, so that no tie decides.
BindTasks == {EditTask, OtherTask, PhaseTask}
ASSUME RanksAreClear == \A e \in ApiMap, a, b, c \in {[enum |-> 60, path |-> 90], [enum |-> 78, path |-> 50], [enum |-> 90, path |-> 0]} :
    LET ratios == [p \in {e} \X BindTasks |-> IF p[2] = EditTask THEN a ELSE IF p[2] = OtherTask THEN b ELSE c]
        bound == N!Bind(e, BindTasks, ratios)
    IN  /\ Cardinality(bound.primary) = (IF bound.status = "unresolved" THEN 0 ELSE 1)
        /\ bound.status = "candidate-ranked" => \A t \in bound.primary, u \in BindTasks \ bound.primary :
               N!Similar(e, t, ratios) >= N!Similar(e, u, ratios) + N!RankedMargin
        /\ e.enum = <<"Card", "Edit">> => bound.status # "candidate-exact-name"

\* C6: the field rows are, in number, those of each binding of a contract's task, or
\* one for a contract without any; a contract is unbound or under an endpoint.
BindingLists == {<< >>, <<[task |-> "T", evidence |-> "e"]>>, <<[task |-> "T", evidence |-> "e"], [task |-> "T", evidence |-> "e"]>>,
                 <<[task |-> "U", evidence |-> "e"], [task |-> "T", evidence |-> "d"]>>,
                 <<[task |-> "T", evidence |-> "NULL"], [task |-> "T", evidence |-> "NULL"]>>}
RowLists == {<<[route |-> "/a", bindings |-> a], [route |-> "/b", bindings |-> b]>> : a, b \in BindingLists}
FieldLists == {<< >>, <<[task |-> "T", field |-> "f"]>>, <<[task |-> "U", field |-> "f"], [task |-> "V", field |-> "g"]>>,
               <<[task |-> "T", field |-> "f"], [task |-> "T", field |-> "g"]>>}
ASSUME ContractsAreKept == \A rows \in RowLists, c4 \in FieldLists :
    LET db == N!ContractDb(rows, c4, << >>)
        Count(c) == Cardinality({i \in DOMAIN db.requests : db.requests[i].field = c})
        Bound(c) == Cardinality(N!BindingsOf(rows[1], c.task)) + Cardinality(N!BindingsOf(rows[2], c.task))
    IN  /\ db.responses = << >>
        /\ \A i \in DOMAIN c4 : Count(c4[i]) = (IF Bound(c4[i]) = 0 THEN 1 ELSE Bound(c4[i]))
        /\ \A i \in DOMAIN db.requests : db.requests[i].endpoint # 0 =>
               N!BindingsOf(rows[db.requests[i].endpoint], db.requests[i].field.task) # {}

\* A task bound twice to an endpoint has each of its fields there twice, though the
\* table of bindings keeps one of them.
ASSUME FieldsAreRepeated ==
    LET db == N!ContractDb(<<[route |-> "/a", bindings |-> <<[task |-> "T", evidence |-> "e"], [task |-> "T", evidence |-> "e"]>>]>>,
                           <<[task |-> "T", field |-> "f"]>>, << >>)
    IN  db.bindings[1] = {1} /\ db.requests[1] = db.requests[2]

\* C2 and C3 attribute to an endpoint only the tasks it is proven to be bound to.
ASSUME InventoriesAreProven == \A in \in ContractInputs :
    LET methods == {[task |-> "EditTask", role |-> "request", literals |-> {[kind |-> "field_key", value |-> "id"]}],
                    [task |-> "PhaseTask", role |-> "response", literals |-> {}]}
    IN  /\ \A r \in N!Inventory(methods, N!EndpointContracts(in), "request") :
               \A t \in r.tasks : t = "EditTask" /\ r.endpoint.key = 3
        /\ {r.endpoint.key : r \in {r \in N!ResponseInventory(methods, N!EndpointContracts(in)) : r.tasks # {}}} \cap {3} = {}
        /\ N!FieldFrequency(methods, "request", "id") = 1 /\ N!FieldFrequency(methods, "response", "id") = 0

\* C8: a tie between two subsystems is never decided, what the state and the reader
\* say alone is never certain, and a text about live results is not one about lives.
TokenTexts == {{}, {"Home"}, {"Event"}, {"Event", "Story"}, {"Live"}, {"Live", "LiveResult"}, {"Shop", "Payment"}}
ASSUME TiesAreAmbiguous == \A owner, method, state \in TokenTexts, reader \in {{}, {"Home"}, {"Live", "LiveResult"}} :
    LET texts == [owner |-> owner, method |-> method, state |-> state, reader |-> reader]
        c == N!Classify(texts)
    IN  /\ (c.primary = {}) <=> (c.confidence \in {"unknown", "ambiguous"})
        /\ \A s \in c.primary : \A u \in N!Taxonomy \ {s} : N!Total(texts, s) >= 2 + N!Total(texts, u)
        /\ owner = {} /\ method = {} => c.confidence # "high"
        /\ "live" \in c.primary => \E s \in N!Sources : "Live" \in texts[s] /\ "LiveResult" \notin texts[s]

\* C7b: an endpoint reaches the consumers of the states it mutates, no other.
Relations0 == {[state |-> s, reader |-> "r", readerRva |-> 8, consumer |-> n, consumerRva |-> v, edge |-> e, sites |-> {16}, game |-> g] :
               s \in {"S", "U"}, n \in {"c", "closure"}, v \in {8, 16}, e \in {"BL", "B-tail"}, g \in BOOLEAN}
ASSUME ConsumersAreReached == \A relations \in SUBSET {r \in Relations0 : r.game /\ r.consumerRva = 16} :
    LET reached == N!EndpointConsumers(relations, ("S" :> {"/a"}) @@ ("U" :> {"/a", "/b"}))
    IN  /\ {x[3] : x \in reached} = N!ConsumersOf(relations, "S") \cup N!ConsumersOf(relations, "U")
        /\ \A x \in reached : x[1] = "/b" => x[2] = "U"
        /\ \A s \in {"S", "U"} : N!GameConsumersOf(relations, s) = N!ConsumersOf(relations, s)
ASSUME TailsAreSites == \A r \in Relations0 : N!Refine(r).zero <=> (r.edge = "B-tail" /\ r.consumerRva = 16)


---------------------------------------------------------------------------
(* Parser analyses: what they claim of a function is compared, on all small       *)
(* functions, with what its executions do.                                         *)
G == INSTANCE Cfg
K == INSTANCE EmptyObjects WITH MaxPostKeysCalls <- 8

\* Functions of four instructions; 100 is a method of the dump, 101 is none.
Ins(op, target) == [op |-> op, target |-> target]
Bodies == {Ins("op", 0), Ins("ret", 0), Ins("b", 100), Ins("b", 1), Ins("b", 4), Ins("cbz", 1), Ins("cbz", 3), Ins("cbz", 4)}
Wild == {Ins("op", 0), Ins("ret", 0), Ins("b", 101), Ins("br", 0), Ins("cbz", 5), Ins("cbz", 0), Ins("b", 6)}
Programs == [1..4 -> Bodies]
WildPrograms == [1..3 -> Wild]

\* Executions, instruction by instruction: what can be reached without passing avoid,
\* and the exits of it.
ReachedAvoiding(prog, avoid) ==
    LET succ == [a \in DOMAIN prog |-> G!Targets(prog, a) \ {avoid}]
    IN  IF avoid = 1 THEN {} ELSE G!Closure(succ, {1})
Exits(prog, reached) == {a \in reached : prog[a].op = "ret" \/ (prog[a].op = "b" /\ prog[a].target = 100)}

\* A field is required where its access is on every execution to a return or to a
\* method of the dump, and conditional where it is not.
ASSUME RequiredIsOnEveryPath == \A prog \in Programs :
    LET cfg == G!build_cfg(prog, 5, {100})
        reachable == ReachedAvoiding(prog, 0)
    IN  /\ {cfg.last[e] : e \in cfg.exits} = Exits(prog, reachable)
        /\ \A a \in 1..4 :
             LET kind == G!Requiredness(cfg, a, "direct-index")
             IN  /\ (kind = "unknown-cfg") <=> (a \notin reachable \/ Exits(prog, reachable) = {})
                 /\ (kind = "required-path") => Exits(prog, ReachedAvoiding(prog, a)) = {}
                 /\ (kind = "conditional-direct") => Exits(prog, ReachedAvoiding(prog, a)) # {}

\* The graph is trusted only where every branch stays in what was decoded, and the
\* first version, which knows no tail exits, agrees where it decides.
ASSUME UnknownStaysUnknown == \A prog \in WildPrograms :
    LET cfg == G!build_cfg(prog, 7, {100})
    IN  (\E i \in 1..3 : prog[i] \notin {Ins("op", 0), Ins("ret", 0)}) => ~cfg.complete /\ cfg.reasons # {}
ASSUME TailsAreOptIn == \A prog \in Programs :
    LET old == G!build_cfg_v1(prog, 5)
    IN  old.complete => old = G!build_cfg(prog, 5, {100})

\* But an execution that runs off the decoded prefix is not seen: with what follows the
\* fourth instruction unknown, the field read by the second still counts as required.
ASSUME FallsOffThePrefix ==
    G!Requiredness(G!build_cfg(<<Ins("cbz", 4), Ins("op", 0), Ins("ret", 0), Ins("op", 0)>>, 9, {100}), 2, "direct-index")
        = "required-path"

\* The contract of a field is at least as strict as each of its accesses.
ASSUME StrictestWins == \A kinds \in SUBSET (G!ToSet(G!Strictness) \cup {"unknown"}) :
    /\ "required-path" \in kinds => G!Aggregate(kinds) = "required-path"
    /\ kinds # {} => G!Aggregate(kinds) \in kinds
    /\ G!Aggregate(kinds) \in {"optional-defaulted", "optional-conditional"} =>
           kinds \subseteq {"optional-defaulted", "optional-conditional", "unknown"}

---------------------------------------------------------------------------
(* The fate of a value.  Places are registers and stack slots; an execution holds  *)
(* the places the value is in, and whether anything has observed it.               *)
Plain == [op |-> "op", target |-> 0, dst |-> "x8", src |-> "x8", base |-> "x8", index |-> "none", slot |-> 0, reads |-> {}, writes |-> {}]
Call      == [Plain EXCEPT !.op = "bl"]
Mov(d, s) == [Plain EXCEPT !.op = "mov", !.dst = d, !.src = s]
Spill(s, b)  == [Plain EXCEPT !.op = "str", !.src = s, !.base = b]
Reload(d, b) == [Plain EXCEPT !.op = "ldr", !.dst = d, !.base = b]
Use(r)    == [Plain EXCEPT !.reads = {r}]
Set(d)    == [Plain EXCEPT !.writes = {d}]
Jump(o, t, r) == [Plain EXCEPT !.op = o, !.target = t, !.reads = IF o = "b" THEN {} ELSE {r}]
Ret       == [Plain EXCEPT !.op = "ret"]
Handled == {Call, Mov("x0", "x8"), Mov("x19", "x0"), Mov("x0", "x19"), Spill("x0", "sp"), Spill("x19", "x8"), Reload("x0", "sp"),
            Reload("x8", "x19"), Use("x19"), Set("x0"), Set("x19"), Jump("b", 2, "x8"), Jump("b", 100, "x8"),
            Jump("cbz", 4, "x8"), Jump("cbz", 2, "x19"), Ret}

\* What each instruction really does with a value in those places.
Observes(ins, at) ==
    \/ ins.op \in {"bl", "blr"} /\ at \cap {"x0", "x1"} # {}
    \/ ins.op = "blr" /\ ins.src \in at
    \/ ins.op = "ret" /\ "x0" \in at
    \/ ins.op = "b" /\ ins.target >= 100 /\ "x0" \in at
    \/ ins.op = "str" /\ (ins.base \in at \/ (ins.src \in at /\ ins.base # "sp"))
    \/ ins.op = "ldr" /\ (ins.base \in at \/ ins.index \in at)
    \/ ins.op = "orr" /\ ins.index \in at
    \/ ins.op \in G!Conditions \cup {"op", "ldp"} /\ ins.reads \cap at # {}
Moves(ins, at) ==
    CASE ins.op \in {"bl", "blr"} -> at \ {"x0", "x1", "x8"}
      [] ins.op \in {"mov", "orr"} -> IF ins.src \in at THEN at \cup {ins.dst} ELSE at \ {ins.dst}
      [] ins.op = "str" /\ ins.base = "sp" -> IF ins.src \in at THEN at \cup {"slot"} ELSE at \ {"slot"}
      [] ins.op \in {"ldr", "ldp"} -> IF ins.base = "sp" /\ "slot" \in at THEN at \cup {ins.dst} ELSE at \ {ins.dst}
      [] OTHER -> at \ ins.writes

\* The executions of a function whose first instruction fetched the value.
RECURSIVE Runs(_, _)
Runs(prog, seen) ==
    LET more == seen \cup UNION {{[pc |-> a, at |-> Moves(prog[s.pc], s.at)] : a \in G!Targets(prog, s.pc)} : s \in seen}
    IN  IF more = seen THEN seen ELSE Runs(prog, more)
Observed(prog) == \E s \in Runs(prog, {[pc |-> 2, at |-> {"x0"}]}) : Observes(prog[s.pc], s.at)

\* A value reported dead is observed by no execution that stays in the function.
DeadIsUnobserved(prog) == K!Analyze(prog, {1, 100}, 1).safe => ~Observed(prog)
ASSUME DeadValuesAreDead == \A body \in [1..3 -> Handled] : DeadIsUnobserved(<<Call>> \o body)

\* Some uses are no sinks, though: a call through a register that holds the value, a
\* store or an indexed load at an address made of it, the second operand of orr, and
\* the reload of two registers at once, after which the copy is used.
ASSUME UsesThatAreNoSinks == \A body \in {
        <<Mov("x8", "x0"), Set("x0"), [Plain EXCEPT !.op = "blr"], Ret>>,
        <<Mov("x8", "x0"), Set("x0"), [Plain EXCEPT !.op = "str", !.src = "x19"], Ret>>,
        <<Mov("x19", "x0"), Set("x0"), [Plain EXCEPT !.op = "ldr", !.index = "x19"], Ret>>,
        <<Mov("x19", "x0"), Set("x0"), [Plain EXCEPT !.op = "orr", !.index = "x19"], Ret>>,
        <<Spill("x0", "sp"), Set("x0"), [Plain EXCEPT !.op = "ldp", !.dst = "x19", !.base = "sp", !.writes = {"x19", "x8"}],
          Use("x19"), Ret>>} :
    ~DeadIsUnobserved(<<Call>> \o body)

---------------------------------------------------------------------------
(* Empty data.  In an execution with empty data the count is 0 and MoveNext is     *)
(* false; any other value may be anything.                                         *)
Blank == [op |-> "op", target |-> 0, dst |-> "x1", src |-> "x1", slot |-> 0, writes |-> {}, callee |-> << >>, signature |-> "string"]
Invoke(name) == [Blank EXCEPT !.op = "bl", !.callee = <<name>>]
Cbz(op, t)   == [Blank EXCEPT !.op = op, !.target = t, !.src = "x0"]
Cmp(d)       == [Blank EXCEPT !.op = "cmp", !.src = "x0", !.dst = d]
Copy(d, s)   == [Blank EXCEPT !.op = "mov", !.dst = d, !.src = s]
Keep         == [Blank EXCEPT !.op = "str", !.src = "x0"]
Restore      == [Blank EXCEPT !.op = "ldr", !.dst = "x0"]
IndexCall    == Invoke("JsonData.get_Item")
Return       == [Blank EXCEPT !.op = "ret"]
Steps == {Invoke("get_Count"), Invoke("GetEnumerator"), Invoke("MoveNext"), Invoke("Log"), Cbz("cbz", 6), Cbz("cbz", 5),
          Cbz("cbnz", 5), Cmp("zero"), Cmp("imm"), Cbz("b.eq", 6), Cbz("b.ne", 5), Keep, Restore,
          Copy("x19", "x0"), Copy("x0", "x19")}

IsZero(tag) == tag \in {"count", "move-next", "zero"}
EmptyMoves(prog, s) ==
    LET ins == prog[s.pc]
        To(a) == [s EXCEPT !.pc = a]
        Either(zero) == IF zero THEN (IF ins.op \in {"cbz", "b.eq", "b.ge"} THEN {To(ins.target)} ELSE {To(s.pc + 1)})
                        ELSE {To(ins.target), To(s.pc + 1)}
        ValueOf(r) == IF r \in {"zero", "xzr"} THEN "zero" ELSE IF r = "imm" THEN "none" ELSE s.regs[r]
    IN  CASE ins.op = "bl" ->
               {[To(s.pc + 1) EXCEPT !.regs = [K!Clobber(@) EXCEPT !["x0"] =
                    K!Derived(s.regs["x0"], K!CallSemantic({ins.callee[i] : i \in DOMAIN ins.callee}))]]}
          [] ins.op \in {"cbz", "cbnz"} -> Either(IsZero(s.regs[ins.src]))
          [] ins.op = "cmp" -> {[To(s.pc + 1) EXCEPT !.cmp = IF IsZero(ValueOf(ins.src)) /\ IsZero(ValueOf(ins.dst)) THEN "zero" ELSE "none"]}
          [] ins.op \in {"b.eq", "b.ne", "b.ge"} -> Either(s.cmp = "zero")
          [] ins.op = "b" -> {To(ins.target)}
          [] ins.op = "ret" -> {}
          [] OTHER -> {[K!PropagateSimple(ins, s) EXCEPT !.pc = s.pc + 1]}
RECURSIVE EmptyRuns(_, _)
EmptyRuns(prog, seen) ==
    LET more == seen \cup UNION {EmptyMoves(prog, s) : s \in {s \in seen : prog[s.pc].callee # IndexCall.callee}}
    IN  IF more = seen THEN seen ELSE EmptyRuns(prog, more)
\* Some execution with empty data returns without an indexed access.
Takes(prog, tag) ==
    \E s \in EmptyRuns(prog, {[pc |-> 2, regs |-> [K!Unknown EXCEPT !["x0"] = tag], stack |-> K!Start0.stack, cmp |-> "none"]}) :
        prog[s.pc] = Return

\* Where every guard proves the empty object, the parser has an execution that accepts
\* it, if no access precedes the guards: keys that are counted or enumerated, kept on
\* the stack or in a register, compared or tested.
KeysBody(body) == <<Invoke("JsonData.get_Keys")>> \o body \o <<IndexCall, Return>>
Claims(prog)   == K!ZeroIteration(prog, Len(prog) + 1, {100}, 1).class = "parser-empty-object-zero-path"
ASSUME ProvenObjectsAreTaken == \A body \in [1..3 -> Steps] :
    LET z == K!ZeroIteration(KeysBody(body), 7, {100}, 1)
    IN  z.class = "parser-empty-object-zero-path" /\ (\A g \in z.guards : g.proven) => Takes(KeysBody(body), "keys")

\* But one guard is enough for the claim where it does not decide: when empty data
\* never reaches it, and when an access precedes it.
ASSUME GuardsThatDoNotDecide == \A body \in {
        <<Invoke("get_Count"), Cbz("cbz", 5), Cbz("cbz", 6)>>,
        <<Copy("x19", "x0"), IndexCall, Copy("x0", "x19"), Invoke("get_Count"), Cbz("cbz", 8)>>} :
    Claims(KeysBody(body)) /\ ~Takes(KeysBody(body), "keys")

\* And an access beyond the calls the report has room for is no obstacle.
Short == INSTANCE EmptyObjects WITH MaxPostKeysCalls <- 2
ASSUME LongParsersAreCut ==
    LET prog == KeysBody(<<Invoke("get_Count"), Cbz("cbz", 4)>>)
    IN  /\ Short!ZeroIteration(prog, 6, {100}, 1).class = "parser-empty-object-zero-path"
        /\ ~Claims(prog) /\ ~Takes(prog, "keys")

\* C19b trusts the graphs that C5 and C19 trust, by rules of its own.
ASSUME TheGraphsAgree == \A prog \in WildPrograms \cup Programs :
    K!zero_cfg(prog, 7, {100}).complete <=> G!build_cfg(prog, 7, {100}).complete

\* An empty list or object at a count of zero, by the way it is indexed.
ASSUME ProvenListsAreTaken == \A body \in [1..3 -> Steps \cup {Cmp("xzr"), Cbz("b.ge", 6)}] :
    LET prog == <<Invoke("JsonData.get_Count")>> \o body \o <<[IndexCall EXCEPT !.signature = "int"], Return>>
        e == K!EmptyContainer(prog, 7, {100}, 1)
    IN  /\ e.usage = "integer-index-sequence" /\ e.shape \in {"none", "[]"}
        /\ e.shape = "[]" /\ (\A g \in e.guards : g.proven) => Takes(prog, "count")
=============================================================================
