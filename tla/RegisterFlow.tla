---------------------------- MODULE RegisterFlow ----------------------------
(***************************************************************************)
(* The scans that find the API key of a task: of its methods for writes of *)
(* the type field (analyze-networktask-api-field), of its constructors for *)
(* recurring patterns (analyze-task-api-keys), and of the callers of       *)
(* set_type (analyze-task-set-type-callsites).  Each reads a method from   *)
(* its start to its first ret, in the order of addresses, and keeps for    *)
(* each register what it knows of it.                                      *)
(*                                                                         *)
(* An instruction is [op, dst, src, base, disp, imm, shift, target]; "op"  *)
(* stands for any other one that writes dst, "cmp" for one that writes no  *)
(* register.  A register holds four halfwords.                             *)
(***************************************************************************)
EXTENDS Naturals, FiniteSets, SequencesExt

CONSTANTS
    Halfword,     \* 2^16
    MaxKey,       \* MAX_KEY
    ApiField,     \* API_FIELD_OFFSET
    MaxCalls,     \* MAX_CALLS_PER_METHOD
    MinSupport,   \* MIN_STRONG_SUPPORT
    MaxConflicts  \* MAX_FEATURE_CONFLICTS

CallerSaved == {"x0", "x1", "x2"}          \* x0..x17
Arguments   == {"x1", "x2"}                \* x1..x7
Registers   == CallerSaved \cup {"x19", "x20"}

Body(code) == LET rets == {i \in DOMAIN code : code[i].op = "ret"}
              IN  IF rets = {} THEN code ELSE SubSeq(code, 1, (CHOOSE i \in rets : \A j \in rets : i <= j) - 1)

---------------------------------------------------------------------------
(* The constants: a function on the registers whose value is known.  They are      *)
(* tracked alike by the three scans.                                               *)
Known(c, r, v) == [x \in DOMAIN c \cup {r} |-> IF x = r THEN v ELSE c[x]]
Without(c, rs) == Restrict(c, DOMAIN c \ rs)
Shifted(ins) == ins.imm * Halfword ^ ins.shift
\* movk replaces one halfword; of a register that is not known it takes the rest for 0.
Patched(old, ins) == LET unit == Halfword ^ ins.shift
                     IN  old - ((old \div unit) % Halfword) * unit + (ins.imm % Halfword) * unit
Constants(c, ins) ==
    LET value == IF ins.src \in DOMAIN c THEN {c[ins.src]} ELSE {}
        Set(values) == IF values = {} THEN Without(c, {ins.dst}) ELSE Known(c, ins.dst, CHOOSE v \in values : TRUE)
    IN  CASE ins.op = "movz" -> Known(c, ins.dst, Shifted(ins))
          [] ins.op = "movn" -> Known(c, ins.dst, Halfword ^ 4 - 1 - Shifted(ins))
          [] ins.op = "movk" -> Known(c, ins.dst, Patched(IF ins.dst \in DOMAIN c THEN c[ins.dst] ELSE 0, ins))
          [] ins.op = "mov" -> Set(value)
          [] ins.op = "add" -> Set({v + ins.imm : v \in value})
          [] ins.op \in {"bl", "blr"} -> Without(c, CallerSaved)
          [] ins.op \in {"ldr", "op"} -> Without(c, {ins.dst})
          [] OTHER -> c
Key(c, r) == IF r \in DOMAIN c /\ c[r] <= MaxKey THEN {c[r]} ELSE {}

\* The registers that hold this.  A call, or a load into x0, leaves x0 among them.
Aliases(this, ins) ==
    LET If(holds) == IF holds THEN this \cup {ins.dst} ELSE this \ {ins.dst}
    IN  CASE ins.op = "mov" -> If(ins.src \in this)
          [] ins.op = "add" -> If(ins.src \in this /\ ins.imm = 0)
          [] ins.op \in {"movz", "movn", "movk"} -> this \ {ins.dst}
          [] ins.op \in {"bl", "blr"} -> this \ (CallerSaved \ {"x0"})
          [] ins.op \in {"ldr", "op"} -> this \ ({ins.dst} \ {"x0"})
          [] OTHER -> this

NothingKnown == [r \in {} |-> 0]
Step(s, ins) == [constants |-> Constants(s.constants, ins), this |-> Aliases(s.this, ins)]
Before(body, i) == FoldLeft(Step, [constants |-> NothingKnown, this |-> {"x0"}], SubSeq(body, 1, i - 1))

---------------------------------------------------------------------------
(* analyze-networktask-api-field.py *)
OnField(body, i) == body[i].op \in {"ldr", "str"} /\ body[i].disp = ApiField /\ body[i].base \in Before(body, i).this
FieldAccesses(code) ==
    LET body == Body(code)
    IN  {[at |-> i, kind |-> IF body[i].op = "ldr" THEN "read" ELSE "write",
          constant |-> IF body[i].op = "ldr" THEN {} ELSE Key(Before(body, i).constants, body[i].src)] :
         i \in {i \in DOMAIN body : OnField(body, i)}}
\* The first MaxCalls calls, with their small arguments.
Calls(code) ==
    LET body  == Body(code)
        sites == {i \in DOMAIN body : body[i].op = "bl"}
    IN  {[at |-> i, target |-> body[i].target, args |-> [r \in Arguments |-> Key(Before(body, i).constants, r)]] :
         i \in {i \in sites : Cardinality({j \in sites : j < i}) < MaxCalls}}
scan_method(m) == [rva |-> m.rva, accesses |-> FieldAccesses(m.code), calls |-> Calls(m.code)]

\* entries: of the A group, [name, key], names normalized; a task is [type, name].
AnchorOf(task, entries) == LET hits == {e.key : e \in {e \in entries : e.name = task.name}}
                           IN  IF Cardinality({e \in entries : e.name = task.name}) = 1 THEN hits ELSE {}
TaskRecord(task, methods, entries) ==
    LET evidence == {r \in {scan_method(m) : m \in {m \in methods : m.owner = task.type}} : r.accesses # {}}
    IN  [task |-> task.type, anchor |-> AnchorOf(task, entries), methods |-> {r.rva : r \in evidence},
         values |-> UNION {UNION {a.constant : a \in {a \in r.accesses : a.kind = "write"}} : r \in evidence}]
ApiFieldReport(tasks, methods, entries, fields) ==
    LET records  == {TaskRecord(t, methods, entries) : t \in tasks}
        anchored == {r \in records : r.anchor # {} /\ r.values # {}}
    IN  [tasks |-> records, typed |-> {f \in fields : f.offset = ApiField /\ f.apitype} # {},
         seen |-> Cardinality({r \in anchored : r.anchor \subseteq r.values}),
         mismatches |-> {r.task : r \in {r \in anchored : ~(r.anchor \subseteq r.values)}},
         ok |-> Cardinality({f \in fields : f.offset = ApiField}) = 1]

---------------------------------------------------------------------------
(* analyze-task-api-keys.py *)
Feature(kind, n, r) == <<kind, n, r>>
scan_constructor(code) ==
    LET body == Body(code)
        Stores(i) == IF body[i].op = "str" /\ body[i].base \in Before(body, i).this
                     THEN {[feature |-> Feature("store_this", body[i].disp, ""), value |-> v] :
                           v \in Key(Before(body, i).constants, body[i].src)} ELSE {}
        Passes(i) == IF body[i].op # "bl" THEN {}
                     ELSE UNION {{[feature |-> Feature("call", body[i].target, r), value |-> v] :
                                  v \in Key(Before(body, i).constants, r)} : r \in Arguments}
    IN  UNION {Stores(i) \cup Passes(i) : i \in DOMAIN body}

\* A task without constructors of its own takes those of its short name.
ConstructorsOf(task, ctors) ==
    LET own == {c \in ctors : c.owner = task.type} IN IF own # {} THEN own ELSE {c \in ctors : c.owner = task.short}
EventsOf(task, ctors) == UNION {scan_constructor(c.code) : c \in ConstructorsOf(task, ctors)}
ValuesOf(events, f) == {e.value : e \in {e \in events : e.feature = f}}

\* A feature matches an anchored task when the anchor's key is its only value there.
Anchored(tasks, entries) == {t \in tasks : AnchorOf(t, entries) # {}}
Showing(tasks, ctors, entries, f) == {t \in Anchored(tasks, entries) : ValuesOf(EventsOf(t, ctors), f) # {}}
Matches(tasks, ctors, entries, f) ==
    {t \in Showing(tasks, ctors, entries, f) : ValuesOf(EventsOf(t, ctors), f) = AnchorOf(t, entries)}
Strong(tasks, ctors, entries) ==
    {f \in {e.feature : e \in UNION {EventsOf(t, ctors) : t \in Anchored(tasks, entries)}} :
        LET matches == Matches(tasks, ctors, entries, f)
        IN  /\ Cardinality(matches) >= MinSupport
            /\ Cardinality(Showing(tasks, ctors, entries, f) \ matches) <= MaxConflicts}
InferKeys(tasks, ctors, entries) ==
    LET strong == Strong(tasks, ctors, entries)
    IN  [t \in tasks |->
            LET values == {e.value : e \in {e \in EventsOf(t, ctors) : e.feature \in strong}}
            IN  [status |-> CASE values = {} -> "unresolved" [] Cardinality(values) = 1 -> "proven-static-pattern"
                              [] OTHER -> "conflict",
                 values |-> values]]

---------------------------------------------------------------------------
(* analyze-task-set-type-callsites.py: each register holds a token, an object       *)
(* identity; the constructors called on a token give it task types.                 *)
Branches == {"b", "b.cond", "cbz"}
Fresh(s, rs) == [s EXCEPT !.token = [r \in Registers |-> IF r \in rs THEN <<s.at, r>> ELSE @[r]]]
Typed(s, t, types) == [s EXCEPT !.types = Known(@, t, types \cup (IF t \in DOMAIN @ THEN @[t] ELSE {}))]
TypesOf(s, t) == IF t \in DOMAIN s.types THEN s.types[t] ELSE {}
\* owners: constructor -> task type.
CallerStep(s, ins, setter, owners) ==
    LET next == [s EXCEPT !.at = @ + 1]
        Keep == [next EXCEPT !.constants = Constants(@, ins)]
        Called == CASE ins.target \in DOMAIN owners -> Typed(next, s.token["x0"], {owners[ins.target]})
                    [] ins.target = setter ->
                          [next EXCEPT !.seen = @ \cup {[at |-> s.at, key |-> k, types |-> TypesOf(s, s.token["x0"])] :
                                                        k \in IF TypesOf(s, s.token["x0"]) = {} THEN {} ELSE Key(s.constants, "x1")}]
                    [] OTHER -> next
    IN  CASE ins.op \in Branches -> Fresh([next EXCEPT !.constants = NothingKnown], CallerSaved)
          [] ins.op = "mov" \/ (ins.op = "add" /\ ins.imm = 0) -> [Keep EXCEPT !.token[ins.dst] = s.token[ins.src]]
          [] ins.op \in {"movz", "movn", "movk", "add", "ldr", "op"} -> Fresh(Keep, {ins.dst})
          [] ins.op = "str" -> Fresh([next EXCEPT !.constants = Without(@, {ins.src})], {ins.src})
          [] ins.op = "bl" -> Fresh([Called EXCEPT !.constants = Without(@, CallerSaved)], CallerSaved)
          [] ins.op = "blr" -> Fresh(Keep, CallerSaved)
          [] OTHER -> next
\* method: [owner, code].
analyze_caller(method, setter, owners, tasks) ==
    LET start == [at |-> 1, token |-> [r \in Registers |-> <<0, r>>], constants |-> NothingKnown, seen |-> {},
                  types |-> [t \in {} |-> {}]]
        first == IF method.owner \in tasks THEN Typed(start, <<0, "x0">>, {method.owner}) ELSE start
    IN  FoldLeft(LAMBDA s, ins : CallerStep(s, ins, setter, owners), first, Body(method.code)).seen
SetTypeRows(methods, setter, owners, tasks) ==
    UNION {UNION {{[task |-> t, key |-> o.key, caller |-> m.rva, at |-> o.at] : t \in o.types} :
                  o \in analyze_caller(m, setter, owners, tasks)} : m \in methods}
=============================================================================
