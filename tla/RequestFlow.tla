----------------------------- MODULE RequestFlow -----------------------------
(***************************************************************************)
(* The request payloads (C4, analyze-request-field-writes): which object a *)
(* method of a task stores into Params, which layout the stores into that  *)
(* object fit, and which field each of them writes.                        *)
(*                                                                         *)
(* An instruction is [op, dst, src, base, disp, imm, width, target]; "op"  *)
(* stands for one that computes dst from src, a pair is two "stp" or "ldp" *)
(* of one register each.  An object is <<"this">>, <<"arg", name>>,        *)
(* <<"ret", call>> or <<"field", object, offset>>.                         *)
(***************************************************************************)
EXTENDS Naturals, FiniteSets, SequencesExt

CONSTANTS ParamsOffset, \* PARAMS_OFFSET
          Header        \* 0x10, an object's own two words

ScratchRegisters == {"x0", "x1", "x2"}      \* x0..x18
This == <<"this">>

---------------------------------------------------------------------------
(* A method: what each register and stack slot is known to hold.                    *)
At(f, x) == IF x \in DOMAIN f THEN f[x] ELSE {}
With(f, x, v) == IF v = {} THEN Restrict(f, DOMAIN f \ {x}) ELSE [y \in DOMAIN f \cup {x} |-> IF y = x THEN v ELSE f[y]]
setreg(s, r, prov, obj) == [s EXCEPT !.prov = With(@, r, prov), !.obj = With(@, r, obj)]

record_store(s, ins, site) ==
    LET bases == At(s.obj, ins.base)
        held  == At(s.obj, ins.src)
        saved == IF ins.base # "sp" THEN s
                 ELSE [s EXCEPT !.stack = With(@, ins.disp, {[obj |-> held, prov |-> At(s.prov, ins.src)]})]
    IN  [saved EXCEPT
            !.stores = @ \cup {[object |-> o, site |-> site, offset |-> ins.disp, width |-> ins.width, prov |-> At(s.prov, ins.src)] : o \in bases},
            !.assigned = @ \cup (IF This \in bases /\ ins.disp = ParamsOffset THEN held ELSE {})]

Called(s, ins, site) ==
    LET kept == [s EXCEPT !.obj = Restrict(@, DOMAIN @ \ ScratchRegisters), !.prov = Restrict(@, DOMAIN @ \ ScratchRegisters),
                          !.hints = @ \cup (IF ins.target.ctor = "" THEN {} ELSE {[object |-> o, type |-> ins.target.ctor] : o \in At(s.obj, "x0")})]
    IN  setreg(kept, "x0", {<<"call", ins.target.rva>>}, {<<"ret", site>>})

\* From the stack what was put there; of a known object its field; else unknown.
Loaded(s, ins) ==
    LET fields == {<<"field", o, ins.disp>> : o \in At(s.obj, ins.base)}
    IN  CASE ins.base = "sp" /\ ins.disp \in DOMAIN s.stack ->
                 LET slot == CHOOSE x \in s.stack[ins.disp] : TRUE IN setreg(s, ins.dst, slot.prov, slot.obj)
          [] ins.base # "sp" /\ fields # {} ->
                 [setreg(s, ins.dst, {<<"load", f>> : f \in fields}, fields) EXCEPT
                    !.read = @ \cup (IF ins.disp = ParamsOffset /\ This \in At(s.obj, ins.base) THEN fields ELSE {})]
          [] OTHER -> setreg(s, ins.dst, {<<"memory-load">>}, {})
\* A pair is loaded from a known slot of the stack, or leaves its registers as they were.
PairLoaded(s, ins) == IF ins.base = "sp" /\ ins.disp \in DOMAIN s.stack THEN Loaded(s, ins) ELSE s

MethodStep(s, ins, site) ==
    CASE ins.op \in {"str", "stp"} -> record_store(s, ins, site)
      [] ins.op = "bl" -> Called(s, ins, site)
      [] ins.op = "mov" -> setreg(s, ins.dst, At(s.prov, ins.src), At(s.obj, ins.src))
      [] ins.op \in {"movz", "movn"} -> setreg(s, ins.dst, {<<"const", ins.imm>>}, {})
      [] ins.op = "movk" -> setreg(s, ins.dst, At(s.prov, ins.dst) \cup {<<"const-part">>}, {})
      [] ins.op = "ldr" -> Loaded(s, ins)
      [] ins.op = "ldp" -> PairLoaded(s, ins)
      [] ins.op = "add" -> setreg(s, ins.dst, At(s.prov, ins.src) \cup {<<"derived">>}, IF ins.imm = 0 THEN At(s.obj, ins.src) ELSE {})
      [] ins.op = "op" -> setreg(s, ins.dst, IF At(s.prov, ins.src) = {} THEN {} ELSE At(s.prov, ins.src) \cup {<<"derived">>}, {})
      [] OTHER -> s
\* args: register -> [name, pointer, type]; the first is this.
Entry(args) ==
    [obj |-> [r \in {r \in DOMAIN args : r = "x0" \/ args[r].pointer} |-> {IF r = "x0" THEN This ELSE <<"arg", args[r].name>>}],
     prov |-> [r \in DOMAIN args |-> {<<"arg", args[r].name>>}],
     stack |-> [d \in {} |-> {}], stores |-> {}, assigned |-> {}, read |-> {}, hints |-> {}]
analyze_method(m) == FoldLeft(LAMBDA s, i : MethodStep(s, m.code[i], i), Entry(m.args), [i \in DOMAIN m.code |-> i])
Payloads(a) == a.assigned \cup a.read

---------------------------------------------------------------------------
(* The layouts: types, [full, short, bases, fields, tasks]; tasks are those whose   *)
(* stem is in the name of what looks like their parameters.                         *)
Named(types, name) == {t \in types : name \in {t.full, t.short}}
\* A base whose name two types have is none, although one may be in the namespace.
resolve_base(types, base) == IF Cardinality(Named(types, base)) = 1 THEN Named(types, base) ELSE {}
RECURSIVE effective(_, _, _)
effective(types, t, seen) ==
    IF t \in seen THEN {}
    ELSE UNION {UNION {effective(types, b, seen \cup {t}) : b \in resolve_base(types, base)} : base \in t.bases}
         \cup {[declaring |-> t.full, offset |-> f.offset, name |-> f.name, type |-> f.type] : f \in t.fields}

\* What may be written by a store of a width; a register of floats has none (0).
field_compatible(field, width) ==
    CASE width = 0 -> TRUE
      [] width = 1 -> field.type \in {"bool", "byte"}
      [] width = 2 -> field.type \in {"short"}
      [] width = 4 -> field.type \notin {"long", "double", "string", "list"}
      [] OTHER -> field.type \notin {"int", "bool", "float"}
Fitting(types, t, store) == {f \in effective(types, t, {}) : f.offset = store.offset /\ field_compatible(f, store.width)}

\* Resolution of a payload: by the signature, by a constructor, or by the layouts that
\* all its stores fit; between several of those by the task's name.
resolve_payload(types, m, a, payload) ==
    LET stores   == {s \in a.stores : s.object = payload /\ s.offset >= Header}
        matches(t) == \A s \in stores : Fitting(types, t, s) # {}
        signed   == UNION {Named(types, m.args[r].type) : r \in {r \in DOMAIN m.args : payload = <<"arg", m.args[r].name>>}}
        specific == UNION {Named(types, h.type) : h \in {h \in a.hints : h.object = payload /\ h.type \notin {"BaseParam", "PostParams"}}}
        byctor   == Cardinality(specific) = 1
        exact    == {t \in IF byctor THEN specific ELSE signed : matches(t)}
        fitting  == IF exact # {} THEN exact ELSE {t \in types : matches(t)}
        ofname   == {t \in fitting : m.task \in t.tasks}
        chosen   == IF Cardinality(fitting) > 1 /\ stores # {} /\ Cardinality(ofname) = 1 THEN ofname ELSE fitting
    IN  [stores |-> stores, candidates |-> chosen,
         status |-> CASE chosen = {} -> "unresolved" [] Cardinality(chosen) > 1 -> "ambiguous-layout"
                      [] Cardinality(chosen) = 1 /\ (exact # {} \/ byctor) -> "exact" [] OTHER -> "unique-layout"]

field_for_store(types, store, candidates) ==
    LET pairs == {[name |-> f.name, type |-> f.type] : f \in UNION {Fitting(types, t, store) : t \in candidates}}
    IN  [field |-> IF Cardinality(pairs) = 1 THEN pairs ELSE {},
         status |-> CASE pairs = {} -> "unresolved" [] Cardinality(pairs) > 1 -> "ambiguous"
                      [] Cardinality(pairs) = 1 /\ Cardinality(candidates) > 1 -> "consensus-exact" [] OTHER -> "exact-layout"]

\* endpoints: the routes bound to each task, of the endpoint contracts.
endpoint_map(endpoints, task) == {e.route : e \in {e \in endpoints : task \in e.tasks /\ e.route # ""}}
Confidence(payload, field) == CASE payload = "exact" -> "high" [] payload # "exact" /\ field = "consensus-exact" -> "medium" [] OTHER -> "low"
Contracts(types, m, endpoints) ==
    LET a == analyze_method(m)
    IN  UNION {LET p == resolve_payload(types, m, a, object)
               IN  UNION {LET row == field_for_store(types, s, p.candidates)
                          IN  {[task |-> m.task, routes |-> endpoint_map(endpoints, m.task), payload |-> p.status, field |-> f.name,
                                offset |-> s.offset, prov |-> s.prov, site |-> s.site, confidence |-> Confidence(p.status, row.status)] :
                               f \in row.field} : s \in p.stores} : object \in Payloads(a)}
=============================================================================
