---------------------------- MODULE ResponseFlow ----------------------------
(***************************************************************************)
(* From a field's literal to the access of the response (C3, analyze-      *)
(* response-field-accesses), and from the accessed value to the task       *)
(* field it is stored in, its readers and their callers (C18b, analyze-    *)
(* task-response-consumers).                                               *)
(*                                                                         *)
(* An instruction is [op, dst, src, base, disp, page, target]; "mov" is also orr *)
(* of a register, "op" any other one that writes dst.  A call's target is  *)
(* the method there, [rva, name, result].                                 *)
(***************************************************************************)
EXTENDS Naturals, FiniteSets, SequencesExt

CONSTANTS MaxAdrpWindow, \* MAX_ADRP_WINDOW
          MaxFlow,       \* MAX_FLOW_INSTRUCTIONS
          MaxPostCalls   \* MAX_POST_ACCESS_CALLS

CallerSaved == {"x0", "x1", "x2"}      \* x0..x17

---------------------------------------------------------------------------
(* analyze-response-field-accesses.py *)
\* tasks: the inventory's, [type, methods].
response_methods(tasks) ==
    UNION {{[task |-> t.type, method |-> m.name, rva |-> m.rva, code |-> m.code,
             fields |-> {l.value : l \in {l \in m.literals : l.kind = "field_key"}}] :
            m \in {m \in t.methods : m.role = "response"}} : t \in tasks}

\* Where a slot is loaded: an adrp, and the first access to a slot through its register
\* within the window, even if the register has been written in between.
exact_slot_refs(code, slots) ==
    LET Through(i, j) == /\ i < j /\ j < i + MaxAdrpWindow /\ code[j].op \in {"ldr", "str"}
                         /\ code[j].base = code[i].dst /\ code[i].page + code[j].disp \in slots
    IN  {[load |-> j, slot |-> code[i].page + code[j].disp, reg |-> IF code[j].op = "ldr" THEN code[j].dst ELSE code[j].src] :
         <<i, j>> \in {p \in (DOMAIN code) \X (DOMAIN code) :
                        /\ code[p[1]].op = "adrp" /\ Through(p[1], p[2])
                        /\ \A k \in DOMAIN code : Through(p[1], k) => p[2] <= k}}

Helper(style, type, optionality) == [style |-> style, type |-> type, optionality |-> optionality]
helper_kind(target) ==
    CASE target.name = "TryGetInt" -> {Helper("try-get", "int", "optional-helper")}
      [] target.name = "TryGetLong" -> {Helper("try-get", "long", "optional-helper")}
      [] target.name = "TryGetBool" -> {Helper("try-get", "bool", "optional-helper")}
      [] target.name = "TryGetValue" -> {Helper("try-get", "json", "optional-helper")}
      [] target.name = "GetIntOrDefault" -> {Helper("defaulted", "int", "defaulted-helper")}
      [] target.name = "get_Item" -> {Helper("direct-index", "json", "conditional-or-required")}
      [] OTHER -> {}
conversion_type(target) ==
    CASE target.name = "ToInt" -> {"int"} [] target.name = "ToLong" -> {"long"} [] target.name = "ToBoolean" -> {"bool"}
      [] target.name \in {"get_Count", "get_Keys"} -> {"collection"}
      [] target.name = "get_IsArray" -> {"array"} [] target.name = "get_IsObject" -> {"object"}
      [] target.name = "op_Explicit" -> {IF target.result \in {"string", "bool", "long", "int"} THEN target.result ELSE "explicit-cast"}
      [] OTHER -> {}

\* A copy, a sum and a load through a register carry its taint.
propagate_taint(taint, ins) ==
    LET If(holds) == IF holds THEN taint \cup {ins.dst} ELSE taint \ {ins.dst}
    IN  CASE ins.op \in {"mov", "add"} -> If(ins.src \in taint)
          [] ins.op = "ldr" -> If(ins.base \in taint)
          [] OTHER -> taint \ {ins.dst}

\* One instruction after the literal's load.  The first helper call that x1 reaches is
\* the access; the next conversion after it gives a JSON value its type.
Referred(s, ins, at) ==
    LET kinds == helper_kind(ins.target)
        types == conversion_type(ins.target)
        found == s.access = {} /\ kinds # {} /\ "x1" \in s.taint
        typed == s.access # {} /\ types # {} /\ (CHOOSE a \in s.access : TRUE).type \in {"json", "explicit-cast"}
    IN  CASE s.done -> s
          [] ~s.done /\ ins.op \in {"b", "br", "ret"} -> [s EXCEPT !.done = TRUE]
          [] ~s.done /\ ins.op = "b.cond" -> [s EXCEPT !.branched = TRUE]
          [] ~s.done /\ ins.op = "bl" ->
                IF typed THEN [s EXCEPT !.access = {[a EXCEPT !.type = CHOOSE t \in types : TRUE, !.conversion = {at}] : a \in @}, !.done = TRUE]
                ELSE IF s.access # {} THEN [s EXCEPT !.calls = @ + 1, !.done = s.calls + 1 >= MaxPostCalls]
                ELSE IF found THEN [s EXCEPT !.access = {[at |-> at, style |-> h.style, type |-> h.type, conversion |-> {},
                                                          optionality |-> h.optionality, branched |-> s.branched] : h \in kinds},
                                             !.taint = {"x0"}]
                ELSE [s EXCEPT !.taint = @ \ CallerSaved]
          [] OTHER -> [s EXCEPT !.taint = propagate_taint(@, ins)]
classify_ref(code, load, reg) ==
    LET rest == SubSeq(code, load + 1, IF load + MaxFlow < Len(code) THEN load + MaxFlow ELSE Len(code))
    IN  FoldLeft(LAMBDA s, i : Referred(s, rest[i], load + i),
                 [taint |-> {reg}, branched |-> FALSE, access |-> {}, calls |-> 0, done |-> FALSE],
                 [i \in DOMAIN rest |-> i]).access

\* values: slot -> the literals there.
Classified(m, values) ==
    UNION {{[task |-> m.task, method |-> m.method, rva |-> m.rva, field |-> f, load |-> r.load,
             access |-> classify_ref(m.code, r.load, r.reg)] : f \in m.fields \cap values[r.slot]} :
           r \in exact_slot_refs(m.code, DOMAIN values)}
FieldAccesses(tasks, values) ==
    LET rows == UNION {Classified(m, values) : m \in response_methods(tasks)}
    IN  [accesses |-> UNION {{[task |-> r.task, method |-> r.method, rva |-> r.rva, field |-> r.field, load |-> r.load,
                               access |-> a.at, conversion |-> a.conversion, type |-> a.type, style |-> a.style,
                               branched |-> a.branched] : a \in r.access} : r \in rows},
         unclassified |-> {<<r.rva, r.field, r.load>> : r \in {r \in rows : r.access = {}}}]

---------------------------------------------------------------------------
(* analyze-task-response-consumers.py *)
Origin(row) == <<row.task, row.method, row.field>>
Values(s, r) == IF r \in DOMAIN s.values THEN s.values[r] ELSE {}
With(values, r, origins) == IF origins = {} THEN Restrict(values, DOMAIN values \ {r})
                            ELSE [x \in DOMAIN values \cup {r} |-> IF x = r THEN origins ELSE values[x]]
propagate_alias(regs, ins) ==
    IF ins.op \in {"mov", "add"} THEN IF ins.src \in regs THEN regs \cup {ins.dst} ELSE regs \ {ins.dst} ELSE regs \ {ins.dst}

\* A call keeps what is in the registers that it saves.  What an access returns has the
\* access's origins; a conversion passes on those of its argument.
StoreStep(s, ins, at, accesses, conversions) ==
    LET saved  == Restrict(s.values, DOMAIN s.values \ CallerSaved)
        result == IF at \in {a.at : a \in accesses} THEN {a.origin : a \in {a \in accesses : a.at = at}}
                  ELSE IF at \in conversions THEN Values(s, "x0") ELSE {}
    IN  CASE ins.op = "bl" -> [s EXCEPT !.this = @ \ CallerSaved, !.values = With(saved, "x0", result)]
          [] ins.op = "str" -> [s EXCEPT !.stores = @ \cup (IF ins.base \in s.this THEN {[origin |-> o, offset |-> ins.disp, at |-> at] :
                                                                                           o \in Values(s, ins.src)} ELSE {})]
          [] ins.op \in {"mov", "add"} -> [s EXCEPT !.this = propagate_alias(@, ins), !.values = With(@, ins.dst, Values(s, ins.src))]
          [] OTHER -> [s EXCEPT !.this = propagate_alias(@, ins),
                                !.values = IF ins.dst \in s.this THEN @ ELSE With(@, ins.dst, {})]
\* rows: of C3; layouts: task -> offsets of its fields.
trace_parser_stores(m, rows, layouts) ==
    LET mine == {r \in rows : r.rva = m.rva}
        accesses == {[at |-> r.access, origin |-> Origin(r)] : r \in mine}
        conversions == UNION {r.conversion : r \in mine}
        end == FoldLeft(LAMBDA s, i : StoreStep(s, m.code[i], i, accesses, conversions),
                        [this |-> {"x0"}, values |-> [r \in {} |-> {}], stores |-> {}], [i \in DOMAIN m.code |-> i])
    IN  IF m.owner \notin DOMAIN layouts THEN {} ELSE {s \in end.stores : s.offset \in layouts[m.owner]}

\* Loads of a stored offset by a method of the task.
ThisAt(code, i) == FoldLeft(LAMBDA regs, ins : IF ins.op = "bl" THEN regs \ CallerSaved ELSE propagate_alias(regs, ins),
                            {"x0"}, SubSeq(code, 1, i - 1))
find_task_readers(methods, stores) ==
    UNION {{[task |-> m.owner, offset |-> m.code[i].disp, reader |-> m.rva, load |-> i] :
            i \in {i \in DOMAIN m.code : /\ m.code[i].op = "ldr" /\ m.code[i].base \in ThisAt(m.code, i)
                                         /\ \E s \in stores : s.origin[1] = m.owner /\ s.offset = m.code[i].disp}} : m \in methods}
\* branches: every direct bl or b of the image, [site, target, kind, caller].
map_reader_callers(branches, readers) ==
    {[reader |-> r, site |-> b.site, kind |-> b.kind, caller |-> b.caller] :
     <<b, r>> \in {p \in branches \X readers : p[1].target = p[2].reader /\ p[1].caller # 0}}

Relation(origin, stores, readers, callers) ==
    LET mine == {s \in stores : s.origin = origin}
        read == {r \in readers : \E s \in mine : r.task = origin[1] /\ r.offset = s.offset}
    IN  CASE mine = {} -> "no-direct-task-field-store" [] mine # {} /\ read = {} -> "stored-no-task-owned-reader"
          [] read # {} /\ ~\E c \in callers : c.reader \in read -> "stored-reader-no-direct-caller"
          [] OTHER -> "stored-reader-direct-caller"
\* targets: C17's rows, [route, task, method, field]; several routes may share an origin.
build_report(targets, stores, readers, callers) ==
    [fields |-> {[route |-> t.route, origin |-> Origin(t), relation |-> Relation(Origin(t), stores, readers, callers)] : t \in targets},
     origins |-> Cardinality({Origin(t) : t \in targets})]
\* methods: the client's, [owner, rva, code]; accesses: the rows of C3.
ConsumerReport(targets, accesses, methods, branches, layouts) ==
    LET rows    == {r \in accesses : Origin(r) \in {Origin(t) : t \in targets}}
        stores  == UNION {trace_parser_stores(m, rows, layouts) : m \in methods}
        readers == find_task_readers(methods, stores)
    IN  build_report(targets, stores, readers, map_reader_callers(branches, readers))
=============================================================================
