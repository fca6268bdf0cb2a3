--------------------------------- MODULE Cfg --------------------------------
(***************************************************************************)
(* The control-flow graphs that the parser analyses (C5, C19, C27) build   *)
(* from the disassembled functions of the client, and the requiredness of  *)
(* response fields that C5 derives from them.                              *)
(*                                                                         *)
(* The instructions of a function are a sequence, an address being an      *)
(* index: the function spans 1..end - 1, of which the disassembler decodes *)
(* a prefix.  An instruction is a record with at least op and target, the  *)
(* target of a branch or 0 where it is no immediate.  managed is the set   *)
(* of the method starts of the dump, outside of the function but for 1.    *)
(***************************************************************************)
EXTENDS Integers, FiniteSets, FiniteSetsExt, SequencesExt

MaxFunctionSize == 131072                 \* 0x20000

\* A function ends at the next known start, or after the maximal size.
FunctionEnd(starts, start) ==
    Min({start + MaxFunctionSize} \cup {s \in starts : s > start})

\* segments [address, size, filled]: what lies beyond the file's bytes is not read.
Read(segments, address, size) ==
    LET holds == {i \in DOMAIN segments : address \in segments[i].address..segments[i].address + segments[i].size - 1}
    IN  IF holds = {} THEN 0
        ELSE Max({0, Min({size, segments[Min(holds)].address + segments[Min(holds)].filled - address})})

\* The starts of the dump, and the methods of a start: rows [address, name] and addresses.
MethodStarts(rows, addresses) == {r.address : r \in {r \in rows : r.address > 0}} \cup {a \in addresses : a > 0}
ManagedNames(rows, address) == {r.name : r \in {r \in rows : r.address = address /\ address > 0 /\ r.name # ""}}
Managed(rows) == {r.address : r \in {r \in rows : ManagedNames(rows, r.address) # {}}}

-----------------------------------------------------------------------------
Equal      == {"cbz", "b.eq", "b.ge", "b.le"}
Conditions == Equal \cup {"cbnz", "b.ne", "b.lt", "b.gt", "tbz"}
IsConditional(ins) == ins.op \in Conditions
IsBranch(ins) == ins.op = "b" \/ IsConditional(ins)
Stops(ins) == ins.op \in {"b", "br", "ret"}

Inside(end, t) == t \in 1..end - 1
Leaders(prog) ==
    ({1} \cup {prog[a].target : a \in {a \in DOMAIN prog : IsBranch(prog[a])}}
         \cup {a + 1 : a \in {a \in DOMAIN prog : IsBranch(prog[a]) \/ Stops(prog[a])}}) \cap DOMAIN prog

Terminal(ins, end, managed) ==
    CASE ins.op = "ret" -> "return"
      [] ins.op = "br" -> "indirect-branch"
      [] ins.op = "b" /\ Inside(end, ins.target) -> "branch"
      [] ins.op = "b" /\ ~Inside(end, ins.target) /\ ins.target \in managed -> "managed-tail-call-exit"
      [] ins.op = "b" /\ ~Inside(end, ins.target) /\ ins.target \notin managed -> "unverified-external-branch"
      [] IsConditional(ins) -> "conditional"
      [] OTHER -> "fallthrough"

\* The addresses an instruction may be followed by.
Targets(prog, a) ==
    ((IF IsBranch(prog[a]) THEN {prog[a].target} ELSE {}) \cup (IF Stops(prog[a]) THEN {} ELSE {a + 1})) \cap DOMAIN prog

RECURSIVE Closure(_, _)
Closure(succ, reached) ==
    LET more == reached \cup UNION {succ[b] : b \in reached}
    IN  IF more = reached THEN reached ELSE Closure(succ, more)

\* Dominators: all blocks at first, then what the predecessors have in common, until nothing changes.
RECURSIVE Settle(_, _)
Settle(succ, dom) ==
    LET next == [b \in DOMAIN dom |-> IF b = 1 THEN {1} ELSE
                    {b} \cup {d \in DOMAIN dom : \A p \in DOMAIN dom : b \in succ[p] => d \in dom[p]}]
    IN  IF next = dom THEN dom ELSE Settle(succ, next)

\* Why a graph cannot be trusted, dead code included.
Reasons(prog, end, managed, exits) ==
    LET branches == {prog[a] : a \in {a \in DOMAIN prog : IsBranch(prog[a])}}
        When(condition, reason) == IF condition THEN {reason} ELSE {}
        Undecoded(t) == Inside(end, t) /\ t \notin DOMAIN prog
    IN  When(prog = << >>, "entry-not-disassembled")
        \cup When(\E i \in branches : i.target = 0, "branch-without-target")
        \cup When(\E i \in branches : Undecoded(i.target), "internal-target-not-disassembled")
        \cup When(\E i \in branches : Undecoded(i.target), "successor-not-in-cfg")
        \cup When(\E i \in branches : IsConditional(i) /\ ~Inside(end, i.target), "conditional-external-target")
        \cup When(\E a \in DOMAIN prog : prog[a].op = "br", "indirect-branch")
        \cup When(\E i \in branches : Terminal(i, end, managed) = "unverified-external-branch", "unverified-external-tail-branch")
        \cup When(exits = {} /\ prog # << >>, "no-reachable-known-exit")

build_cfg(prog, end, managed) ==
    LET leaders == Leaders(prog)
        block == [a \in DOMAIN prog |-> Max({l \in leaders : l <= a})]
        last == [b \in leaders |-> Max({a \in DOMAIN prog : block[a] = b})]
        succ == [b \in leaders |-> {block[a] : a \in Targets(prog, last[b])}]
        reachable == IF prog = << >> THEN {} ELSE Closure(succ, {1})
        Ending(kind) == {b \in reachable : Terminal(prog[last[b]], end, managed) = kind}
        exits == Ending("return") \cup Ending("managed-tail-call-exit")
        reasons == Reasons(prog, end, managed, exits)
    IN  [complete |-> reasons = {}, reasons |-> reasons, block |-> block, last |-> last, succ |-> succ,
         reachable |-> reachable, returns |-> Ending("return"), tails |-> Ending("managed-tail-call-exit"), exits |-> exits,
         dom |-> Settle(succ, [b \in reachable |-> IF b = 1 THEN {1} ELSE reachable])]

-----------------------------------------------------------------------------
\* C5 of an access: by the style of the access, then by the graph.
Reached(cfg, a) == a \in DOMAIN cfg.block /\ cfg.block[a] \in cfg.reachable
Dominates(cfg, a) == Reached(cfg, a) /\ cfg.exits # {} /\ \A e \in cfg.exits : cfg.block[a] \in cfg.dom[e]
Requiredness(cfg, access, style) ==
    CASE style = "try-get" -> "optional-conditional"
      [] style = "defaulted" -> "optional-defaulted"
      [] style = "direct-index" ->
            IF ~Reached(cfg, access) \/ ~cfg.complete THEN "unknown-cfg"
            ELSE IF Dominates(cfg, access) THEN "required-path" ELSE "conditional-direct"
      [] OTHER -> "unknown"
Confidence(requiredness) == IF requiredness \in {"unknown-cfg", "unknown"} THEN "low" ELSE "high"

\* The first version of C5 knows no tail exits.
build_cfg_v1(prog, end) == build_cfg(prog, end, {})
RequirednessV1(prog, end, access, style) == Requiredness(build_cfg_v1(prog, end), access, style)

\* The accesses of a field: the strictest kind of them.
Strictness == <<"required-path", "conditional-direct", "unknown-cfg", "optional-defaulted", "optional-conditional">>
Aggregate(kinds) ==
    IF kinds \cap ToSet(Strictness) = {} THEN "unknown"
    ELSE Strictness[Min({i \in DOMAIN Strictness : Strictness[i] \in kinds})]

\* accesses [task, method, field, kind]: one contract per field of a method, under the
\* endpoints its task is bound to.
FieldContracts(accesses) ==
    LET Of(a) == {b \in accesses : <<b.task, b.method, b.field>> = <<a.task, a.method, a.field>>}
    IN  {[task |-> a.task, method |-> a.method, field |-> a.field, requiredness |-> Aggregate({b.kind : b \in Of(a)}),
          accesses |-> Cardinality(Of(a))] : a \in accesses}
EndpointsOf(endpoints, task) == {e.route : e \in {e \in endpoints : task \in e.tasks /\ e.route # ""}}

=============================================================================
