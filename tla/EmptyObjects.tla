---------------------------- MODULE EmptyObjects ----------------------------
(***************************************************************************)
(* C19, C19b and C19c: does a parser of the client accept an empty object, *)
(* or an empty list, as the data of a response?  The calls after the keys  *)
(* (or the count) of the data are listed, the guards on "no element" are   *)
(* found by following the keys through registers and stack slots in        *)
(* address order, and a guard proves the empty container when its exit     *)
(* path reaches an exit of the graph without an indexed access.            *)
(*                                                                         *)
(* An instruction has target, dst, src and slot ("heap" off the stack) as  *)
(* its op needs them, writes, and for a call callee, the sequence of the   *)
(* names the dump has for its target.                                      *)
(***************************************************************************)
EXTENDS Cfg, TLC

CONSTANTS MaxPostKeysCalls                \* 64

CallerSaved == {"x0", "x1", "x17"}        \* x0..x17
Registers   == CallerSaved \cup {"x19", "x20"}
Slots       == {0, 8}
Zeros       == {"zero", "xzr"}            \* an immediate 0, the zero register; "imm" is any other immediate

-----------------------------------------------------------------------------
(* C19.  The kinds of the calls from the keys on, one for each name of a target,  *)
(* as many as the report takes.                                                   *)
ClassifyCall(name) ==
    CASE name = "JsonData.get_Item" -> "json-index"
      [] name = "JsonData.get_Keys" -> "json-keys"
      [] name = "JsonData.get_Count" -> "json-count"
      [] name = "GetEnumerator" -> "enumerator"
      [] name = "MoveNext" -> "move-next"
      [] name = "get_Count" -> "collection-count"
      [] name = "get_Item" -> "collection-index"
      [] name = "Add" -> "collection-add"
      [] OTHER -> "other"
PostKeysCalls(prog, keys) ==
    LET calls == FlattenSeq([a \in DOMAIN prog |->
                    IF a >= keys /\ prog[a].op = "bl"
                    THEN [i \in DOMAIN prog[a].callee |-> [site |-> a, kind |-> ClassifyCall(prog[a].callee[i])]] ELSE << >>])
    IN  SubSeq(calls, 1, Min({Len(calls), MaxPostKeysCalls}))
Topology(prog, end, managed, keys) ==
    LET cfg == build_cfg(prog, end, managed)
        calls == PostKeysCalls(prog, keys)
    IN  [complete |-> cfg.complete, reachable |-> Reached(cfg, keys), dominates |-> Dominates(cfg, keys), calls |-> calls,
         indexes |-> {calls[i].site : i \in {i \in DOMAIN calls : calls[i].kind = "json-index"}}]

\* The one keys site of a route whose only field is an object: rows of C3 for it.
KeysSite(route, accesses) ==
    LET rows == {r \in accesses : r.origin = route.origin /\ r.conversion = "get_Keys"}
    IN  IF Cardinality({r.site : r \in rows}) = 1 /\ Cardinality({r.method : r \in rows}) = 1 THEN {r.site : r \in rows} ELSE {}

-----------------------------------------------------------------------------
(* What a register or slot holds: keys, count, iterator, move-next, current, zero. *)
CallSemantic(names) ==
    CASE "GetEnumerator" \in names -> "get-enumerator"
      [] "MoveNext" \in names /\ "GetEnumerator" \notin names -> "move-next"
      [] names \cap {"get_Count", "JsonData.get_Count"} # {} /\ names \cap {"GetEnumerator", "MoveNext"} = {} -> "count"
      [] "get_Current" \in names /\ names \cap {"GetEnumerator", "MoveNext", "get_Count", "JsonData.get_Count"} = {} -> "current"
      [] OTHER -> "other"
Derived(tag, semantic) ==
    CASE tag = "keys" /\ semantic = "count" -> "count"
      [] tag = "keys" /\ semantic = "get-enumerator" -> "iterator"
      [] tag = "iterator" /\ semantic = "move-next" -> "move-next"
      [] tag = "iterator" /\ semantic = "current" -> "current"
      [] OTHER -> "none"

Unknown == [r \in Registers |-> "none"]
Clobber(regs) == [r \in Registers |-> IF r \in CallerSaved THEN "none" ELSE regs[r]]
Start0 == [regs |-> Unknown, stack |-> [s \in Slots |-> "none"], seen |-> FALSE, cmp |-> "none", guards |-> {}]

PropagateSimple(ins, s) ==
    CASE ins.op \in {"mov", "orr"} -> [s EXCEPT !.regs[ins.dst] = IF ins.src \in Registers THEN s.regs[ins.src] ELSE "none"]
      [] ins.op = "str" -> IF ins.slot \in Slots THEN [s EXCEPT !.stack[ins.slot] = s.regs[ins.src]] ELSE s
      [] ins.op = "ldr" -> [s EXCEPT !.regs[ins.dst] = IF ins.slot \in Slots THEN s.stack[ins.slot] ELSE "none"]
      [] OTHER -> [s EXCEPT !.regs = [r \in Registers |-> IF r \in ins.writes THEN "none" ELSE @[r]]]

\* The way a guard on zero goes when it is zero.
ZeroSuccessor(prog, a) ==
    IF prog[a].op \in {"cbz", "b.eq"} THEN {prog[a].target} \ {0}
    ELSE IF prog[a].op \in {"cbnz", "b.ne"} THEN {a + 1} \cap DOMAIN prog ELSE {}

\* An exit that is reached from there through no block with a forbidden call.
AvoidsTo(cfg, successor, forbidden) ==
    LET blocked == {cfg.block[f] : f \in forbidden \cap DOMAIN cfg.block}
        open == [b \in DOMAIN cfg.succ |-> cfg.succ[b] \ blocked]
    IN  Reached(cfg, successor) /\ cfg.block[successor] \notin blocked
        /\ Closure(open, {cfg.block[successor]}) \cap cfg.exits # {}
GuardsAt(prog, cfg, a, successors, forbidden) ==
    {[at |-> a, zero |-> z, proven |-> AvoidsTo(cfg, z, forbidden)] : z \in successors}

\* C19b: one instruction at or after the keys.
KeysStep(prog, cfg, keys, forbidden, s, a) ==
    LET ins == prog[a]
        Guard(successors) == [s EXCEPT !.guards = @ \cup GuardsAt(prog, cfg, a, successors, forbidden), !.cmp = "none"]
    IN  CASE a < keys -> s
          [] a = keys /\ ins.op = "bl" -> [s EXCEPT !.regs = [Unknown EXCEPT !["x0"] = "keys"], !.seen = TRUE, !.cmp = "none"]
          [] a >= keys /\ ~(a = keys /\ ins.op = "bl") /\ ~s.seen -> s
          [] a > keys /\ s.seen /\ ins.op = "bl" ->
                [s EXCEPT !.regs = [Clobber(@) EXCEPT !["x0"] = Derived(s.regs["x0"], CallSemantic(ToSet(ins.callee)))], !.cmp = "none"]
          [] a > keys /\ s.seen /\ ins.op = "blr" -> [s EXCEPT !.regs = Clobber(@), !.cmp = "none"]
          [] a > keys /\ s.seen /\ ins.op \in {"cbz", "cbnz"} ->
                Guard(IF s.regs[ins.src] \in {"count", "move-next"} THEN ZeroSuccessor(prog, a) ELSE {})
          [] a > keys /\ s.seen /\ ins.op = "cmp" /\ ins.dst \in {"zero", "imm"} ->
                [s EXCEPT !.cmp = IF ins.dst = "zero" /\ s.regs[ins.src] \in {"count", "move-next"} THEN s.regs[ins.src] ELSE "none"]
          [] a > keys /\ s.seen /\ IsConditional(ins) /\ ins.op \notin {"cbz", "cbnz"} ->
                Guard(IF s.cmp # "none" /\ ins.op # "tbz" THEN ZeroSuccessor(prog, a) ELSE {})
          [] OTHER -> PropagateSimple(ins, s)
\* Its graph has its own rules of completeness.
ZeroComplete(prog, managed, exits) ==
    /\ prog # << >> /\ exits # {}
    /\ \A a \in DOMAIN prog :
         /\ prog[a].op # "br"
         /\ IsConditional(prog[a]) => prog[a].target \in DOMAIN prog
         /\ prog[a].op = "b" => prog[a].target \in DOMAIN prog \cup managed
zero_cfg(prog, end, managed) ==
    LET cfg == build_cfg(prog, end, managed)
    IN  [cfg EXCEPT !.complete = ZeroComplete(prog, managed, cfg.exits)]
ZeroIteration(prog, end, managed, keys) ==
    LET cfg == zero_cfg(prog, end, managed)
        indexes == Topology(prog, end, managed, keys).indexes
        s == FoldLeft(LAMBDA acc, a : KeysStep(prog, cfg, keys, indexes, acc, a), Start0, [i \in DOMAIN prog |-> i])
    IN  [guards |-> s.guards,
         class |-> IF cfg.complete /\ \E g \in s.guards : g.proven THEN "parser-empty-object-zero-path" ELSE "not-proven"]

-----------------------------------------------------------------------------
(* C19c.  Does the parser index by number or by key, and what does it do at zero?  *)
ItemKind(signature) == IF signature = "string" THEN "string-key" ELSE IF signature = "int" THEN "integer-index" ELSE "unknown"
PostCountItems(prog, count) ==
    {a \in DOMAIN prog : a > count /\ prog[a].op = "bl" /\ "JsonData.get_Item" \in ToSet(prog[a].callee)}
Usage(kinds) ==
    IF kinds = {"integer-index"} THEN "integer-index-sequence"
    ELSE IF "string-key" \in kinds THEN "string-key-object"
    ELSE IF kinds = {} THEN "count-only-no-index" ELSE "mixed-or-unknown-index"

\* At zero both sides of the comparison are equal, in either order.
EqualSuccessor(prog, a) ==
    IF prog[a].op \in Equal THEN {prog[a].target} \ {0}
    ELSE IF prog[a].op \in {"b.ne", "b.lt", "b.gt"} THEN {a + 1} \cap DOMAIN prog ELSE {}

CountStep(prog, cfg, count, forbidden, s, a) ==
    LET ins == prog[a]
        Tag(r) == IF r \in Zeros THEN "zero" ELSE IF r = "imm" THEN "none" ELSE s.regs[r]
        Guard(successors) == [s EXCEPT !.guards = @ \cup GuardsAt(prog, cfg, a, successors, forbidden), !.cmp = "none"]
    IN  CASE a < count -> s
          [] a = count /\ ins.op = "bl" -> [s EXCEPT !.regs = [Unknown EXCEPT !["x0"] = "count"], !.seen = TRUE, !.cmp = "none"]
          [] a > count /\ ins.op = "bl" -> [s EXCEPT !.regs = Clobber(@), !.cmp = "none"]
          [] a > count /\ s.seen /\ ins.op \in {"cbz", "cbnz"} -> Guard(IF s.regs[ins.src] = "count" THEN ZeroSuccessor(prog, a) ELSE {})
          [] a > count /\ s.seen /\ ins.op = "cmp" ->
                [s EXCEPT !.cmp = IF {Tag(ins.src), Tag(ins.dst)} = {"count", "zero"} THEN "count" ELSE "none"]
          [] a > count /\ s.seen /\ IsConditional(ins) /\ ins.op \notin {"cbz", "cbnz"} ->
                Guard(IF s.cmp # "none" THEN EqualSuccessor(prog, a) ELSE {})
          [] a > count /\ s.seen /\ ins.op = "mov" /\ ins.src \in Zeros -> [s EXCEPT !.regs[ins.dst] = "zero"]
          [] a > count /\ s.seen /\ (ins.op \in {"str", "ldr", "orr", "op", "ret", "b", "br", "blr"}
                                      \/ (ins.op = "mov" /\ ins.src \notin Zeros)) -> PropagateSimple(ins, s)
          [] OTHER -> s
EmptyContainer(prog, end, managed, count) ==
    LET cfg == zero_cfg(prog, end, managed)
        items == PostCountItems(prog, count)
        usage == Usage({ItemKind(prog[a].signature) : a \in items})
        s == FoldLeft(LAMBDA acc, a : CountStep(prog, cfg, count, items, acc, a), Start0, [i \in DOMAIN prog |-> i])
        proven == cfg.complete /\ \E g \in s.guards : g.proven
    IN  [usage |-> usage, guards |-> s.guards,
         shape |-> IF ~proven THEN "none" ELSE IF usage = "integer-index-sequence" THEN "[]"
                   ELSE IF usage = "string-key-object" THEN "{}" ELSE "none"]

---------------------------------------------------------------------------
(* C27: is the response value that one parser fetches ever observed?  The value is *)
(* followed, from the instruction after its access, through copies and stack slots *)
(* along the graph of Cfg; whatever else is done with it is a sink.  Here an       *)
(* instruction also has base and index of str and ldr, and reads.                  *)
Arguments   == {"x0", "x1", "x7"}         \* x0..x7
Clobbered   == Arguments \cup {"x8", "x17"}         \* x0..x17
StackBases  == {"sp", "x29"}
Entry       == [regs |-> {"x0"}, stack |-> {}]

\* What an instruction observes of the tainted registers of s.
Sinks(ins, s, managed) ==
    LET arguments == s.regs \cap Arguments # {}
    IN  CASE ins.op \in {"bl", "blr"} -> IF arguments THEN {"call-argument"} ELSE {}
          [] ins.op = "ret" -> IF "x0" \in s.regs THEN {"return-value"} ELSE {}
          [] ins.op = "b" -> IF ins.target \in managed /\ arguments THEN {"tail-call-argument"} ELSE {}
          [] ins.op \in {"mov", "orr"} -> {}
          [] ins.op = "str" -> IF ins.src \in s.regs /\ ins.base \notin StackBases THEN {"nonstack-store"} ELSE {}
          [] ins.op = "ldr" -> IF ~(ins.base \in StackBases /\ ins.slot \in s.stack) /\ ins.base \in s.regs
                               THEN {"dereference"} ELSE {}
          [] OTHER -> IF ins.reads \cap s.regs # {} THEN {"nontransparent-register-use"} ELSE {}

\* Where the value is after it.
After(ins, s) ==
    LET Copied(tainted) == IF tainted THEN s.regs \cup {ins.dst} ELSE s.regs \ {ins.dst}
    IN  CASE ins.op \in {"bl", "blr"} -> [s EXCEPT !.regs = @ \ Clobbered]
          [] ins.op \in {"ret", "b"} -> s
          [] ins.op \in {"mov", "orr"} -> [s EXCEPT !.regs = Copied(ins.src \in s.regs)]
          [] ins.op = "str" -> IF ins.src \in s.regs /\ ins.base \in StackBases THEN [s EXCEPT !.stack = @ \cup {ins.slot}] ELSE s
          [] ins.op = "ldr" -> [s EXCEPT !.regs = Copied(ins.base \in StackBases /\ ins.slot \in s.stack)]
          [] OTHER -> [s EXCEPT !.regs = @ \ ins.writes]

\* An edge that leaves what is known, of the instruction at a.
Unresolved(prog, managed, a) ==
    LET ins == prog[a] IN
    \/ ins.op = "b" /\ ins.target \notin DOMAIN prog /\ ins.target \notin managed
    \/ IsConditional(ins) /\ ins.target \notin DOMAIN prog
    \/ ins.op = "br"

\* The states at the addresses reached, joined over the edges until nothing changes.
RECURSIVE Flow(_, _)
Flow(prog, at) ==
    LET Into(a) == {p \in DOMAIN at : a \in Targets(prog, p)}
        known == DOMAIN at \cup {a \in DOMAIN prog : Into(a) # {}}
        next == [a \in known |->
                    LET before == (IF a \in DOMAIN at THEN {at[a]} ELSE {}) \cup {After(prog[p], at[p]) : p \in Into(a)}
                    IN  [regs |-> UNION {s.regs : s \in before}, stack |-> UNION {s.stack : s \in before}]]
    IN  IF next = at THEN at ELSE Flow(prog, next)

\* The value fetched by the call at access.
HasEntry(prog, access) == access \in DOMAIN prog /\ prog[access].op = "bl" /\ access + 1 \in DOMAIN prog
Analyze(prog, managed, access) ==
    LET at == Flow(prog, (access + 1) :> Entry)
        unresolved == {a \in DOMAIN at : Unresolved(prog, managed, a)}
        live == {a \in unresolved : at[a].regs \cup at[a].stack # {}}
        sinks == UNION {Sinks(prog[a], at[a], managed) : a \in DOMAIN at}
                 \cup (IF live # {} THEN {"unknown-control-flow-with-live-taint"} ELSE {})
        exits == {a \in DOMAIN at : prog[a].op = "ret" \/ (prog[a].op = "b" /\ prog[a].target \in managed)}
        dead == sinks = {} /\ unresolved = {} /\ exits # {}
    IN  [class |-> IF dead THEN "dead-value" ELSE "observable-or-unresolved", safe |-> dead, sinks |-> sinks,
         unresolved |-> unresolved, returns |-> {a \in exits : prog[a].op = "ret"},
         tails |-> {a \in exits : prog[a].op = "b"}, accepted |-> FALSE, visible |-> FALSE,
         promotion |-> IF dead THEN "parser-local-safe-if-field-present" ELSE "not-proven-by-c27"]

\* The one route of the earlier report whose value has no known consumer.
TargetRow(doc, route) ==
    LET rows == {r \in doc.rows : r.route = route}
    IN  IF doc.schema = 1 /\ doc.count = 15 /\ Cardinality(rows) = 1
        THEN {r \in rows : r.identified /\ r.resolution = "no-consumer-recovered" /\ r.located} ELSE {}
=============================================================================
