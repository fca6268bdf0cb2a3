--------------------------- MODULE ParameterChain ---------------------------
(***************************************************************************)
(* Where LoadTask's parameters are written (analyze-load-task-parameters): *)
(* the accesses of SetParameter to its object and to the parameter object  *)
(* it loads, the bases of its owner, and the methods of related types that *)
(* access a target's offset or load its literal.                           *)
(*                                                                         *)
(* An instruction is [op, dst, src, base, disp, imm]; "ldp" also writes    *)
(* src.  A type of the dump is [short, bases, params, fields], a field is   *)
(* [offset, target], target "" for any other name.                         *)
(***************************************************************************)
EXTENDS Naturals, FiniteSets, SequencesExt

CONSTANTS ChildOffset,  \* PARAM_CHILD_SELF_OFFSET
          MaxOffsets,   \* MAX_OFFSETS
          MaxHits,      \* MAX_RELATED_OFFSET_HITS
          MaxXrefs,     \* MAX_LITERAL_HITS
          MaxBases,     \* MAX_INHERITANCE_DEPTH
          MaxRelated,   \* MAX_RELATED_METHODS
          Window        \* LITERAL_LOOKAHEAD

memory_access_kind(ins) == CASE ins.op \in {"ldr", "ldp"} -> "read" [] ins.op = "str" -> "write" [] OTHER -> "none"
load_destination_registers(ins) == CASE ins.op = "ldr" -> {ins.dst} [] ins.op = "ldp" -> {ins.dst, ins.src} [] OTHER -> {}
written_registers(ins) ==
    load_destination_registers(ins) \cup (IF ins.op \in {"mov", "add", "adrp", "op"} THEN {ins.dst} ELSE {})

---------------------------------------------------------------------------
(* SetParameter.  A call leaves all but x0; both registers of a pair at the         *)
(* child's offset are taken for the child.                                          *)
Copies(ins, aliases) ==
    IF ins.src \in aliases /\ (ins.op = "mov" \/ (ins.op = "add" /\ ins.imm = 0)) THEN {ins.dst} ELSE {}
ChainStep(s, ins, at) ==
    LET kind    == memory_access_kind(ins)
        through == kind # "none" /\ ins.base \in s.self
        inside  == kind # "none" /\ ins.base \in s.child
        found   == IF through /\ ins.disp = ChildOffset THEN load_destination_registers(ins) ELSE {}
        lost    == written_registers(ins) \cup (IF ins.op \in {"bl", "blr"} THEN {"x0"} ELSE {})
    IN  [self    |-> (s.self \ lost) \cup Copies(ins, s.self),
         child   |-> (s.child \ lost) \cup Copies(ins, s.child) \cup found,
         own     |-> s.own \cup (IF through THEN {[at |-> at, offset |-> ins.disp, kind |-> kind]} ELSE {}),
         members |-> s.members \cup (IF inside THEN {[at |-> at, offset |-> ins.disp, kind |-> kind]} ELSE {})]
\* targets: offset -> the targets there.
scan_parameter_chain(code, targets) ==
    LET end  == FoldLeft(LAMBDA s, i : ChainStep(s, code[i], i), [self |-> {"x0"}, child |-> {}, own |-> {}, members |-> {}],
                         [i \in DOMAIN code |-> i])
        hits == {a \in end.members : a.offset \in DOMAIN targets}
        On(kinds) == UNION {targets[a.offset] : a \in {a \in hits : a.kind \in kinds}}
    IN  [ok |-> /\ Cardinality({a.offset : a \in end.own}) <= MaxOffsets
                /\ Cardinality({a.offset : a \in end.members}) <= MaxOffsets,
         params |-> {a \in end.own : a.offset = ChildOffset}, hits |-> hits,
         written |-> On({"write"}), read |-> On({"read"})]

---------------------------------------------------------------------------
(* Related methods.  Any access at a target's offset is a hit, whatever its base.   *)
scan_direct_target_offsets(code, targets) ==
    {[at |-> i, kind |-> memory_access_kind(code[i]), targets |-> targets[code[i].disp]] :
     i \in {i \in DOMAIN code : memory_access_kind(code[i]) # "none" /\ code[i].disp \in DOMAIN targets}}

\* Loads of a target's literal; a call is not known to change a register.
XrefStep(s, ins, at, memory, literals) ==
    LET known == ins.base \in DOMAIN s.regs
        place == s.regs[ins.base] + ins.disp
        Holds(r, n) == [s EXCEPT !.regs = [x \in DOMAIN @ \cup {r} |-> IF x = r THEN n ELSE @[x]]]
    IN  CASE s.done \/ ins.op \in {"b", "br", "ret"} -> [s EXCEPT !.done = TRUE]
          [] ~s.done /\ ins.op = "adrp" -> Holds(ins.dst, ins.imm)
          [] ~s.done /\ ins.op = "add" /\ ins.src \in DOMAIN s.regs -> Holds(ins.dst, s.regs[ins.src] + ins.imm)
          [] ~s.done /\ ins.op = "ldr" /\ known /\ place \in DOMAIN memory ->
                [Holds(ins.dst, memory[place]) EXCEPT !.found = @ \cup (IF memory[place] \in literals THEN {at} ELSE {})]
          [] ~s.done /\ ins.op \in {"bl", "cmp", "cbz"} -> s
          [] OTHER -> [s EXCEPT !.regs = Restrict(@, DOMAIN @ \ {IF ins.op = "str" THEN ins.src ELSE ins.dst})]
scan_literal_xrefs(code, memory, literals) ==
    UNION {FoldLeft(LAMBDA s, i : XrefStep(s, code[i], i, memory, literals), [regs |-> [r \in {} |-> 0], found |-> {}, done |-> FALSE],
                    [n \in 1..(IF first + Window - 1 < Len(code) THEN Window ELSE Len(code) - first + 1) |-> first + n - 1]).found :
           first \in {i \in DOMAIN code : code[i].op = "adrp"}}

---------------------------------------------------------------------------
(* The dump: a sequence of types.  A base is the first type of its short name.      *)
choose_type_entry(types, short) == {i \in DOMAIN types : types[i].short = short /\ \A j \in 1..(i - 1) : types[j].short # short}
inheritance_summary(types, owner) ==
    FoldLeft(LAMBDA chain, n :
        LET at == Last(chain)
            next == IF types[at].bases = <<>> THEN {} ELSE choose_type_entry(types, types[at].bases[1])
            fresh == {i \in next : types[i].short \notin {types[j].short : j \in ToSet(chain)}}
        IN  IF Len(chain) < n THEN chain ELSE IF fresh = {} THEN chain ELSE Append(chain, CHOOSE i \in fresh : TRUE),
        <<owner>>, [n \in 1..(MaxBases - 1) |-> n])
find_offset_field_in_type(types, i, offset) == {f \in types[i].fields : f.offset = offset}
param_offsets(types) ==
    LET declared == UNION {types[i].fields : i \in {i \in DOMAIN types : types[i].params}}
    IN  [o \in {f.offset : f \in {f \in declared : f.target # ""}} |-> {f.target : f \in {f \in declared : f.offset = o /\ f.target # ""}}]
\* A method is [rva, owner, mentions, code], owner being a short name.
find_related_methods(methods, names) == {m \in methods : m.owner \in names \/ m.mentions}

\* setter: the method and the position of its owner.
LoadTaskReport(types, owner, setter, methods, memory, literals) ==
    LET targets   == param_offsets(types)
        bases     == inheritance_summary(types, owner)
        related   == find_related_methods(methods, {"LoadTaskParam", "LoadTask"} \cup {types[i].short : i \in ToSet(bases)})
        chain     == scan_parameter_chain(setter.code, targets)
        direct(m) == scan_direct_target_offsets(m.code, targets)
    IN  [ok |-> /\ \E i \in DOMAIN types : \E f \in types[i].fields : f.target # ""
                /\ Cardinality(related) <= MaxRelated /\ chain.ok
                /\ \A m \in related : /\ Cardinality(direct(m)) <= MaxHits
                                    /\ Cardinality(scan_literal_xrefs(m.code, memory, literals)) <= MaxXrefs,
         bases |-> bases, field |-> find_offset_field_in_type(types, owner, ChildOffset),
         chain |-> chain,
         accesses |-> {[rva |-> m.rva, hits |-> direct(m)] : m \in {m \in related : direct(m) # {}}},
         xrefs |-> {m.rva : m \in {m \in related : scan_literal_xrefs(m.code, memory, literals) # {}}}]
=============================================================================
