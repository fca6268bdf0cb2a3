----------------------------- MODULE ClientTypes -----------------------------
(***************************************************************************)
(* The inventory of the tasks (C2, analyze-server-contracts): the types    *)
(* that descend from NetworkTask, the literals that their request and      *)
(* response methods load, and the endpoints these point to.                *)
(*                                                                         *)
(* A type is [ns, short, base, words]; base is [ns, short] as it is        *)
(* written, with ns "" for a bare name, and words is the name in words.  A *)
(* method is [owner, rva, hints, code].                                    *)
(***************************************************************************)
EXTENDS Integers, Sequences, FiniteSets, SequencesExt

CONSTANTS MaxDepth,      \* max_depth of inheritance_chain
          Lookahead,     \* LITERAL_LOOKAHEAD
          MaxLiterals,   \* MAX_METHOD_LITERALS
          MaxMethods,    \* MAX_TASK_METHODS
          Primitives     \* the names of PRIMITIVES

NoBase == [ns |-> "", short |-> ""]
Name(t) == [ns |-> t.ns, short |-> t.short]

---------------------------------------------------------------------------
(* Descendants *)
Called(types, name) == {t \in types : Name(t) = name}
Shorts(types, short) == {t \in types : t.short = short}
\* A bare name is the type of no namespace first, then the owner's, then the only one.
resolve_base(types, owner) ==
    LET written == Called(types, owner.base)
        beside  == IF owner.base.ns = "" THEN Called(types, [owner.base EXCEPT !.ns = owner.ns]) ELSE {}
        shorts  == Shorts(types, owner.base.short)
        near    == {t \in shorts : t.ns = owner.ns}
    IN  CASE owner.base = NoBase -> {}
          [] owner.base # NoBase /\ written # {} -> written
          [] written = {} /\ beside # {} -> beside
          [] written \cup beside = {} /\ Cardinality(shorts) = 1 -> shorts
          [] written \cup beside = {} /\ Cardinality(shorts) > 1 /\ Cardinality(near) = 1 -> near
          [] OTHER -> {}
\* The names up to the first base that is no known type, or MaxDepth of them.
Climb(types, s) ==
    LET parents == resolve_base(types, s.at)
        fresh   == {p \in parents : Name(p) \notin ToSet(s.chain)}
        ends    == IF s.at.base # NoBase /\ Last(s.chain) # s.at.base THEN Append(s.chain, s.at.base) ELSE s.chain
    IN  IF s.done THEN s
        ELSE IF fresh = {} THEN [s EXCEPT !.chain = ends, !.done = TRUE]
        ELSE LET p == CHOOSE p \in fresh : TRUE IN [s EXCEPT !.chain = Append(@, Name(p)), !.at = p]
inheritance_chain(types, t) ==
    FoldLeft(LAMBDA s, i : Climb(types, s), [chain |-> <<Name(t)>>, at |-> t, done |-> FALSE], [i \in 1..MaxDepth |-> i]).chain
is_network_task(types, t) == \E n \in ToSet(inheritance_chain(types, t)) : n.short = "NetworkTask"

---------------------------------------------------------------------------
(* Literals.  An instruction is [op, dst, src, base, imm]; "ldp" also writes src.   *)
method_role(m) ==
    CASE "response" \in m.hints -> "response" [] "response" \notin m.hints /\ "request" \in m.hints -> "request"
      [] m.hints = {"lifecycle"} -> "lifecycle" [] OTHER -> "other"
\* A literal is [shapes, rank]; rank orders the values.
classify_contract_literal(l) ==
    CASE "long" \in l.shapes -> {}
      [] "api_path" \in l.shapes -> {"api_path"}
      [] "header" \in l.shapes -> {"header"}
      [] "field_key" \in l.shapes -> {"field_key"}
      [] "dotted" \in l.shapes -> {"identifier"} [] OTHER -> {}

Forget(regs, rs) == Restrict(regs, DOMAIN regs \ rs)
Learn(regs, r, n) == [x \in DOMAIN regs \cup {r} |-> IF x = r THEN n ELSE regs[x]]
Stops == {"b", "b.cond", "br", "ret"}
ScanStep(s, ins, memory, literals) ==
    LET known  == ins.base \in DOMAIN s.regs
        place  == s.regs[ins.base] + ins.imm
        loaded == memory[place]
        seen   == IF loaded \in DOMAIN literals THEN {[kind |-> k, value |-> literals[loaded]] : k \in classify_contract_literal(literals[loaded])} ELSE {}
    IN  CASE s.done \/ ins.op \in Stops -> [s EXCEPT !.done = TRUE]
          [] ~s.done /\ ins.op = "adrp" -> [s EXCEPT !.regs = Learn(@, ins.dst, ins.imm)]
          [] ~s.done /\ ins.op = "add" /\ known -> [s EXCEPT !.regs = Learn(@, ins.dst, place)]
          [] ~s.done /\ ins.op = "ldr" /\ known /\ place \in DOMAIN memory ->
                 [s EXCEPT !.regs = Learn(@, ins.dst, loaded), !.found = @ \cup seen]
          [] ~s.done /\ ins.op \in {"bl", "blr"} -> [s EXCEPT !.regs = Forget(@, DOMAIN @)]
          [] ~s.done /\ ins.op \in {"cmp", "cbz"} -> s
          [] OTHER -> [s EXCEPT !.regs = Forget(@, {ins.dst})]
From(code, i, memory, literals) ==
    FoldLeft(LAMBDA s, ins : ScanStep(s, ins, memory, literals), [regs |-> [r \in {} |-> 0], found |-> {}, done |-> FALSE],
             SubSeq(code, i, IF i + Lookahead - 1 < Len(code) THEN i + Lookahead - 1 ELSE Len(code))).found
\* The first MaxLiterals, by kind and value.
KindRank(kind) == CASE kind = "api_path" -> 1 [] kind = "field_key" -> 2 [] kind = "header" -> 3 [] OTHER -> 4
Earlier(a, b) == KindRank(a.kind) < KindRank(b.kind) \/ (a.kind = b.kind /\ a.value.rank < b.value.rank)
scan_method_literals(code, memory, literals) ==
    LET found == UNION {From(code, i, memory, literals) : i \in {i \in DOMAIN code : code[i].op = "adrp"}}
    IN  {l \in found : Cardinality({e \in found : Earlier(e, l)}) < MaxLiterals}

---------------------------------------------------------------------------
(* Endpoints: [group, key, words, path], path being the rank of a literal.          *)
normalize_endpoint_name(words) ==
    FoldLeft(LAMBDA w, suffix : IF IsSuffix(suffix, w) THEN SubSeq(w, 1, Len(w) - Len(suffix)) ELSE w, words,
             <<<<"Network", "Task">>, <<"Task">>, <<"Api">>, <<"Request">>, <<"Response">>>>)
correlate_endpoints(t, records, endpoints) ==
    LET paths   == {l.value.rank : l \in {l \in UNION {r.literals : r \in records} : l.kind = "api_path"}}
        bypath  == {e \in endpoints : e.path \in paths}
        norm    == normalize_endpoint_name(t.words)
        matches == {e \in endpoints : norm # <<>> /\ normalize_endpoint_name(e.words) = norm}
        byname  == IF Cardinality(matches) = 1 THEN matches \ bypath ELSE {}
    IN  {[group |-> e.group, key |-> e.key, evidence |-> "literal_path"] : e \in bypath}
        \cup {[group |-> e.group, key |-> e.key, evidence |-> "normalized_type_name"] : e \in byname}

summarize_task(t, chain, methods, memory, literals, endpoints) ==
    LET records == {[rva |-> m.rva, role |-> method_role(m), literals |-> scan_method_literals(m.code, memory, literals)] :
                    m \in {m \in methods : method_role(m) \in {"request", "response"}}}
    IN  [type |-> Name(t), inheritance |-> chain, methods |-> Cardinality(methods), records |-> records,
         literals |-> UNION {r.literals : r \in records}, endpoints |-> correlate_endpoints(t, records, endpoints)]

\* Methods are named by their owner; one without a namespace only if the short name is
\* that of one type.
MethodsOf(types, t, methods) ==
    LET own == {m \in methods : m.owner = Name(t)}
    IN  IF own # {} THEN own
        ELSE IF Cardinality(Shorts(types, t.short)) = 1 THEN {m \in methods : m.owner = [ns |-> "", short |-> t.short]} ELSE {}
Inventory(types, methods, memory, literals, endpoints) ==
    LET tasks == {t \in types : Name(t) # [ns |-> "Cute", short |-> "NetworkTask"] /\ is_network_task(types, t)}
    IN  [ok |-> \A t \in tasks : Cardinality(MethodsOf(types, t, methods)) <= MaxMethods,
         tasks |-> {summarize_task(t, inheritance_chain(types, t), MethodsOf(types, t, methods), memory, literals, endpoints) : t \in tasks}]

---------------------------------------------------------------------------
(***************************************************************************)
(* What the dump says of the parameters of requests: the types that derive *)
(* from the parameter bases or stand in a request method's signature, with *)
(* their fields (extract-request-param-layouts), and the parameters of     *)
(* those signatures (build-request-signature-schema).                      *)
(*                                                                         *)
(* Here a name is a sequence of parts, a part a sequence of words.  A line *)
(* of the dump is [op, name, bases, field]: "namespace", "type", "Fields", *)
(* "Methods", "field", "{", "}", "{}" or other.                            *)
(***************************************************************************)
NoType == [name |-> << >>, bases |-> << >>, fields |-> << >>]

\* parse_dump.  Within a type only its sections and braces are looked at, and only a line
\* that is a closing brace ends it.
Braces(line) == CASE line.op = "{" -> 1 [] line.op = "}" -> -1 [] OTHER -> 0
Outside(s, line) ==
    CASE line.op = "namespace" -> [s EXCEPT !.space = line.name]
      [] line.op = "type"      -> [s EXCEPT !.type = [name |-> s.space \o line.name, bases |-> line.bases, fields |-> << >>],
                                            !.listed = FALSE, !.depth = 0]
      [] OTHER                 -> s
Within(s, line) ==
    LET depth == s.depth + Braces(line)
        type  == IF line.op = "field" /\ s.listed THEN [s.type EXCEPT !.fields = Append(@, line.field)] ELSE s.type
    IN  CASE line.op \in {"Fields", "Methods"}  -> [s EXCEPT !.listed = line.op = "Fields"]
          [] line.op = "}" /\ depth <= 0        -> [s EXCEPT !.types = Append(@, type), !.type = NoType, !.listed = FALSE, !.depth = 0]
          [] OTHER                              -> [s EXCEPT !.type = type, !.depth = depth]
parse_dump(lines) ==
    LET step(s, line) == IF s.type = NoType THEN Outside(s, line) ELSE Within(s, line)
        end == FoldLeft(step, [space |-> << >>, type |-> NoType, listed |-> FALSE, depth |-> 0, types |-> << >>], lines)
    IN  end.types \o (IF end.type = NoType THEN << >> ELSE <<end.type>>)

\* The words of a name without what separates them.
canonical(name) == FlattenSeq(name)
Short(type)     == <<Last(type.name)>>

\* The types whose first or further bases are among those found so far, by their names
\* with or without the namespace.
BaseNames == {canonical(n) : n \in {<<<<"Base", "Param">>>>, <<<<"Stage">>, <<"Base", "Param">>>>,
                                    <<<<"Post", "Params">>>>, <<<<"Cute">>, <<"Post", "Params">>>>}}
Lineage(types) ==
    LET names(found) == BaseNames \cup UNION {{canonical(types[i].name), canonical(Short(types[i]))} : i \in found}
        more(found, n) == found \cup {i \in DOMAIN types : \E b \in ToSet(types[i].bases) : canonical(b) \in names(found)}
    IN  {types[i].name : i \in FoldLeft(more, {}, [n \in DOMAIN types |-> n])}

\* A method of the inventory is [task, role, objects], the names of the object types in its
\* signature; a C name is one part, "System_" the word of a framework's.
Excluded(name) ==
    \E p \in {<<"System_">>, <<"MethodInfo">>, <<"Cute", "Network", "Task">>, <<"Stage", "Network", "Task">>} : IsPrefix(p, name[1])
request_object_c_names(methods) ==
    UNION {{o \in m.objects : ~Excluded(o) /\ canonical(o) # canonical(m.task)} : m \in {m \in methods : m.role = "request"}}
DirectMatches(types, methods) ==
    LET wanted == {canonical(o) : o \in request_object_c_names(methods)}
    IN  {t.name : t \in {t \in ToSet(types) : {canonical(t.name), canonical(Short(t))} \cap wanted # {}}}
Layouts(lines, methods) ==
    LET types == parse_dump(lines)
    IN  {[type |-> t.name, bases |-> t.bases, fields |-> SelectSeq(t.fields, LAMBDA f : ~f.static),
          lineage |-> t.name \in Lineage(types), direct |-> t.name \in DirectMatches(types, methods)] :
         t \in {t \in ToSet(types) : t.name \in Lineage(types) \cup DirectMatches(types, methods)}}

---------------------------------------------------------------------------
(* Signatures.  A signature is a sequence of tokens; the words of a parameter are   *)
(* those of its type and its name, "*" a token of its own.                          *)
split_params(raw) ==
    LET step(s, ch) ==
            IF ch = "," /\ s.depth = 0 THEN [s EXCEPT !.parts = Append(@, s.part), !.part = << >>]
            ELSE [s EXCEPT !.part = Append(@, ch),
                           !.depth = CASE ch \in {"<", "(", "["} -> @ + 1
                                       [] ch \in {">", ")", "]"} /\ @ > 0 -> @ - 1
                                       [] OTHER -> @]
        end == FoldLeft(step, [parts |-> << >>, part |-> << >>, depth |-> 0], raw)
    IN  SelectSeq(Append(end.parts, end.part), LAMBDA p : p # << >>)

\* ends: the suffix of a type's name, "_array" or "_o", if it has one.
classify_type(type, ends) ==
    LET base == SelectSeq(type, LAMBDA w : w \notin {"*", "const"})
    IN  CASE Len(base) = 1 /\ base[1] \in Primitives           -> "primitive"
          [] base = <<"System_String_o">>                      -> "string"
          [] base # << >> /\ ends[Last(base)] = "_array"       -> "array"
          [] base # << >> /\ ends[Last(base)] = "_o"           -> "object"
          [] "*" \in ToSet(type)                               -> "pointer-object"
          [] OTHER                                             -> "other"
parse_signature(signature, ends) ==
    LET open  == SelectInSeq(signature, LAMBDA ch : ch = "(")
        close == SelectLastInSeq(signature, LAMBDA ch : ch = ")")
        parts == split_params(SubSeq(signature, open + 1, close - 1))
        known == SelectSeq(parts, LAMBDA p : Len(p) > 1 /\ Last(p) \notin {"__this", "method"})
    IN  IF open = 0 \/ close = 0 THEN << >>
        ELSE [i \in DOMAIN known |-> [name |-> Last(known[i]), kind |-> classify_type(Front(known[i]), ends)]]

\* An endpoint's parameters are those of all request methods of its tasks.
SemanticParameters(methods, task, ends) ==
    {p.name : p \in UNION {ToSet(parse_signature(m.signature, ends)) : m \in {m \in methods : m.task = task}}}
=============================================================================
