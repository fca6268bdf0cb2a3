---------------------------- MODULE ClientChecks ----------------------------
(***************************************************************************)
(* Checks of the task inventory (ClientTypes): the descendants against the *)
(* language's own rule for bases, the literals against executions; and of  *)
(* the search for LoadTask's parameters (ParameterChain); of the edges     *)
(* between parsers, state and its readers (CallEdges); of the parameter    *)
(* types of requests (ClientTypes).                                        *)
(***************************************************************************)
EXTENDS Integers, Sequences, FiniteSets, SequencesExt, TLC

LOCAL C == INSTANCE ClientTypes WITH MaxDepth <- 2, Lookahead <- 6, MaxLiterals <- 2, MaxMethods <- 4,
                                     Primitives <- {"int32_t", "bool"}

LOCAL N(ns, short) == [ns |-> ns, short |-> short]
LOCAL Type(ns, short, base) == [ns |-> ns, short |-> short, base |-> base, words |-> <<short, "Task">>]
LOCAL Root == Type("Cute", "NetworkTask", C!NoBase)
LOCAL Bases == {N("", "NetworkTask"), N("Cute", "NetworkTask"), N("", "Mid"), N("A", "Mid"), C!NoBase}
LOCAL Worlds == {{Root, Type("A", "Leaf", leaf), Type(ns1, "Mid", mid1), Type(ns2, "Mid", mid2)} :
           leaf \in Bases, ns1 \in {"", "A"}, ns2 \in {"A", "B"}, mid1 \in Bases, mid2 \in Bases}
LOCAL Proper == {w \in Worlds : Cardinality({C!Name(t) : t \in w}) = Cardinality(w)}
LOCAL Leaf(types) == CHOOSE t \in types : t.short = "Leaf"
\* The language: a bare name is a type of the same namespace, or else of none, or one
\* that a using directive brings in, which the dump does not show.
LOCAL Bases1(types, t) ==
    LET beside == C!Called(types, [t.base EXCEPT !.ns = IF @ = "" THEN t.ns ELSE @])
        global == C!Called(types, t.base)
        used   == IF t.base.ns = "" /\ t.base.short = "NetworkTask" THEN {Root} ELSE {}
    IN  IF t.base = C!NoBase THEN {} ELSE IF beside # {} THEN beside ELSE IF global # {} THEN global ELSE used
LOCAL Derives(types, t) == \E b \in Bases1(types, t) : b = Root \/ \E c \in Bases1(types, b) : c = Root
LOCAL Shadowed(types) == \E t, u \in types : t.short = u.short /\ t.ns = "" /\ u.ns = "A"
LOCAL Loops(types) == \E t \in types : t.short = "Mid" /\ t.base.short = "Mid"

\* Unless a bare name is a type of the same namespace and one of none, the tasks are
\* the types that derive from NetworkTask.
ASSUME TasksAreTheDescendants ==
    \A types \in {w \in Proper : ~Shadowed(w) /\ ~Loops(w)} :
        LET foreign == Leaf(types).base.short = "Mid" /\ Bases1(types, Leaf(types)) = {}
        IN  ~foreign => (C!is_network_task(types, Leaf(types)) <=> Derives(types, Leaf(types)))
ASSUME GlobalTypesShadowTheNamespace ==
    \E types \in {w \in Proper : ~Loops(w)} : Shadowed(types) /\ Derives(types, Leaf(types)) /\ ~C!is_network_task(types, Leaf(types))
\* A chain of MaxDepth bases is followed to its end, and a longer one is not.
ASSUME DeepTasksAreMissed ==
    \A n \in 1..4 :
        LET names == <<"T1", "T2", "T3", "T4", "T5">>
            types == {Root} \cup {Type("A", names[i], IF i = n THEN N("Cute", "NetworkTask") ELSE N("", names[i + 1])) : i \in 1..n}
        IN  C!is_network_task(types, CHOOSE t \in types : t.short = "T1") <=> n <= 2

---------------------------------------------------------------------------
(* Literals.  Slot 72 holds the literal at 300, slot 80 that at 301.                *)
LOCAL Memory == 72 :> 300 @@ 80 :> 301 @@ 88 :> 7
LOCAL Literal(shapes, rank) == [shapes |-> shapes, rank |-> rank]
LOCAL Literals == 300 :> Literal({"field_key"}, 5) @@ 301 :> Literal({"header"}, 1)
LOCAL Op(op, dst, src, base, imm) == [op |-> op, dst |-> dst, src |-> src, base |-> base, imm |-> imm]
LOCAL Steps == {Op("adrp", "x8", "", "", 64), Op("adrp", "x9", "", "", 72), Op("add", "x8", "", "x8", 8), Op("add", "x9", "", "x8", 8),
          Op("ldr", "x1", "", "x8", 8), Op("ldr", "x1", "", "x9", 0), Op("ldr", "x8", "", "x8", 8), Op("op", "x8", "", "", 0),
          Op("cmp", "x8", "", "", 0), Op("bl", "", "", "", 0)}
LOCAL Doubtful == {Op("mov", "x9", "x8", "", 0), Op("ldp", "x1", "x8", "", 0), Op("str", "x8", "", "", 0)}
\* An execution knows what a register holds if it was computed from an adrp; a call
\* keeps x8 and x9 here if kept holds.
LOCAL Unknown == -1
LOCAL Runs(code, kept) ==
    C!FoldLeft(LAMBDA s, ins :
        LET place == IF ins.base = "" \/ s.regs[ins.base] = Unknown THEN Unknown ELSE s.regs[ins.base] + ins.imm
            value == IF place \in DOMAIN Memory THEN Memory[place] ELSE Unknown
        IN  CASE ins.op = "adrp" -> [s EXCEPT !.regs[ins.dst] = ins.imm]
              [] ins.op = "add" -> [s EXCEPT !.regs[ins.dst] = place]
              [] ins.op = "ldr" -> [s EXCEPT !.regs[ins.dst] = value, !.seen = @ \cup ({value} \cap DOMAIN Literals)]
              [] ins.op = "mov" -> [s EXCEPT !.regs[ins.dst] = s.regs[ins.src]]
              [] ins.op = "ldp" -> [s EXCEPT !.regs[ins.dst] = Unknown, !.regs[ins.src] = Unknown]
              [] ins.op = "op" -> [s EXCEPT !.regs[ins.dst] = Unknown]
              [] ins.op = "bl" /\ ~kept -> [s EXCEPT !.regs = [r \in DOMAIN @ |-> Unknown]]
              [] OTHER -> s,
        [regs |-> [r \in {"x1", "x8", "x9"} |-> Unknown], seen |-> {}], code).seen
LOCAL Scanned(code) == {l.value.rank : l \in C!scan_method_literals(code, Memory, Literals)}
LOCAL Ranks(addresses) == {Literals[a].rank : a \in addresses}
LOCAL Codes(S) == [1..4 -> S]

\* In a method without a branch the literals reported are those that are loaded.
ASSUME LiteralsAreLoaded == \A code \in Codes(Steps) : Scanned(code) = Ranks(Runs(code, FALSE))
\* A copied address is not followed, nor is one kept over a call; the second register
\* of a pair is taken to keep its address, and a stored register to lose it.
ASSUME CopiesAreLost ==
    LET Through(ins) == <<Op("adrp", "x8", "", "", 64), Op("adrp", "x9", "", "", 0), ins, Op("ldr", "x1", "", "x8", 8), Op("ldr", "x1", "", "x9", 16)>>
    IN  /\ \A ins \in Doubtful : Scanned(Through(ins)) # Ranks(Runs(Through(ins), TRUE))
        /\ Scanned(Through(Op("ldp", "x1", "x8", "", 0))) \ Ranks(Runs(Through(Op("ldp", "x1", "x8", "", 0)), TRUE)) # {}
        /\ Scanned(Through(Op("bl", "", "", "", 0))) = {} /\ Ranks(Runs(Through(Op("bl", "", "", "", 0)), TRUE)) # {}
\* What is after the first branch is only seen through an address formed there.
ASSUME BranchesEndTheWindow ==
    \A op \in C!Stops : \A rest \in [1..2 -> Steps] :
        LET load == <<Op("ldr", "x1", "", "x8", 8)>> IN
        Scanned(<<Op("adrp", "x8", "", "", 64), Op(op, "", "", "", 0)>> \o rest \o load) = Scanned(rest \o load)
\* A method with more literals than are kept loses its headers before its keys.
ASSUME TruncationDropsHeaders ==
    LET memory == [s \in {16, 24, 32} |-> s]
        kinds(h) == [s \in {16, 24, 32} |-> IF s = 16 THEN Literal({h}, 1) ELSE Literal({"field_key"}, s)]
        code == <<Op("adrp", "x8", "", "", 0)>> \o [i \in 1..3 |-> Op("ldr", "x1", "", "x8", 8 * i + 8)]
    IN  \A h \in {"header", "api_path", "dotted"} :
            16 \in {l.value.rank : l \in C!scan_method_literals(code, memory, kinds(h))} => h = "api_path"

---------------------------------------------------------------------------
(* Endpoints: a name decides only if it is one endpoint's.                          *)
LOCAL Endpoint(group, words, path) == [group |-> group, key |-> 1, words |-> words, path |-> path]
\* Suffixes are taken off once each, in a fixed order.
LOCAL LiveNames == {<<"Live">>, <<"Live", "Task">>, <<"Live", "Request">>, <<"Live", "Response", "Task">>, <<"Live", "Response", "Request">>}
LOCAL OtherNames == {<<"Unit">>, <<"Live", "Request", "Response">>, <<"Live", "Task", "Task">>, <<"Task">>}
ASSUME NamesDecideAlone ==
    \A w, v \in LiveNames \cup OtherNames : \A path \in {5, 6} :
        LET t == [Type("A", "Live", C!NoBase) EXCEPT !.words = <<"Live", "Request", "Task">>]
            found == C!correlate_endpoints(t, {[literals |-> {[kind |-> "api_path", value |-> Literal({"api_path"}, 5)]}]},
                                           {Endpoint("A", w, path), Endpoint("B", v, 6)})
        IN  {e.group : e \in found} = (IF path = 5 THEN {"A"} ELSE {})
                \cup (IF (w \in LiveNames) = (v \in LiveNames) THEN {} ELSE IF w \in LiveNames THEN {"A"} ELSE {"B"})

---------------------------------------------------------------------------
(* LoadTask and its parameters (ParameterChain).                                    *)
LOCAL L == INSTANCE ParameterChain WITH ChildOffset <- 48, MaxOffsets <- 3, MaxHits <- 2, MaxXrefs <- 8, MaxBases <- 3, MaxRelated <- 4, Window <- 6

LOCAL Ins(op, dst, src) == [op |-> op, dst |-> dst, src |-> src, base |-> "x0", disp |-> 0, imm |-> 0]
LOCAL Load(dst, base, off) == [Ins("ldr", dst, "") EXCEPT !.base = base, !.disp = off]
LOCAL Pair(a, b, base, off) == [Ins("ldp", a, b) EXCEPT !.base = base, !.disp = off]
LOCAL Put(src, base, off) == [Ins("str", "", src) EXCEPT !.base = base, !.disp = off]
LOCAL Targets == 64 :> {"next_api"} @@ 80 :> {"load_state"}
LOCAL Regs == {"x0", "x1", "x8", "x19"}

---------------------------------------------------------------------------
(* An execution: a register holds the task, its parameter object, or another; a call   *)
(* keeps x19.  What is read from a task at 48 is its parameter object.                  *)
LOCAL Held(code, i) ==
    L!FoldLeft(LAMBDA h, ins :
        LET At(off) == IF h[ins.base] = "task" /\ off = 48 THEN "params" ELSE "other"
        IN  CASE ins.op = "mov" \/ (ins.op = "add" /\ ins.imm = 0) -> [h EXCEPT ![ins.dst] = h[ins.src]]
              [] ins.op = "ldr" -> [h EXCEPT ![ins.dst] = At(ins.disp)]
              [] ins.op = "ldp" -> [h EXCEPT ![ins.dst] = At(ins.disp), ![ins.src] = At(ins.disp + 8)]
              [] ins.op \in {"op", "add"} -> [h EXCEPT ![ins.dst] = "other"]
              [] ins.op = "bl" -> [r \in Regs |-> IF r = "x19" THEN h[r] ELSE "other"]
              [] OTHER -> h,
        [r \in Regs |-> IF r = "x0" THEN "task" ELSE "other"], SubSeq(code, 1, i - 1))
LOCAL Accessed(code, kind) ==
    UNION {Targets[code[i].disp] : i \in {i \in DOMAIN code : /\ L!memory_access_kind(code[i]) = kind /\ code[i].disp \in DOMAIN Targets
                                                              /\ Held(code, i)[code[i].base] = "params"}}
LOCAL Exact(code) == LET c == L!scan_parameter_chain(code, Targets)
               IN  c.ok => c.written = Accessed(code, "write") /\ c.read = Accessed(code, "read")
LOCAL ChainSteps == {Ins("mov", "x19", "x0"), Ins("mov", "x0", "x19"), Ins("mov", "x1", "x8"), [Ins("add", "x8", "x19") EXCEPT !.imm = 8], Ins("add", "x1", "x0"),
          Load("x8", "x0", 48), Load("x8", "x19", 48), Load("x0", "x0", 48), Load("x1", "x8", 80), Put("x19", "x8", 64), Put("x0", "x1", 80), Ins("op", "x8", "")}
\* In a method without calls or pairs, the targets said to be read and written are those
\* that its executions read and write through the parameter object.
ASSUME ParametersAreFollowed == \A code \in [1..4 -> ChainSteps] : Exact(code)
\* The second register of a pair is taken for the object though it holds the next field,
\* and an object that a pair loads second is missed.
ASSUME PairsAreMisread ==
    LET code(off) == <<Pair("x1", "x8", "x0", off), Put("x19", "x8", 64)>>
    IN  /\ L!scan_parameter_chain(code(48), Targets).written = {"next_api"} /\ Accessed(code(48), "write") = {}
        /\ L!scan_parameter_chain(code(40), Targets).written = {} /\ Accessed(code(40), "write") = {"next_api"}
\* Over a call only x0 is forgotten: what a callee leaves in x1 or x8 passes for the object.
ASSUME CallsKeepTheirScratch ==
    \A r \in {"x1", "x8", "x19"} :
        LET code == <<Load(r, "x0", 48), Ins("bl", "", ""), Put("x0", r, 64)>>
        IN  L!scan_parameter_chain(code, Targets).written = {"next_api"} /\ (Accessed(code, "write") # {} <=> r = "x19")

---------------------------------------------------------------------------
(* A hit of a related method is any access at the offset.                              *)
ASSUME OffsetsAreAnyones ==
    \A off \in {64, 72, 80} : \A base \in Regs :
        LET code == <<Put("x8", base, off)>> IN
        /\ L!scan_direct_target_offsets(code, Targets) = {[at |-> 1, kind |-> "write", targets |-> Targets[o]] : o \in {off} \cap DOMAIN Targets}
        /\ Accessed(code, "write") = {}
\* A register keeps its address over a call here, so that a load behind one is a
\* reference to the literal even if the register is the callee's.
LOCAL Data == 72 :> 300
LOCAL Adrp(r, n) == [Ins("adrp", r, "") EXCEPT !.imm = n]
ASSUME AddressesSurviveCalls ==
    LET code(ins) == <<Adrp("x8", 64), ins, Load("x1", "x8", 8)>>
    IN  /\ \A ins \in {Ins("bl", "", ""), Ins("cmp", "x8", ""), Ins("mov", "x1", "x8")} : L!scan_literal_xrefs(code(ins), Data, {300}) = {3}
        /\ \A ins \in {Ins("ret", "", ""), Ins("mov", "x8", "x1"), Put("x8", "x0", 0)} : L!scan_literal_xrefs(code(ins), Data, {300}) = {}

---------------------------------------------------------------------------
(* The dump.  Types are found by their short names, the first one wins.                *)
LOCAL ChainType(short, bases, params, fields) == [short |-> short, bases |-> bases, params |-> params, fields |-> fields]
LOCAL Field(offset, target) == [offset |-> offset, target |-> target]
LOCAL Dump(first) == (IF first THEN <<ChainType("Mid", <<>>, FALSE, {})>> ELSE <<>>)
               \o <<ChainType("LoadTask", <<"Mid", "Root">>, FALSE, {Field(48, "")}), ChainType("Mid", <<"Top">>, FALSE, {}), ChainType("Top", <<"Root">>, FALSE, {}),
                    ChainType("LoadTaskParam", <<>>, TRUE, {Field(64, "next_api"), Field(80, "load_state")}), ChainType("Root", <<>>, FALSE, {})>>
LOCAL Owner(first) == IF first THEN 2 ELSE 1
LOCAL Method(rva, owner, mentions) == [rva |-> rva, owner |-> owner, mentions |-> mentions, code |-> <<Put("x8", "x0", 64)>>]
LOCAL Methods == {Method(1, "Top", FALSE), Method(2, "Other", TRUE), Method(3, "Other", FALSE), Method(4, "Root", FALSE), Method(5, "LoadTask", FALSE)}
LOCAL Report(first) == L!LoadTaskReport(Dump(first), Owner(first), [code |-> <<Load("x8", "x0", 48), Put("x1", "x8", 64)>>], Methods, Data, {300})
\* The bases of the owner end at the depth limit, or earlier when another type of a base's
\* short name comes first in the dump; the methods of the bases beyond are not looked at.
ASSUME FirstNamesWin ==
    \A first \in BOOLEAN :
        LET r == Report(first) IN
        /\ r.ok /\ r.chain.written = {"next_api"} /\ r.field = {Field(48, "")}
        /\ [i \in DOMAIN r.bases |-> Dump(first)[r.bases[i]].short] = (IF first THEN <<"LoadTask", "Mid">> ELSE <<"LoadTask", "Mid", "Top">>)
        /\ {a.rva : a \in r.accesses} = (IF first THEN {2, 5} ELSE {1, 2, 5})

---------------------------------------------------------------------------
(* The edges of CallEdges: names and owners.                                        *)
LOCAL Has0 == [Set |-> {"Set"}, Get |-> {"Get"}, Cancel |-> {"Can"}, Used |-> {"Use"}, Search |-> {"Search"}, Parse |-> {"Parse"},
               Stage |-> {"game"}, System |-> {"framework", "low"}, WorkItem |-> {"Work", "Work[A-Z]"}, Workshop |-> {"Work"},
               WorkDataManager |-> {"Work", "Work[A-Z]", "WorkDataManager", "DataManager"}, LiveDataManager |-> {"DataManager"},
               TempData |-> {"tempdata"}, Generic |-> {"odd"}]
LOCAL E == INSTANCE CallEdges WITH Has <- Has0, Width <- 4
\* A prefix is not a word: CancelX reads, UsedX removes.  What searches neither reads nor
\* mutates, and no name does both.
ASSUME PrefixesAreNotWords ==
    /\ E!reader_kind("Cancel") = "predicate" /\ E!mutator_kind("Used") = "remove"
    /\ E!reader_kind("Search") = "none" /\ E!mutator_kind("Search") = "none"
    /\ \A n \in DOMAIN Has0 : E!reader_kind(n) = "none" \/ E!mutator_kind(n) = "none"
\* The surface of the managers of work data is nearly dead: their names begin with Work,
\* so they are work state, unless a part has a character the pattern does not know.
LOCAL Owners == UNION {[1..n -> DOMAIN Has0 \ {"Set", "Get", "Cancel", "Used", "Search", "Parse"}] : n \in 1..3}
ASSUME ManagersAreWorkState ==
    /\ \A o \in Owners : E!state_surface(o) = "work-state-manager" => "Generic" = o[Len(o)]
    /\ E!state_surface(<<"Stage", "WorkDataManager", "Generic">>) = "work-state-manager"
    /\ E!state_surface(<<"Stage", "WorkDataManager", "TempData">>) = "work-state"
    /\ E!state_surface(<<"Stage", "TempData">>) = "none" /\ E!state_surface(<<"System", "WorkItem">>) = "none"

\* C7a.  Two calls of one mutator are one relation of both sites; the endpoints of its
\* consumers are those of the parser's own task.
LOCAL Call(at, owner, name, rva) == [at |-> at, owner |-> owner, name |-> name, rva |-> rva]
LOCAL Calls == {Call(4, <<"Stage", "WorkItem">>, "Set", 64), Call(8, <<"Stage", "WorkItem">>, "Set", 64), Call(12, <<"Stage", "WorkItem">>, "Set", 72),
          Call(16, <<"Stage", "WorkItem">>, "Get", 80), Call(20, <<"Stage">>, "Set", 88), Call(24, <<"System", "WorkItem">>, "Used", 96)}
ASSUME MutationsAreTheirSites ==
    \A own, other \in SUBSET Calls :
        LET ms == E!Mutations({[task |-> "a", rva |-> 1, calls |-> own], [task |-> "b", rva |-> 2, calls |-> other]}, "a" :> {"e"})
            Sites(rva) == UNION {m.sites : m \in {m \in ms : m.parser = rva}}
        IN  /\ Sites(1) = {c.at : c \in own} \cap {4, 8, 12} /\ Sites(2) = {c.at : c \in other} \cap {4, 8, 12}
            /\ \A m, n \in ms : m.parser = n.parser /\ m.sites \cap n.sites # {} => m = n
            /\ \A m \in ms : m.kind = "set" /\ m.endpoints = (IF m.parser = 1 THEN {"e"} ELSE {})

---------------------------------------------------------------------------
(* Branches.  A branch is found with the target it has, as far as its immediate       *)
(* reaches.                                                                           *)
LOCAL Branch(op, from, to) == [op |-> op, imm |-> ((to - from) \div 4) % 16]
ASSUME BranchesAreDecoded ==
    \A from, to \in {4 * n : n \in 0..15} : (to - from) \in -32..31 =>
        \A op \in {"BL", "B"} : E!scan_direct_xrefs(from :> Branch(op, from, to), {to}) = {[site |-> from, target |-> to, bl |-> op = "BL"]}
\* A site belongs to the method it is in if that method's start is listed at all; a site
\* of a method that script.json does not know is given to the method before it.
LOCAL WorkItem == <<"Stage", "WorkItem">>
LOCAL Code(owner, name, rva) == [owner |-> owner, name |-> name, rva |-> rva]
LOCAL Bodies == {Code(WorkItem, "Get", 0), Code(<<"Stage">>, "Set", 8), Code(<<"System">>, "Set", 16)}
ASSUME AttributedToTheMethodBefore ==
    \A known \in SUBSET Bodies, listed \in SUBSET {0, 8, 16}, site \in {0, 4, 8, 12, 16, 20} :
        LET true == CHOOSE m \in Bodies : m.rva \in {site, site - 4}
            said == E!containing_methods(site, E!Boundaries(known, listed), known)
        IN  /\ true \in known => said = {true}
            /\ true \notin known /\ true.rva \in listed => said = {}
            /\ true \notin known /\ true.rva \notin listed /\ said # {} => \A m \in said : m.rva < true.rva

\* C7b.  The relations are the edges whose reader and consumer are unique, with the
\* confidence of their edges, and the list of the others is the rest.
LOCAL Mutated == {[owner |-> WorkItem, endpoints |-> {"e"}], [owner |-> <<"Stage", "Workshop">>, endpoints |-> {"f"}]}
LOCAL Images == [{4, 12, 20} -> {Branch("BL", 4, 0), Branch("B", 4, 0), Branch("BL", 12, 0), Branch("B", 20, 0), [op |-> "op", imm |-> 0]}]
LOCAL Shared == {Code(<<"Stage", "Workshop">>, "Cancel", 0), Code(<<"Stage">>, "Cancel", 8)}
ASSUME RelationsAreTheCertain ==
    \A image \in Images, methods \in {(Bodies \cup s) \ t : s \in SUBSET Shared, t \in SUBSET Bodies}, listed \in SUBSET {8, 16} :
        LET xrefs == E!StateXrefs(image, methods, listed, Mutated)
            rels  == E!StateRelations(xrefs)
            sites == UNION {r.sites : r \in rels}
        IN  /\ sites = {x.site : x \in {x \in xrefs : E!Confidence(x) \in {"high", "medium"}}}
            /\ \A r \in rels, x \in xrefs : x.site \in r.sites => E!Confidence(x) = r.confidence
            /\ \A r, s \in rels : r # s => r.sites \cap s.sites = {}
            /\ \A p \in E!EndpointConsumers(Mutated, rels) :
                 \E x \in xrefs : \E r \in x.readers : /\ r.owner = (IF p[1] = "e" THEN WorkItem ELSE <<"Stage", "Workshop">>)
                                                       /\ x.consumers = {p[2]}
\* A loop back to the first instruction of a reader is a tail call of it, by itself.
ASSUME LoopsAreConsumers ==
    LET rels == E!StateRelations(E!StateXrefs(4 :> Branch("B", 4, 0), Bodies, {}, Mutated))
        get  == CHOOSE m \in Bodies : m.name = "Get"
    IN  {<<r.key.reader, r.key.consumer, r.confidence>> : r \in rels} = {<<get, get, "medium">>}

---------------------------------------------------------------------------
(* C11 and C12.  A base task, one between it and a bound task, and another caller.   *)
LOCAL Base == <<"Stage", "BaseTask">>
LOCAL Between == <<"Stage", "Mid">>
LOCAL Bound == <<"Stage", "Task">> :> {[id |-> 1, route |-> "/a"]}
LOCAL Contract(name, rva) == [task |-> Base, owner |-> Base, name |-> name, rva |-> rva]
LOCAL Contracts0 == {Contract("Parse", 0), Contract("Get", 8)}
LOCAL Parsers(owners) == {Code(o, "Parse", 16 + 8 * Len(o) + (IF o[Len(o)] = "Mid" THEN 32 ELSE 0)) : o \in owners}
LOCAL Callers == {Code(<<"Stage", "Task">>, "Set", 24), Code(<<"Other">>, "Set", 40)}
LOCAL Dumped(space, base, mid) == <<[space |-> space, short |-> "Task", base |-> mid],
                             [space |-> <<"Stage">>, short |-> "Mid", base |-> base], [space |-> <<"Stage">>, short |-> "BaseTask", base |-> <<>>]>>
LOCAL Parents == E!parse_inheritance(Dumped(<<"Stage">>, <<"BaseTask">>, <<"Mid">>))
LOCAL Lists(image) == {<<c.owner, c.name, c.rva>> : c \in E!WithoutXref(image, Contracts0)}
LOCAL Scans == [{24, 40} -> {Branch(op, from, to) : op \in {"BL", "B"}, from \in {24, 40}, to \in {0, 8, 16}}]
LOCAL Methods1(own) == {Code(Base, "Parse", 0), Code(Base, "Get", 8)} \cup Callers \cup Parsers(own)
LOCAL Direct(image)        == E!CallerRelations(image, Contracts0, Methods1({}), {}, Bound)
LOCAL Heired(image, own)   == E!Inherited(Contracts0, Lists(image), Parents, Methods1(own), Bound)
\* No base parser reaches endpoints both ways: any branch to it, of an unbound caller or
\* a jump, hides its heirs.
ASSUME OneCallerHidesTheHeirs ==
    /\ \A image \in Scans : {r.contract : r \in Direct(image)} \cap {r.contract : r \in Heired(image, {})} = {}
    /\ LET image == 24 :> Branch("B", 24, 0) @@ 40 :> Branch("BL", 40, 8)
       IN  /\ Direct(image) = {} /\ Heired(image, {}) = {} /\ E!NonParseResiduals(Contracts0, Lists(image)) = {}
           /\ Heired(<<>>, {}) # {} /\ Cardinality(E!NonParseResiduals(Contracts0, Lists(<<>>))) = 1
\* The tasks are those that inherit the parser, as long as no type between overrides it:
\* only the task's own methods are looked at.
LOCAL Nearest(own) == IF <<"Stage", "Task">> \in own THEN <<"Stage", "Task">> ELSE IF Between \in own THEN Between ELSE Base
ASSUME IntermediateOverridesAreMissed ==
    \A own \in SUBSET {<<"Stage", "Task">>, Between} :
        /\ Nearest(own) = Base => Heired(<<>>, own) # {}
        /\ Heired(<<>>, own) # {} /\ Nearest(own) # Base <=> own = {Between}
\* What C11 or C12 refuse: one address with two identities, one identity with two
\* addresses, two identities of one endpoint.
ASSUME IdentitiesAreRefused ==
    /\ E!CallersAccept(Contracts0) /\ ~E!CallersAccept(Contracts0 \cup {Contract("Get", 0)})
    /\ E!InheritanceAccepts(Contracts0) /\ ~E!InheritanceAccepts(Contracts0 \cup {Contract("Get", 0)})
    /\ ~E!InheritedDrift(Heired(<<>>, {}))
    /\ LET twice == <<"Stage", "Task">> :> {[id |-> 1, route |-> "/a"], [id |-> 1, route |-> "/b"]}
       IN  E!InheritedDrift(E!Inherited(Contracts0, Lists(<<>>), Parents, Methods1({}), twice))
\* A bare base is one of the type's own namespace, even if it is in an outer one.
ASSUME OuterBasesAreMissed ==
    \A space \in {<<"Stage">>, <<"Stage", "Get">>}, mid \in {<<"Mid">>, Between, <<"Other">>} :
        LET parents == E!parse_inheritance(Dumped(space, <<"BaseTask">>, mid))
        IN  E!derives_from(space \o <<"Task">>, Base, parents) <=> mid = Between \/ (space = <<"Stage">> /\ mid = <<"Mid">>)

---------------------------------------------------------------------------
(* Layouts: the dump as Il2CppDumper writes it.                                       *)
LOCAL Line(op) == [op |-> op, name |-> <<>>, bases |-> <<>>, field |-> ""]
LOCAL FieldOf(f) == [Line("field") EXCEPT !.field = f]
LOCAL Printed(t) ==
    <<[Line("namespace") EXCEPT !.name = Front(t.name)], [Line("type") EXCEPT !.name = <<Last(t.name)>>, !.bases = t.bases]>>
    \o (IF t.fields = <<>> /\ ~t.methods THEN <<Line("{}")>>
        ELSE <<Line("{")>> \o (IF t.fields = <<>> THEN <<>> ELSE <<Line("Fields")>> \o [i \in DOMAIN t.fields |-> FieldOf(t.fields[i])])
             \o (IF t.methods THEN <<Line("Methods"), FieldOf("local"), Line("other")>> ELSE <<>>) \o <<Line("}")>>)
LOCAL Dumped2(types) == FlattenSeq([i \in DOMAIN types |-> Printed(types[i])])
LOCAL Parsed(types) == [i \in DOMAIN types |-> [name |-> types[i].name, bases |-> types[i].bases, fields |-> types[i].fields]]
LOCAL P(words) == <<words>>
LOCAL TypeLines == [name : {<<P("Stage"), P("Leaf")>>, <<P("Mid")>>}, bases : {<<>>, <<<<P("Mid")>>>>},
                    fields : {<<>>, <<"f">>, <<"f", "g">>}, methods : BOOLEAN]
LOCAL Written(t) == t.fields # <<>> \/ t.methods
\* A dump of types with members is read back as it is.
ASSUME DumpsAreReadBack ==
    \A a, b \in {t \in TypeLines : Written(t)} : C!parse_dump(Dumped2(<<a, b>>)) = Parsed(<<a, b>>)
\* A type without members is written {}, which does not end it: the next type is not
\* seen, and its fields are taken for those of the empty one.
ASSUME EmptyTypesSwallowTheNext ==
    \A a \in {t \in TypeLines : ~Written(t)}, b \in {t \in TypeLines : Written(t)} :
        C!parse_dump(Dumped2(<<a, b>>)) = Parsed(<<[a EXCEPT !.fields = b.fields]>>)

\* The lineage.  Every type that derives from a parameter base is in it, whatever the order
\* of the dump; so are types whose base only has the short name of one.
LOCAL BaseParam == <<<<"Base", "Param">>>>
LOCAL Param(ns, short, base) == [name |-> <<P(ns), P(short)>>, bases |-> base, fields |-> <<>>]
LOCAL ParamBases == {<<>>, <<BaseParam>>, <<<<P("Mid")>>>>, <<<<P("I")>>, <<P("A"), P("Mid")>>>>, <<<<P("B"), P("Mid")>>>>}
LOCAL ParamWorlds == {<<Param("A", "Leaf", leaf), Param("A", "Mid", mid), Param("B", "Mid", other)>> : leaf, mid, other \in ParamBases}
LOCAL Named(types, ns, base) ==
    {t \in ToSet(types) : t.name = base \/ (Len(base) = 1 /\ t.name = <<P(ns)>> \o base)}
LOCAL Up(types, found) == found \cup UNION {UNION {Named(types, t.name[1][1], b) : b \in ToSet(t.bases)} : t \in found}
LOCAL IsParam(types, t) == \E u \in Up(types, Up(types, {t})) : BaseParam \in ToSet(u.bases)
ASSUME NamespacesAreForgotten ==
    /\ \A types \in ParamWorlds :
         /\ \A t \in ToSet(types) : IsParam(types, t) => t.name \in C!Lineage(types)
         /\ C!Lineage(types) = C!Lineage(Reverse(types))
    /\ \E types \in ParamWorlds : \E t \in ToSet(types) : ~IsParam(types, t) /\ t.name \in C!Lineage(types)
\* A C name matches every type of its words, wherever they are divided.
ASSUME WordsMatchAnyDivision ==
    LET types   == <<[name |-> <<P("Live"), <<"Start", "Param">>>>, bases |-> <<>>, fields |-> <<>>],
                     [name |-> <<<<"Live", "Start">>, P("Param")>>, bases |-> <<>>, fields |-> <<>>]>>
        objects == {<<<<"Live", "Start", "Param">>>>, <<<<"System_", "String">>>>, <<P("T")>>}
        methods == {[task |-> <<P("T")>>, role |-> "request", objects |-> objects]}
    IN  C!DirectMatches(types, methods) = {types[1].name, types[2].name}

\* The layout of a selected type is its fields that are not static.
ASSUME LayoutsAreOfInstances ==
    LET F(name, static) == [name |-> name, static |-> static]
        dump == Dumped2(<<[name |-> <<P("A"), P("Mid")>>, bases |-> <<BaseParam>>, fields |-> <<F("f", FALSE), F("g", TRUE), F("h", FALSE)>>, methods |-> TRUE],
                          [name |-> <<P("A"), P("Other")>>, bases |-> <<>>, fields |-> <<F("f", FALSE)>>, methods |-> FALSE]>>)
    IN  C!Layouts(dump, {}) = {[type |-> <<P("A"), P("Mid")>>, bases |-> <<BaseParam>>, fields |-> <<F("f", FALSE), F("h", FALSE)>>,
                                lineage |-> TRUE, direct |-> FALSE]}

---------------------------------------------------------------------------
(* Signatures.                                                                        *)
LOCAL Ends == [n \in {"int32_t", "bool", "System_String_o", "Item_o", "Item_array", "Item", ">", "a", "b"} |->
               IF n \in {"System_String_o", "Item_o"} THEN "_o" ELSE IF n = "Item_array" THEN "_array" ELSE ""]
LOCAL CTypes == {<<"int32_t">>, <<"const", "int32_t", "*">>, <<"System_String_o", "*">>, <<"Item_o", "*">>,
                 <<"Item_array", "*">>, <<"Item", "*">>,
                 <<"Item", "<", "a", ",", "b", ">">>, <<"Item", "<", "Item", "<", "a", ",", "b", ">", ",", "a", ">", "*">>}
LOCAL Kind(type) ==
    CASE type \in {<<"int32_t">>, <<"const", "int32_t", "*">>} -> "primitive"
      [] type = <<"System_String_o", "*">>    -> "string"
      [] type = <<"Item_o", "*">>             -> "object"
      [] type = <<"Item_array", "*">>         -> "array"
      [] Last(type) = "*"                     -> "pointer-object"
      [] OTHER                                -> "other"
LOCAL Joined(parts) == FlattenSeq([i \in DOMAIN parts |-> IF i = 1 THEN parts[i] ELSE <<",">> \o parts[i]])
LOCAL Signature(types) ==
    LET params == [i \in DOMAIN types |-> Append(types[i], IF i = 1 THEN "a" ELSE "b")]
    IN  <<"void", "T", "(">>
        \o Joined(<<<<"Item_o", "*", "__this">>>> \o params \o <<<<"MethodInfo", "*", "method">>>>) \o <<")">>
\* Every parameter is found once, in order, with its kind; a pointer to a number passes
\* for the number.
ASSUME ParametersAreFound ==
    \A types \in UNION {[1..n -> CTypes] : n \in 0..2} :
        C!parse_signature(Signature(types), Ends) = [i \in DOMAIN types |-> [name |-> IF i = 1 THEN "a" ELSE "b", kind |-> Kind(types[i])]]
\* An endpoint knows the parameters of all methods of its task together.
ASSUME ParametersOfATask ==
    LET methods == {[task |-> t, signature |-> Signature(types)] : t \in {"t", "u"}, types \in {<<<<"int32_t">>>>, <<<<"int32_t">>, <<"Item_o", "*">>>>}}
    IN  C!SemanticParameters(methods, "t", Ends) = {"a", "b"} /\ C!SemanticParameters(methods, "v", Ends) = {}
=============================================================================
