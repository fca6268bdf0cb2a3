----------------------------- MODULE CallEdges ------------------------------
(***************************************************************************)
(* What the direct branches of the client's image say of its methods: the  *)
(* parsers that mutate state (C7a, analyze-response-state-mutations), the  *)
(* readers of that state and who calls them (C7b, analyze-state-consumers),*)
(* who calls a parser of a base task (C11) and which tasks inherit one     *)
(* (C12).                                                                  *)
(*                                                                         *)
(* A method of script.json is [owner, name, rva], owner <<>> where the     *)
(* name has no $$; an owner is the sequence of its parts.  The image maps  *)
(* an address to [op, imm].                                                *)
(***************************************************************************)
EXTENDS Integers, Sequences, FiniteSets, SequencesExt

CONSTANTS Has,    \* a name or a part of an owner -> the prefixes and patterns it matches
          Width   \* bits of a branch's immediate

Matches(name, prefixes) == Has[name] \cap prefixes # {}
AnyPart(owner, pattern) == \E i \in DOMAIN owner : pattern \in Has[owner[i]]

\* No two prefixes of different kinds start the same name.
KindIn(kinds, name) ==
    IF \E k \in DOMAIN kinds : Matches(name, kinds[k]) THEN CHOOSE k \in DOMAIN kinds : Matches(name, kinds[k]) ELSE "none"
Mutators == [property |-> {"set_"},
             add      |-> {"Add", "Append", "Insert", "Push", "Acquire", "Receive", "Register"},
             remove   |-> {"Remove", "Delete", "Pop", "Sub", "Consume", "Use", "Unregister"},
             persist  |-> {"Save", "LoadFrom"},
             reset    |-> {"Clear", "Reset", "Init", "Initialize", "Create"},
             progress |-> {"Open", "Close", "Unlock", "Release"},
             set      |-> {"Set", "Update", "Replace", "Apply", "Change", "Edit", "Refresh", "SetUp", "SlotDataClear"}]
MutatorPrefixes == UNION {Mutators[k] : k \in DOMAIN Mutators}
ReadPrefixes == {"get_", "Get", "Is", "Has", "Can", "Contains", "Find", "Search", "Check", "Calc", "TryGet",
                 "Exists", "Count"}
Readers == [property  |-> {"get_"}, try |-> {"TryGet"}, count |-> {"Count"}, lookup |-> {"Find"},
            predicate |-> {"Is", "Has", "Contains", "Exists", "Check", "Can"}, read |-> {"Get", "Current"}]
mutator_kind(name) == IF Matches(name, ReadPrefixes) THEN "none" ELSE KindIn(Mutators, name)
reader_kind(name)  == IF Matches(name, MutatorPrefixes) THEN "none" ELSE KindIn(Readers, name)

---------------------------------------------------------------------------
(* C7a.  The first rule that matches names the surface; "odd" is a part with a     *)
(* character that the pattern of work types does not admit.                         *)
SurfaceRules(owner) ==
    LET inner == SubSeq(owner, 2, Len(owner) - 1)
        staged(pattern) == Len(owner) > 1 /\ owner[1] = "Stage" /\ pattern \in Has[owner[2]]
    IN  <<<<"session-auth",       owner = <<"Cute", "Certification">>>>,
          <<"persistent-save",    AnyPart(owner, "savedata")>>,
          <<"local-state",        AnyPart(inner, "localdata") \/ staged("LocalLiveCommonData")>>,
          <<"temp-state",         AnyPart(inner, "tempdata")>>,
          <<"work-state",         \/ "Work" \in Has[Last(owner)]
                                  \/ \E i \in DOMAIN owner : /\ "Work[A-Z]" \in Has[owner[i]]
                                                             /\ \A j \in i..Len(owner) : "odd" \notin Has[owner[j]]>>,
          <<"work-state-manager", staged("WorkDataManager") \/ staged("WorkDataUtil")>>,
          <<"state-manager",      owner[1] = "Stage" /\ "DataManager" \in Has[Last(owner)]>>>>
state_surface(owner) ==
    LET holds == SelectSeq(SurfaceRules(owner), LAMBDA rule : rule[2])
    IN  IF owner = << >> \/ "framework" \in Has[owner[1]] \/ holds = << >> THEN "none" ELSE holds[1][1]

\* callers: the calls of the response parsers; bound: task -> its endpoints.
Mutations(callers, bound) ==
    {[task |-> p.task, parser |-> p.rva, owner |-> c.owner, name |-> c.name, rva |-> c.rva,
      surface |-> state_surface(c.owner), kind |-> mutator_kind(c.name),
      endpoints |-> IF p.task \in DOMAIN bound THEN bound[p.task] ELSE {},
      sites |-> {d.at : d \in {d \in p.calls : <<d.owner, d.name, d.rva>> = <<c.owner, c.name, c.rva>>}}] :
     <<p, c>> \in {<<q, d>> \in callers \X (UNION {q.calls : q \in callers}) :
                     d \in q.calls /\ state_surface(d.owner) # "none" /\ mutator_kind(d.name) # "none"}}

---------------------------------------------------------------------------
(* The scan, and the method that a branch belongs to: the last boundary at or       *)
(* before it, all methods that start there.                                         *)
SignedImm(imm) == IF imm >= 2^(Width - 1) THEN imm - 2^Width ELSE imm
scan_direct_xrefs(image, targets) ==
    {x \in {[site |-> a, target |-> a + 4 * SignedImm(image[a].imm), bl |-> image[a].op = "BL"] :
            a \in {a \in DOMAIN image : image[a].op \in {"BL", "B"}}} : x.target \in targets}
containing_methods(site, boundaries, methods) ==
    LET before == {b \in boundaries : b <= site}
        start  == CHOOSE b \in before : \A c \in before : c <= b
    IN  IF before = {} THEN {} ELSE {m \in methods : m.rva = start}
Boundaries(methods, addresses) == {m.rva : m \in methods} \cup addresses

\* C7b.
StateReaders(methods, mutations) ==
    {m \in methods : m.owner # << >> /\ m.owner \in {r.owner : r \in mutations} /\ reader_kind(m.name) # "none"}
classify_consumer(m) == IF "game" \in Has[m.owner[1]] THEN "game" ELSE IF "low" \in Has[m.owner[1]] THEN "low" ELSE "unknown"
Confidence(x) ==
    CASE x.consumers = {}              -> "unresolved"
      [] Cardinality(x.consumers) > 1  -> "ambiguous"
      [] Cardinality(x.readers) > 1    -> "ambiguous"
      [] OTHER                         -> IF x.bl THEN "high" ELSE "medium"
StateXrefs(image, methods, addresses, mutations) ==
    LET readers == StateReaders(methods, mutations)
        full(x) == [readers   |-> {r \in readers : r.rva = x.target}, bl |-> x.bl, site |-> x.site,
                    consumers |-> containing_methods(x.site, Boundaries(methods, addresses), methods)]
    IN  {full(x) : x \in scan_direct_xrefs(image, {r.rva : r \in readers})}
Unique(x) == Cardinality(x.readers) = 1 /\ Cardinality(x.consumers) = 1
StateRelations(xrefs) ==
    LET key(x) == [reader |-> CHOOSE r \in x.readers : TRUE, consumer |-> CHOOSE m \in x.consumers : TRUE, bl |-> x.bl]
        unique == {x \in xrefs : Unique(x)}
    IN  {[key |-> k, sites |-> {x.site : x \in {x \in unique : key(x) = k}},
          confidence |-> IF k.bl THEN "high" ELSE "medium"] : k \in {key(x) : x \in unique}}
\* An endpoint reaches the consumers of every state that a parser of its tasks mutates.
EndpointConsumers(mutations, relations) ==
    UNION {r.endpoints \X {s.key.consumer : s \in {s \in relations : s.key.reader.owner = r.owner}} : r \in mutations}

---------------------------------------------------------------------------
(* C11.  A contract is [task, owner, name, rva], from the fields of C6 without an    *)
(* endpoint; bound: task -> its endpoints.                                          *)
CallersAccept(contracts) == \A c, d \in contracts : c.rva = d.rva => c = d
BaseXrefs(image, contracts) == scan_direct_xrefs(image, {c.rva : c \in contracts})
response_flow_kind(name) ==
    CASE "Parse" \in Has[name]                                                              -> "parse"
      [] Matches(name, {"OnSuccess", "OnSucceeded", "OnComplete", "OnCompleted", "Success"}) -> "response-callback"
      [] OTHER                                                                              -> "other"
AllEndpoints(bound) == UNION {bound[t] : t \in DOMAIN bound}
CallerRelations(image, contracts, methods, addresses, bound) ==
    UNION {LET callers == containing_methods(x.site, Boundaries(methods, addresses), methods)
           IN  {[endpoint |-> e, contract |-> CHOOSE c \in contracts : c.rva = x.target, caller |-> m,
                 flow |-> response_flow_kind(m.name)] :
                <<e, m>> \in {<<f, n>> \in AllEndpoints(bound) \X callers :
                                Cardinality(callers) = 1 /\ n.owner \in DOMAIN bound /\ f \in bound[n.owner]}} :
           x \in {x \in BaseXrefs(image, contracts) : x.bl}}
WithoutXref(image, contracts) == {c \in contracts : c.rva \notin {x.target : x \in BaseXrefs(image, contracts)}}

---------------------------------------------------------------------------
(* C12.  dump: the types of dump.cs in order, each [space, short, base], base the first *)
(* name after the colon; of two types of one name the last counts.                  *)
NameOf(t) == Append(t.space, t.short)
BaseOf(t) == IF Len(t.base) = 1 THEN t.space \o t.base ELSE t.base
parse_inheritance(dump) ==
    [n \in {NameOf(dump[i]) : i \in DOMAIN dump} |-> BaseOf(dump[SelectLastInSeq(dump, LAMBDA t : NameOf(t) = n)])]
derives_from(type, base, parents) ==
    LET up(above, i) == above \cup {parents[t] : t \in (above \cup {type}) \cap DOMAIN parents}
    IN  base \in FoldLeft(up, {}, [i \in 1..Cardinality(DOMAIN parents) |-> i])

\* noXref: C11's list, as <<owner, name, rva>>.
InheritanceAccepts(contracts) ==
    \A c, d \in contracts : <<c.task, c.owner, c.name>> = <<d.task, d.owner, d.name>> => c.rva = d.rva
Considered(contracts, noXref) == {c \in contracts : c.owner = c.task /\ <<c.owner, c.name, c.rva>> \in noXref}
Heirs(contract, parents, bound) == {t \in DOMAIN bound : t # contract.task /\ derives_from(t, contract.task, parents)}
HasOwnParse(task, methods) == \E m \in methods : m.owner = task /\ m.name = "Parse"
Inherited(contracts, noXref, parents, methods, bound) ==
    UNION {{[endpoint |-> e, contract |-> c, task |-> t] :
            <<e, t>> \in {<<f, u>> \in AllEndpoints(bound) \X Heirs(c, parents, bound) :
                             f \in bound[u] /\ ~HasOwnParse(u, methods)}} :
           c \in {c \in Considered(contracts, noXref) : c.name = "Parse"}}
InheritedDrift(relations) ==
    \E r, s \in relations : /\ r.endpoint.id = s.endpoint.id /\ r.contract.rva = s.contract.rva /\ r.task = s.task
                            /\ r.endpoint # s.endpoint
NonParseResiduals(contracts, noXref) == {c \in Considered(contracts, noXref) : c.name # "Parse"}
=============================================================================
