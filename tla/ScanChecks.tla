----------------------------- MODULE ScanChecks -----------------------------
(***************************************************************************)
(* Checks of the scans that follow registers: of the type field and the    *)
(* keys (RegisterFlow), of parsers (ResponseFlow) and of request payloads  *)
(* (RequestFlow).  What a scan claims of a small method is compared with   *)
(* the method's executions.                                                *)
(***************************************************************************)
EXTENDS Integers, Sequences, FiniteSets, TLC

LOCAL R == INSTANCE RegisterFlow WITH Halfword <- 8, MaxKey <- 5, ApiField <- 80, MaxCalls <- 2, MinSupport <- 2, MaxConflicts <- 0

LOCAL InsOf(op, dst, src, imm) == [op |-> op, dst |-> dst, src |-> src, base |-> "x0", disp |-> 80, imm |-> imm, shift |-> 0, target |-> 900]
LOCAL StoreTo(src, base) == [InsOf("str", "", src, 0) EXCEPT !.base = base]
LOCAL MovzTo(r, v) == InsOf("movz", r, "", v)
LOCAL MovTo(d, s)  == InsOf("mov", d, s, 0)
LOCAL CallOf(t)    == [InsOf("bl", "", "", 0) EXCEPT !.target = t]
LOCAL LoadInto(r)  == [InsOf("ldr", r, "", 0) EXCEPT !.disp = 16]
LOCAL Known == {MovzTo("x1", 3), MovTo("x19", "x0"), MovTo("x0", "x19"), MovTo("x2", "x1"), InsOf("add", "x1", "x1", 1),
          InsOf("add", "x19", "x0", 0), InsOf("add", "x19", "x0", 8), InsOf("op", "x1", "", 0), LoadInto("x1"), InsOf("cmp", "", "x1", 0),
          StoreTo("x1", "x0"), StoreTo("x2", "x19")}
LOCAL Doubtful == {CallOf(900), LoadInto("x0"), InsOf("op", "x0", "", 0), InsOf("movk", "x1", "", 2)}

\* Executions: a register holds this, another object, or a number.  What a scan cannot
\* know is another object, 0, or a word that is no key.
LOCAL Number(n) == [kind |-> "number", n |-> n]
LOCAL Other     == [kind |-> "other", n |-> 0]
LOCAL This      == [kind |-> "this", n |-> 0]
LOCAL Junk      == {Number(0), Number(7), Other}
LOCAL Set(regs, r, v) == [regs EXCEPT ![r] = v]
LOCAL Sum(v, n) == IF v.kind = "number" THEN Number(v.n + n) ELSE IF n = 0 THEN v ELSE Other
LOCAL Patch(v, ins) == Number(IF v.kind = "number" THEN R!Patched(v.n, ins) ELSE 9)
LOCAL Run(regs, ins, junk) ==
    CASE ins.op = "movz" -> Set(regs, ins.dst, Number(ins.imm))
      [] ins.op = "movk" -> Set(regs, ins.dst, Patch(regs[ins.dst], ins))
      [] ins.op = "mov" -> Set(regs, ins.dst, regs[ins.src])
      [] ins.op = "add" -> Set(regs, ins.dst, Sum(regs[ins.src], ins.imm))
      [] ins.op \in {"ldr", "op"} -> Set(regs, ins.dst, junk)
      [] ins.op = "bl" -> [r \in R!Registers |-> IF r \in R!CallerSaved THEN junk ELSE regs[r]]
      [] OTHER -> regs
LOCAL Entering(junk) == [r \in R!Registers |-> IF r = "x0" THEN This ELSE junk]
LOCAL At(code, i, junk) == R!FoldLeft(LAMBDA regs, ins : Run(regs, ins, junk), Entering(junk), SubSeq(code, 1, i - 1))
LOCAL Writes(code, i, v) == \A junk \in Junk : At(code, i, junk)[code[i].base] = This /\ At(code, i, junk)[code[i].src] = Number(v)
LOCAL Claims(code, i) == UNION {a.constant : a \in {a \in R!FieldAccesses(code) : a.at = i}}
LOCAL Exact(code) == \A i \in {i \in DOMAIN code : code[i].op = "str"} : \A v \in 0..5 : v \in Claims(code, i) <=> Writes(code, i, v)
LOCAL Straight(S) == {<<a, b, c, d>> : a, b, c \in S, d \in {StoreTo("x1", "x0"), StoreTo("x2", "x19"), StoreTo("x1", "x19")}}

\* In a method without a branch the writes of the type field, and their constants, are
\* those of its executions.
ASSUME StraightWritesAreExact == \A code \in Straight(Known) : Exact(code)

\* With a call, a load into x0 or a movk a write may be reported that is none: x0 stays
\* this after them, and movk takes what it does not know for 0.
ASSUME ReturnedObjectsPassForThis ==
    \A d \in Doubtful : \E a, b \in Known \cup Doubtful : d \in {a, b} /\ ~Exact(<<a, b, StoreTo("x1", "x0")>>)

---------------------------------------------------------------------------
(* Keys from constructors.  E1 and E2 have anchors; C and D have none.              *)
LOCAL KeyTask(n) == [type |-> n, name |-> n, short |-> IF n \in {"C", "D"} THEN "Short" ELSE "own"]
LOCAL KeyTasks == {KeyTask(n) : n \in {"E1", "E2", "C", "D"}}
LOCAL KeyEntries == {[name |-> "E1", key |-> 1], [name |-> "E2", key |-> 2]}
LOCAL Storing(v, d) == <<MovzTo("x1", v), [StoreTo("x1", "x0") EXCEPT !.disp = d]>>
LOCAL Passing(v, t) == <<MovzTo("x1", v), CallOf(t)>>
LOCAL CtorOf(owner, code) == [owner |-> owner, code |-> code]
LOCAL CtorSets == {{CtorOf("E1", Storing(x, 80) \o Passing(1, 900)), CtorOf("E2", Storing(2, 80) \o Passing(y, 900)), CtorOf("Short", Storing(z, 80) \o Passing(3, 900))} :
             x \in {1, 2}, y \in {2, 3}, z \in {3, 4}}

\* What is inferred for a task with an anchor is the anchor, whatever its constructors.
ASSUME AnchorsAreNotContradicted == \A ctors \in CtorSets : \A n \in {1, 2} :
    LET found == R!InferKeys(KeyTasks, ctors, KeyEntries)[KeyTask(<<"E1", "E2">>[n])]
    IN  found.status \in {"unresolved", "proven-static-pattern"} /\ found.values \subseteq {n}

\* For the others it is what the patterns that every anchor confirms agree on; two
\* tasks that share a short name get the same one.
ASSUME PatternsNeedEveryAnchor == \A ctors \in CtorSets :
    LET found == R!InferKeys(KeyTasks, ctors, KeyEntries)
        strong == R!Strong(KeyTasks, ctors, KeyEntries)
    IN  /\ found[KeyTask("C")] = found[KeyTask("D")]
        /\ (CtorOf("E1", Storing(2, 80) \o Passing(1, 900)) \in ctors) => strong \subseteq {R!Feature("call", 900, "x1")}
        /\ found[KeyTask("C")].status = (CASE strong = {} -> "unresolved"
             [] Cardinality(strong) = 2 /\ CtorOf("Short", Storing(4, 80) \o Passing(3, 900)) \in ctors -> "conflict"
             [] OTHER -> "proven-static-pattern")

---------------------------------------------------------------------------
(* Callers of set_type.  Constructor 700 makes a TaskA, 701 is that of its base.    *)
LOCAL Owners == 700 :> "TaskA" @@ 701 :> "BaseTask"
LOCAL Seen(code) == R!analyze_caller([owner |-> "", code |-> code], 800, Owners, {"TaskA", "BaseTask"})
LOCAL Steps == {CallOf(700), CallOf(701), CallOf(800), CallOf(900), MovTo("x19", "x0"), MovTo("x0", "x19"), MovzTo("x1", 3), MovzTo("x1", 4),
          InsOf("b.cond", "", "", 0), LoadInto("x0")}
LOCAL Prepared == <<MovTo("x19", "x0"), CallOf(700)>>
\* The type a key is assigned to is one whose constructor was called on that object,
\* and the key was loaded after the last branch and the last call.
ASSUME KeysGoToTheirObject == \A body \in [1..4 -> Steps] :
    \A o \in Seen(Prepared \o body) :
        LET code == Prepared \o body
            object(i) == R!FoldLeft(LAMBDA regs, j :
                CASE code[j].op = "mov" -> Set(regs, code[j].dst, regs[code[j].src])
                  [] code[j].op \in {"bl", "b.cond"} -> [r \in R!Registers |-> IF r \in R!CallerSaved THEN j ELSE regs[r]]
                  [] code[j].op = "ldr" -> Set(regs, code[j].dst, j) [] OTHER -> regs,
                [r \in R!Registers |-> IF r = "x0" THEN -1 ELSE 0], [j \in 1..(i - 1) |-> j])["x0"]
        IN  /\ o.types = {Owners[code[j].target] : j \in {j \in 1..(o.at - 1) : code[j].op = "bl" /\ code[j].target \in DOMAIN Owners
                                                                                   /\ object(j) = object(o.at)}}
            /\ \E j \in 1..(o.at - 1) : /\ code[j] = MovzTo("x1", o.key)
                                        /\ \A k \in (j + 1)..(o.at - 1) : code[k].op \notin {"bl", "b.cond"} /\ code[k].dst # "x1"

\* A branch target is not a place where anything is forgotten: what x19 holds survives
\* the branches, and the code after an unconditional one is read as if it fell through.
ASSUME TargetsAreNotForgotten ==
    Seen(Prepared \o <<InsOf("b", "", "", 0), MovTo("x0", "x19"), MovzTo("x1", 3), CallOf(800)>>)
        = {[at |-> 6, key |-> 3, types |-> {"TaskA"}]}

---------------------------------------------------------------------------
(* Parsers (ResponseFlow).                                                          *)
LOCAL P == INSTANCE ResponseFlow WITH MaxAdrpWindow <- 3, MaxFlow <- 7, MaxPostCalls <- 2

LOCAL Op(op, dst, src) == [op |-> op, dst |-> dst, src |-> src, base |-> "x8", disp |-> 0, imm |-> 0, page |-> 0,
                     target |-> [rva |-> 0, name |-> "", result |-> ""]]
LOCAL Call(name) == [Op("bl", "", "") EXCEPT !.target.name = name]
LOCAL Deref(dst, base) == [Op("ldr", dst, "") EXCEPT !.base = base]
LOCAL Put(src, base, off) == [Op("str", "", src) EXCEPT !.base = base, !.disp = off]
LOCAL Regs == P!CallerSaved \cup {"x8", "x19", "x20"}

---------------------------------------------------------------------------
(* The key: x8 holds the literal's slot.  An execution keeps the registers whose value  *)
(* was computed from it; a call gives those that it does not save to others.            *)
LOCAL KeySteps == {Deref("x1", "x8"), Op("mov", "x19", "x8"), Op("mov", "x1", "x19"), Op("add", "x1", "x1"), Op("op", "x1", ""),
             Call("get_Item"), Call("TryGetInt"), Call("ToInt"), Call("Log"), Op("b.cond", "", "")}
LOCAL Computed(code, i) ==
    P!FoldLeft(LAMBDA from, ins :
        LET Gets(r) == IF r \in from THEN from \cup {ins.dst} ELSE from \ {ins.dst}
        IN  CASE ins.op \in {"mov", "add"} -> Gets(ins.src) [] ins.op = "ldr" -> Gets(ins.base)
              [] ins.op = "op" -> from \ {ins.dst} [] ins.op \in {"bl", "blr"} -> from \ P!CallerSaved [] OTHER -> from,
        {"x8"}, SubSeq(code, 1, i - 1))
LOCAL Helped(code) == {i \in DOMAIN code : P!helper_kind(code[i].target) # {} /\ "x1" \in Computed(code, i)}
LOCAL First(S) == {i \in S : \A j \in S : i <= j}
\* The load of the slot is the instruction before the code.
LOCAL Access(code) == P!classify_ref(<<Deref("x8", "x8")>> \o code, 1, "x8")

\* The access of a key is the first call of a helper that gets it.
ASSUME KeysReachTheirHelper ==
    \A code \in [1..4 -> KeySteps] : {a.at : a \in Access(code)} = {i + 1 : i \in First(Helped(code))}
\* A call through a register is not known to change any: a key may be claimed for a
\* helper that gets what the callee left in x1.
ASSUME RegisterCallsKeepEverything ==
    LET code == <<Deref("x1", "x8"), Op("blr", "", ""), Call("get_Item")>>
    IN  Helped(code) = {} /\ {a.at : a \in Access(code)} = {4}
\* The type is that of the next conversion, if there is one before the second call
\* after the access; it may convert another field.
ASSUME ConversionsMayBeAnothers ==
    /\ \A code \in [1..3 -> KeySteps] :
          LET all  == <<Deref("x1", "x8"), Call("get_Item")>> \o code
              next == First({i \in DOMAIN all : i > 2 /\ P!conversion_type(all[i].target) # {}})
              near == {i \in next : Cardinality({j \in 3..(i - 1) : all[j].op = "bl"}) < 2}
          IN  {[c |-> a.conversion, t |-> a.type] : a \in Access(all)}
                  = {[c |-> {i + 1 : i \in near}, t |-> IF near = {} THEN "json" ELSE "int"]}
    /\ {a.type : a \in Access(<<Deref("x1", "x8"), Call("get_Item"), Op("mov", "x19", "x0"), Deref("x1", "x20"), Call("get_Item"), Call("ToInt")>>)} = {"int"}
\* A guard by cbz or tbz is no branch before the access.
ASSUME GuardsByCbzAreMissed ==
    \A op \in {"b.cond", "cbz", "tbz"} :
        {a.branched : a \in Access(<<Deref("x1", "x8"), Op(op, "", ""), Call("get_Item")>>)} = {op = "b.cond"}
\* A slot's load is found through the adrp's register, written since or not.
LOCAL Adrp == [Op("adrp", "x8", "") EXCEPT !.page = 4096]
ASSUME WrittenBasesStillLoad ==
    \A between \in {Op("op", "x8", ""), Op("op", "x1", ""), Deref("x8", "x19")} :
        P!exact_slot_refs(<<Adrp, between, [Deref("x1", "x8") EXCEPT !.disp = 16]>>, {4112}) = {[load |-> 3, slot |-> 4112, reg |-> "x1"]}

---------------------------------------------------------------------------
(* The stores.  Field "a" is accessed at 1, "b" at 2; 3 is a conversion of "b".         *)
LOCAL Fields == {"a", "b"}
LOCAL Row(f, at, conv) == [task |-> "Task", method |-> "Parse", rva |-> 10, field |-> f, access |-> at, conversion |-> conv]
LOCAL Rows == {Row("a", 2, {}), Row("b", 4, {6})}
LOCAL StoreSteps == {Op("mov", "x19", "x0"), Op("mov", "x1", "x0"), Op("mov", "x0", "x1"), Op("op", "x0", ""), Deref("x1", "x20"),
               Put("x0", "x20", 16), Put("x19", "x20", 24), Put("x1", "x0", 16)}
LOCAL Parsers == {<<Op("mov", "x20", "x0"), Call("get_Item"), p, Call("get_Item"), q, Call("ToInt"), r, s>> : p, q, r, s \in StoreSteps}
LOCAL Layouts == "Task" :> {16, 24}
LOCAL Parser(code) == [owner |-> "Task", rva |-> 10, code |-> code]
LOCAL Itself == "this"
\* An execution: what a register was computed from.  The callee's other registers, and
\* what is loaded, are nobody's.
LOCAL Held(code, i) ==
    P!FoldLeft(LAMBDA h, j :
        LET ins == code[j] IN
        CASE ins.op \in {"mov", "add"} -> [h EXCEPT ![ins.dst] = h[ins.src]]
          [] ins.op \in {"ldr", "op"} -> [h EXCEPT ![ins.dst] = "other"]
          [] ins.op \in {"bl", "blr"} ->
                [r \in Regs |-> IF r \notin P!CallerSaved THEN h[r] ELSE IF r # "x0" THEN "other"
                                ELSE CASE j = 2 -> "a" [] j = 4 -> "b" [] j = 6 -> h["x0"] [] OTHER -> "other"]
          [] OTHER -> h,
        [r \in Regs |-> IF r = "x0" THEN Itself ELSE "other"], [j \in 1..(i - 1) |-> j])
LOCAL Stored(code) == {<<Held(code, i)[code[i].src], code[i].disp, i>> :
                 i \in {i \in DOMAIN code : /\ code[i].op = "str" /\ Held(code, i)[code[i].base] = Itself
                                            /\ Held(code, i)[code[i].src] \in Fields}}
LOCAL ClaimedStores(code) == {<<s.origin[3], s.offset, s.at>> : s \in P!trace_parser_stores(Parser(code), Rows, Layouts)}

\* The fields a parser is said to store are those its executions store, at their offsets.
ASSUME StoresAreExact == \A code \in Parsers : ClaimedStores(code) = Stored(code)
\* Except through a sum, which is taken for the object, and past a call by register.
ASSUME SumsPassForTheObject ==
    LET code(x) == <<Op("mov", "x20", "x0"), Call("get_Item"), x, Put("x0", "x20", 16)>>
    IN  /\ ClaimedStores(code([Op("add", "x20", "x20") EXCEPT !.imm = 8])) = {<<"a", 16, 4>>}
        /\ ClaimedStores(code(Op("blr", "", ""))) = {<<"a", 16, 4>>} /\ Stored(code(Op("blr", "", ""))) = {}

\* Fields whose stores share an offset share its readers: each is said to be read.
LOCAL Reader == [owner |-> "Task", rva |-> 20, code |-> <<[Deref("x1", "x0") EXCEPT !.disp = 16]>>]
LOCAL Targets == {[route |-> 1, task |-> "Task", method |-> "Parse", field |-> f] : f \in Fields}
ASSUME SharedOffsetsShareReaders ==
    \A code \in Parsers : \A called \in BOOLEAN :
        LET branches == IF called THEN {[site |-> 90, target |-> 20, kind |-> "BL", caller |-> 80]} ELSE {}
            report == P!ConsumerReport(Targets, Rows, {Parser(code), Reader}, branches, Layouts)
        IN  \A f \in report.fields :
              LET offsets == {s[2] : s \in {s \in Stored(code) : s[1] = f.origin[3]}}
              IN  f.relation = (CASE offsets = {} -> "no-direct-task-field-store" [] offsets = {24} -> "stored-no-task-owned-reader"
                                  [] 16 \in offsets /\ ~called -> "stored-reader-no-direct-caller"
                                  [] OTHER -> "stored-reader-direct-caller")

---------------------------------------------------------------------------
(* Request payloads (RequestFlow).  A method fills an object of a type that is     *)
(* among the layouts; what is said of its fields is compared with that type.       *)
LOCAL Q == INSTANCE RequestFlow WITH ParamsOffset <- 48, Header <- 16

LOCAL Ins(op, dst, src) == [op |-> op, dst |-> dst, src |-> src, base |-> "x19", disp |-> 0, imm |-> 0, width |-> 8, target |-> [rva |-> 0, ctor |-> ""]]
LOCAL Make(ctor) == [Ins("bl", "", "") EXCEPT !.target = [rva |-> 700, ctor |-> ctor]]
LOCAL Write(src, base, off, width) == [Ins("str", "", src) EXCEPT !.base = base, !.disp = off, !.width = width]
LOCAL Read(op, dst, base, off) == [Ins(op, dst, "") EXCEPT !.base = base, !.disp = off]
LOCAL Filler(code) == [task |-> "LiveTask", code |-> code,
                 args |-> "x0" :> [name |-> "this", pointer |-> TRUE, type |-> "LiveTask"] @@ "x1" :> [name |-> "id", pointer |-> FALSE, type |-> "int"]]

\* this is kept in x20, a new object in x19; it is filled and stored into Params.
LOCAL Start(ctor) == <<Ins("mov", "x20", "x0"), Ins("bl", "", ""), Ins("mov", "x19", "x0"), Make(ctor)>>
LOCAL End == <<Write("x19", "x20", 48, 8)>>
LOCAL Fill(ctor, f, g) == Start(ctor) \o <<Write("x1", "x19", f.offset, f.width), Write("x1", "x19", g.offset, g.width)>> \o End

---------------------------------------------------------------------------
(* Layouts: Own is the object's type, over Base; Alike and Other are others.        *)
LOCAL Member(offset, name, type) == [offset |-> offset, name |-> name, type |-> type]
LOCAL Layout(full, short, bases, fields, tasks) == [full |-> full, short |-> short, bases |-> bases, fields |-> fields, tasks |-> tasks]
LOCAL Base(ns) == Layout(<<ns, "Base">>, "Base", {}, {Member(16, "id", "int")}, {})
LOCAL Own(named) == Layout(<<"N", "OwnParam">>, "OwnParam", {"Base"}, {Member(24, "count", "int"), Member(32, "name", "string")}, named)
LOCAL Others == {Layout(<<"N", "OtherParam">>, "OtherParam", {}, {Member(16, a, "int"), Member(24, b, t)}, named) :
           a \in {"id", "key"}, b \in {"count", "text"}, t \in {"int", "string"}, named \in {{}, {"LiveTask"}}}
LOCAL Worlds == {{Base("N"), Own(named), other} \cup extra : named \in {{}, {"LiveTask"}}, other \in Others, extra \in {{}, {Base("M")}}}
LOCAL OwnOf(types) == CHOOSE t \in types : t.short = "OwnParam"
LOCAL Sound(types) == Cardinality(Q!Named(types, "Base")) = 1
LOCAL TrueFields == {[offset |-> 16, width |-> 4, name |-> "id"], [offset |-> 24, width |-> 4, name |-> "count"], [offset |-> 32, width |-> 8, name |-> "name"]}
LOCAL Claim(types, ctor, f, g) == Q!Contracts(types, Filler(Fill(ctor, f, g)), {})
LOCAL NameAt(offset) == (CHOOSE f \in TrueFields : f.offset = offset).name
LOCAL Wrong(types, ctor, f, g) == {c \in Claim(types, ctor, f, g) : c.field # NameAt(c.offset)}

\* A field that is named is the object's, when its constructor is known and its bases
\* resolve; all that are written are named then.
ASSUME ConstructorsNameTheFields ==
    \A types \in {w \in Worlds : Sound(w)} : \A f, g \in TrueFields :
        /\ Wrong(types, "OwnParam", f, g) = {}
        /\ {c.field : c \in Claim(types, "OwnParam", f, g)} = {f.name, g.name}
        /\ \A c \in Claim(types, "OwnParam", f, g) : c.confidence = "high"

\* Without it a wrong name is never given with high confidence, and only if another
\* type, that the stores fit too, has the task's name.
ASSUME WrongNamesNeedTheTaskName ==
    \A types \in {w \in Worlds : Sound(w)} : \A ctor \in {"BaseParam", ""} : \A f, g \in TrueFields :
        \A c \in Wrong(types, ctor, f, g) :
            /\ c.confidence = "low" /\ c.payload = "unique-layout"
            /\ \E t \in types \ {OwnOf(types)} : t.tasks # {} /\ OwnOf(types).tasks = {}

\* When two bases share a name the constructed type does not fit its own stores.  The
\* fields are then those of whichever type fits, as if the constructor had named it.
ASSUME ContradictedConstructorIsExact ==
    \E types \in Worlds : \E f, g \in TrueFields :
        \E c \in Wrong(types, "OwnParam", f, g) : c.payload = "exact" /\ c.confidence = "high"
ASSUME NamespacesDoNotDisambiguate ==
    \A types \in {w \in Worlds : ~Sound(w)} : {f.offset : f \in Q!effective(types, OwnOf(types), {})} = {24, 32}

---------------------------------------------------------------------------
(* Which object is the payload.                                                     *)
LOCAL Middle == {Ins("mov", "x2", "x1"), Write("x1", "x19", 16, 4), Ins("bl", "", ""), Ins("op", "x1", "x1"), Write("x19", "sp", 8, 8),
           Read("ldr", "x1", "sp", 8), Read("ldr", "x19", "sp", 8), Ins("blr", "", "")}
\* However the new object is moved between registers and the stack, it is the payload
\* and all that is stored through the register that holds it is stored into it.
ASSUME PayloadIsTheNewObject ==
    \A p, q, r \in Middle :
        LET mid  == <<p, q, r>>
            code == Start("OwnParam") \o mid \o End
            a    == Q!analyze_method(Filler(code))
            spilled(i) == \E j \in 1..(i - 1) : mid[j] = Write("x19", "sp", 8, 8)
            kept == \A i \in 1..3 : mid[i] = Read("ldr", "x19", "sp", 8) => spilled(i)
        IN  kept => /\ Q!Payloads(a) = {<<"ret", 2>>}
                    /\ {s.site : s \in {s \in a.stores : s.object = <<"ret", 2>>}} = {4 + i : i \in {i \in 1..3 : mid[i] = Write("x1", "x19", 16, 4)}}
\* What is read back from Params is a payload of its own: its stores are not those of
\* the object that was put there, and no constructor is known of it.
ASSUME ReadBackIsAnotherObject ==
    LET code == Start("OwnParam") \o End \o <<Read("ldr", "x2", "x20", 48), Write("x1", "x2", 24, 4)>>
        a    == Q!analyze_method(Filler(code))
    IN  /\ Q!Payloads(a) = {<<"ret", 2>>, <<"field", <<"this">>, 48>>}
        /\ {s.object : s \in {s \in a.stores : s.offset = 24}} = {<<"field", <<"this">>, 48>>}
        /\ {h.object : h \in a.hints} = {<<"ret", 2>>}
\* A pair loaded from elsewhere than the stack leaves what its registers were known to hold.
ASSUME PairsKeepTheOldObject ==
    LET code(op) == Start("OwnParam") \o <<Read(op, "x19", "x20", 64)>> \o End
    IN  /\ Q!Payloads(Q!analyze_method(Filler(code("ldp")))) = {<<"ret", 2>>}
        /\ Q!Payloads(Q!analyze_method(Filler(code("ldr")))) = {<<"field", <<"this">>, 64>>}
=============================================================================
