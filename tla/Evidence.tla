------------------------------ MODULE Evidence -------------------------------
(***************************************************************************)
(* The pipeline from the evidence about the client to the templates that   *)
(* a server answers with.  Its stages are separate programs that leave     *)
(* files to each other: the semantic database, the parser overlays, the    *)
(* runtime catalog and the compiled templates.  Stages are run again when  *)
(* the analysis advances, a launcher may run beside them or beside another *)
(* launcher, everything may be killed, and no file is replaced atomically. *)
(***************************************************************************)
EXTENDS Contracts

CONSTANTS
    Launchers,      \* runs of the full-service launcher
    Versions,       \* the sequence of analysis inputs, oldest first
    Options         \* the dead-value report and the explicit templates, if any, a launcher is given

\* JSON arrays and the rows of a table: what an input or a document lists.
IsList(s) == s \in Seq(All(s))
Lists(in) == /\ IsList(in.rows) /\ IsList(in.c11) /\ IsList(in.c12)
             /\ IsList(in.c7a) /\ \A rel \in All(in.c7a) : IsList(rel.candidates)

ASSUME EvidenceAssumption ==
    /\ IsList(Versions) /\ Versions # << >> /\ \A in \in All(Versions) : Lists(in)
    /\ \A o \in Options : /\ Cardinality(o.reports) <= 1 /\ Cardinality(o.explicit) <= 1
                          /\ \A d \in o.explicit : IsList(d.entries)

VARIABLES
    version,        \* the analysis input in use
    build,          \* the run of build-client-semantic-db: "idle", "copied" or "tables"
    confirmed,      \* the versions whose database the build has confirmed
    db,             \* the database file
    overlays,       \* the C13 file and the version it was made from
    catalog,        \* the C14 file and the versions of its two inputs
    templates,      \* the compiled templates: "none", "torn", or a document with its origin
    pc,             \* where each launcher is
    index,          \* the C9 index in the launcher's or its server's memory, with its version
    held            \* the templates in that memory: compiled, then served

files == <<db, overlays, catalog, templates>>
vars  == <<version, build, confirmed, files, pc, index, held>>

Torn    == [quick |-> FALSE, objects |-> {}]
Nothing == [made |-> 0]
Input   == Versions[version]

Init == /\ version = 1 /\ build = "idle" /\ confirmed = {}
        /\ db = [made |-> 0, content |-> Torn]
        /\ overlays = Nothing /\ catalog = Nothing /\ templates = [state |-> "none"]
        /\ pc = [l \in Launchers |-> "start"]
        /\ index = [l \in Launchers |-> Nothing] /\ held = [l \in Launchers |-> Nothing]

---------------------------------------------------------------------------
\* The stages.

\* The next inputs.
Advance == /\ version < Len(Versions) /\ build = "idle"
           /\ version' = version + 1
           /\ UNCHANGED <<build, confirmed, files, pc, index, held>>

\* build-client-semantic-db: copy2 over the output, the script that makes the
\* tables, the inserts that the second script commits, and the checks after that.
CopyDb  == /\ build = "idle" /\ InputsOK(Input) /\ db.made # version
           /\ build' = "copied"
           /\ db' = [made |-> version, content |-> C6Copy(Input)]
           /\ UNCHANGED <<version, confirmed, overlays, catalog, templates, pc, index, held>>
MakeTables == /\ build = "copied"
              /\ build' = "tables"
              /\ db' = [db EXCEPT !.content = WithTables(Input)]
              /\ UNCHANGED <<version, confirmed, overlays, catalog, templates, pc, index, held>>
FailDb  == /\ build = "tables" /\ MissingReaders(Input) # {}
           /\ build' = "idle"
           /\ UNCHANGED <<version, confirmed, files, pc, index, held>>
CommitDb == /\ build = "tables" /\ MissingReaders(Input) = {}
            /\ build' = "idle"
            /\ db' = [db EXCEPT !.content = BuildSemanticDb(Input)]
            /\ confirmed' = IF ResultOK(Input, Input.expected) THEN confirmed \cup {version} ELSE confirmed
            /\ UNCHANGED <<version, overlays, catalog, templates, pc, index, held>>
KillDb  == /\ build # "idle"
           /\ build' = "idle"
           /\ \E content \in {db.content, Torn} :
                db' = [db EXCEPT !.content = IF build = "copied" THEN content ELSE db.content]
           /\ UNCHANGED <<version, confirmed, overlays, catalog, templates, pc, index, held>>

\* The sources of C13: the refined C11 relations, then the inherited ones.
Source(r, kind) == [endpoint |-> r.endpoint, task |-> r.task, method |-> r.method, rva |-> r.rva,
                    fields |-> r.fields, kind |-> kind]
Sources(in) ==
    LET direct == SetToSeq(RefineBase(in.c11)) IN
    [i \in DOMAIN direct |-> Source(direct[i], "direct-BL")]
      \o [i \in DOMAIN in.c12 |-> Source(in.c12[i], "inherited-no-override")]
OverlayDocument(in) ==
    [schema |-> 1, overlays |-> SetToSeq(EffectiveOverlays(Sources(in))), residuals |-> in.residuals]

BuildOverlays == /\ ~BaseDrift(Input.c11) /\ ~EffectiveDrift(Sources(Input))
                 /\ overlays' = [made |-> version, content |-> OverlayDocument(Input)]
                 /\ UNCHANGED <<version, build, confirmed, db, catalog, templates, pc, index, held>>

\* A database can be opened while it is not being written.
Readable(final) == build = "idle" /\ db.content.quick /\ IndexAccepts(db.content, final)

ExportCatalog ==
    /\ Readable({}) /\ overlays # Nothing
    /\ OverlaysAccept(overlays.content, SemanticIndex(db.content), {})
    /\ catalog' = [made |-> <<db.made, overlays.made>>,
                   content |-> EffectiveCatalog(SemanticIndex(db.content), overlays.content)]
    /\ UNCHANGED <<version, build, confirmed, db, overlays, templates, pc, index, held>>

---------------------------------------------------------------------------
\* A launcher: compile_templates in memory, write_text, then the supervisor and
\* in it the server, which reads the database and the templates again.
Goto(l, from, to) == pc[l] = from /\ pc' = [pc EXCEPT ![l] = to]

Compilable(o) == /\ Readable({})
                 /\ CompileAccepts(db.content, catalog.content, o.reports, o.explicit, {}, {})
Compile(l) ==
    /\ catalog # Nothing
    /\ Goto(l, "start", "compiled")
    /\ \E o \in Options :
         /\ Compilable(o)
         /\ held' = [held EXCEPT ![l] =
              [made |-> <<db.made, catalog.made>>, given |-> o,
               content |-> Document(Compiled(catalog.content, o.reports, o.explicit))]]
    /\ UNCHANGED <<version, build, confirmed, files, index>>
CompileFails(l) ==
    /\ catalog # Nothing
    /\ \E o \in Options : ~Compilable(o)
    /\ Goto(l, "start", "end")
    /\ UNCHANGED <<version, build, confirmed, files, index, held>>

\* write_text truncates the file that all launchers share by default, and writes
\* from its start on.  Where two have it open, the end of one document or a part in
\* the middle may stay behind the other: that is no document.
Truncate(l) == /\ Goto(l, "compiled", "writing")
               /\ templates' = [state |-> "torn", mixed |-> \E m \in Launchers : pc[m] = "writing"]
               /\ UNCHANGED <<version, build, confirmed, db, overlays, catalog, index, held>>
Write(l)    == /\ Goto(l, "writing", "launched")
               /\ \/ templates' = [state |-> "whole", made |-> held[l].made, given |-> held[l].given,
                                    content |-> held[l].content]
                  \/ /\ templates.state = "torn" => templates.mixed
                     /\ templates' = [state |-> "torn", mixed |-> TRUE]
               /\ UNCHANGED <<version, build, confirmed, db, overlays, catalog, index, held>>

\* The server.  A port that another server holds ends it as a refusal does.
LoadIndexFile(l) ==
    /\ Readable({})
    /\ Goto(l, "launched", "indexed")
    /\ index' = [index EXCEPT ![l] = [made |-> db.made, content |-> SemanticIndex(db.content)]]
    /\ UNCHANGED <<version, build, confirmed, files, held>>
TemplatesAccepted(l) ==
    /\ templates.state = "whole"
    /\ StoreAccepts(templates.content, index[l].content)
    /\ Keys(StoreOf(templates.content)) \cap BootstrapRoutes = {}
\* Mutant: another server on the port does not matter.
ServeBesideAnother(l) ==
    /\ Goto(l, "indexed", "serving")
    /\ TemplatesAccepted(l)
    /\ held' = [held EXCEPT ![l] = [templates EXCEPT !.content = StoreOf(templates.content)]]
    /\ UNCHANGED <<version, build, confirmed, files, index>>
Serve(l) ==
    /\ Goto(l, "indexed", "serving")
    /\ TemplatesAccepted(l)
    /\ \A m \in Launchers : pc[m] # "serving"
    /\ held' = [held EXCEPT ![l] = [templates EXCEPT !.content = StoreOf(templates.content)]]
    /\ UNCHANGED <<version, build, confirmed, files, index>>
Refuse(l) ==
    /\ \/ pc[l] = "launched" /\ build = "idle" /\ ~Readable({})
       \/ pc[l] = "indexed" /\ (~TemplatesAccepted(l) \/ \E m \in Launchers : pc[m] = "serving")
    /\ pc' = [pc EXCEPT ![l] = "end"]
    /\ UNCHANGED <<version, build, confirmed, files, index, held>>

\* Killed in any step, or stopped.
Kill(l) == /\ pc[l] \in {"compiled", "writing", "launched", "indexed", "serving"}
           /\ pc' = [pc EXCEPT ![l] = "end"]
           /\ UNCHANGED <<version, build, confirmed, files, index, held>>

Stage      == Advance \/ CopyDb \/ MakeTables \/ FailDb \/ CommitDb \/ KillDb \/ BuildOverlays \/ ExportCatalog
Launch(l)  == \/ Compile(l) \/ CompileFails(l) \/ Truncate(l) \/ Write(l)
              \/ LoadIndexFile(l) \/ Serve(l) \/ Refuse(l) \/ Kill(l)
Next       == Stage \/ \E l \in Launchers : Launch(l)
Spec       == Init /\ [][Next]_vars

---------------------------------------------------------------------------
\* What each file, launch and build can be; the database that is being built is
\* that of the inputs in use, and one server at most has the port.
TypeOK ==
    /\ version \in DOMAIN Versions /\ confirmed \subseteq 1..version
    /\ build \in {"idle", "copied", "tables"}
    /\ db.made \in 0..version /\ (build # "idle" => db.made = version)
    /\ overlays = Nothing \/ overlays.made \in 1..version
    /\ catalog = Nothing \/ catalog.made \in (1..version) \X (1..version)
    /\ \A l \in Launchers :
         /\ pc[l] \in {"start", "compiled", "writing", "launched", "indexed", "serving", "end"}
         /\ pc[l] = "writing" => templates.state # "none"
         /\ \A m \in Launchers : pc[l] = "serving" /\ pc[m] = "serving" => l = m
         /\ pc[l] \in {"indexed", "serving"} => \A e \in index[l].content : e.route # "/"

Serving(l) == pc[l] = "serving"

\* Whatever a server answers from a template, it dispatches by path alone to the
\* one endpoint of that path in the database it has itself loaded, and never in
\* place of a bootstrap endpoint: ResponseTemplateStore.load and main check it
\* again when they start, so stale or foreign files cannot break it.
DispatchIsUnambiguous ==
    \A l \in Launchers : Serving(l) => \A r \in Keys(held[l].content) :
        /\ {e.id : e \in RouteCandidates(index[l].content, r)} = {held[l].content[r].id}
        /\ r \notin BootstrapRoutes

\* What the analysis inputs say of a route, independently of database and catalog.
Mutates(in, r) == \E rel \in All(in.c7a) : \E c \in All(rel.candidates) : c.route = r
MustHave(in, r) ==
    \E f \in All(in.fields) : \E row \in All(in.rows) :
        row.route = r /\ f.endpoint = row.id /\ f.req \notin Optional
BeyondEnvelope(in, r) ==
    \E s \in All(in.c12) \cup Kept(in.c11) :
        s.endpoint.route = r /\ BaseParser(s) # [task |-> "Stage.BaseTask", method |-> "Stage.BaseTask$$Parse"]

Elsewhere(o, r) == \/ \E report \in o.reports : report.route = r
                   \/ \E d \in o.explicit : r \in Keys(StoreOf(d))

\* A route that is answered with an invented {} (not by a C27 proof or an
\* explicit template) is one of which the inputs of the analysis know no
\* field that must be there, no state mutation and no base parser beyond the
\* envelope, when the catalog was made of those inputs alone and the build
\* confirmed them: whatever database the templates were compiled and served with.
EmptyIsHarmless ==
    \A l \in Launchers : \A v \in confirmed :
        Serving(l) /\ held[l].made[2] = <<v, v>>
          => \A r \in Keys(held[l].content) : ~Elsewhere(held[l].given, r) =>
                ~Mutates(Versions[v], r) /\ ~MustHave(Versions[v], r) /\ ~BeyondEnvelope(Versions[v], r)

---------------------------------------------------------------------------
(* The inductive invariant: the shape of files and memory as far as the steps   *)
(* read them, and what each file was made of.  A database that nobody built is  *)
(* unreadable, one with all its objects is what the build makes of one input,   *)
(* and a later stage's file is a function of its origin, whatever the files are *)
(* now that it was made from.                                                   *)
Shapes ==
    /\ db = [made |-> db.made, content |-> db.content]
    /\ db.made = 0 => db.content = Torn
    /\ templates.state \in {"none", "torn", "whole"}
    /\ templates.state = "whole" => templates = [state |-> "whole", made |-> templates.made,
                                                 given |-> templates.given, content |-> templates.content]
Memory ==
    /\ pc    = [l \in Launchers |-> pc[l]]
    /\ index = [l \in Launchers |-> index[l]]
    /\ held  = [l \in Launchers |-> held[l]]

\* The inputs whose overlays can be made, and the pairs of versions, of the
\* database and of the overlays, that can be a catalog.
NoDrift(in)    == ~BaseDrift(in.c11) /\ ~EffectiveDrift(Sources(in))
IndexOf(v)     == SemanticIndex(BuildSemanticDb(Versions[v]))
Combines(m)    == /\ m \in (DOMAIN Versions) \X (DOMAIN Versions)
                  /\ NoDrift(Versions[m[2]])
                  /\ OverlaysAccept(OverlayDocument(Versions[m[2]]), IndexOf(m[1]), {})
CatalogFrom(m) == EffectiveCatalog(IndexOf(m[1]), OverlayDocument(Versions[m[2]]))

\* The templates that options make of a catalog.
CompiledFrom(m, o) == Compiled(CatalogFrom(m), o.reports, o.explicit)
CompiledBy(doc)    == Combines(doc.made[2]) /\ doc.given \in Options
FilesMade ==
    /\ \A v \in confirmed : ResultOK(Versions[v], Versions[v].expected)
    /\ db.content.quick /\ SchemaObjects \subseteq db.content.objects
         => db.content = BuildSemanticDb(Versions[db.made])
    /\ overlays # Nothing => /\ NoDrift(Versions[overlays.made])
                             /\ overlays.content = OverlayDocument(Versions[overlays.made])
    /\ catalog # Nothing => Combines(catalog.made) /\ catalog.content = CatalogFrom(catalog.made)
TemplatesMade ==
    /\ templates.state = "whole" =>
         CompiledBy(templates) /\ templates.content = Document(CompiledFrom(templates.made[2], templates.given))
    /\ \A l \in Launchers :
         /\ pc[l] \in {"compiled", "writing"} =>
              CompiledBy(held[l]) /\ held[l].content = Document(CompiledFrom(held[l].made[2], held[l].given))
         /\ Serving(l) =>
              CompiledBy(held[l]) /\ held[l].content = StoreOf(Document(CompiledFrom(held[l].made[2], held[l].given)))

IInv == TypeOK /\ Shapes /\ Memory /\ DispatchIsUnambiguous /\ FilesMade /\ TemplatesMade
=============================================================================
