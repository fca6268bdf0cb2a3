------------------------- MODULE MCResourceArchive -------------------------
(***************************************************************************)
(* ResourceArchive on a small instance, and checks of the resource tools   *)
(* (ResourceUrls, ResourceBootstrap) over bounded inputs.                  *)
(***************************************************************************)
EXTENDS ResourceArchive, Sequences, FiniteSets, TLC

CONSTANTS o1

\* An object of three bytes, whose damaged copy is truncated.
MCSize        == o1 :> 3
MCDamagedSize == o1 :> 2

MCRequests ==
    {[object |-> o1, range |-> Suffix(5), method |-> "HEAD"],
     [object |-> o1, range |-> Span(0, 1), method |-> "GET"],
     [object |-> o1, range |-> From(3), method |-> "GET"]}

AllFiles == [Objects -> Contents]

---------------------------------------------------------------------------
(* Bootstrap.  Version 1's manifest names master h1, version 2's names h2.          *)
Entry(name, hash) == [name |-> name, hash |-> hash]
Db(rows) == [kind |-> "db", rows |-> rows]
Payload == "m1" :> Db({Entry("master.mdb", "h1"), Entry("a", "h2")}) @@ "m2" :> Db({Entry("master.mdb", "H2"), Entry("a", "h1")})
             @@ "h1" :> Db({Entry("cards", "1")}) @@ "h2" :> Db({Entry("cards", "2")})
             @@ "text" :> [kind |-> "garbage", rows |-> {}] @@ "cut" :> [kind |-> "refused", rows |-> {}]
B == INSTANCE ResourceBootstrap WITH
        Decoded <- Payload, Hash <- "h1" :> "h1" @@ "h2" :> "h2" @@ "H2" :> "h2",
        ExpectedRows <- 2, ExpectedHashes <- 2, FinalVersion <- 2

---------------------------------------------------------------------------
(* Blocks.  A part is literals followed by a match; the last has literals only.    *)
Filled(n) == [i \in 1..n |-> i % 7]
Nibble(n) == IF n < 15 THEN n ELSE 15
RECURSIVE Extension(_)
Extension(n) == IF n < 255 THEN <<n>> ELSE <<255>> \o Extension(n - 255)
Extended(n) == IF n < 15 THEN << >> ELSE Extension(n - 15)
Encoded(p) ==
    <<16 * Nibble(p.literals) + (IF p.match = 0 THEN 0 ELSE Nibble(p.match - 4))>> \o Extended(p.literals)
        \o Filled(p.literals)
        \o (IF p.match = 0 THEN << >> ELSE <<p.offset % 256, p.offset \div 256>> \o Extended(p.match - 4))
\* What the parts stand for: a match repeats the last offset bytes.
Grown(out, p) ==
    LET base == out \o Filled(p.literals)
    IN  base \o [i \in 1..p.match |-> base[Len(base) - p.offset + 1 + ((i - 1) % p.offset)]]

BlockPart(literals, offset, match) == [literals |-> literals, offset |-> offset, match |-> match]
Middles == {BlockPart(n, o, m) : n \in {1, 14, 15, 16}, o \in {1, 2}, m \in {4, 5, 18, 19, 20}}
             \cup {BlockPart(270, 269, 4), BlockPart(269, 3, 30), BlockPart(525, 256, 20)}
Blocks == {<<BlockPart(n, 1, 0)>> : n \in {1, 15, 270}}
             \cup {<<m, BlockPart(n, 1, 0)>> : m \in {m \in Middles : m.offset <= m.literals}, n \in {1, 15}}
             \cup {<<m, k, BlockPart(2, 1, 0)>> : m \in {BlockPart(3, 2, 5), BlockPart(15, 7, 19)}, k \in {BlockPart(0, 8, 4), BlockPart(1, 3, 15)}}
RECURSIVE EncodedAll(_), GrownAll(_, _)
EncodedAll(block) == IF block = << >> THEN << >> ELSE Encoded(Head(block)) \o EncodedAll(Tail(block))
GrownAll(out, block) == IF block = << >> THEN out ELSE GrownAll(Grown(out, Head(block)), Tail(block))
Raw(size, block) == [short |-> FALSE, size |-> size, block |-> block]

\* A block decodes to what it stands for, matches that overlap their own output and
\* lengths of several bytes included.
ASSUME BlocksDecode == \A b \in Blocks :
    LET out == GrownAll(<< >>, b)
    IN  B!cgss_lz4_decompress(Raw(Len(out), EncodedAll(b))) = [ok |-> TRUE, out |-> out]

\* A block under a wrapper that declares another size, and a block that is cut short
\* anywhere, are refused.
ASSUME TruncationsAreRefused == \A b \in {b \in Blocks : Len(GrownAll(<< >>, b)) < 80} :
    LET out == GrownAll(<< >>, b)
        code == EncodedAll(b)
    IN  /\ \A d \in {-1, 1} : B!cgss_lz4_decompress(Raw(Len(out) + d, code)) = B!Refused
        /\ \A n \in 0..(Len(code) - 1) : B!cgss_lz4_decompress(Raw(Len(out), SubSeq(code, 1, n))) = B!Refused

---------------------------------------------------------------------------

ManifestOf == <<"m1", "m2">>
MasterOf   == <<"h1", "h2">>
FreshDir == [manifest |-> <<B!Absent, B!Absent>>, payload |-> <<B!Absent, B!Absent>>, master |-> B!Absent,
             master_payload |-> B!Absent, index |-> [result |-> "none"], report |-> [version |-> 0]]
Answers(right) == {[result |-> "ok", md5 |-> right], [result |-> "ok", md5 |-> "text"],
                   [result |-> "url_error", md5 |-> "cut"], [result |-> "aborted", md5 |-> "cut"]}
Nets(v) == {[index |-> [result |-> r, named |-> n, md5 |-> ManifestOf[v]], manifest |-> a, master |-> b] :
            r \in {"ok", "url_error"}, n \in BOOLEAN, a \in Answers(ManifestOf[v]), b \in Answers(MasterOf[v])}
Sound(v) == CHOOSE net \in Nets(v) : net.index.result = "ok" /\ net.index.named /\ net.manifest.md5 = ManifestOf[v] /\ net.master.md5 = MasterOf[v]
RunsFrom(dir) == {[v |-> v, dir |-> B!fetch_bootstrap(dir, v, i, f, net), force |-> f] :
                  <<v, i, f, net>> \in UNION {{v} \X BOOLEAN \X BOOLEAN \X Nets(v) : v \in 1..2}}
Dirs == {FreshDir} \cup {r.dir : r \in RunsFrom(FreshDir)}

\* However a run ends, the directory's databases are the ones it held or are verified
\* against the hash that the index, or the manifest, gives; and it never holds a part
\* of a download under the name of a database.
ASSUME DatabasesStayWhole == \A dir \in Dirs : \A r \in RunsFrom(dir) :
    /\ \A v \in 1..2 : r.dir.manifest[v] \in {dir.manifest[v], Payload[ManifestOf[v]]}
    /\ r.dir.master \in {dir.master, Payload[MasterOf[r.v]]}
    /\ r.dir.report # dir.report => r.dir.report.version = r.v /\ r.dir.manifest[r.v] = Payload[r.dir.report.manifest]

\* A run with --force that writes a report has the master database that it names.
ASSUME ForcedReportsAreTrue == \A dir \in Dirs : \A r \in RunsFrom(dir) :
    r.force /\ r.dir.report # dir.report /\ r.dir.report.downloaded => r.dir.master = Payload[r.dir.report.master]

\* Without it the report may give the master database of another version the hash of
\* this one's: master.mdb has one name for all versions and its reuse checks no hash.
ASSUME ReusedMasterIsUnverified ==
    LET first  == B!fetch_bootstrap(FreshDir, 1, TRUE, FALSE, Sound(1))
        second == B!fetch_bootstrap(first, 2, TRUE, FALSE, Sound(2))
    IN  /\ second.report.reused /\ second.report.version = 2 /\ second.report.master = "h2"
        /\ second.master = Payload["h1"]

---------------------------------------------------------------------------
(* Archives *)
Stored == {"h1", "h2", "other", B!Missing, B!Empty, B!Unreadable}
Wire(named, md5) == [kind |-> "wire", named |-> named, md5 |-> md5]
Roots == {[index |-> i, android |-> a, objects |-> [h \in {"h1", "h2"} |-> IF h = "h1" THEN x ELSE y]] :
          i \in {B!Absent, Wire(TRUE, "m2"), Wire(FALSE, "m2")}, a \in {B!Absent, Wire(TRUE, "m2"), Wire(TRUE, "cut"), Wire(TRUE, "m1")},
          x \in Stored, y \in Stored}
ManifestDbs == {B!Absent, Payload["m2"], Payload["m1"], Payload["text"], [Payload["m2"] EXCEPT !.kind = "broken"],
                Db({Entry("master.mdb", "h2"), Entry("a", "H2")}), Db({Entry("master.mdb", "h2"), Entry("a", "bad")}), Db({})}
Whole(root, db) == \A r \in db.rows : B!Lower(r.hash) \in {"h1", "h2"} /\ root.objects[B!Lower(r.hash)] = B!Lower(r.hash)

\* An archive that is ready serves the wire manifests of its own manifest database and
\* the master object; every other object is present and not empty, and no more.
ASSUME ReadyIsBootable == \A root \in Roots, db \in ManifestDbs : \A version \in 1..2 :
    LET report == B!run_preflight(root, db, version)
    IN  report.ready => /\ version = 2 /\ db = Payload[root.android.md5] /\ root.android.md5 = root.index.md5
                        /\ root.objects["h2"] = "h2" /\ root.objects["h1"] \notin {B!Missing, B!Empty}
                        /\ Cardinality(report.wire) = 5 /\ report.present = report.expected
ASSUME ReadyIsNotIntact == \E root \in Roots : B!run_preflight(root, Payload["m2"], 2).ready /\ ~Whole(root, Payload["m2"])

\* An audit is complete exactly when every object of the manifest is intact.  It says
\* nothing of the wire manifests, nor that the manifest database is itself sound.
ASSUME CompleteAuditIsIntact == \A root \in Roots, db \in ManifestDbs : \A expected \in 0..2 :
    LET report == B!audit(root, db, 2, expected)
    IN  /\ report.complete => db.kind \in {"db", "broken"} /\ Whole(root, db)
        /\ db.kind = "db" /\ Whole(root, db) /\ expected = Cardinality({B!Lower(r.hash) : r \in db.rows})
               => report.complete
        /\ report.failures \cap {"unique_hash_count_mismatch", "manifest_db_missing"} = {} /\ db.kind = "db"
               => report.checked + report.missing + report.unreadable
                     + Cardinality({h \in {B!Lower(r.hash) : r \in db.rows} : h \notin {"h1", "h2"}}) = expected
ASSUME CompleteIsNotReady == \E root \in Roots, db \in ManifestDbs :
    B!audit(root, db, 2, 2).complete /\ ~B!run_preflight(root, db, 2).ready

---------------------------------------------------------------------------
(* The resolution of resource URLs, over small manifests.                         *)
Comp(stem, suffix, lz4) == [stem |-> stem, suffix |-> suffix, lz4 |-> lz4]
DirOf(stem) == Comp(stem, "", 0)
Escaped == Comp("a%2Fb", ".acb", 0)
U == INSTANCE ResourceUrls WITH
        Hashes <- "h1" :> "h1" @@ "H1" :> "h1" @@ "h2" :> "h2",
        PrefixOf <- "hh" :> {"h1"} @@ "ff" :> {},
        Unquoted <- Escaped :> <<DirOf("a"), Comp("b", ".acb", 0)>>,
        FinalVersion <- "10133800"

Bank == Comp("x", ".acb", 0)
Names == {<<Bank>>, <<DirOf("Android"), Bank>>, <<DirOf("Common"), Bank>>, <<DirOf("l"), Bank>>, <<Escaped>>,
          <<DirOf("a"), Comp("b", ".acb", 0)>>, <<Comp("m", ".mdb", 0)>>, <<Comp("x", ".acb", 1)>>, <<Comp("v", ".usm", 0)>>, <<DirOf("h2")>>}
NamesIn(rows) == {r.name : r \in rows}
Row(name, back, hash) == [name |-> name, back |-> back, hash |-> hash, group |-> "every"]
AllRows == {Row(n, FALSE, h) : n \in Names, h \in {"h1", "H1", "h2"}} \cup {Row(<<DirOf("l"), Bank>>, TRUE, "h2")}
Manifests == {m \in {{r, s} : r, s \in AllRows} : U!ValidRows(m)}
Ends(tail, name) == Len(name) <= Len(tail) /\ SubSeq(tail, Len(tail) - Len(name) + 1, Len(tail)) = name

\* The script calls a manifest complete exactly when every name has a category and, of
\* the names that the unquoted URL of a row ends in, the longest has the row's digest.
Decoded(tail) == U!FlattenSeq([i \in DOMAIN tail |-> U!unquote(tail[i])])
ASSUME CompleteIsUnshadowed == \A m \in Manifests :
    U!verify_manifest(m).complete <=> \A r \in m :
        LET tail   == Decoded(U!representative_route(r.name, U!category_for_name(r.name)).tail)
            ending == {s \in m : Ends(tail, s.name)}
        IN  /\ U!category_for_name(r.name) # U!NoCategory
            /\ \E s \in ending : /\ U!Lower(s.hash) = U!Lower(r.hash)
                                 /\ \A o \in ending : Len(o.name) <= Len(s.name)

\* That is so for the routes that the script tries.  On another route of the client a
\* complete manifest may still resolve a name to another object.
OtherRoute(r) == [version |-> U!NoVersion, resources |-> TRUE, category |-> U!category_for_name(r.name),
                  tail |-> <<DirOf("Common")>> \o r.name]
ASSUME CompleteIsForItsRoutes == \E m \in Manifests :
    /\ U!verify_manifest(m).complete
    /\ \E r \in m : U!resolve_resource_request(OtherRoute(r), U!load_manifest_name_index(m)) # U!Lower(r.hash)

\* The counts of basenames decide whether a lookup by basename could serve every row,
\* the rows with invalid hashes included.
AllManifests == {{r, s} : r, s \in AllRows \cup {Row(<<Bank>>, FALSE, "bad")}}
ASSUME BasenamesAreJudged == \A m \in AllManifests :
    /\ (U!inspect_manifest(m).conflicts = 0)
         <=> \E f \in [{n[Len(n)] : n \in NamesIn(m)} -> {"h1", "h2", "bad"}] : \A r \in m : f[r.name[Len(r.name)]] = U!Lower(r.hash)
    /\ (U!inspect_manifest(m).collisions = 0) <=> \A n, k \in NamesIn(m) : n[Len(n)] = k[Len(k)] => n = k

\* A leaf that is a digest names that object, or nothing when the directory above it
\* does not fit, whatever names the manifest has.
ASSUME HashesNeedNoManifest == \A m \in Manifests : \A leaf \in {"h1", "H1"} : \A above \in {"hh", "ff", "Android", "h2"} : \A n \in 0..2 :
    U!digest_from_tail(<<DirOf(above), Comp(leaf, "", n)>>, U!load_manifest_name_index(m))
        \in (CASE n = 2 -> {U!NoDigest} [] above = "ff" -> {U!NoDigest} [] OTHER -> {"h1"})

\* Where a name resolves to its own object, the object is fetched from the path that
\* the catalog gives it.
ASSUME FetchedFromTheCatalogPath == \A m \in Manifests : \A r \in m :
    LET route == U!representative_route(r.name, U!category_for_name(r.name))
        digest == U!resolve_resource_request(route, U!load_manifest_name_index(m))
    IN  U!Result(r, U!load_manifest_name_index(m)) = "resolved"
            => \E c \in U!write_catalog(m) : c.name = r.name /\ c.path = {U!canonical_cdn(route, digest)}

\* A category that refuses ranges is found by the plain request; one that answers
\* either mode makes the suffix ambiguous beside it.
ASSUME RangesAreNotNeeded == \A answers \in [{"Sound", "Movie"} \X {"range", "plain_get_prefix"} -> {<<200, 1>>, <<206, 1>>, <<206, 0>>, <<403, 0>>}] :
    LET given == [a \in U!Categories \X {"h1"} \X {"range", "plain_get_prefix"} |->
                      IF a[1] \in {"Sound", "Movie"} THEN [status |-> answers[a[1], a[3]][1], bytes |-> answers[a[1], a[3]][2]]
                      ELSE [status |-> 403, bytes |-> 0]]
        found == U!probe_suffix({Row(<<Bank>>, FALSE, "h1")}, given)
        Good(c) == \E mode \in {"range", "plain_get_prefix"} : answers[c, mode] \in {<<200, 1>>, <<206, 1>>}
    IN  found = {c \in {"Sound", "Movie"} : Good(c)} /\ (U!Ambiguous(found) <=> (Good("Sound") <=> Good("Movie")))
=============================================================================
