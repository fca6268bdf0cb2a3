---------------------------- MODULE ResourceUrls ----------------------------
(***************************************************************************)
(* How a resource URL of the client leads to an object of the archive      *)
(* (server/resource_server.py), and the three scripts that check manifest  *)
(* names against it.  A name is a sequence of components; a component is   *)
(* a stem, a suffix and the number of ".lz4" after it.  A URL is           *)
(* [version, resources, category, tail] after the match of the path, its   *)
(* tail a sequence of raw components that unquote may turn into others.    *)
(* A row of the manifest is [name, back, hash, group]: back says that it   *)
(* is written with backslashes.                                            *)
(***************************************************************************)
EXTENDS Naturals, FiniteSets, SequencesExt

CONSTANTS
    Hashes,     \* stem of 32 hexadecimal digits -> the digest, in lower case
    PrefixOf,   \* two hexadecimal digits -> digests that begin with them
    Unquoted,   \* raw component -> the components it stands for, when these differ
    FinalVersion

Plain(c)  == c.suffix = "" /\ c.lz4 = 0
IsHash(c) == Plain(c) /\ c.stem \in DOMAIN Hashes
Stripped(c) == [c EXCEPT !.lz4 = @ - 1]
unquote(c) == IF c \in DOMAIN Unquoted THEN Unquoted[c] ELSE <<c>>

---------------------------------------------------------------------------
(* server/resource_server.py *)
NoDigest == "none"

\* The manifest's index: empty and refused when a row is invalid or a name is mapped
\* to two digests.
ValidRows(rows) == /\ \A r \in rows : r.hash \in DOMAIN Hashes
                   /\ \A r, s \in rows : r.name = s.name => Hashes[r.hash] = Hashes[s.hash]
load_manifest_name_index(rows) ==
    [n \in {r.name : r \in rows} |-> Hashes[(CHOOSE r \in rows : r.name = n).hash]]

\* Candidates, the longest suffix of the tail first, each before its form without
\* .lz4.  parts: for each raw component, what it stands for.
WithoutLz4(name) == [name EXCEPT ![Len(name)] = Stripped(@)]
CandidatesAt(name) == IF Last(name).lz4 > 0 THEN <<name, WithoutLz4(name)>> ELSE <<name>>
manifest_name_candidates(parts) ==
    FlattenSeq([start \in 1..Len(parts) |-> CandidatesAt(FlattenSeq(SubSeq(parts, start, Len(parts))))])

\* A leaf that is a digest, with or without .lz4, is decided by itself.
DirectHash(parts) ==
    LET leaf == Last(parts)
        candidates == IF Len(leaf) # 1 THEN {}
                      ELSE {c \in {leaf[1]} \cup (IF leaf[1].lz4 > 0 THEN {Stripped(leaf[1])} ELSE {}) : IsHash(c)}
    IN  {Hashes[c.stem] : c \in candidates}
WrongPrefix(parts, digest) ==
    /\ Len(parts) >= 2
    /\ LET above == parts[Len(parts) - 1]
       IN  Len(above) = 1 /\ Plain(above[1]) /\ above[1].stem \in DOMAIN PrefixOf /\ digest \notin PrefixOf[above[1].stem]

digest_from_tail(tail, index) ==
    LET parts  == [i \in DOMAIN tail |-> unquote(tail[i])]
        direct == DirectHash(parts)
        hits   == SelectSeq(manifest_name_candidates(parts), LAMBDA n : n \in DOMAIN index)
    IN  IF parts = << >> THEN NoDigest
        ELSE IF direct # {} THEN LET d == CHOOSE d \in direct : TRUE IN IF WrongPrefix(parts, d) THEN NoDigest ELSE d
        ELSE IF hits = << >> THEN NoDigest ELSE index[Head(hits)]

Categories == {"AssetBundles", "Sound", "Movie", "Generic"}
NoVersion == "none"
\* The families of URL that the final client uses; digest: what the request is for.
Supported(url) == /\ url.category \in Categories
                  /\ url.version \in {NoVersion, FinalVersion}
                  /\ url.version = NoVersion => url.resources
                  /\ url.category = "Movie" => url.version = NoVersion
resolve_resource_request(url, index) ==
    IF Supported(url) THEN digest_from_tail(url.tail, index) ELSE NoDigest

\* A manifest is served under its own name, in the manifests directory only.
Dots == {".", ".."}
resolve_manifest(version, raw) ==
    LET name == unquote(raw)
    IN  IF version = FinalVersion /\ Len(name) = 1 /\ name[1].stem \notin Dots THEN name ELSE << >>

\* The event is named for the category, whatever the request resolves to.
resource_event_route(kind, url) ==
    IF kind = "manifest" THEN "@resource/manifest"
    ELSE IF kind = "resource" /\ url.category \in Categories THEN "@resource/" \o url.category ELSE "@resource/unresolved"
canonical_cdn(url, digest) == [category |-> url.category, digest |-> digest]

---------------------------------------------------------------------------
(* scripts/inspect-resource-manifest.py *)
NoCategory == "<unknown>"
category_for_name(name) ==
    LET c == Last(name)
    IN  CASE c.lz4 > 0 -> NoCategory
          [] c.suffix = ".unity3d" -> "AssetBundles"
          [] c.suffix \in {".acb", ".awb", ".bytes"} -> "Sound"
          [] c.suffix = ".usm" -> "Movie"
          [] c.suffix \in {".bdb", ".mdb"} -> "Generic"
          [] OTHER -> NoCategory
resource_path(r) == IF category_for_name(r.name) = NoCategory \/ r.hash \notin DOMAIN Hashes THEN {}
                    ELSE {[category |-> category_for_name(r.name), digest |-> Hashes[r.hash]]}
Lower(hash) == IF hash \in DOMAIN Hashes THEN Hashes[hash] ELSE hash
\* the basenames that stand for more than one of what is paired with them.
Collisions(pairs) == {b \in {p[1] : p \in pairs} : Cardinality({p \in pairs : p[1] = b}) > 1}
\* invalid and unknown: what the examples are taken from.
inspect_manifest(rows) ==
    [rows    |-> Cardinality(rows),
     names   |-> Cardinality({<<r.name, r.back>> : r \in rows}),
     hashes  |-> Cardinality({Lower(r.hash) : r \in rows}),
     slashed |-> Cardinality({r \in rows : Len(r.name) > 1}),
     basenames |-> Cardinality({Last(r.name) : r \in rows}),
     collisions |-> Cardinality(Collisions({<<Last(r.name), r.name>> : r \in rows})),
     conflicts  |-> Cardinality(Collisions({<<Last(r.name), Lower(r.hash)>> : r \in rows})),
     categories |-> [c \in {category_for_name(r.name) : r \in rows} |->
                        Cardinality({r \in rows : category_for_name(r.name) = c})],
     groups  |-> [g \in {<<Last(r.name).suffix, r.group>> : r \in rows} |->
                        Cardinality({r \in rows : <<Last(r.name).suffix, r.group>> = g})],
     invalid |-> {r.name : r \in {r \in rows : r.hash \notin DOMAIN Hashes}},
     unknown |-> {r.name : r \in {r \in rows : category_for_name(r.name) = NoCategory}}]
write_catalog(rows) ==
    {[name |-> r.name, hash |-> Lower(r.hash), category |-> category_for_name(r.name),
      path |-> resource_path([r EXCEPT !.hash = Lower(@)]), group |-> r.group] : r \in rows}

---------------------------------------------------------------------------
(* scripts/verify-final-manifest-resolution.py *)
Dir(stem) == [stem |-> stem, suffix |-> "", lz4 |-> 0]
representative_route(name, category) ==
    LET versioned == category # "Movie"
        dirs == CASE category = "Generic" -> <<Dir("Master")>> [] category = "Movie" -> << >> [] OTHER -> <<Dir("Android")>>
    IN  [version |-> IF versioned THEN FinalVersion ELSE NoVersion, resources |-> ~versioned,
         category |-> category, tail |-> dirs \o name]
Result(r, index) ==
    LET category == category_for_name(r.name)
        digest == resolve_resource_request(representative_route(r.name, category), index)
    IN  CASE category = NoCategory -> "unknown" [] digest = NoDigest -> "unresolved"
          [] digest # Lower(r.hash) -> "mismatched" [] OTHER -> "resolved"
\* rows that are no valid manifest stop the script.
verify_manifest(rows) ==
    LET index == load_manifest_name_index(rows)
        Count(result) == Cardinality({r \in rows : Result(r, index) = result})
    IN  [total |-> Cardinality(rows), path_shaped |-> Cardinality({r \in rows : Len(r.name) > 1}),
         resolved |-> Count("resolved"), unresolved |-> Count("unresolved"),
         mismatched |-> Count("mismatched"), unknown_category |-> Count("unknown"),
         complete |-> rows # {} /\ \A r \in rows : Result(r, index) = "resolved"]

---------------------------------------------------------------------------
(* scripts/probe-resource-categories.py.  answers[category, digest, mode] is what  *)
(* the CDN answers: [status, bytes].                                               *)
select_examples(rows, suffix, limit) ==
    LET named == {r \in rows : Last(r.name).suffix = suffix /\ Last(r.name).lz4 = 0}
    IN  {s \in SUBSET named : Cardinality(s) = (IF Cardinality(named) < limit THEN Cardinality(named) ELSE limit)}
GoodAnswer(a) == a.status \in {200, 206} /\ a.bytes = 1
probe_category(category, digest, answers) ==
    LET modes == IF GoodAnswer(answers[category, digest, "range"]) THEN {"range"} ELSE {"range", "plain_get_prefix"}
    IN  [category |-> category, attempts |-> modes,
         success |-> \E m \in modes : GoodAnswer(answers[category, digest, m])]
probe_suffix(samples, answers) ==
    {p.category : p \in {p \in {probe_category(c, Lower(r.hash), answers) : c \in Categories, r \in samples} : p.success}}
Ambiguous(successful) == Cardinality(successful) # 1
=============================================================================
