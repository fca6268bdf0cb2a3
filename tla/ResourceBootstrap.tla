-------------------------- MODULE ResourceBootstrap --------------------------
(***************************************************************************)
(* fetch-resource-bootstrap.py, which fetches the manifest and the master  *)
(* database of a resource version into a directory; and the two scripts    *)
(* that check a local archive against a manifest: preflight-local-         *)
(* resources.py, which is fast, and audit-local-resource-objects.py, which *)
(* reads every object.                                                     *)
(*                                                                         *)
(* Each has a copy of the decoder of payloads, with which the module       *)
(* begins; after it a payload is known by its MD5, and Decoded gives what  *)
(* the decoder makes of it: "refused", "garbage" (no SQLite), "broken"      *)
(* (fails quick_check), or a database.  A manifest database is the set of  *)
(* its rows, [name, hash].                                                 *)
(***************************************************************************)
EXTENDS Naturals, FiniteSets, Sequences

CONSTANTS
    Decoded,     \* MD5 -> [kind, rows]
    Hash,        \* hash as it is written -> the digest, in lower case
    ExpectedRows, ExpectedHashes, FinalVersion

---------------------------------------------------------------------------
(* The decoder: a wrapper that declares the decoded size, and a raw LZ4 block.     *)
(* A failure is Refused.                                                           *)
Refused == [ok |-> FALSE, out |-> << >>]

RECURSIVE ReadLength(_, _, _), CopyMatch(_, _, _), DecodeFrom(_, _, _, _)

\* The length that starts in a nibble and goes on in the bytes from pos, and where
\* it ends; FALSE when the bytes run out.
ReadLength(src, pos, length) ==
    IF pos > Len(src) THEN [ok |-> FALSE, pos |-> pos, length |-> 0]
    ELSE IF src[pos] = 255 THEN ReadLength(src, pos + 1, length + 255)
    ELSE [ok |-> TRUE, pos |-> pos + 1, length |-> length + src[pos]]

LengthAt(src, pos, nibble) ==
    IF nibble = 15 THEN ReadLength(src, pos, 15) ELSE [ok |-> TRUE, pos |-> pos, length |-> nibble]

\* One byte at a time: a match may overlap what it writes.
CopyMatch(out, offset, n) ==
    IF n = 0 THEN out ELSE CopyMatch(Append(out, out[Len(out) + 1 - offset]), offset, n - 1)

DecodeFrom(src, pos, out, expected) ==
    LET Done == IF Len(out) = expected THEN [ok |-> TRUE, out |-> out] ELSE Refused
    IN  IF pos > Len(src) THEN Done
        ELSE LET literals == LengthAt(src, pos + 1, src[pos] \div 16)
                 after    == literals.pos + literals.length
                 grown    == out \o SubSeq(src, literals.pos, after - 1)
             IN  IF ~literals.ok \/ after - 1 > Len(src) THEN Refused
                 ELSE IF after > Len(src) THEN IF Len(grown) = expected THEN [ok |-> TRUE, out |-> grown] ELSE Refused
                 ELSE IF after + 1 > Len(src) THEN Refused
                 ELSE LET offset == src[after] + 256 * src[after + 1]
                          match  == LengthAt(src, after + 2, src[pos] % 16)
                      IN  IF offset = 0 \/ offset > Len(grown) \/ ~match.ok
                              \/ Len(grown) + match.length + 4 > expected THEN Refused
                          ELSE DecodeFrom(src, match.pos, CopyMatch(grown, offset, match.length + 4), expected)

\* raw: the size that the wrapper declares, and the block after it.
cgss_lz4_decompress(raw) == IF raw.short THEN Refused ELSE DecodeFrom(raw.block, 1, << >>, raw.size)

\* The copy in the preflight script.
wire_decompress(raw) == cgss_lz4_decompress(raw)

---------------------------------------------------------------------------
Absent   == [kind |-> "absent"]
Partial  == [kind |-> "partial"]
NoHash   == "none"
Lower(h) == IF h \in DOMAIN Hash THEN Hash[h] ELSE h
IsDatabase(f) == f.kind = "db"
Readable(f) == f.kind \in {"db", "broken"}

---------------------------------------------------------------------------
(* scripts/fetch-resource-bootstrap.py.  What the CDN answers: index, manifest and *)
(* master are each [result, md5]: "ok", "url_error" (any URLError, HTTPError too), *)
(* or "aborted", another exception while the answer is read.                       *)

\* The row of the manifest database that names the master database.
MasterRows(db) == {r \in db.rows : r.name = "master.mdb"}
get_master_hash(db) == IF \E r \in MasterRows(db) : r.hash \in DOMAIN Hash
                       THEN Lower((CHOOSE r \in MasterRows(db) : TRUE).hash) ELSE NoHash

\* The MD5 of the answer is the one asked for, and what it decodes to is a database.
decode_verified_payload(answer, expected) == answer.md5 = expected /\ IsDatabase(Decoded[answer.md5])
verify_sqlite(f) == IsDatabase(f)
\* A download that ends in a URLError leaves no file; one that is aborted leaves part
\* of one, and a payload that is refused stays.
Leftover(answer) == CASE answer.result = "url_error" -> Absent [] answer.result = "aborted" -> Partial
                      [] OTHER -> [kind |-> "payload"]

\* One database.  left: the compressed download beside it.
Obtain(file, left, force, answer, expected) ==
    IF ~force /\ file # Absent
    THEN [ok |-> verify_sqlite(file), file |-> file, left |-> left, reused |-> TRUE]
    ELSE IF answer.result = "ok" /\ decode_verified_payload(answer, expected)
    THEN [ok |-> TRUE, file |-> Decoded[answer.md5], left |-> Absent, reused |-> FALSE]
    ELSE [ok |-> FALSE, file |-> file, left |-> Leftover(answer), reused |-> FALSE]

\* The version that is asked for, or with --latest the one that the info API reports.
fetch_latest_resource_version(answer) == IF answer.result = "ok" /\ answer.version > 0 THEN answer.version ELSE 0

\* dir.manifest and dir.payload hold a database and a download for each version;
\* nothing is written after the first failure, and the report last.
fetch_bootstrap(dir, version, include_master, force, net) ==
    LET manifest == Obtain(dir.manifest[version], dir.payload[version], force, net.manifest, net.index.md5)
        expected == get_master_hash(manifest.file)
        master   == Obtain(dir.master, dir.master_payload, force, net.master, expected)
        report   == [version |-> version, manifest |-> net.index.md5, master |-> expected,
                     downloaded |-> include_master, reused |-> include_master /\ master.reused]
        Indexed  == [dir EXCEPT !.index = net.index]
        First    == [Indexed EXCEPT !.manifest[version] = manifest.file, !.payload[version] = manifest.left]
        Second   == [First EXCEPT !.master = master.file, !.master_payload = master.left]
    IN  CASE net.index.result # "ok" -> dir
          [] net.index.result = "ok" /\ ~net.index.named -> Indexed
          [] net.index.named /\ (~manifest.ok \/ expected = NoHash) -> First
          [] net.index.named /\ manifest.ok /\ expected # NoHash ->
                 IF ~include_master THEN [First EXCEPT !.report = report]
                 ELSE IF ~master.ok THEN Second ELSE [Second EXCEPT !.report = report]

---------------------------------------------------------------------------
(* The first check that fails ends a chain: the status of each check, and the      *)
(* failure.  chain: sequence of [name, holds, failure].                            *)
PassedChecks(chain) == {chain[i].name : i \in {i \in DOMAIN chain : \A j \in 1..i : chain[j].holds}}
FirstFailure(chain) == {chain[i].failure : i \in {i \in DOMAIN chain : ~chain[i].holds /\ \A j \in 1..(i - 1) : chain[j].holds}}
Check(name, holds, failure) == [name |-> name, holds |-> holds, failure |-> failure]

(* scripts/preflight-local-resources.py.  root: [index, android: the wire           *)
(* manifests, objects].  An object is the MD5 of what is stored under a digest,     *)
(* Missing, Empty, or Unreadable.                                                   *)
Missing    == "missing"
Empty      == "empty"
Unreadable == "unreadable"

verify_wire_manifest_chain(root, db) ==
    IF root.index = Absent \/ root.android = Absent \/ db = Absent THEN << >>
    ELSE LET payload == Decoded[root.android.md5]
         IN  <<Check("index_parsed", root.index.named, "wire_index_invalid"),
               Check("android_wire_md5_matches_index", root.android.md5 = root.index.md5, "wire_android_manifest_md5_mismatch"),
               Check("android_wire_decodes", payload.kind # "refused", "wire_android_manifest_decode_failed"),
               Check("decoded_is_sqlite", payload.kind # "garbage", "wire_android_manifest_not_sqlite"),
               Check("decoded_matches_manifest_db", payload = db, "wire_manifest_db_mismatch")>>

\* The first row of that name; what is in the archive under its digest.
verify_master_object(root, db) ==
    IF db = Absent THEN << >>
    ELSE LET digest == IF MasterRows(db) = {} THEN NoHash ELSE Lower((CHOOSE r \in MasterRows(db) : TRUE).hash)
             valid  == digest \in DOMAIN Hash
             stored == IF valid THEN root.objects[digest] ELSE Missing
         IN  <<Check("manifest_db_readable", Readable(db), "manifest_db_unreadable"),
               Check("manifest_entry_present", valid, "master_manifest_entry_invalid"),
               Check("object_present", stored # Missing, "master_object_missing"),
               Check("object_readable", stored # Unreadable, "master_object_unreadable"),
               Check("md5_matches_manifest", stored = digest, "master_object_md5_mismatch")>>

\* Rows that differ in the case of their hash only count twice.
HashesOf(db) == {r.hash : r \in db.rows}
Failing(pairs) == {p[2] : p \in {p \in pairs : p[1]}}

inspect_manifest(db) ==
    IF db = Absent THEN {"manifest_db_missing"}
    ELSE IF ~Readable(db) THEN {"manifest_db_unreadable"}
    ELSE Failing({<<db.kind = "broken", "manifest_db_quick_check_failed">>,
                  <<Cardinality(db.rows) # ExpectedRows, "manifest_row_count_mismatch">>,
                  <<Cardinality(HashesOf(db)) # ExpectedHashes, "manifest_unique_hash_count_mismatch">>,
                  <<\E h \in HashesOf(db) : h \notin DOMAIN Hash, "manifest_contains_invalid_hash">>})
run_preflight(root, db, version) ==
    LET hashes  == IF Readable(db) THEN HashesOf(db) ELSE {}
        present == {h \in hashes \cap DOMAIN Hash : root.objects[Hash[h]] # Missing}
        failures == inspect_manifest(db)
            \cup FirstFailure(verify_wire_manifest_chain(root, db)) \cup FirstFailure(verify_master_object(root, db))
            \cup Failing({<<version # FinalVersion, "resource_version_mismatch">>,
                          <<Absent \in {root.index, root.android}, "wire_manifest_missing">>,
                          <<hashes = {} /\ db # Absent, "object_check_skipped_no_hashes">>,
                          <<\E h \in hashes \cap DOMAIN Hash : h \notin present, "resource_objects_missing">>,
                          <<\E h \in present : root.objects[Hash[h]] = Empty, "resource_objects_zero_length">>,
                          <<hashes # {} /\ present # hashes, "resource_object_count_mismatch">>})
    IN  [failures |-> failures, ready |-> failures = {}, wire |-> PassedChecks(verify_wire_manifest_chain(root, db)),
         master |-> PassedChecks(verify_master_object(root, db)),
         expected |-> Cardinality(hashes), present |-> Cardinality(present)]

---------------------------------------------------------------------------
(* scripts/audit-local-resource-objects.py                                         *)
audit(root, db, version, expected) ==
    LET hashes == IF Readable(db) THEN {Lower(r.hash) : r \in db.rows} ELSE {}
        Stored(h) == root.objects[h]
        invalid == {h \in hashes : h \notin DOMAIN Hash}
        missing == {h \in hashes \ invalid : Stored(h) = Missing}
        unreadable == {h \in hashes \ (invalid \cup missing) : Stored(h) = Unreadable}
        checked == hashes \ (invalid \cup missing \cup unreadable)
        failures == IF version # FinalVersion THEN {"resource_version_mismatch"}
            ELSE Failing({<<db = Absent, "manifest_db_missing">>,
                          <<db # Absent /\ ~Readable(db), "manifest_db_unreadable">>,
                          <<Cardinality(hashes) # expected, "unique_hash_count_mismatch">>,
                          <<invalid # {}, "invalid_manifest_hash">>, <<missing # {}, "objects_missing">>,
                          <<unreadable # {}, "objects_unreadable">>,
                          <<\E h \in checked : Stored(h) # h, "object_hash_mismatch">>})
    IN  [failures |-> failures, complete |-> failures = {},
         checked |-> Cardinality(checked), missing |-> Cardinality(missing), unreadable |-> Cardinality(unreadable)]
=============================================================================
