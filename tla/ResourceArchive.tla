--------------------------- MODULE ResourceArchive ---------------------------
(***************************************************************************)
(* The content-addressed resource archive and the two programs that use it *)
(* at the same time: server/resource_server.py, whose request threads      *)
(* serve objects and, with --fetch-missing, fetch missing ones from the    *)
(* CDN, and scripts/archive-resources.py --download, whose workers verify, *)
(* repair and download every object of the manifest.                       *)
(*                                                                         *)
(* Both download into a .part file of their own, check its MD5, and rename *)
(* it to its final name.  Either program may be killed at any step.        *)
(***************************************************************************)
EXTENDS ByteRange

CONSTANTS
    Objects,       \* digests that the manifest names
    Threads,       \* request threads of the resource server
    Requests,      \* [object, range, method] a client may send
    Size,          \* the size of each object
    DamagedSize,   \* the size of its damaged copy
    Retries,       \* --retries of the archiver
    InitialFiles,  \* archives the programs may be started on
    FetchMissing,  \* --fetch-missing of the server
    MaxKills,      \* bound on how often a program is killed
    NoRequest

Contents == {"none", "good", "damaged"}

ASSUME SizesAssumption == Size \in [Objects -> Nat] /\ DamagedSize \in [Objects -> Nat]
ASSUME RetriesAssumption == Retries \in Nat
ASSUME KillsAssumption == MaxKills \in Nat
ASSUME FetchAssumption == FetchMissing \in BOOLEAN
ASSUME FilesAssumption == InitialFiles \subseteq [Objects -> Contents]
ASSUME RequestsAssumption == \A r \in Requests : r.object \in Objects /\ IsRange(r.range)
ASSUME NoRequestAssumption == NoRequest \notin Requests

VARIABLES
    file,      \* what is stored under each object's final name
    origin,    \* history: what was stored when the programs were started
    pc,        \* what each request thread does next
    request,   \* its request
    part,      \* what its .part file holds: "none" when it has no such file
    slice,     \* the bytes its headers have announced
    body,      \* the content it has sent them from, "none" before
    work,      \* what the archiver's worker for each object does next
    copy,      \* what that worker's .part file holds
    tries,     \* how many retries it has left
    kills

server   == <<pc, request, part, slice, body>>
archiver == <<work, copy, tries>>
vars     == <<file, origin, server, archiver, kills>>

Parts == {"none", "empty", "good", "damaged"}

SizeOf(o, content) == IF content = "good" THEN Size[o] ELSE DamagedSize[o]

Init ==
    /\ file \in InitialFiles
    /\ origin = file
    /\ pc = [t \in Threads |-> "idle"]
    /\ request = [t \in Threads |-> NoRequest]
    /\ part = [t \in Threads |-> "none"]
    /\ slice = [t \in Threads |-> Unsatisfiable]
    /\ body = [t \in Threads |-> "none"]
    /\ work = [o \in Objects |-> "todo"]
    /\ copy = [o \in Objects |-> "none"]
    /\ tries = [o \in Objects |-> Retries]
    /\ kills = 0

-----------------------------------------------------------------------------
(* A request thread of the resource server *)

Goto(t, from, to) == pc[t] = from /\ pc' = [pc EXCEPT ![t] = to]

Receive(t, r) ==
    /\ Goto(t, "idle", "look")
    /\ request' = [request EXCEPT ![t] = r]
    /\ UNCHANGED <<file, origin, part, slice, body, archiver, kills>>

Object(t) == request[t].object

\* path.is_file(): serve it, or fetch it first.
Look(t) ==
    /\ pc[t] = "look"
    /\ pc' = [pc EXCEPT ![t] = IF file[Object(t)] # "none" THEN "stat"
                               ELSE IF FetchMissing THEN "fetch" ELSE "404"]
    /\ UNCHANGED <<file, origin, request, part, slice, body, archiver, kills>>

\* mkstemp in the directory of the object.
MakePart(t) ==
    /\ Goto(t, "fetch", "download")
    /\ part' = [part EXCEPT ![t] = "empty"]
    /\ UNCHANGED <<file, origin, request, slice, body, archiver, kills>>

\* The CDN sends the object, or something else (a truncated or wrong body).
Download(t, content) ==
    /\ Goto(t, "download", "verify")
    /\ part' = [part EXCEPT ![t] = content]
    /\ UNCHANGED <<file, origin, request, slice, body, archiver, kills>>

\* Mutant: the .part file is not unlinked.
FetchFailsLeaving(t) ==
    /\ pc[t] \in {"fetch", "download", "verify"}
    /\ pc' = [pc EXCEPT ![t] = "relook"]
    /\ UNCHANGED <<file, origin, request, part, slice, body, archiver, kills>>

\* An HTTP error, a timeout or a failing write or rename: the .part file is unlinked.
FetchFails(t) ==
    /\ pc[t] \in {"fetch", "download", "verify"}
    /\ pc' = [pc EXCEPT ![t] = "relook"]
    /\ part' = [part EXCEPT ![t] = "none"]
    /\ UNCHANGED <<file, origin, request, slice, body, archiver, kills>>

\* An error outside the except clause (http.client.HTTPException, mkdir): the .part
\* file is unlinked, and the exception drops the client's connection.
FetchRaises(t) ==
    /\ pc[t] \in {"fetch", "download"}
    /\ pc' = [pc EXCEPT ![t] = "dropped"]
    /\ part' = [part EXCEPT ![t] = "none"]
    /\ UNCHANGED <<file, origin, request, slice, body, archiver, kills>>

\* Mutant: the rename before the MD5 check.
InstallUnchecked(t) ==
    /\ Goto(t, "verify", "relook")
    /\ file' = [file EXCEPT ![Object(t)] = part[t]]
    /\ part' = [part EXCEPT ![t] = "none"]
    /\ UNCHANGED <<origin, request, slice, body, archiver, kills>>

\* The MD5 matches and os.replace installs the object, or the .part file is unlinked.
Install(t) ==
    /\ Goto(t, "verify", "relook")
    /\ file' = IF part[t] = "good" THEN [file EXCEPT ![Object(t)] = "good"] ELSE file
    /\ part' = [part EXCEPT ![t] = "none"]
    /\ UNCHANGED <<origin, request, slice, body, archiver, kills>>

\* Mutants: an object that cannot be fetched by the time the thread looks again is
\* removed, and a failed fetch is tried again.
LookAgainAndUnlink(t) ==
    /\ Goto(t, "relook", "404")
    /\ file' = [file EXCEPT ![Object(t)] = "none"]
    /\ UNCHANGED <<origin, request, part, slice, body, archiver, kills>>
LookForever(t) ==
    /\ Goto(t, "relook", IF file[Object(t)] # "none" THEN "stat" ELSE "look")
    /\ UNCHANGED <<file, origin, request, part, slice, body, archiver, kills>>

\* path.is_file() again, whatever the fetch has returned.
LookAgain(t) ==
    /\ Goto(t, "relook", IF file[Object(t)] # "none" THEN "stat" ELSE "404")
    /\ UNCHANGED <<file, origin, request, part, slice, body, archiver, kills>>

\* path.stat() gives the size, from which the range and the headers are computed.
Announce(t) ==
    /\ pc[t] = "stat"
    /\ file[Object(t)] # "none"
    /\ LET asked == Parse(request[t].range, SizeOf(Object(t), file[Object(t)])) IN
          /\ slice' = [slice EXCEPT ![t] = asked]
          /\ pc' = [pc EXCEPT ![t] = IF asked = Unsatisfiable THEN "416"
                                   ELSE IF request[t].method = "HEAD" \/ asked.length = 0 THEN "sent"
                                   ELSE "open"]
    /\ UNCHANGED <<file, origin, request, part, body, archiver, kills>>

\* path.open() and the copy loop, which reads from one open file.
Send(t) ==
    /\ Goto(t, "open", "sent")
    /\ file[Object(t)] # "none"
    /\ body' = [body EXCEPT ![t] = file[Object(t)]]
    /\ UNCHANGED <<file, origin, request, part, slice, archiver, kills>>

\* The archiver has just unlinked the object: FileNotFoundError drops the connection.
Vanished(t) ==
    /\ pc[t] \in {"stat", "open"}
    /\ file[Object(t)] = "none"
    /\ pc' = [pc EXCEPT ![t] = "dropped"]
    /\ UNCHANGED <<file, origin, request, part, slice, body, archiver, kills>>

Close(t) ==
    /\ pc[t] \in {"404", "416", "sent", "dropped"}
    /\ pc' = [pc EXCEPT ![t] = "idle"]
    /\ request' = [request EXCEPT ![t] = NoRequest]
    /\ slice' = [slice EXCEPT ![t] = Unsatisfiable]
    /\ body' = [body EXCEPT ![t] = "none"]
    /\ UNCHANGED <<file, origin, part, archiver, kills>>

-----------------------------------------------------------------------------
(* download_one for each object, in the archiver's pool *)

WorkOn(o, from, to) == work[o] = from /\ work' = [work EXCEPT ![o] = to]

\* verify_one: MD5 of the stored file.
VerifyOne(o) ==
    /\ WorkOn(o, "todo", CASE file[o] = "good"    -> "verified"
                           [] file[o] = "damaged" -> "unlink"
                           [] file[o] = "none"    -> "download")
    /\ UNCHANGED <<file, origin, server, copy, tries, kills>>

\* The damaged file is removed before the download starts.
Unlink(o) ==
    /\ WorkOn(o, "unlink", "download")
    /\ file' = [file EXCEPT ![o] = "none"]
    /\ UNCHANGED <<origin, server, copy, tries, kills>>

MakeCopy(o) ==
    /\ WorkOn(o, "download", "receive")
    /\ copy' = [copy EXCEPT ![o] = "empty"]
    /\ UNCHANGED <<file, origin, server, tries, kills>>

ReceiveCopy(o, content) ==
    /\ WorkOn(o, "receive", "check")
    /\ copy' = [copy EXCEPT ![o] = content]
    /\ UNCHANGED <<file, origin, server, tries, kills>>

\* Mutant: the attempts are not counted.
AttemptForever(o) ==
    /\ work[o] \in {"download", "receive", "check"}
    /\ work' = [work EXCEPT ![o] = "download"]
    /\ copy' = [copy EXCEPT ![o] = "none"]
    /\ UNCHANGED <<file, origin, server, tries, kills>>

\* An error is retried; it is reported once no retry is left.
AttemptFails(o) ==
    /\ work[o] \in {"download", "receive", "check"}
    /\ work' = [work EXCEPT ![o] = IF tries[o] > 0 THEN "download" ELSE "download_error"]
    /\ tries' = [tries EXCEPT ![o] = IF tries[o] > 0 THEN tries[o] - 1 ELSE 0]
    /\ copy' = [copy EXCEPT ![o] = "none"]
    /\ UNCHANGED <<file, origin, server, kills>>

\* An error outside the except clause ends the worker, and leaves its .part file.
WorkerRaises(o) ==
    /\ work[o] \in {"todo", "unlink", "receive"}
    /\ work' = [work EXCEPT ![o] = "raised"]
    /\ UNCHANGED <<file, origin, server, copy, tries, kills>>

\* Mutant: a download that was not checked counts as downloaded.
ReportUnchecked(o) ==
    /\ WorkOn(o, "check", "downloaded")
    /\ file' = IF copy[o] = "good" THEN [file EXCEPT ![o] = "good"] ELSE file
    /\ copy' = [copy EXCEPT ![o] = "none"]
    /\ UNCHANGED <<origin, server, tries, kills>>

\* A wrong MD5 is reported and never retried.
InstallCopy(o) ==
    /\ WorkOn(o, "check", IF copy[o] = "good" THEN "downloaded" ELSE "hash_mismatch")
    /\ file' = IF copy[o] = "good" THEN [file EXCEPT ![o] = "good"] ELSE file
    /\ copy' = [copy EXCEPT ![o] = "none"]
    /\ UNCHANGED <<origin, server, tries, kills>>

-----------------------------------------------------------------------------
(* Kills: what a program had not renamed stays behind as a .part file. *)

KillServer ==
    /\ kills < MaxKills
    /\ kills' = kills + 1
    /\ pc' = [t \in Threads |-> "idle"]
    /\ request' = [t \in Threads |-> NoRequest]
    /\ part' = [t \in Threads |-> "none"]
    /\ slice' = [t \in Threads |-> Unsatisfiable]
    /\ body' = [t \in Threads |-> "none"]
    /\ UNCHANGED <<file, origin, archiver>>

\* Killed, and started again on the same manifest.
KillArchiver ==
    /\ kills < MaxKills
    /\ kills' = kills + 1
    /\ work' = [o \in Objects |-> "todo"]
    /\ copy' = [o \in Objects |-> "none"]
    /\ tries' = [o \in Objects |-> Retries]
    /\ UNCHANGED <<file, origin, server>>

-----------------------------------------------------------------------------
Serve(t) ==
    \/ Look(t)
    \/ MakePart(t)
    \/ \E content \in {"good", "damaged"} : Download(t, content)
    \/ FetchFails(t)
    \/ FetchRaises(t)
    \/ Install(t)
    \/ LookAgain(t)
    \/ Announce(t)
    \/ Send(t)
    \/ Vanished(t)
    \/ Close(t)

Archive(o) ==
    \/ VerifyOne(o)
    \/ Unlink(o)
    \/ MakeCopy(o)
    \/ \E content \in {"good", "damaged"} : ReceiveCopy(o, content)
    \/ AttemptFails(o)
    \/ WorkerRaises(o)
    \/ InstallCopy(o)

Next ==
    \/ \E t \in Threads : Serve(t) \/ \E r \in Requests : Receive(t, r)
    \/ \E o \in Objects : Archive(o)
    \/ KillServer
    \/ KillArchiver

Spec == Init /\ [][Next]_vars

\* Threads and workers run; a silent CDN runs into the socket timeout.
FairSpec == /\ Spec
            /\ \A t \in Threads : WF_vars(Serve(t))
            /\ \A o \in Objects : WF_vars(Archive(o))

-----------------------------------------------------------------------------
(* Properties *)

Ended == {"verified", "downloaded", "hash_mismatch", "download_error", "raised"}

\* Types; a .part file exists exactly while its owner is about to fill or check it.
TypeOK ==
    /\ file \in [Objects -> Contents]
    /\ origin \in [Objects -> Contents]
    /\ pc \in [Threads -> {"idle", "look", "fetch", "download", "verify", "relook", "stat", "open",
                           "404", "416", "sent", "dropped"}]
    /\ request \in [Threads -> Requests \cup {NoRequest}]
    /\ part \in [Threads -> Parts]
    /\ slice \in [Threads -> [first : Nat, length : Nat \cup {-1}]]
    /\ body \in [Threads -> Contents]
    /\ work \in [Objects -> {"todo", "unlink", "download", "receive", "check"} \cup Ended]
    /\ copy \in [Objects -> Parts]
    /\ tries \in [Objects -> 0..Retries]
    /\ kills \in 0..MaxKills
    /\ \A t \in Threads : /\ part[t] # "none" <=> pc[t] \in {"download", "verify"}
                          /\ request[t] = NoRequest <=> pc[t] = "idle"
    /\ \A o \in Objects : copy[o] # "none" => work[o] \in {"receive", "check", "raised"}

\* Nothing that runs at the same time, and no kill, ever costs the archive a good
\* object: the archiver unlinks only what is damaged, and renames are checked.
GoodStaysGood == [][\A o \in Objects : file[o] = "good" => file'[o] = "good"]_vars

\* An object that was not damaged when the programs started is served from its
\* verified bytes, and from exactly those the range asks for, whoever fetched it
\* and whoever else was fetching it at the same time.
ServedObjectsAreExact ==
    \A t \in Threads : pc[t] = "sent" /\ origin[Object(t)] # "damaged" =>
        /\ body[t] \in {"none", "good"}
        /\ Bytes(slice[t]) = Asked(request[t].range, Size[Object(t)])

\* 416 is answered exactly when the range asks for none of the object's bytes.
RefusedRangesAreEmpty ==
    \A t \in Threads : pc[t] = "416" /\ origin[Object(t)] # "damaged" =>
        Asked(request[t].range, Size[Object(t)]) = {}

\* What the archiver has reported as verified or downloaded is in the archive, and
\* stays there while the server goes on fetching.
ReportIsTrue == \A o \in Objects : work[o] \in {"verified", "downloaded"} => file[o] = "good"

\* The inductive invariant behind these: a damaged object is one that nobody has
\* found missing.  So nobody is about to install what the archiver is about to
\* unlink, and what has been installed is never taken for the damaged file.
Fetching == {"fetch", "download", "verify", "relook"}

NobodyFetchesDamaged == \A t \in Threads : pc[t] \in Fetching => file[Object(t)] # "damaged"
UnlinkedIsDamaged    == \A o \in Objects : work[o] = "unlink" => file[o] = "damaged"
WorkedOnIsRepaired   ==
    \A o \in Objects : work[o] \notin {"todo", "unlink", "raised"} => file[o] # "damaged"
DamageIsOld          == \A o \in Objects : file[o] = "damaged" => origin[o] = "damaged"
AnnouncedIsParsed    ==
    \A t \in Threads : pc[t] \in {"open", "sent", "416"} /\ origin[Object(t)] # "damaged" =>
        /\ slice[t] = Parse(request[t].range, Size[Object(t)])
        /\ pc[t] = "416" <=> slice[t] = Unsatisfiable
        /\ body[t] \in {"none", "good"}
NothingSentYet       == \A t \in Threads : pc[t] # "sent" => body[t] = "none"

IInv == /\ TypeOK
        /\ NobodyFetchesDamaged
        /\ UnlinkedIsDamaged
        /\ WorkedOnIsRepaired
        /\ DamageIsOld
        /\ AnnouncedIsParsed
        /\ NothingSentYet
        /\ ReportIsTrue

\* Every request ends, and the archiver's pool runs empty.
RequestsEnd == \A t \in Threads : pc[t] # "idle" ~> pc[t] = "idle"
ArchiverEnds == <>[](\A o \in Objects : work[o] \in Ended)
=============================================================================
