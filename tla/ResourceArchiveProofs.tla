------------------------ MODULE ResourceArchiveProofs ------------------------
(***************************************************************************)
(* parse_single_range is right for every range and every file size.  Then  *)
(* the archive invariant, for any number of objects, threads, requests and *)
(* kills: a good object stays, and an object that was not damaged at the   *)
(* start is served from its verified bytes.                                *)
(***************************************************************************)
EXTENDS ResourceArchive, TLAPS

(* parse_single_range *)

\* The bytes that parse_single_range selects are exactly those the range asks for,
\* and it raises RangeNotSatisfiable exactly when a given range asks for none.
THEOREM ParseIsExact ==
    ASSUME NEW r, IsRange(r), NEW size \in Nat
    PROVE  /\ Bytes(Parse(r, size)) = Asked(r, size)
           /\ r.kind # "none" => (Parse(r, size) = Unsatisfiable <=> Asked(r, size) = {})
<1> DEFINE parsed == Parse(r, size)
<1> USE DEF Slice, Unsatisfiable, Bytes, Smaller
<1>1. CASE r.kind = "none"
  BY <1>1 DEF Parse, Asked
<1>2. CASE r.kind = "malformed"
  BY <1>2 DEF Parse, Asked
<1>3. CASE r.kind = "suffix"
  <2>1. r.last \in Int
    BY <1>3 DEF IsRange
  <2>2. Asked(r, size) = {i \in 0..(size - 1) : i >= size - r.last}
    BY <1>3 DEF Asked
  <2>3. CASE size = 0 \/ r.last <= 0
    BY <1>3, <2>1, <2>2, <2>3 DEF Parse, SuffixSlice
  <2>4. CASE size > 0 /\ r.last > 0
    <3>1. parsed = Slice(size - Smaller(r.last, size), size - 1)
      BY <1>3, <2>1, <2>4 DEF Parse, SuffixSlice
    <3>2. size - 1 \in Asked(r, size)
      BY <2>1, <2>2, <2>4
    <3>3. parsed.length >= 1
      BY <3>1, <2>1, <2>4
    <3> QED BY <3>1, <3>2, <3>3, <2>1, <2>2, <2>4
  <2> QED BY <2>1, <2>3, <2>4
<1>4. ASSUME NEW m \in Nat, NEW n \in Int,
             Asked(r, size) = {i \in 0..(size - 1) : m <= i /\ i <= n},
             parsed = SpanSlice(m, n, size)
      PROVE  /\ Bytes(parsed) = Asked(r, size)
             /\ parsed = Unsatisfiable <=> Asked(r, size) = {}
  <2>1. CASE m >= size \/ n < m
    BY <1>4, <2>1 DEF SpanSlice
  <2>2. CASE m < size /\ m <= n
    <3>1. parsed = Slice(m, Smaller(n, size - 1))
      BY <1>4, <2>2 DEF SpanSlice
    <3>2. m \in Asked(r, size)
      BY <1>4, <2>2
    <3>3. parsed.length >= 1
      BY <3>1, <2>2
    <3> QED BY <3>1, <3>2, <3>3, <1>4, <2>2
  <2> QED BY <2>1, <2>2
<1>5. CASE r.kind = "from"
  <2>1. r.first \in Nat
    BY <1>5 DEF IsRange
  <2>2. Asked(r, size) = {i \in 0..(size - 1) : r.first <= i /\ i <= size - 1}
    BY <1>5, <2>1 DEF Asked
  <2>3. parsed = SpanSlice(r.first, size - 1, size)
    BY <1>5 DEF Parse
  <2> QED BY <1>4, <2>1, <2>2, <2>3
<1>6. CASE r.kind = "span"
  <2>1. r.first \in Nat /\ r.last \in Int
    BY <1>6 DEF IsRange
  <2>2. Asked(r, size) = {i \in 0..(size - 1) : r.first <= i /\ i <= r.last}
    BY <1>6 DEF Asked
  <2>3. parsed = SpanSlice(r.first, r.last, size)
    BY <1>6 DEF Parse
  <2> QED BY <1>4, <2>1, <2>2, <2>3
<1> QED BY <1>1, <1>2, <1>3, <1>5, <1>6 DEF IsRange

---------------------------------------------------------------------------
(* The archive *)

Slices == [first : Nat, length : Nat \cup {-1}]

\* What parse_single_range returns is a slice.
LEMMA ParseType ==
    ASSUME NEW r, IsRange(r), NEW size \in Nat
    PROVE  Parse(r, size) \in Slices
<1> USE DEF Slice, Unsatisfiable, Smaller, Slices, Parse
<1>1. CASE r.kind \in {"none", "malformed"}
  BY <1>1
<1>2. CASE r.kind = "suffix" /\ r.last \in Int
  BY <1>2 DEF SuffixSlice
<1>3. CASE r.kind = "from" /\ r.first \in Nat
  BY <1>3 DEF SpanSlice
<1>4. CASE r.kind = "span" /\ r.first \in Nat /\ r.last \in Int
  BY <1>4 DEF SpanSlice
<1> QED BY <1>1, <1>2, <1>3, <1>4 DEF IsRange

\* The sizes of objects.
LEMMA SizeType ==
    ASSUME NEW o \in Objects, NEW content
    PROVE  SizeOf(o, content) \in Nat
BY SizesAssumption DEF SizeOf

(* The request a busy thread works on. *)
LEMMA BusyRequest ==
    ASSUME TypeOK, NEW t \in Threads, pc[t] # "idle"
    PROVE  /\ request[t] \in Requests
           /\ Object(t) \in Objects
           /\ IsRange(request[t].range)
BY RequestsAssumption DEF TypeOK, Object

(* At the start nothing has been looked at, announced or reported. *)
LEMMA InitInv == Init => IInv
<1> SUFFICES ASSUME Init PROVE IInv
  OBVIOUS
<1>1. TypeOK
  BY FilesAssumption, RetriesAssumption, KillsAssumption, NoRequestAssumption
  DEF Init, TypeOK, Contents, Parts, Unsatisfiable, Ended
<1> QED BY <1>1 DEF Init, IInv, NobodyFetchesDamaged, UnlinkedIsDamaged, WorkedOnIsRepaired,
                    DamageIsOld, AnnouncedIsParsed, NothingSentYet, ReportIsTrue, Fetching

\* Every step keeps the types; one step of the proof per action.
LEMMA StepTypeOK == TypeOK /\ [Next]_vars => TypeOK'
<1> SUFFICES ASSUME TypeOK, [Next]_vars PROVE TypeOK'
  OBVIOUS
<1> USE DEF TypeOK, Contents, Parts, Ended, server, archiver
<1>1. ASSUME NEW t \in Threads, NEW r \in Requests, Receive(t, r) PROVE TypeOK'
  BY <1>1, NoRequestAssumption DEF Receive, Goto
<1>2. ASSUME NEW t \in Threads, Look(t) PROVE TypeOK'
  BY <1>2 DEF Look
<1>3. ASSUME NEW t \in Threads, MakePart(t) PROVE TypeOK'
  BY <1>3 DEF MakePart, Goto
<1>4. ASSUME NEW t \in Threads, FetchFails(t) PROVE TypeOK'
  BY <1>4 DEF FetchFails
<1>5. ASSUME NEW t \in Threads, FetchRaises(t) PROVE TypeOK'
  BY <1>5 DEF FetchRaises
<1>6. ASSUME NEW t \in Threads, Install(t) PROVE TypeOK'
  BY <1>6, BusyRequest DEF Install, Goto, Object
<1>7. ASSUME NEW t \in Threads, LookAgain(t) PROVE TypeOK'
  BY <1>7 DEF LookAgain, Goto
<1>8. ASSUME NEW t \in Threads, Announce(t) PROVE TypeOK'
  <2>1. Parse(request[t].range, SizeOf(Object(t), file[Object(t)])) \in Slices
    BY <1>8, BusyRequest, SizeType, ParseType DEF Announce
  <2> QED BY <1>8, <2>1 DEF Announce, Slices
<1>9. ASSUME NEW t \in Threads, Send(t) PROVE TypeOK'
  BY <1>9, BusyRequest DEF Send, Goto
<1>10. ASSUME NEW t \in Threads, Vanished(t) PROVE TypeOK'
  BY <1>10 DEF Vanished
<1>11. ASSUME NEW t \in Threads, Close(t) PROVE TypeOK'
  BY <1>11, NoRequestAssumption DEF Close, Unsatisfiable
<1>12. ASSUME NEW t \in Threads, NEW content \in {"good", "damaged"}, Download(t, content) PROVE TypeOK'
  BY <1>12 DEF Download, Goto
<1>13. ASSUME NEW o \in Objects, VerifyOne(o) PROVE TypeOK'
  BY <1>13 DEF VerifyOne, WorkOn
<1>14. ASSUME NEW o \in Objects, Unlink(o) PROVE TypeOK'
  BY <1>14 DEF Unlink, WorkOn
<1>15. ASSUME NEW o \in Objects, MakeCopy(o) PROVE TypeOK'
  BY <1>15 DEF MakeCopy, WorkOn
<1>16. ASSUME NEW o \in Objects, AttemptFails(o) PROVE TypeOK'
  BY <1>16, RetriesAssumption DEF AttemptFails
<1>17. ASSUME NEW o \in Objects, WorkerRaises(o) PROVE TypeOK'
  BY <1>17 DEF WorkerRaises
<1>18. ASSUME NEW o \in Objects, InstallCopy(o) PROVE TypeOK'
  BY <1>18 DEF InstallCopy, WorkOn
<1>19. ASSUME NEW o \in Objects, NEW content \in {"good", "damaged"}, ReceiveCopy(o, content) PROVE TypeOK'
  BY <1>19 DEF ReceiveCopy, WorkOn
<1>20. CASE KillServer
  BY <1>20, NoRequestAssumption, KillsAssumption DEF KillServer, Unsatisfiable
<1>21. CASE KillArchiver
  BY <1>21, RetriesAssumption, KillsAssumption DEF KillArchiver
<1>22. CASE UNCHANGED vars
  BY <1>22 DEF vars
<1> QED BY <1>1, <1>2, <1>3, <1>4, <1>5, <1>6, <1>7, <1>8, <1>9, <1>10, <1>11, <1>12, <1>13, <1>14, <1>15, <1>16, <1>17, <1>18, <1>19, <1>20, <1>21, <1>22 DEF Next, Serve, Archive

\* Every step keeps the rest of the invariant.
LEMMA StepIInv == IInv /\ [Next]_vars => IInv'
<1> SUFFICES ASSUME IInv, [Next]_vars PROVE IInv'
  OBVIOUS
<1> DEFINE Kept == /\ NobodyFetchesDamaged' /\ UnlinkedIsDamaged' /\ WorkedOnIsRepaired'
                   /\ DamageIsOld' /\ AnnouncedIsParsed' /\ NothingSentYet' /\ ReportIsTrue'
<1>0. TypeOK /\ TypeOK'
  BY StepTypeOK DEF IInv
<1>b. ASSUME NEW u \in Threads, pc[u] # "idle"
      PROVE  request[u] \in Requests /\ request[u].object \in Objects /\ IsRange(request[u].range)
  BY <1>0, <1>b, BusyRequest DEF Object
<1> USE <1>0 DEF IInv, TypeOK, NobodyFetchesDamaged, UnlinkedIsDamaged, WorkedOnIsRepaired, DamageIsOld,
                 AnnouncedIsParsed, NothingSentYet, ReportIsTrue, Fetching, Contents, Parts, Ended, Object, server, archiver
<1>1. ASSUME NEW t \in Threads, NEW r \in Requests, Receive(t, r) PROVE Kept
  BY <1>1 DEF Receive, Goto
<1>2. ASSUME NEW t \in Threads, Look(t) PROVE Kept
  BY <1>2, <1>b DEF Look
<1>3. ASSUME NEW t \in Threads, MakePart(t) PROVE Kept
  BY <1>3, <1>b DEF MakePart, Goto
<1>4. ASSUME NEW t \in Threads, FetchFails(t) PROVE Kept
  BY <1>4, <1>b DEF FetchFails
<1>5. ASSUME NEW t \in Threads, FetchRaises(t) PROVE Kept
  BY <1>5, <1>b DEF FetchRaises
<1>6. ASSUME NEW t \in Threads, Install(t) PROVE Kept
  BY <1>6, <1>b DEF Install, Goto
<1>7. ASSUME NEW t \in Threads, LookAgain(t) PROVE Kept
  BY <1>7, <1>b DEF LookAgain, Goto
<1>8. ASSUME NEW t \in Threads, Announce(t) PROVE Kept
  <2> DEFINE asked == Parse(request[t].range, SizeOf(Object(t), file[Object(t)]))
             to == IF asked = Unsatisfiable THEN "416"
                   ELSE IF request[t].method = "HEAD" \/ asked.length = 0 THEN "sent"
                   ELSE "open"
  <2>1. origin[Object(t)] # "damaged" => SizeOf(Object(t), file[Object(t)]) = Size[Object(t)]
    BY <1>8, <1>b DEF Announce, SizeOf
  <2>2. /\ slice' = [slice EXCEPT ![t] = asked]
        /\ UNCHANGED <<file, origin, request, part, body, archiver, kills>>
        /\ pc[t] = "stat"
        /\ pc' = [pc EXCEPT ![t] = to]
    BY <1>8 DEF Announce
  <2>3. to \in {"416", "sent", "open"} /\ (to = "416" <=> asked = Unsatisfiable)
    OBVIOUS
  <2> HIDE DEF asked, to
  <2>4. AnnouncedIsParsed'
    <3>1. asked = Parse(request[t].range, Size[Object(t)]) \/ origin[Object(t)] = "damaged"
      BY <2>1 DEF asked
    <3> QED BY <2>2, <2>3, <3>1
  <2>5. NobodyFetchesDamaged' /\ NothingSentYet'
    BY <2>2, <2>3
  <2> QED BY <2>2, <2>4, <2>5
<1>9. ASSUME NEW t \in Threads, Send(t) PROVE Kept
  BY <1>9, <1>b DEF Send, Goto
<1>10. ASSUME NEW t \in Threads, Vanished(t) PROVE Kept
  BY <1>10, <1>b DEF Vanished
<1>11. ASSUME NEW t \in Threads, Close(t) PROVE Kept
  BY <1>11, <1>b DEF Close
<1>12. ASSUME NEW t \in Threads, NEW content \in {"good", "damaged"}, Download(t, content) PROVE Kept
  BY <1>12 DEF Download, Goto
<1>13. ASSUME NEW o \in Objects, VerifyOne(o) PROVE Kept
  BY <1>13, <1>b DEF VerifyOne, WorkOn
<1>14. ASSUME NEW o \in Objects, Unlink(o) PROVE Kept
  BY <1>14, <1>b DEF Unlink, WorkOn
<1>15. ASSUME NEW o \in Objects, MakeCopy(o) PROVE Kept
  BY <1>15, <1>b DEF MakeCopy, WorkOn
<1>16. ASSUME NEW o \in Objects, AttemptFails(o) PROVE Kept
  BY <1>16, <1>b DEF AttemptFails
<1>17. ASSUME NEW o \in Objects, WorkerRaises(o) PROVE Kept
  BY <1>17, <1>b DEF WorkerRaises
<1>18. ASSUME NEW o \in Objects, InstallCopy(o) PROVE Kept
  BY <1>18, <1>b DEF InstallCopy, WorkOn
<1>19. ASSUME NEW o \in Objects, NEW content \in {"good", "damaged"}, ReceiveCopy(o, content) PROVE Kept
  BY <1>19 DEF ReceiveCopy, WorkOn
<1>20. CASE KillServer
  BY <1>20 DEF KillServer
<1>21. CASE KillArchiver
  BY <1>21 DEF KillArchiver
<1>22. CASE UNCHANGED vars
  BY <1>22 DEF vars
<1>k. Kept
  BY <1>1, <1>2, <1>3, <1>4, <1>5, <1>6, <1>7, <1>8, <1>9, <1>10, <1>11, <1>12, <1>13, <1>14, <1>15, <1>16, <1>17, <1>18, <1>19, <1>20, <1>21, <1>22 DEF Next, Serve, Archive
<1> QED BY <1>0, <1>k DEF IInv

-----------------------------------------------------------------------------
\* The inductive invariant: a damaged object is one that nobody has found missing.
THEOREM InductiveInvariant == Spec => []IInv
BY InitInv, StepIInv, PTL DEF Spec

\* Type correctness; a .part file exists exactly while its owner fills or checks it.
THEOREM TypeCorrect == Spec => []TypeOK
BY InductiveInvariant, PTL DEF IInv

\* What the archiver has reported is in the archive, and stays there.
THEOREM ReportsStayTrue == Spec => []ReportIsTrue
BY InductiveInvariant, PTL DEF IInv

\* No install, unlink or kill, in any order, costs the archive a good object: what the
\* archiver is about to unlink is still damaged when it does, because no thread fetches it.
THEOREM GoodObjectsStay == Spec => GoodStaysGood
<1>1. ASSUME IInv, [Next]_vars
      PROVE  [\A o \in Objects : file[o] = "good" => file'[o] = "good"]_vars
  <2>1. ASSUME NEW o \in Objects, file[o] = "good" PROVE file'[o] = "good"
    <3>1. ASSUME NEW t \in Threads, Serve(t) PROVE file'[o] = "good"
      <4>1. CASE Install(t)
        BY <1>1, <2>1, <4>1, BusyRequest DEF IInv, TypeOK, Install
      <4>2. CASE ~Install(t)
        <5> file' = file
          BY <3>1, <4>2
          DEF Serve, Look, MakePart, Download, FetchFails, FetchRaises, LookAgain, Announce, Send, Vanished, Close
        <5> QED BY <2>1
      <4> QED BY <4>1, <4>2
    <3>2. ASSUME NEW d \in Objects, Archive(d) PROVE file'[o] = "good"
      <4>1. CASE Unlink(d)
        BY <1>1, <2>1, <4>1 DEF IInv, TypeOK, UnlinkedIsDamaged, Unlink, WorkOn
      <4>2. CASE InstallCopy(d)
        BY <1>1, <2>1, <4>2 DEF IInv, TypeOK, InstallCopy
      <4>3. CASE ~Unlink(d) /\ ~InstallCopy(d)
        <5> file' = file
          BY <3>2, <4>3 DEF Archive, VerifyOne, MakeCopy, ReceiveCopy, AttemptFails, WorkerRaises
        <5> QED BY <2>1
      <4> QED BY <4>1, <4>2, <4>3
    <3> QED BY <1>1, <2>1, <3>1, <3>2 DEF Next, Receive, KillServer, KillArchiver, vars
  <2> QED BY <2>1
<1> QED BY <1>1, InductiveInvariant, PTL DEF Spec, GoodStaysGood

\* An object that was not damaged at the start is served from its verified bytes, and
\* from exactly those that the range asks for.
THEOREM ServedExactly == Spec => []ServedObjectsAreExact
<1>1. IInv => ServedObjectsAreExact
  <2> SUFFICES ASSUME IInv, NEW t \in Threads, pc[t] = "sent", origin[Object(t)] # "damaged"
               PROVE  /\ body[t] \in {"none", "good"}
                      /\ Bytes(slice[t]) = Asked(request[t].range, Size[Object(t)])
    BY DEF ServedObjectsAreExact
  <2>1. Object(t) \in Objects /\ IsRange(request[t].range)
    BY BusyRequest DEF IInv
  <2> QED BY <2>1, ParseIsExact, SizesAssumption DEF IInv, AnnouncedIsParsed
<1> QED BY <1>1, InductiveInvariant, PTL

\* 416 is answered only to a range that asks for none of the object's bytes.
THEOREM RefusedExactly == Spec => []RefusedRangesAreEmpty
<1>1. IInv => RefusedRangesAreEmpty
  <2> SUFFICES ASSUME IInv, NEW t \in Threads, pc[t] = "416", origin[Object(t)] # "damaged"
               PROVE  Asked(request[t].range, Size[Object(t)]) = {}
    BY DEF RefusedRangesAreEmpty
  <2>1. Object(t) \in Objects /\ IsRange(request[t].range)
    BY BusyRequest DEF IInv
  <2>2. Parse(request[t].range, Size[Object(t)]) = Unsatisfiable
    BY DEF IInv, AnnouncedIsParsed
  <2>3. request[t].range.kind # "none"
    BY <2>1, <2>2, SizesAssumption DEF Parse, Slice, Unsatisfiable
  <2> QED BY <2>1, <2>2, <2>3, ParseIsExact, SizesAssumption
<1> QED BY <1>1, InductiveInvariant, PTL
=============================================================================
