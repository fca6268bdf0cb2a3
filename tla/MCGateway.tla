------------------------------ MODULE MCGateway ------------------------------
(***************************************************************************)
(* Instances of Gateway for TLC, and the checks of the pure operators of   *)
(* Front over bounded inputs.                                              *)
(***************************************************************************)
EXTENDS Gateway

CONSTANTS r1, r2, r3

Command == "/member/protect"
Cfg0 == [finalResVer |-> "final", isS3 |-> FALSE, acceptOld |-> FALSE, viewerId |-> 1, userId |-> 1,
         profile |-> "user_info" :> 1, templates |-> "/templated" :> ("t" :> 1), contracts |-> {"/templated", "/known"},
         handlers |-> {Command}, cert |-> None, key |-> None, semanticDb |-> TRUE, profiles |-> {}]

Headers0 == "UDID" :> "u" @@ "SID" :> "s" @@ "RES-VER" :> "old"
Body(udid) == EncodeBody("viewer_id" :> 1, udid, "ascii32")
Post(route, length) ==
    [host |-> "api", chunked |-> FALSE, route |-> route, length |-> length, cut |-> FALSE,
     stalls |-> FALSE, headers |-> Headers0, body |-> Body("u")]

Cmd == Post(Command, "fits")
Shapes == {Cmd, [Cmd EXCEPT !.body = Body("v")], [Cmd EXCEPT !.length = "missing"],
           [Cmd EXCEPT !.length = "huge"], [Cmd EXCEPT !.cut = TRUE], [Cmd EXCEPT !.stalls = TRUE],
           [Cmd EXCEPT !.chunked = TRUE], [Cmd EXCEPT !.host = "other"], [Cmd EXCEPT !.length = "nan"],
           Post(LoadIndex, "fits"), Post("/templated", "fits"), Post("/unknown", "fits")}
Stall    == [Cmd EXCEPT !.stalls = TRUE]
Resource0 == [Cmd EXCEPT !.host = "resource", !.route = "@resource/Sound"]
Check(v) == [Post(VersionCheck, "fits") EXCEPT !.headers = "RES-VER" :> v @@ Headers0]

AllFail == {"client", "backend", "log", "timeout"}

\* Any request behind one that stalls; a version check beside a download and a
\* request for a route that has no template; an old version, then the final one.
Scenarios0 ==
    {[req |-> r1 :> shape @@ r2 :> Stall, after |-> {}, fails |-> AllFail] : shape \in Shapes}
    \cup {[req |-> r1 :> Check("old") @@ r2 :> Resource0 @@ r3 :> Post("/known", "fits"), after |-> {<<r1, r3>>}, fails |-> {"log"}],
          [req |-> r1 :> Check("old") @@ r2 :> Check("final") @@ r3 :> Resource0, after |-> {<<r1, r2>>, <<r2, r3>>},
           fails |-> {"timeout"}]}

---------------------------------------------------------------------------
\* Front.  A body decodes to what was encoded, and under no other UDID.
Udids == {"u", "v", "short", "undecodable"}
ASSUME CodecRoundTrip == \A u, v \in Udids : \A params \in {<< >>, "a" :> 1} :
    DecodeBody(EncodeBody(params, u, "ascii32"), v) = IF u = v /\ IsIV(u) THEN params ELSE Absent

\* A header that decodes has the length it announces, and the noise around its
\* characters says nothing.
Encoded == UNION {[1..n -> {7, 11}] : n \in 0..7}
ASSUME HeadersDecode == \A e \in Encoded, length \in -1..2 :
    LET header == DecodeHeader(length, e) IN
    /\ header # HeaderError => Len(header) = length /\ \A i \in 1..length : header[i] = 1
    /\ \A d \in [DOMAIN e -> {7, 11}] :
         (\A i \in DOMAIN e : i % 4 = 3 => d[i] = e[i]) => DecodeHeader(length, d) = header

\* A delivered map is taken whole or not at all, and aliases of a path are kept.
Entry(key, path) == [shape |-> "list4", name |-> "n", key |-> key, path |-> path, literal |-> 0]
Maps == [{"A", "B"} -> {<< >>, <<Entry(1, "/p")>>, <<Entry(1, "/p"), Entry(2, "/p")>>,
                        <<Entry(1, "/p"), Entry(1, "/q")>>, <<Entry(1, "absolute")>>}]
ASSUME MapsWhole == \A raw \in Maps, expected \in [{"A", "B"} -> SUBSET {1, 2}] :
    LET got == ParseDeliveredMap(raw, expected) IN
    got # Refused => /\ \A g \in {"A", "B"} : Cardinality({e \in got : e[1] = g}) = Cardinality(expected[g])
                     /\ UNION {ByHttpPath(got)[p] : p \in DOMAIN ByHttpPath(got)} = got

\* An event says the same of two exchanges that differ in what must stay
\* secret: header values, and the values of the request and the response.
Told(v) == "UDID" :> v @@ "SID" :> v @@ "RES-VER" :> "old"
ASSUME EventsKeepSecrets == \A v, w \in {"v", "w"}, status \in {200, 501} :
    BuildEvent(1, Title, status, Told(v), "udid" :> v, LoginSignupPayload(Told(v), v, v, v), "", {})
      = BuildEvent(1, Title, status, Told(w), "udid" :> w, LoginSignupPayload(Told(w), w, w, w), "", {})

---------------------------------------------------------------------------
\* RuntimeEvents.  Merging gives each event once, in the order of time, and
\* keeps the order of each stream where the times agree.
Timed(n, t) == [route |-> n, time |-> t]
Streams(s)  == {<< >>} \cup {<<Timed(<<s, 1>>, t)>> : t \in 1..3}
                 \cup {<<Timed(<<s, 1>>, t), Timed(<<s, 2>>, u)>> : t, u \in 1..3}
ASSUME MergeSorts == \A a \in Streams(1), b \in Streams(2) :
    LET m == Merge(<<a, b>>) IN
    /\ Len(m) = Len(a) + Len(b) /\ {m[i] : i \in DOMAIN m} = {a[i] : i \in DOMAIN a} \cup {b[i] : i \in DOMAIN b}
    /\ \A i, j \in DOMAIN m : i < j =>
         \/ m[i].time < m[j].time
         \/ m[i].time = m[j].time /\ m[i].route[1] < m[j].route[1]
         \/ m[i].time = m[j].time /\ m[i].route[1] = m[j].route[1] /\ m[i].route[2] < m[j].route[2]

\* The common prefix of some runs is the longest one they share.
Event(route) == [route |-> route, status |-> 200, error |-> "", headers |-> << >>, result |-> << >>]
Runs == UNION {[1..n -> {Event("/a"), Event("/b")}] : n \in 0..2}
ASSUME PrefixIsLongest == \A a, b, c \in Runs :
    LET n == CommonPrefix(<<a, b, c>>)
        Shared(k) == /\ k <= Len(a) /\ k <= Len(b) /\ k <= Len(c)
                     /\ SubSeq(a, 1, k) = SubSeq(b, 1, k) /\ SubSeq(b, 1, k) = SubSeq(c, 1, k)
    IN  Shared(n) /\ ~Shared(n + 1)

\* What the recorder writes of a request, the analysis accepts.
RawOf(e) == [keys |-> EventKeys, route |-> e.route, badTypes |-> {}, isResource |-> FALSE,
             headers |-> Keys(e.headers), responseHeaders |-> Keys(e.result), candidates |-> << >>]
ASSUME RecordedIsAccepted == \A route \in {VersionCheck, MigrationCheck, BnConsent} :
    EventOK(RawOf(BuildEvent(1, route, 200, Headers0, Absent, Exchange(Cfg0, route, Headers0), "", {})))

\* A line without an epoch never gets a place in the timeline of a device, and
\* a crash that is also a network error counts as a crash.
LogLine(m, epoch) == [matches |-> m, epoch |-> epoch, time |-> 1]
ASSUME DevicesSanitized == \A m \in SUBSET {"process_crash", "dns_error", "process_exit"}, epoch \in BOOLEAN :
    LET events == Sanitize(<<LogLine(m, epoch)>>) IN
    /\ Len(events) = IF epoch /\ m # {} THEN 1 ELSE 0
    /\ \A i \in DOMAIN events : DeviceOK(events[i], {Rules[j] : j \in DOMAIN Rules})
    /\ DeviceReport(events).crash <=> epoch /\ "process_crash" \in m
    /\ DeviceReport(events).network => "process_crash" \notin m
=============================================================================
