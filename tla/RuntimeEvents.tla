---------------------------- MODULE RuntimeEvents ----------------------------
(***************************************************************************)
(* scripts/analyze-runtime-events.py and sanitize-device-logcat.py: which  *)
(* event logs are accepted, how several streams are merged, and what is    *)
(* concluded from a run.  An event is the record BuildEvent of Front makes *)
(* (Raw below is what a line of a file may hold), with its time.           *)
(***************************************************************************)
EXTENDS Integers, Sequences, FiniteSets, SequencesExt

EventKeys     == {"time", "route", "status", "headers", "api_candidates", "contract_candidates", "request_keys",
                  "response_keys", "response_data_keys", "response_data_headers", "error"}
VersionHeaders  == {"APP-VER", "RES-VER", "X-Unity-Version"}
ReportedHeaders == {"result_code", "required_res_ver", "app_ver"}
Unresolved      == "@resource/unresolved"
ResourceRoutes  == {Unresolved, "@resource/manifest", "@resource/AssetBundles", "@resource/Sound",
                    "@resource/Movie", "@resource/Generic"}

\* _validate_contract_candidates.
CandidateOK(c) == /\ c.missing = {} /\ c.unexpected = {}
                  /\ c.endpoint_id > 0
                  /\ c.required_fields \in 0..c.response_fields
                  /\ c.unknown_fields \in 0..c.response_fields
CandidatesOK(cs) == /\ \A i \in DOMAIN cs : CandidateOK(cs[i])
                    /\ \A i, j \in DOMAIN cs : cs[i].endpoint_id = cs[j].endpoint_id => i = j

\* validate_event: a line is accepted only if all its fields are on the lists.
EventOK(raw) == /\ raw.keys \subseteq EventKeys
                /\ {"route", "status"} \subseteq raw.keys
                /\ raw.badTypes = {}
                /\ raw.isResource => raw.route \in ResourceRoutes
                /\ raw.headers \subseteq VersionHeaders
                /\ raw.responseHeaders \subseteq ReportedHeaders
                /\ CandidatesOK(raw.candidates)

\* validate_device_event.
DeviceKeys == {"schema", "time", "source", "category", "severity"}
DeviceOK(e, categories) ==
    /\ DOMAIN e = DeviceKeys
    /\ e.schema = 1 /\ e.source = "device_logcat"
    /\ e.category \in categories /\ e.severity \in {"warning", "error", "fatal"}

\* merge_event_streams: by time, then by the order the streams are named in,
\* then by the order in the file: the k-th event has k - 1 before it.
Tagged(streams)  == UNION {{<<s, i>> : i \in DOMAIN streams[s]} : s \in DOMAIN streams}
LineAt(streams, t) == streams[t[1]][t[2]]
Before(streams, t, u) ==
    LET early == LineAt(streams, t).time
        late  == LineAt(streams, u).time
    IN  early < late \/ (early = late /\ (t[1] < u[1] \/ (t[1] = u[1] /\ t[2] < u[2])))
Place(streams, t) == Cardinality({u \in Tagged(streams) : Before(streams, u, t)}) + 1
Merge(streams) ==
    [k \in 1..Cardinality(Tagged(streams)) |->
        LineAt(streams, CHOOSE t \in Tagged(streams) : Place(streams, t) = k)]

---------------------------------------------------------------------------
\* sanitize_lines: the first rule that matches a line names its category, and
\* a line without an epoch is counted, never given a place in the timeline.
Rules == <<"process_crash", "anr", "tls_certificate_error", "tls_handshake_error", "dns_error",
           "connection_refused", "network_unreachable", "network_timeout", "http_error",
           "unity_web_request_error", "process_exit">>
Severity(i) == IF i <= 2 THEN "fatal" ELSE IF i = Len(Rules) THEN "warning" ELSE "error"
Classify(line) == LET hits == {i \in DOMAIN Rules : Rules[i] \in line.matches}
                  IN  IF hits = {} THEN 0 ELSE CHOOSE i \in hits : \A j \in hits : i <= j
Sanitize(lines) ==
    LET kept == SelectSeq(lines, LAMBDA l : Classify(l) # 0 /\ l.epoch)
    IN  [k \in DOMAIN kept |-> [schema |-> 1, time |-> kept[k].time, source |-> "device_logcat",
                                category |-> Rules[Classify(kept[k])],
                                severity |-> Severity(Classify(kept[k]))]]

\* analyze_device_events, which never enters the phase of a run.
NetworkErrors == {"dns_error", "connection_refused", "network_unreachable", "network_timeout",
                  "http_error", "unity_web_request_error"}
DeviceReport(events) ==
    LET Seen(cs) == \E i \in DOMAIN events : events[i].category \in cs
    IN  [failures |-> {events[i].time : i \in {j \in DOMAIN events : events[j].severity # "warning"}},
         tls      |-> Seen({"tls_certificate_error", "tls_handshake_error"}),
         crash    |-> Seen({"process_crash"}),
         anr      |-> Seen({"anr"}),
         network  |-> Seen(NetworkErrors)]

---------------------------------------------------------------------------
\* analyze_events.  Value is an optional entry of a function; result code 0 is none.
Value(f, name) == IF name \in DOMAIN f THEN f[name] ELSE "absent"
ResultCode(e) == IF "result_code" \in DOMAIN e.result THEN e.result["result_code"] ELSE 0
Signature(e) == <<e.route, e.status, e.error, Value(e.headers, "RES-VER"), ResultCode(e)>>
Blocked(e)   == e.error = "contract_known_template_missing"
Failed(e)    == e.status >= 400 \/ e.error # ""
Later(first, later) == \E i \in first, j \in later : i < j
First(is)    == CHOOSE i \in is : \A j \in is : i <= j

Phases == <<"no_http_request", "http_reached", "load_check_reached", "resource_version_214_responded",
            "old_resource_direct_success_responded", "final_version_load_check_observed",
            "final_version_load_check_responded", "resource_plane_observed", "resource_plane_served",
            "load_index_reached", "post_load_index_observed", "semantic_contract_blocker_observed">>
PhaseOf(holds) == Phases[CHOOSE n \in holds : \A m \in holds : m <= n]

Analyze(events, final) ==
    LET check       == {i \in DOMAIN events : events[i].route = "/load/check"}
        index       == {i \in DOMAIN events : events[i].route = "/load/index"}
        resource    == {i \in DOMAIN events : events[i].route \in ResourceRoutes}
        served      == {i \in resource : events[i].route # Unresolved /\ events[i].status < 400}
        told214     == {i \in check : ResultCode(events[i]) = 214}
        finalCheck  == {i \in check : Value(events[i].headers, "RES-VER") = final}
        finalOK     == {i \in finalCheck : ResultCode(events[i]) = 1}
        direct      == {i \in check \ finalCheck : /\ ResultCode(events[i]) = 1
                                                   /\ Value(events[i].result, "required_res_ver") = final}
        failures    == {i \in DOMAIN events : Failed(events[i])}
        blockers    == {i \in DOMAIN events : Blocked(events[i])}
        holds       == <<TRUE, events # << >>, check # {}, told214 # {}, direct # {}, finalCheck # {}, finalOK # {},
                         resource # {}, served # {}, index # {}, index # {} /\ ~(Len(events) \in index),
                         blockers # {}>>
    IN  [phase             |-> PhaseOf({n \in 1..12 : holds[n]}),
         controlAfter214   |-> Later(told214, DOMAIN events \ resource),
         resourceAfter214  |-> Later(told214, resource),
         servedAfter214    |-> Later(told214, served),
         finalAfter214     |-> Later(told214, finalCheck),
         afterDirect       |-> Later(direct, DOMAIN events),
         afterFinal        |-> Later(finalOK, DOMAIN events),
         reached           |-> {events[i].route : i \in DOMAIN events},
         firstFailure      |-> IF failures = {} THEN 0 ELSE First(failures),
         blocker           |-> IF blockers = {} THEN 0 ELSE First(blockers),
         sequence          |-> [i \in DOMAIN events |-> Signature(events[i])]]

\* compare_runs: how many events all the runs have in common at their start.
CommonPrefix(runs) ==
    LET common == CHOOSE n \in {Len(runs[k]) : k \in DOMAIN runs} : \A k \in DOMAIN runs : n <= Len(runs[k])
        differ == {i \in 1..common : \E k \in DOMAIN runs : Signature(runs[k][i]) # Signature(runs[1][i])}
    IN  IF differ = {} THEN common ELSE First(differ) - 1

\* The labels of main: which command lines are accepted.
LabelsOK(runs, merged, devices) ==
    /\ \A i, j \in DOMAIN runs : runs[i] = runs[j] => i = j
    /\ {runs[i] : i \in DOMAIN runs} \cap merged = {}
    /\ Len(runs) > 0 \/ merged # {}
    /\ devices \subseteq merged \cup {runs[i] : i \in DOMAIN runs}
=============================================================================
