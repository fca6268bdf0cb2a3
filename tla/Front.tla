-------------------------------- MODULE Front --------------------------------
(***************************************************************************)
(* What one POST means to the control server, as pure operators: the route *)
(* registry, the header and body codecs, the payloads of the bootstrap     *)
(* endpoints, the order of the checks in do_POST, and the sanitized event  *)
(* that is recorded for it.  Gateway and Boot run these on their requests. *)
(* An optional header is in the domain of a function or is None; an object *)
(* that is missing or that the code rejects is Absent.                     *)
(***************************************************************************)
EXTENDS Integers, Sequences, FiniteSets, TLC

None   == "none"
Absent == "absent" :> TRUE
Opt(name, value) == IF value = None THEN << >> ELSE name :> value
Keys(f) == DOMAIN f

---------------------------------------------------------------------------
\* The routes of api_registry.
VersionCheck    == "/load/check"
Title           == "/load/title"
LoadIndex       == "/load/index"
MigrationCheck  == "/bnid/status_check/check"
BnConsent       == "/bn_consent/get_state"
SignupRoutes    == {"/tool/signup", "/tool/signup_migration"}
EmptySuccess    == {"/load/set_cache_clear_flg", "/load/update_agreement_status", "/migration/index"}
BootstrapRoutes == {VersionCheck, Title, LoadIndex, MigrationCheck, BnConsent}
                   \cup SignupRoutes \cup EmptySuccess

\* One entry of a delivered map is well formed.
EntryOK(e) == /\ e.shape = "list4" /\ e.name # "" /\ e.key \in Int
              /\ e.path \notin {"", "absolute"} /\ e.literal >= 0

\* parse_delivered_map: all of it or nothing.
Refused == {<<"refused">>}
ParseDeliveredMap(raw, expected) ==
    IF /\ Keys(raw) = {"A", "B"}
       /\ \A g \in {"A", "B"} :
            /\ \A i \in DOMAIN raw[g] : EntryOK(raw[g][i])
            /\ \A i, j \in DOMAIN raw[g] : raw[g][i].key = raw[g][j].key => i = j
            /\ {raw[g][i].key : i \in DOMAIN raw[g]} = expected[g]
    THEN UNION {{<<g, raw[g][i].name, raw[g][i].key, raw[g][i].path>> : i \in DOMAIN raw[g]}
                    : g \in {"A", "B"}}
    ELSE Refused

\* by_http_path: all endpoints of a path, aliases preserved.
ByHttpPath(endpoints) ==
    [p \in {e[4] : e \in endpoints} |-> {e \in endpoints : e[4] = p}]

---------------------------------------------------------------------------
\* decode_header_value: a length, then one character, moved up by 10, at offset
\* 2 of every group of four; what follows the announced length is noise.  The
\* length is -1 when its four digits are missing or not hexadecimal.
HeaderError == <<-1>>
DecodeHeader(length, encoded) ==
    LET groups == (Len(encoded) + 1) \div 4
        used   == IF groups < length THEN groups ELSE length
        out    == [i \in 1..used |-> encoded[4 * i - 1] - 10]
    IN  IF length < 0 \/ used # length \/ \E i \in 1..used : out[i] < 0 THEN HeaderError ELSE out

\* encode_body and decode_body: the key travels with the ciphertext, the IV is
\* the UDID; a body decrypts to its object under the UDID it was made with.
\* Under another UDID the first block is garbled, and what it holds is no Base64.
IsIV(udid) == udid \notin {"undecodable", "short", "nothex"}
EncodeBody(params, udid, key) ==
    [base64 |-> IsIV(udid), iv |-> udid, key |-> key, plain |-> params]
DecodeBody(body, udid) ==
    IF body.base64 /\ body.key = "ascii32" /\ IsIV(udid) /\ body.iv = udid
    THEN body.plain ELSE Absent

EmptyBody == [base64 |-> TRUE, iv |-> "undecodable", key |-> "missing", plain |-> Absent]

\* decode_client_request: the object of a request, or Absent (a ValueError).
DecodeRequest(headers, body) ==
    IF "UDID" \notin Keys(headers) THEN Absent ELSE DecodeBody(body, headers["UDID"])

---------------------------------------------------------------------------
\* The payloads.  Result codes of load_check.
ResultSuccess         == 1
ResultResVersionError == 214

DataHeaders(code, headers) ==
    "result_code" :> code @@ Opt("sid", IF "SID" \in Keys(headers) THEN headers["SID"] ELSE None)

Payload(dataHeaders, data) == [data_headers |-> dataHeaders, data |-> data]

LoadCheckPayload(headers, finalResVer, isS3, acceptOld) ==
    LET current  == IF "RES-VER" \in Keys(headers) THEN headers["RES-VER"] ELSE ""
        mismatch == current # finalResVer
        code     == IF mismatch /\ ~acceptOld THEN ResultResVersionError ELSE ResultSuccess
    IN  Payload(DataHeaders(code, headers) @@ Opt("required_res_ver", IF mismatch THEN finalResVer ELSE None),
                "isS3" :> isS3)

LoginSignupPayload(headers, viewerId, userId, udid) ==
    Payload(DataHeaders(ResultSuccess, headers)
              @@ "viewer_id" :> viewerId @@ "user_id" :> userId @@ "udid" :> udid,
            "change_domain_enabled" :> FALSE)

MigrationCheckPayload(headers) == Payload(DataHeaders(ResultSuccess, headers), "transition" :> 0)
BnConsentPayload(headers)      == Payload(DataHeaders(ResultSuccess, headers), "consent_state" :> 0)
TitlePayload(headers)          == Payload(DataHeaders(ResultSuccess, headers), << >>)
EmptySuccessPayload(headers)   == Payload(DataHeaders(ResultSuccess, headers), << >>)
LoadIndexPayload(headers, profile) == Payload(DataHeaders(ResultSuccess, headers), profile)
TemplatePayload(headers, data) == Payload(DataHeaders(ResultSuccess, headers), data)

\* The exchange of a route that is not a registered application route.
Exchange(cfg, route, headers) ==
    CASE route = VersionCheck      -> LoadCheckPayload(headers, cfg.finalResVer, cfg.isS3, cfg.acceptOld)
      [] route = Title             -> TitlePayload(headers)
      [] route = MigrationCheck    -> MigrationCheckPayload(headers)
      [] route = BnConsent         -> BnConsentPayload(headers)
      [] route \in SignupRoutes    -> LoginSignupPayload(headers, cfg.viewerId, cfg.userId, headers["UDID"])
      [] route = LoadIndex         -> LoadIndexPayload(headers, cfg.profile)
      [] route \in EmptySuccess    -> EmptySuccessPayload(headers)
      [] OTHER                     -> TemplatePayload(headers, cfg.templates[route])

---------------------------------------------------------------------------
\* The checks of do_POST that are made before the body is read.  cfg.handlers
\* are the application routes, which the subclass looks up first; a Content-
\* Length is missing, no number, negative, above MAX_REQUEST_BODY ("huge"), or fits.
Ready == 0
LengthVerdict(length) ==
    CASE length = "missing"              -> 411
      [] length = "nan"                  -> 400
      [] length \in {"negative", "huge"} -> 413
      [] OTHER                           -> Ready

Known(cfg, route) == route \in cfg.handlers \cup BootstrapRoutes \cup Keys(cfg.templates)
Verdict(cfg, route, length) ==
    CASE ~Known(cfg, route) -> IF route \in cfg.contracts THEN 501 ELSE 404
      [] route = LoadIndex /\ route \notin cfg.handlers /\ cfg.profile = Absent -> 503
      [] OTHER -> LengthVerdict(length)

\* What main refuses to start with.
ConfigOK(cfg) ==
    /\ cfg.cert = cfg.key
    /\ Keys(cfg.templates) # {} => cfg.semanticDb
    /\ Cardinality(cfg.profiles) <= 1
    /\ Keys(cfg.templates) \cap BootstrapRoutes = {}

---------------------------------------------------------------------------
\* build_event: what is recorded.  It names headers and keys, no values but
\* the version headers and the result headers.
SafeHeaders     == {"APP-VER", "RES-VER", "X-Unity-Version"}
ResultHeaders   == {"result_code", "required_res_ver", "app_ver"}
Only(f, names)  == [n \in Keys(f) \cap names |-> f[n]]
NoResponse      == Payload(<< >>, << >>)

BuildEvent(time, route, status, headers, request, response, err, contracts) ==
    [time      |-> time,
     route     |-> route,
     status    |-> status,
     headers   |-> Only(headers, SafeHeaders),
     request   |-> IF request = Absent THEN {} ELSE Keys(request),
     data      |-> Keys(response.data),
     result    |-> Only(response.data_headers, ResultHeaders),
     error     |-> err,
     contracts |-> contracts]
=============================================================================
