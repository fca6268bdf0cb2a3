----------------------------- MODULE LoadIndex -----------------------------
(***************************************************************************)
(* What the application endpoints read and answer: the request parsers of  *)
(* /member/protect_card, /favorite/edit, /unit/edit and /story/start       *)
(* (server/adapters/), the synthetic /load/index profiles with their       *)
(* validators (server/minimal_profile.py), the projection of a Home        *)
(* snapshot (server/adapters/load_index.py), and the mapping that rebuilds *)
(* it for each request (server/application/load_index.py).                 *)
(* A decoded value is a record [t, n, items, f]: its type, the number of   *)
(* an "int", the elements of an "array", the fields of an "object".        *)
(***************************************************************************)
EXTENDS DomainState, Functions

IsInt(v) == v.t = "int"
IsArray(v) == v.t = "array"
IsObject(v) == v.t = "object"
Has(v, field) == field \in DOMAIN v.f
Numbers(v) == [i \in DOMAIN v.items |-> v.items[i].n]
EachItem(v, OK(_)) == IsArray(v) /\ \A i \in DOMAIN v.items : OK(v.items[i])

PositiveInt(v) == IsInt(v) /\ v.n >= 1       \* type(value) is int: a bool is not one
NaturalInt(v) == IsInt(v) /\ v.n >= 0

ProtectRequestOK(req) == IsObject(req) /\ Has(req, "serial_ids") /\ EachItem(req.f["serial_ids"], PositiveInt)

FavoriteRequestOK(req) ==
    /\ IsObject(req) /\ Has(req, "serial_ids") /\ Has(req, "change_flags")
    /\ EachItem(req.f["serial_ids"], PositiveInt)
    /\ EachItem(req.f["change_flags"], IsInt)
    /\ Len(req.f["serial_ids"].items) = Len(req.f["change_flags"].items)

SlotArrays == {"serial_ids", "dress_types", "dress_2d_types", "dress_storage_ids"}

UnitInfoOK(raw) ==
    /\ IsObject(raw) /\ Has(raw, "unit_id") /\ PositiveInt(raw.f["unit_id"])
    /\ \A a \in SlotArrays : Has(raw, a) /\ EachItem(raw.f[a], NaturalInt)

UnitRequestOK(req) ==
    /\ IsObject(req) /\ Has(req, "unit_info_list") /\ Has(req, "main_unit_id")
    /\ EachItem(req.f["unit_info_list"], UnitInfoOK)
    /\ NaturalInt(req.f["main_unit_id"])

StoryRequestOK(req) == IsObject(req) /\ Has(req, "story_id") /\ IsInt(req.f["story_id"])
EmptyData == [x \in {} |-> 0]
StoryResponse == EmptyData

\* serials: the requested numbers; the answer keeps their order and duplicates.
ProtectResponseOK(serials, protected) ==
    (\A s \in protected : s >= 1) /\ protected \subseteq ToSet(serials)
ProtectResponse(serials, protected) == SelectSeq(serials, LAMBDA s : s \in protected)

-----------------------------------------------------------------------------
(* The profiles.  A section is a record [t, f]: f holds the fields an "object"     *)
(* gives the client, t its type; the elements of an "array" are in items.          *)
CommonFields == {"expanding_count", "expanding_jewel", "expanding_max", "stamina_recovery_jewel",
                 "stamina_recovery_time", "room_lvup_shortening_time", "room_lvup_jewel"}
ResourceFields == {"friend_pt", "jewel", "free_jewel", "gold", "stamina"}
UserFields == ResourceFields \cup
    {"tutorial_flag", "viewer_id", "name", "comment", "max_card_num", "max_room_storage_num", "level", "exp",
     "fan", "producer_rank", "birth", "sum_of_money", "last_payment_date", "stamina_heal_time"}
EmptyLists == {"user_card_list", "user_unit_list", "user_chara_list", "album_list", "user_mv_unit_list",
               "user_grand_mv_unit_list", "item_list", "user_live_list", "master_plus_live_list"}
CardFields == {"serial_id", "card_id", "exp", "step", "love", "skill_level", "protect"}
SerialFields == {"serial_id_0", "serial_id_1", "serial_id_2", "serial_id_3", "serial_id_4"}
UnitFields == {"unit_slot", "unit_id", "name"} \cup SerialFields
\* dress_type_i, dress_2d_type_i and dress_storage_id_i are written together.
DressField == <<"dress_0", "dress_1", "dress_2", "dress_3", "dress_4">>
SerialField == <<"serial_id_0", "serial_id_1", "serial_id_2", "serial_id_3", "serial_id_4">>

Number(n) == [t |-> "int", n |-> n, items |-> <<>>, f |-> EmptyData]
Object(f) == [t |-> "object", n |-> 0, items |-> <<>>, f |-> f]
List(items) == [t |-> "array", n |-> 0, items |-> items, f |-> EmptyData]

Over(f, g) == [x \in DOMAIN f \cup DOMAIN g |-> IF x \in DOMAIN g THEN g[x] ELSE f[x]]
Zeros(fields) == [x \in fields |-> Number(0)]

CompletedTutorial == 100
Minimal(viewer, now) ==
    [common_define |-> Object([x \in CommonFields |-> Number(1)]),
     user_info |-> Object(Over(Zeros(UserFields),
         [tutorial_flag |-> Number(CompletedTutorial), viewer_id |-> Number(viewer), max_card_num |-> Number(300),
          max_room_storage_num |-> Number(500), stamina |-> Number(100), level |-> Number(1),
          producer_rank |-> Number(1), stamina_heal_time |-> Number(now)]))]

HomeCandidate(viewer, now) ==
    Over(Over(Minimal(viewer, now), [s \in EmptyLists |-> List(<<>>)]),
         [music_list |-> Object([normal |-> List(<<>>)]),
          loading_tips_info |-> Object([possession_sticker_data |-> Object(EmptyData),
                                        loading_sticker_num |-> Number(0)])])

ReleaseKey == "cenere_update_2023_start_time"
StarterCard == Over(Zeros(CardFields),
    [serial_id |-> Number(1), card_id |-> Number(100001), skill_level |-> Number(1)])
StarterUnit == Over(Zeros(UnitFields),
    [unit_slot |-> Number(1), unit_id |-> Number(1), serial_id_0 |-> Number(1)])
WithFields(section, f) == [section EXCEPT !.f = Over(@, f)]

StarterVisible(viewer, now) ==
    LET home == HomeCandidate(viewer, now)
    IN  Over(home,
         [common_define |-> WithFields(home.common_define, [x \in {ReleaseKey} |-> Number(1)]),
          cs_gacha_data_cenere |-> Object([cenere_id |-> Number(1)]),
          user_card_list |-> List(<<Object(StarterCard)>>),
          user_unit_list |-> List(<<Object(StarterUnit)>>),
          user_info |-> WithFields(home.user_info, [leader_serial_id |-> Number(1), unit_slot |-> Number(1)])])

\* The paths a validator reports: <<section>> or <<section, field>>.
MissingIn(data, section, fields) ==
    IF section \notin DOMAIN data \/ ~IsObject(data[section]) THEN {<<section>>}
    ELSE {<<section, x>> : x \in fields \ DOMAIN data[section].f}
MinimalErrors(data) == MissingIn(data, "common_define", CommonFields) \cup MissingIn(data, "user_info", UserFields)

SectionIs(data, section, type) == section \in DOMAIN data /\ data[section].t = type
FieldIs(section, field, value) == field \in DOMAIN section.f /\ section.f[field] = value
\* errs if the condition fails
Unless(condition, path) == IF condition THEN {} ELSE {path}

HomeErrors(data) ==
    MinimalErrors(data)
    \cup (IF SectionIs(data, "user_info", "object")
          THEN Unless(FieldIs(data["user_info"], "tutorial_flag", Number(CompletedTutorial)),
                      <<"user_info", "tutorial_flag">>)
          ELSE {})
    \cup {<<s>> : s \in {s \in EmptyLists : ~SectionIs(data, s, "array")}}
    \cup (IF ~SectionIs(data, "music_list", "object") THEN {<<"music_list">>}
          ELSE Unless(SectionIs(data["music_list"].f, "normal", "array"), <<"music_list", "normal">>))
    \cup (IF ~SectionIs(data, "loading_tips_info", "object") THEN {<<"loading_tips_info">>}
          ELSE Unless(SectionIs(data["loading_tips_info"].f, "possession_sticker_data", "object"),
                      <<"loading_tips_info", "possession_sticker_data">>)
               \cup Unless(FieldIs(data["loading_tips_info"], "loading_sticker_num", Number(0)),
                           <<"loading_tips_info", "loading_sticker_num">>))

\* The one element a list must have, its required fields, and those with a fixed value.
OneItemErrors(data, section, fields, expected) ==
    IF ~SectionIs(data, section, "array") \/ Len(data[section].items) # 1 THEN {<<section, "[1]">>}
    ELSE LET item == data[section].items[1]
         IN  IF ~IsObject(item) THEN {<<section, "[0]">>}
             ELSE {<<section, x>> : x \in (fields \ DOMAIN item.f)
                                      \cup {x \in DOMAIN expected : ~FieldIs(item, x, expected[x])}}

StarterErrors(data) ==
    HomeErrors(data)
    \cup Unless(/\ SectionIs(data, "common_define", "object")
                /\ FieldIs(data["common_define"], ReleaseKey, Number(1)), <<"common_define", ReleaseKey>>)
    \cup Unless(/\ "cs_gacha_data_cenere" \in DOMAIN data
                /\ data["cs_gacha_data_cenere"] = Object([cenere_id |-> Number(1)]), <<"cs_gacha_data_cenere">>)
    \cup OneItemErrors(data, "user_card_list", CardFields, [serial_id |-> Number(1), card_id |-> Number(100001)])
    \cup OneItemErrors(data, "user_unit_list", UnitFields,
             Over([x \in SerialFields |-> Number(0)],
                  [unit_slot |-> Number(1), unit_id |-> Number(1), serial_id_0 |-> Number(1)]))
    \cup Unless("user_chara_list" \in DOMAIN data /\ data["user_chara_list"] = List(<<>>), <<"user_chara_list">>)
    \cup (IF ~SectionIs(data, "user_info", "object") THEN {}
          ELSE Unless(FieldIs(data["user_info"], "unit_slot", Number(1)), <<"user_info", "unit_slot">>)
               \cup Unless(\/ ~Has(data["user_info"], "leader_serial_id")
                           \/ FieldIs(data["user_info"], "leader_serial_id", Number(1)),
                           <<"user_info", "leader_serial_id">>))

-----------------------------------------------------------------------------
(* The projection of a Home snapshot.  policy binds cards and units to the numbers *)
(* the client knows, and says which costumes are saved.                            *)
PolicyOK(policy) ==
    /\ policy.viewer >= 1 /\ policy.now >= 0
    /\ \A x \in {policy.max_card_num, policy.fan, policy.producer_rank, policy.birth} : x >= 0
    /\ 0 \notin DOMAIN policy.cards \cup DOMAIN policy.units \cup DOMAIN policy.cosmetics
    /\ \A id \in DOMAIN policy.cards : policy.cards[id] >= 1
    /\ \A id \in DOMAIN policy.units : policy.units[id] >= 1
    /\ \A u \in DOMAIN policy.cosmetics :
        /\ UniquePositions(policy.cosmetics[u])
        /\ \A i \in DOMAIN policy.cosmetics[u] :
            policy.cosmetics[u][i].position \in 0..SlotCount - 1 /\ policy.cosmetics[u][i].dress >= 0
    /\ DOMAIN policy.kinds = ResourceFields
    /\ \A field \in ResourceFields : NonEmpty(policy.kinds[field])

Amount(snapshot, kind) ==
    IF \E r \in snapshot.resources : r.kind = kind
    THEN (CHOOSE r \in snapshot.resources : r.kind = kind).amount ELSE 0

BoundOnce(rows, bindings) ==
    /\ \A row \in ToSet(rows) : row.id \in DOMAIN bindings
    /\ \A i, j \in DOMAIN rows : bindings[rows[i].id] = bindings[rows[j].id] => i = j

Projectable(snapshot, policy) ==
    /\ \A r, s \in snapshot.resources : r.kind = s.kind => r = s
    /\ BoundOnce(snapshot.cards, policy.cards)
    /\ BoundOnce(snapshot.units, policy.units)
    /\ \A u \in ToSet(snapshot.units) : \A m \in ToSet(u.members) :
        m.position < SlotCount /\ m.card \in {c.id : c \in ToSet(snapshot.cards)}
    /\ policy.leader # 0 => policy.leader \in {c.id : c \in ToSet(snapshot.cards)}

WireCard(card, policy) ==
    Object([serial_id |-> Number(policy.cards[card.id]), card_id |-> Number(card.master),
            exp |-> Number(card.exp), step |-> Number(card.step), love |-> Number(card.love),
            skill_level |-> Number(card.skill), protect |-> Number(IF card.protected THEN 1 ELSE 0)])

MemberAt(unit, position) == {m \in ToSet(unit.members) : m.position = position}
WireSerial(unit, position, policy) ==
    IF MemberAt(unit, position) = {} THEN 0
    ELSE policy.cards[(CHOOSE m \in MemberAt(unit, position) : TRUE).card]

\* The costume fields of a slot are left out unless a record of it is saved.
Saved(unit, policy) == IF unit.id \in DOMAIN policy.cosmetics THEN policy.cosmetics[unit.id] ELSE <<>>
WireUnit(unit, policy) ==
    Object(Over([unit_slot |-> Number(unit.slot + 1), unit_id |-> Number(policy.units[unit.id]), name |-> Number(0)],
           Over([x \in SerialFields |-> Number(WireSerial(unit, (CHOOSE p \in 1..SlotCount : SerialField[p] = x) - 1, policy))],
                [x \in {DressField[s.position + 1] : s \in ToSet(Saved(unit, policy))} |->
                    Number((CHOOSE s \in ToSet(Saved(unit, policy)) : DressField[s.position + 1] = x).dress)])))

UserInfo(snapshot, policy) ==
    Over(Over([level |-> Number(snapshot.profile.level), exp |-> Number(snapshot.profile.exp),
               max_card_num |-> Number(policy.max_card_num), fan |-> Number(policy.fan),
               producer_rank |-> Number(policy.producer_rank), birth |-> Number(policy.birth),
               stamina_heal_time |-> Number(policy.now)],
              [x \in ResourceFields |-> Number(Amount(snapshot, policy.kinds[x]))]),
         IF policy.leader = 0 THEN EmptyData ELSE [leader_serial_id |-> Number(policy.cards[policy.leader])])

Project(snapshot, policy) ==
    LET home == HomeCandidate(policy.viewer, policy.now)
    IN  Over(home,
         [user_info |-> WithFields(home.user_info, UserInfo(snapshot, policy)),
          user_card_list |-> List([i \in DOMAIN snapshot.cards |-> WireCard(snapshot.cards[i], policy)]),
          user_unit_list |-> List([i \in DOMAIN snapshot.units |-> WireUnit(snapshot.units[i], policy)]),
          user_chara_list |-> List(<<>>)])

-----------------------------------------------------------------------------
(* _RefreshingMapping: builds is what the next calls of _build_data return, cached  *)
(* the thread's last projection, if any.  A call is a record of the operation and   *)
(* the key; an answer is what it returns.                                           *)
Refreshed(m) == [cached |-> <<Head(m.builds)>>, builds |-> Tail(m.builds)]
Current(m) == IF m.cached = <<>> THEN Refreshed(m) ELSE m
Keys(m) == [map |-> Refreshed(m), answer |-> DOMAIN Head(m.builds)]
Item(m, key) == [map |-> Current(m), answer |-> Current(m).cached[1][key]]
Length(m) == [map |-> Current(m), answer |-> Cardinality(DOMAIN Current(m).cached[1])]

\* dict(mapping), as the endpoint calls it for each request: keys(), then each item.
DictOf(m) ==
    LET start == Keys(m)
    IN  [map |-> start.map, answer |-> [k \in start.answer |-> Item(start.map, k).answer]]

=============================================================================
