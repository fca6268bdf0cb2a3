--------------------------- MODULE MCProvisioning ---------------------------
(* Provisioning on small instances, and the domain values, services and projections *)
(* a provisioned server works with, checked over bounded inputs.                    *)
EXTENDS Provisioning, Sequences
D == INSTANCE LoadIndex

-----------------------------------------------------------------------------
(* A repository with two cards and a unit of player p, and a card of player q. *)
Profile(who) == [player |-> who, name |-> "n", level |-> 1, exp |-> 0, created |-> "now", login |-> "now"]
ACard(id, who, protected, favorite) ==
    [id |-> id, player |-> who, master |-> 7, level |-> 1, exp |-> 0, skill |-> 1, step |-> 0, love |-> 0,
     protected |-> protected, favorite |-> favorite, acquired |-> "now"]
Member(position, card) == [position |-> position, card |-> card]
AUnit(members) == [id |-> 1, player |-> "p", slot |-> 0, members |-> members]

Memberships == {<<>>, <<Member(0, 1)>>, <<Member(0, 2), Member(4, 1)>>, <<Member(1, 3)>>, <<Member(5, 1)>>}
Repositories ==
    {[profiles |-> {Profile("p"), Profile("q")}, resources |-> {[player |-> "p", kind |-> "jewel", amount |-> 3]},
      cards |-> {ACard(1, "p", a, b), ACard(2, "p", FALSE, a), ACard(3, "q", b, b)},
      units |-> {AUnit(ms)}, unlocks |-> {}] : a, b \in BOOLEAN, ms \in {<<>>, <<Member(0, 1)>>}}
Ids == {<<>>, <<1>>, <<2, 1>>, <<1, 1>>, <<1, 3>>, <<2>>}

\* The rows a command changed, by the ids its changes name.
Named(changes) == {changes.entities[i].id[1] : i \in DOMAIN changes.entities}
Changed(before, after) == {r.id : r \in (after.cards \cup after.units) \ (before.cards \cup before.units)}

ForEachCommand(repo, Holds(_)) ==
    /\ \A ids \in Ids : Holds(D!ToggleProtection(repo, "p", ids))
    /\ \A id \in 1..3, b \in BOOLEAN : Holds(D!SetProtection(repo, "p", id, b))
    /\ \A ids \in Ids, b \in BOOLEAN : Holds(D!SetFavorites(repo, "p", [i \in DOMAIN ids |-> <<ids[i], b>>]))
    /\ \A ids \in {<<>>, <<1>>, <<2>>, <<1, 1>>}, ms \in Memberships :
        Holds(D!ReplaceMembers(repo, "p", [i \in DOMAIN ids |-> [id |-> ids[i], members |-> ms]]))

\* A refused command changes nothing; an accepted one reports exactly the rows it
\* changed, and an empty ChangeSet only when it changed none (server/domain).
ASSUME ChangesAreReported ==
    \A repo \in Repositories : ForEachCommand(repo, LAMBDA r :
        /\ ~r.ok => r.repo = repo
        /\ r.ok => Named(r.changes) = Changed(repo, r.repo)
        /\ D!IsEmpty(r.changes) <=> r.repo = repo)

\* A toggle undoes itself; a favorite command repeated changes nothing the second time.
ASSUME CommandsRepeat ==
    \A repo \in Repositories, ids \in Ids :
        LET once == D!ToggleProtection(repo, "p", ids)
            set(r) == D!SetFavorites(r, "p", [i \in DOMAIN ids |-> <<ids[i], TRUE>>])
        IN  /\ D!ToggleProtection(once.repo, "p", ids).repo = repo
            /\ D!IsEmpty(set(set(repo).repo).changes)

\* No command gives a player another player's card, in a unit or otherwise.
ASSUME CommandsStayHome ==
    \A repo \in Repositories : ForEachCommand(repo, LAMBDA r :
        /\ {c \in r.repo.cards : c.player = "q"} = {c \in repo.cards : c.player = "q"}
        /\ \A u \in r.repo.units : \A i \in DOMAIN u.members : u.members[i].card \in D!Owned(repo, "p"))

-----------------------------------------------------------------------------
Policies ==
    {[name |-> "n", level |-> 1, exp |-> 0, policy |-> "v0",
      resources |-> [k \in {"jewel", "stamina"} |-> IF k = "stamina" THEN amount ELSE 0],
      cards |-> [i \in 1..n |-> [master |-> m, level |-> 1, exp |-> 0, skill |-> 1, step |-> 0, love |-> 0,
                                 protected |-> FALSE, favorite |-> FALSE]],
      unlocks |-> [i \in 1..u |-> [kind |-> "card", master |-> m, source |-> "s"]]] :
        amount \in {-1, 0, 9}, n \in 0..2, m \in {0, 7, 8}, u \in 0..1}
Masters ==
    {{}, {[specs |-> [kind \in {"card"} |-> [table |-> "t", key |-> "id", columns |-> <<"id", "rarity">>,
            identifiers |-> {"t", "id", "rarity"}, rows |-> [id \in {7} |-> [id |-> 7, rarity |-> 1, x |-> 2]]]]]}}
\* Policies that a BootstrapPolicy, its grants and its unlocks accept.
Constructible(policy) ==
    /\ D!ValidPolicy(policy)
    /\ \A i \in DOMAIN policy.cards : D!ValidGrant(policy.cards[i])
    /\ \A i \in DOMAIN policy.unlocks : D!ValidInitialUnlock(policy.unlocks[i])

\* A bootstrap from a valid policy saves valid rows only, reports each card, unlock and
\* resource it created, and does nothing the second time; one that names an unknown
\* master record leaves the repository as it was (services.py bootstrap_profile).
ASSUME BootstrapIsComplete ==
    \A policy \in {q \in Policies : Constructible(q)}, master \in Masters :
        LET r == D!Bootstrap(D!EmptyRepository, policy, "p", 0, master)
            snapshot == D!HomeSnapshot(r.repo, "p")
        IN  IF ~r.ok
            THEN r.repo = D!EmptyRepository /\ master # {} /\ Len(policy.cards) + Len(policy.unlocks) > 0
            ELSE /\ D!ValidSnapshot(snapshot) /\ D!ValidProfile(snapshot.profile)
                 /\ \A i \in DOMAIN snapshot.cards : D!ValidCard(snapshot.cards[i])
                 /\ \A u \in snapshot.unlocks : D!ValidUnlock(u)
                 /\ \A c \in r.changes.resources : D!ValidResourceChange(c)
                 /\ \A i \in DOMAIN r.changes.entities : D!ValidEntityChange(r.changes.entities[i])
                 /\ Len(snapshot.cards) = Len(policy.cards)
                 /\ Len(r.changes.entities) = Len(policy.cards) + Len(policy.unlocks)
                 /\ \A res \in snapshot.resources : D!ValidResource(res) /\
                        (res.amount # 0 <=> \E c \in r.changes.resources : c.kind = res.kind /\ c.resulting = res.amount)
                 /\ LET again == D!Bootstrap(r.repo, policy, "p", 0, master)
                    IN  again.repo = r.repo /\ D!IsEmpty(again.changes)

\* Two players bootstrapped by two processes draw the same ids: the second takes the
\* first one's cards (SequentialIdGenerator counts from 1 in each process).
ASSUME FreshCountersCollide ==
    \A policy \in {q \in Policies : Constructible(q)} :
        LET one == D!Bootstrap(D!EmptyRepository, policy, "p", 0, {})
            two == D!Bootstrap(one.repo, policy, "q", 0, {})
            kept == D!Bootstrap(one.repo, policy, "q", Len(policy.cards), {})
        IN  /\ D!ListCards(two.repo, "p") = <<>>
            /\ D!ListCards(kept.repo, "p") = D!ListCards(one.repo, "p")

-----------------------------------------------------------------------------
\* Each builder passes its own validator, and a profile that lacks a section or a
\* required field of one does not (server/minimal_profile.py).
Without(data, path) ==
    IF Len(path) = 1 THEN [s \in DOMAIN data \ {path[1]} |-> data[s]]
    ELSE [data EXCEPT ![path[1]].f = [x \in DOMAIN @ \ {path[2]} |-> @[x]]]
RequiredPaths ==
    {<<s>> : s \in D!EmptyLists \cup {"common_define", "user_info", "music_list", "loading_tips_info"}}
    \cup {<<"common_define", x>> : x \in D!CommonFields} \cup {<<"user_info", x>> : x \in D!UserFields}
    \cup {<<"music_list", "normal">>, <<"loading_tips_info", "possession_sticker_data">>}
StarterPaths ==
    {<<"cs_gacha_data_cenere">>, <<"common_define", D!ReleaseKey>>, <<"user_info", "unit_slot">>}
ASSUME ProfilesAreValid ==
    /\ D!MinimalErrors(D!Minimal(1, 5)) = {}
    /\ D!HomeErrors(D!HomeCandidate(1, 5)) = {}
    /\ D!StarterErrors(D!StarterVisible(1, 5)) = {}
    /\ \A path \in RequiredPaths : path \in D!HomeErrors(Without(D!HomeCandidate(1, 5), path))
    /\ \A path \in RequiredPaths \cup StarterPaths : D!StarterErrors(Without(D!StarterVisible(1, 5), path)) # {}

Snapshots ==
    {D!HomeSnapshot([repo EXCEPT !.units = {AUnit(ms)}], "p") : repo \in Repositories, ms \in Memberships}
Bindings == {[i \in {1, 2} |-> 10 + i], [i \in {1, 2} |-> 9], [i \in {1} |-> 4], [i \in {1, 2} |-> i - 1]}
ProjectionPolicies ==
    {[viewer |-> 1, now |-> 5, max_card_num |-> 300, fan |-> 0, producer_rank |-> 1, birth |-> 0,
      cards |-> cards, units |-> [i \in {1} |-> uid],
      cosmetics |-> [i \in {1} |-> [k \in 1..Len(slots) |-> [position |-> slots[k], dress |-> 3]]],
      kinds |-> [x \in D!ResourceFields |-> x], leader |-> chief] :
        cards \in Bindings, uid \in {0, 6}, slots \in {<<>>, <<0, 4>>, <<2, 2>>, <<5>>}, chief \in 0..3}

\* A projection is a Home candidate but for its filled lists; the numbers in its units
\* are the numbers of cards it lists, each member where the domain has it; the leader is
\* such a card; and a costume is there exactly where one is saved (adapters/load_index.py).
ASSUME ProjectionIsFaithful ==
    \A s \in Snapshots, policy \in {q \in ProjectionPolicies : D!PolicyOK(q)} :
        D!Projectable(s, policy) =>
            LET data == D!Project(s, policy)
                serials == {data["user_card_list"].items[i].f["serial_id"].n : i \in DOMAIN s.cards}
                wire == data["user_unit_list"].items[1].f
            IN  /\ D!HomeErrors(data) = {}
                /\ Cardinality(serials) = Len(s.cards)
                /\ \A k \in 1..5 :
                    /\ wire[D!SerialField[k]].n \in serials \cup {0}
                    /\ \A c \in DOMAIN policy.cards : wire[D!SerialField[k]].n = policy.cards[c] <=>
                        \E j \in DOMAIN s.units[1].members : s.units[1].members[j] = Member(k - 1, c)
                    /\ D!DressField[k] \in DOMAIN wire <=>
                        \E j \in DOMAIN policy.cosmetics[1] : policy.cosmetics[1][j].position = k - 1
                /\ "leader_serial_id" \in DOMAIN data["user_info"].f
                       => data["user_info"].f["leader_serial_id"].n \in serials

\* minimal_profile.py says the client hard-reads user_info.unit_slot before it iterates
\* user_unit_list; the domain-backed projection fills that list and never sets the field.
ASSUME ProjectionLacksTheActiveSlot ==
    \A s \in Snapshots, policy \in {q \in ProjectionPolicies : D!PolicyOK(q)} :
        D!Projectable(s, policy) => <<"user_info", "unit_slot">> \in D!StarterErrors(D!Project(s, policy))

\* dict(mapping) is one build, whatever the next build would be; len() of the mapping is
\* that of the last build the thread saw (application/load_index.py _RefreshingMapping).
Builds == {[k \in {"a"} |-> v] : v \in 1..2} \cup {[k \in {"a", "b"} |-> 3]}
ASSUME DictIsOneBuild ==
    \A first, second \in Builds, cached \in {<<>>} \cup {<<b>> : b \in Builds} :
        LET m == [cached |-> cached, builds |-> <<first, second>>]
        IN  /\ D!DictOf(m).answer = first
            /\ D!Length(m).answer = Cardinality(DOMAIN (IF cached = <<>> THEN first ELSE cached[1]))
            /\ D!Length(D!DictOf(m).map).answer = Cardinality(DOMAIN first)

-----------------------------------------------------------------------------
Other(type) == [t |-> type, n |-> 0, items |-> <<>>, f |-> D!EmptyData]
Scalars == {D!Number(n) : n \in -1..1} \cup {Other("bool"), Other("str")}
Arrays == {D!List(<<>>)} \cup {D!List(<<a>>) : a \in Scalars} \cup {D!List(<<D!Number(1), a>>) : a \in Scalars}
FieldSets == {{"serial_ids", "change_flags"}, {"serial_ids"}}
\* An accepted card request names positive serials only, with a flag for each; the
\* answer to a protect request holds requested serials only, in their order.
ASSUME RequestsAreChecked ==
    \A a, b \in Arrays \cup Scalars : \A fields \in FieldSets :
        LET req == D!Object([x \in fields |-> IF x = "serial_ids" THEN a ELSE b])
        IN  /\ D!FavoriteRequestOK(req) => Len(D!Numbers(a)) = Len(D!Numbers(b)) /\ D!ProtectRequestOK(req)
            /\ D!ProtectRequestOK(req) =>
                /\ \A i \in DOMAIN D!Numbers(a) : D!Numbers(a)[i] > 0
                /\ \A protected \in SUBSET (0..2) : D!ProtectResponseOK(D!Numbers(a), protected) =>
                    \A s \in protected : \E i \in DOMAIN D!ProtectResponse(D!Numbers(a), protected) :
                        D!ProtectResponse(D!Numbers(a), protected)[i] = s
            /\ ~D!StoryRequestOK(D!Object([x \in {"story_id"} |-> Other("bool")]))

\* A unit request is refused when any one of its parts is.
UnitInfo(arrays, id) == D!Object([x \in D!SlotArrays \cup {"unit_id"} |-> IF x = "unit_id" THEN id ELSE arrays])
ASSUME UnitRequestsAreChecked ==
    \A arrays \in Arrays, id \in Scalars, main \in Scalars :
        D!UnitRequestOK(D!Object([x \in {"unit_info_list", "main_unit_id"} |->
            IF x = "main_unit_id" THEN main ELSE D!List(<<UnitInfo(arrays, id)>>)]))
        <=> /\ \A i \in DOMAIN arrays.items : arrays.items[i] \in {D!Number(0), D!Number(1)}
            /\ id = D!Number(1) /\ main \in {D!Number(0), D!Number(1)}
=============================================================================
