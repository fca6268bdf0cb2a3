---------------------------- MODULE DomainState ----------------------------
(***************************************************************************)
(* The domain of the archival server as values (server/domain/): what a    *)
(* profile, card, unit, change or policy must satisfy to be constructed,   *)
(* the repository as a record of tables, and the services as functions     *)
(* from a repository to a repository and the ChangeSet they report.        *)
(* A constructor that raises is a value for which Valid... is false.       *)
(* Ids of cards and units are numbers in the order of their text, and 0 the *)
(* empty id; "naive" is a datetime without a time zone, "none" is None.    *)
(***************************************************************************)
EXTENDS Integers, FiniteSets, SequencesExt, FiniteSetsExt

SlotCount == 5                      \* FINAL_UNIT_SLOT_COUNT
NonEmpty(s) == s # ""
IsId(n) == n # 0
Aware(time) == time # "naive"

ValidProfile(p) ==
    /\ NonEmpty(p.player) /\ NonEmpty(p.name)
    /\ p.level >= 1 /\ p.exp >= 0
    /\ Aware(p.created) /\ Aware(p.login)

ValidResource(r) == NonEmpty(r.player) /\ NonEmpty(r.kind) /\ r.amount >= 0

ValidCard(c) ==
    /\ IsId(c.id) /\ NonEmpty(c.player)
    /\ c.master >= 1 /\ c.level >= 1
    /\ \A n \in {c.exp, c.skill, c.step, c.love} : n >= 0
    /\ Aware(c.acquired)

ValidMember(m) == m.position >= 0 /\ IsId(m.card)

UniquePositions(rows) == \A i, j \in DOMAIN rows : rows[i].position = rows[j].position => i = j

ValidUnit(u) ==
    /\ IsId(u.id) /\ NonEmpty(u.player) /\ u.slot >= 0
    /\ \A i \in DOMAIN u.members : ValidMember(u.members[i])
    /\ UniquePositions(u.members)

ValidUnlock(u) == NonEmpty(u.player) /\ NonEmpty(u.kind) /\ u.master >= 1 /\ Aware(u.at)

\* A snapshot holds rows of its own player only.
ValidSnapshot(s) ==
    \A row \in s.resources \cup s.unlocks \cup ToSet(s.cards) \cup ToSet(s.units) :
        row.player = s.profile.player

ValidReward(r) == NonEmpty(r.kind) /\ r.quantity >= 1
ValidResourceChange(c) == NonEmpty(c.kind) /\ c.delta # 0 /\ c.resulting >= 0
ValidEntityChange(c) == NonEmpty(c.category) /\ c.id # <<0>>

NoChanges == [profile |-> FALSE, resources |-> {}, entities |-> <<>>, meta |-> "none"]
IsEmpty(changes) == changes = NoChanges

ValidGrant(g) == g.master >= 1 /\ g.level >= 1 /\ \A n \in {g.exp, g.skill, g.step, g.love} : n >= 0

ValidInitialUnlock(u) == NonEmpty(u.kind) /\ u.master >= 1 /\ NonEmpty(u.source)

\* resources: kind -> amount; cards and unlocks: sequences of grants and unlocks
ValidPolicy(p) ==
    /\ NonEmpty(p.name) /\ p.level >= 1 /\ p.exp >= 0 /\ NonEmpty(p.policy)
    /\ \A k \in DOMAIN p.resources : NonEmpty(k) /\ p.resources[k] >= 0

-----------------------------------------------------------------------------
(* The repository: sets of rows, a row being replaced by the row saved with its key. *)
EmptyRepository == [profiles |-> {}, resources |-> {}, cards |-> {}, units |-> {}, unlocks |-> {}]

Replace(rows, row, Same(_, _)) == {r \in rows : ~Same(r, row)} \cup {row}

SaveProfile(repo, p) == [repo EXCEPT !.profiles = Replace(@, p, LAMBDA a, b : a.player = b.player)]
SetResource(repo, r) ==
    [repo EXCEPT !.resources = Replace(@, r, LAMBDA a, b : a.player = b.player /\ a.kind = b.kind)]
SaveCard(repo, c) == [repo EXCEPT !.cards = Replace(@, c, LAMBDA a, b : a.id = b.id)]
SaveUnit(repo, u) == [repo EXCEPT !.units = Replace(@, u, LAMBDA a, b : a.id = b.id)]
SaveUnlock(repo, u) ==
    [repo EXCEPT !.unlocks = Replace(@, u, LAMBDA a, b :
        a.player = b.player /\ a.kind = b.kind /\ a.master = b.master)]

\* ORDER BY user_card_id, and by slot and unit_id.
ListCards(repo, player) ==
    SetToSortSeq({c \in repo.cards : c.player = player}, LAMBDA a, b : a.id < b.id)
ListUnits(repo, player) ==
    SetToSortSeq({u \in repo.units : u.player = player},
                 LAMBDA a, b : a.slot < b.slot \/ (a.slot = b.slot /\ a.id < b.id))

HasProfile(repo, player) == \E p \in repo.profiles : p.player = player

HomeSnapshot(repo, player) ==
    [profile   |-> CHOOSE p \in repo.profiles : p.player = player,
     resources |-> {r \in repo.resources : r.player = player},
     cards     |-> ListCards(repo, player),
     units     |-> ListUnits(repo, player),
     unlocks   |-> {u \in repo.unlocks : u.player = player}]

\* _MIGRATION_2: locked becomes is_protected, the two new columns are 0.
MigrateCard(old) ==
    [id |-> old.id, player |-> old.player, master |-> old.master, level |-> old.level,
     exp |-> old.exp, skill |-> old.skill, step |-> 0, love |-> 0, protected |-> old.locked,
     favorite |-> old.favorite, acquired |-> old.acquired]

\* SequentialIdGenerator: a counter per namespace, "ns:1" first.
NewId(counters, ns) == [counters EXCEPT ![ns] = @ + 1]

\* SQLiteMasterDataRepository: specs maps a kind to a table of ids; an unknown kind has no rows.
ValidSpec(s) ==
    /\ \A name \in {s.table, s.key} \cup ToSet(s.columns) : name \in s.identifiers
    /\ Cardinality(ToSet(s.columns)) = Len(s.columns)
HasRow(master, kind, id) == kind \in DOMAIN master.specs /\ id \in DOMAIN master.specs[kind].rows
GetRow(master, kind, id) ==
    LET spec == master.specs[kind]
        kept == IF spec.columns = <<>> THEN DOMAIN spec.rows[id] ELSE ToSet(spec.columns)
    IN  [c \in kept |-> spec.rows[id][c]]

-----------------------------------------------------------------------------
(* PreservationProfileService.bootstrap_profile.  The ids are drawn while the     *)
(* transaction is open, and are not given back by its rollback.                   *)
Entity(category, id, operation, value) ==
    [category |-> category, id |-> id, op |-> operation, value |-> value]

Grant(g, player, id) ==
    [id |-> id, player |-> player, master |-> g.master, level |-> g.level, exp |-> g.exp,
     skill |-> g.skill, step |-> g.step, love |-> g.love, protected |-> g.protected,
     favorite |-> g.favorite, acquired |-> "now"]

Unlocked(u, player) == [player |-> player, kind |-> u.kind, master |-> u.master, at |-> "now", source |-> u.source]

\* _require_master; master is a set of at most one repository of master data.
KnownGrants(policy, master) ==
    LET Known(kind, id) == \A m \in master : HasRow(m, kind, id)
    IN  /\ \A i \in DOMAIN policy.cards : Known("card", policy.cards[i].master)
        /\ \A i \in DOMAIN policy.unlocks : Known(policy.unlocks[i].kind, policy.unlocks[i].master)

Answer(repo, changes) == [ok |-> TRUE, repo |-> repo, changes |-> changes]
Refused(repo) == [ok |-> FALSE, repo |-> repo, changes |-> NoChanges]

\* counter: the last "card" id the generator has given
Bootstrap(repo, policy, player, counter, master) ==
    LET profile == [player |-> player, name |-> policy.name, level |-> policy.level, exp |-> policy.exp,
                    created |-> "now", login |-> "now"]
        amounts == [k \in DOMAIN policy.resources |-> [player |-> player, kind |-> k, amount |-> policy.resources[k]]]
        cards == [i \in DOMAIN policy.cards |-> Grant(policy.cards[i], player, counter + i)]
        unlocks == [i \in DOMAIN policy.unlocks |-> Unlocked(policy.unlocks[i], player)]
        funded == FoldSet(LAMBDA k, r : SetResource(r, amounts[k]), SaveProfile(repo, profile), DOMAIN amounts)
        saved == FoldLeft(SaveUnlock, FoldLeft(SaveCard, funded, cards), unlocks)
    IN  IF HasProfile(repo, player) THEN Answer(repo, NoChanges)
        ELSE IF ~KnownGrants(policy, master) THEN Refused(repo)
        ELSE Answer(saved,
                 [profile |-> TRUE,
                  resources |-> {[kind |-> k, delta |-> amounts[k].amount, resulting |-> amounts[k].amount] :
                                 k \in {k \in DOMAIN amounts : amounts[k].amount # 0}},
                  entities |-> [i \in DOMAIN cards |-> Entity("card", <<cards[i].id>>, "create", cards[i].master)]
                      \o [i \in DOMAIN unlocks |->
                          Entity("feature-unlock", <<unlocks[i].kind, unlocks[i].master>>, "create", unlocks[i].master)],
                  meta |-> policy.policy])

-----------------------------------------------------------------------------
(* The commands on cards and units.  Each reads the owned rows, refuses before it *)
(* writes, and saves all it changes in one transaction.                           *)
Owned(repo, player) == {c.id : c \in {c \in repo.cards : c.player = player}}
CardOf(repo, id) == CHOOSE c \in repo.cards : c.id = id
Distinct(seq) == Cardinality(ToSet(seq)) = Len(seq)
OwnsEach(repo, player, ids) == Distinct(ids) /\ ToSet(ids) \subseteq Owned(repo, player)

\* The saved cards, with one UPDATE entity each for their new value of a field.
Updated(repo, cards, field, meta) ==
    IF cards = <<>> THEN Answer(repo, NoChanges)
    ELSE Answer(FoldLeft(SaveCard, repo, cards),
             [NoChanges EXCEPT
                 !.entities = [i \in DOMAIN cards |-> Entity("card", <<cards[i].id>>, "update", cards[i][field])],
                 !.meta = meta])

SetProtection(repo, player, id, desired) ==
    IF id \notin Owned(repo, player) THEN Refused(repo)
    ELSE Updated(repo, SelectSeq(<<[CardOf(repo, id) EXCEPT !.protected = desired]>>,
                                 LAMBDA c : c \notin repo.cards), "protected", "none")

ToggleProtection(repo, player, ids) ==
    IF ~OwnsEach(repo, player, ids) THEN Refused(repo)
    ELSE Updated(repo, [i \in DOMAIN ids |-> [CardOf(repo, ids[i]) EXCEPT !.protected = ~@]],
                 "protected", "member-protect-toggle-inferred")

\* assignments: sequence of <<card, desired>>; cards that already agree are not saved.
SetFavorites(repo, player, assignments) ==
    IF ~OwnsEach(repo, player, [i \in DOMAIN assignments |-> assignments[i][1]]) THEN Refused(repo)
    ELSE Updated(repo, SelectSeq([i \in DOMAIN assignments |->
                                     [CardOf(repo, assignments[i][1]) EXCEPT !.favorite = assignments[i][2]]],
                                 LAMBDA c : c \notin repo.cards), "favorite", "member-favorite-explicit-set")

ReplaceMembers(repo, player, updates) ==
    LET mine == {u \in repo.units : u.player = player}
        UnitOf(id) == CHOOSE u \in mine : u.id = id
        cards == UNION {{m.card : m \in ToSet(updates[i].members)} : i \in DOMAIN updates}
        changed == SelectSeq([i \in DOMAIN updates |->
                                 [UnitOf(updates[i].id) EXCEPT !.members = updates[i].members]],
                             LAMBDA u : u \notin mine)
    IN  IF \/ ~Distinct([i \in DOMAIN updates |-> updates[i].id])
           \/ ~({updates[i].id : i \in DOMAIN updates} \subseteq {u.id : u \in mine})
           \/ ~(cards \subseteq Owned(repo, player))
        THEN Refused(repo)
        ELSE IF changed = <<>> THEN Answer(repo, NoChanges)
        ELSE Answer(FoldLeft(SaveUnit, repo, changed),
                 [NoChanges EXCEPT !.entities = [i \in DOMAIN changed |->
                      Entity("unit", <<changed[i].id>>, "update", changed[i].members)]])

=============================================================================
