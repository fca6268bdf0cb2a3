# Verification of cgss-relive

TLA+ models of the local server of cgss-relive, of the programs around it and of the
analyses it is built from; the TLC configurations that check them on small instances;
and TLAPS proofs of the results that matter most, for every value of the constants.
`PROJECT.json` is the index: components, runs, mutants (the plausible bug each property
would catch), the source lines behind every definition, hazards, findings and theorems.

    tlc -config MCGateway.cfg MCGateway           # a run
    tlapm IdentityStoreProofs.tla                 # the proofs of a module

Names of modules and actions follow the source; a definition whose comment begins
with "Mutant:" is not part of the model, it is the bug that shows that a property
can fail.

There are two kinds of modules. *State machines* model programs that act on something
shared: databases, files, sockets, processes. *Pure modules* model programs that compute
a result from their input, as operators; what they promise is checked by `ASSUME`s that
compare the operators with a reference definition over bounded inputs, and TLC
evaluates these before it runs the state machine whose MC module extends them.

---

## 1. Inventory

The repository rebuilds a server for a game client whose own servers are gone. Three
server processes run side by side, started by a supervisor; the archive that one of them
serves is filled by other programs; what the others answer is compiled from an offline
analysis of the client.

    client --TLS--> tls_mux --+--> http_server / application_http --+-- domain.sqlite3
                              |     (one thread per request)        +-- identity.sqlite3
                              |       |  ^ compiled templates       +-- api event log
                              |       |  +-- launcher <-- catalog <-- overlays <-- semantic db
                              |       v                                    ^ analysis of the client
                              |     analyze-runtime-events (both logs)
                              |
                              +--> resource_server -- archive/ab/abcd... <-- archive-resources
                                        |                                    fetch-resource-bootstrap
                                        +------------- CDN ---------------------+
    run-rooted-local-stack: starts api, resource, mux; polls, monitors, terminates

### Components that keep state

**Compatibility identity store** (`server/adapters/identity_store.py`). A SQLite file
with `user_version`, two tables of bindings (player, domain id, number), the costume
rows of the units and each player's main unit. Every request opens its own connection,
migrates if needed, then calls `ensure_card_serial` / `ensure_unit_id` (SELECT, MAX + 1,
INSERT under `BEGIN IMMEDIATE`) and the resolvers. *Hard:* two first openers, two
allocations at once, a server that dies between two migrations. *Correct when:* a number
given to a client names one id for good; numbers are dense per scope; no call meets a
constraint; the version tells which tables exist.

**Card commands** (`application/member_protect.py`, `member_favorite.py`,
`domain/services.py`, `domain/card_services.py`). No state of their own; they read card
rows with an autocommitted SELECT, compute whole rows, and save them in a transaction.
*Hard:* everything read before the transaction may be stale in it; the reply of a toggle
comes from a later read. *Correct when:* a request takes effect at one instant or not at
all, and its reply tells what it did.

**Unit edit and load/index** (`application/unit_edit.py`, `domain/unit_services.py`,
`application/load_index.py`). The edit writes two databases: members first, costumes and
main unit second. `load/index` reads both and allocates ids on the way. *Hard:* a crash
between the two commits, a retry that finds half of its work done, a reader between two
SELECTs. *Correct when:* an answered edit holds in both databases, a refused one in none.

**Provisioning and start of the domain server** (`domain_server.py`,
`domain/providers.py`, `domain/services.py`). Migration, revision binding, bootstrap of
the profile, starter unit, and only then serving. *Hard:* files of earlier versions with
profiles in them, a stop at any step, later starts with other arguments. *Correct when:*
what serves is complete, neither a migration nor a restart changes what is complete, and
an interrupted start can be finished by the next.

**Domain persistence** (`domain/persistence.py`). The SQLite repositories below the three
components above: transactions, the write lock, busy timeouts, rollback. Modelled where
the commands use it, not as a component of its own.

**Resource server and archiver** (`server/resource_server.py`,
`scripts/archive-resources.py`). A content-addressed directory; each program downloads
into a private `.part` file, checks the MD5 and renames. *Hard:* both work on the same
objects at once, the archiver also unlinks what it finds damaged; a file changes between
`stat` and `open`; kills; bad answers of the CDN; range arithmetic. *Correct when:* a good
object is never lost, what is served is verified and is exactly the range asked for, and
the archiver's report is true.

**Stack supervisor** (`scripts/run-rooted-local-stack.py`). The list of children, the four
readiness checks, the monitor loop and `terminate_children`. *Hard:* a child that exits
while another starts, interrupts at any point, a killed supervisor whose children live
on and answer the next one's health checks. *Correct when:* no process is left behind by
a clean-up that was let run, readiness is earned, and one exited child ends the stack.

**Gateway: TLS mux, HTTP front ends, event logs** (`tls_mux.py`, `application_http.py`,
`http_server.py`, `safe_events.py`). Sockets, one thread per connection in each process, a
log file per plane. *Hard:* the handshake runs on the one acceptor thread; the mux gives
up after 60 s on a backend that goes on; a backend dies after the status line; a command
has committed when its event cannot be written; two logs are written by many threads.
*Correct when:* a 200 can be relied on, a refusal has changed nothing, no client gets two
answers, everyone is dealt with, and what is concluded from the logs is what happened.

**Evidence pipeline** (`scripts/build-client-semantic-db.py`, `build-effective-parser-overlays.py`,
`export-effective-runtime-contract-catalog.py`, `server/conservative_templates.py`, `response_templates.py`,
`scripts/run-rooted-full-service-stack.py`, ...). Four files that programs leave to each other, none
replaced atomically. *Hard:* files of different analysis runs are mixed, two launchers write
one file, a server reads a file while it is written. *Correct when:* a server answers from a
template only where its path has one endpoint, and with an invented empty object only
where the analysis knows of nothing that must be there.

### Components without state

* **Bootstrap front end, codecs and endpoints** (`bootstrap_core.py`, `cgss_codec.py`,
  `header_codec.py`, `load_check.py`, `load_title.py`, `login_signup.py`, ...): functions of the
  configuration and one request.
* **Domain values and services** (`domain/*.py`), **load/index projection**
  (`adapters/load_index.py`), **profiles** (`minimal_profile.py`, ...), **story start**: functions of
  a repository.
* **Resource URLs and bootstrap** (`resource_server.py`, `fetch-resource-bootstrap.py`, `preflight`,
  `audit`, `verify-final-manifest-resolution`): functions of a manifest and a directory.
* **Runtime event analysis** (`analyze-runtime-events.py`): a function of the logs.
* **Static analysis of the client** (`scripts/analyze-*`, `build-*`, `extract-*`): functions of the
  disassembled client. *Hard:* they follow registers, branches and types with rules that
  are approximations, and their results are used as proofs. *Correct when:* what is called
  exact, safe or required is so in every execution of the analysed code.
* **Client patches, contracts, tools, CI**: data and build steps.

---

## 2. Modules

### State machines

| Module | Models | Instance | Proofs |
|---|---|---|---|
| `IdentityAllocator` | what the identity store promises: one atomic `Ensure` | | |
| `IdentityStore` | connections of the identity database, statement by statement; refines `IdentityAllocator` | its own cfgs | `IdentityStoreProofs` |
| `AtomicCards` | what the docstrings promise: a request takes effect at one instant | | |
| `CardCommands` | both card endpoints from request to reply; refines `AtomicCards` | `MCCardCommands` | `CardCommandsProofs` |
| `UnitEdit` | `/unit/edit` over two databases beside `/load/index` | `MCUnitEdit` | `UnitEditProofs` |
| `Provisioning` | the life of a domain database file over many starts | `MCProvisioning` | `ProvisioningProofs` |
| `ResourceArchive` | request threads and archiver on one archive | `MCResourceArchive` | `ResourceArchiveProofs` |
| `RootedStack` | the supervisor, its children, the ports, signals, restarts | its own cfg | `RootedStackProofs` |
| `Gateway` | requests through mux, backend and event log, with failures of each | `MCGateway` | `GatewayProofs` |
| `Evidence` | the stages of the analysis, launchers and servers on the files between them | `MCEvidence` | `EvidenceProofs` |

### Pure modules

| Module | Models | Checked in |
|---|---|---|
| `CardRequests` | the requests about cards and the rows they ask for | `CardCommands` |
| `ByteRange` | `parse_single_range` and what a range asks for | `ResourceArchiveProofs` (proved) |
| `Front` | header and body codec, route registry, order of the checks, bootstrap payloads, events | `MCGateway` |
| `RuntimeEvents` | which logs are accepted, their merge, the phase of a run, the device log's sanitizer | `MCGateway` |
| `DomainState` | values, repositories, services and their change sets | `MCProvisioning` |
| `LoadIndex` | the projection of a profile, request parsers, synthetic profiles | `MCProvisioning` |
| `Contracts` | documents of the pipeline: what each reader accepts and makes of them | `MCEvidence` |
| `Backlog` | the ranking of what is still missing, and its blockers | `MCEvidence` |
| `ResourceUrls` | from route and manifest to the object | `MCResourceArchive` |
| `ResourceBootstrap` | block decoder, bootstrap with failures, preflight, audit | `MCResourceArchive` |
| `Endpoints` | from the api map to the contract database; consumers of client state | `StaticChecks` |
| `Cfg`, `EmptyObjects` | control-flow graphs, requiredness of fields, dead values, empty containers | `StaticChecks` |
| `RegisterFlow`, `ResponseFlow`, `RequestFlow` | what each linear scan keeps of registers, fields and types | `ScanChecks` |
| `ClientTypes`, `ParameterChain` | types of the dump, network tasks, layouts and signatures of request parameters, parameters of the load task | `ClientChecks` |
| `CallEdges` | branches and call edges, inheritance of parsers | `ClientChecks` |

`StaticChecks`, `ScanChecks` and `ClientChecks` are extended by `MCEvidence`. No property of a run depends on
`Endpoints`, `Backlog` or what these three extend: they model the tools that prepare the pipeline's inputs, as
functions, and TLC evaluates their assumptions once, before it explores the pipeline. Each check module holds the reference definitions (an
interpreter for small functions, the paths of a graph, ...) and the assumptions; the
pure modules hold only what the source does. `Gateway` and `Evidence` use `Front` and
`Contracts` in their actions, so the same operators are checked alone and in place.

### How state and actions correspond to the code

**SQLite** is modelled the same way wherever it appears. A transaction's uncommitted
writes are visible to nobody, so they are kept with the thread (`job`, `saved`) and
installed by the commit. `BEGIN IMMEDIATE` takes the one write lock at once; the domain
repository's `BEGIN` (deferred) takes it at the first write. Whoever does not get it in
time raises `database is locked`, which rolls back and leaves the HTTP layer without a
reply. A crash keeps what is committed, nothing else. A SELECT outside a transaction
sees the committed state.

**`IdentityStore`.** `version` is `PRAGMA user_version`, `schema` the set of migrations
whose tables exist, `bindings` the rows of both tables (a scope is a table and a player),
`issued` what callers have been told. `Open`, `ReadVersion`, `RefuseNewer` and
`BeginImmediate`/`Migrate`/`TableExists` are `open` and `_migrate`; `StartEnsure`,
`SelectBinding`, `InsertBinding`, `Commit` are `_ensure` inside `transaction`; `Close` ends
the request.

**`CardCommands`.** `cards` are the committed rows with their two flags; per thread `cache`
is what it has read, `todo`/`saved` what it still has to save and has saved. The actions
follow `do_POST`: `OpenStores`, `RejectSerials` or `ResolveSerials`, `RejectMissing` or
`ReadCards`, `SaveCard` once per changed card, `Commit`, `ReadBack` (the snapshot the
reply is computed from), `Finish`. A request is a record of serials and flags; its JSON
and encryption are left out.

**`UnitEdit`.** `members` is in the domain database, `slots` and `main` in the identity
database, each with a lock of its own. `ReadMembers` is one SELECT of `list_units`; `Check`
chooses the units to save from what was read; `CommitMembers` and `CommitIdentity` are the
two commits. Loaders do `EnsureIds`, `ReadCostumes` and `Project`. A team and a set of
costumes are model values; validation faults are a field of the request, because which
fault it is only decides where the command stops.

**`Provisioning`.** `schema`, `revision`, `profiles`, `owner`, `units` are the file; `pc`,
`player`, `wanted`, `leader` the running process. `Init` is an empty file, or one of any
later version that holds whatever was saved in it: any profiles, cards and units that
satisfy `RowsOK` (the foreign keys, and a card in each file with a profile), bound to any
revision or to none. `_MIGRATION_2` renames and adds columns, so `MigrateOne` keeps every
row. Card ids restart at 1 with every process (`SequentialIdGenerator`) and a save
overwrites the row of that id, so `CommitBootstrap` gives all of `StarterIds` to the new
player. `EditUnit` stands for all that served requests do to units. The columns of a card
are left out here (`DomainState` has them).

**`ResourceArchive`.** `file[o]` is absent, good or damaged; `part` and `copy` are the
private temporary files of request threads and of archiver workers. `Look`, `MakePart`,
`Download`, `FetchFails`/`FetchRaises`, `Install`, `LookAgain` are `fetch_verified_missing_object`
and its call; `Announce` (stat, range, headers), `Send` or `Vanished`, `Close` are the rest of
`_serve_resource`. `VerifyOne`, `Unlink`,
`MakeCopy`, `ReceiveCopy`, `AttemptFails`, `WorkerRaises`, `InstallCopy` are `download_one`.
What the CDN sends is chosen freely. MD5 is taken as exact.

**`RootedStack`.** `phase`, `check`, `polls`, `children`, `left` are the program counter, loop
counters and list of `main` and `terminate_children`; `proc` the operating system's view
of this run's processes; `port` who listens: nobody, this run's child, or an orphan of an
earlier run. `Interrupt(TRUE)` is Ctrl+C in the terminal, which reaches the children too.
A port that is bound refuses a second process, as on POSIX systems; on Windows the
address reuse that `HTTPServer` asks for may let two processes share a port, and then
orphans would not be found out. `ending`
and `orphaned` are history variables, read by no action's guard.

**`Gateway`.** A scenario fixes what each connection sends (`req`), which one is sent only when
another has ended (`after`) and what may fail (`fails`). `acceptor` is the connection in its
handshake: `serve_forever` accepts from the TLS socket, so `Handshake` runs there. `pc` is the mux's
handler thread (`MuxRead`, `MuxRefuse`, `Forward`, `NoBackend`, `MuxStatus`, `MuxCopy`,
`MuxTimeout`, `MuxLosesBackend`, `MuxLosesBody`, `MuxLosesBodyTwice`), `back` the backend's:
`Dispatch` decides all that `do_POST` decides before it reads, `ReadBody`, `Reject`, `CommitThenReject`, `Commit`, `Raise`, `Answer`, then `Stamp` (the time of the event),
`Record` (the append, under the lock), `SendHeaders` and the body. What reads a database may be refused or
fail there: commands, and `/load/index`, whose mapping is projected anew for each reply (`UsesDatabase`).
Both backends read the host's clock (`now`), which may show the same time to several events; that it
never steps back between two events is an assumption, which `time.time()` does not guarantee. `lines` and `whole` are what the client
has received, `done` how often its command has committed. `Leave`, `BackendDies` and `LogBreaks` may
happen at any step. `Report` is what the event analysis makes of the two logs.

**`Evidence`.** `version` is the input in use, `db`, `overlays`, `catalog` and `templates` the files, each
with the version of what it was made from. `CopyDb`, `MakeTables`, `CommitDb` are the three
writes of the database build (`FailDb`, `KillDb` end it in between), `BuildOverlays` and
`ExportCatalog` the next stages. A launcher does `Compile` in memory, `Truncate` and `Write` of
the compiled file, then its server `LoadIndexFile` and `Serve` or `Refuse`; `held` is what it
holds. The compiled file is "torn" between `Truncate` and `Write`. Two launchers that both have it
open write from their own offset 0, so `Write` may leave the launcher's document or a mixture of
both (torn and `mixed`), which no reader accepts. A mixture that happens to be a document of its own
is left out; `DispatchIsUnambiguous` would not notice it, since the check at the start of a server
is made on whatever document it has read (`AcceptedStoreDispatches`, for any).

### How the static analyses are modelled

A client function is a short sequence of instructions over a few registers; a scan is a
fold over it, with exactly the registers it tracks, kills and forgets. The reference is an
interpreter of the same instructions (or the set of all paths of a graph), and the checks
compare both for *every* function up to three or four instructions. Where the code's rule
is an approximation, one assumption says for which functions it is exact and another
exhibits a function for which it is not; the second kind is listed in section 4. The
disassembler, the symbol tables and the text of the dump are taken for what they give.

---

## 3. Runs

Each run checks deadlock except those of `Provisioning` and `RootedStack`, where the
bounded number of starts lets the system come to rest.

| Run | Instance | Question |
|---|---|---|
| `identity_store` | 2 connections, 2 scopes, 3 ids, 1 crash, files of versions 0 to 3 | Do bindings stay one-to-one, dense and durable, does the schema match its version, is the abstract allocator implemented, is the schema completed in the end? |
| `identity_open_race` | 2 connections on a fresh file | *Violated:* can two first openers collide? |
| `cards_disjoint` | 2 threads, 3 cards, every shape of request, 1 crash, all initial rows | Is every request atomic when threads work on different cards? Does a toggle's reply tell what it did? Does every request end? |
| `cards_lost_toggle` | 2 threads, 1 card | *Violated:* is a committed toggle ever lost? |
| `units_one_editor` | 1 editor with every shape of edit, 1 loader, 1 crash | Does an answered edit hold in both databases, a refused one in none? |
| `units_batches` | 2 editors on the same units | *Violated:* is an edit of several units replaced as a whole? |
| `provision` | 2 players, 2 revisions, 2 cards (1 of them a starter card), 2 units, 4 starts, files of versions 0 to 3 with any content | Is what serves complete, do migration and restart keep what is there, is an interrupted start repaired? |
| `provision_theft` | 2 players, 2 starts on an empty file | *Violated:* do a unit's cards belong to its owner? |
| `resource_archive` | 1 object, 2 threads, archiver with 1 retry, 1 kill, 3 ranges | Is a good object ever lost, are answers exact, reports true, does everything end? |
| `rooted_stack` | 2 polls, 1 restart, 2 interrupts, 1 kill, 1 child crash | Is nothing left behind, is readiness earned, does a dead child end the stack? |
| `gateway` | up to 3 connections in 14 scenarios, see below | Can answers and refusals be relied on, whatever fails around them? Is everyone dealt with? Are the logs' conclusions true? |
| `evidence` | 2 launchers, 3 analysis inputs, 3 sets of options | Are templates served only where they are unambiguous and harmless, whatever mix of files is on disk? |

### What the properties say

* `SchemaMatchesVersion`, `Consecutive`, `NoConstraintFailure`, `IssuedNumbersResolve`,
  `ImplementsAllocator`: the identity store, as in its inventory entry. `EventuallyMigrated`:
  an opener that loses the race fails, but the schema is completed in the end.
* `ImplementsAtomicCards` (a refinement): each request on cards that no concurrent request
  touches is one atomic step at its commit, or nothing. `ReplyTellsOwnToggle`: the snapshot
  taken after the commit is still the result of this toggle.
* `AnsweredEditHolds`: what was answered is in both databases, also when an earlier attempt
  died between the commits and the retry finds nothing to change in the first.
  `RefusedEditsLeaveNoTrace`: all checks come before the first write.
* `ServesCompleteProfile`, `RestartKeepsProfile`, `ProvisioningSucceeds`: the start of the
  domain server over the life of a file. `ProvisioningSucceeds` speaks of files used for
  one player; finding 4 shows why it must.
* `GoodStaysGood`, `ServedObjectsAreExact`, `ReportIsTrue`. The archiver unlinks a damaged
  object between its check and its own download. This is safe because nobody downloads
  an object that is there: a request thread fetches only what it found missing, so a
  thread can fetch only after the unlink. An object that was damaged from the start is
  excluded from exactness: the server serves files as they are and does not hash them,
  by design.
* `NoChildLeftBehind`, `ReadyMeansUp`, `ExitTearsDown`, `OrphansAreFoundOut`, `StartsEnd`. The
  health check accepts any 200 from the port, so after a killed supervisor the orphans
  can make the new stack "ready" before its own children have come up. `ReadyMeansUp`
  states this exception, and `OrphansAreFoundOut` that such a stack does not last: the
  children find their ports taken, exit, and the monitor takes everything down.
* `SuccessIsDoneAndRecorded`, `RefusalsLeaveNoTrace`: the command commits, then its event is
  recorded, then it is answered, so 200 means both; every refusal is decided before the
  commit, or after a roll-back. Only 502, or no answer, leaves the client in doubt, and
  it does: the mux's timeout answers 502 for a command that commits later.
* `OneAnswer`: whoever loses the backend after the status line closes the connection, and
  does not append a 502 to what has been sent.
* `AnalysisIsTrue`: the stamp of an event is taken before the lock of its log, and the two
  planes write two logs, so lines are out of order; the merge by time repairs it, and leaves
  events of one time in the order of their logs and lines. What the report says holds at any moment, not only when all threads have come to rest, and its
  phase is "semantic contract blocker" exactly for logs that hold such an answer.
* `DispatchIsUnambiguous` holds even for torn, stale or foreign files, because the server
  checks again when it loads. `EmptyIsHarmless` needs a catalog that was made of one confirmed
  input, because nothing in a catalog lets a reader see that it was not; the database that
  it is compiled and served with may be any.
* `RequestsEnd` (four modules), `ArchiverEnds`: everything ends, by reply, refusal, timeout
  or dropped connection.

### Bounds, and why they suffice

*Two threads* of each kind: every hazard listed is a race of two. A third adds waiting
for the same lock, which the timeouts already cover. *Three ids, two scopes*: the third
allocation shows a gap or a reuse, and a maximum taken over the whole table instead of
the player's rows shows with the second scope. *Two cards* in a batch: one saved, one
not. *One crash or kill*: the state after a crash has no process state, so a second
crash repeats the first on another reachable file; files of every schema version are
initial states as well. *Four starts* of the domain server: interrupted, repaired, second
player, first player again. *Three bytes* and a truncated copy of two: prefix, suffix
beyond the file, and first byte past the end are all different; `ParseIsExact` proves the
arithmetic for every size. *One object*: archive files are independent, and the proofs
hold for any number. *Two interrupts*: one in the body and one in the clean-up. *Two
polls*: an answer at once, an answer at the second, none. *One restart*: the orphans of
the first run are all that a second one can meet.

*Scenarios of the gateway*: each of twelve shapes of request (a command that fits, of
another user, without or with a wrong, too large or cut body, chunked, to a foreign host,
to a bootstrap, a templated and an unknown route, and one that stalls) beside a client that
stalls in its handshake, with every failure allowed; a version check beside a download,
followed by a route without a template, with a log that breaks; an old version check,
the final one, then a download, with the timeout. Connections share only the acceptor,
the backends and the logs, and two or three are enough for each order of these.

*Three analysis inputs*: ids are reassigned between the first and the second, and the third cannot
be built. In the second every route but one has its own single reason not to be answered with `{}`:
a mutation, a base parser, two endpoints, a required field. The remaining one is served an
invented `{}` from a confirmed catalog, so `EmptyIsHarmless` is not vacuous. *Two launchers*: one writes
while the other serves.

`MaxNumber`, `MaxCrashes`, `MaxStarts`, `MaxKills`, `MaxInterrupts`, `Retries`, `Polls`, and the sets
`Scenarios`, `Versions` and `Options` are the names of the bounds; each is in a guard. `Retries` and `Polls`
exist in the code too (`--retries`, and the health timeout divided by the poll interval).
The analysed functions of the static checks have three or four instructions over two or
three registers: enough to define, move, overwrite and use a value, with one call or
branch between any two of these.

### Fairness, and why the code justifies it

Threads are the operating system's, and what a thread waits for inside the system has a limit:
SQLite gives up after its busy timeout, urllib after its socket timeout, `Popen.wait` is called
with a deadline and followed by `kill`. Waiting for a *client* has none: neither the handshake, nor a
body that is being read, nor the copy loop of a download has a timeout. There the fairness
assumes that a client goes on or leaves. All fairness is weak but for one action.

* `IdentityStore`: `Open`, `Proceed` and `Close` per connection. `Open` is included because
  `EventuallyMigrated` is a claim about clients that keep sending requests.
* `CardCommands`, `UnitEdit`: a thread that serves a request proceeds (reading, writing, or
  the error of a lock that is not available). No request has to arrive.
* `ResourceArchive`: each request thread and each archiver worker runs; an unanswered
  download counts as failed by its timeout, and a client reads what it is sent, or leaves (the
  copy loop waits for it without a limit). Kills and requests are not fair.
* `RootedStack`: the supervisor runs, and a process that was started binds its port or exits.
  A child that was told to stop need not stop (`Die` is not fair): that is why
  `terminate_children` kills.
* `Gateway`: the threads of mux and backend run. `Accept` is strongly fair, because it is
  disabled while another handshake runs and the kernel's queue of connections is served
  in turn. A client that has stopped in its handshake, or inside its body, leaves in the end:
  the code has no timeout for either, so `RequestsEnd` of all others rests on this
  assumption, and without it TLC finds the acceptor blocked for good.
* `Provisioning` and `Evidence` have no liveness property: nobody has to start anything.

---

## 4. Findings

### Found by runs

Each is a run that TLC refutes, stating what a docstring or an error message says.

1. **Two first requests collide** (`OpenersNeverCollide`). `_migrate` reads `user_version`
   before its transaction (`identity_store.py:81`); of two connections that read 0 the
   second runs `CREATE TABLE` on a table that exists and its request dies. The next
   request succeeds.
2. **A toggle is lost** (`NoLostToggle`). `toggle_card_protection` reads before its
   transaction (`services.py:322`), so two concurrent toggles of a card write the same
   row; both are answered with 200. A favorite edit in between loses a protection flag
   the same way, since whole rows are saved.
3. **A batch edit of units is not atomic** (`EditsStayWhole`). `replace_members` decides
   which units have changed before its transaction and writes only those
   (`unit_services.py:97`); two edits of the same units leave one unit of each.
4. **A second player takes the first one's cards** (`NoForeignCardInUnit`). Ids restart at
   `card:1` in every process and `save_card` overwrites (`services.py:188`); the first
   player's unit then refers to cards of the second, which `save_unit` itself refuses,
   and the first player can no longer be provisioned.

### Shown by assumptions

The pure modules are functions, so a disagreement is an `ASSUME` that exhibits the input.

**Server and resources**

* `minimal_profile.py:234-236` gives profiles a `unit_slot` that the projection of
  `adapters/load_index.py` does not have (`ProjectionLacksTheActiveSlot`).
* `fetch-resource-bootstrap.py` keeps the master database under one name for all versions
  and reuses it without a hash, so the report of a "verified" bootstrap may name another
  version's master (`ReusedMasterIsUnverified`, lines 278-297).
* A "complete" manifest resolution is complete for the representative routes the script
  tries (`CompleteIsForItsRoutes`). A "ready" preflight is not an intact archive
  (`ReadyIsNotIntact`), as its documentation says.

**Databases**

* `build-server-facing-contract-db.py` repeats the rows of a field whose parser is shared
  (`FieldsAreRepeated`).
* `build-client-semantic-db.py` commits (line 365) before it validates (383-398), so a
  refused build leaves a database that every reader accepts (`CommitDb`).

**Control flow of parsers**

* A path that runs off the decoded prefix of a function passes unnoticed (`FallsOffThePrefix`).
* The dead-value analysis calls values dead that are used, where the use is none of its
  sinks (`UsesThatAreNoSinks`); the empty-object analysis counts guards that do not decide,
  and cuts long parsers at 64 calls (`GuardsThatDoNotDecide`, `LongParsersAreCut`).

**Registers and fields**

* Scans take another object for `this`, the payload or the element: after a call or a load
  (`ReturnedObjectsPassForThis`), after an addition (`SumsPassForTheObject`), from the second
  register of a pair (`PairsKeepTheOldObject`, `PairsAreMisread`), from a base that has been
  overwritten (`WrittenBasesStillLoad`), when read back (`ReadBackIsAnotherObject`).
* Facts survive what should end them: calls through a register (`RegisterCallsKeepEverything`),
  calls (`CallsKeepTheirScratch`, `AddressesSurviveCalls`), branch targets
  (`TargetsAreNotForgotten`).
* `cbz` and `tbz` are not taken for branches of a guard (`GuardsByCbzAreMissed`), a type
  conversion may be that of another field (`ConversionsMayBeAnothers`), copies and
  headers are lost (`CopiesAreLost`, `TruncationDropsHeaders`).
* A field of a constructor that contradicts its anchors falls back to all layouts and is
  still called "exact" (`ContradictedConstructorIsExact`,
  `analyze-request-field-writes.py:329,338-347`). The fallback that a comment restricts to a
  unique short owner (`analyze-task-api-keys.py:353-354`) does not test it
  (`PatternsNeedEveryAnchor`).

**Types and call edges**

* Types are found by short names: a global type shadows one of the namespace
  (`GlobalTypesShadowTheNamespace`), namespaces do not tell types apart
  (`NamespacesDoNotDisambiguate`, `NamespacesAreForgotten`), a base in an outer namespace is
  missed (`OuterBasesAreMissed`), names match any division into words
  (`WordsMatchAnyDivision`), and prefixes are no words (`PrefixesAreNotWords`).
* The effective parser of a task is looked for in the task alone, so the override of an
  intermediate class is missed (`IntermediateOverridesAreMissed`); one caller of a base
  parser, or a tail jump to it, hides all its heirs, and what is hidden is in no list of
  residuals (`OneCallerHidesTheHeirs`, `build-effective-parser-overlays.py:174-186`).
* A site in a method without a symbol is attributed to the method before it
  (`AttributedToTheMethodBefore`), a loop back to the first instruction counts as a tail call
  (`LoopsAreConsumers`), the manager category of state hardly ever applies
  (`ManagersAreWorkState`), an empty type on one line swallows the next type
  (`EmptyTypesSwallowTheNext`).

These are limits of heuristics. None of them reaches a server by itself: the launcher
takes only routes that pass the eligibility rules of `Contracts`, and those use the
results named above as evidence of what is *not* there, which is where a missed override
or a missed guard would count.

---

## 5. Proofs

For every value of the constants that satisfies the `ASSUME`s of the modules (bounds are
naturals, sets of threads are finite where they are counted, "none" is no element).

**`IdentityStoreProofs`.** `IInv` says, beyond the properties themselves, that a connection
is inside a transaction exactly when it holds the lock, that no two rows of a scope share
an id or a number, and that what a writer has selected (no row has this id; the next
number is the maximum plus one) stays true until it commits (`SelectionStays`). The last
part is why it is inductive: only the holder of the lock changes `bindings`. It gives
`TypeOK`, `SchemaMatchesVersion`, `NoConstraintFailure`, `Consecutive` and
`IssuedNumbersResolve`, and `Implementation`: every step is an `Ensure` of
`IdentityAllocator` or a stutter. `CollisionsNeedTwoFirstOpeners` is the other side of finding 1:
with one connection, or on a file that has been migrated, no opener meets an existing table
(`UpToDate`: a migration finds the version that its connection has read).

**`CardCommandsProofs`.** Type correctness without further assumption. Under `Disjoint` (no
two threads are given resolvable requests about the same card, the condition without
which finding 2 applies) `IInv` says that what a thread has read stays true until it
commits, that `todo` and `saved` together are the rows it wants to change, and that after
the commit the stored rows are the ones it computed. `RepliesTellOwnToggle` and
`Implementation` (the commit, or the read that shows that nothing has to be written, is
`Apply` of `AtomicCards`; everything else stutters or ends a request) follow, and
`SeparateTogglesCount`, the other side of finding 2.

**`UnitEditProofs`.** Types, locks and `RefusedEditsLeaveNoTrace` without further assumption:
`Validated` says what a thread has behind it at each step, and hence that what it is about
to write, in either database, is part of a request that was found good. Under `Apart` (edits
of different editors that are good share no unit and agree on the main unit, which any set
of requests of a single editor does) `OwnUnits` adds that what an editor has read of its units
is still stored when it decides which to save, that a unit it leaves out already has the team
asked for, and that the costumes follow. `AnsweredEditHolds` is the last of these states; it
covers the retry after a crash between the commits. `CommitsAreWhole` and `SeparateEditsStayWhole`
are the other side of finding 3.

**`ProvisioningProofs`.** `IInv`: after every commit the rows belong together and a file with a
profile holds a card (`RowsOK`, which a file of any earlier version satisfies too), and what each
step of a start has found or made stays so until the next (`StartedSoFar`: only the running
process writes). From it `ServesCompleteProfile`, `ProvisioningSucceeds` and the action property
`RestartKeepsProfile`, for any number of players, revisions, cards, units and starts and any
content of the file; and `OnePlayerKeepsCards`, the other side of finding 4: with one player no
unit holds a foreign card.

**`GatewayProofs`.** For any set of scenarios, under the assumption that the path of a request
starts with a slash and the labels of the resource plane's events do not. `MuxSide` and `BackSide` relate the two
threads of a request: how far the backend has come tells whether its answer is decided, whether
the command has committed (once, if the answer is 200) and whether the event is in the log;
how far the mux has come tells what the client has received, and `lines` holds at most the
backend's answer or one of the mux's own. This is what makes them inductive together: a
timeout moves the mux alone, and the backend goes on. `SuccessIsDoneAndRecorded`,
`RefusalsLeaveNoTrace` and `OneAnswer` follow. For `AnalysisIsTrue` the clock is related to the
stamps (`ClockRuns`: it never steps back; `InTurn`: a request that waits for
the end of another has no earlier event, and a later line where they share a log), and the merge is shown to be sorted for any
streams: the place of a line is one more than the number of lines before it, places are
distinct because "before" is a total order (`OneIsBefore`, `MergePlaces`), and a stream put
at its places is in the order of the times, and of logs and lines where these are equal
(`MergeIsOrdered`, `Precedes`). `Conclusions` reads each
conclusion off the events, and `MergedEvents` says that the events are those of the recorded
requests.

**`EvidenceProofs`.** For any sequence of inputs whose tables are lists, any options with at
most one report and one explicit file (what the command line takes) and any number of launchers. The
first part is about what the stages do to lists: the programs sort before they write, and
all that matters of a sorted list is that it holds what was put in. `AcceptedStoreDispatches`:
what the start of a server lets pass is unambiguous in the index it has loaded. `EligibleRowsAreHarmless`
goes the other way, from a row of the catalog that may be answered with `{}` back to
the input: every mutation of the input is linked to its endpoint (`LinkedEndpointsMutate`), the
overlays cover every parser source of it (`SourcesCover`, `OverlaysCover`), and an entry that is
invented comes from such a row (`InventedComesFromCatalog`). `IInv` keeps for each file, and for what a launcher holds, which function of which
inputs it is (`FilesMade`, `TemplatesMade`): this is needed for `EmptyIsHarmless`, where a route's
evidence has to be traced from the template through catalog and overlays to the input, and
holds however the files on disk are replaced meanwhile. `DispatchIsUnambiguous` needs none of
it: it is in `IInv` only because a server keeps what it has checked.

**`ResourceArchiveProofs`.** `ParseIsExact`: for every range and size, the bytes of the slice are
those the range asks for, and a range is refused exactly when it asks for none. `IInv`: a damaged object is one that nobody has found missing
(`NobodyFetchesDamaged`), the object a worker is about to unlink is damaged, what it has
passed is not, and damage is as old as the file. Hence no install can race with the
unlink. From it `GoodObjectsStay`, `ReportsStayTrue`, `ServedExactly` and, with
`ParseIsExact`, `RefusedExactly`, for any number of objects, threads, kills and retries.

**`RootedStackProofs`.** `IInv`: what runs is on the list or is the process `Popen` has just
returned (`Listed`); what a loop of `terminate_children` has seen is dead (`Stopped`); a
check is passed by a child that has come up or by an orphan (`ChecksPassed`). From it
`NobodyLeftBehind` and `ReadinessIsEarned`.

Together, every invariant and every action property that a passing run checks is a theorem, and each
of the four refuted properties is a theorem under the condition that its counterexample
breaks.

**Only model-checked**: all liveness properties (`RequestsEnd` of four modules, `ArchiverEnds`,
`StartsEnd`, `ExitTearsDown`, `OrphansAreFoundOut`, `EventuallyMigrated`), since fairness needs
`ENABLED`, which is out of the prover's reach; and what the assumptions say of the pure modules, over
bounded inputs: many of them fold over sequences, and induction over data is out of the
prover's reach too.
No run covers two unit editors of *separate* units beside a loader, a crash and fairness, where
`save_unit` may find the write lock taken after its own SELECT: the state space is too large for
one run. The safety part is proved for any number (`UnitEditProofs`), the progress is checked with one.
`RefusedExactly` is proved and not run: `ServedObjectsAreExact` and `ParseIsExact` leave
nothing for a run to add.

---

## 6. Abstractions, and what is not modelled

* Encryption, JSON text, wording of replies and logs, layout of reports, progress output.
  A request is one of its shapes, a document a record.
* Column encodings and foreign keys of the domain database other than the ones the
  commands rely on; the in-memory repositories, which are used by tests.
* `load_plan` of the archiver and its report file; the projection that story start replies
  with; the debugging endpoints of the bootstrap server.
* The TLS protocol, the disassembler, and the text formats of `dump.cs` and `script.json`
  where a script only splits lines.
* Media failure and partial disk writes: SQLite's journal and `os.replace` are trusted.
* The client. What it does when a reply is lost, or whether it keeps the required version
  that result code 214 carries (`load_check.py:66`), is not in the repository.
* Two edits of the *same* unit commit in one order in the first database and may commit in
  the other in the second. `apply` documents that its composite write is no distributed
  transaction, so there is no promise to check; `AnsweredEditHolds` is stated for editors
  of separate units.
* `archive-resources.py` leaves a `.part` file behind after an error that is neither `OSError`
  nor `URLError`; `WorkerRaises` models the step, and nothing promises that there is no litter.
* The other analysis scripts: about fifty of the same kind as the ones modelled, most of
  them about one endpoint or one class; client patches, tools, CI.

---

## 7. Plan

Done: the models above; proofs of all invariants, action properties and refinements that
the runs check.

Next:

1. Lemmas about the pure modules that need no induction: `EventOK` accepts every event that
   `BuildEvent` makes (the two ends of an event log agree on what may be in it),
   `Verdict` is decided by the first check that fails, `CommonPrefix` is the longest one.
2. The invariants behind the liveness properties: while a request is in flight some step of it,
   or of whoever holds what it waits for, is possible. The fairness argument on top of them
   stays with TLC.
3. `ExitTearsDown` as a safety property of each step of `terminate_children`.
