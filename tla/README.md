# Verification of FusionRide

FusionRide is a reverse proxy that shows several Emby servers ("upstreams") to Emby clients as
one server. These TLA+ modules model its Go code, TLC checks them on small instances, and TLAPS
proves the most important properties for every size of instance.

Line numbers refer to files under `src/internal/` unless a path says otherwise. `PROJECT.json`
lists the runs, the mutants, the theorems, the hazards, and for every definition the lines it
models.

## 1. The system

| part | state | operations | what makes it correct |
| --- | --- | --- | --- |
| **id store** `idmap/store.go` | tables `id_mapping`, `id_instances`; cache, reverse map, instance lists; `s.mu` | GetOrCreate, Resolve, AddInstance, GetInstances, CleanupServer, loadCache | an id given to a client is stable, survives a crash, and means one item |
| **upstream manager** `upstream/manager.go` | settings, session, status, and their row; the ordered list of upstreams | Add, Update, Remove, Reorder, Reconnect, RefreshSession, health checks, loadFromDB | memory and row agree; an upstream that works is in service; a session belongs to the settings |
| **upstream authentication** `auth/upstream_auth.go` | none | AuthenticateUpstream, CheckUpstreamHealth | two outcomes for the manager |
| **aggregator** `aggregator/aggregator.go` | none of its own; writes the id store | AggregateItems, AggregateSearch, AggregateSingleItem | no answer that arrived is lost, each item appears once, with all its sources |
| **proxy** `proxy/handler.go`, `login_compat.go`, `playback_compat.go`, `json_ids.go`, `proxy_user.go` | login sessions, playback sessions | one handler per family of URLs, clean-up of sessions | a request goes to the upstream its id or session names |
| **image cache** `proxy/image_cache.go` | LRU list, map, size | Get, Put | the size is that of the entries and stays within the limit |
| **administrator account** `auth/admin.go` | table `admin`; the key that signs tokens | Setup, Login, VerifyToken, ChangePassword | one administrator; a password that was changed no longer works |
| **admin API, event stream** `admin/api.go` | SSE clients | settings, upstreams, status, traffic, logs | no request waits forever; a removed upstream leaves nothing behind |
| **configuration** `config/config.go` | settings in memory and in a file | Load, Save, UpdateFunc, Snapshot | the file is whole, and the newest saved settings |
| **traffic meter** `traffic/meter.go` | counters, table `traffic_stats` | Add, flush, TotalStats, RecentStats | bytes are counted once |
| **logger** `logger/logger.go` | buffer of entries, file | log, Recent, Clear, rotation | an entry is kept while it is among the newest |
| **database** `db/db.go` | SQLite file | Open, migrate | one connection; a statement is atomic and durable |
| **server, main** `server/server.go`, `cmd/fusionride` | - | Start, Shutdown | order of the start-up |
| **identity**, **web page** | - | tables of headers; HTML, CSS, JavaScript | not modelled: nothing to interleave |

**How the parts interact.** Every HTTP request is a goroutine. Proxy and aggregator read the list of
upstreams, call upstreams over the network and translate ids in both directions through the id
store. The admin API changes the manager's list and settings, and calls the id store when it
deletes an upstream. A ticker checks the health of every upstream; checks, updates, requests and the
start-up all start authentications, each a goroutine of its own. Everything shares one SQLite
connection: `db.go:34` limits the pool to one, so open rows and open transactions keep every other
statement of the process waiting.

**What is hard about it.** Locks are released around network calls and between a database statement
and the assignment in memory that belongs to it; errors of statements are mostly ignored; a restart
rebuilds memory from tables written by several statements; the one connection is a second lock that
is not visible as one. `PROJECT.json` lists each place as a hazard.

## 2. Modules

| module | models | kind |
| --- | --- | --- |
| `IdDirectory` | what the id store promises: an id is new when it is bound, a key has one id and keeps it until its server is forgotten | abstract specification |
| `IdDirectory_proofs` | what follows for whoever holds an id, from that promise alone | proofs |
| `IdMapStore` | `idmap/store.go`, statement by statement | specification |
| `IdMapStore_proofs` | theorems of `IdMapStore`, and that it implements `IdDirectory` | proofs |
| `Upstream` | one upstream of `upstream/manager.go`: update, authentication, health check, restart | specification |
| `UpstreamRaces` | `Upstream` with history variables: which goroutines met an update halfway | specification |
| `UpstreamRaces_proofs` | theorems of `Upstream` and `UpstreamRaces` | proofs |
| `Aggregate` | `aggregator/aggregator.go`: the fan-out of list and search requests, deduplication, ids; its ids are an `IdDirectory` | specification |
| `Aggregate_proofs` | theorems of `Aggregate`, lemmas on its operators on lists, what brings a request to its end | proofs |
| `Membership` | what the manager's list promises: an upstream may be missing for a while, a deleted one never returns | abstract specification |
| `Gateway` | `proxy/`: where a request goes and with which ids, sessions, deletion, restarts; extends `Membership` | specification |
| `Gateway_proofs` | theorems of `Gateway`: its ids are an `IdDirectory`, its list of upstreams a `Membership` | proofs |
| `Roster` | `upstream/manager.go`: list and table under Add, Remove, Reorder and restarts; implements `Membership` | specification |
| `StatusLocks` | the locks of an upstream and of the list, with the status page as a reader | specification |
| `EventHub` | the event stream of `admin/api.go` | specification |
| `ConfigStore`, `ConfigStore_proofs` | settings in memory and in the file | specification, proofs |
| `AdminAccount`, `AdminAccount_proofs` | `auth/admin.go` as the admin API and the start use it | specification, proofs |
| `Meter` | `traffic/meter.go` for one upstream | specification |
| `ImageCache` | `proxy/image_cache.go` | specification |
| `LogFiles` | `logger/logger.go` | specification |
| `Services_proofs` | theorems of `EventHub`, `Roster`, `LogFiles`, `ImageCache`, `StatusLocks` and `Meter`, and that `Roster` implements `Membership` | proofs |
| `MCIdMapStore`, `MCUpstream`, `MCUpstreamRaces`, `MCAggregate`, `MCGateway` | instances for TLC | model checking |
| `MCServices` | the eight small parts that share nothing, side by side: a behaviour is one of one part | model checking |

Two promises join the parts. `IdMapStore` implements `IdDirectory`, statement by statement
(`StoreImplementsDirectory`); `Aggregate` and `Gateway`, which keep the ids in a variable of their own, take no step
with them that an `IdDirectory` does not allow (`IdsImplementDirectory`, `GatewayIdsAreDirectory`), so what
`IdDirectory_proofs` derives from the promise holds of all three. In the same way `Roster` and `Gateway` change
the list of upstreams as a `Membership` does (`RosterImplementsMembership`, `GatewayIsMembership`). Health is seen by `Gateway` as "any
listed upstream may be the first one online", which `Upstream` refines.

### IdMapStore

Variables `mapping` and `instances` are the tables, `cache`, `rmap` and `memInst` are `s.cache`,
`s.rmap` and `Mapping.Instances`; `mu` is the goroutine that holds the write lock and `conn` the one
whose open rows hold the connection. Each goroutine has a program counter `pc` and the locals of the
call it is in (`key`, `vid`, `srv`, `got`). A section under `RLock` that talks to nobody is one
action, guarded by `mu = None`; a section under `Lock` that talks to the database is one action per
statement. Every `Exec` and `Query` has a failing twin (constant `DBMayFail`), with the error path of
the code. `Restart` is the end of the process at any point followed by `loadCache`;
`RestartLoadFails` is the same when the query of `loadCache` fails, which the code ignores
(267-271). A random virtual id is any id never drawn before.

Two details shape the model. `GetInstances` calls `Resolve` while its rows are open (185-197), so it
holds the connection while it waits for the lock. And it reads `m.Instances` after it has released
the read lock (175-180): `SeenLists` is what such a read may see, including an element of which
`AddInstance` has written one half.

History variables (`birth`, `known`, `issued`, `added`, `want`, `gone`) record what clients were
told. `Stats` only counts and is left out. The callers of `AddInstance` and `GetInstances` are the
aggregator and the proxy: they pass ids they have just received from the store, which is the guard
of `CallAddInstance` and `CallGetInstances`.

### Upstream

The settings that make `Update` drop the session (url, username, password, api key, spoof mode; 276-317)
are one number, `cfg`; a session is the number of the settings it was obtained with. `db...` is the
row. `Update` is four steps: the UPDATE statement, the assignments under `u.Mu`, the statement that
deletes the token, `go m.authenticate(u)`. `authenticate` copies the settings under the lock, calls
the server without it, then takes the lock again; `checkAllHealth` reads the status, calls, writes
the status, decides whether to authenticate, stores the status. `Crash` is a restart: `loadFromDB`,
then the first check and the authentication of `Server.Start` (`server.go:72-81`). The upstream
server is reachable or not; it accepts the versions in `Accepted`. History variable `overtaken`
records that an authentication failed between the two halves of a health check.

`UpstreamRaces` adds two history variables, which no action reads. `raced`: an authentication, a restart,
a second update or a failing statement met an update of the credentials halfway (`Meeting` lists how).
`crossed`: the fields that two overlapping updates both set, until the next restart.

Not in this module: other upstreams (they share nothing with this one but the list), user ids of
api-key sessions (`SetUserID`), playback mode and stream hosts, which no step here depends on.

### Aggregate

One request is a goroutine (`mpc`) that asks the upstreams that were online when it began (`snap`),
each through a goroutine of its own (`wpc`), collects their answers from a channel (`chan`), merges
the items with the same key (`buildDedupKey`) into one and gives each merged item its virtual id.
`expired` is the context of the request; on return it is cancelled, too (`Cancelled`). When the
context is done and a result is ready, `select` takes either branch, on both ends of the channel. A
request is about the library or about a virtual id that an earlier answer contained, so what one
request writes into the id store decides whom the next one asks. History variable `before` names the
requests that had been answered when this one began: `OpensEverywhere` is about those. Of a request
still under way nothing can be promised, since the client could learn its virtual id from another
answer, and the group it merges has not got all its instances yet.

The id store is the directory that `IdMapStore` implements, with instances: one virtual id per item
until its server is cleaned up, and a new one afterwards. An item is an id of its server; of its JSON
the model keeps the server, the key and whether the name is Chinese, which is all that dedup and
`selectPrimary` read. DELETE is two steps, `RemoveUpstream` and `Cleanup`; calls already started go
on, as they hold a pointer to the upstream.

Two simplifications lose nothing: the error a failed goroutine sends makes the receiver log and loop,
so it is not put into the channel; and hints are virtualized in the step that sends them, since nobody
sees them before. Left out: `AggregateSingleItem`, which no handler calls; answers that are not lists
(`parseItems` takes a bare array for one nameless item, so of the arrays of several upstreams only one
survives, and a single object for an empty list); the order of media sources, because the merged list
is dropped when `virtualizeItem` encodes `item.Raw`.

### Gateway

A handler is a chain of look-ups, each under a lock of its own, and anything may happen between two of
them. `Sources` gives for each kind of request where it takes its upstream from, in order: the id in
the path, an id in the query, the playback session, the login session, the first upstream online.
`LookHits` is a source that names a server, `Find` is `ByID`, `Strict` says after which source a server
that is gone refuses the request instead of trying the next one. `Send` translates the ids for the
upstream chosen, by a second look into the store, and calls it; `Answer` registers the ids of the
answer, makes the playback session of a PlaybackInfo and ends that of a Stopped report. Clean-up of
sessions, DELETE in its two halves, a Reorder with a page that misses an upstream, and a restart go on
meanwhile. A client may use any id it was ever shown (`Shown`), also one that was cleaned up since.
`BeginStream` is what a player asks for: path, query and session are of one play. `BeginLoose` is a stream whose path, query
ids (`q`, which may name the upstream, and `also`, another of the four parameters) and session nothing makes go together.
`sent` is the id in path or body, translated for the upstream chosen (`rewritePathForUpstream`, `devirtualizeRequestBody`);
`query` has the ids of a stream's query, which `handleStreamCompat` resolves one by one (150-157). A start lists the upstreams
whose rows it can read (`Started`); the others count as `hidden` until they are listed again.

What the code does and no property judges:

- A login while nothing is online makes a session of upstream 0; its user paths answer 503 as long as
  the token lives. So do those of a session whose upstream was deleted (619-657).
- The upstream user id in a session is asked for once; an update of the upstream leaves it.
- A request whose id is cleaned up, or merged, between the two look-ups sends the virtual id to the
  upstream as it is (`Sent`), where nobody knows it.
- The ids in the query of a stream are resolved without a look at their server (150-157), unlike those in path and body.
  When a request mixes servers, the upstream chosen gets an original id of another one. `CallsNameOwnItems` asks for the query
  of requests that name one server only (`OneServer`); without that condition TLC finds a stream with the path of one film and
  the `MediaSourceId` of its copy.
- A WebSocket goes to the first upstream online with its path as it came.
- In `resolveStreamTarget` the branch that looks for an instance on the fallback upstream (199-204)
  runs only when the id did not resolve, and then finds none: `NoTarget`.

### Roster

`rows` and `prio` are the table, `list` is `m.upstreams`, `page` what the admin page loaded some time
ago. Add is two steps (`InsertRow`, `AppendUpstream`): the statement, and the append under the lock. It
leaves the priority at 0, so an upstream added after a Reorder is last until the next start and may be
first from then on; the history variable `late` names these. `Ordered` is the loop of `Reorder` over the ids
of the page, a recursive function. `Reorder` keeps what the page lists: an
upstream the page did not know leaves the list until the next start. `Reload` is a start; in `ReloadFails` its query fails,
which leaves the list empty (425-428), or some rows cannot be read, which are left out (448-451).

### The small parts

`Meter`: a counter is found or made (two sections), then added to; `flush` holds the read lock from its
swaps to the last INSERT, so that `MakeCounter` waits (`flushing = 0`). `TotalStats` reads the table,
then the counters. `EndProcess` may come at any point: `Shutdown` does not wait for the last flush.

`EventHub`: `Broadcast` holds the read lock of the hub and offers its event to every page; `Join` and
`Part` wait for it. `owed` and `missed` record what a page should have seen and what it was too slow for.

`ConfigStore`: a PUT changes the memory, marshals under the read lock, and writes and renames without
one. A file is an inode: `os.WriteFile` truncates (`OpenTmp`) and then writes (`WriteTmp`), and two
saves may hold the same inode. The process may end between any two steps. `overlap` records that two
saves ran at a time or that one failed halfway; then an empty, older or mixed file may stay, which the
code does nothing to prevent.

`AdminAccount`: reading the row, hashing and writing it are steps of their own in `Setup`, `Login` and
`ChangePassword`, and every read and write may fail. Two setups that both saw no administrator, and two changes that both
verified the old password, both succeed: the last to write wins, and a token stays good until the next start. `NeedsSetup` takes a
row it cannot read for one that is not there (46-50), and `Setup` is an INSERT OR REPLACE, so one failing read is enough for two
things. A start puts the configured password back over the one chosen since (`Started`, `server.go:48`), and a set-up by anybody
replaces the account (`SetupAsked`), although `Setup` is said to be for the first time only (`auth/admin.go:45`, 52). Both are in the
model and in what the properties allow, each under its own history variable (`blind`, `unread`).

`ImageCache`: the LRU list, the map and the sum of sizes under one mutex. `LogFiles`: buffer, file and
`.1`. The write of an entry (125) and the calls of a rotation it leads to (212-218) are steps of their own (`phase`), each of which
may fail and between any two of which the process may end; New then appends to whatever file there is. A rotation that cannot create
the new file leaves the logger with a closed one, and entries go to the buffer only, until Clear or a restart. The history
variable `cut` counts ends in the middle of a rotation: each lets the file have one entry more than its limit. `StatusLocks`: an `RWMutex` admits no new reader while a writer
waits; the status page takes the lock of an upstream twice.

## 3. What TLC checks

Passing runs (no error, all states):

| run | instance | shows |
| --- | --- | --- |
| `idmap_store` | 2 goroutines, all 5 operations, 1 item on 2 servers, 2 ids, 1 restart, failing statements | `TypeOK` (also: nobody keeps or shares lock or connection), `StableIds`, `DurableIds`, `Coherent`, `InstancesCompleteUntilRestart`, `OnlyThisDeadlock` |
| `idmap_loadfail` | 2 goroutines, GetOrCreate, Resolve, CleanupServer, 2 ids, 1 restart whose load may fail, failing statements | `RoundTrip`, `ImplementsDirectory`, `CallsReturn` |
| `upstream_safety` | failing statements; 2 requests at a time and 1 restart, or 1 request, 2 authentications at a time, 1 outage and 1 restart | `TypeOK`, `ConfigDurable`, `NeverStuck`, `SessionIsCurrentUnlessRaced` |
| `upstream_life` | 2 requests, 1 authentication at a time, 1 outage, 1 restart, failing statements | `EventuallyServingUnlessOvertaken` |
| `aggregate_requests` | 2 requests on 2 upstreams, 1 of which may be removed; 5 items, two titles on both | `TypeOK`, `OpensEverywhere`, `RightUpstream`, `IdsAreDirectory` |
| `aggregate_fanout` | 1 request on 3 upstreams, 1 removed; one lists a title twice | `NoAnswerLost`, `EveryRequestEnds` |
| `gateway` | 2 upstreams with a copy of one film each; one request of any kind, loose streams included, or two of players; 1 token, 1 playback session, 1 deletion | `TypeOK`, `CallsNameOwnItems`, `RemovedIsNeverCalled`, `RefusedOnlyWhenGone`, `PlaybackStaysPut` |
| `services` | the eight parts below | one to three properties of each |

| part of `services` | instance | properties |
| --- | --- | --- |
| `Roster` | 3 upstreams, any sequence of operations | `OrderIsStored`, `RosterIsMembership` |
| `Meter` | 2 streams, 3 chunks | `MeterConserves`, `TotalsBounded` |
| `EventHub` | 2 pages with channels of 2, 2 broadcasters, 3 events in all | `EventsInOrder`, `BroadcastsEnd` |
| `ConfigStore` | 2 savers, 2 settings, 3 saves | `FileIsWhole`, `AnsweredIsSaved` |
| `AdminAccount` | 2 clients, 2 passwords, a start with and without a configured one, a restart, failing statements | `AccountIsHandedOver`, `ChosenStays` |
| `ImageCache` | 3 images of 1 to 3 units, room for 4 | `CacheAccounts`, `CacheKeepsRecent` |
| `LogFiles` | 7 entries, a buffer of 2, files of 3, failing operations, ends of the process at any step | `RecentIsNewest`, `NewestAreOnDisk` |
| `StatusLocks` | 2 status pages, 1 Online, 2 writers, 1 change of the list | `SomebodyGoesOn` |

`IdDirectory` bounds nothing and is not run by itself: it is the `PROPERTY` of `idmap_loadfail` and `aggregate_requests`.

Runs that find the code to differ from what a comment or test says:

| run | property | counterexample |
| --- | --- | --- |
| `idmap_restart` | `InstancesComplete` | after a restart the first `AddInstance` makes the cached list non-empty, and `GetInstances` no longer looks at the rows stored before |
| `idmap_deadlock` | `CallsReturn` | `GetInstances` holds the connection and waits for `s.mu`; `GetOrCreate` holds `s.mu` and waits for the connection |
| `upstream_stuck` | `EventuallyServing` | check reads "online"; update drops the session; the new authentication fails in a short outage; check writes "online"; later checks see no change and nobody authenticates again |
| `aggregate_priority` | `PriorityDecides` | the upstream with `priorityMetadata` answers first; `selectPrimary` looks for priority in `group[1:]` only and lets a Chinese name of the other upstream replace it |

`NoAnswerLost` says nothing of a request whose context expired before it was answered: the code may then
answer with what had arrived, as well as fail (`select`, 130-134). It counts an item as kept when an
item with its key on the same server is: two items of one server with the same key (two episodes
called "Episode 1" without provider ids) become one, which is what the key of `buildDedupKey` says.

`SomebodyGoesOn` exempts one order of steps, which the code does reach (`caught`): `handleStatus` and the list
of upstreams hold `u.Mu.RLock` and call `EffectivePlaybackMode`, which takes it again (`api.go:173`,
`manager.go:691`). When a writer (authentication, update, health check) asks for the lock in between, reader and writer wait for
each other for ever; the next `Online` then waits with the lock of the list, and the next change of the list
stops every request. Go's documentation of `RWMutex` forbids such a recursive read lock. The run shows that there is no other
way for these goroutines to hang. `OnlyThisDeadlock` says the same of the id store: calls in progress never all wait for each
other, except in the state of `idmap_deadlock`, a `GetInstances` that waits with its rows open (`RowsKeptOpen`). Neither uses
ENABLED: `MayRun` and `MayGoOn` name the lock or connection each section waits for. `FileIsWhole` and `AnsweredIsSaved` exempt saves that overlapped, `NewestAreOnDisk`
file operations that failed, `OrderIsStored` upstreams added since the last Reorder, `ChosenStays` a start that could not read the
row, `AccountIsHandedOver` that start and a set-up that could not, `CallsNameOwnItems` the query of streams that mix servers: each exemption
is a history variable or a state the code does reach. The end of the process is no exemption: `NewestAreOnDisk` holds at each step of
a rotation and after an end at any of them.

Four more disagreements are stated as properties of the modules and have no run of their own; adding
the name to the `INVARIANTS` of a configuration shows the counterexample:

- `NoTornInstance` (`IdMapStore`): the unlocked read of `m.Instances` (175-180) beside the write of 149.
- `CleanupComplete` (`IdMapStore`): the loop at 231-242 drops the mappings whose main instance is on the
  deleted server, and leaves that server in the instance lists of the others. (Nothing else is left: theorem `NothingIsLeft`.)
- `SessionIsCurrent` (`Upstream`), twice: an authentication that began before an update installs its
  session after it (501); and a restart between the UPDATE of the settings (266) and that of the token
  (326) brings the old token back beside the new settings.

**Bounds.** Two goroutines suffice for every race described above, since each is between two calls, and
the proofs below have no bound. Two servers give a mapping that a cleanup deletes and one that it
leaves; two ids give an id for each of them, a re-creation after a cleanup and a wasted draw. Two settings changes are
needed for a disabled upstream to be enabled again. `CHECK_DEADLOCK FALSE` is set for the runs of
`IdMapStore`: the deadlock of `idmap_deadlock` is real, and once the ids of the instance are used up
its goroutines stop; requests of `Aggregate` are made once, so it stops as well. Two requests and two
upstreams let each answer come first and one request merge while the other asks; three upstreams
give groups of four items and a middle one to fail.
In `gateway` two upstreams with copies of one film make every id ambiguous between them, one deletion leaves
one upstream to be wrong about, and the theorems below have no bound; two requests of every kind at a time are
too many states, so pairs are those of a player, which share a playback session. In `services` two goroutines race for
every pair of sections, a channel of 2 and a buffer of 2 are exceeded, a file of 3 is rotated twice by 7 entries, and a
cache of 4 has to evict two images for one of 3. `CHECK_DEADLOCK FALSE` is set there because the bounded counters end,
and because of the deadlock of `StatusLocks`. Ids and goroutines are symmetric in `idmap_store`; runs with temporal
properties use no symmetry.

**Fairness.** `IdMapStore`: strong fairness of each call in progress. A goroutine waiting for `s.mu` or for
the connection is enabled again and again while others come and go, and Go's mutex (starvation mode)
and `database/sql` (first come, first served) hand over in order, which is what strong fairness
says. New calls are not fair: nobody has to call. `Upstream`: weak fairness of a started update, of
authentications and checks (every network call has a timeout), of the ticker, of the start-up, and of
the end of an outage; requests, outages and restarts are finitely many and not fair. `Aggregate`: weak
fairness of the goroutines, of the deadline (`validateLocked`, `config.go:205-207`, sets 15 s where `timeouts.aggregate` is not positive), and of
the return of a call whose context is done; that an upstream answers is not assumed. `EventHub`: weak fairness of
the sends of a broadcast in progress, which never wait (`select` with `default`, `api.go:606-611`); pages need
not read. The other parts have safety properties only.

## 4. What TLAPS proves

`IdMapStore_proofs`, for every number of goroutines, items, servers, ids and restarts, from
`ConstantsAssumption` (sentinels are distinct from values, flags are Boolean):

| theorem | statement |
| --- | --- |
| `TypeCorrect` | `Spec => []TypeOK`; its part `HoldersOK` says the write lock and the connection are held exactly by the goroutine in the section they guard |
| `RoundTripAlways` | an id resolves to the item it was drawn for or to nothing, whatever fails |
| `StableIdsAlways`, `DurableIdsAlways`, `CoherentAlways` | if `loadCache` does not fail: `StableIds`, `DurableIds` and `Coherent` |
| `ListsAreComplete` | if `loadCache` does not fail: `InstancesCompleteUntilRestart` |
| `StoreImplementsDirectory` | `Spec => Directory!Spec`, with everything failing that may fail |
| `NoOtherDeadlock` | `OnlyThisDeadlock` |
| `NothingIsLeft` | after a clean-up no row, cached mapping or call in progress names the server, until a call names it again; whatever fails |
| `NextImportIsNew` | if `loadCache` does not fail: after a clean-up an item of the server gets a new id |

The argument. `TypeOK` is inductive because it contains `HoldersOK`: mutual exclusion is what lets one
goroutine's step leave the others' facts alone. `RoundTrip` speaks only of ids that have been handed
out; its inductive form `BirthInv` says the same of every table, cache and local that an id can
travel through. `Coherent` speaks only of states where the lock is free; its inductive form
`CoherenceInv` says what differs while it is held: the one row between INSERT and publication, and
the mappings a cleanup has deleted and not yet dropped. The refinement maps `bound` to the
reverse of the table and `drawn` to the ids drawn; each step that changes the table is `Bind` or
`Forget`, a draw that loses to an existing row only uses an id up, and everything else stutters.
`NoOtherDeadlock` follows from `HoldersOK`: if the lock is held by a goroutine that cannot go on, it waits for the
connection, whose holder is a `GetInstances`; if the lock is free, only the connection can be waited for.
`InstancesCompleteUntilRestart` speaks of a list that is returned; `ListInv` says of the process that has not
been restarted that the cached list of a cached id has a copy on every server that was added, and that a call which
went on to read the table found the id gone from the cache, or had no server to expect a copy on.
`NothingIsLeft` is what holds of `CleanupComplete`: the cached lists of other mappings are all that a clean-up forgets. `CleanInv` says how
far a clean-up has come at each statement, and that an `AddInstance` which stored a row behind it, without the lock, waits for the lock still; such a
server does not count as `gone`. Without the hypothesis of `NextImportIsNew` it is false: after a failed load `GetOrCreate`, when its INSERT fails too, may put an id into the
reverse map alone (73-84), which the loop over the cache (231-242) does not find.

The other theorems, each for every number of requests, sessions, upstreams, streams, pages, images, clients and savers:

| theorem | statement | from |
| --- | --- | --- |
| `UpstreamRaces_proofs`: `TypeCorrect`, `NeverComesToRest` | `TypeOK`, `NeverStuck` of `Upstream` | `UpstreamAssumption`: sentinels differ from values, there is a slot |
| `SettingsDurable`, `SessionCurrent` | `ConfigDurable`, `SessionIsCurrentUnlessRaced` | the same |
| `IdDirectory_proofs`: `IdsKeepApart` | two keys never have one id | nothing |
| `IdsStayUntilForgotten` | a key's id changes by a clean-up of its server only, and a new id was nobody's before | nothing |
| `AnIdMeansOneThing` | an id that once was a key's is never another's, also after clean-ups and restarts | nothing |
| `Aggregate_proofs`: `TypeCorrect`, `CallsGoRight`, `MergedOpens`, `NothingLost` | `TypeOK`, `RightUpstream`, `OpensEverywhere`, `NoAnswerLost` | `ConstantsAssumption`: a library lists items of its own server, what an item contains is there too |
| `IdsImplementDirectory` | `Spec => IdsAreDirectory` | the same |
| `TitlesListedOnce`, `LaterPriorityDecides` | a title is listed once, by one virtual id; which of its items stands for it | the same |
| `RequestsRunDown`, `RequestsWaitForTheirCalls` | a request takes finitely many steps; it waits for calls of its own only | the same |
| `Gateway_proofs`: `GatewayTypes`, `RemovedIsGone`, `IdsAreTheirOwn`, `RefusedIsGone`, `PlaybackStays` | `TypeOK`, `RemovedIsNeverCalled`, `CallsNameOwnItems`, `RefusedOnlyWhenGone`, `PlaybackStaysPut` | `GatewayAssumption`: items have a server, sentinels differ from values |
| `GatewayIdsAreDirectory`, `GatewayIsMembership` | `GatewaySpec => Directory!Spec`, `GatewaySpec => MembershipSpec` | the same |
| `DeletedNeverReturns` | of every `Membership`: an upstream whose DELETE was answered is never listed again | nothing |
| `Services_proofs`: `StreamIsInOrder` | `EventsInOrder` of `EventHub` | nothing |
| `OrderStaysStored`, `RosterImplementsMembership` | `OrderIsStored`; `RosterSpec => RosterIsMembership` | nothing |
| `RecentStaysNewest`, `NewestStayOnDisk` | `RecentIsNewest`, `NewestAreOnDisk` of `LogFiles` | `LogAssumption`: a file has room for an entry |
| `CacheAccountsAlways`, `CacheStaysRecent` | `CacheAccounts`, `CacheKeepsRecent` of `ImageCache` | `CacheAssumption`: an item that may be stored fits |
| `LocksGoOnTogether` | `SomebodyGoesOn` of `StatusLocks` | `LocksAssumption`: a goroutine has one role |
| `MeterConserved`, `MeterTotals` | `MeterConserves`, `TotalsBounded` of `Meter` | nothing |
| `AdminAccount_proofs`: `ChosenPasswordStays`, `AccountHandedOver` | `ChosenStays`, `AccountIsHandedOver` | `AccountAssumption` |
| `ConfigStore_proofs`: `ConfigFileIsWhole`, `AnsweredSettingIsSaved` | `FileIsWhole`, `AnsweredIsSaved` | `ConfigAssumption` |

*Upstream.* `SettingsDurable` needs to know what goes on between the UPDATE statement and the assignments:
`CredsAgree` and `EnableAgree` say that of a field no two updates crossed over, at most one update is there, and its
value is that of the row. `SessionCurrent` follows from `Unmet`: as long as no update of the credentials was met
halfway, every session and every authentication under way is of the present settings, no authentication runs while
such an update is between its statement and its assignments, and the row has an old token only until that update
deletes it. `NeverStuck` speaks of a quiet system only; `NoRest` says that in every state an enabled upstream without a
session, that the next check will find online as before, is owed an authentication: one runs, an update or the start will begin one, or
the check has just seen the status change.

*Aggregate.* `Safe` is the conjunction of what each theorem needs: a goroutine sends one result (`Calls`), so the
channel never fills and all of it has been read when the request merges (`Finished`, `Arrives`); each merged group
has a copy on every server that listed its key (`Reached`), because `AddInstances` runs before the answer is encoded, and the answer's ids resolve until
the server is cleaned up (`Answered`); instances have the key of their item (`SameTitle`), so a call about an id names
the same title on its own server (`CallsRight`). `Timely` says that an item has its first id
until its server is cleaned up and its second one afterwards; with it the new ids of a whole answer are one `Bind`. `Once` says of the items
merged so far that no two are of one title, and that each is the one `selectPrimary` prefers among what arrived.
`LaterPriorityDecides` is what remains of `PriorityDecides`: priority wins over
every answer of its title but the first, and a Chinese name is given up for priority only. It completes the counterexample of
`aggregate_priority`: the first answer is the only way to lose it.

`EveryRequestEnds` is liveness and stays with TLC. What the code contributes to it is proved: each step of a request goes to a later `Stage`, or
leaves it fewer calls, results, titles or groups to go, and nobody else's step adds to them (`RunsDown`); and a request that cannot go on
has its context open and a call of its own unanswered or unread. What is left to assume is the fairness of section 3.

*Gateway.* `GatewayInv` adds to the types that a deleted server never is in the list (`Membership`), that a request past
`Find` has a server that was listed after it began, hence none of those deleted before, and that an original id a
request carries with it is an item of the server it chose. `ReachInv` adds `Reach`: a server that is not listed is
deleted or hidden, and an id or session that a client was shown resolves unless its server is gone; and
`Followed`: what each request asked for, which sources it has passed and why, what it chose, and the reason it was
refused. `IdsAreTheirOwn` adds what becomes of the ids themselves (`OwnInv`): path and body are translated with the server
chosen, which is in `GatewayInv`. The query of a stream is not, so one has to know that the upstream was chosen by an id the
request names: `Chosen` says so of the sources that name a server, and `Firm` that a stream whose path did not resolve will not
be given a target by it later, since an id that was cleaned up is never bound again. The refinements map `bound` to the ids the store has, and the list to itself: an old page, a restart, a half-finished DELETE
are steps of `Membership`, whose theorem `DeletedNeverReturns` then holds of the manager and of the proxy.

*Services.* `HubInv`: what a page got or missed was offered to it before, so what comes next is new and last.
`RosterInv`: an upstream is listed once and has a row, one being added is not listed yet, a deleted one has no row; the
loop of `Reorder` gives a subsequence, and sorting by priority keeps the rest. `DiskInv`: while no file operation
has failed, the file has the newest entries, and `.1` is from before the last Clear or a full file of those just
before; between the calls of a rotation, what the phase says of file and `.1`: full, renamed, or about to be made anew; `cut` bounds
what ends in the middle of a rotation have added to the file. `CacheInv` is the two properties and the types; what it needs are facts about the sum of the sizes of a list
(appending, removing, moving to the front), which are proved by contradiction at a least position, from the well-foundedness of
the numbers. `LocksInv` says who may be at which step, and that no writer waits while a reader is between its locks, unless one was
`caught`; if nobody could go on, the lock every one waits for would be held by nobody.

*The rest.* `MeterInv` adds to
conservation what a reader between its two reads knows: what flushes took meanwhile (`moved`) accounts for the
difference between the sums, and cannot have been counted twice because the table is read first. `AccountInv` says that the
password is the one stored last, unless a start that could not read the row put back the configured one, and that a request about to
write has verified against a password of its own time, found none, or could not read the row. `CfgInv` says what a lone save has done at each of its steps: the memory is what it
wants, its inode is not the one of the file, and what it wrote is whole before it is renamed.

Only model-checked: the four liveness properties (`CallsReturn`, `EventuallyServingUnlessOvertaken`, `EveryRequestEnds`,
`BroadcastsEnd`), because the prover has no rule for fairness that the steps could use. Three of them have a safety half that is proved for
every size: `OnlyThisDeadlock`, `NeverStuck`, and `RequestsRunDown` with `RequestsWaitForTheirCalls`. Every other property of a passing
run is a theorem.

## 5. Assumptions and limits

- A restart is the end of the process, not of the machine: a committed statement is there afterwards.
- A statement is atomic and either happens or fails; SQLite itself is not modelled.
- Server ids are never used twice (AUTOINCREMENT), virtual ids never drawn twice (128 random bits).
- Two updates that overlap and set one field may leave row and memory different until the next restart
  (`crossed`); nothing in the code says otherwise.

Not modelled, because there is no order of steps in it to get wrong: HTTP, JSON and header details, the rewriting of
media URLs, the redirects a stream follows (`redirectFollowTransport`), the proxy user id (made once, before any request is
served), identity tables, statistics of a period, diagnostics, validation of settings, the web page.

## 6. Plan

Every safety property that a run checks is proved, and the modules that use the id store and the list of upstreams are joined to
those that implement them by refinement theorems. What is left, in order:

1. *User ids.* The upstream user id of a login session is asked for once (`handler.go:619`); modelling an `Update` that changes the account, in
   `Gateway`, would say which requests go out with an id of the former account. It is the one hazard of `PROJECT.json` without a property.
2. *Health in Gateway.* The first upstream online is any listed one; a `Membership` with the status of `Upstream` would say when a
   request is refused although an upstream is in service.
3. *Lemmas* on `Find` and `Sources` of `Gateway` as theorems of their own; now they are steps of `RefusedIsGone`.
