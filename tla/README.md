# Verification of the VPS dashboard

TLA+ models of the parts of this repository in which several processes, threads,
requests, timers and failures meet, in the backend and in the browser, TLC runs over
small instances of them, and TLAPS proofs of their main invariants for every
instance.

Paths are relative to `src/`. `PROJECT.json` holds the same facts for tools:
components, runs, the mutants that show each property can fail, the source lines
of every definition, findings, hazards and theorems.

Contents: [the system](#the-system) ·
[components and what makes each correct](#components-and-what-makes-each-correct) ·
[modules](#modules) · [AgentPipeline](#agentpipeline) ·
[PartitionRetention](#partitionretention) · [ServerStatus](#serverstatus) ·
[the web front end](#the-web-front-end) ·
[what the runs found](#what-the-runs-found) · [proofs](#proofs) ·
[only model-checked](#only-model-checked) · [not modelled](#not-modelled) ·
[hazards without a property](#hazards-without-a-property) · [plan](#plan)

## The system

A Flask API, MySQL 8, Redis 7, an agent on every monitored host, and a browser
front end.

| process | code | what it runs |
|---|---|---|
| api container | gunicorn, one worker, four threads (`Dockerfile`, `docker-compose.yml`) | the HTTP handlers, and one APScheduler |
| agent_consumer container | `backend/workers/agent_consumer.py` | a loop over a Redis list, and, because it calls `create_app`, one more APScheduler |
| host agent | `scripts/vps-agent.py` | a push every 20 s, a poll for commands |
| MySQL | `backend/init_db.sql`, `backend/models/` | all durable state |
| Redis | `backend/extensions.py` | queue, caches, cooldowns, counters, token blocklist |
| browser tab | `frontend-vite/` (`index.html`, `admin.html`) | pages without a framework: timers, promises, dynamic imports, one worker, WebGL scenes |

`backend/services/scheduler.py` has a guard against a second scheduler
(`APP_WORKER_ID`), but no compose file sets that variable for the consumer. So
**every job runs in two processes**, at the same time in the case of the cron
jobs. All modules with a scheduler have a set of them as a constant.

Transactions are MySQL's REPEATABLE READ under SQLAlchemy: the first query of a
transaction fixes what it sees, the commit writes the absolute values of the
columns that differ from what was loaded. Two transactions on one row therefore
overwrite each other's columns without noticing, and a write of an unchanged
value is not sent at all. All modules model exactly this: a load action, then
(other processes may act in between) a commit action.

In the browser nothing is preempted, but every `await` is a place where anything
else may happen: a newer request is sent and answered first, the page's visibility
or its scene changes, an import fails, a transferred buffer is away. The front end's
models are about these orders.

## Components and what makes each correct

| component | state | operations | talks to | hard because | correct if |
|---|---|---|---|---|---|
| agent metrics pipeline | Redis list and error list, `servers` row, `probe_results`, rollup bucket, fallback semaphore | push handler, consumer, fallback | agent → api → Redis → consumer → MySQL | lost replies, crashes, newest-first queue, lost updates | each sample is stored at most once and never vanishes unaccounted; traffic is exact when it can be; permits do not leak |
| partition maintenance, retention | partitions of two tables, rows | convert, create, drop, delete | two schedulers → MySQL | non-atomic DDL sequences in two processes, missed runs | no row goes early; every row goes in the end; each retained day has its partition |
| server status | `servers.status`, `agent_key_last_used`, `vps:probe_fail:{id}` | heartbeat, consumer, `tcp_ping`, `fetch_probes`, admin requests | eight writers | decisions on rows loaded before network I/O | a live agent's server is shown online and stays so; a dead one goes offline; a streak takes a server down, a single failure does not |
| traffic accounting | `traffic_*_gb`, snapshots | estimate every 30 s, monthly reset, corrections | two schedulers, pipeline, admin | lost updates, doubled jobs, missed day | the month starts at zero exactly once; an estimate is added once |
| alert rules and cooldown | Redis cooldown keys, `last_fired` | evaluate, gate, send | two schedulers → Telegram | check-then-set, failed sends | at most one alert per rule, server and window; a failed send is not silenced for the window |
| server list and cache | `servers`, `vps:servers:*` | CRUD, read-through cache | admin, viewers, jobs | invalidation racing a read-through | an edit is visible at the latest after the expiry |
| sessions, token revocation | Redis blocklist, revocation tables | login, refresh, logout, forced logout | browser, both databases | two stores, second boundaries | a token issued before a forced logout is not accepted after it; one issued after it is |
| login attempts | counters, lock keys | record, lock | browser → Redis | INCR and EXPIRE apart | a lock ends; counting starts anew after the window |
| agent commands | `agent_commands` | create, poll, acknowledge, expire | admin → agent | at-least-once delivery, window of 20 | each command is delivered until acknowledged or expired |
| server groups | `server_groups` | CRUD, get-or-create | admin | concurrent creation | one group per name |
| ping rollups and targets | `ping_target_rollups`, caches | record, compact, cache | pipeline, viewers | as the telemetry rollup | as the telemetry rollup |
| Telegram bot | update offset per process | poll, answer | two schedulers → Telegram | offset not shared | each update is answered once |
| detail page | `detailCache`, charts, PING samples in memory and storage, shared requests | render, live and heavy refresh, ranges, redraw, star map | browser → api, charts imported | answers of different ages and kinds, a request budget, hidden tabs | CPU and memory charts do not go back in time, the others only to the rows that arrived last; card, row and verdict are of one time; the page settles and goes on |
| home view and globe | scene, imports, showcase, list, beacons, pointers | click on the earth, return, list refresh, fan, drag | solar system ↔ Cesium globe ↔ starship, api | imports that end after the visitor has left again | one scene at a time, showing the page's list; a drag selects nothing; each server has one place |
| solar system, dust tail | timers, textures, transferred buffers, epochs | drag, pause, destroy; tick, answer, jump | frame loop ↔ worker, downloads | late answers after a jump, an error or a destroy | buffers are kept, nothing outdated is drawn, the scene moves again |
| overview page | list, filters, stored group, rates, calculator | refresh, group, currency, premium | browser → api, storage | rebuilt as a whole; the open calculator is not | every node once, every count true |
| admin console | table, list in Redis, `_busy`; sections and masks; rules; targets | create, edit, delete, reload, save, switch, run, clear | browser → api | operations patch a table that reloads replace; forms stay enabled; masked secrets | after an operation the console has what the server has, but for what the code ignores |
| settings, mail, geo, exchange, audit, logging, middleware, storage monitor, deployment | – | – | – | I/O, records | – |

The hazards of the modelled components, each with its source line and the
properties about it, are listed in `PROJECT.json`; those of the components that
have no module, and some observations, [below](#hazards-without-a-property).

## Modules

| module | models | extends |
|---|---|---|
| `AgentPipeline` | the agent metrics pipeline | – |
| `AgentPipelineProofs` | types, permits, the account, the rollup bucket, where every sample is | `AgentPipeline`, `TLAPS` |
| `PartitionRetention` | partitions and the life of a row | – |
| `PartitionRetentionProofs` | types, cleanup, no early loss, the layout kept, gaps filled | `PartitionRetention`, `TLAPS` |
| `ServerStatus` | all writers of a server's status | – |
| `ServerStatusProofs` | types, the ping job and the heartbeat, the streak of failures | `ServerStatus`, `TLAPS` |
| `DetailPage` | rendering, refreshing and redrawing the page of one server | – |
| `ChartScales` | which points its charts draw, on which axes | `OrderedSets` |
| `OrderedSets` | sorting, filtering and adding up in a form that proofs can use | – |
| `HealthVerdict` | the verdict at its head | – |
| `RequestCache` | the requests its parts share | – |
| `Starmap` | the star map beside it | `GlobeBeacons` |
| `HomeView` | the switch between the solar system and the globe, the ship, the list | instantiates `ViewSwitch` |
| `ViewSwitch` | abstract: what the home page promises of its two scenes | – |
| `SolarScene` | drags, textures, button and life of the solar system | – |
| `DustTail` | manager and worker of the comet's dust tail | – |
| `GlobeMotion` | pointers, momentum and rotation of the globe | – |
| `GlobeBeacons` | clusters, fan and picker | `OrderedSets` |
| `GlobeLayers` | imagery, clouds, visitor's beacon, labels | – |
| `OverviewPage` | the overview of all nodes and its calculator | `OrderedSets` |
| `AdminConsole` | boot, the nodes' table, its list in Redis | – |
| `AdminSettings` | settings and their secrets | – |
| `AlertRules` | the rules' panel | – |
| `PingTargets` | the editor of a node's targets | – |
| `Frontend` | all of them as parts of a tab, fairness, merged properties | all of them |
| `IntegerLemmas` | least elements, induction, `Max`, `Min`, quotients, ranking, sorting, filtering, sums | `OrderedSets`, `FiniteSetsExt`, `TLAPS` |
| `HomeViewProofs` | the refinement of `ViewSwitch`, the list on the globe, drags, the dust tail, textures and layers, beacons, the star map, the overview | `HomeView`, `GlobeMotion`, `DustTail`, `SolarScene`, `GlobeLayers`, `GlobeBeacons`, `Starmap`, `OverviewPage`, `IntegerLemmas` |
| `AdminConsoleProofs` | the nodes' table, secrets, rules and targets | `AdminConsole`, `AdminSettings`, `AlertRules`, `PingTargets`, `IntegerLemmas` |
| `DetailPageProofs` | what is shared, the page, its charts, its verdict | `DetailPage`, `ChartScales`, `RequestCache`, `HealthVerdict`, `IntegerLemmas` |
| `FrontendProofs` | what is proved of the parts, of the tab | `Frontend`, the three before |
| `MC...` | constants of the instances, symmetry | the module of that name |

Each module has the same layout: constants with a named `ASSUME`, variables with
the name of the column, key or object they stand for, one action per step of the
code, `Next`, `Spec`, `Fairness`, properties. Definitions marked `Mutant:` are
wrong variants of the definition that follows; no specification uses them. They
exist to show that the properties notice the bug they describe. A safety property
that is a conjunction of several modules' has such a variant in each of them.

Failures are not free: each kind that may happen is a member of the constant
`Faults`, and `MaxFaults` of them happen in a behaviour. Restart, outage,
timeout and lost reply are actions like all others.

## AgentPipeline

**Correspondence.** `request[t]` is the push that API thread `t` serves, with its
position in `agent_push` and the row its transaction loaded; `queue` is
`vps:agent:metrics_queue`, `errorQueue` the parking list, `permits` the value of
`_fallback_db_sem`; `consumer` is the loop of `agent_consumer.py`; `db[s]` is the
committed row of server `s` together with its rollup bucket; `probes[s]` are its
`probe_results` rows in commit order. A sample is `<<s, n>>`, the n-th reading of
the host's counter, and `reading[s][n]` what the counter showed.

One push: `AgentPush`, `Authenticate` (the load), then `Enqueue` and `Respond`;
or, when Redis fails, `EnqueueFails`, `AcquirePermit` or `LoadShed`, and
`FallbackCommit`, `FallbackFail` or `FallbackCommitUnknown`. One message: `Pop`,
`Load`, `Commit`, or `CommitFails`/`CommitUnknown` and `Park`/`ParkFails`.
`EnqueueTwice`, `EnqueueUnknown`, `PopLost`, `FallbackCommitUnknown` and
`CommitUnknown` are the operations that take effect although the reply is lost.
`RPUSH` and `BRPOP` work at the same end of the list, so `Pop` takes the newest
message; this is the code's behaviour.

`Ingest` is what one sample does to a row (`ingest_metrics` and
`record_telemetry_rollup`), `Overlay` what the commit of it writes.

**Abstractions.** One counter stands for bytes in and out. Gauges and inventory
columns, which every sample overwrites, are left out. All samples of a server
fall into one hour, so that there is one bucket. Samples carry a byte total (the
rate mode belongs to the traffic jobs). Authentication succeeds.

**Observation variables.** `shed`, `rejected`, `gone`, `ambiguous` and `stale`
are read by properties only; they record that a sample was given up by the code
on purpose, was lost with a process, or lost a reply, and that a commit
overwrote a concurrent one.

| run | question | bounds |
|---|---|---|
| `pipeline_safety` | `AtMostOnce`, `NothingVanishes`, `PermitsConserved`, `LedgerInv`, `RollupCounts`, `ExactInOrder`, `UsedMonotone`, types | 1 server, 2 threads, 3 pushes, 1 permit, all 8 kinds of failure, 3 of them; 12 sequences of readings over 0..2 |
| `pipeline_live` | `Settles` | 2 servers, 2 pushes each, 1 failure |
| `pipeline_exact_mode` | violated, finding | no failure |
| `pipeline_rollup_rejects` | violated, finding | healthy database |

*Why these bounds are enough.* A lost update needs two transactions and a third
sample to show the wrong snapshot; shedding needs a permit held by one thread
while another asks; three readings over 0..2 contain growth, an idle link, a
first total of 0 and a reboot, and `MixedTraces` has all of these. Servers share nothing but the list, the permits
and the consumer, which `pipeline_live` has two of.

**Fairness.** Each thread goes on with the request it serves, the consumer's
loop runs on (`while True`, every exception caught), Redis comes back. No agent
has to push, no failure has to happen.

## PartitionRetention

**Correspondence.** `now` counts half-days; `rows` are the `created_at` of rows in
`probe_results` (or `ping_target_results`, with `DeleteFallback = FALSE`);
`partitioned` and `parts` are the table's layout: the days that have a partition,
and `pmax`. `LivesIn(t, d)` is MySQL's rule for where a row is. `maintain[p]` and
`cleanup[p]` are the runs of the two nightly jobs in process `p`, one action per
statement: `CheckPartitioned`, `RecheckPartitioned`, `ConvertTable`, `Gate`,
`Plan`, `CreatePartition` (each turn of the loop), `EndMaintain`; `Choose`,
`ListExpired`, `DropPartition`, `EndDrops`, `DeleteBatch`, `EndDelete`. `Listing`
is `list_partitions`, called up to four times in a run; an error in it looks like
an empty list, as in the code. `MissJob` is a cron job whose minute passes while
the process is down, `Crash` a restart in the middle of a job.

**Abstractions.** A row is its `created_at`. One DDL statement is atomic (MySQL's
metadata lock). A batch of the DELETE fallback is one row. The rollup tables and
the foreign keys removed at conversion are left out.

| run | question | bounds |
|---|---|---|
| `retention_safety` | `NoEarlyLoss`, `CleanupInv`, types | 2 schedulers, 3 initial layouts, all kinds of failure, jobs that run past midnight |
| `retention_gaps` | `GapFilled` | 2 schedulers, 4 days, 3 missed or broken runs |
| `retention_expiry` | `Expires` | 1 scheduler, no DELETE, 6 days, 2 failures of any kind |
| `retention_race` | `LayoutKept`, violated, finding | no failure |

*Why these bounds are enough.* Retention of one or two days against four to six
days of time lets rows and partitions expire several times; the three layouts are
the ones a deployment has: unpartitioned, maintained until yesterday, and
`init_db.sql` with its placeholder partitions. `Expires` speaks of the rows of the
first day, for which the horizon leaves enough time.

**Fairness.** Time passes, cron triggers fire and a job that runs goes on.

## ServerStatus

**Correspondence.** `status` and `age` are the committed status and the age of the
committed `agent_key_last_used` of one server; `push` is the agent's request under
way, `queued` and `consumer` its messages on the way, `ping[p]` and `fetch[p]` the
runs of `_job_tcp_ping` and `_job_fetch_probes` in process `p`, `request` an
administrator's `ping/batch` or `fetch-probe`; `fails` is the Redis counter
`vps:probe_fail:{id}` with its time to live. `EditStatus` is `PUT /servers/{id}`
and `POST /servers/{id}/metrics`, `NewKey` a new agent key.

Each run is a load, a result and a commit. `Verdict` is the decision of the ping
job: the heartbeat *it loaded before its connection attempts* decides, by its age
*after them*. `FetchErrs`, `FetchErrsUncounted`, `FetchSucceeds` are the three
ways in which a fetch meets the failure counter. `WriteStatus` leaves the column
alone when the new value equals the loaded one, as the ORM does.

**Abstractions.** Time is counted in ticks; ages above `Fresh` (180 s) are one
value. `MayPass` bounds how long a push and a ping run last (`PushTicks`,
`PingTicks`); the agent's period is `PushEvery`. A server has one push and one
administrator's request under way at a time, and an edit is one step. The
instances have three of the status values, because no property tells "warn" from
"offline". Samples of the local host
and the `probe_results` rows these jobs add are left out.

| run | question | bounds |
|---|---|---|
| `status_streak` | `OnlyAfterStreak`, types | 2 schedulers, no agent, an exporter that fails or answers (even "offline"), limit 3, expiry 2, an error of Redis or the database, an edit or a `fetch-probe` |
| `status_converges` | `SteadyStaysOnline`, `SteadyInv`, `KeepsOnline`, `GoesOffline` | 1 scheduler, agent without `probe_url`, 2 failures or stops of the host, an edit, a `ping/batch` or a new key |
| `status_flap` | `KeepsOnline` with a `probe_url`, violated, finding | no failure |

*Why these bounds are enough.* A ping run of length 1 and `Fresh = 3` leave room
between a heartbeat that is steady (age at most `Fresh - PingTicks`), fresh and
old; three failures are the code's limit. `OnlyAfterStreak`, about a counter the
schedulers share, is checked with the two of them that are deployed. The other
properties are about a verdict that one run reaches from what it loaded itself;
for them the theorems below cover any number of schedulers, and all of these
constants.

`OnlyAfterStreak` counts the fetches of the job only, and is about the fetches that
fail: a host whose exporter answers "offline" is offline at once. A success whose `SETEX` or
`DEL` raises (`ClearFailures`; the code has one `try` around both) is not recorded
in Redis and does not end the streak; neither does a successful `fetch-probe`
request, which does not touch the counter.

**Fairness.** Time passes, a running agent pushes, the consumer loops, interval
jobs start again and end (no lock blocks them; their network operations have
timeouts), a request is served to its end. No host has to stop or return, no
administrator has to ask, no failure has to happen.

## The web front end

**Composition.** `Frontend` is one tab. `page` names the part that is followed. The
parts share no state in the code either, so that each is followed by itself from
every document that can be opened, and the others keep one initial state. This keeps
the state space the sum of the parts' instead of their product; what a part needs of
another one (the list the globe is given, the scene that runs) is in its own module.

All requests, imports, worker messages, timers, pointers and clicks are actions of
their own, and answers come in any order, late, or as failures. An answer was made by
the server at any time since its request was sent, or, where the server keeps answers,
some time before.

### The detail page

*`DetailPage`* (`pages/detailPage.js`, `modules/serverTable.js` 900-2700,
`detail/*.js`). `dPhase` is where `renderDetailPage` is; `dCache` is `detailCache`,
`dView` what is drawn; `dDraws`, `dRange`, `dRefresh` are the calls that wait. One
action per stretch between two awaits: `RenderStart`, `RenderAnswer` (within the
budget or after it), `ChartsLoaded`, `LiveAnswer`, `HeavyAnswer`, `RangeSettles` and
so on, with their failures. Samples are numbered and the number is their time. The
processor chart stands for those that are fed by the same rows.

*`ChartScales`* (`pages/detailCharts.js`). What is drawn of given rows: `RenderCharts` is
`renderDetailMonitorCharts`, with window, buckets, means, thinning and each chart's
axis; `AppendLiveSample` is `appendDetailLiveMetrics`. Means are rounded down, the square root
axis is compared by squares; these are the only changes to the numbers.

*`HealthVerdict`* (`detail/healthSnapshot.js`). `eUpdates` are the changes of the
server's row, `eSnapshot` the snapshot that is merged from answers, `Verdict` what the
page says. Percentages are what the thresholds make of them. The visitor's clock may
be behind or ahead.

*`RequestCache`* (`fetchJson` in `services/displayData.js`): one address, its entry,
its timers, and what each caller was handed.

*`Starmap`* (`GlobeStarmap.jsx`, `GlobeStarmapMount.jsx`): markers, arcs, loop and
listeners through mounts, themes, pinches and touches the browser takes away.

### The home page

*`HomeView`* (`serverTable.js` 400-860, `modules/dashboardTab.js`,
`StarshipShowcase.js`). `hCalls` are the calls of `showCesiumGlobe` that wait, each
with whether its token still holds; `hLoad` is where `getGlobe` is; `hMount` is
`starshipMountPromise`. Calls that wait for one promise continue together. It
implements *`ViewSwitch`*: `SwitchSpec`, with the view, the frame loop and the
existence of a showcase as the mapping.

*`SolarScene`* (`SolarSystem.js`), *`DustTail`* (`solar/DustTail*.js`), *`GlobeMotion`*
and *`GlobeLayers`* (`CesiumGlobe.js`, `globe/runtime/*`): timers, late textures,
transferred buffers, pointers and imagery. `DustTail` has the worker's side as well:
an answer is computed from what was transferred, and may fail in each way the worker
may. Its request number is left out (it tells answers apart only if two requests were
out, which `BuffersConserved` excludes). Velocities are small numbers that decrease.

*`GlobeBeacons`* (`globe/vps*.js`, `services/serverGroups.js`): the clusters by moving
centroids, on a line instead of the sphere, their sectors, the fan and the picker.

*`OverviewPage`* (`pages/overviewPage.js`, `utils/currency.js`): the page as a function
of list, currency, rates and the stored group, remade by every event, and the
calculator, which keeps what it was opened with. Amounts are whole numbers; a price of
-1 says that a node is free.

### The administration console

*`AdminConsole`* (`admin-main.js`, `admin/ServerManager.js`): boot, the table, and
one operation at a time (`_busy`), which the server (`api/servers.py`) performs, refuses,
performs in part or performs without its answer arriving. A reload is three steps: it is
asked, the list is taken from Redis or read from the database, and it is stored in Redis
if it was read; `aCache` is the list in Redis, `age` counts the changes a list has missed
since it was read. `_clear_cache` may fail without a word, `update_agent_config` does not
call it, and a bulk delete that breaks off does not come to it. Saving the billing is two
requests: the second one, of the configuration (`aBilling`), may fail, and the row is
patched all the same (`aUnsaved` remembers for which nodes). *`AdminSettings`*
(`admin/SettingsPanel.js`, `ThemeManagementPanel.js`, with `api/ops.py` and
`services/app_settings.py`): `tSection` is the section that is followed, since saving
one neither reads nor writes another one's fields. *`AlertRules`* (`admin/TelegramPanel.js`
with `api/telegram.py`) and *`PingTargets`* (`admin/PingTool.js` with `api/servers.py`)
have both sides, too: the panel, and what the handlers make of its requests.

### The run `frontend`

| property | about | one part of it says |
|---|---|---|
| `ChartNeverBackwards`, `PingHistoryKept` | detail page | a slower answer does not repaint an older point of the CPU and memory charts, and takes the process and network charts back to nothing but the rows that arrived last; PING samples survive reloads and answers without them |
| `PanelAgrees` | detail page | card and row tell the same sample (`CardAgreesWithRow`), the verdict is on the newest of all answers and never healthier (`HealthHonest`), shared answers are young (`OneYoungRequest`) |
| `DetailRecovers` | detail page | the shell is replaced (`DetailSettles`), every sample shown in the end (`FreshAgain`) |
| `NothingClipped`, `NewestDrawn` | charts | every point of a rendering is within its axes, the newest point of a live answer within the x axis; every chart ends with the newest sample |
| `SwitchSpec` | home page | refinement of `ViewSwitch` |
| `GlobeShowsList`, `HomeConverges` | home page | the globe on display has the page's list, the page has the server's in the end, a click leads to the earth or can be repeated |
| `BuffersConserved`, `OnlyCurrentDrawn`, `TailCatchesUpShown` | dust tail | buffers are in a pool or with the one request; nothing outdated is drawn; the tail of the epoch is drawn in the end |
| `NoSelectOnDrag`, `ScenesRecover`, `ScenesDressed` | scenes | drags select nothing; left alone, each scene moves again; what arrives late is neither lost nor leaked |
| `EveryServerPlaced` | beacons, star map, overview | every server once, wherever servers are shown together |
| `TableAsServer`, `ConsoleTrue`, `AdminSettlesShown` | console | the table and its configurations, the secrets, the rules and the targets are the server's, each with the exceptions below; no operation blocks the others for ever |
| `FrontendTypeOK` | all | types |

The properties of several parts are conjunctions with a name for each part, defined in
the part's module. Where the code does not keep an otherwise sensible promise, the
property says when it does. `TableAsServer` holds except after a lost answer and while
the last list that came was read before a change that was made before it came (a reload
may overtake an operation, and Redis may keep an old list for thirty seconds); a row's
configuration, except after a save of it that failed. `RulesShown` holds except after
overlapping requests, which the code does not notice. `SecretsTyped` holds except after
two writes from one reading of the settings file; of a channel's secret it only says that
it is no other than the one typed there last, since every save of a channel stores the
masks of all the others in place of their secrets. `ChartNeverBackwards` says of the
process and network charts, which no guard protects, only where they may go back to.
`NothingClipped` says nothing of the height of live process points: their axis is that of
the last rendering. `StarmapWhole` except for a touch the browser took
away.

*Why these bounds are enough.* 367,572 states. Two samples, two range requests and an
aggregate one sample old: an old answer can come after a newer one on either path.
Three epochs and two generations: an answer for an epoch that was left, entered again
and left. Two list changes and two requests: an older answer arrives last. Two
pointers: a pinch in which one is lost. Three servers at three places in reach of their
neighbours: a third one that draws the centroid out of the reach of the first. Readings
below, at and far above the axes' steps, in windows that roll past them. Two nodes, two
billings, one reload beside one operation, a list one change old: the reload's list is of
before or after it, read or found in Redis. Two chains, two
rules; one target, one probe, one save, one edit, on two nodes.

Single parts were also checked alone with larger values, with the same result:
`AlertRules` with three changes (600,000 states), `PingTargets` with two probes and two
edits (759,000), `HealthVerdict` with three levels and two losses (55,000) and
`RequestCache` with six moments (13,000).

**Fairness.** Requests and imports end (`fetch` has a timeout, or the browser's own);
the timer of a page that is open fires; frames go on; the worker answers. Polls do not
fail for ever: this is the only strong fairness (`PollingFairness`), needed because
every single poll may fail. `WF` on `GlobeMotion`'s `Resume` and `SolarScene`'s
`ResumeTimer` assumes that a visitor leaves the scene alone for its timer's length now
and then: each interaction starts the timer anew. Nobody has to click, no sample has
to be taken.

## What the runs found

Four runs are expected to fail: each checks one sentence of the repository's own
documentation and comments, which the code does not keep. The quotation and the
lines are in `PROJECT.json`.

| run | the documentation says | the code |
|---|---|---|
| `pipeline_exact_mode` | byte totals give the exact mode of accounting | the queue is last-in first-out: two waiting samples are applied in reverse, and the difference between them is added twice |
| `pipeline_rollup_rejects` | a failing rollup must not reject a push | the rollup row is inserted by the commit of the push, outside the `try`: two first samples of an hour collide, one is rejected or parked |
| `retention_race` | the conversion is idempotent | test and conversion are apart; two schedulers convert at 01:30 and the later conversion takes the partitions of the earlier away (rows stay) |
| `status_flap` | status updates are arranged so that the status does not flap | `fetch_probes` does not look at the heartbeat: exporter down, agent up, and the status flips for ever |

The models show four smaller deviations, which have no run of their own:

- When cleanup has dropped the last daily partition during a long outage of
  maintenance, the loop of `ensure_future_partitions` starts today, and the days
  still retained stay in its first partition. (`retention_gaps` therefore misses
  runs on two days only, so that a daily partition remains.)
- Rows that are too old to get a partition of their own are left to "the retention
  DELETE job", which on a partitioned table only drops partitions. They stay until
  their neighbour's partition expires; `Expires` shows that they go then.
- A ping run may set a server offline whose heartbeat was committed after the run
  loaded the row. The next run corrects it (`KeepsOnline`), and a server whose
  heartbeats come regularly is never affected (`SteadyStaysOnline`).
- A server whose exporter fails, answers one `fetch-probe` request and fails again
  is marked offline by the third failure of the job, not three failures in a row.

## Proofs

All theorems hold for every value of the constants that satisfies the module's
`ASSUME`: any number of servers, threads, schedulers, pushes, failures, any
readings, retention, freshness; in the front end any number of samples, answers,
lists, pointers, nodes, rules and targets. `PROJECT.json` lists the theorems; each
has the natural-language statement above it.

Each is proved in the same way: an inductive invariant of named parts, one lemma
per action (or per part an action can disturb), and a last temporal step. What
differs is the invariant, described here.

**AgentPipeline.**
`TypeCorrect` is inductive by itself; its part `RequestType` (a thread has a
sample exactly while it is busy) is what lets `request[t].sample[1]` be a server.
`PermitsCorrect`: `PermitsConserved` with `TypeOK`; the count of writing threads
changes by one exactly in the actions that change `permits`, shown with lemmas on
the cardinality of `Writing` when one thread moves. It needs `Thread` finite.
`LedgerCorrect`: `LedgerInv` relates an *undisturbed* row (`~stale[s]`) to the last
committed probe, and every loaded row to the number of probes; the second part is
needed because a commit may write the loaded counter plus one. `RollupCorrect` and
`UsedNeverDrops` follow from it. `AccountExact` is the main one: the strengthening
says that as long as all committed readings are in order the sum is the last minus
the first, and a commit onto an undisturbed row extends it by one difference.

`DeliveredAtMostOnce` and `NoneVanishes` are about one number, `Copies(m)`: how
often the sample `m` is in the queue, with a thread, with the consumer, in the
parking list and in the table together. Each of the five places has its lemmas on
what a step does to its count; `Conserved` adds them up: a step that sends no new
sample leaves the sum as it is, or puts the sample into one of `ambiguous`, `shed`,
`rejected` and `gone`, which only grow. Both properties follow from that alone, with
`NotBeforeSent`: there is no copy of a sample its agent has not sent, without which
the first push could add a second copy.

**PartitionRetention.**
`TypeCorrect`. `CleanupHoldsExpired`: what a cleanup run has listed only gets
older, because `now` only grows. `NothingLostEarly`: a dropped partition holds rows
below its bound only (`LivesIn`), and the bound is expired by the invariant; a
deleted row is below the cutoff. Neither needs anything about `maintain`, which is
why no race in the maintenance job can lose a row.

`LayoutKeptIfListed` says how far `LayoutKept`, which `retention_race` refutes, is
true: if the table begins partitioned and no listing fails, no process ever converts
it (`NeverConverts`: then no run is in the branch that converts), and a partition that
goes has expired. Both hypotheses are needed; each is a finding without it.
`GapsAreFilled` is `GapFilled` for any number of missed and broken runs. Its
invariant `GapInv` is that no day from the retention horizon to the last partition is
missing, and none behind the cursor of a loop under way. Its hypotheses are those of
`LayoutKeptIfListed`, that no `ALTER TABLE` fails (the loop goes on after one, so that
a day is left out), and that the table never runs out of partitions (`[](parts # {})`;
after an outage longer than the retention the loop starts today, see above). They
hold in `retention_gaps`.

**ServerStatus.**
`TypeCorrect`. `SteadyCorrect`: if the heartbeat has been steady for longer than a
run has lasted, then what the run loaded was at most `Fresh - PingTicks` old when
it was loaded, and has aged by the length of the run since. It needs
`PingTicks <= Fresh`. `SteadyNeverTakenDown` follows: such a run decides "online".
`OfflineAfterStreak` rests on `CountInv`, `fails.count <= streak`: however the
increments, the expiry and the clearing of two processes interleave, the counter in
Redis is never ahead of the failures there were.

**The tab.** The theorems about the front end are about `FrontSpec`, the tab with all
its parts. `StepOfAPart` says that a step of the tab is a step of one part and leaves
the others alone, so that the inductive invariant of a part is one of the tab. The
proofs of the parts:

*The switch and the globe* (`HomeViewProofs`).
`SwitchImplemented` is the refinement `HomeSpec => SwitchSpec`: initial states map to
initial states, every step to a step of `ViewSwitch` or a stutter. It needs
`SwitchInv`: an import of the ship is under way only over the solar system, with
the globe's import done and a call that holds waiting for it; only therefore is the
ship there no sooner than the earth. `GlobeShows` adds that the globe on display was
given the page's list and that a fan belongs to a running globe.
`DragNeverSelects` rests on `AloneInv`: a single pointer that has been alone since it
was pressed is the one that holds the globe, so its movement has been noticed.

*The scenes.* `BuffersCorrect` and `CurrentCorrect`, with `DustTypeCorrect`, are one
induction. At most one request is out, because every place that sends one has found
that no job is set, and then the pools lack exactly its two buffers
(`WhereBuffersAre`). Errors that end the tail empty the pools for good, which is why
"given up" is a case of its own. `TexturesInv`: until the scene is destroyed every
allocated texture is tracked, each body uses one of its own two, and a body that still
loads its photo has the other; nothing loads before the manifest is there.
`LayersInv`: the list of the layers is one of five, and which ones are possible
depends on what is waited for (`LayersCome`); the clouds are last, therefore.

*The detail page* (`DetailPageProofs`). `ChartMovesForward`, `PingMovesForward` and
two parts of `PanelsAgree` come from `DetailInv`. `Phases` says what each phase of the
page has done already; `CardInv` that the row is as new as the live point and the card
tells it; `PingKept` that the page has what is stored; `Ahead` that nothing is drawn,
nor waits to be drawn, that is newer than the timeline, which is what keeps a draw
that comes late from taking the CPU and memory charts back; `Even`, that without a
timeline the process chart has no rows of its own and ends where the coarse rows do.
What a drawing shows of the process and network charts are the rows that arrived last
(`LatestDrawn`). `DrawsBounded` adds that the draws that
wait for the charts' import are at most those asked for, without which the model's
bound on them could hide one. `YoungShared` is nearly inductive; it lacks that the
entry is never a request whose failure has been noticed. `HealthInv` is about the
verdict: a row's time names its content (`HistoryInv`, since every change has a later
time), and the snapshot is the newest row and the newest sample that came (`SeenInv`),
so that the verdict judges a state there was.

*Its charts.* (Live process points may leave their y axis until the next rendering;
`TabChartsWhole` leaves their height out, as the code does.) `TabChartsWhole` and `TabNewestDrawn` follow from `ChartInv`: every chart
is right for the newest sample it was given. A rendering makes that so and a live answer
keeps it so, which are lemmas about what is computed on the way. A curve rises in time
(`Rising`, `OrderedOf`); thinning it keeps the last point (`ThinnedOf`); the means of the
buckets end with the newest sample (`MeanPointsOf`); a point that is appended, and a
window that is moved with it, never go back (`AppendedOf`, `MovedOf`). An axis covers
what is drawn on it: `NiceMaxCovers`, with `DecadeCovers` for its power of ten,
`RateAxisCovers`, `LatencyAxisCovers` and `ProcessAxisCovers`. The
processes are rendered from an answer of their own, which may be older than the rows:
their chart ends with the newest sample of that answer (`cKnown`), and the one of the
load, which live answers move as well, with the newer of both.

*The console* (`AdminConsoleProofs`). `TableCorrect` needs `TableInv`: as long as no
answer was lost and no list was overtaken, the rows that are not the operation's are the
server's (`RowsRight`), none but the operation's is missing (`RowsWhole`), and the
operation's will be the server's when its answer is patched in, also when a reload
brings them first (`RowsAwait`); and the rows' configurations are the server's but for
those that were not saved (`BillingRight`). `ListsInv` says that a list which has missed
no change is the list of now, wherever it is: with a reload or in Redis. `TabConsoleTrue`
has three parts. `SettingsInv`: the stored token and key are never a mask, and as long as
no write started from an old reading of the file they are those typed last, and a
channel's secret, where one is stored, is the one typed last there. `RulesInv`: a chain of requests that is alone has no other beside it, so
what it read is what the server still has when it comes; the form always has a target
of its channel. `PingInv`: the list put aside by a probe of the node is the one that was
entered, there is at most one such probe, and while it runs nothing is saved
(`Lending`).

*Where every server is shown.* `TabPlaced` is `EveryServerPlaced` for any list. `Clusters`
folds the servers into groups, and what is kept from one server to the next is `Splits`:
no group is empty, and each server that is done stands at one place of one group. It says
nothing of where the groups are, so that it holds however their centroids drift; with the
servers that have no place it makes `Covers`, from which there is one beacon for each
server. `BeaconInv` adds that the beacons are those of the list, and that a fan that is
open is one of them. A sequence that is parted by a key has each of its elements in one
part (`PartedOnce`); sectors, buttons and headings are such parts. `StarmapInv` says that
two markers have no server in common (`MarkersApart`, from `Covers`), which leaves the
page's own server one marker, and that lines join markers of the last frame. `OverviewInv` is
that the page is `Rendered` from the list it has. A sorted sequence is a permutation of
the sequence in which nothing stands before what is less (`SortedOf`); the nodes of a
group are picked and sorted, therefore each is there once (`CardsComplete`), and the
lengths of the groups add up to that of the list (`TabsCounted`, by `SumCounts`).

`TabTypes` is `FrontendTypeOK`. Of nine of its sixteen conjuncts the invariants above
are strengthenings; the types of the home page (`HomeTypesStep`), the globe's motion
(`MotionTypesStep`), the planets (`SceneTypes`) and the nodes' table (`NodeTypes`, which
needs `TableInv`) are inductions of their own; the three of `TabPlaced` include theirs.

**Induction over data.** The library's induction theorems take an operator as a
parameter and cannot be used here. That a relation is well-founded can be stated
without one, and it gives a least element (`LeastElement`); from it
`NoFirstFailure`: a set of numbers that has 0 and, with each number, the next one, has
all. `MaxOf`, `MinOf`, what the recursive functions behind `WithHosts` (`PingTargets`),
`Ascending`, `RankedBy`, `SumOver` (`OrderedSets`) and `Decade` (`ChartScales`) compute,
and what the fold of `Join` (`GlobeBeacons`) keeps, are proved that way. An order of a
finite set ranks it: the number of the elements before one is a bijection (`RankedOf`),
which is what a sort by counting rests on.

**Assumptions on constants.** Those the proofs needed are in the modules' `ASSUME`,
and the code makes them true: there is a greatest height (`maximumZoomDistance`), a
secret is not one of the words that stand for masks, there is at least one channel
(the list in `SettingsPanel` is fixed), a channel has a target (one that lists none has
its default), servers are numbered, no two of a list with one number (the table's primary
key), a price is at least -1 (`api/servers.py` 220), rates of exchange are positive, a
typed host may be empty and is not the placeholder of an address, ages
and bounds are numbers, a load is a percentage (`cpu_use` of the agent cuts it off at
100).

## Only model-checked

Liveness (`Settles`, `Expires`, `KeepsOnline`, `GoesOffline`; in the front end
`DetailRecovers`, `HomeConverges`, `ScenesRecover`, `TailCatchesUpShown`,
`AdminSettlesShown`) is out of reach of the installed provers, which handle neither
fairness nor `ENABLED`. Every invariant and every action property of a passing run is
proved, `GapFilled` under the hypotheses that `GapsAreFilled` states. The violated
properties have counterexamples instead; one of them, `LayoutKept`, is proved under
hypotheses that exclude them (`LayoutKeptIfListed`).

## Not modelled

See the components with status `not_modelled` in `PROJECT.json`, each with the
reason. In short: the components planned below are left for later; mail, geo, exchange
rates, referrals, audit, logging, metrics, validators and deployment scripts are I/O or
append-only records on which no other component decides. Of the modelled backend
components, agent registration and claiming, signed releases, peer probes and the
read-only history queries are left out.

Of the front end:

- geometry and physics over the reals: `starship/EngineFX.js`,
  `solar/SolarHitLayout.js`, the integration in `DustTailWorker.js`, the camera of
  `CesiumGlobe.js` and the profile of its drags, the layout of labels and of the fan;
- wording, markup and tooltips, `detailCharts.js` 339-406 and 977-1010 among them, and
  the switch of the language where it is only a new text;
- the tiles of `GlobeStarmap.jsx` (never switched on), `NodeCard`;
- forms that show one answer: the operations, users, account and login panels, groups
  and the install dialog of `ServerManager`;
- the service worker `src/sw.js`, which no page registers (`index.html` removes
  registrations there are);
- code nothing calls: `CesiumDeckGlobe.js`, `AgentPanel.js`, `utils/storage.js`, the
  parallax background, `flyTo` and `resetView` of the globe, `enableStarship`
  (`serverTable.js` 498-608 but for what `HomeView` maps), parts of `TelegramPanel`.

## Hazards without a property

Of the components that have no module yet:

| where (`backend/`) | what |
|---|---|
| `services/scheduler_jobs/metrics_jobs.py:28` | the last reported rate is added every 30 s until the status leaves "online" |
| `api/traffic.py:392` | the monthly reset writes from a row loaded before: a concurrent estimate is lost, or survives |
| `api/traffic.py:239` | `date()` raises for a reset day the month does not have |
| `services/scheduler_registration.py:23` | a missed 00:05 run on the reset day loses the month's reset |
| `api/servers.py:179` | the same for the public list: read from the database, then cached; an invalidation in between is overwritten (the administrator's list is in `AdminConsole`) |
| `api/servers.py:434` | batched deletion: batches before the failing one are committed |
| `services/scheduler_jobs/health_jobs.py:122`, `:34` | cooldown taken before the send; a rule whose server is gone falls through to all servers |
| `services/scheduler_jobs/probe_jobs.py:297` | one commit for all servers of a run: one failure loses them all |
| `utils/token_blocklist.py:180` | forced logout rounded up to a second, compared with whole-second issue times |
| `middleware/login_guard.py:73` | `INCR` and `EXPIRE` apart: a counter without an end |
| `api/agent.py:896`, `:901` | commands delivered until acknowledged, from a window of 20 |

Met while modelling the front end, and not about an order of events:

| where (`frontend-vite/src/`) | what |
|---|---|
| `components/admin/SettingsPanel.js:512-537` | saving a channel sends the masks of the others (`api/ops.py` 345-360 makes them), which `services/app_settings.py` 278-284 stores in place of their secrets |
| `components/admin/ServerManager.js:704-705` | a save of the configuration that failed is ignored, and the row shows it all the same |
| `components/admin/ServerManager.js:690-704` | the list has no configurations, so that after a reload a save of the billing sends `{billing}` alone, which replaces the rest of the node's configuration (`api/servers.py` 523-534) |
| `api/servers.py:464-466`, `:523-534`, `:987-991` (`backend/`) | the list in Redis stays for its thirty seconds after a bulk delete that broke off, a new configuration, or a failure of Redis |
| `modules/serverTable.js:2191`, `:2193`, `:2668`, `:2673-2676` | the rows of the process and network charts are replaced by any aggregate, also one older than the live points; any drawing takes the live points from the process chart |
| `pages/detailCharts.js:908-917` | the process chart's y axis is that of the last rendering: a live point outside it is cut off until the next one |
| `components/admin/SettingsPanel.js:488-493` | an API key that is blank is kept, not turned off |
| `components/admin/SettingsPanel.js:100-104` | two buttons call methods that do not exist |
| `components/admin/SettingsPanel.js:531` | saving a channel erases `telegram_chat_id` |
| `components/admin/TelegramPanel.js:258-261` | the answer to a switch renders the channels again under an open edit |
| `components/admin/PingTool.js:167-217` | a save that was prepared for a node is sent to the one chosen meanwhile |
| `components/GlobeStarmap.jsx:570-572`, `:442-451` | lines start at the marker shared with others; no listener for `touchcancel` |
| `components/GlobeStarmapMount.jsx:54-63` | missing coordinates become 0, 0 |
| `components/globe/vpsClusters.js:67-79` | two clusters that drift may get the same key |
| `pages/overviewPage.js:79`, `:558-571` | the abnormal list ends at six; the calculator mixes yuan with the displayed currency |
| `utils/currency.js:69-72`, `pages/overviewPage.js:46-49` | the price of a free node, -1, is counted as an amount and lowers the month's cost |
| `api/base.js:52-55` | the event `admin:logout` has no listener |

On the server's side of the settings, `services/app_settings.py:250-291` reads, changes
and writes the file without a lock, and stores none of the theme's image fields;
`api/telegram.py:307-321` cannot clear a rule's target or note.


## Plan

In order of importance:

1. `TrafficMonth`: estimates of both schedulers, the monthly reset, corrections and
   the pipeline's exact additions on one row; one abstract specification "what was
   measured since the reset" to compare with.
2. `AlertCooldown`: Redis and database cooldown, failing sends, traffic alerts, the
   job failure counter.
3. `TokenRevocation` and `LoginGuard`: the two-store revocation with fallback,
   refresh rotation, second boundaries; attempt counters and their expiries.
4. `ServerCache`: the public list in Redis, its invalidation by the jobs, the batches of a
   deletion.
5. `AgentCommands`: delivery until acknowledgement, the window of 20, cleanup; an
   abstract specification of at-least-once delivery it implements.
6. `MetricsDelivery`: the abstract specification of the pipeline (a sample is in
   flight, stored, parked or given up, and moves in one direction), which
   `AgentPipeline` implements when no reply is lost.
7. `ServerGroups`; in the front end the operations panel and the users' and account
   panels.
8. Proofs: the refinement of 6; the main invariants of 1 to 5.
