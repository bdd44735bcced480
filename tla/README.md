# Formal models of dst-server

`dst-server` runs one Don't Starve Together room per container: an Agent
supervises every configured shard (a native game process), decides what happens
after failures, and exits with the games.  This directory holds TLA+ models of
the parts where ordering, failure and concurrency decide correctness, the TLC
configurations that check them, and TLAPS proofs.  `PROJECT.json` lists every
run, mutant, theorem, source mapping, hazard and finding.

## Inventory

| Component | State | Operations | Interacts with | Hard behaviour | What makes it correct |
|---|---|---|---|---|---|
| Recovery (`recovery.rs`) | the durable `recovery` entry: restarts used, retry, rollback target, closed reason, opening | decide, resume, begin retry, mark prepared/ready, resets | Agent, preloader | crashes between writes, saves that moved on | an entry that is always valid, one incident at a time, one fixed target |
| Preloader (`preloader.rs`, `recovery.lua`) | native saves and catalogs | read catalogs, truncate each shard to the target, classify a failure | Agent, native game | half-prepared rooms | only saves beyond the recorded target are discarded |
| Agent (`agent.rs`) | `run` entry, exit code, memory | initialize, start, tick, stop, record failure | recovery, room, policy, systemd | signals and losses at any step | bounded restarts, exit codes that match the durable state |
| Driver (`driver.rs`) | pending commands, generation, readiness, stop worker | request, pump of three streams, stop, kill | game pipes, room | uncorrelated markers, deadlines, reloads | at most one execution, honest answers, no shutdown overtaken |
| Lua endpoint (`rpc.lua`, `bootstrap.lua`) | installed world, running command | accept, run, announce | driver | new Lua state at every reload | replies carry the generation they belong to |
| Room operations (`room.rs`) | phase, mutation permit, drivers, `restart_required` | start, stop, kill, restart, update, configure, shutdown, monitor | drivers, Agent | operations dropped at an await, shards dying under them | the phase tells the truth, one failed shard stops all |
| Room requests (`room.rs`, `players.lua`, `commands.lua`) | what a request has seen of each shard | locate and command a player, choose and confirm a snapshot, reload, save | drivers, worlds | players walk, games save and reload between two questions | the command hits what was seen, or nothing |
| Process (`process.rs`) | child, output queues, exit report | spawn, send, shutdown, kill, supervise | driver, Mod updater | output after exit, bounded queues, heirs of the pipes | every child is reaped, every loss counted |
| Policy and schedule (`policy.rs`) | opening window, notices, Mod maintenance, activity | plan, countdown, retries, idle regeneration | Agent tick | clock steps, restarts in a countdown | one close per window, bounded Mod attempts, no world wiped early |
| Mods (`mods.rs`) | shared Mod directory | prepare, one downloader attempt | policy, room, process | cancelled download, lost markers | no success without a complete download, no updater left behind |
| RPC (`rpc.rs`) | subscriptions, pending calls | serve, publish, subscribe | Agent | slow subscribers, lost clients | a refusal that is final never runs, a loss is told |
| Files (`files.rs`) | room lock, files | lock, replace, update state | everything durable | partial writes, power loss | the lock excludes, one replace is atomic, what was acknowledged stays |
| Host operations (`host.rs`, `host_operations.rs`) | a tool's view of unit and room | transition, wait, set policy, update Mods | systemd, Agent, files | jobs that outlive their caller, timers, other tools | "ready" and "updated" are about this request |
| Deployment (`deployment.rs`) | Quadlets, host ports, host lock | create, edit, reserve, save | systemd, files, other Quadlets | two tools choose at once, saves cut short | no port published twice |
| Telemetry, observability, logs | bounded queues, counters, child readers | submit, export, flush, close, relay, query, page | room, collectors, journal | overload, silent collectors, cancelled queries | every loss is counted, every wait ends |
| Archive (`archive.rs`, `archive/`) | multipart object, destination, player directories | upload, import, convert | object store, files | cancellation, two imports, two names that become one | whole or absent |
| Configuration, settings, model, external, Lua reader, scripts, probe, CLI, Python | none of their own | conversions and I/O | | | |

## Modules and the code

**`Recovery`** translates `recovery.rs` function by function: the operators
keep the source's names, take a recovery entry and return the next one (or the
error that leaves it alone).  Snapshot numbers are natural numbers, catalogs
sets of snapshots with the evidence the preloader proves.

**`RoomRecovery`** composes it with `Agent::initialize`, `start`, `tick`, the
preloader, the native recovery script, the saves of the games, systemd's
`Restart=on-failure` and the operator.  One action is one stretch between two
durable writes, so a lost container (`Lose`) falls between any two of them.

**`Driver`** models one shard's `driver.rs` with the game behind its pipes.
The request worker (`execute`, `expire`), the pump of each stream, the stop
worker and the Lua side are separate actions.  `RemoteCall` is the abstract
promise, a call that runs at most once and is answered truthfully;
`ImplementsRemoteCall` states that the driver implements it.  The command lock
is granted in any order, an over-approximation of its FIFO queue, and a worker
that gave up and one that expires its command are separate steps, which covers
multi-threaded runtimes as well.

**`Room`** models the operations around the single mutation permit.  The Agent
uses a current-thread runtime (`cli.rs`), so each action is the code between
two awaits.  `hit` is the `interrupted` watch channel; a `select!` with both
branches ready may take either, hence an interrupted operation may still
finish its next stretch.  `fault` is history: a game of this container ended
other than cleanly.  Queries, player commands and permission edits change none
of this state and are the operation "native".

**`Worlds`** opens that operation up: one request that asks one shard after
another (`locate`, `player_request`, `select_snapshot`, `complete_snapshot`,
`reload`, `save`), one action per question and one per answer, while players
join, walk, leave, games save and prune, and worlds reload by themselves.  A
question goes to the generation that is current when it is sent; `Guarded` is
the Lua side's check of the generation and the driver's loss of a call that
crosses a reload.  The games' own saving is external, with two assumptions the
code relies on: a master that was ordered to reload does not autosave first,
and a secondary that was ordered to reload is not asked for a save that counts.
`WorldsInit` is any quiet room: secondaries follow the master at equal or older
numbers, and a player is on one secondary at most.  What a failed reload does to
the room is `Room`'s business.

**`Maintenance`** models the room policy (`policy.rs`) with the parts of the
Agent that carry it out, across containers, opening windows and clock jumps.
`Observed`, `Decide` and `ModAction` are the three stretches of `Policy::plan`;
`Initialize`, `Loop`, `Download` and `Launch` are start-up; `Tick` is one policy
tick with its dispatch, and `worker` holds the Agent's mutation permit.  Time
runs in units of `CHECK_INTERVAL`, and a stored deadline is kept as the time
left until the wall clock reaches it.  The schedule is given as merged
intervals.  A scheduled stop that waits for the permit gets it in the step that
releases it, because tokio's semaphore is fair.  What another part decides is
nondeterministic here: whether recovery has closed the room, whether the Mod
setup names any Mod, what the shards report, and whether an observation was
crossed by another operation.  `Configure` is absent: the room refuses it while
games run, and an initialized Agent without games is already leaving.

**`Activity`** models idle regeneration end to end: what the game notes about
its visitors (`connections.lua`), `observe_activity`, `plan` and the clean-stop
flag of the policy, and the way from the decision over the check that the room
is empty to the command that wipes the world.  Its time unit is a long stretch
against `CHECK_INTERVAL`, and its world is one shard: `Worlds` asks several in
turn, and there a player may join one that was already asked.  What
`RequestsAreHonest` promises of a regeneration is that nobody is on the master,
where the Lua side checks again; whether the game's client table there counts
players of the other shards is external.  Two things no tick can see end the claim, and set
`unseen`: a jump of the wall clock while no Agent runs, or after the Agent's
last plan; and a visit between a start that followed a clean stop and the first
undisturbed tick, because the clean flag is cleared only there.

**`Process`** models the supervision of one game process: readers that never
wait for their consumers, the two bounded queues and what is counted or fatal
when they are full, the grace period, the kill, the drain after the exit, heirs
of the pipes, and a dropped handle.  **`Mods`** extends it with the downloader:
the updater is a supervised process whose markers and exit decide the answer.

**`Telemetry`** models the OTLP exporter: `submit` with its limits by number
and size, the worker with its batch, its spare record, retries and splits, and
flush and close.  **`Logs`** models log queries with their child readers and
permits, and the client that pages through the journal by cursor.  **`Relay`**
models the two tasks that carry a shard's events and states to the meters and
to the local output thread, across attempts, and `close_telemetry`.

**`Rpc`** models the local RPC: calls between client, handler and the Agent's
queue, with timeouts, refusals and a server that closes; and one event stream
with a retained tail and a subscriber that may lag.

**`Files`** models the room lock, the ordered replacement of configuration
files, the state file with one field per owner and its older location, under
process crashes, failed steps and power losses.  A reader sees `live`, a power
loss leaves `disk`; an unsynced rename may be kept or lost.  All files are in one
directory.

**`Host`** models the operations of Host tools over a systemd unit with its
jobs (external) and an Agent reduced to what those tools can see: between the
question and the act the unit may start, stop or fail and other tools act.  What
a tool changes offline, under the room's lock, is one step.
**`Deployment`** models the creation and editing of rooms and the choice of
host ports under the host lock, with the Quadlets of other programs.  The files
of a cluster are saved in one step (`Files` has the single replacements).

**`Archive`** models uploads, imports and player directories, three parts that
share nothing but the compressor's permit.  The directory codec is modelled by
what it does to the digits of an ID, with the source's alphabet sizes; names
with other characters, and encoded ones that decode to no Klei ID, are refused
by the code and absent here.  Every request of an upload (create, part,
completion, abort) may reach the store although its reply is lost.  `owned` says
whether the worker got a multipart upload that it can abort.

**`MCRoomRecovery`, `MCDriver`, `MCRoom`, `MCMaintenance`** hold instances and
symmetry sets.  **`MCServices`** (process, Mods, telemetry, logs), **`MCHost`**
(RPC, relay, files, host, deployment, archive, activity) and **`MCRequests`**
(room operations, worlds) each check several components that share no state:
`part` is chosen initially and a behaviour follows that component.

The type invariant of `RoomRecovery` is checked and proved.  Those of the other
modules document their state; the runs ask for the properties instead.  The
modules named `...Proofs` and `Folding` hold theorems (see Proofs).

Operators commented "Mutant" are wrong on purpose.  Each replaces the
definition after it in one run, where TLC must find the property violated.

## Runs

| Run | Question | Bounds |
|---|---|---|
| `recovery_shards` | valid, coherent entries; launches match decisions; bounded restarts and discards; a shard added or removed in a recovery | 2 shards, 1 restart, gap 1, 3 snapshots, 1 loss |
| `recovery_schedule` | the budget across openings and sessions, a start that races the tick: a failing room settles, and games that became ready are accepted | 1 shard, the 2 restarts of the source, gap 1, 2 snapshots, 2 openings, 2 sessions, 1 loss |
| `driver_calls` | refinement of `RemoteCall`: at most once, answered truthfully | 2 callers, 2 busy markers, 1 bad frame |
| `driver_reloads` | honest answers, no false alarm, readiness of the current world only, shutdown last | 2 health commands, 2 worlds |
| `driver_liveness` | calls are answered, stops end | 2 callers, 1 slot |
| `room_shards` | truthful phases and stops, a failed shard stops the room, operations end | 2 shards, a start and one operation of another kind that cuts in |
| `room_contention` | nothing launched after a bad end, bad ends recorded when a stop ends; requests over several shards touch what they saw | 1 shard, 3 operations; 2 shards, 1 player, 1 request of each kind, 3 moves of players and games during player commands, 2 during others |
| `room_configure_race` | finding, see below | 1 shard, start, Configure, Stop |
| `maintenance` | downloads within budget, no game over a failed update, notice before a stop, requests neither lost nor stuck, games stop at closing | 2 attempts, retry after 1 unit, countdown of 2 units, 2 windows, 1 jump, 1 loss, signal or fault |
| `maintenance_failure` | finding, see below | the same, undisturbed |
| `services` | output accounted for, updater answers true, processes end; every accepted record counted, waiters told the truth, exporter settles; query answers whole, pages contiguous, queries end | 2 streams, 2 written records, queues of 1 and 2; 3 submissions, 1 retry; 2 queries with 1 permit, 4 journal entries |
| `host` | RPC answers and losses; meters and output accounts; durable files; Host answers; ports; archives; due wipes | 2 callers, 1 subscriber, ring of 2; 2 attempts with 2 worlds; 2 owners, 3 jobs, 2 failures; 2 tools; 2 rooms, 7 ports; 3 imports, 2 parts; 1 tier, retention 1, 1 jump, 1 crash |

The bounds are the smallest in which the cases meet.  Recovery needs one
failure more than the budget, a gap one larger than allowed and a second
incident after the first; two openings and two sessions make a stale value of
each differ from the current one.  The driver needs one caller in flight and
one queued (`driver_liveness` has one slot, so that the second is refused); a
second world for every stale record; two busy markers for a resend that is
itself rejected.  The room needs an operation that holds the permit, one that
interrupts it and a shard that dies; `MAX_REQUESTS` is 2, so that the request
limit is met.  A request over two shards needs a move before, between and after
its two questions.  Maintenance needs a failed attempt that is retried and one
that is not, a window longer than the countdown and a second one that opens
over a failure; its jumps lie within the tolerance, beyond it and backwards;
the wall clock stops moving the schedule at `Horizon`.

Every queue of `services` and `host` is one shorter than the records sent to
it, so that it overflows; the ring of the RPC holds 2 of 3 records.  A third
submission is what makes the exporter keep a spare record beside a full batch.
The journal grows to four entries so that a page can end, the cursor's entry be
rotated away and another follow.  Three jobs over the files are an acknowledged
one, one cut short and one of the other owner.  Seven host ports leave six for
two rooms with a shard or two, one is taken by a Quadlet that is not ours.  The
one player ID of `Archive` has digits at both ends of its alphabet, and its
directory comes in every form, so that two of them can become one name.  Retention is one
unit, the shortest in which a world can be both too young and due, with jumps of
two units, more than a retention, in both directions.

Deadlock is not checked: clients submit a bounded number of operations, the
histories are bounded, and a room that closed for good rightly stays so.

## Fairness

* `RoomRecovery`: the Agent goes on while its container lives, loading games
  become ready or fail (`Start` has a deadline), systemd restarts a unit that
  ended with another code than 0.  Nothing forces a game, an operator or a
  schedule to act.
* `Driver`: deadlines elapse, spawned tasks are polled and the kernel delivers
  SIGKILL.  Nothing is assumed of the game.
* `Room`: every await of an operation ends, by its result or its deadline;
  monitors are polled; a game that was asked to stop ends, because `stop`
  escalates to a kill (`StopSettles` of `Driver`).
* `Maintenance`: start-up steps, ticks and workers go on while the container
  lives, an ended unit is started again (by systemd, by the opening timer the
  README asks for, or by the operator's own start), and time passes.
  Operators, clock jumps and losses are never forced.
* `MCServices`: tasks are polled and threads scheduled, timers fire, a killed
  process is reaped.  Nothing is assumed of a game, an updater, a collector, a
  reader or a client.
* `MCHost` and `MCRequests` check safety only and state none.

## Proofs

Eight modules hold the theorems, beside the modules of their components. They
hold for every value of the constants under the named assumptions of the
modules: natural limits, finite sets, non-empty topologies, a room whose shards
include its master, player IDs of eight digits in base 64, names that do not
clash (`"free"` is no client, `Free` and `Agent` no tool). Bounds such as
`MaxJobs`, `MaxLosses` or `MaxBusy` are arbitrary natural numbers there. Every
proof has the same form: an inductive invariant, one lemma per action, a
theorem that combines them.

| Module | Theorems | Inductive invariant |
|---|---|---|
| `RecoveryProofs` | `TypeCorrect`, `EntryAlwaysValid`, `IncidentCoherent`, `TargetNeverReplaced`; `LaunchAsDecided`, `DiscardsBounded`, `LaunchesBounded`, `ReadyAccepted` | `RecoveryInv`; `LaunchInv`, `BudgetInv` |
| `DriverProofs` | `CallsAreHonest`, `ReadinessIsCurrent`, `FailuresAreReal`, `NothingAfterShutdown`, `ImplementsTheCall` | `DriverInv`, `Blame` |
| `RoomProofs` (`Room`, `Worlds`) | `StoppedRoomsAreDown`, `StopsAreHonest`, `NothingLaunchedOverFault`, `FaultsRecorded`; `RequestsHonest` | `RoomInv`, `FaultInv`; `WorldsInv` |
| `MaintenanceProofs` | `DownloadBudget`, `SoundModsUnderGames`, `PlayersAreWarned`, `UpdatesAreNotLost` | `MaintenanceInv` |
| `HostProofs` (`Rpc`, `Files`, `Host`) | `RpcAnswers`; `FilesDurable`, `OneInside`; `HostAnswers`, `OfflineExclusion` | `CallInv`, `StreamInv`; `FilesInv`; `HostInv` |
| `ServicesProofs` (`Logs`, `Telemetry`, `Process`, `Mods`) | `LogQueries`; `ExportsAccounted`; `OutputBooks`; `UpdatesHonest` | `ReaderInv`, `JournalInv`; `TelemetryInv`; `ProcessInv`; `ModsInv` |
| `SurroundingsProofs` (`Relay`, `Deployment`, `Archive`, `Activity`) | `ObservationsHonest`; `PublishedSound`; `ArchivesWhole`; `WipesDue` | `RelayInv`; `DeploymentInv`; `ArchiveInv`; `ActivityInv` |
| `Folding` | lemmas about folds and sums, for the others | |

**Recovery.**  `RecoveryInv` is the conjunction of `TypeOK`, `ValidRecovery` and
`OneIncident`.  None is inductive alone: `validate()` accepts entries with a
retry and a target that no decision produces, and from such an entry `close` or
`reset` would leave an invalid one.  For each operator of `Recovery` a lemma
`...IsSound` shows that from a good entry it makes a good entry and keeps an
unfinished target; `NextKeepsInv` lifts them to the actions.  For the launches,
`DecideParts` and `ResumeParts` list the outcomes of a decision: it closes the
incident, reserves a restart of the saves it was shown, or fixes a target not
too far behind them.  `LaunchInv` says that from there to the launch only
`ApplyShard` touches the saves; `BudgetInv` that each persisted failure is paid
for by a restart or by the target, or is owed to the next decision.

**Driver.**  The markers `DST_LuaBusy` and `DST_RemoteCommandDone` carry no
request id, so `AnswersAreHonest` depends on whose marker is read.  `Slot` ties
the pending command to the lock's holder; `Told` and `Received` say that what
was answered, or lies ready to be, is settled or never ran; `Traffic` says where
a frame, its replies and its markers still are: a command that was dispatched
with nothing outstanding, or that has been answered by its id, is alone with the
game, so the next marker is its own (`Alone`).  Without that part a resend could
follow a busy marker of an earlier command and run a request twice.  `Blame`
traces each failure to a bad frame or lost output.  `ReadyIsCurrent` also bounds
the steps: a record either is of an older world and changes nothing, or keeps
what makes the current one ready, or announces a newer one (`Onward`), whatever
stream it comes on.  `ImplementsTheCall` maps
each step to one of `RemoteCall` or to a stutter.

**Room.**  A phase tells the truth only because the holder of the mutation
permit alone spawns games: `Exclusive` gives the permit to every task that
works, `Judged` says that the drivers a `stop_inner` no longer waits for have
ended as it judged them (they cannot be replaced under it), `Fitting` ties the
place of a task to its operation, and `Down` is the property.
`FaultInv` follows a game that ended badly: every stop_inner still waits for it,
or its monitor will find the room in a phase that makes it ask for a fresh
container, or that was done.  `NothingLaunchedOverFault` and `FaultsRecorded`
have a hypothesis about the operations, because the properties fail without it
(see Findings): no `Configure`, and priority shutdowns only where at most one
operation starts games, as in an Agent, which does so at its boot.  This covers
the mix of `room_contention`, and besides it the Agent's boot with shutdowns.

**Requests over several worlds.**  A request compares what it saw of a shard
with what it finds there later, and the shard may have loaded another world in
between.  The invariant keeps of each observation what it still implies.  Of an
avatar that was located, `Trace`: its entity is on no other shard, and while the
generation lasts its GUID stands for no other entity; so a command guarded by
session, generation and GUID hits that entity or nothing.  Of a shard whose
generation has changed, `Witness`: there is a load that its world descends from.
Of the numbers a save compares, `Reached`: while the master has the number the
save stands for and was not loaded again, no secondary asked so far is beyond
it.  The three kinds of requests exclude each other, so that each part is proved
over its own actions.

Two parts of `RequestsAreHonest` say less than one might expect,
because a number of a snapshot is not a name for a world.  Meanwhile the master
may be taken back further by somebody else and save up to the same number again.
Then a confirmed rollback proves of a secondary only that it agrees with the
master (`ReloadsAreTrue`), and a save that found equal numbers may set a
secondary back (`SavesMoveForward`).  Both exceptions are stated in the
properties by the load that makes them happen.  `WorldsInv` was checked by TLC
with two shards over all states, and with three over the first 2.3 million.

**Maintenance.**  `Shape` is the life of the Agent: a running one that is not
about to end has games, unless only a scheduled stop is left to do, so that no
download runs beside it.  `Budget` relates the durable attempts to the downloads
since the last renewal.  `Notice` carries the time left in the countdown,
corrected by the jump that the next plan will find.

**Files.**  `LockHeld` leaves one process at work, hence the temporary file it
renames is its own and synced (`JobKnown`), its job is the newest and what it
has replaced is a prefix of the configuration (`JobProgress`); `Reliable` states
for the live directory and for the disk what a power loss may leave.

**Rpc.**  A call is in one place: on the wire, with its handler and the Agent,
or answered; so a refusal is only given for a call the Agent never saw.
`Accounted` says that every number between two positions of a subscriber was
read, undecodable or overwritten, and the last two were reported.

**Host.**  `Awaited` is what a waiting tool may rely on: after a restart was
submitted the old container is on its way down or gone, and after an update was
queued, maintenance is idle again only when an update finished.

**Logs.**  `LinesKept` says that as long as a query reads, every line its child
wrote is in the pipe, queued or returned, and that a supervisor without a
failure has emptied the pipe of a child that ended by itself; `Supervised` and
`Driven` keep the child, its supervisor with the permit, and the query in step.
`Shown` says which entries the pages so far have shown; `PageFound` that a page
behind its anchor starts right after the cursor.

**Telemetry.**  The worker's batch, its spare record and the queue are one row
of records, numbered without a gap behind those completed (`InOrder`); its length
and its bytes are the counters `submit` compares with the limits (`Booked`).
`Told` says what a waiter was told; a flush is answered for the records before
its own place in the row.

**Process and Mods.**  While somebody holds the process, every record it wrote is
in its pipe, queued, delivered or counted as dropped (`Accounts`), and a queue
never holds more than its limits of records and bytes (`Limits`).  On top of that,
a failure that the updater wrote has been heard, is still on its way, or the
output is known to be incomplete (`Observation`); with the exit it decides that
an answer of success is one of a complete download.

**Relay.**  An event shows players of the world it is of (`Witnessed`), so what
the meters show is of the current world; every published event is in its
channel, relayed or dropped, whatever attempt it is of (`Relayed`).

**Deployment.**  A tool that has reserved ports holds the host lock until its
unit is saved (`Reservations`), so what it found free stays free of our rooms.
The choice of ports is a fold over the endpoints; by induction on them each takes
a port that is free and that no other endpoint took.

**Archive.**  `UploadKnows` and `ImportsKnow` say what a task knows of the store
and of the destination at each of its steps: a worker that owns no upload has
not got past its create, so the one open upload that nobody reports holds no part
of the archive.  A player's directory keeps its
player: the digits of the two alphabets are converted through the number they
stand for, and the proof goes digit by digit.

**Activity.**  A story that the policy may trust is never longer than the world
was quiet, except for the jumps of the clock that the next plan sees (`Story`);
`Decided` carries that from the plan over the check that the room is empty to
the command that wipes it.

**Folding.**  The library's induction theorems take an operator as a parameter,
which the provers cannot instantiate.  `Folding` states induction over sets
instead (a set of counterexamples that is not empty has a least member) and
derives from it what the folds and sums of the modules return.

Only model-checked is liveness under fairness (`FaultSettles`,
`EveryCallAnswered`, `StopSettles`, `FaultStopsRoom`, `OperationsEnd`,
`ManualUpdateSettles`, `ClosedRoomStops`, `ProcessEnds`, `LoggingSettles`), which
is out of the prover's reach.  Every safety and action property of a passing run
is stated by a theorem.

## Findings

`room_configure_race`: docs/migration.md:260 says that abnormal exits "require a
fresh container, with the recovery decision persisted first".  A shard's monitor
records such an exit only while the room still knows the driver.  `Configure`
accepts a room whose only game has just crashed, because its driver reports it
as not running, and forgets the driver in the same stretch.  When that stretch
runs before the monitor is polled, nothing sets `requires_container_restart`,
and a following `Stop` ends with 0.

`maintenance_failure`: README.md:334-335 says that failed downloads "leave games
closed" and that "an explicit maintenance request or a later opening can retry".
With `mod_auto_update` off, a later opening does neither.  `plan` turns the
failure into a new request that is no longer manual, and a few lines later drops
every request that is neither manual nor attempted.  Start-up then finds nothing
to do and launches the games although no download has succeeded.

Not listed as findings, because no doc, comment or test clearly says otherwise:

* When a `Start` is accepted, the game crashes and a priority shutdown begins
  before the start's worker is polled, `start_inner` finds phase Stopping
  instead of Running and spawns games over the crash its monitor has not seen
  (`NoLaunchAfterFault` fails if shutdown joins `room_contention`).  The Agent
  submits a `Start` only at boot.
* A failed `PreparedMods::prepare` leaves the phase at Preparing.
* A successful update resets `resume_game` to true in the same durable write,
  so a container lost between that write and its exit forgets `restart: false`,
  and the next one starts the games.
* Every plan of a start-up or of a busy tick clears `observed_outdated`, so that
  flag keeps an update from being queued twice only between consecutive quiet
  ticks.
* The clean-stop flag stays set until the first undisturbed tick after the next
  start: a visit before that tick, followed by a crash, is not counted as one.
* `edit_fields` reads the configuration before it takes the room's lock, so two
  tools that edit different fields at once keep only the later edit.
* Automatic ports are chosen in the order of the endpoints, before later ones
  of the same room ask for a fixed port or for the one they had: that request is
  then refused although another assignment would have satisfied all.
* `output_drained` stays true after the standard error stream failed to read.
* The task that follows a shard's state may apply a copy that was overtaken
  between its read and its use; the next change corrects it.
* README.md:418 says that uploads "explicitly abort incomplete multipart uploads
  on failure or cancellation".  A create that the store obeyed and whose reply was
  lost fails before there is an upload ID, so `upload` returns without an abort
  and an empty open upload stays in the store.  No client can abort what it
  cannot name, so this is taken for a limit of that sentence; `UploadIsHonest`
  states the exception.
* Once a rollback command was written, every later error leaves the world's
  state open, and the room stops whatever the error's code says.

## Plan

1. Recovery with the Agent and the preloader, proofs of the entry (done).
2. Driver and its refinement, room operations, requests over several worlds (done).
3. Policy: openings, plan, Mod maintenance, clock changes, idle regeneration
   (done).  Left: the record of closing notices, local-time windows, and the
   Agent's operation queue composed with `Room`.
4. Process supervision, Mods, telemetry, relay, logs, RPC (done).
5. Files, host operations, deployment, archives (done).  Left: the preflight of
   ZIP files and the reconstruction of client saves.
6. Proofs of every safety property that a run checks (done).

## Not modelled

Conversions and pure I/O without a state of their own: native configuration
files and settings, value types and the wire codec, ZIP checks and client
reconstruction, HTTP clients of the Klei services, the static Lua reader,
scripts and annotations, time zone arithmetic, the integration probe, command
lines and the Python wrappers, Netdata's own formats.  Announcements, permission
edits and plain native queries change nothing that the models keep.  The content
of native commands is abstract, and so are texts of notices and errors.
