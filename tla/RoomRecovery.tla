---------------------------- MODULE RoomRecovery ----------------------------
(***************************************************************************)
(* One room across container lives: Agent start-up (agent.rs initialize,   *)
(* start, record_stop, persist_failure and the tail of run), the native    *)
(* preloader (preloader.rs, recovery.lua), the durable room state          *)
(* (.dst-server.json) and the native saves.                                *)
(*                                                                         *)
(* Durable:  recovery  the "recovery" entry, a RecoveryState               *)
(*           run       the "agent_run" entry, RunState {active, failure}   *)
(*           saves     native snapshots per shard, shaped like a Catalog   *)
(*           required  the shards the cluster directory configures         *)
(* Outside:  open, opening   the schedule: open now, number of openings    *)
(*           exit      exit code of an ended container ("lost": killed)    *)
(* Memory:   pc        where the Agent is; "off" is no container           *)
(*           catalogs  what the preloader read during initialize           *)
(*           todo      shards preloader::apply has still to prepare        *)
(*           failure   what classify found when the game failed            *)
(* History:  faults    persisted game failures since the last fresh budget,*)
(*                     counted up to the first one too many               *)
(*           losses    containers lost, or ended by their control server   *)
(*                                                                         *)
(* Every step writes at most one durable entry, as the code does, so Lose  *)
(* may fall between any two writes.  Mod maintenance (which leaves all of  *)
(* this state alone) is not here.                                          *)
(***************************************************************************)
EXTENDS Recovery

CONSTANTS
    Shards,         \* names a shard may have
    Topologies,     \* the sets of shards an operator may configure
    AlwaysOpen,     \* the policy has no closing hours
    KeepSnapshots,  \* how many snapshots the native game keeps listed
    MaxSnapshot,    \* bound: snapshot numbers
    MaxSession,     \* bound: world sessions
    MaxOpening,     \* bound: openings of the schedule
    MaxLosses       \* bound: losses

ASSUME ShardsAssumption == Shards # {} /\ IsFiniteSet(Shards)
ASSUME TopologiesAssumption ==
    Topologies # {} /\ Topologies \subseteq (SUBSET Shards) \ {{}}
ASSUME AlwaysOpenAssumption == AlwaysOpen \in BOOLEAN
ASSUME KeepAssumption == KeepSnapshots \in Nat \ {0}
ASSUME MaxAssumption == /\ MaxSnapshot \in Nat \ {0}
                        /\ MaxSession \in Nat \ {0}
                        /\ MaxOpening \in Nat
                        /\ MaxLosses \in Nat

VARIABLES recovery, run, saves, required, open, opening, exit,
          pc, catalogs, todo, failure, faults, losses

durable == <<recovery, run, saves, required>>
world == <<open, opening, exit>>
memory == <<pc, catalogs, todo, failure>>
history == <<faults, losses>>
vars == <<recovery, run, saves, required, open, opening, exit,
          pc, catalogs, todo, failure, faults, losses>>

Ids == 1 .. MaxSnapshot
Saved == [session : 1 .. MaxSession, id : Ids]
SavedRooms == UNION {[D -> Saved] : D \in SUBSET Shards}
SaveState ==
    {save \in [session : 1 .. MaxSession, ids : SUBSET Ids,
               files : SUBSET Ids, latest : Ids] :
        save.latest \in save.files /\ save.files \subseteq save.ids}
CatalogSets == UNION {[D -> SaveState] : D \in SUBSET Shards}
Failures == [kind : FailureKinds, shards : SavedRooms]
NoFailure == Plain("none")
RunStates == [active : BOOLEAN, failure : Failures \union {NoFailure}]
IdleRun == [active |-> FALSE, failure |-> NoFailure]

Restarts == 0 .. CURRENT_RESTARTS
Openings == 0 .. MaxOpening
Closings == ClosedReasons \union {"none"}
Retries == [status : RetryStatus, shards : SavedRooms]
Targets == [phase : TargetPhases, id : 0 .. MaxSnapshot, shards : SavedRooms]
RecoveryStates ==
    [restarts : Restarts, window : Openings, closed : Closings,
     retry : Retries, target : Targets]

Preparing == {"boot", "resume", "decide", "forget", "start", "apply",
              "launch", "reserved", "launching"}
Gaming == {"loading", "loaded", "running"}
Stages == Preparing \union Gaming \union {"off", "fault", "closing", "restarting"}

TypeOK ==
    /\ recovery \in RecoveryStates
    /\ run \in RunStates
    /\ saves \in [Shards -> SaveState]
    /\ required \in Topologies
    /\ open \in BOOLEAN
    /\ opening \in Openings
    /\ exit \in {"0", "1", "8", "lost", "none"}
    /\ pc \in Stages
    /\ catalogs \in CatalogSets
    /\ todo \in SUBSET Shards
    /\ failure \in Failures \union {NoFailure}
    /\ faults \in Nat
    /\ losses \in 0 .. MaxLosses

FirstSave == [session |-> 1, ids |-> {1}, files |-> {1}, latest |-> 1]

Init ==
    /\ recovery = DefaultState
    /\ run = IdleRun
    /\ saves = [s \in Shards |-> FirstSave]
    /\ required \in Topologies
    /\ open = AlwaysOpen
    /\ opening = 0
    /\ exit = "0"
    /\ pc = "off"
    /\ catalogs = NoRoom
    /\ todo = {}
    /\ failure = NoFailure
    /\ faults = 0
    /\ losses = 0

-----------------------------------------------------------------------------
(* Helpers *)

\* The container ends: the memory of the Agent is gone.
Exit(code) ==
    /\ pc' = "off"
    /\ exit' = code
    /\ catalogs' = NoRoom
    /\ todo' = {}
    /\ failure' = NoFailure

Goto(stage) == pc' = stage /\ UNCHANGED <<exit, catalogs, todo, failure>>

\* A new recovery entry, without and with a fresh budget.
Write(st) == recovery' = st /\ faults' = faults
Renew(st) == recovery' = st /\ faults' = IF st = recovery THEN faults ELSE 0

OnDisk == [s \in required |-> saves[s]]

-----------------------------------------------------------------------------
(* The container unit, the Host and the schedule *)

Begin == pc' = "boot" /\ exit' = "none" /\ UNCHANGED <<catalogs, todo, failure>>

\* systemd: Restart=on-failure and RestartForceExitStatus=8.
Restart ==
    /\ pc = "off"
    /\ exit # "0"
    /\ Begin
    /\ UNCHANGED <<durable, open, opening, history>>

\* A unit that ended with 0 waits for its timer or an operator.
Activate ==
    /\ pc = "off"
    /\ exit = "0"
    /\ Begin
    /\ UNCHANGED <<durable, open, opening, history>>

\* Host start or restart of an inactive unit, before systemd is asked.
HostStart ==
    /\ pc = "off"
    /\ Renew(ExplicitStart(recovery, AlwaysOpen))
    /\ UNCHANGED <<run, saves, required, world, memory, losses>>

\* The operator adds or removes a shard directory of a stopped room.
EditCluster ==
    /\ pc = "off"
    /\ required' \in Topologies
    /\ UNCHANGED <<recovery, run, saves, world, memory, history>>

Open ==
    /\ ~open
    /\ opening < MaxOpening
    /\ open' = TRUE
    /\ opening' = opening + 1
    /\ UNCHANGED <<durable, exit, memory, history>>

Shut ==
    /\ open
    /\ ~AlwaysOpen
    /\ open' = FALSE
    /\ UNCHANGED <<durable, opening, exit, memory, history>>

OpenedState ==
    IF AlwaysOpen THEN recovery ELSE ResetForOpenWindow(recovery, opening)

-----------------------------------------------------------------------------
(* Controller::initialize *)

\* Mutant: a room that recovery closed is reported as a failed unit.
InitializeFailsClosed ==
    /\ pc = "boot"
    /\ open
    /\ Renew(OpenedState)
    /\ IF Closed(OpenedState) THEN Exit("1") ELSE Goto("resume")
    /\ UNCHANGED <<run, saves, required, open, opening, losses>>

\* Up to the first look at "closed".
Initialize ==
    /\ pc = "boot"
    /\ IF open
       THEN /\ Renew(OpenedState)
            /\ IF Closed(OpenedState) THEN Exit("0") ELSE Goto("resume")
       ELSE /\ Exit("0")
            /\ UNCHANGED <<recovery, faults>>
    /\ UNCHANGED <<run, saves, required, open, opening, losses>>

Unfinished == run.active \/ run.failure # NoFailure \/ Pending(recovery)

\* The schedule is read again after mod maintenance.
ShutBeforeStart ==
    /\ pc = "resume"
    /\ ~open
    /\ Exit("0")
    /\ UNCHANGED <<durable, open, opening, history>>

\* The catalogs are read, or the preloader fails and the room closes.
ReadCatalogs ==
    /\ pc = "resume"
    /\ open
    /\ Unfinished
    /\ \/ /\ pc' = "decide"
          /\ catalogs' = OnDisk
          /\ UNCHANGED <<recovery, faults, exit, todo, failure>>
       \/ /\ Write(Decide(recovery, Plain("Unknown"), required, NoRoom))
          /\ Goto("forget")
    /\ UNCHANGED <<run, saves, required, open, opening, losses>>

NothingPending ==
    /\ pc = "resume"
    /\ open
    /\ ~Unfinished
    /\ Goto("start")
    /\ UNCHANGED <<durable, open, opening, history>>

Unstarted == \/ recovery.retry.status = "reserved"
             \/ recovery.target.phase = "Preparing"

RunFailure == IF run.failure = NoFailure THEN Plain("Retryable")
              ELSE run.failure

\* Mutant: a pending attempt is resumed whatever failure was recorded.
DecideRecoveryForgetful ==
    /\ pc = "decide"
    /\ Write(IF Pending(recovery)
             THEN ResumePending(recovery, required, catalogs)
             ELSE Decide(recovery, RunFailure, required, catalogs))
    /\ Goto("forget")
    /\ UNCHANGED <<run, saves, required, open, opening, losses>>

DecideRecovery ==
    /\ pc = "decide"
    /\ Write(IF Pending(recovery) /\ (Unstarted \/ run.failure = NoFailure)
             THEN ResumePending(recovery, required, catalogs)
             ELSE Decide(recovery, RunFailure, required, catalogs))
    /\ Goto("forget")
    /\ UNCHANGED <<run, saves, required, open, opening, losses>>

\* save_run(default), then the second look at "closed".
ForgetRun ==
    /\ pc = "forget"
    /\ run' = IdleRun
    /\ IF Closed(recovery) THEN Exit("0") ELSE Goto("start")
    /\ UNCHANGED <<recovery, saves, required, open, opening, history>>

-----------------------------------------------------------------------------
(* Controller::start and preloader::apply *)

\* A reserved retry sleeps, then must still find its recorded saves.
AwaitRetry ==
    /\ pc = "start"
    /\ HasRetry(recovery)
    /\ LET resumed == ResumePending(recovery, required, OnDisk)
       IN  \/ /\ open
              /\ Write(resumed)
              /\ IF Decision(resumed) = "RetryCurrent" THEN Goto("launch")
                 ELSE Exit("0")
           \/ Exit("0") /\ UNCHANGED <<recovery, faults>>
    /\ UNCHANGED <<run, saves, required, open, opening, losses>>

\* apply_stopped compares the target with the persisted one and the topology.
BeginApply ==
    /\ pc = "start"
    /\ ~HasRetry(recovery)
    /\ TargetPending(recovery)
    /\ IF /\ ~Closed(recovery)
          /\ recovery.target.phase = "Preparing"
          /\ DOMAIN recovery.target.shards = required
       THEN /\ pc' = "apply"
            /\ todo' = required
            /\ UNCHANGED <<exit, catalogs, failure>>
       ELSE Exit("0")
    /\ UNCHANGED <<durable, open, opening, history>>

\* recovery.run in the native game: refuse, or leave the target the latest.
NativeRefuses(save, target) ==
    \/ save.session # target.session
    \/ target.id \notin save.files
    \/ save.latest < target.id

Truncate(save, id) ==
    IF save.latest = id THEN save
    ELSE [save EXCEPT !.ids = {i \in @ : i <= id},
                      !.files = {i \in @ : i <= id},
                      !.latest = id]

\* One shard prepared; or its preloader fails before or after the truncation.
ApplyShard(s) ==
    /\ pc = "apply"
    /\ s \in todo
    /\ LET target == recovery.target.shards[s]
       IN  \/ /\ ~NativeRefuses(saves[s], target)
              /\ saves' = [saves EXCEPT ![s] = Truncate(@, target.id)]
              /\ \/ /\ todo' = todo \ {s}
                    /\ UNCHANGED <<exit, pc, catalogs, failure>>
                 \/ Exit("0")
           \/ Exit("0") /\ UNCHANGED saves
    /\ UNCHANGED <<recovery, run, required, open, opening, history>>

FinishApply ==
    /\ pc = "apply"
    /\ todo = {}
    /\ IF CanMarkPrepared(recovery)
       THEN Write(MarkPrepared(recovery)) /\ Goto("launch")
       ELSE Exit("0") /\ UNCHANGED <<recovery, faults>>
    /\ UNCHANGED <<run, saves, required, open, opening, losses>>

NothingToPrepare ==
    /\ pc = "start"
    /\ ~Pending(recovery)
    /\ IF Closed(recovery) THEN Exit("0") ELSE Goto("launch")
    /\ UNCHANGED <<durable, open, opening, history>>

\* The last look at the schedule, then the slot is reserved durably.
Launch ==
    /\ pc = "launch"
    /\ IF ~open
       THEN Exit("0") /\ UNCHANGED <<recovery, faults>>
       ELSE IF ~HasRetry(recovery)
       THEN Goto("reserved") /\ UNCHANGED <<recovery, faults>>
       ELSE IF CanBeginRetry(recovery)
       THEN Write(BeginCurrentRetry(recovery)) /\ Goto("reserved")
       ELSE Exit("0") /\ UNCHANGED <<recovery, faults>>
    /\ UNCHANGED <<run, saves, required, open, opening, losses>>

SaveRun ==
    /\ pc = "reserved"
    /\ run' = [active |-> TRUE, failure |-> NoFailure]
    /\ Goto("launching")
    /\ UNCHANGED <<recovery, saves, required, open, opening, history>>

\* Room Start spawns the games.
SpawnGames ==
    /\ pc = "launching"
    /\ Goto("loading")
    /\ UNCHANGED <<durable, open, opening, history>>

GamesReady ==
    /\ pc = "loading"
    /\ Goto("loaded")
    /\ UNCHANGED <<durable, open, opening, history>>

\* mark_ready; its refusal would tear down a room that is ready.
RoomReady ==
    /\ pc = "loaded"
    /\ IF CanMarkReady(recovery)
       THEN Write(MarkReady(recovery)) /\ Goto("running")
       ELSE Goto("closing") /\ UNCHANGED <<recovery, faults>>
    /\ UNCHANGED <<run, saves, required, open, opening, losses>>

-----------------------------------------------------------------------------
(* Controller::tick while the room runs *)

StableReset ==
    /\ pc = "running"
    /\ recovery.restarts > 0 \/ recovery.target.phase # "none"
    /\ CanResetAfterStable(recovery)
    /\ Renew(ResetAfterStable(recovery))
    /\ UNCHANGED <<run, saves, required, world, memory, losses>>

\* Mutant: the tick does not wait for initialize to finish.
TickOpeningAnytime ==
    /\ pc \in Gaming
    /\ open
    /\ Renew(OpenedState)
    /\ UNCHANGED <<run, saves, required, world, memory, losses>>

TickOpening ==
    /\ pc = "running"
    /\ open
    /\ Renew(OpenedState)
    /\ UNCHANGED <<run, saves, required, world, memory, losses>>

-----------------------------------------------------------------------------
(* The native games (external) *)

Recent(S) == {i \in S : Cardinality({j \in S : j > i}) < KeepSnapshots}

\* A save, complete or without its world file, prunes old snapshots.
GameSave(s, whole) ==
    LET save == saves[s]
        id == Newest(save.ids) + 1
        kept == Recent(save.ids \union {id}) \union {save.latest}
    IN  /\ pc \in Gaming
        /\ s \in required
        /\ id <= MaxSnapshot
        /\ saves' = [saves EXCEPT ![s] =
              IF whole
              THEN [save EXCEPT !.ids = kept,
                                !.files = (save.files \union {id}) \intersect kept,
                                !.latest = id]
              ELSE [save EXCEPT !.ids = kept,
                                !.files = save.files \intersect kept]]
        /\ UNCHANGED <<recovery, run, required, world, memory, history>>

\* An operator's rollback, or a secondary that follows its master back.
GameRollback(s) ==
    /\ pc \in Gaming
    /\ s \in required
    /\ \E id \in saves[s].files :
          /\ id < saves[s].latest
          /\ saves' = [saves EXCEPT ![s] = Truncate(@, id)]
    /\ UNCHANGED <<recovery, run, required, world, memory, history>>

GameRegenerate(s) ==
    /\ pc \in Gaming
    /\ s \in required
    /\ saves[s].session < MaxSession
    /\ saves' = [saves EXCEPT ![s] =
                    [FirstSave EXCEPT !.session = saves[s].session + 1]]
    /\ UNCHANGED <<recovery, run, required, world, memory, history>>

-----------------------------------------------------------------------------
(* Ends of a container *)

\* What classify may conclude: load evidence names the file each failed shard
\* was reading, its latest save or one superseded since.
Evidence(D, stale) ==
    [s \in D |-> [session |-> saves[s].session,
                  id |-> IF stale THEN Oldest(saves[s].files)
                         ELSE saves[s].latest]]

Classified ==
    {Plain("Retryable"), Plain("Unknown")} \union
    {LoadFailure(Evidence(D, stale)) :
        D \in (SUBSET required) \ {{}}, stale \in BOOLEAN}

\* A shard dies, stays unhealthy or must be killed: the room is stopped.
GameFault ==
    /\ pc \in Gaming
    /\ failure' \in Classified
    /\ pc' = "fault"
    /\ UNCHANGED <<durable, world, catalogs, todo, history>>

PersistFailure ==
    /\ pc = "fault"
    /\ run' = [active |-> FALSE, failure |-> failure]
    /\ faults' = IF faults > CURRENT_RESTARTS + 1 THEN faults ELSE faults + 1
    /\ Exit("1")
    /\ UNCHANGED <<recovery, saves, required, open, opening, losses>>

\* Every game exits cleanly: after Stop, a scheduled close or a signal, and
\* after Restart or mod maintenance, which only an initialized Agent accepts.
CleanStop ==
    /\ \/ pc \in Gaming /\ Goto("closing")
       \/ pc = "running" /\ Goto("restarting")
    /\ UNCHANGED <<durable, open, opening, history>>

RecordStop ==
    /\ pc \in {"closing", "restarting"}
    /\ run' = IdleRun
    /\ Exit(IF pc = "closing" THEN "0" ELSE "8")
    /\ UNCHANGED <<recovery, saves, required, open, opening, history>>

\* A signal before any driver exists: nothing is recorded.
Interrupt ==
    /\ pc \in Preparing
    /\ Exit("0")
    /\ UNCHANGED <<durable, open, opening, history>>

\* The control server dies before any driver exists: classify sees no shard.
ServerFault ==
    /\ pc \in Preparing
    /\ losses < MaxLosses
    /\ losses' = losses + 1
    /\ run' = [active |-> FALSE, failure |-> Plain("Unknown")]
    /\ Exit("1")
    /\ UNCHANGED <<recovery, saves, required, open, opening, faults>>

\* Power loss, SIGKILL, the OOM killer: only durable state survives.
Lose ==
    /\ pc # "off"
    /\ losses < MaxLosses
    /\ losses' = losses + 1
    /\ Exit("lost")
    /\ UNCHANGED <<durable, open, opening, faults>>

-----------------------------------------------------------------------------

AgentStep ==
    \/ Initialize \/ ShutBeforeStart \/ ReadCatalogs \/ NothingPending \/ DecideRecovery
    \/ ForgetRun \/ AwaitRetry \/ BeginApply \/ FinishApply
    \/ NothingToPrepare \/ Launch \/ SaveRun \/ SpawnGames \/ RoomReady
    \/ PersistFailure \/ RecordStop
    \/ \E s \in Shards : ApplyShard(s)

GameStep ==
    \/ GamesReady \/ GameFault
    \/ \E s \in Shards : \/ \E whole \in BOOLEAN : GameSave(s, whole)
                         \/ GameRollback(s)
                         \/ GameRegenerate(s)

OutsideStep ==
    \/ Restart \/ Activate \/ HostStart \/ EditCluster \/ Open \/ Shut
    \/ StableReset \/ TickOpening
    \/ CleanStop \/ Interrupt \/ ServerFault \/ Lose

Next == AgentStep \/ GameStep \/ OutsideStep

Spec == Init /\ [][Next]_vars

(***************************************************************************)
(* Fairness: the Agent goes on while its container lives; a game that      *)
(* loads becomes ready or fails (Start has a deadline); systemd restarts a *)
(* unit that did not end with 0.  Nothing else has to happen.              *)
(***************************************************************************)
FairSpec ==
    /\ Spec
    /\ WF_vars(AgentStep)
    /\ WF_vars(GamesReady)
    /\ WF_vars(Restart)

-----------------------------------------------------------------------------
(* Properties *)

\* Every recovery entry that update() computes passes validate(), so no step
\* fails because of the state another left (recovery.rs validate, decode).
ValidRecovery == Validate(recovery)

\* The parts of the entry agree: a pending target or retry means the incident
\* is open, a failed target means it is closed, and never are a retry and a
\* pending target owed at once (close, reset, decide).
OneIncident == Coherent(recovery)

\* Games are launched on exactly what was decided: never while the room is
\* closed, never on a half-prepared target, with every shard at the fixed
\* target or at the saves the retry recorded (start, apply_stopped).
LaunchMatchesDecision ==
    pc \in {"reserved", "launching"} =>
        /\ ~Closed(recovery)
        /\ recovery.retry.status # "reserved"
        /\ recovery.target.phase # "Preparing"
        /\ recovery.target.phase = "Starting" =>
              LatestRoom(OnDisk) = recovery.target.shards
        /\ recovery.retry.status = "started" =>
              LatestRoom(OnDisk) = recovery.retry.shards

\* Between two fresh budgets games are launched after at most as many
\* persisted failures as there are current restarts and one rollback,
\* wherever containers are lost (decide, initialize, persist_failure).
BudgetBoundsLaunches ==
    pc \in {"launching", "loading"} => faults <= CURRENT_RESTARTS + 1

\* A fixed target is the only one until it was ready: no loss of the
\* container, no fresh budget and no change of the saves ever replaces it
\* ("Even a fresh budget must finish this same target", reset).
TargetStaysFixed == [][KeepsTarget(recovery, recovery')]_vars

\* Recovery discards saves only towards the persisted target of that shard's
\* session, and never more than MAX_SNAPSHOT_GAP numbers (apply_stopped,
\* verify_replay, previous_target).
DiscardIsBounded ==
    [][pc = "apply" =>
         \A s \in Shards : saves'[s] # saves[s] =>
            /\ recovery.target.phase = "Preparing"
            /\ recovery.target.shards[s] =
                  [session |-> saves'[s].session, id |-> saves'[s].latest]
            /\ saves[s].session = saves'[s].session
            /\ saves[s].latest - saves'[s].latest \in 1 .. MAX_SNAPSHOT_GAP]_vars

\* A failed game is followed by a running room or by a container that ended
\* with 0; it never ends in an endless restart (initialize, start, deployment's
\* restart directives).  And games that became ready are never torn down because
\* mark_ready refuses the state that start, or a tick meanwhile, left.
FaultSettles ==
    /\ pc = "fault" ~> (pc = "running" \/ (pc = "off" /\ exit = "0"))
    /\ [](pc = "loaded" => CanMarkReady(recovery))

=============================================================================
