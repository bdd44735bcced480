-------------------------------- MODULE Room --------------------------------
(***************************************************************************)
(* One room inside its Agent (room.rs): the operations that own the single *)
(* mutation permit, the monitor of every shard, and the shutdowns that cut *)
(* in.  The Agent runs on a current-thread runtime (cli.rs), so a task is  *)
(* interrupted only where it awaits: each action is one such stretch.      *)
(*                                                                         *)
(* phase             RoomStatus.phase                                      *)
(* permit, queue     the mutation semaphore: its holder, the FIFO behind   *)
(* task              every worker: clients of invoke_inner and of the      *)
(*                   shutdowns; one cleanup per monitor, named by shard    *)
(* hit               tasks whose `interrupted` receiver has a new value    *)
(* restart_required, shutdown_pending   the fields of Room                 *)
(* proc              each shard's driver: "none", "up", or how it ended    *)
(* ready, quit       its control is ready; what it was asked ("stop",      *)
(*                   "kill")                                               *)
(* watched           shards whose monitor task is still looping            *)
(* fault             history: some game of this container ended badly      *)
(*                                                                         *)
(* Operators commented "Mutant" are wrong on purpose: each shows that a    *)
(* property fails when the definition after it has that bug.               *)
(***************************************************************************)
EXTENDS Naturals, Sequences, FiniteSets

CONSTANTS
    Shards,        \* the configured shards
    Clients,       \* operations that may be submitted
    Operations,    \* the kinds each of them may have
    MAX_REQUESTS   \* size of the `requests` semaphore

Mutations == {"start", "stop", "restart", "reload", "update",
              "update_restart", "configure", "native"}
Kinds == Mutations \union {"kill", "shutdown", "fault", "hold"}

ASSUME ShardsAssumption == IsFiniteSet(Shards) /\ Shards # {}
ASSUME ClientsAssumption == IsFiniteSet(Clients) /\ Clients \cap Shards = {}
                            /\ "free" \notin Clients \union Shards
ASSUME OperationsAssumption == Operations \in [Clients -> SUBSET Kinds]
ASSUME RequestsAssumption == MAX_REQUESTS \in Nat \ {0}

VARIABLES phase, permit, queue, task, hit, restart_required, shutdown_pending,
          proc, ready, quit, watched, fault

games == <<proc, ready, quit, watched, fault>>
vars == <<phase, permit, queue, task, hit, restart_required, shutdown_pending,
          proc, ready, quit, watched, fault>>

Tasks == Clients \union Shards
Phases == {"Stopped", "Preparing", "Starting", "Running", "Stopping", "Failed"}

\* How a process ended: exit code 0 by itself with its output drained; any
\* other exit, or a signal; output that never drained.
Ends == {"clean", "unclean", "undrained"}

Updates == {"update", "update_restart"}

\* Where a task awaits.  Those in Dispatching are inside dispatch() and end
\* when interrupted or at their deadline; those in StopInner await stop_inner.
Dispatching == {"begin", "notice", "stopping", "killing", "failing",
                "settling", "asking", "reloading", "downloading"}
StopInner == {"stopping", "killing", "failing", "cleanup", "closing"}
Steps == {"idle", "queueing", "queued", "holding", "done"} \union Dispatching \union StopInner

\* todo: the shards stop_inner still waits for; bad: one of them failed;
\* late: the cleanup is that of a failed start.
NoTask == [kind |-> "none", pc |-> "idle", todo |-> {}, bad |-> FALSE,
           late |-> FALSE, result |-> "none"]

TypeOK ==
    /\ phase \in Phases
    /\ permit \in Tasks \union {"free"}
    /\ queue \in Seq(Tasks)
    /\ task \in [Tasks -> [kind : Kinds \union {"cleanup", "none"}, pc : Steps,
                           todo : SUBSET Shards, bad : BOOLEAN, late : BOOLEAN,
                           result : {"none", "ok", "error", "busy"}]]
    /\ hit \subseteq Tasks
    /\ restart_required \in BOOLEAN
    /\ shutdown_pending \in 0 .. Cardinality(Clients)
    /\ proc \in [Shards -> Ends \union {"none", "up"}]
    /\ ready \subseteq Shards
    /\ quit \in [Shards -> {"no", "stop", "kill"}]
    /\ watched \subseteq Shards
    /\ fault \in BOOLEAN

Init ==
    /\ phase = "Stopped" /\ permit = "free" /\ queue = <<>>
    /\ task = [t \in Tasks |-> NoTask]
    /\ hit = {} /\ restart_required = FALSE /\ shutdown_pending = 0
    /\ proc = [s \in Shards |-> "none"]
    /\ ready = {} /\ quit = [s \in Shards |-> "no"]
    /\ watched = {} /\ fault = FALSE

-----------------------------------------------------------------------------
Drivers == {s \in Shards : proc[s] # "none"}
Up == {s \in Shards : proc[s] = "up"}

\* Room::require_stopped
AllStopped == \A s \in Shards : proc[s] \notin {"up", "undrained"}

\* Room::require_ready.  It also looks at the readiness the monitors noted,
\* which may lag behind the games either way: such a refusal is one of Fails.
RoomReady == phase = "Running"

Goto(t, pc) == task' = [task EXCEPT ![t].pc = pc]

\* Mutant: a released permit that wakes nobody.
ReleaseWakesNobody == permit' = "free" /\ UNCHANGED queue

\* The permit goes to the first waiter.
Release ==
    IF queue = <<>> THEN permit' = "free" /\ UNCHANGED queue
    ELSE permit' = Head(queue) /\ queue' = Tail(queue)

\* The end of a worker: its result, then the permit.
Finish(t, result) ==
    /\ task' = [task EXCEPT ![t].pc = "done", ![t].result = result]
    /\ Release

\* Mutant: stop_inner forgets the games whose control is not ready.
StopWaitsForReady == Drivers \cap ready

\* The drivers stop_inner joins.
StopWaitsFor == Drivers

\* stop_inner up to its await; a kill outranks a stop.
BeginStop(t, pc, force, late) ==
    /\ phase' = "Stopping"
    /\ task' = [task EXCEPT ![t].pc = pc, ![t].todo = StopWaitsFor,
                            ![t].bad = FALSE, ![t].late = late]
    /\ quit' = [s \in Shards |->
                   IF s \notin Up THEN quit[s]
                   ELSE IF force \/ quit[s] = "kill" THEN "kill" ELSE "stop"]

\* The phases in which a failed operation has to clean up.
CleanupPhases == {"Starting", "Stopping"}

\* invoke_inner after dispatch() returned an error in phase `now`: clean up
\* an operation that was starting or stopping games.
AfterError(t, now) ==
    IF now \in CleanupPhases
    THEN LET late == now = "Starting" /\ t \notin hit
         IN /\ BeginStop(t, "cleanup", FALSE, late)
            /\ restart_required' = (restart_required \/ late)
            /\ UNCHANGED <<permit, queue>>
    ELSE /\ phase' = now
         /\ Finish(t, "error")
         /\ UNCHANGED <<restart_required, quit>>

-----------------------------------------------------------------------------
(* Submitting an operation.                                                *)

Slots == {c \in Clients : task[c].kind \notin {"none", "shutdown", "fault", "hold"}
                          /\ task[c].pc # "done"}

\* invoke_inner up to the spawn of its worker.
Invoke(c, kind) ==
    /\ kind \in Operations[c] \cap Mutations
    /\ task[c].pc = "idle"
    /\ IF shutdown_pending = 0 /\ Cardinality(Slots) < MAX_REQUESTS
          /\ permit = "free"
       THEN /\ permit' = c
            /\ task' = [task EXCEPT ![c].kind = kind, ![c].pc = "begin"]
       ELSE /\ task' = [task EXCEPT ![c].kind = kind, ![c].pc = "done",
                                    ![c].result = "busy"]
            /\ UNCHANGED permit
    /\ hit' = hit \ {c}
    /\ UNCHANGED <<phase, queue, restart_required, shutdown_pending, games>>

\* The same for Kill: it interrupts, kills, and then waits for the permit.
InvokeKill(c) ==
    /\ "kill" \in Operations[c]
    /\ task[c].pc = "idle"
    /\ IF Cardinality(Slots) < MAX_REQUESTS
       THEN /\ task' = [task EXCEPT ![c].kind = "kill", ![c].pc = "queueing"]
            /\ hit' = Tasks \ {c}
            /\ quit' = [s \in Shards |-> IF s \in Up THEN "kill" ELSE quit[s]]
       ELSE /\ task' = [task EXCEPT ![c].kind = "kill", ![c].pc = "done",
                                    ![c].result = "busy"]
            /\ UNCHANGED <<hit, quit>>
    /\ UNCHANGED <<phase, permit, queue, restart_required, shutdown_pending,
                   proc, ready, watched, fault>>

ShutdownPriority(c) ==
    /\ "shutdown" \in Operations[c]
    /\ task[c].pc = "idle"
    /\ shutdown_pending' = shutdown_pending + 1
    /\ phase' = "Stopping"
    /\ hit' = Tasks
    /\ IF permit = "free"
       THEN permit' = c /\ task' = [task EXCEPT ![c].kind = "shutdown",
                                                ![c].pc = "queued"]
       ELSE /\ task' = [task EXCEPT ![c].kind = "shutdown", ![c].pc = "queueing"]
            /\ UNCHANGED permit
    /\ UNCHANGED <<queue, restart_required, games>>

ForceFault(c) ==
    /\ "fault" \in Operations[c]
    /\ task[c].pc = "idle"
    /\ hit' = Tasks
    /\ task' = [task EXCEPT ![c].kind = "fault", ![c].pc = "queueing"]
    /\ UNCHANGED <<phase, permit, queue, restart_required, shutdown_pending,
                   games>>

\* Room::while_stopped: the preloader rewrites the saves while it holds the
\* permit.
WhileStopped(c) ==
    /\ "hold" \in Operations[c]
    /\ task[c].pc = "idle"
    /\ IF permit = "free" /\ AllStopped
       THEN /\ permit' = c
            /\ task' = [task EXCEPT ![c].kind = "hold", ![c].pc = "holding"]
       ELSE /\ task' = [task EXCEPT ![c].kind = "hold", ![c].pc = "done",
                                    ![c].result = "busy"]
            /\ UNCHANGED permit
    /\ UNCHANGED <<phase, queue, hit, restart_required, shutdown_pending, games>>

\* Its StoppedOperation is dropped.
DropHold(c) ==
    /\ task[c].pc = "holding"
    /\ Finish(c, "ok")
    /\ UNCHANGED <<phase, hit, restart_required, shutdown_pending, games>>

\* mutation.acquire_owned(): take the permit or line up for it.
Acquire(t) ==
    /\ task[t].pc = "queueing"
    /\ IF permit = "free" THEN permit' = t /\ UNCHANGED queue
       ELSE queue' = Append(queue, t) /\ UNCHANGED permit
    /\ Goto(t, "queued")
    /\ UNCHANGED <<phase, hit, restart_required, shutdown_pending, games>>

\* What the waiting tasks do first with the permit: stop_inner.
Acquired(t) ==
    /\ task[t].pc = "queued" /\ permit = t
    /\ BeginStop(t, IF task[t].kind = "kill" THEN "killing" ELSE "closing",
                 task[t].kind = "kill", FALSE)
    /\ restart_required' = (restart_required \/ task[t].kind = "fault")
    /\ UNCHANGED <<permit, queue, hit, shutdown_pending, proc, ready, watched,
                   fault>>

-----------------------------------------------------------------------------
(* dispatch()                                                              *)

dispatchKeeps == <<hit, shutdown_pending>>

\* drivers.clear(), then the games that were spawned, and asked to stop if
\* one of them could not be.
Launch(spawned, asked) ==
    /\ proc' = [s \in Shards |-> IF s \in spawned THEN "up" ELSE "none"]
    /\ quit' = [s \in Shards |-> IF s \in spawned THEN asked ELSE "no"]
    /\ ready' = {}
    /\ watched' = spawned
    /\ UNCHANGED fault

\* What start_inner requires before it prepares anything.
MayLaunch == AllStopped /\ ~restart_required

\* start_inner in phase `now`, up to its first await: refused, failed while preparing, or
\* with every game spawned.
StartInner(t, now) ==
    \/ /\ now = "Running"
       /\ Finish(t, "ok")
       /\ UNCHANGED <<phase, restart_required, games>>
    \/ /\ now # "Running" /\ ~MayLaunch
       /\ AfterError(t, now)
       /\ UNCHANGED <<proc, ready, watched, fault>>
    \/ /\ now # "Running" /\ MayLaunch
       /\ \/ \* PreparedMods::prepare or discover fails
             /\ AfterError(t, "Preparing")
             /\ UNCHANGED <<proc, ready, watched, fault>>
          \/ \* DriverOptions::save fails
             /\ phase' = "Failed"
             /\ Finish(t, "error")
             /\ Launch({}, "no")
             /\ UNCHANGED restart_required
          \/ \* Driver::spawn fails for a shard; those before it run
             \E spawned \in (SUBSET Shards) \ {Shards} :
                /\ Launch(spawned, "stop")
                /\ phase' = "Stopping"
                /\ task' = [task EXCEPT ![t].pc = "failing", ![t].todo = spawned,
                                        ![t].bad = FALSE]
                /\ UNCHANGED <<permit, queue, restart_required>>
          \/ /\ Launch(Shards, "no")
             /\ phase' = "Starting"
             /\ Goto(t, "settling")
             /\ UNCHANGED <<permit, queue, restart_required>>

\* Configure: only with every game stopped; it forgets the drivers.
Configure(t) ==
    IF AllStopped
    THEN \/ Launch({}, "no") /\ Finish(t, "ok") /\ UNCHANGED <<phase, restart_required>>
         \/ AfterError(t, phase) /\ UNCHANGED <<proc, ready, watched, fault>>
    ELSE AfterError(t, phase) /\ UNCHANGED <<proc, ready, watched, fault>>

\* The first stretch of dispatch() or update_mods().
Begin(t) ==
    /\ task[t].pc = "begin"
    /\ CASE task[t].kind = "start" -> StartInner(t, phase)
         [] task[t].kind = "configure" -> Configure(t)
         [] task[t].kind \in {"stop", "restart"} \union Updates ->
              /\ Goto(t, "notice")
              /\ UNCHANGED <<phase, permit, queue, restart_required, games>>
         [] OTHER ->
              IF RoomReady
              THEN /\ Goto(t, "asking")
                   /\ UNCHANGED <<phase, permit, queue, restart_required, games>>
              ELSE AfterError(t, phase) /\ UNCHANGED <<proc, ready, watched, fault>>
    /\ UNCHANGED dispatchKeeps

\* The countdown is over (at once without a notice or a ready shard).
NoticeEnds(t) ==
    /\ task[t].pc = "notice"
    /\ \/ BeginStop(t, "stopping", FALSE, FALSE)
          /\ UNCHANGED <<permit, queue, restart_required>>
       \/ AfterError(t, phase)
    /\ UNCHANGED <<dispatchKeeps, proc, ready, watched, fault>>

\* wait_ready succeeded: nothing awaits between its last look and "Running".
Settled(t) ==
    /\ task[t].pc = "settling"
    /\ Up = Shards /\ ready = Shards
    /\ phase' = "Running"
    /\ Finish(t, "ok")
    /\ UNCHANGED <<dispatchKeeps, restart_required, games>>

\* wait_ready failed: a shard exited, answered badly or was too late.
SettleFails(t) ==
    /\ task[t].pc = "settling"
    /\ restart_required' = TRUE
    /\ BeginStop(t, "failing", FALSE, FALSE)
    /\ UNCHANGED <<dispatchKeeps, permit, queue, proc, ready, watched, fault>>

\* The reload request was taken, or may have been; a game that is gone by
\* now is noticed only in the loop that follows.
ReloadAsked(t) ==
    /\ task[t].pc = "asking" /\ task[t].kind = "reload"
    /\ phase' = "Starting"
    /\ ready' \in {ready, {}}
    /\ Goto(t, "reloading")
    /\ UNCHANGED <<dispatchKeeps, permit, queue, restart_required, proc, quit,
                   watched, fault>>

Reloaded(t) ==
    /\ task[t].pc = "reloading"
    /\ Up = Shards /\ ready = Shards
    /\ phase' = "Running"
    /\ Finish(t, "ok")
    /\ UNCHANGED <<dispatchKeeps, restart_required, games>>

\* A native command was answered.
NativeAnswers(t) ==
    /\ task[t].pc = "asking" /\ task[t].kind = "native"
    /\ Finish(t, "ok")
    /\ UNCHANGED <<dispatchKeeps, phase, restart_required, games>>

\* The native updater is done.
Downloaded(t) ==
    /\ task[t].pc = "downloading"
    /\ \/ t \in hit /\ AfterError(t, phase) /\ UNCHANGED <<proc, ready, watched, fault>>
       \/ t \notin hit /\ task[t].kind = "update_restart" /\ StartInner(t, phase)
       \/ /\ t \notin hit /\ task[t].kind = "update" /\ Finish(t, "ok")
          /\ UNCHANGED <<phase, restart_required, games>>
    /\ UNCHANGED dispatchKeeps

\* Any of these awaits may fail on its own or at the operation's deadline.
\* update_mods has no deadline, so only its own failures count there.
Fails(t) ==
    /\ \/ task[t].pc \in {"asking", "reloading", "downloading"}
       \/ /\ task[t].pc \in {"settling", "stopping", "killing", "failing"}
          /\ task[t].kind \notin Updates
    /\ AfterError(t, phase)
    /\ UNCHANGED <<dispatchKeeps, proc, ready, watched, fault>>

\* select! drops dispatch() when `interrupted` changes; Kill does not listen,
\* and update_mods listens only around its countdown and its restart.
Interrupted(t) ==
    /\ t \in hit /\ task[t].pc \in Dispatching /\ task[t].kind # "kill"
    /\ task[t].kind \in Updates =>
         task[t].pc \in {"notice", "settling", "failing", "downloading"}
    /\ AfterError(t, phase)
    /\ UNCHANGED <<dispatchKeeps, proc, ready, watched, fault>>

-----------------------------------------------------------------------------
(* stop_inner                                                              *)

Forcing(t) == task[t].pc = "killing"

\* Mutant: output that never drained is taken for a good stop.
StopIgnoresOutput(t, s) == proc[s] = "unclean" /\ ~Forcing(t)

\* The stop of one shard failed.
StopFailed(t, s) == proc[s] = "undrained" \/ (proc[s] = "unclean" /\ ~Forcing(t))

\* Mutant: only a kill asks for a fresh container.
RecreateAfterKill(t, s) == Forcing(t)

\* Its container has to be recreated.
Recreate(t, s) == Forcing(t) \/ StopFailed(t, s)

\* One of the joined stops: the shard has exited and is judged.
StopReports(t, s) ==
    /\ task[t].pc \in StopInner /\ s \in task[t].todo
    /\ proc[s] \in Ends
    /\ task' = [task EXCEPT ![t].todo = @ \ {s}, ![t].bad = @ \/ StopFailed(t, s)]
    /\ restart_required' = (restart_required \/ Recreate(t, s))
    /\ UNCHANGED <<phase, permit, queue, hit, shutdown_pending, games>>

PendingAfter(kind) ==
    IF kind = "shutdown" THEN shutdown_pending - 1 ELSE shutdown_pending

\* Every shard was judged: the phase, and what the caller of stop_inner does.
StopEnds(t) ==
    LET kind == task[t].kind
        pc == task[t].pc
        after == IF task[t].bad THEN "Failed" ELSE "Stopped"
        endsFailed == pc = "failing" \/ (pc = "cleanup" /\ task[t].late)
                      \/ kind \in {"fault", "cleanup"}
        goesOn == ~task[t].bad /\ pc = "stopping" /\ kind \in {"restart"} \union Updates
    IN /\ pc \in StopInner /\ task[t].todo = {}
       /\ \/ /\ ~endsFailed /\ ~goesOn
             /\ phase' = after
             /\ Finish(t, IF task[t].bad \/ pc = "cleanup" THEN "error" ELSE "ok")
             /\ UNCHANGED <<restart_required, games>>
          \/ /\ endsFailed
             /\ phase' = "Failed"
             /\ Finish(t, "error")
             /\ UNCHANGED <<restart_required, games>>
          \/ /\ goesOn /\ kind = "restart"
             /\ StartInner(t, "Stopped")
          \/ /\ goesOn /\ kind \in Updates
             /\ phase' = after
             /\ IF t \in hit \/ restart_required THEN Finish(t, "error")
                ELSE \/ Goto(t, "downloading") /\ UNCHANGED <<permit, queue>>
                     \/ Finish(t, "error")      \* PreparedMods::prepare fails
             /\ UNCHANGED <<restart_required, games>>
       /\ shutdown_pending' = PendingAfter(kind)
       /\ UNCHANGED hit

-----------------------------------------------------------------------------
(* The games and their monitors.                                           *)

\* A game ends, by itself or as asked; a killed one never ends well.
Exit(s) ==
    /\ proc[s] = "up"
    /\ \E end \in IF quit[s] = "kill" THEN Ends \ {"clean"} ELSE Ends :
          /\ proc' = [proc EXCEPT ![s] = end]
          /\ fault' = (fault \/ end # "clean")
    /\ ready' = ready \ {s}
    /\ UNCHANGED <<phase, permit, queue, task, hit, restart_required,
                   shutdown_pending, quit, watched>>

\* The driver's ready flag: a world is announced, or the game reloads.
ReadyChanges(s) ==
    /\ proc[s] = "up"
    /\ ready' = IF s \in ready THEN ready \ {s} ELSE ready \union {s}
    /\ UNCHANGED <<phase, permit, queue, task, hit, restart_required,
                   shutdown_pending, proc, quit, watched, fault>>

\* Mutant: a dead shard matters only while the room starts.
MonitorWhileStarting == {"Starting"}

\* The phases in which a dead shard fails the room.
MonitoredPhases == {"Starting", "Running"}

\* The monitor of s sees that its game is not running any more.
Monitor(s) ==
    /\ s \in watched /\ proc[s] # "up"
    /\ watched' = watched \ {s}
    /\ IF phase \in MonitoredPhases
       THEN /\ restart_required' = TRUE
            /\ hit' = Tasks
            /\ phase' = "Failed"
            /\ task' = [task EXCEPT ![s] = [NoTask EXCEPT !.kind = "cleanup",
                                                          !.pc = "queueing"]]
       ELSE UNCHANGED <<phase, task, hit, restart_required>>
    /\ UNCHANGED <<permit, queue, shutdown_pending, proc, ready, quit, fault>>

-----------------------------------------------------------------------------
\* What a task does once it was submitted.
Advance(t) ==
    \/ Acquire(t) \/ Acquired(t) \/ Begin(t) \/ NoticeEnds(t)
    \/ Settled(t) \/ SettleFails(t) \/ ReloadAsked(t) \/ Reloaded(t)
    \/ NativeAnswers(t) \/ Downloaded(t) \/ Fails(t) \/ Interrupted(t)
    \/ \E s \in Shards : StopReports(t, s)
    \/ StopEnds(t) \/ DropHold(t)

Next ==
    \/ \E c \in Clients : \E kind \in Mutations : Invoke(c, kind)
    \/ \E c \in Clients : \/ InvokeKill(c) \/ ShutdownPriority(c)
                        \/ ForceFault(c) \/ WhileStopped(c)
    \/ \E t \in Tasks : Advance(t)
    \/ \E s \in Shards : Exit(s) \/ ReadyChanges(s) \/ Monitor(s)

Spec == Init /\ [][Next]_vars

\* Every await of a task ends: operations have deadlines, and a game that was
\* asked to stop is killed when its driver's patience is over.  Nothing makes
\* a client submit an operation, or a healthy game end.
Fairness ==
    /\ \A t \in Tasks : WF_vars(Advance(t))
    /\ \A s \in Shards : WF_vars(Monitor(s)) /\ WF_vars(quit[s] # "no" /\ Exit(s))

FairSpec == Spec /\ Fairness

-----------------------------------------------------------------------------
(* Properties.                                                             *)

\* A room that reports Stopped, or whose saves are held for rewriting, has no
\* game running: not after an operation that was cut, a partial spawn, a stop
\* that another one overtook, or a start that the hold met at the permit.
StoppedMeansDown ==
    phase = "Stopped" \/ (\E t \in Tasks : task[t].pc = "holding") => Up = {}

\* A step in which start_inner reaches Driver::spawn.
Spawns ==
    \E t \in Tasks : /\ task[t].pc \in {"begin", "stopping", "downloading"}
                     /\ task'[t].pc \in {"settling", "failing"}

\* When the room was stopped gracefully, every game that ended badly has been
\* recorded: the Agent asks exactly then whether it has to keep a failure.
StopRecordsFault ==
    [][\A c \in Clients :
          (/\ task[c].kind \in {"stop", "shutdown"}
           /\ task[c].pc \in StopInner /\ task'[c].pc = "done"
           /\ fault) => restart_required]_vars

\* Once a game ended badly nothing is spawned in this container any more.
NoLaunchAfterFault == [][Spawns => ~fault]_vars

\* A stop, a kill or a shutdown that reports success has left no game running
\* or undrained, and a graceful one no game that ended badly.
StopIsHonest ==
    [][\A c \in Clients :
          task[c].pc # "done" /\ task'[c].pc = "done" /\ task'[c].result = "ok"
            => /\ task[c].kind = "kill" => AllStopped
               /\ task[c].kind \in {"stop", "shutdown"}
                    => \A s \in Shards : proc[s] \in {"none", "clean"}]_vars

\* A game that ended badly stops the whole room.
FaultStopsRoom == fault ~> (Up = {})

\* Every operation that was submitted ends, however the others interfere.
OperationsEnd == \A c \in Clients : task[c].pc # "idle" ~> task[c].pc = "done"
=============================================================================
