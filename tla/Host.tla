-------------------------------- MODULE Host --------------------------------
(***************************************************************************)
(* Host operations on one room (host.rs, host_operations.rs): every tool   *)
(* asks systemd, then works through the room's Agent when the service runs *)
(* and on the room's files under its lock when it does not.  Between the   *)
(* question and the act the service may start, stop or restart, and other  *)
(* tools may do the same.                                                  *)
(*                                                                         *)
(* unit     the service: its state and its job (systemd, external); a job  *)
(*          begins when it is submitted                                    *)
(* agent    "off", "boot" before it has the room's lock, then "up" (its    *)
(*          own behaviour is in Room and Maintenance); ready: its games    *)
(* guard    the room's lock: a tool, Agent or Free                         *)
(* durable  the room's saved state: recovery closed, Mod maintenance       *)
(* open     the schedule; allDay: it never changes                         *)
(* client   per tool: its operation, its step, what it saw of the unit,    *)
(*          and the counts when its work was handed over                   *)
(* boots, updates   history: containers started, Mod updates finished      *)
(* answers  history: the last thing a tool was told, if any                *)
(***************************************************************************)
EXTENDS Naturals, FiniteSets

CONSTANTS
    Clients, Agent, Free,
    MaxBoots, MaxUpdates, MaxOperations     \* bounds

ASSUME HostAssumption ==
    /\ Agent \notin Clients /\ Free \notin Clients /\ Agent # Free
    /\ MaxBoots \in Nat /\ MaxUpdates \in Nat /\ MaxOperations \in Nat

VARIABLES unit, agent, ready, guard, durable, open, allDay, client, boots, updates, operations, answers

roomVars == <<agent, ready, durable, open, allDay, updates>>
hostVars == <<unit, guard, roomVars, client, boots, operations, answers>>

IdleClient == [operation |-> "none", step |-> "idle", seen |-> "inactive", base |-> 0]

Transitions == {"start", "restart", "stop"}
ModUpdates == {"update_mods", "update_restart"}      \* update_mods without and with restart
Writes == {"write"}                                   \* set_policy, permission and edit
ClientSteps == {"idle", "asked", "locked", "reset", "submit", "waiting", "poll", "detail", "call"}

HostTypeOK ==
    /\ unit \in [active : {"inactive", "failed", "activating", "active", "deactivating"},
                 job : {"none", "start", "stop", "restart"}]
    /\ agent \in {"off", "boot", "up"} /\ ready \in BOOLEAN /\ (ready => agent = "up")
    /\ guard \in Clients \union {Agent, Free}
    /\ durable \in [closed : BOOLEAN, mods : {"idle", "pending", "failed"}]
    /\ open \in BOOLEAN /\ allDay \in BOOLEAN
    /\ \A c \in Clients : client[c].step \in ClientSteps
    /\ boots \in 0 .. MaxBoots /\ updates \in 0 .. MaxUpdates /\ operations \in 0 .. MaxOperations

HostInit ==
    /\ unit \in [active : {"inactive", "failed"}, job : {"none"}]
    /\ agent = "off" /\ ready = FALSE /\ guard = Free
    /\ durable \in [closed : BOOLEAN, mods : {"idle", "failed"}]
    /\ allDay \in BOOLEAN /\ open = TRUE
    /\ client = [c \in Clients |-> IdleClient]
    /\ boots = 0 /\ updates = 0 /\ operations = 0 /\ answers = {}

-----------------------------------------------------------------------------
(* The service *)

\* A queued or running job counts as running.
Running(u) == u.job # "none" \/ u.active \notin {"inactive", "failed"}

\* Mutant: the job is not waited for.
SettledAlways(u) == TRUE

\* wait_idle: no job, and not on the way from one state to another.
Settled(u) == u.job = "none" /\ u.active \notin {"activating", "deactivating"}

\* The unit after "systemctl --no-block": a start that meets a restart joins it.
Submitted(u, job) ==
    CASE job = "stop" /\ u.active \in {"inactive", "failed"} -> [u EXCEPT !.job = "none"]
      [] job = "stop" /\ u.active \notin {"inactive", "failed"} ->
             [active |-> "deactivating", job |-> "stop"]
      [] job = "start" /\ u.active = "active" -> u
      [] job = "start" /\ u.active = "deactivating" ->
             [u EXCEPT !.job = IF @ = "restart" THEN @ ELSE "start"]
      [] job = "restart" /\ u.active \in {"active", "deactivating"} ->
             [active |-> "deactivating", job |-> "restart"]
      [] OTHER -> [active |-> "activating", job |-> "start"]

\* The container starts, by a job or because the service restarts itself.
UnitStarts ==
    /\ unit.active = "activating" /\ agent = "off" /\ boots < MaxBoots
    /\ unit' = [active |-> "active", job |-> "none"]
    /\ agent' = "boot" /\ boots' = boots + 1
    /\ UNCHANGED <<ready, guard, durable, open, allDay, client, updates, operations, answers>>

\* It does not start, or has failed too often.
UnitFails ==
    /\ unit.active = "activating" /\ agent = "off"
    /\ unit' = [active |-> "failed", job |-> "none"]
    /\ UNCHANGED <<guard, roomVars, client, boots, operations, answers>>

UnitStopped ==
    /\ unit.active = "deactivating" /\ agent = "off"
    /\ unit' = IF unit.job \in {"start", "restart"} THEN [active |-> "activating", job |-> "start"]
               ELSE [active |-> "inactive", job |-> "none"]
    /\ UNCHANGED <<guard, roomVars, client, boots, operations, answers>>

-----------------------------------------------------------------------------
(* The Agent, as the tools see it *)

\* What systemd makes of an exit: Restart=on-failure, and RESTART_EXIT forces one.
AfterExit(clean) ==
    IF unit.active = "deactivating" THEN unit
    ELSE IF clean THEN [active |-> "inactive", job |-> "none"]
    ELSE [active |-> "activating", job |-> "none"]

AgentLeaves(clean) ==
    /\ agent' = "off" /\ ready' = FALSE
    /\ guard' = IF guard = Agent THEN Free ELSE guard
    /\ unit' = AfterExit(clean)

\* status reads the files of a stopped room under their lock.
Reading(c) == client[c].step = "detail" /\ client[c].seen \in {"inactive", "failed"}

AgentBoots ==
    /\ agent = "boot"
    /\ IF guard = Free
       THEN /\ guard' = Agent /\ agent' = "up" /\ UNCHANGED <<unit, ready>>
       ELSE AgentLeaves(FALSE)
    /\ UNCHANGED <<durable, open, allDay, client, boots, updates, operations, answers>>

\* A reader that holds the lock for a moment turns a booting Agent away as well.
AgentTurnedAway ==
    /\ agent = "boot" /\ \E c \in Clients : Reading(c)
    /\ AgentLeaves(FALSE)
    /\ UNCHANGED <<durable, open, allDay, client, boots, updates, operations, answers>>

AgentMaintains ==
    /\ agent = "up" /\ durable.mods = "pending" /\ ~ready
    /\ \/ /\ updates < MaxUpdates
          /\ durable' = [durable EXCEPT !.mods = "idle"] /\ updates' = updates + 1
       \/ durable' = [durable EXCEPT !.mods = "failed"] /\ UNCHANGED updates
    /\ UNCHANGED <<unit, agent, ready, guard, open, allDay, client, boots, operations, answers>>

\* The games stop for maintenance, or with the room's end.
GamesStop ==
    /\ ready /\ (durable.mods = "pending" \/ ~open \/ unit.active = "deactivating")
    /\ ready' = FALSE
    /\ UNCHANGED <<unit, agent, guard, durable, open, allDay, client, boots, updates, operations, answers>>

GamesReady ==
    /\ agent = "up" /\ ~ready /\ durable = [closed |-> FALSE, mods |-> "idle"] /\ open
    /\ ready' = TRUE
    /\ UNCHANGED <<unit, agent, guard, durable, open, allDay, client, boots, updates, operations, answers>>

\* Outside its hours, asked to stop, or unable to open: the Agent ends well.  With
\* maintenance pending it ends for a restart; a crash looks the same.
AgentEnds(clean) ==
    /\ agent = "up"
    /\ clean => ~open \/ durable.closed \/ durable.mods = "failed" \/ unit.active = "deactivating"
                  \/ (~ready /\ durable.mods = "idle" /\ updates > 0)
    /\ AgentLeaves(clean)
    /\ UNCHANGED <<durable, open, allDay, client, boots, updates, operations, answers>>

RecoveryCloses ==
    /\ agent = "up" /\ ~durable.closed
    /\ durable' = [durable EXCEPT !.closed = TRUE] /\ ready' = FALSE
    /\ UNCHANGED <<unit, agent, guard, open, allDay, client, boots, updates, operations, answers>>

ScheduleTurns ==
    /\ ~allDay /\ open' = ~open
    /\ UNCHANGED <<unit, agent, ready, guard, durable, allDay, client, boots, updates, operations, answers>>

-----------------------------------------------------------------------------
(* A tool *)

Goto(c, step) == client' = [client EXCEPT ![c].step = step]

\* An error, a timeout or the end of the tool: what was submitted may still happen.
Abandon(c) ==
    /\ client[c].step # "idle"
    /\ client' = [client EXCEPT ![c] = IdleClient]
    /\ guard' = IF guard = c THEN Free ELSE guard
    /\ UNCHANGED <<unit, roomVars, boots, operations, answers>>

\* operate: the first question is always the state of the unit.
Begin(c, operation) ==
    /\ client[c].step = "idle" /\ operations < MaxOperations
    /\ operations' = operations + 1
    /\ client' = [client EXCEPT ![c] =
           [operation |-> operation, base |-> 0,
            seen |-> IF unit.active = "failed" THEN "failed" ELSE "inactive",
            step |-> CASE operation = "stop" -> "submit"
                       [] operation = "wait_ready" -> "poll"
                       [] operation \in {"start", "restart"} /\ Running(unit) -> "submit"
                       [] operation \in Writes \union ModUpdates /\ Running(unit) -> "call"
                       [] OTHER -> "asked"]]
    /\ UNCHANGED <<unit, guard, roomVars, boots, answers>>

\* RoomLock::try_acquire; a lock that is taken ends the operation.
TakeLock(c) ==
    /\ client[c].step = "asked" /\ guard = Free
    /\ guard' = c
    /\ Goto(c, "locked")
    /\ UNCHANGED <<unit, roomVars, boots, operations, answers>>

AfterLock(c) == IF client[c].seen = "failed" THEN "reset" ELSE "submit"

\* require_inactive asks again under the lock; then the files are changed.
Offline(c) ==
    LET operation == client[c].operation
    IN  /\ client[c].step = "locked" /\ ~Running(unit)
        /\ guard' = Free
        /\ \/ /\ operation \in {"start", "restart"}
              /\ durable' = [durable EXCEPT !.closed = @ /\ ~allDay]
              /\ client' = [client EXCEPT ![c].step = AfterLock(c), ![c].seen = "inactive"]
           \/ /\ operation \in ModUpdates /\ durable.mods # "pending"
              /\ durable' = [durable EXCEPT !.mods = "pending"]
              /\ client' = [client EXCEPT ![c].step = AfterLock(c), ![c].seen = "inactive",
                                          ![c].base = updates]
           \/ /\ operation \in Writes
              /\ UNCHANGED durable
              /\ client' = [client EXCEPT ![c] = IdleClient]
        /\ UNCHANGED <<unit, agent, ready, open, allDay, updates, boots, operations, answers>>

ResetFailed(c) ==
    /\ client[c].step = "reset"
    /\ unit' = IF unit.active = "failed" THEN [unit EXCEPT !.active = "inactive"] ELSE unit
    /\ Goto(c, "submit")
    /\ UNCHANGED <<guard, roomVars, boots, operations, answers>>

JobOf(operation) == IF operation \in Transitions THEN operation ELSE "start"

\* transition and update_mods hand the rest to systemd, and may wait for it.
Submit(c) ==
    LET operation == client[c].operation
    IN  /\ client[c].step = "submit"
        /\ unit' = Submitted(unit, JobOf(operation))
        /\ \/ client' = [client EXCEPT ![c].step = IF operation \in Transitions THEN "waiting" ELSE "poll",
                                       ![c].base = IF operation \in Transitions THEN boots ELSE @]
           \/ operation \in Transitions /\ client' = [client EXCEPT ![c] = IdleClient]
        /\ UNCHANGED <<guard, roomVars, boots, operations, answers>>

\* A running room is asked through its Agent.
CallAgent(c) ==
    LET operation == client[c].operation
    IN  /\ client[c].step = "call" /\ agent = "up"
        /\ \/ /\ operation \in ModUpdates /\ durable.mods # "pending"
              /\ durable' = [durable EXCEPT !.mods = "pending"]
              /\ client' = [client EXCEPT ![c].step = "poll", ![c].base = updates]
           \/ /\ operation \in Writes
              /\ client' = [client EXCEPT ![c] = IdleClient]
              /\ UNCHANGED durable
        /\ UNCHANGED <<unit, agent, ready, open, allDay, updates, guard, boots, operations, answers>>

Answer(c, verdict) ==
    /\ answers' = {[operation |-> client[c].operation, verdict |-> verdict,
                    base |-> client[c].base, boots |-> boots, updates |-> updates]}
    /\ client' = [client EXCEPT ![c] = IdleClient]

WaitIdle(c) ==
    /\ client[c].step = "waiting" /\ Settled(unit)
    /\ IF client[c].operation = "stop"
       THEN ~Running(unit) /\ Answer(c, "stopped")
       ELSE Goto(c, "poll") /\ UNCHANGED answers
    /\ UNCHANGED <<unit, guard, roomVars, boots, operations>>

\* status: the unit first, then the Agent or the files.
PollUnit(c) ==
    /\ client[c].step = "poll"
    /\ client' = [client EXCEPT ![c].step = "detail",
                                ![c].seen = IF Running(unit) THEN "running" ELSE unit.active]
    /\ UNCHANGED <<unit, guard, roomVars, boots, operations, answers>>

\* What ends the wait: the verdict of wait_ready or of update_mods over one status.
StoppedVerdict(c) ==
    IF client[c].operation \in ModUpdates /\ durable.mods # "idle" THEN "again"
    ELSE IF client[c].operation = "update_mods" THEN "updated"
    ELSE IF open THEN "error"
    ELSE IF client[c].operation = "update_restart" THEN "updated" ELSE "closed"

RunningVerdict(c) ==
    IF ~ready \/ client[c].operation = "update_mods" THEN "again"
    ELSE IF client[c].operation # "update_restart" THEN "ready"
    ELSE IF durable.mods = "idle" THEN "updated" ELSE "again"

PollAgain(c) ==
    /\ client' = [client EXCEPT ![c].step = "poll", ![c].seen = "inactive"]
    /\ UNCHANGED answers

\* An Agent that does not answer yet leaves the question open.  Files that cannot
\* be read are an error, unless the service runs by now.
PollDetail(c) ==
    LET stopped == client[c].seen # "running"
        failed == client[c].seen = "failed" \/ durable.mods = "failed"
                    \/ (durable.closed /\ client[c].operation \notin ModUpdates)
        verdict == IF stopped THEN StoppedVerdict(c) ELSE RunningVerdict(c)
    IN  /\ client[c].step = "detail"
        /\ IF stopped /\ guard # Free
           THEN Running(unit) /\ PollAgain(c)
           ELSE IF ~stopped /\ agent # "up"
           THEN PollAgain(c)
           ELSE IF verdict = "again"
           THEN ~failed /\ PollAgain(c)
           ELSE ~failed /\ verdict # "error" /\ Answer(c, verdict)
        /\ UNCHANGED <<unit, guard, roomVars, boots, operations>>

ClientStep(c) ==
    \/ \E operation \in Transitions \union Writes \union ModUpdates \union {"wait_ready"} : Begin(c, operation)
    \/ TakeLock(c) \/ Offline(c) \/ ResetFailed(c) \/ Submit(c) \/ CallAgent(c)
    \/ WaitIdle(c) \/ PollUnit(c) \/ PollDetail(c) \/ Abandon(c)

AgentStep ==
    \/ AgentBoots \/ AgentTurnedAway \/ AgentMaintains \/ GamesReady \/ GamesStop \/ RecoveryCloses
    \/ \E clean \in BOOLEAN : AgentEnds(clean)

HostNext ==
    \/ UnitStarts \/ UnitFails \/ UnitStopped \/ AgentStep \/ ScheduleTurns
    \/ \E c \in Clients : ClientStep(c)

HostSpec == HostInit /\ [][HostNext]_hostVars

-----------------------------------------------------------------------------
\* A restart that is answered "ready" saw games of a container started after it
\* was submitted, and an update that is answered "updated" saw maintenance
\* finish after it was queued, whatever other tools and the service did in
\* between (transition, wait_idle, wait_ready, update_mods).
HostAnswersAreHonest ==
    \A a \in answers :
        /\ a.operation = "restart" /\ a.verdict = "ready" => a.boots > a.base
        /\ a.verdict = "updated" => a.updates > a.base
=============================================================================
