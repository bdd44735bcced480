---------------------------- MODULE Maintenance ----------------------------
(***************************************************************************)
(* Mod maintenance: the policy (policy.rs) and the Agent that executes it  *)
(* (agent.rs), across containers, opening windows and clock jumps.         *)
(*                                                                         *)
(* Time runs in units of CHECK_INTERVAL.  Deadlines are kept as the time   *)
(* left on the wall clock, so `now` only places the room in its schedule.  *)
(*                                                                         *)
(* World:    now      wall clock                                           *)
(*           since, jumped   since the last plan: time passed, and by how  *)
(*                    much the wall clock jumped (elapsed - actual); a new *)
(*                    container has no baseline until its first plan       *)
(* Durable:  mods     PolicyState.mods: phase, deadline or not_before      *)
(*                    (due), next_notice, attempts, manual, resume_game,   *)
(*                    observed_outdated                                    *)
(*           current, last   current_opening, last_opening (0: None)       *)
(*           auto     Policy.mod_auto_update                               *)
(* Agent:    pc       where initialize() is, "running" once initialized    *)
(*           resume   its local resume_game                                *)
(*           worker   holder of the mutation permit                        *)
(*           closing_game, hit   a scheduled stop is pending; the worker   *)
(*                    was interrupted by it                                *)
(*           closing, faulted   requested exit code; the room requires a   *)
(*                    new container                                        *)
(*           exit     exit code of an ended container                      *)
(*           game     games run                                            *)
(* History:  tries    downloads begun in each opening since the operator   *)
(*                    asked or one succeeded                               *)
(*           told     time since this container's countdown began          *)
(*           broken   the last request used up its attempts, and no        *)
(*                    download has succeeded since                         *)
(*           jumps, losses   bounded disturbances                          *)
(***************************************************************************)
EXTENDS Integers, FiniteSets

CONSTANTS
    MOD_ATTEMPTS,       \* downloads of one request
    MOD_RETRY_DELAY,    \* between them
    MOD_NOTICE_DELAY,   \* the countdown
    Windows,            \* opening windows <<start, end>>; {}: always open
    Horizon,            \* bound: the wall clock stops moving the schedule
    Jumps,              \* the clock jumps considered
    MaxJumps,           \* bound: clock jumps
    MaxLosses           \* bound: losses, signals and faults

ASSUME LimitsAssumption ==
    /\ MOD_ATTEMPTS \in Nat \ {0}
    /\ MOD_RETRY_DELAY \in Nat \ {0}
    /\ MOD_NOTICE_DELAY \in Nat \ {0}
ASSUME WindowsAssumption ==
    /\ Horizon \in Nat
    /\ Windows \subseteq (1 .. Horizon) \X (1 .. Horizon + 1)
    /\ \A v, w \in Windows : v[1] < v[2] /\ (v = w \/ v[2] < w[1] \/ w[2] < v[1])
ASSUME BoundsAssumption == Jumps \subseteq Int /\ MaxJumps \in Nat /\ MaxLosses \in Nat

VARIABLES now, since, jumped, mods, current, last, auto, pc, resume, worker,
          closing_game, hit, closing, faulted, exit, game,
          tries, told, broken, jumps, losses

clock == <<now, since, jumped, jumps>>
policy == <<mods, current, last, auto>>
agent == <<pc, resume, worker, closing_game, hit, closing, faulted, exit, game>>
history == <<tries, told, broken>>
vars == <<now, since, jumped, mods, current, last, auto, pc, resume, worker,
          closing_game, hit, closing, faulted, exit, game,
          tries, told, broken, jumps, losses>>

Tolerance == 1   \* CHECK_INTERVAL
MaxJump == 2     \* bound: the largest jump
Openings == {0} \union {w[1] : w \in Windows}
Phases == {"Idle", "Pending", "Announcing", "Stopping", "Updating", "Retry", "Failed"}
Left == -MaxJump .. MOD_RETRY_DELAY + MOD_NOTICE_DELAY + MaxJump
ModMaintenance ==
    [phase : Phases, due : Left, next : Left, attempts : 0 .. MOD_ATTEMPTS,
     manual : BOOLEAN, resume : BOOLEAN, outdated : BOOLEAN]
Default == [phase |-> "Idle", due |-> 0, next |-> 0, attempts |-> 0,
            manual |-> FALSE, resume |-> TRUE, outdated |-> FALSE]

\* ModMaintenance::validate
Validate(m) ==
    /\ m.phase = "Idle" => m.attempts = 0
    /\ m.phase = "Updating" => m.attempts > 0
    /\ m.phase = "Retry" => m.attempts \in 1 .. MOD_ATTEMPTS - 1
    /\ m.phase = "Failed" => m.attempts = MOD_ATTEMPTS
    /\ m.phase = "Announcing" => m.next <= m.due

Boots == {"boot", "loop", "download", "prepare"}
Workers == {"none", "start", "announce", "stop_update", "stop_again",
            "stop_failure", "update", "schedule", "manual", "stop", "restart"}

\* Types, and an entry that PolicyState::save and load accept.
TypeOK ==
    /\ now \in 0 .. Horizon /\ since \in 0 .. MaxJump
    /\ jumped \in Int /\ jumps \in 0 .. MaxJumps
    /\ mods \in ModMaintenance /\ Validate(mods)
    /\ current \in Openings /\ last \in Openings
    /\ auto \in BOOLEAN
    /\ pc \in Boots \union {"off", "starting", "running"}
    /\ resume \in BOOLEAN
    /\ worker \in Workers
    /\ closing_game \in BOOLEAN /\ hit \in BOOLEAN
    /\ closing \in {"none", "0", "8"}
    /\ faulted \in BOOLEAN
    /\ exit \in {"none", "0", "1", "8", "lost"}
    /\ game \in BOOLEAN
    /\ tries \in [Openings -> Nat]
    /\ told \in 0 .. MOD_NOTICE_DELAY
    /\ broken \in BOOLEAN
    /\ losses \in 0 .. MaxLosses

Init ==
    /\ now = 0 /\ since = 0 /\ jumped = 0 /\ jumps = 0
    /\ mods = Default /\ current = 0 /\ last = 0 /\ auto \in BOOLEAN
    /\ pc = "off" /\ resume = TRUE /\ worker = "none"
    /\ closing_game = FALSE /\ hit = FALSE
    /\ closing = "none" /\ faulted = FALSE /\ exit = "0" /\ game = FALSE
    /\ tries = [o \in Openings |-> 0] /\ told = 0 /\ broken = FALSE
    /\ losses = 0

-----------------------------------------------------------------------------
(* The schedule: merged windows, the start included and the end excluded. *)

At(t) == {w \in Windows : w[1] <= t /\ t < w[2]}
Open == Windows = {} \/ At(now) # {}
OpeningId == IF At(now) = {} THEN 0 ELSE (CHOOSE w \in At(now) : TRUE)[1]
ClosingSoon == \E w \in At(now) : w[2] - now <= MOD_NOTICE_DELAY

-----------------------------------------------------------------------------
(* ModMaintenance and PolicyState *)

Queued(m) == m.phase \notin {"Idle", "Failed"}

Request(m) ==
    [m EXCEPT !.phase = "Pending", !.due = 0, !.next = 0, !.attempts = 0,
              !.manual = FALSE, !.resume = TRUE]

QueueModUpdate(m, again) ==
    [Request(m) EXCEPT !.manual = TRUE, !.resume = again]

FinishModUpdate(m, ok) ==
    IF ok THEN [Default EXCEPT !.outdated = m.outdated]
    ELSE IF m.attempts >= MOD_ATTEMPTS
    THEN [m EXCEPT !.phase = "Failed"]
    ELSE [m EXCEPT !.phase = "Retry", !.due = MOD_RETRY_DELAY]

\* Mutant: an update that the container's end interrupted is repeated for free.
ResumeAfterRestartRefunds(m) ==
    IF m.phase = "Updating" THEN Request(m) ELSE m

\* resume_after_restart: an update that was writing has failed.
ResumeAfterRestart(m) ==
    IF m.phase = "Updating" THEN FinishModUpdate(m, FALSE) ELSE m

\* clock_changed: the two clocks disagree by more than one check interval.
ClockChanged ==
    \/ since + jumped < 0
    \/ jumped < -Tolerance
    \/ jumped > Tolerance

Clip(t) == IF t < -MaxJump THEN -MaxJump ELSE t
Shift(m, d) ==
    IF m.phase \in {"Announcing", "Retry"}
    THEN [m EXCEPT !.due = Clip(@ + d),
                   !.next = IF m.phase = "Announcing" THEN Clip(@ + d) ELSE 0]
    ELSE m

\* Mutant: the countdown follows the wall clock.
AfterClockChangeNever(m) == m

\* A jump moves countdown and retry with the wall clock.
AfterClockChange(m) == IF ClockChanged THEN Shift(m, jumped) ELSE m

\* ModMaintenance::action: the next state and the action to execute.
Outcome(m, action) == [mods |-> m, action |-> action]
ModAction(m, running, ready) ==
    IF \/ m.phase \in {"Idle", "Updating", "Failed"}
       \/ m.phase = "Retry" /\ m.due > 0
    THEN Outcome(m, "none")
    ELSE IF m.phase = "Announcing" /\ running
    THEN IF m.due <= 0
         THEN Outcome([m EXCEPT !.phase = "Stopping", !.due = 0, !.next = 0], "stop_update")
         ELSE IF m.next <= 0
         THEN Outcome([m EXCEPT !.next = 1], "announce")
         ELSE Outcome(m, "none")
    ELSE IF m.phase = "Stopping" /\ running
    THEN Outcome(m, "stop_again")
    ELSE IF running
    THEN IF ready
         THEN Outcome([m EXCEPT !.phase = "Announcing", !.due = MOD_NOTICE_DELAY,
                                !.next = 1], "announce")
         ELSE Outcome(m, "none")
    ELSE IF m.attempts < MOD_ATTEMPTS
    THEN Outcome([m EXCEPT !.phase = "Updating", !.due = 0, !.next = 0,
                           !.attempts = @ + 1], "update")
    ELSE Outcome(m, "exhausted")

\* Policy::plan up to the clock: a later opening renews a failed request, an
\* outdated Mod queues one, and maintenance switched off is forgotten.
Observed(m, new, outdated) ==
    LET renewed == IF new /\ m.phase = "Failed" THEN Request(m) ELSE m
        noticed == IF /\ auto /\ outdated
                      /\ ~renewed.outdated /\ renewed.phase = "Idle"
                   THEN [renewed EXCEPT !.phase = "Pending"] ELSE renewed
        base == IF ~auto /\ ~noticed.manual /\ noticed.attempts = 0
                THEN Default ELSE noticed
    IN [base EXCEPT !.outdated = outdated]

\* Mutant: a request that the closing overtakes is forgotten.
WithdrawForgets(m, phases) == IF m.phase \in phases THEN Default ELSE m

\* Closing withdraws the countdown and keeps the request.
Withdraw(m, phases) ==
    IF m.phase \in phases
    THEN [m EXCEPT !.phase = "Pending", !.due = 0, !.next = 0] ELSE m

\* Mutant: the scheduled stop waits for a quiet room.
StopsNowPolitely(running, busy) == running /\ ~busy

\* Outside the windows games stop at once unless files are being written.
StopsNow(running, busy) == running /\ worker # "update"

\* The rest of Policy::plan, for a room whose games run or not.
Decide(m, running, ready, busy) ==
    IF ~Open
    THEN Outcome(Withdraw(m, {"Announcing", "Stopping"}),
                 IF StopsNow(running, busy) THEN "schedule" ELSE "none")
    ELSE IF worker = "update"
    THEN Outcome(m, "none")
    ELSE IF m.phase = "Failed"
    THEN Outcome(m, IF running THEN "stop_failure" ELSE "none")
    ELSE IF Queued(m)
    THEN IF ClosingSoon
         THEN Outcome(Withdraw(m, {"Announcing"}),
                      IF busy \/ ~ready THEN "none" ELSE "announce")
         ELSE IF busy THEN Outcome(m, "none")
         ELSE ModAction(m, running, ready)
    ELSE IF busy THEN Outcome(m, "none")
    ELSE IF ~running THEN Outcome(m, "start")
    ELSE Outcome(m, IF ClosingSoon /\ ready THEN "announce" ELSE "none")

\* opening_id.filter(...)
NewOpening(changed) ==
    /\ OpeningId # 0 /\ ~changed
    /\ current # OpeningId /\ OpeningId > last

\* plan() over the mods entry, and what it writes besides it.
Plan(m, changed, running, ready, busy, outdated) ==
    Decide(Observed(m, NewOpening(changed), outdated), running, ready, busy)

PlanWrites(changed) ==
    /\ current' = OpeningId
    /\ last' = IF NewOpening(changed) THEN OpeningId ELSE last
    /\ since' = 0 /\ jumped' = 0

-----------------------------------------------------------------------------
(* Containers *)

Alive == pc # "off" /\ closing = "none" /\ ~faulted

\* The memory of the Agent and the games are gone.
Gone(code) ==
    /\ pc' = "off" /\ exit' = code
    /\ resume' = TRUE /\ worker' = "none"
    /\ closing_game' = FALSE /\ hit' = FALSE
    /\ closing' = "none" /\ faulted' = FALSE /\ game' = FALSE
    /\ since' = 0 /\ jumped' = 0 /\ told' = 0
    /\ UNCHANGED <<now, jumps, current, last, auto, tries, broken>>

RequestExit(code) == closing' = IF closing = "none" THEN code ELSE closing

\* Agent::run after its loop: shutdown of the games, then record_stop unless the
\* exit is a fault or no game was ever spawned here.
End ==
    /\ pc # "off" /\ (closing # "none" \/ faulted)
    /\ Gone(IF faulted THEN "1" ELSE closing)
    /\ mods' = IF /\ ~faulted /\ pc \in {"starting", "running"}
                  /\ mods.phase = "Updating"
               THEN FinishModUpdate(mods, FALSE) ELSE mods
    /\ UNCHANGED losses

\* The container is killed.
Lose ==
    /\ pc # "off" /\ losses < MaxLosses
    /\ losses' = losses + 1
    /\ Gone("lost")
    /\ UNCHANGED mods

\* SIGTERM or SIGINT.
Signal ==
    /\ Alive /\ losses < MaxLosses
    /\ losses' = losses + 1
    /\ RequestExit("0")
    /\ UNCHANGED <<clock, policy, pc, resume, worker, closing_game, hit, faulted,
                   exit, game, history>>

\* A shard ends by itself, or Kill: the room requires a new container.
Fault ==
    /\ game /\ ~faulted /\ losses < MaxLosses
    /\ losses' = losses + 1
    /\ faulted' = TRUE /\ game' = FALSE
    /\ UNCHANGED <<clock, policy, pc, resume, worker, closing_game, hit, closing,
                   exit, history>>

\* systemd restarts every end but 0; a unit that ended with 0 waits for its
\* timer or an operator.
Restart ==
    /\ pc = "off" /\ exit # "0"
    /\ pc' = "boot" /\ exit' = "none"
    /\ UNCHANGED <<clock, policy, resume, worker, closing_game, hit, closing,
                   faulted, game, history, losses>>

Activate ==
    /\ pc = "off" /\ exit = "0"
    /\ pc' = "boot" /\ exit' = "none"
    /\ UNCHANGED <<clock, policy, resume, worker, closing_game, hit, closing,
                   faulted, game, history, losses>>

-----------------------------------------------------------------------------
(* Agent::initialize *)

\* Up to the maintenance loop: closed is RecoveryState.closed, has_code whether
\* the Mod setup names any Mod.
Initialize ==
    /\ pc = "boot" /\ Alive
    /\ LET manual == mods.manual /\ Queued(mods) IN
       IF ~Open /\ ~manual
       THEN /\ RequestExit("0")
            /\ UNCHANGED <<clock, policy, pc, resume, broken>>
       ELSE \E closed, has_code \in BOOLEAN :
            LET planned == Plan(ResumeAfterRestart(mods), FALSE, FALSE, FALSE,
                                TRUE, FALSE).mods
                queued == IF auto /\ ~closed /\ planned.phase = "Idle" /\ has_code
                          THEN [planned EXCEPT !.phase = "Pending"] ELSE planned
            IN /\ mods' = queued
               /\ PlanWrites(FALSE)
               /\ resume' = queued.resume
               /\ broken' = (broken \/ ResumeAfterRestart(mods).phase = "Failed")
               /\ IF closed /\ ~manual
                  THEN RequestExit("0") /\ pc' = pc
                  ELSE pc' = "loop" /\ closing' = closing
               /\ UNCHANGED <<now, jumps, auto>>
    /\ UNCHANGED <<worker, closing_game, hit, faulted, exit, game, tries, told, losses>>

Begun == tries' = [tries EXCEPT ![last] = @ + 1]

\* Mutant: games may start while a retry is pending.
LoopDoneEarly == mods.phase \in {"Idle", "Retry"}

LoopDone == mods.phase = "Idle"

\* Mutant: closing ends an explicit request, too.
LoopClosesAlways == mods.phase = "Failed" \/ ~Open

LoopCloses == mods.phase = "Failed" \/ (~mods.manual /\ ~Open)

\* One turn of the maintenance loop.  A turn that finds nothing due sleeps.
Loop ==
    /\ pc = "loop" /\ Alive
    /\ IF LoopDone
       THEN /\ IF ~resume \/ ~Open THEN RequestExit("0") /\ pc' = pc
                                   ELSE pc' = "prepare" /\ closing' = closing
            /\ UNCHANGED <<mods, tries>>
       ELSE IF LoopCloses
       THEN RequestExit("0") /\ UNCHANGED <<mods, pc, tries>>
       ELSE LET step == ModAction(mods, FALSE, FALSE) IN
            /\ mods' = step.mods
            /\ CASE step.action = "update"    -> pc' = "download" /\ Begun /\ closing' = closing
                 [] step.action = "exhausted" -> RequestExit("0") /\ UNCHANGED <<pc, tries>>
                 [] OTHER                     -> UNCHANGED <<pc, closing, tries>>
    /\ UNCHANGED <<clock, current, last, auto, resume, worker, closing_game, hit,
                   faulted, exit, game, told, broken, losses>>

\* The native updater ended; its result is persisted.
Download ==
    /\ pc = "download" /\ Alive
    /\ pc' = "loop"
    /\ \E ok \in BOOLEAN :
          /\ mods' = FinishModUpdate(mods, ok)
          /\ tries' = IF ok THEN [o \in Openings |-> 0] ELSE tries
          /\ broken' = (~ok /\ (broken \/ mods.attempts >= MOD_ATTEMPTS))
    /\ UNCHANGED <<clock, current, last, auto, resume, worker, closing_game, hit,
                   closing, faulted, exit, game, told, losses>>

\* Recovery and the checks before launch may close the room.
Refuse ==
    /\ pc = "prepare" /\ Alive
    /\ RequestExit("0")
    /\ UNCHANGED <<clock, policy, pc, resume, worker, closing_game, hit, faulted,
                   exit, game, history, losses>>

Launch ==
    /\ pc = "prepare" /\ Alive
    /\ Open
    /\ game' = TRUE /\ pc' = "starting"
    /\ UNCHANGED <<clock, policy, resume, worker, closing_game, hit, closing,
                   faulted, exit, history, losses>>

Initialized ==
    /\ pc = "starting" /\ Alive
    /\ pc' = "running"
    /\ UNCHANGED <<clock, policy, resume, worker, closing_game, hit, closing,
                   faulted, exit, game, history, losses>>

-----------------------------------------------------------------------------
(* Agent::tick and the operations of clients *)

Running == pc = "running" /\ Alive

\* Execution of a planned action: a scheduled stop needs no permit, interrupts
\* its holder and is submitted once; everything else needs the permit.
Dispatch(action) ==
    CASE action = "none" -> UNCHANGED <<worker, closing_game, hit>>
      [] action = "schedule" ->
            /\ closing_game' = TRUE
            /\ IF closing_game THEN UNCHANGED <<worker, hit>>
               ELSE IF worker = "none" THEN worker' = "schedule" /\ hit' = hit
               ELSE worker' = worker /\ hit' = TRUE
      [] OTHER -> worker' = action /\ UNCHANGED <<closing_game, hit>>

\* Observations that another operation crossed are dropped: busy, and no Mod
\* is reported.
Tick ==
    /\ Running
    /\ \E busy, ready, outdated \in BOOLEAN :
          /\ worker # "none" => busy
          /\ ready => game
          /\ outdated => ready /\ ~busy
          /\ LET changed == ClockChanged
                 plan == Plan(AfterClockChange(mods), changed, game, ready, busy,
                              outdated)
             IN /\ mods' = plan.mods
                /\ PlanWrites(changed)
                /\ told' = IF plan.mods.phase = "Announcing" /\ mods.phase # "Announcing"
                           THEN 0 ELSE told
                /\ tries' = IF plan.action = "update"
                            THEN [tries EXCEPT ![last'] = @ + 1] ELSE tries
                /\ Dispatch(plan.action)
    /\ UNCHANGED <<now, jumps, auto, pc, resume, closing, faulted, exit, game, broken,
                   losses>>

\* The permit goes to the scheduled stop that waits for it, if there is one.
Released == IF closing_game /\ worker # "schedule" THEN "schedule" ELSE "none"

\* invoke() accepts an operation.
Accepts == Running /\ ~closing_game /\ worker = "none" /\ ~Queued(mods)

\* Stop and Restart.
Submit ==
    /\ Accepts
    /\ worker' \in {"stop", "restart"}
    /\ UNCHANGED <<clock, policy, pc, resume, closing_game, hit, closing, faulted,
                   exit, game, history, losses>>

\* The Host edits the policy of an inactive unit itself.
Inactive == pc = "off" /\ exit = "0"

SetPolicy ==
    /\ Inactive \/ Accepts
    /\ auto' = ~auto
    /\ UNCHANGED <<clock, mods, current, last, agent, history, losses>>

\* update_mods of a running room, or by the Host with the room stopped.  The
\* request is durable before the games are asked to stop.
UpdateMods ==
    /\ (Inactive /\ ~Queued(mods)) \/ Accepts
    /\ \E again \in BOOLEAN : mods' = QueueModUpdate(mods, again)
    /\ worker' = IF pc = "off" THEN worker ELSE "manual"
    /\ tries' = [o \in Openings |-> 0]
    /\ UNCHANGED <<clock, current, last, auto, pc, resume, closing_game, hit, closing,
                   faulted, exit, game, told, broken, losses>>

Stopping == {"manual", "stop", "restart"}

\* The exit that a finished worker requests.
ExitOf(kind) ==
    IF kind \in {"start", "stop_update", "stop_again", "manual", "restart"} THEN "8" ELSE "0"

Leaves(kind) == kind \notin {"announce", "update"}

\* The worker completes its operation.  Only "update" writes a result.
WorkerEnds ==
    /\ Running /\ worker # "none"
    /\ game' = (game /\ worker \notin Stopping)
    /\ IF Leaves(worker) THEN RequestExit(ExitOf(worker)) ELSE closing' = closing
    /\ closing_game' = (closing_game /\ worker # "schedule")
    /\ \E ok \in BOOLEAN :
          mods' = IF worker = "update" THEN FinishModUpdate(mods, ok) ELSE mods
    /\ worker' = Released /\ hit' = FALSE
    /\ UNCHANGED <<clock, current, last, auto, pc, resume, faulted, exit, history,
                   losses>>

\* The announcement before a first Mod stop fails, or the scheduled stop interrupts
\* the operation: the room may still complete a stop that it has begun.
WorkerFails ==
    /\ Running /\ (worker = "stop_update" \/ hit)
    /\ game' \in IF worker \in Stopping THEN {game, FALSE} ELSE {game}
    /\ worker' = Released /\ hit' = FALSE
    /\ UNCHANGED <<clock, policy, pc, resume, closing_game, closing, faulted, exit,
                   history, losses>>

-----------------------------------------------------------------------------
(* Time *)

Elapse(m, d) == Shift(m, -d)
Baseline == pc \notin {"off", "boot"}

Advance ==
    /\ now' = IF now < Horizon THEN now + 1 ELSE now
    /\ since' = IF Baseline /\ since < MaxJump THEN since + 1 ELSE since
    /\ mods' = Elapse(mods, 1)
    /\ told' = IF mods.phase = "Announcing" /\ told < MOD_NOTICE_DELAY
               THEN told + 1 ELSE told
    /\ UNCHANGED <<jumped, current, last, auto, agent, tries, broken, jumps, losses>>

Jump ==
    /\ jumps < MaxJumps
    /\ jumps' = jumps + 1
    /\ \E d \in Jumps :
          /\ now + d \in 0 .. Horizon
          /\ now' = now + d
          /\ jumped' = IF Baseline THEN jumped + d ELSE 0
          /\ mods' = Elapse(mods, d)
    /\ UNCHANGED <<since, current, last, auto, agent, history, losses>>

-----------------------------------------------------------------------------

BootStep == Initialize \/ Loop \/ Download \/ Refuse \/ Launch \/ Initialized
TickStep == Tick \/ WorkerEnds \/ WorkerFails
ClientStep == Submit \/ SetPolicy \/ UpdateMods
UnitStep == End \/ Restart \/ Activate
Disturbance == Lose \/ Signal \/ Fault \/ Jump

Next == BootStep \/ TickStep \/ ClientStep \/ UnitStep \/ Disturbance \/ Advance

Spec == Init /\ [][Next]_vars

\* Tasks are polled, sleeps and downloads end, systemd and the timer of the
\* room start its unit, time passes.  Clients and disturbances are not forced.
FairSpec ==
    /\ Spec
    /\ WF_vars(BootStep) /\ WF_vars(Tick) /\ WF_vars(WorkerEnds \/ WorkerFails)
    /\ WF_vars(UnitStep) /\ WF_vars(Advance)

-----------------------------------------------------------------------------
(* Properties *)

\* However containers, downloads and clocks fail, an opening brings at most
\* MOD_ATTEMPTS downloads until one succeeds or the operator asks again: the
\* attempt is reserved in the durable entry before the updater runs.
BudgetBoundsDownloads == \A o \in Openings : tries[o] <= MOD_ATTEMPTS

\* Games never run over Mods whose update failed, is unfinished or waits for
\* another attempt, and maintenance of a running room has its whole budget.
GamesOverSoundMods ==
    game => /\ mods.phase \in {"Idle", "Pending", "Announcing", "Stopping"}
            /\ mods.attempts = 0

\* Players are warned: maintenance stops games after its countdown, although the
\* deadline is kept in wall time.  A jump of the clock shortens the countdown by no
\* more than the error that clock_changed tolerates between two plans.
NoticeBeforeStop ==
    worker \in {"stop_update", "stop_again"} => told >= MOD_NOTICE_DELAY - Tolerance * jumps

\* A queued update is forgotten only when a download succeeded or, with
\* automatic maintenance switched off, before its first attempt or after its
\* last one.
MaintenanceNotLost ==
    [][Queued(mods) /\ mods'.phase = "Idle"
          => \/ pc = "download"
             \/ ~auto /\ ~mods.manual /\ mods.attempts = 0
             \/ ~auto /\ mods.attempts = MOD_ATTEMPTS]_vars

\* An explicit update is carried out, in or outside opening hours and whatever
\* interrupts the operation that queued it, until a download succeeds or the
\* attempts are used up.
ManualUpdateSettles ==
    (mods.manual /\ mods.phase = "Pending") ~> ~(mods.manual /\ Queued(mods))

\* Games that run at closing time are stopped, unless the room opens again.
ClosedRoomStops == (game /\ ~Open) ~> (~game \/ Open)

\* README.md: failed downloads leave games closed; an explicit request or a
\* later opening can retry.  So no game runs before a download succeeded.
FailedModsStayClosed == broken => ~game

=============================================================================
