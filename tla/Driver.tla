------------------------------- MODULE Driver -------------------------------
(***************************************************************************)
(* The driver of one shard (driver.rs) and the game it talks to.           *)
(*                                                                         *)
(* Requests go down one pipe (FD 3), one frame at a time.  The game        *)
(* answers on FD 4: correlated DST_RPC replies, and the uncorrelated       *)
(* markers DST_LuaBusy and DST_RemoteCommandDone.  World generations are   *)
(* announced on stdout and by control records on FD 4, and the native      *)
(* lifecycle on FD 5; the three streams are read by separate tasks, so     *)
(* nothing orders them.                                                    *)
(*                                                                         *)
(* Workers:  call, asked, answer  each request: where its worker is, the   *)
(*                   generation it was made for, what its caller got       *)
(*           lock    native_command: a request, "stop" or "free"           *)
(*           inbox   the oneshot the lock holder waits on                  *)
(*           stop    the shared worker of Driver::stop                     *)
(* Shared:   active  the command whose marker is still awaited             *)
(*           shard   DriverState and stop_requested                        *)
(* Process:  pipe    the unread frame on FD 3                              *)
(*           replies, out, life   FD 4, stdout and FD 5                    *)
(*           killed, reaped, lost   Stop::Kill asked; exit reported; some  *)
(*                   output never arrived                                  *)
(* Game:     game    alive, world generation, how far the Lua side is      *)
(*                   installed, the command it executes                    *)
(* History:  ran     executions of each request's command                  *)
(*           farewell  c_shutdown() was written                            *)
(*           busy, faults   markers sent, bad frames sent (both bounded)   *)
(*                                                                         *)
(* Operators commented "Mutant" are wrong on purpose: each shows that a    *)
(* property fails when the definition after it has that bug.               *)
(***************************************************************************)
EXTENDS Naturals, Sequences, FiniteSets

CONSTANTS
    Requests,        \* calls of Driver::request
    HealthRequests,  \* those whose method is "health"
    MAX_PENDING,     \* request slots
    MaxGeneration,   \* bound: worlds the game loads
    MaxBusy,         \* bound: DST_LuaBusy markers
    MaxFaults        \* bound: malformed frames or bootstrap errors

ASSUME RequestsAssumption == IsFiniteSet(Requests) /\ "stop" \notin Requests
                             /\ "free" \notin Requests /\ "none" \notin Requests
                             /\ "shutdown" \notin Requests
ASSUME HealthAssumption == HealthRequests \subseteq Requests
ASSUME PendingAssumption == MAX_PENDING \in Nat \ {0}
ASSUME GenerationAssumption == MaxGeneration \in Nat \ {0}
ASSUME BoundsAssumption == MaxBusy \in Nat /\ MaxFaults \in Nat

VARIABLES call, asked, answer, lock, inbox, stop, active, shard,
          pipe, replies, out, life, killed, reaped, lost,
          game, ran, farewell, busy, faults

workers == <<call, asked, answer, lock, inbox>>
streams == <<replies, out, life>>
process == <<killed, reaped, lost>>
history == <<ran, farewell, busy, faults>>
vars == <<call, asked, answer, lock, inbox, stop, active, shard,
          pipe, replies, out, life, killed, reaped, lost,
          game, ran, farewell, busy, faults>>

Generations == 1 .. MaxGeneration
Values == {"ok", "failed", "refused", "busy", "unknown"}
Answers == {"ok", "failed", "refused", "timeout", "unknown"}

\* The markers of the four reply kinds, and a frame that does not parse.
Marker(kind) == [kind |-> kind, id |-> "none", gen |-> 0, value |-> "none"]
Reply(r, gen, value) ==
    [kind |-> "rpc", id |-> r, gen |-> gen, value |-> value]
Control(gen) == [kind |-> "control", id |-> "none", gen |-> gen, value |-> "none"]
ReplyFrames ==
    [kind : {"rpc", "control", "busy", "done", "bad"},
     id : Requests \union {"none"}, gen : 0 .. MaxGeneration,
     value : {"none", "accepted", "ok", "refused", "error"}]
OutFrames == [kind : {"hello", "health", "error"}, gen : Generations]

\* struct Pending; open: the response sender has not been used.
NoCommand == [id |-> "none", gen |-> 0, accepted |-> FALSE, result |-> "none",
              completed |-> FALSE, synchronized |-> FALSE, open |-> FALSE]
Pendings ==
    [id : Requests \union {"none"}, gen : 0 .. MaxGeneration, accepted : BOOLEAN,
     result : {"none", "ok", "failed", "refused"},
     completed : BOOLEAN, synchronized : BOOLEAN, open : BOOLEAN]

\* The fields of DriverState that steer requests (0: no generation, no health).
DriverStates ==
    [generation : 0 .. MaxGeneration, native_ready : BOOLEAN, ready : BOOLEAN,
     running : BOOLEAN, stopping : BOOLEAN, stop_requested : BOOLEAN,
     health : 0 .. MaxGeneration, failure : BOOLEAN]

NoFrame == "none"
Idle == [id |-> "none", step |-> "none"]
Games ==
    [alive : BOOLEAN, world : Generations, native : BOOLEAN,
     installed : {"no", "rpc", "full", "ready"},
     command : [id : Requests \union {"none"},
                step : {"none", "read", "accepted", "finished"}]]

TypeOK ==
    /\ call \in [Requests -> {"idle", "queued", "writing", "waiting",
                              "expiring", "backoff", "answered"}]
    /\ asked \in [Requests -> 0 .. MaxGeneration]
    /\ answer \in [Requests -> Answers \union {"none"}]
    /\ lock \in Requests \union {"stop", "free"}
    /\ inbox \in Values \union {"none"}
    /\ stop \in {"none", "locking", "sending", "exiting", "ending", "done"}
    /\ active \in Pendings
    /\ shard \in DriverStates
    /\ pipe \in Requests \union {"shutdown", NoFrame}
    /\ replies \in Seq(ReplyFrames)
    /\ out \in Seq(OutFrames)
    /\ life \in Seq({"ready", "stopping"})
    /\ killed \in BOOLEAN /\ reaped \in BOOLEAN /\ lost \in BOOLEAN
    /\ game \in Games
    /\ ran \in [Requests -> Nat]
    /\ farewell \in BOOLEAN
    /\ busy \in 0 .. MaxBusy /\ faults \in 0 .. MaxFaults

Init ==
    /\ call = [r \in Requests |-> "idle"]
    /\ asked = [r \in Requests |-> 0]
    /\ answer = [r \in Requests |-> "none"]
    /\ lock = "free" /\ inbox = "none" /\ stop = "none"
    /\ active = NoCommand
    /\ shard = [generation |-> 0, native_ready |-> FALSE, ready |-> FALSE,
                running |-> TRUE, stopping |-> FALSE, stop_requested |-> FALSE,
                health |-> 0, failure |-> FALSE]
    /\ pipe = NoFrame /\ replies = <<>> /\ out = <<>> /\ life = <<>>
    /\ killed = FALSE /\ reaped = FALSE /\ lost = FALSE
    /\ game = [alive |-> TRUE, world |-> 1, native |-> FALSE,
               installed |-> "no", command |-> Idle]
    /\ ran = [r \in Requests |-> 0]
    /\ farewell = FALSE
    /\ busy = 0 /\ faults = 0

-----------------------------------------------------------------------------
(* Callers and the worker that execute() runs for each of them.            *)

Answer(r, value) ==
    /\ call' = [call EXCEPT ![r] = "answered"]
    /\ answer' = [answer EXCEPT ![r] = value]

Step(r, where) == call' = [call EXCEPT ![r] = where] /\ UNCHANGED answer

Pending == {r \in Requests : call[r] \notin {"idle", "answered"}}

\* Driver::request up to the spawn of its worker.  A caller that goes away
\* later changes nothing: the worker carries on.
Submit(r) ==
    /\ call[r] = "idle"
    /\ IF shard.ready /\ Cardinality(Pending) < MAX_PENDING
       THEN /\ Step(r, "queued")
            /\ asked' = [asked EXCEPT ![r] = shard.generation]
       ELSE Answer(r, "refused") /\ UNCHANGED asked
    /\ UNCHANGED <<lock, inbox, stop, active, shard, pipe, streams, process,
                   game, history>>

\* "request expired before dispatch"
QueueTimesOut(r) ==
    /\ call[r] = "queued"
    /\ Answer(r, "timeout")
    /\ UNCHANGED <<asked, lock, inbox, stop, active, shard, pipe, streams,
                   process, game, history>>

Dispatchable(r) ==
    /\ shard.ready
    /\ ~shard.stopping
    /\ shard.generation = asked[r]
    /\ active = NoCommand \/ active.completed

\* Mutant: every new command claims to be in step with the markers.
DispatchSynchronized(r) ==
    /\ \/ call[r] = "queued" /\ lock = "free"
       \/ call[r] = "backoff"
    /\ inbox' = "none"
    /\ IF Dispatchable(r)
       THEN /\ active' = [NoCommand EXCEPT !.id = r, !.gen = asked[r],
                             !.synchronized = TRUE, !.open = TRUE]
            /\ lock' = r
            /\ Step(r, "writing")
       ELSE Answer(r, "refused") /\ lock' = "free" /\ UNCHANGED active
    /\ UNCHANGED <<asked, stop, shard, pipe, streams, process, game, history>>

\* The head of execute's loop: take over `active`, or refuse.
Dispatch(r) ==
    /\ \/ call[r] = "queued" /\ lock = "free"
       \/ call[r] = "backoff"
    /\ inbox' = "none"
    /\ IF Dispatchable(r)
       THEN /\ active' = [NoCommand EXCEPT !.id = r, !.gen = asked[r],
                             !.synchronized = (active = NoCommand), !.open = TRUE]
            /\ lock' = r
            /\ Step(r, "writing")
       ELSE Answer(r, "refused") /\ lock' = "free" /\ UNCHANGED active
    /\ UNCHANGED <<asked, stop, shard, pipe, streams, process, game, history>>

\* GameProcess::send: one frame, once the game has read the previous one.
Write(r) ==
    /\ call[r] = "writing"
    /\ game.alive /\ pipe = NoFrame
    /\ pipe' = r
    /\ Step(r, "waiting")
    /\ UNCHANGED <<asked, lock, inbox, stop, active, shard, streams, process,
                   game, history>>

\* The write deadline passed, or the game's end of the pipe is closed.
WriteFails(r) ==
    /\ call[r] = "writing"
    /\ Step(r, "expiring")
    /\ UNCHANGED <<asked, lock, inbox, stop, active, shard, pipe, streams,
                   process, game, history>>

Receive(r) ==
    /\ call[r] = "waiting" /\ inbox # "none"
    /\ inbox' = "none"
    /\ IF inbox = "busy"
       THEN Step(r, "backoff") /\ UNCHANGED lock
       ELSE Answer(r, inbox) /\ lock' = "free"
    /\ UNCHANGED <<asked, stop, active, shard, pipe, streams, process, game,
                   history>>

\* The deadline passed while Lua remained busy.
BackoffTimesOut(r) ==
    /\ call[r] = "backoff"
    /\ Answer(r, "timeout")
    /\ lock' = "free"
    /\ UNCHANGED <<asked, inbox, stop, active, shard, pipe, streams, process,
                   game, history>>

\* Mutant: the wait for the result has no deadline.
GiveUpAtExit(r) ==
    /\ call[r] = "waiting" /\ inbox = "none" /\ ~shard.running
    /\ Step(r, "expiring")
    /\ UNCHANGED <<asked, lock, inbox, stop, active, shard, pipe, streams,
                   process, game, history>>

\* The deadline passed with nothing received; the pump may still get in
\* before expire() takes the state lock.
GiveUp(r) ==
    /\ call[r] = "waiting" /\ inbox = "none"
    /\ Step(r, "expiring")
    /\ UNCHANGED <<asked, lock, inbox, stop, active, shard, pipe, streams,
                   process, game, history>>

\* Mutant: a command without acceptance counts as not run.
ExpireAsTimeout(r) ==
    /\ call[r] = "expiring"
    /\ Answer(r, IF active.id # r \/ active.accepted THEN "unknown" ELSE "timeout")
    /\ active' = IF active.id = r
                 THEN [active EXCEPT !.completed = TRUE, !.open = FALSE]
                 ELSE active
    /\ lock' = "free" /\ inbox' = "none"
    /\ UNCHANGED <<asked, stop, shard, pipe, streams, process, game, history>>

\* expire(): the command stays in `active`, completed, until its marker
\* comes or another request supersedes it.
Expire(r) ==
    /\ call[r] = "expiring"
    /\ IF active.id = r
       THEN /\ Answer(r, IF active.result = "none" THEN "unknown"
                         ELSE active.result)
            /\ active' = [active EXCEPT !.completed = TRUE, !.open = FALSE]
       ELSE Answer(r, "unknown") /\ UNCHANGED active
    /\ lock' = "free" /\ inbox' = "none"
    /\ UNCHANGED <<asked, stop, shard, pipe, streams, process, game, history>>

-----------------------------------------------------------------------------
(* The pump: handle_line for the head of each stream.                      *)

\* Pending::deliver: the first value is sent, later ones only recorded.
Deliver(command, value) ==
    /\ active' = [command EXCEPT !.completed = TRUE, !.open = FALSE]
    /\ inbox' = IF command.open THEN value ELSE inbox

\* The same for a command that leaves `active`.
Finish(command, value) ==
    /\ active' = NoCommand
    /\ inbox' = IF command.open THEN value ELSE inbox

RecomputeReady(st) ==
    [st EXCEPT !.ready = /\ st.running /\ ~st.stopping /\ ~st.failure
                         /\ st.native_ready
                         /\ st.health # 0 /\ st.health = st.generation]

\* Mutant: a record of an old world is followed.
StaleFollowed(gen) == FALSE

Stale(gen) == shard.generation > gen

\* Mutant: a new world cancels the stop.
AdvancedStateForgetsStop(gen) ==
    IF shard.generation = gen THEN shard
    ELSE [shard EXCEPT !.generation = gen, !.stopping = FALSE,
                       !.ready = FALSE, !.health = 0]

\* advance_generation on DriverState.
AdvancedState(gen) ==
    IF shard.generation = gen THEN shard
    ELSE [shard EXCEPT !.generation = gen, !.stopping = shard.stop_requested,
                       !.ready = FALSE, !.health = 0]

\* advance_generation on `active`.
AbandonOlder(gen) ==
    IF shard.generation # gen /\ active # NoCommand /\ active.gen # gen
    THEN Deliver(active, "unknown")
    ELSE UNCHANGED <<active, inbox>>

\* Inner::fail: a broken control channel ends the game.
Fail ==
    /\ shard' = [shard EXCEPT !.failure = TRUE, !.ready = FALSE]
    /\ IF active = NoCommand THEN UNCHANGED <<active, inbox>>
       ELSE Deliver(active, "unknown")
    /\ killed' = TRUE

\* Mutant: a rejection by the next world is a protocol error.
RpcStrict(frame) ==
    LET result == IF frame.value = "ok" THEN "ok"
                  ELSE IF active.accepted THEN "failed" ELSE "refused"
    IN IF active.id # frame.id
       THEN UNCHANGED <<active, inbox, shard, killed>>
       ELSE IF frame.gen # active.gen \/ active.result # "none"
       THEN Fail
       ELSE /\ active' = [active EXCEPT !.synchronized = TRUE,
                              !.accepted = active.accepted \/ result # "refused",
                              !.result = IF frame.value = "accepted"
                                         THEN "none" ELSE result]
            /\ UNCHANGED <<inbox, shard, killed>>

\* rpc(): a reply for the active command; others are only counted.
Rpc(frame) ==
    LET rejected == frame.value = "refused" /\ ~active.accepted
        health == /\ frame.value = "ok" /\ active.id \in HealthRequests
                  /\ shard.generation = active.gen
        result == IF rejected THEN "refused"
                  ELSE IF frame.value = "ok" THEN "ok" ELSE "failed"
    IN IF active.id # frame.id
       THEN UNCHANGED <<active, inbox, shard, killed>>
       ELSE IF frame.gen # active.gen /\ ~rejected
       THEN Fail
       ELSE IF frame.value = "accepted"
       THEN /\ active' = [active EXCEPT !.accepted = TRUE, !.synchronized = TRUE]
            /\ UNCHANGED <<inbox, shard, killed>>
       ELSE IF active.result # "none"
       THEN Fail
       ELSE /\ active' = [active EXCEPT !.synchronized = TRUE, !.result = result,
                              !.accepted = active.accepted \/ ~rejected]
            /\ shard' = IF health
                        THEN RecomputeReady([shard EXCEPT !.health = active.gen])
                        ELSE shard
            /\ UNCHANGED <<inbox, killed>>

\* native_barrier(): an uncorrelated marker.
Barrier(kind) ==
    /\ CASE active = NoCommand \/ ~active.synchronized ->
              UNCHANGED <<active, inbox>>
         [] kind = "busy" /\ active.synchronized ->
              IF active.accepted \/ active.result # "none"
              THEN UNCHANGED <<active, inbox>>
              ELSE Finish(active, "busy")
         [] OTHER ->
              Finish(active, IF active.result = "none" THEN "unknown"
                             ELSE active.result)
    /\ UNCHANGED <<shard, killed>>

\* control(): only its effect on the generation.
ControlRecord(gen) ==
    /\ IF Stale(gen) THEN UNCHANGED <<shard, active, inbox>>
       ELSE shard' = AdvancedState(gen) /\ AbandonOlder(gen)
    /\ UNCHANGED killed

PumpReply ==
    /\ shard.running /\ replies # <<>>
    /\ replies' = Tail(replies)
    /\ LET frame == Head(replies)
       IN CASE frame.kind = "rpc" -> Rpc(frame)
            [] frame.kind = "control" -> ControlRecord(frame.gen)
            [] frame.kind = "bad" -> Fail
            [] OTHER -> Barrier(frame.kind)
    /\ UNCHANGED <<call, asked, answer, lock, stop, pipe, out, life, reaped,
                   lost, game, history>>

\* bootstrap(): the generation, its health, or why there is none.
PumpOut ==
    /\ shard.running /\ out # <<>>
    /\ out' = Tail(out)
    /\ LET frame == Head(out)
           advanced == AdvancedState(frame.gen)
       IN IF Stale(frame.gen) THEN UNCHANGED <<shard, active, inbox, killed>>
          ELSE IF frame.kind = "error" THEN Fail
          ELSE /\ shard' = RecomputeReady(
                              IF frame.kind = "health"
                              THEN [advanced EXCEPT !.health = frame.gen]
                              ELSE advanced)
               /\ AbandonOlder(frame.gen)
               /\ UNCHANGED killed
    /\ UNCHANGED <<call, asked, answer, lock, stop, pipe, replies, life, reaped,
                   lost, game, history>>

\* lifecycle(): DST_Master_Ready or DST_SessionId; DST_Stopping or DST_Shutdown.
PumpLife ==
    /\ shard.running /\ life # <<>>
    /\ life' = Tail(life)
    /\ shard' = IF Head(life) = "ready"
                THEN RecomputeReady([shard EXCEPT !.native_ready = TRUE])
                ELSE [shard EXCEPT !.stopping = TRUE, !.ready = FALSE]
    /\ UNCHANGED <<workers, stop, active, pipe, replies, out, process, game,
                   history>>

\* The tail of pump(): every stream has ended and the exit is known.
PumpEnds ==
    /\ shard.running /\ reaped
    /\ replies = <<>> /\ out = <<>> /\ life = <<>>
    /\ shard' = [shard EXCEPT !.running = FALSE, !.ready = FALSE,
                              !.failure = shard.failure \/ lost]
    /\ IF active = NoCommand THEN UNCHANGED <<active, inbox>>
       ELSE Finish(active, IF active.result = "none" THEN "unknown"
                           ELSE active.result)
    /\ UNCHANGED <<call, asked, answer, lock, stop, pipe, streams, process,
                   game, history>>

-----------------------------------------------------------------------------
(* Driver::stop, and the end of the process.                               *)

\* The first caller spawns stop_native; later callers share its worker.
RequestStop ==
    /\ stop = "none"
    /\ shard' = [shard EXCEPT !.stop_requested = TRUE, !.stopping = TRUE,
                              !.ready = FALSE]
    /\ stop' = IF shard.running THEN "locking" ELSE "ending"
    /\ UNCHANGED <<workers, active, pipe, streams, process, game, history>>

StopLocks ==
    /\ stop = "locking" /\ lock = "free"
    /\ lock' = "stop" /\ stop' = "sending"
    /\ UNCHANGED <<call, asked, answer, inbox, active, shard, pipe, streams,
                   process, game, history>>

StopSends ==
    /\ stop = "sending"
    /\ game.alive /\ pipe = NoFrame
    /\ pipe' = "shutdown"
    /\ farewell' = TRUE
    /\ lock' = "free" /\ stop' = "exiting"
    /\ UNCHANGED <<call, asked, answer, inbox, active, shard, streams, process,
                   game, ran, busy, faults>>

\* The deadline passed before c_shutdown() could be written, or the write failed.
StopCannotSend ==
    /\ stop \in {"locking", "sending"}
    /\ lock' = IF lock = "stop" THEN "free" ELSE lock
    /\ stop' = "exiting"
    /\ UNCHANGED <<call, asked, answer, inbox, active, shard, pipe, streams,
                   process, game, history>>

\* Mutant: a game that ignores c_shutdown() is waited for.
StopEscalatesNever ==
    /\ stop = "exiting" /\ reaped
    /\ stop' = "ending"
    /\ UNCHANGED <<workers, active, shard, pipe, streams, process, game, history>>

\* The deadline passed before the exit: SIGTERM, then SIGKILL ten seconds later.
StopEscalates ==
    /\ stop = "exiting"
    /\ ~reaped
    /\ stop' = "ending"
    /\ UNCHANGED <<workers, active, shard, pipe, streams, process, game, history>>

\* waited(): the exit report and the end of the pump.
StopReturns ==
    /\ stop \in {"exiting", "ending"}
    /\ reaped /\ ~shard.running
    /\ stop' = "done"
    /\ UNCHANGED <<workers, active, shard, pipe, streams, process, game, history>>

\* Driver::kill, request_kill or the drop of the last handle.
RequestKill ==
    /\ ~killed
    /\ killed' = TRUE
    /\ UNCHANGED <<workers, stop, active, shard, pipe, streams, reaped, lost,
                   game, history>>

\* supervise() reports the exit once the readers are done; a reader still
\* waiting after OUTPUT_DRAIN_TIMEOUT is aborted and loses what it had left.
Reap ==
    /\ ~game.alive /\ ~reaped
    /\ reaped' = TRUE
    /\ \E kept \in 0 .. Len(replies) :
         /\ replies' = SubSeq(replies, 1, kept)
         /\ lost' = (kept < Len(replies))
    /\ UNCHANGED <<workers, stop, active, shard, pipe, out, life, killed,
                   game, history>>

-----------------------------------------------------------------------------
(* The game: its native reader and the Lua side in resources/lua.          *)

Emit(frame) == replies' = Append(replies, frame)

gameKeeps == <<workers, stop, active, shard, process>>

\* The native reader takes a frame for Lua, which must not be in a command.
GameReads ==
    /\ game.alive /\ pipe \in Requests /\ game.command = Idle
    /\ pipe' = NoFrame
    /\ game' = [game EXCEPT !.command = [id |-> pipe, step |-> "read"]]
    /\ UNCHANGED <<gameKeeps, streams, history>>

\* It answers DST_LuaBusy and forgets the frame.
GameIsBusy ==
    /\ game.alive /\ pipe \in Requests /\ busy < MaxBusy
    /\ pipe' = NoFrame
    /\ Emit(Marker("busy"))
    /\ busy' = busy + 1
    /\ UNCHANGED <<gameKeeps, out, life, game, ran, farewell, faults>>

\* There is no Lua context: the frame disappears.
GameDrops ==
    /\ game.alive /\ pipe \in Requests
    /\ pipe' = NoFrame
    /\ UNCHANGED <<gameKeeps, streams, game, history>>

\* c_shutdown() runs as a console command.
GameShutsDown ==
    /\ game.alive /\ pipe = "shutdown"
    /\ pipe' = NoFrame
    /\ Emit(Marker("done"))
    /\ life' = Append(life, "stopping")
    /\ UNCHANGED <<gameKeeps, out, game, history>>

LuaAt(step) == game.alive /\ game.command.step = step
LuaGoto(step) == game' = [game EXCEPT !.command.step = step]

\* ExecuteConsoleCommand before rpc.install: no structured answer.
LuaIgnores ==
    /\ LuaAt("read") /\ game.installed = "no"
    /\ LuaGoto("finished")
    /\ UNCHANGED <<gameKeeps, pipe, streams, history>>

\* reject("stale_generation") or reject("not_ready")
LuaRejects ==
    /\ LuaAt("read") /\ game.installed # "no"
    /\ asked[game.command.id] # game.world \/ game.installed = "rpc"
    /\ Emit(Reply(game.command.id, game.world, "refused"))
    /\ LuaGoto("finished")
    /\ UNCHANGED <<gameKeeps, pipe, out, life, history>>

LuaAccepts ==
    /\ LuaAt("read") /\ game.installed \in {"full", "ready"}
    /\ asked[game.command.id] = game.world
    /\ Emit(Reply(game.command.id, game.world, "accepted"))
    /\ LuaGoto("accepted")
    /\ UNCHANGED <<gameKeeps, pipe, out, life, history>>

\* The acceptance could not be written: reject("lua_error"), nothing run.
LuaErrors ==
    /\ LuaAt("read") /\ game.installed \in {"full", "ready"}
    /\ asked[game.command.id] = game.world
    /\ Emit(Reply(game.command.id, game.world, "error"))
    /\ LuaGoto("finished")
    /\ UNCHANGED <<gameKeeps, pipe, out, life, history>>

\* respond(): call the method and publish what it returned; its own errors
\* use the words of a rejection too.
LuaRuns ==
    /\ LuaAt("accepted")
    /\ ran' = [ran EXCEPT ![game.command.id] = @ + 1]
    /\ \E value \in {"ok", "refused"} :
         Emit(Reply(game.command.id, game.world, value))
    /\ LuaGoto("finished")
    /\ UNCHANGED <<gameKeeps, pipe, out, life, farewell, busy, faults>>

\* The native side marks the end of the command.
GameMarksDone ==
    /\ LuaAt("finished")
    /\ Emit(Marker("done"))
    /\ game' = [game EXCEPT !.command = Idle]
    /\ UNCHANGED <<gameKeeps, pipe, out, life, history>>

\* The game loads another world: a new Lua state, the command in hand gone.
GameReloads ==
    /\ game.alive /\ game.world < MaxGeneration
    /\ game' = [game EXCEPT !.world = @ + 1, !.installed = "no", !.command = Idle]
    /\ UNCHANGED <<gameKeeps, pipe, streams, history>>

\* bootstrap.start: rpc.install, and the control records of a world load.
LuaInstallsRpc ==
    /\ game.alive /\ game.installed = "no"
    /\ game' = [game EXCEPT !.installed = "rpc"]
    /\ UNCHANGED replies \/ Emit(Control(game.world))
    /\ UNCHANGED <<gameKeeps, pipe, out, life, history>>

\* bootstrap.install: announce the generation, install the rest.
LuaInstalls ==
    /\ game.alive /\ game.installed = "rpc"
    /\ game' = [game EXCEPT !.installed = "full"]
    /\ out' = Append(out, [kind |-> "hello", gen |-> game.world])
    /\ UNCHANGED <<gameKeeps, pipe, replies, life, history>>

\* bootstrap.ready: publish the health of this generation.
LuaIsReady ==
    /\ game.alive /\ game.installed = "full"
    /\ game' = [game EXCEPT !.installed = "ready"]
    /\ out' = Append(out, [kind |-> "health", gen |-> game.world])
    /\ UNCHANGED <<gameKeeps, pipe, replies, life, history>>

\* bootstrap.report: an error of this generation.
LuaReportsError ==
    /\ game.alive /\ game.installed \in {"rpc", "full"} /\ faults < MaxFaults
    /\ out' = Append(out, [kind |-> "error", gen |-> game.world])
    /\ faults' = faults + 1
    /\ UNCHANGED <<gameKeeps, pipe, replies, life, game, ran, farewell, busy>>

\* A mandatory frame that is malformed, oversized or cannot be read.
GameGarbles ==
    /\ game.alive /\ faults < MaxFaults
    /\ Emit(Marker("bad"))
    /\ faults' = faults + 1
    /\ UNCHANGED <<gameKeeps, pipe, out, life, game, ran, farewell, busy>>

\* DST_Master_Ready, once per process.
GameIsReady ==
    /\ game.alive /\ ~game.native
    /\ game' = [game EXCEPT !.native = TRUE]
    /\ life' = Append(life, "ready")
    /\ UNCHANGED <<gameKeeps, pipe, replies, out, history>>

\* The game exits by itself, or is ended by a signal.
GameExits ==
    /\ game.alive
    /\ game' = [game EXCEPT !.alive = FALSE, !.command = Idle]
    /\ UNCHANGED <<gameKeeps, pipe, streams, history>>

GameDiesOfSignal == (killed \/ stop = "ending") /\ GameExits

-----------------------------------------------------------------------------
Worker(r) ==
    \/ Submit(r) \/ QueueTimesOut(r) \/ Dispatch(r) \/ Write(r) \/ WriteFails(r)
    \/ Receive(r) \/ BackoffTimesOut(r) \/ GiveUp(r) \/ Expire(r)

Pump == PumpReply \/ PumpOut \/ PumpLife \/ PumpEnds

Stopper == RequestStop \/ StopLocks \/ StopSends \/ StopCannotSend
           \/ StopEscalates \/ StopReturns

Game ==
    \/ GameReads \/ GameIsBusy \/ GameDrops \/ GameShutsDown \/ LuaIgnores
    \/ LuaRejects \/ LuaAccepts \/ LuaErrors \/ LuaRuns \/ GameMarksDone \/ GameReloads
    \/ LuaInstallsRpc \/ LuaInstalls \/ LuaIsReady \/ LuaReportsError
    \/ GameGarbles \/ GameIsReady \/ GameExits

Next ==
    \/ \E r \in Requests : Worker(r)
    \/ Pump
    \/ Stopper
    \/ RequestKill
    \/ Reap
    \/ Game

Spec == Init /\ [][Next]_vars

(***************************************************************************)
(* Deadlines elapse, spawned tasks run, and the kernel delivers SIGKILL.   *)
(* Nothing is assumed of the game: it may answer, or never answer.         *)
(***************************************************************************)
Fairness ==
    /\ \A r \in Requests :
         /\ WF_vars(QueueTimesOut(r)) /\ WF_vars(WriteFails(r))
         /\ WF_vars(Receive(r)) /\ WF_vars(BackoffTimesOut(r))
         /\ WF_vars(GiveUp(r)) /\ WF_vars(Expire(r))
    /\ WF_vars(PumpReply) /\ WF_vars(PumpOut) /\ WF_vars(PumpLife)
    /\ WF_vars(PumpEnds)
    /\ WF_vars(StopCannotSend) /\ WF_vars(StopEscalates) /\ WF_vars(StopReturns)
    /\ WF_vars(Reap) /\ WF_vars(GameDiesOfSignal)

FairSpec == Spec /\ Fairness

-----------------------------------------------------------------------------
(* Properties.                                                             *)

Remote == INSTANCE RemoteCall WITH ran <- ran, answer <- answer

\* The driver keeps RemoteCall's promise whatever the game does with a frame:
\* no command runs twice although execute() resends after DST_LuaBusy, and
\* an answer that denies the command (NotReady, Timeout) is true forever.
ImplementsRemoteCall == Remote!Spec

\* No command runs twice.  A caller told "ok" had its command run; one told
\* NotReady or Timeout never has, not even later by a frame still in the pipe.
AnswersAreHonest ==
    \A r \in Requests :
        /\ ran[r] <= 1
        /\ answer[r] = "ok" => ran[r] = 1
        /\ answer[r] \in {"refused", "timeout"} => ran[r] = 0

\* state.ready speaks of the world the driver knows: the game said it is up, a
\* health record of this generation, no stop asked for, no failure, a running process.
ReadyIsSound ==
    shard.ready =>
        /\ shard.running /\ ~shard.failure /\ shard.native_ready
        /\ ~shard.stopping /\ ~shard.stop_requested
        /\ shard.health # 0 /\ shard.health = shard.generation

\* No record that arrives late on its stream brings an old world back, and a ready
\* shard stays ready until it stops, fails, ends or has loaded a newer world.
NoOldWorld ==
    /\ shard'.generation >= shard.generation
    /\ shard.ready /\ ~shard'.ready =>
           \/ ~shard'.running \/ shard'.failure \/ shard'.stopping
           \/ shard'.generation > shard.generation

\* Readiness follows the newest world that any of the three streams announced
\* (advance_generation, recompute_ready).
ReadyIsCurrent == []ReadyIsSound /\ [][NoOldWorld]_vars

\* stop() writes c_shutdown() once however often it is called, and no
\* request reaches the game after it.
ShutdownIsLast == [][farewell => pipe' \in {pipe, NoFrame}]_vars

\* A game that keeps the protocol is never killed for breaking it: replies
\* that cross a reload or arrive after their deadline are not failures.
NoFalseAlarm == shard.failure => faults > 0 \/ lost

\* Every submitted request is answered, whatever the game does.
EveryCallAnswered ==
    \A r \in Requests : (call[r] = "queued") ~> (call[r] = "answered")

\* Every stop ends with the game reaped and its output drained.
StopSettles == (stop # "none") ~> (stop = "done")

=============================================================================
