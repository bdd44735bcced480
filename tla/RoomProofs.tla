----------------------------- MODULE RoomProofs -----------------------------
(***************************************************************************)
(* Theorems about a room, for every set of shards and clients: its         *)
(* operations, which contend for one permit (Room), and its requests,      *)
(* which ask one world after another (Worlds).                             *)
(*                                                                         *)
(* Room.  Games are spawned by the holder of the mutation permit alone, so *)
(* while a stop_inner is joining its drivers nothing starts behind its     *)
(* back (Exclusive), and the drivers it no longer waits for stay as it     *)
(* judged them (Judged).  A game that ended badly is waited for by every   *)
(* stop_inner, watched by its monitor, or was recorded (FaultInv).         *)
(*                                                                         *)
(* Worlds.  A shard that is asked twice may have loaded another world in   *)
(* between, and what it showed the first time is kept as what it still     *)
(* implies.  Of an avatar (Trace): its entity is on no other shard, and in *)
(* the same generation its GUID stands for no other entity; so a command   *)
(* that is guarded by session, generation and GUID hits the entity that    *)
(* was located, and one that is leaving never comes back.  Of a world that *)
(* came back with a new generation (Witness): there is a load that it      *)
(* descends from.  Of the numbers a save compares (Reached): while the     *)
(* master still has its number, no secondary asked so far can have passed  *)
(* it, for secondaries only follow the master.                             *)
(***************************************************************************)
EXTENDS Room, Worlds, Folding

TaskRecords ==
    [kind : Kinds \union {"cleanup", "none"}, pc : Steps, todo : SUBSET Shards,
     bad : BOOLEAN, late : BOOLEAN, result : {"none", "ok", "error", "busy"}]
Procs == [Shards -> Ends \union {"none", "up"}]

\* Where a task needs the permit.
Working == Dispatching \union StopInner \union {"holding"}

\* What the place of a task says of its operation.
KindFits(x) ==
    /\ x.pc = "killing" => x.kind = "kill"
    /\ x.pc = "reloading" => x.kind = "reload"
    /\ x.pc = "settling" => x.kind \in {"start", "restart", "update_restart"}
    /\ x.pc = "holding" => x.kind = "hold"

\* A stop_inner that no longer waits for a driver has judged it.
JudgedBy(x, p) ==
    x.pc \in StopInner =>
        \A s \in Shards \ x.todo :
            /\ p[s] # "up"
            /\ ~x.bad => p[s] # "undrained" /\ (x.pc # "killing" => p[s] # "unclean")

NoneUp(p) == \A s \in Shards : p[s] # "up"

Types == task \in [Tasks -> TaskRecords] /\ proc \in Procs

Exclusive == \A t \in Tasks : task[t].pc \in Working => permit = t
Fitting == \A t \in Tasks : KindFits(task[t])
Judged == \A t \in Tasks : JudgedBy(task[t], proc)
Down ==
    /\ phase = "Stopped" => NoneUp(proc)
    /\ \A t \in Tasks : task[t].pc = "holding" => NoneUp(proc)

RoomInv == Types /\ Exclusive /\ Fitting /\ Judged /\ Down

\* A task that was not invoked.
LEMMA NoTaskType == NoTask \in TaskRecords /\ NoTask.pc = "idle"
BY DEF NoTask, TaskRecords, Steps

\* A room begins with the invariant.
LEMMA RoomInit == Init => RoomInv
<1> SUFFICES ASSUME Init PROVE RoomInv
  OBVIOUS
<1>1. task \in [Tasks -> TaskRecords] /\ \A t \in Tasks : task[t].pc = "idle"
  BY NoTaskType DEF Init
<1>2. proc \in Procs /\ NoneUp(proc)
  BY DEF Init, Procs, NoneUp
<1>3. Exclusive
  BY <1>1 DEF Exclusive, Working, Dispatching, StopInner
<1>4. Fitting /\ Judged
  BY <1>1 DEF Fitting, KindFits, Judged, JudgedBy, StopInner
<1> QED
  BY <1>1, <1>2, <1>3, <1>4 DEF RoomInv, Types, Down

-----------------------------------------------------------------------------
(* One task moves *)

\* Only t moves.
TaskMoves(t) ==
    /\ task' \in [Tasks -> TaskRecords]
    /\ \A u \in Tasks : u # t => task'[u] = task[u]

\* t ends with success; what StopIsHonest says of that.
EndsWell(t) == task[t].pc # "done" /\ task'[t].pc = "done" /\ task'[t].result = "ok"
Honest(t) ==
    /\ task[t].kind = "kill" => AllStopped
    /\ task[t].kind \in {"stop", "shutdown"}
         => \A s \in Shards : proc[s] \in {"none", "clean"}
HonestEnds == \A t \in Tasks : EndsWell(t) => Honest(t)

\* A task that moves while the games stay or end keeps every part of the invariant, if its
\* new place fits its operation and what it holds.
LEMMA MoveKeeps ==
    ASSUME RoomInv, NEW t \in Tasks, TaskMoves(t), proc' \in Procs,
           proc' = proc \/ permit = t,
           permit' = permit \/ permit = t \/ permit = "free",
           task'[t].pc \in Working => permit' = t,
           KindFits(task'[t]), JudgedBy(task'[t], proc'),
           phase' = "Stopped" => NoneUp(proc'),
           task'[t].pc = "holding" => NoneUp(proc'),
           EndsWell(t) => Honest(t)
    PROVE  RoomInv' /\ HonestEnds
<1>1. Types /\ Exclusive /\ Fitting /\ Judged /\ Down
  BY DEF RoomInv
<1>2. ASSUME NEW u \in Tasks, u # t, task[u].pc \in Working
      PROVE  permit = u /\ permit' = permit /\ proc' = proc
  <2>1. permit = u
    BY <1>1, <1>2 DEF Exclusive
  <2>2. u # "free"
    BY ClientsAssumption DEF Tasks
  <2> QED
    BY <1>2, <2>1, <2>2
<1>3. Exclusive'
  <2>1. ASSUME NEW u \in Tasks, task'[u].pc \in Working PROVE permit' = u
    <3>1. CASE u = t
      BY <2>1, <3>1
    <3>2. CASE u # t
      BY <1>2, <2>1, <3>2 DEF TaskMoves
    <3> QED
      BY <3>1, <3>2
  <2> QED
    BY <2>1 DEF Exclusive
<1>4. Fitting'
  BY <1>1 DEF Fitting, TaskMoves
<1>5. Judged'
  <2>1. ASSUME NEW u \in Tasks PROVE JudgedBy(task'[u], proc')
    <3>1. CASE u # t
      <4>1. task'[u] = task[u]
        BY <3>1 DEF TaskMoves
      <4>2. CASE task[u].pc \in StopInner
        <5>1. proc' = proc
          BY <1>2, <3>1, <4>2 DEF Working
        <5>2. JudgedBy(task[u], proc)
          BY <1>1 DEF Judged
        <5> QED
          BY <4>1, <5>1, <5>2
      <4>3. CASE task[u].pc \notin StopInner
        BY <4>1, <4>3 DEF JudgedBy
      <4> QED
        BY <4>2, <4>3
    <3> QED
      BY <3>1
  <2> QED
    BY <2>1 DEF Judged
<1>6. Down'
  <2>1. ASSUME NEW u \in Tasks, task'[u].pc = "holding" PROVE NoneUp(proc')
    <3>1. CASE u # t
      <4>1. task[u].pc = "holding"
        BY <2>1, <3>1 DEF TaskMoves
      <4>2. proc' = proc
        BY <1>2, <3>1, <4>1 DEF Working
      <4> QED
        BY <1>1, <4>1, <4>2 DEF Down
    <3> QED
      BY <2>1, <3>1
  <2> QED
    BY <2>1 DEF Down
<1>7. Types'
  BY DEF Types, TaskMoves
<1>8. HonestEnds
  BY DEF HonestEnds, EndsWell, TaskMoves
<1> QED
  BY <1>3, <1>4, <1>5, <1>6, <1>7, <1>8 DEF RoomInv

\* A task that is not working any more, or not yet, proves nothing.
LEMMA RestFits ==
    ASSUME NEW x, x.pc \in {"idle", "queueing", "queued", "done"}, NEW p
    PROVE  /\ x.pc \notin Working /\ KindFits(x) /\ JudgedBy(x, p)
           /\ x.pc # "holding"
BY DEF Working, Dispatching, StopInner, KindFits, JudgedBy

\* A task is submitted, lines up or is refused.
LEMMA RestKeeps ==
    ASSUME RoomInv, NEW t \in Tasks, TaskMoves(t), proc' = proc,
           permit' = permit \/ permit = "free",
           \/ task'[t].pc \in {"queueing", "queued"}
           \/ task'[t].pc = "done" /\ task'[t].result = "busy",
           phase' = "Stopped" => phase = "Stopped"
    PROVE  RoomInv' /\ HonestEnds
<1>1. proc' \in Procs /\ (phase = "Stopped" => NoneUp(proc))
  BY DEF RoomInv, Types, Down
<1>2. /\ task'[t].pc \notin Working /\ KindFits(task'[t]) /\ JudgedBy(task'[t], proc')
      /\ task'[t].pc # "holding"
  BY DEF Working, Dispatching, StopInner, KindFits, JudgedBy
<1>3. ~EndsWell(t)
  BY DEF EndsWell
<1> QED
  BY <1>1, <1>2, <1>3, MoveKeeps

\* What the invariant says of one task.
LEMMA OfTask ==
    ASSUME RoomInv, NEW t \in Tasks
    PROVE  /\ task \in [Tasks -> TaskRecords] /\ task[t] \in TaskRecords
           /\ proc \in Procs
           /\ task[t].pc \in Working => permit = t
           /\ KindFits(task[t]) /\ JudgedBy(task[t], proc)
           /\ phase = "Stopped" => NoneUp(proc)
BY DEF RoomInv, Types, Exclusive, Fitting, Judged, Down

\* A worker ends and passes the permit on.
LEMMA FinishKeeps ==
    ASSUME RoomInv, NEW t \in Tasks, task[t].pc \in Working,
           NEW result \in {"ok", "error"}, Finish(t, result), proc' \in Procs,
           phase' = "Stopped" => NoneUp(proc'),
           result = "ok" => Honest(t)
    PROVE  RoomInv' /\ HonestEnds
<1>1. permit = t /\ task[t] \in TaskRecords /\ task \in [Tasks -> TaskRecords]
  BY OfTask
<1>2. task' = [task EXCEPT ![t].pc = "done", ![t].result = result]
  BY DEF Finish
<1>3. task'[t].pc = "done" /\ task'[t].result = result /\ TaskMoves(t)
  BY <1>1, <1>2 DEF TaskMoves, TaskRecords, Steps
<1>4. EndsWell(t) => Honest(t)
  BY <1>3 DEF EndsWell
<1> QED
  BY <1>1, <1>3, <1>4, RestFits, MoveKeeps

\* stop_inner begins: it waits for every driver there is.
LEMMA StopKeeps ==
    ASSUME RoomInv, NEW t \in Tasks, permit = t, permit' = permit, proc' = proc,
           NEW pc \in StopInner, pc = "killing" => task[t].kind = "kill",
           NEW force, NEW late \in BOOLEAN, BeginStop(t, pc, force, late)
    PROVE  RoomInv' /\ HonestEnds
<1>1. task[t] \in TaskRecords /\ task \in [Tasks -> TaskRecords] /\ proc \in Procs
  BY OfTask
<1>2. /\ task' = [task EXCEPT ![t].pc = pc, ![t].todo = Drivers,
                              ![t].bad = FALSE, ![t].late = late]
      /\ phase' = "Stopping"
  BY DEF BeginStop, StopWaitsFor
<1>3. Drivers \in SUBSET Shards /\ pc \in Steps
  BY DEF Drivers, Steps
<1>4. /\ task'[t] = [task[t] EXCEPT !.pc = pc, !.todo = Drivers, !.bad = FALSE,
                                    !.late = late]
      /\ \A u \in Tasks : u # t => task'[u] = task[u]
  BY <1>1, <1>2
<1>5. /\ task'[t] \in TaskRecords /\ task'[t].pc = pc /\ task'[t].todo = Drivers
      /\ task'[t].kind = task[t].kind
  BY <1>1, <1>3, <1>4 DEF TaskRecords
<1>6. TaskMoves(t)
  <2>1. task' \in [Tasks -> TaskRecords]
    <3>1. DOMAIN task' = Tasks /\ task' = [u \in Tasks |-> task'[u]]
      BY <1>1, <1>2
    <3>2. \A u \in Tasks : task'[u] \in TaskRecords
      BY <1>1, <1>4, <1>5
    <3> QED
      BY <3>1, <3>2
  <2> QED
    BY <1>4, <2>1 DEF TaskMoves
<1>7. KindFits(task'[t]) /\ pc # "done" /\ pc # "holding"
  BY <1>5 DEF KindFits, StopInner
<1>8. JudgedBy(task'[t], proc')
  BY <1>5 DEF JudgedBy, Drivers
<1> QED
  BY <1>1, <1>2, <1>5, <1>6, <1>7, <1>8, MoveKeeps DEF EndsWell

\* invoke_inner after an error: cleaned up, or over.
LEMMA ErrorKeeps ==
    ASSUME RoomInv, NEW t \in Tasks, task[t].pc \in Working, proc' = proc,
           NEW now, now = "Stopped" => NoneUp(proc), AfterError(t, now)
    PROVE  RoomInv' /\ HonestEnds
<1>1. permit = t /\ proc \in Procs
  BY OfTask
<1>2. CASE now \in CleanupPhases
  <2>1. PICK late \in BOOLEAN : late = (now = "Starting" /\ t \notin hit)
    OBVIOUS
  <2>2. BeginStop(t, "cleanup", FALSE, late) /\ permit' = permit
    BY <1>2, <2>1 DEF AfterError
  <2>3. "cleanup" \in StopInner
    BY DEF StopInner
  <2> QED
    BY <1>1, <2>2, <2>3, StopKeeps
<1>3. CASE now \notin CleanupPhases
  <2>1. Finish(t, "error") /\ phase' = now
    BY <1>3 DEF AfterError
  <2> QED
    BY <1>1, <2>1, FinishKeeps
<1> QED
  BY <1>2, <1>3

\* drivers.clear() and the spawns.
LEMMA LaunchTypes ==
    ASSUME NEW spawned \in SUBSET Shards, NEW asked, Launch(spawned, asked)
    PROVE  /\ proc' \in Procs
           /\ \A s \in Shards \ spawned : proc'[s] = "none"
           /\ spawned = {} => NoneUp(proc')
BY DEF Launch, Procs, NoneUp

\* start_inner, whatever becomes of it.
LEMMA StartKeeps ==
    ASSUME RoomInv, NEW t \in Tasks, task[t].pc \in Working,
           task[t].kind \in {"start", "restart", "update_restart"},
           NEW now, now = "Stopped" => NoneUp(proc), StartInner(t, now)
    PROVE  RoomInv' /\ HonestEnds
<1>1. /\ permit = t /\ proc \in Procs /\ task[t] \in TaskRecords
      /\ task \in [Tasks -> TaskRecords]
      /\ phase = "Stopped" => NoneUp(proc)
  BY OfTask
<1>2. Honest(t)
  BY DEF Honest
<1>3. ASSUME Finish(t, "ok"), UNCHANGED <<phase, restart_required, games>>
      PROVE  RoomInv' /\ HonestEnds
  <2>1. proc' = proc /\ phase' = phase
    BY <1>3 DEF games
  <2> QED
    BY <1>1, <1>2, <1>3, <2>1, FinishKeeps
<1>4. ASSUME AfterError(t, now), proc' = proc PROVE RoomInv' /\ HonestEnds
  BY <1>4, ErrorKeeps
<1>5. ASSUME AfterError(t, "Preparing"), proc' = proc PROVE RoomInv' /\ HonestEnds
  BY <1>5, ErrorKeeps
<1>6. ASSUME Finish(t, "error"), Launch({}, "no"), phase' = "Failed"
      PROVE  RoomInv' /\ HonestEnds
  <2>1. proc' \in Procs
    BY <1>6, LaunchTypes
  <2> QED
    BY <1>6, <2>1, FinishKeeps
<1>7. ASSUME NEW spawned \in (SUBSET Shards) \ {Shards}, Launch(spawned, "stop"),
             phase' = "Stopping", permit' = permit,
             task' = [task EXCEPT ![t].pc = "failing", ![t].todo = spawned,
                                  ![t].bad = FALSE]
      PROVE  RoomInv' /\ HonestEnds
  <2>1. proc' \in Procs /\ \A s \in Shards \ spawned : proc'[s] = "none"
    BY <1>7, LaunchTypes
  <2>2. /\ task'[t].pc = "failing" /\ task'[t].todo = spawned /\ TaskMoves(t)
    BY <1>1, <1>7 DEF TaskMoves, TaskRecords, Steps, StopInner
  <2>3. KindFits(task'[t]) /\ JudgedBy(task'[t], proc')
    BY <2>1, <2>2 DEF KindFits, JudgedBy
  <2> QED
    BY <1>1, <1>7, <2>1, <2>2, <2>3, MoveKeeps DEF EndsWell
<1>8. ASSUME Launch(Shards, "no"), phase' = "Starting", permit' = permit,
             Goto(t, "settling")
      PROVE  RoomInv' /\ HonestEnds
  <2>1. proc' \in Procs
    BY <1>8, LaunchTypes
  <2>2. /\ task'[t].pc = "settling" /\ task'[t].kind = task[t].kind /\ TaskMoves(t)
    BY <1>1, <1>8 DEF Goto, TaskMoves, TaskRecords, Steps, Dispatching
  <2>3. KindFits(task'[t]) /\ JudgedBy(task'[t], proc')
    BY <2>1, <2>2 DEF KindFits, JudgedBy, StopInner
  <2> QED
    BY <1>1, <1>8, <2>1, <2>2, <2>3, MoveKeeps DEF EndsWell
<1> QED
  BY <1>3, <1>4, <1>5, <1>6, <1>7, <1>8 DEF StartInner

-----------------------------------------------------------------------------
(* Submitting an operation *)

\* An operation is invoked.
LEMMA InvokeKeeps ==
    ASSUME RoomInv, NEW c \in Tasks, NEW kind \in Mutations, Invoke(c, kind)
    PROVE  RoomInv' /\ HonestEnds
<1>1. /\ task[c] \in TaskRecords /\ task \in [Tasks -> TaskRecords]
      /\ proc \in Procs /\ (phase = "Stopped" => NoneUp(proc))
  BY OfTask
<1>2. proc' = proc /\ phase' = phase
  BY DEF Invoke, games
<1>3. CASE /\ permit = "free" /\ permit' = c
           /\ task' = [task EXCEPT ![c].kind = kind, ![c].pc = "begin"]
  <2>1. task'[c].pc = "begin" /\ TaskMoves(c)
    BY <1>1, <1>3 DEF TaskMoves, TaskRecords, Steps, Dispatching, Kinds
  <2>2. KindFits(task'[c]) /\ JudgedBy(task'[c], proc')
    BY <2>1 DEF KindFits, JudgedBy, StopInner
  <2> QED
    BY <1>1, <1>2, <1>3, <2>1, <2>2, MoveKeeps DEF EndsWell
<1>4. CASE /\ permit' = permit
           /\ task' = [task EXCEPT ![c].kind = kind, ![c].pc = "done",
                                   ![c].result = "busy"]
  <2>1. task'[c].pc = "done" /\ task'[c].result = "busy" /\ TaskMoves(c)
    BY <1>1, <1>4 DEF TaskMoves, TaskRecords, Steps, Kinds
  <2> QED
    BY <1>1, <1>2, <1>4, <2>1, RestKeeps
<1> QED
  BY <1>3, <1>4 DEF Invoke

\* kill is invoked.
LEMMA InvokeKillKeeps ==
    ASSUME RoomInv, NEW c \in Tasks, InvokeKill(c)
    PROVE  RoomInv' /\ HonestEnds
<1>1. /\ task[c] \in TaskRecords /\ task \in [Tasks -> TaskRecords]
      /\ proc \in Procs /\ (phase = "Stopped" => NoneUp(proc))
  BY OfTask
<1>2. proc' = proc /\ phase' = phase /\ permit' = permit
  BY DEF InvokeKill
<1>3. CASE task' = [task EXCEPT ![c].kind = "kill", ![c].pc = "queueing"]
  <2>1. task'[c].pc = "queueing" /\ TaskMoves(c)
    BY <1>1, <1>3 DEF TaskMoves, TaskRecords, Steps, Kinds
  <2> QED
    BY <1>1, <1>2, <2>1, RestKeeps
<1>4. CASE task' = [task EXCEPT ![c].kind = "kill", ![c].pc = "done",
                                ![c].result = "busy"]
  <2>1. task'[c].pc = "done" /\ task'[c].result = "busy" /\ TaskMoves(c)
    BY <1>1, <1>4 DEF TaskMoves, TaskRecords, Steps, Kinds
  <2> QED
    BY <1>1, <1>2, <2>1, RestKeeps
<1> QED
  BY <1>3, <1>4 DEF InvokeKill

\* shutdown and its signal.
LEMMA ShutdownKeeps ==
    ASSUME RoomInv, NEW c \in Tasks, ShutdownPriority(c)
    PROVE  RoomInv' /\ HonestEnds
<1>1. task[c] \in TaskRecords /\ task \in [Tasks -> TaskRecords] /\ proc \in Procs
  BY OfTask
<1>2. proc' = proc /\ phase' = "Stopping"
  BY DEF ShutdownPriority, games
<1>3. ASSUME NEW pc \in {"queued", "queueing"},
             task' = [task EXCEPT ![c].kind = "shutdown", ![c].pc = pc]
      PROVE  task'[c].pc = pc /\ TaskMoves(c)
  BY <1>1, <1>3 DEF TaskMoves, TaskRecords, Steps, Kinds
<1>4. PICK pc \in {"queued", "queueing"} :
        task' = [task EXCEPT ![c].kind = "shutdown", ![c].pc = pc]
  BY DEF ShutdownPriority
<1>5. permit = "free" \/ permit' = permit
  BY DEF ShutdownPriority
<1> QED
  BY <1>1, <1>2, <1>3, <1>4, <1>5, RestKeeps

\* A fault is forced on the room; every task notices.
LEMMA ForceFaultKeeps ==
    ASSUME RoomInv, NEW c \in Tasks, ForceFault(c)
    PROVE  RoomInv' /\ HonestEnds
<1>1. /\ task[c] \in TaskRecords /\ task \in [Tasks -> TaskRecords]
      /\ proc \in Procs /\ (phase = "Stopped" => NoneUp(proc))
  BY OfTask
<1>2. /\ proc' = proc /\ phase' = phase /\ permit' = permit
      /\ task' = [task EXCEPT ![c].kind = "fault", ![c].pc = "queueing"]
  BY DEF ForceFault, games
<1>3. task'[c].pc = "queueing" /\ TaskMoves(c)
  BY <1>1, <1>2 DEF TaskMoves, TaskRecords, Steps, Kinds
<1> QED
  BY <1>1, <1>2, <1>3, RestKeeps

\* The preloader takes the permit of a stopped room.
LEMMA WhileStoppedKeeps ==
    ASSUME RoomInv, NEW c \in Tasks, WhileStopped(c)
    PROVE  RoomInv' /\ HonestEnds
<1>1. /\ task[c] \in TaskRecords /\ task \in [Tasks -> TaskRecords]
      /\ proc \in Procs /\ (phase = "Stopped" => NoneUp(proc))
  BY OfTask
<1>2. proc' = proc /\ phase' = phase
  BY DEF WhileStopped, games
<1>3. CASE /\ permit = "free" /\ AllStopped /\ permit' = c
           /\ task' = [task EXCEPT ![c].kind = "hold", ![c].pc = "holding"]
  <2>1. task'[c].pc = "holding" /\ task'[c].kind = "hold" /\ TaskMoves(c)
    BY <1>1, <1>3 DEF TaskMoves, TaskRecords, Steps, Kinds
  <2>2. KindFits(task'[c]) /\ JudgedBy(task'[c], proc')
    BY <2>1 DEF KindFits, JudgedBy, StopInner
  <2>3. NoneUp(proc')
    BY <1>2, <1>3 DEF AllStopped, NoneUp
  <2> QED
    BY <1>1, <1>2, <1>3, <2>1, <2>2, <2>3, MoveKeeps DEF EndsWell
<1>4. CASE /\ permit' = permit
           /\ task' = [task EXCEPT ![c].kind = "hold", ![c].pc = "done",
                                   ![c].result = "busy"]
  <2>1. task'[c].pc = "done" /\ task'[c].result = "busy" /\ TaskMoves(c)
    BY <1>1, <1>4 DEF TaskMoves, TaskRecords, Steps, Kinds
  <2> QED
    BY <1>1, <1>2, <1>4, <2>1, RestKeeps
<1> QED
  BY <1>3, <1>4 DEF WhileStopped

\* A holder of the permit goes.
LEMMA DropHoldKeeps ==
    ASSUME RoomInv, NEW t \in Tasks, DropHold(t)
    PROVE  RoomInv' /\ HonestEnds
<1>1. task[t].pc \in Working /\ Finish(t, "ok") /\ proc' = proc /\ phase' = phase
  BY DEF DropHold, Working, games
<1>2. Honest(t)
  BY OfTask DEF DropHold, KindFits, Honest
<1> QED
  BY <1>1, <1>2, OfTask, FinishKeeps

\* A task takes the free permit, or joins those that wait for it.
LEMMA AcquireKeeps ==
    ASSUME RoomInv, NEW t \in Tasks, Acquire(t)
    PROVE  RoomInv' /\ HonestEnds
<1>1. proc' = proc /\ phase' = phase /\ (permit' = permit \/ permit = "free")
  BY DEF Acquire, games
<1>2. task'[t].pc = "queued" /\ TaskMoves(t)
  BY OfTask DEF Acquire, Goto, TaskMoves, TaskRecords, Steps
<1> QED
  BY <1>1, <1>2, RestKeeps

\* The permit is given.
LEMMA AcquiredKeeps ==
    ASSUME RoomInv, NEW t \in Tasks, Acquired(t)
    PROVE  RoomInv' /\ HonestEnds
<1>1. permit = t /\ permit' = permit /\ proc' = proc
  BY DEF Acquired
<1>2. PICK pc \in {"killing", "closing"} :
        pc = IF task[t].kind = "kill" THEN "killing" ELSE "closing"
  OBVIOUS
<1>3. PICK force \in BOOLEAN : force = (task[t].kind = "kill")
  OBVIOUS
<1>4. BeginStop(t, pc, force, FALSE)
  BY <1>2, <1>3 DEF Acquired
<1>5. pc \in StopInner /\ (pc = "killing" => task[t].kind = "kill")
  BY <1>2 DEF StopInner
<1> QED
  BY <1>1, <1>4, <1>5, StopKeeps

-----------------------------------------------------------------------------
(* dispatch() *)

\* t goes on to a place of dispatch() outside stop_inner.
LEMMA GotoKeeps ==
    ASSUME RoomInv, NEW t \in Tasks, permit = t, permit' = permit, proc' = proc,
           phase' \in {phase, "Starting"}  \/ (phase' = "Stopped" /\ NoneUp(proc)),
           NEW pc \in Dispatching \ StopInner, Goto(t, pc),
           pc = "reloading" => task[t].kind = "reload", pc # "settling"
    PROVE  RoomInv' /\ HonestEnds
<1>1. /\ task'[t].pc = pc /\ task'[t].kind = task[t].kind /\ TaskMoves(t)
  BY OfTask DEF Goto, TaskMoves, TaskRecords, Steps
<1>2. KindFits(task'[t]) /\ JudgedBy(task'[t], proc') /\ pc \notin {"done", "holding"}
  BY <1>1 DEF KindFits, JudgedBy, StopInner, Dispatching
<1> QED
  BY <1>1, <1>2, OfTask, MoveKeeps DEF EndsWell

\* configure: the drivers of a stopped room are forgotten.
LEMMA ConfigureKeeps ==
    ASSUME RoomInv, NEW t \in Tasks, task[t].pc \in Working,
           task[t].kind = "configure", Configure(t)
    PROVE  RoomInv' /\ HonestEnds
<1>1. CASE Launch({}, "no") /\ Finish(t, "ok")
  <2>1. proc' \in Procs /\ NoneUp(proc')
    BY <1>1, LaunchTypes
  <2>2. Honest(t)
    BY DEF Honest
  <2> QED
    BY <1>1, <2>1, <2>2, FinishKeeps
<1>2. CASE AfterError(t, phase) /\ proc' = proc
  BY <1>2, OfTask, ErrorKeeps
<1> QED
  BY <1>1, <1>2 DEF Configure

\* start, restart, stop and reload begin.
LEMMA BeginKeeps ==
    ASSUME RoomInv, NEW t \in Tasks, Begin(t)
    PROVE  RoomInv' /\ HonestEnds
<1>1. task[t].pc \in Working /\ permit = t
  BY OfTask DEF Begin, Working, Dispatching
<1>2. phase = "Stopped" => NoneUp(proc)
  BY OfTask
<1>3. CASE task[t].kind = "start"
  <2>1. StartInner(t, phase)
    BY <1>3 DEF Begin, Updates
  <2> QED
    BY <1>1, <1>2, <1>3, <2>1, StartKeeps
<1>4. CASE task[t].kind = "configure"
  <2>1. Configure(t)
    BY <1>4 DEF Begin, Updates
  <2> QED
    BY <1>1, <1>4, <2>1, ConfigureKeeps
<1>5. CASE task[t].kind \in {"stop", "restart"} \union Updates
  <2>1. Goto(t, "notice") /\ phase' = phase /\ permit' = permit /\ proc' = proc
    BY <1>5 DEF Begin, Updates, games
  <2>2. "notice" \in Dispatching \ StopInner
    BY DEF Dispatching, StopInner
  <2> QED
    BY <1>1, <2>1, <2>2, GotoKeeps
<1>6. CASE task[t].kind \notin {"start", "configure", "stop", "restart"} \union Updates
  <2>1. \/ Goto(t, "asking") /\ phase' = phase /\ permit' = permit /\ proc' = proc
        \/ AfterError(t, phase) /\ proc' = proc
    BY <1>6 DEF Begin, games
  <2>2. "asking" \in Dispatching \ StopInner
    BY DEF Dispatching, StopInner
  <2> QED
    BY <1>1, <1>2, <2>1, <2>2, GotoKeeps, ErrorKeeps
<1> QED
  BY <1>3, <1>4, <1>5, <1>6

\* The notice before a stop is over.
LEMMA NoticeEndsKeeps ==
    ASSUME RoomInv, NEW t \in Tasks, NoticeEnds(t)
    PROVE  RoomInv' /\ HonestEnds
<1>1. task[t].pc \in Working /\ permit = t /\ proc' = proc
  BY OfTask DEF NoticeEnds, Working, Dispatching
<1>2. CASE BeginStop(t, "stopping", FALSE, FALSE) /\ permit' = permit
  <2>1. "stopping" \in StopInner
    BY DEF StopInner
  <2> QED
    BY <1>1, <1>2, <2>1, StopKeeps
<1>3. CASE AfterError(t, phase)
  BY <1>1, <1>3, OfTask, ErrorKeeps
<1> QED
  BY <1>2, <1>3 DEF NoticeEnds

\* A start whose games are up.
LEMMA SettledKeeps ==
    ASSUME RoomInv, NEW t \in Tasks, Settled(t) \/ Reloaded(t)
    PROVE  RoomInv' /\ HonestEnds
<1>1. task[t].pc \in Working /\ Finish(t, "ok") /\ proc' = proc /\ phase' = "Running"
  BY DEF Settled, Reloaded, Working, Dispatching, games
<1>2. Honest(t)
  BY OfTask DEF Settled, Reloaded, KindFits, Honest
<1> QED
  BY <1>1, <1>2, OfTask, FinishKeeps

\* A start that fails.
LEMMA SettleFailsKeeps ==
    ASSUME RoomInv, NEW t \in Tasks, SettleFails(t)
    PROVE  RoomInv' /\ HonestEnds
<1>1. /\ permit = t /\ permit' = permit /\ proc' = proc
      /\ BeginStop(t, "failing", FALSE, FALSE)
  BY OfTask DEF SettleFails, Working, Dispatching
<1>2. "failing" \in StopInner
  BY DEF StopInner
<1> QED
  BY <1>1, <1>2, StopKeeps

\* A reload is under way.
LEMMA ReloadAskedKeeps ==
    ASSUME RoomInv, NEW t \in Tasks, ReloadAsked(t)
    PROVE  RoomInv' /\ HonestEnds
<1>1. /\ permit = t /\ permit' = permit /\ proc' = proc /\ phase' = "Starting"
      /\ Goto(t, "reloading") /\ task[t].kind = "reload"
  BY OfTask DEF ReloadAsked, Working, Dispatching
<1>2. "reloading" \in Dispatching \ StopInner
  BY DEF Dispatching, StopInner
<1> QED
  BY <1>1, <1>2, GotoKeeps

\* The answer of the games to a native request.
LEMMA NativeAnswersKeeps ==
    ASSUME RoomInv, NEW t \in Tasks, NativeAnswers(t)
    PROVE  RoomInv' /\ HonestEnds
<1>1. task[t].pc \in Working /\ Finish(t, "ok") /\ proc' = proc /\ phase' = phase
  BY DEF NativeAnswers, Working, Dispatching, games
<1>2. Honest(t)
  BY DEF NativeAnswers, Honest
<1> QED
  BY <1>1, <1>2, OfTask, FinishKeeps

\* The download between the two halves of an update.
LEMMA DownloadedKeeps ==
    ASSUME RoomInv, NEW t \in Tasks, Downloaded(t)
    PROVE  RoomInv' /\ HonestEnds
<1>1. task[t].pc \in Working
  BY DEF Downloaded, Working, Dispatching
<1>2. CASE AfterError(t, phase) /\ proc' = proc
  BY <1>1, <1>2, OfTask, ErrorKeeps
<1>3. CASE task[t].kind = "update_restart" /\ StartInner(t, phase)
  BY <1>1, <1>3, OfTask, StartKeeps
<1>4. CASE /\ task[t].kind = "update" /\ Finish(t, "ok")
           /\ UNCHANGED <<phase, restart_required, games>>
  <2>1. proc' = proc /\ phase' = phase
    BY <1>4 DEF games
  <2>2. Honest(t)
    BY <1>4 DEF Honest
  <2> QED
    BY <1>1, <1>4, <2>1, <2>2, OfTask, FinishKeeps
<1> QED
  BY <1>2, <1>3, <1>4 DEF Downloaded

\* A task that fails.
LEMMA FailsKeeps ==
    ASSUME RoomInv, NEW t \in Tasks, Fails(t) \/ Interrupted(t)
    PROVE  RoomInv' /\ HonestEnds
<1>1. task[t].pc \in Working /\ AfterError(t, phase) /\ proc' = proc
  BY DEF Fails, Interrupted, Working, Dispatching
<1> QED
  BY <1>1, OfTask, ErrorKeeps

-----------------------------------------------------------------------------
(* stop_inner *)

\* stop_inner hears of a driver.
LEMMA StopReportsKeeps ==
    ASSUME RoomInv, NEW t \in Tasks, NEW s \in Shards, StopReports(t, s)
    PROVE  RoomInv' /\ HonestEnds
<1>1. /\ task \in [Tasks -> TaskRecords] /\ task[t] \in TaskRecords /\ proc \in Procs
      /\ KindFits(task[t]) /\ JudgedBy(task[t], proc)
      /\ phase = "Stopped" => NoneUp(proc)
  BY OfTask
<1>2. /\ proc' = proc /\ phase' = phase /\ permit' = permit
      /\ task[t].pc \in StopInner /\ proc[s] \in Ends
  BY DEF StopReports, games
<1>3. permit = t
  BY <1>2, OfTask DEF Working
<1>4. PICK failed \in BOOLEAN : failed = (task[t].bad \/ StopFailed(t, s))
  OBVIOUS
<1>5. task' = [task EXCEPT ![t].todo = @ \ {s}, ![t].bad = failed]
  BY <1>1, <1>4 DEF StopReports
<1>6. /\ task'[t].pc = task[t].pc /\ task'[t].kind = task[t].kind
      /\ task'[t].todo = task[t].todo \ {s} /\ task'[t].bad = failed /\ TaskMoves(t)
  BY <1>1, <1>5 DEF TaskMoves, TaskRecords
<1>7. KindFits(task'[t]) /\ task'[t].pc \notin {"done", "holding"}
  BY <1>1, <1>2, <1>6 DEF KindFits, StopInner
<1>8. JudgedBy(task'[t], proc')
  <2>1. ASSUME NEW r \in Shards \ task'[t].todo
        PROVE  /\ proc[r] # "up"
               /\ ~failed => proc[r] # "undrained"
                             /\ (task[t].pc # "killing" => proc[r] # "unclean")
    <3>1. CASE r = s
      BY <1>2, <1>4, <3>1 DEF Ends, StopFailed, Forcing
    <3>2. CASE r \notin task[t].todo
      <4>1. /\ proc[r] # "up"
            /\ ~task[t].bad => proc[r] # "undrained"
                               /\ (task[t].pc # "killing" => proc[r] # "unclean")
        BY <1>1, <1>2, <3>2 DEF JudgedBy
      <4> QED
        BY <1>4, <4>1
    <3> QED
      BY <1>6, <2>1, <3>1, <3>2
  <2> QED
    BY <1>2, <1>6, <2>1 DEF JudgedBy
<1> QED
  BY <1>1, <1>2, <1>3, <1>6, <1>7, <1>8, MoveKeeps DEF EndsWell

\* stop_inner is through with its drivers.
LEMMA StopEndsKeeps ==
    ASSUME RoomInv, NEW t \in Tasks, StopEnds(t)
    PROVE  RoomInv' /\ HonestEnds
<1>1. /\ task[t] \in TaskRecords /\ proc \in Procs
      /\ KindFits(task[t]) /\ JudgedBy(task[t], proc)
  BY OfTask
<1>2. task[t].pc \in StopInner /\ task[t].todo = {} /\ task[t].pc \in Working
  BY DEF StopEnds, Working
<1>3. permit = t
  BY <1>2, OfTask
<1>4. /\ NoneUp(proc)
      /\ ~task[t].bad => \A s \in Shards : proc[s] # "undrained"
                           /\ (task[t].pc # "killing" => proc[s] # "unclean")
  BY <1>1, <1>2 DEF JudgedBy, NoneUp
<1>5. ~task[t].bad => Honest(t)
  <2> SUFFICES ASSUME ~task[t].bad PROVE Honest(t)
    OBVIOUS
  <2>1. AllStopped
    BY <1>4 DEF AllStopped, NoneUp
  <2>2. ASSUME task[t].kind \in {"stop", "shutdown"}, NEW s \in Shards
        PROVE  proc[s] \in {"none", "clean"}
    <3>1. task[t].pc # "killing"
      BY <1>1, <2>2 DEF KindFits
    <3> QED
      BY <1>1, <1>4, <3>1 DEF NoneUp, Procs, Ends
  <2> QED
    BY <2>1, <2>2 DEF Honest
<1>6. CASE \E result \in {"ok", "error"} :
              Finish(t, result) /\ proc' = proc /\ (result = "ok" => ~task[t].bad)
  BY <1>1, <1>2, <1>4, <1>5, <1>6, FinishKeeps
<1>7. CASE task[t].kind = "restart" /\ StartInner(t, "Stopped")
  BY <1>2, <1>4, <1>7, StartKeeps
<1>8. CASE Goto(t, "downloading") /\ permit' = permit /\ proc' = proc
           /\ phase' = "Stopped"
  <2>1. "downloading" \in Dispatching \ StopInner
    BY DEF Dispatching, StopInner
  <2> QED
    BY <1>3, <1>4, <1>8, <2>1, GotoKeeps
<1>9. \/ \E result \in {"ok", "error"} :
              Finish(t, result) /\ proc' = proc /\ (result = "ok" => ~task[t].bad)
      \/ task[t].kind = "restart" /\ StartInner(t, "Stopped")
      \/ Goto(t, "downloading") /\ permit' = permit /\ proc' = proc
           /\ phase' = "Stopped"
  BY DEF StopEnds, games
<1> QED
  BY <1>6, <1>7, <1>8, <1>9

-----------------------------------------------------------------------------
(* The games and their monitors *)

\* A game that ends was still waited for by every stop_inner.
LEMMA ExitKeeps ==
    ASSUME RoomInv, NEW s \in Shards, Exit(s)
    PROVE  RoomInv' /\ HonestEnds
<1>1. Types /\ Exclusive /\ Fitting /\ Judged /\ Down
  BY DEF RoomInv
<1>2. PICK end \in Ends : proc' = [proc EXCEPT ![s] = end]
  BY DEF Exit
<1>3. /\ task' = task /\ permit' = permit /\ phase' = phase /\ proc[s] = "up"
  BY DEF Exit
<1>4. Types' /\ NoneUp(proc) = FALSE
  BY <1>1, <1>2, <1>3 DEF Types, Procs, NoneUp
<1>5. Exclusive' /\ Fitting'
  BY <1>1, <1>3 DEF Exclusive, Fitting
<1>6. Down'
  BY <1>1, <1>3, <1>4 DEF Down
<1>7. Judged'
  <2>1. ASSUME NEW u \in Tasks PROVE JudgedBy(task[u], proc')
    <3>1. JudgedBy(task[u], proc)
      BY <1>1 DEF Judged
    <3>2. \A r \in Shards : r # s => proc'[r] = proc[r]
      BY <1>1, <1>2 DEF Types, Procs
    <3> QED
      BY <1>3, <3>1, <3>2 DEF JudgedBy
  <2> QED
    BY <1>3, <2>1 DEF Judged
<1>8. HonestEnds
  BY <1>3 DEF HonestEnds, EndsWell
<1> QED
  BY <1>4, <1>5, <1>6, <1>7, <1>8 DEF RoomInv

\* The monitor of a game that ended.
LEMMA MonitorKeeps ==
    ASSUME RoomInv, NEW s \in Tasks, Monitor(s)
    PROVE  RoomInv' /\ HonestEnds
<1>1. proc' = proc /\ permit' = permit
  BY DEF Monitor
<1>2. CASE /\ phase' = "Failed"
           /\ task' = [task EXCEPT ![s] = [NoTask EXCEPT !.kind = "cleanup",
                                                         !.pc = "queueing"]]
  <2>1. task'[s].pc = "queueing" /\ TaskMoves(s)
    BY <1>1, <1>2, OfTask DEF TaskMoves, TaskRecords, NoTask, Steps
  <2> QED
    BY <1>1, <1>2, <2>1, RestKeeps
<1>3. CASE phase' = phase /\ task' = task
  BY <1>1, <1>3 DEF RoomInv, Types, Exclusive, Fitting, Judged, Down, HonestEnds,
                    EndsWell
<1> QED
  BY <1>2, <1>3 DEF Monitor

-----------------------------------------------------------------------------
(* The specification *)

\* Every step keeps the invariant and ends an operation as it went.
LEMMA RoomNext == RoomInv /\ [Next]_vars => RoomInv' /\ HonestEnds
<1> SUFFICES ASSUME RoomInv, [Next]_vars PROVE RoomInv' /\ HonestEnds
  OBVIOUS
<1>1. ASSUME NEW c \in Clients, NEW kind \in Mutations, Invoke(c, kind)
      PROVE  RoomInv' /\ HonestEnds
  BY <1>1, InvokeKeeps DEF Tasks
<1>2. ASSUME NEW c \in Clients,
             InvokeKill(c) \/ ShutdownPriority(c) \/ ForceFault(c) \/ WhileStopped(c)
      PROVE  RoomInv' /\ HonestEnds
  BY <1>2, InvokeKillKeeps, ShutdownKeeps, ForceFaultKeeps, WhileStoppedKeeps DEF Tasks
<1>3. ASSUME NEW t \in Tasks, Advance(t) PROVE RoomInv' /\ HonestEnds
  <2>1. CASE Acquire(t) \/ Acquired(t) \/ Begin(t) \/ NoticeEnds(t)
    BY <2>1, AcquireKeeps, AcquiredKeeps, BeginKeeps, NoticeEndsKeeps
  <2>2. CASE Settled(t) \/ SettleFails(t) \/ ReloadAsked(t) \/ Reloaded(t)
    BY <2>2, SettledKeeps, SettleFailsKeeps, ReloadAskedKeeps
  <2>3. CASE NativeAnswers(t) \/ Downloaded(t) \/ Fails(t) \/ Interrupted(t)
    BY <2>3, NativeAnswersKeeps, DownloadedKeeps, FailsKeeps
  <2>4. CASE \E s \in Shards : StopReports(t, s)
    BY <2>4, StopReportsKeeps
  <2>5. CASE StopEnds(t) \/ DropHold(t)
    BY <2>5, StopEndsKeeps, DropHoldKeeps
  <2> QED
    BY <1>3, <2>1, <2>2, <2>3, <2>4, <2>5 DEF Advance
<1>4. ASSUME NEW s \in Shards, Exit(s) \/ Monitor(s) PROVE RoomInv' /\ HonestEnds
  BY <1>4, ExitKeeps, MonitorKeeps DEF Tasks
<1>5. ASSUME task' = task, proc' = proc, permit' = permit, phase' = phase
      PROVE  RoomInv' /\ HonestEnds
  BY <1>5 DEF RoomInv, Types, Exclusive, Fitting, Judged, Down, HonestEnds, EndsWell
<1>6. ASSUME NEW s \in Shards, ReadyChanges(s) PROVE RoomInv' /\ HonestEnds
  BY <1>5, <1>6 DEF ReadyChanges
<1>7. CASE UNCHANGED vars
  BY <1>5, <1>7 DEF vars
<1> QED
  BY <1>1, <1>2, <1>3, <1>4, <1>6, <1>7 DEF Next

\* A room that reports Stopped, and a room whose saves while_stopped holds for
\* rewriting, has no game running, whatever operations were cut, failed half
\* way or overtook each other (stop_inner, start_inner, require_stopped).
THEOREM StoppedRoomsAreDown == Spec => []StoppedMeansDown
<1>1. RoomInv => StoppedMeansDown
  BY DEF RoomInv, Down, NoneUp, StoppedMeansDown, Up
<1> QED
  BY RoomInit, RoomNext, <1>1, PTL DEF Spec

\* A stop, kill or shutdown that answers with success has left no game running
\* or undrained, and a graceful one none that ended badly: the judgement of
\* stop_inner is still true when its operation reports.
THEOREM StopsAreHonest == Spec => StopIsHonest
<1>1. ASSUME HonestEnds
      PROVE  \A c \in Clients :
                task[c].pc # "done" /\ task'[c].pc = "done" /\ task'[c].result = "ok"
                  => /\ task[c].kind = "kill" => AllStopped
                     /\ task[c].kind \in {"stop", "shutdown"}
                          => \A s \in Shards : proc[s] \in {"none", "clean"}
  BY <1>1 DEF HonestEnds, EndsWell, Honest, Tasks
<1> QED
  BY RoomInit, RoomNext, <1>1, PTL DEF Spec, StopIsHonest

-----------------------------------------------------------------------------
(* Games that ended badly *)

\* start_inner is reached from these kinds of operations.
LaunchKinds == {"start", "restart", "update_restart"}

\* The mixes of operations for which a bad end is never forgotten.  Configure forgets the
\* drivers of a room, also one whose monitor was not polled yet; and a start that was
\* accepted with games up finds phase Stopping once a priority shutdown has set it.  An
\* Agent starts games once, when it boots.
NoShutdowns == \A c \in Clients : "shutdown" \notin Operations[c]
OneLauncher(b) == \A c \in Clients \ {b} : Operations[c] \cap LaunchKinds = {}
OrderlyOperations ==
    /\ \A c \in Clients : "configure" \notin Operations[c]
    /\ NoShutdowns \/ \E b \in Clients : OneLauncher(b)

\* The shards that ended badly.
BadIn(p) == {s \in Shards : p[s] \in {"unclean", "undrained"}}

Asked(t, kind) ==
    /\ t \in Clients => kind \in Operations[t] \union {"none"}
    /\ t \in Shards => kind \in {"none", "cleanup"}

\* A stop_inner waits for every bad end that nobody recorded yet.
Waits(x, f, p, r) ==
    x.pc \in StopInner => f = "Stopping" /\ (~r => BadIn(p) \subseteq x.todo)

\* What phase a task works in, as long as no shutdown sets it.
Tells(x, f, r) ==
    /\ x.pc = "asking" /\ ~r => f = "Running"
    /\ x.pc \in {"settling", "reloading"} /\ ~r => f = "Starting"
HeldBy(f, pc) ==
    /\ f = "Stopping" => pc \in StopInner
    /\ f = "Starting" => pc \in {"settling", "reloading"}

\* In a phase that nobody works in, no game is up and no bad end unrecorded; in the
\* phases with games, each game has its monitor.
QuietIn(f, p, r) ==
    f \in {"Stopped", "Preparing", "Failed"} /\ ~r => \A s \in Shards : p[s] \in {"none", "clean"}
SeenIn(f, p, w, r) ==
    f \in MonitoredPhases /\ ~r => \A s \in Shards : p[s] = "none" \/ s \in w

\* A task that may still reach start_inner.
MayReach(x) ==
    \/ x.pc = "idle"
    \/ x.kind \in LaunchKinds /\ x.pc \in {"begin", "notice", "stopping", "downloading"}

FaultInv ==
    /\ restart_required \in BOOLEAN /\ fault \in BOOLEAN /\ phase \in Phases
    /\ \A t \in Tasks : Asked(t, task[t].kind)
    /\ fault /\ ~restart_required => BadIn(proc) # {}
    /\ \A t \in Tasks : Waits(task[t], phase, proc, restart_required)
    /\ NoShutdowns =>
         /\ \A t \in Tasks : Tells(task[t], phase, restart_required)
         /\ phase \in {"Stopping", "Starting"} =>
              \E t \in Tasks : permit = t /\ HeldBy(phase, task[t].pc)
         /\ QuietIn(phase, proc, restart_required)
         /\ SeenIn(phase, proc, watched, restart_required)
    /\ \A b \in Clients : OneLauncher(b) /\ MayReach(task[b]) =>
         ~fault /\ \A s \in Shards : proc[s] = "none"

\* What a step may not do: launch after a bad end, or end a stop that forgot one.
Sound(t) ==
    /\ task[t].pc \in {"begin", "stopping", "downloading"}
       /\ task'[t].pc \in {"settling", "failing"} => ~fault
    /\ task[t].pc \in StopInner /\ task'[t].pc = "done" /\ fault => restart_required
AllSound == \A t \in Tasks : Sound(t)

\* A room begins without games.
LEMMA FaultInit == Init => FaultInv
<1> SUFFICES ASSUME Init PROVE FaultInv
  OBVIOUS
<1>1. \A t \in Tasks : task[t].pc = "idle" /\ task[t].kind = "none"
  BY DEF Init, NoTask
<1>2. \A s \in Shards : proc[s] = "none"
  BY DEF Init
<1>3. /\ restart_required \in BOOLEAN /\ fault \in BOOLEAN /\ phase \in Phases /\ ~fault
      /\ phase = "Stopped"
  BY DEF Init, Phases
<1>4. \A t \in Tasks : /\ Asked(t, task[t].kind)
                       /\ Waits(task[t], phase, proc, restart_required)
                       /\ Tells(task[t], phase, restart_required)
  BY <1>1 DEF Asked, Waits, Tells, StopInner
<1>5. QuietIn(phase, proc, restart_required) /\ SeenIn(phase, proc, watched, restart_required)
  BY <1>2 DEF QuietIn, SeenIn
<1> QED
  BY <1>2, <1>3, <1>4, <1>5 DEF FaultInv

\* A step of one task is sound if it is so for that task.
LEMMA SoundAlone ==
    ASSUME NEW t \in Tasks, TaskMoves(t), Sound(t)
    PROVE  AllSound
<1> SUFFICES ASSUME NEW u \in Tasks, u # t PROVE Sound(u)
  BY DEF AllSound
<1>1. task'[u] = task[u]
  BY DEF TaskMoves
<1> QED
  BY <1>1 DEF Sound, StopInner

\* The holder of the permit moves: the other tasks are not at work, so only its own
\* place has to fit.
LEMMA HolderMoves ==
    ASSUME RoomInv, FaultInv, NEW t \in Tasks, permit = t, TaskMoves(t),
           task'[t].kind = task[t].kind,
           restart_required' \in BOOLEAN, fault' \in BOOLEAN, phase' \in Phases,
           fault' /\ ~restart_required' => BadIn(proc') # {},
           Waits(task'[t], phase', proc', restart_required'),
           NoShutdowns => /\ Tells(task'[t], phase', restart_required')
                          /\ QuietIn(phase', proc', restart_required')
                          /\ SeenIn(phase', proc', watched', restart_required')
                          /\ phase' \in {"Stopping", "Starting"} =>
                                permit' = t /\ HeldBy(phase', task'[t].pc),
           \/ proc' = proc /\ fault' = fault /\ (MayReach(task'[t]) => MayReach(task[t]))
           \/ task[t].kind \in LaunchKinds /\ ~MayReach(task'[t])
    PROVE  FaultInv'
<1>1. \A u \in Tasks : u # t => task'[u] = task[u] /\ task[u].pc \notin Working
  BY DEF TaskMoves, RoomInv, Exclusive
<1>2. \A u \in Tasks : Asked(u, task'[u].kind)
  BY <1>1 DEF FaultInv
<1>3. \A u \in Tasks : Waits(task'[u], phase', proc', restart_required')
  BY <1>1 DEF Waits, Working
<1>4. NoShutdowns => \A u \in Tasks : Tells(task'[u], phase', restart_required')
  <2>1. \A u \in Tasks : u # t => task'[u].pc \notin {"asking", "settling", "reloading"}
    BY <1>1 DEF Working, Dispatching
  <2> QED
    BY <2>1 DEF Tells
<1>5. ASSUME NEW b \in Clients, OneLauncher(b), MayReach(task'[b])
      PROVE  ~fault' /\ \A s \in Shards : proc'[s] = "none"
  <2>1. CASE proc' = proc /\ fault' = fault /\ (MayReach(task'[t]) => MayReach(task[t]))
    <3>1. b \in Tasks
      BY DEF Tasks
    <3>2. MayReach(task[b])
      BY <1>1, <1>5, <2>1, <3>1
    <3> QED
      BY <1>5, <2>1, <3>2 DEF FaultInv
  <2>2. CASE task[t].kind \in LaunchKinds /\ ~MayReach(task'[t])
    <3>1. t # b
      BY <1>5, <2>2
    <3>2. Asked(t, task[t].kind)
      BY DEF FaultInv
    <3> QED
      BY <1>5, <2>2, <3>1, <3>2 DEF Asked, OneLauncher, LaunchKinds, Tasks
  <2> QED
    BY <2>1, <2>2
<1> QED
  BY <1>2, <1>3, <1>4, <1>5 DEF FaultInv

\* A task that does not work yet moves: the holder of the permit stays.
LEMMA OtherMoves ==
    ASSUME RoomInv, FaultInv, NEW t \in Tasks, task[t].pc \notin Working, TaskMoves(t),
           Asked(t, task'[t].kind), task'[t].pc \in {"begin", "queueing", "queued", "holding", "done"},
           proc' = proc, fault' = fault, watched' = watched,
           restart_required' = restart_required,
           phase' = phase \/ (phase' = "Stopping" /\ ~NoShutdowns),
           permit' = permit \/ permit = "free",
           MayReach(task'[t]) => MayReach(task[t])
    PROVE  FaultInv' /\ AllSound
<1>1. \A u \in Tasks : u # t => task'[u] = task[u]
  BY DEF TaskMoves
<1>2. \A u \in Tasks : Asked(u, task'[u].kind)
  BY <1>1 DEF FaultInv
<1>3. \A u \in Tasks : Waits(task'[u], phase', proc', restart_required')
  <2>1. ASSUME NEW u \in Tasks PROVE Waits(task'[u], phase', proc', restart_required')
    <3>1. CASE u = t
      BY <3>1 DEF Waits, StopInner
    <3>2. CASE u # t
      BY <1>1, <3>2 DEF FaultInv, Waits
    <3> QED
      BY <3>1, <3>2
  <2> QED
    BY <2>1
<1>4. NoShutdowns => \A u \in Tasks : Tells(task'[u], phase', restart_required')
  BY <1>1 DEF FaultInv, Tells
<1>5. ASSUME NoShutdowns, phase' \in {"Stopping", "Starting"}
      PROVE  \E u \in Tasks : permit' = u /\ HeldBy(phase', task'[u].pc)
  <2>1. phase' = phase
    BY <1>5
  <2>2. PICK u \in Tasks : permit = u /\ HeldBy(phase, task[u].pc)
    BY <1>5, <2>1 DEF FaultInv
  <2>3. u # "free"
    BY ClientsAssumption DEF Tasks
  <2>4. u # t
    BY <1>5, <2>1, <2>2 DEF HeldBy, Working, Dispatching
  <2> QED
    BY <1>1, <2>1, <2>2, <2>3, <2>4
<1>6. ASSUME NEW b \in Clients, OneLauncher(b), MayReach(task'[b])
      PROVE  ~fault' /\ \A s \in Shards : proc'[s] = "none"
  <2>1. b \in Tasks
    BY DEF Tasks
  <2>2. MayReach(task[b])
    BY <1>1, <1>6, <2>1
  <2> QED
    BY <1>6, <2>2 DEF FaultInv
<1>7. phase' \in Phases
  BY DEF FaultInv, Phases
<1>8. FaultInv'
  BY <1>2, <1>3, <1>4, <1>5, <1>6, <1>7 DEF FaultInv
<1>9. Sound(t)
  BY DEF Sound, Working
<1> QED
  BY <1>8, <1>9, SoundAlone

\* What the invariant says of the holder of the permit.
LEMMA OfHolder ==
    ASSUME RoomInv, FaultInv, NEW t \in Tasks, task[t].pc \in Working
    PROVE  /\ permit = t
           /\ task \in [Tasks -> TaskRecords] /\ task[t] \in TaskRecords /\ proc \in Procs
           /\ JudgedBy(task[t], proc) /\ KindFits(task[t])
           /\ Waits(task[t], phase, proc, restart_required)
           /\ restart_required \in BOOLEAN /\ fault \in BOOLEAN /\ phase \in Phases
           /\ fault /\ ~restart_required => BadIn(proc) # {}
           /\ NoShutdowns =>
                /\ Tells(task[t], phase, restart_required)
                /\ phase \in {"Stopping", "Starting"} => HeldBy(phase, task[t].pc)
                /\ QuietIn(phase, proc, restart_required)
                /\ SeenIn(phase, proc, watched, restart_required)
<1>1. permit = t
  BY DEF RoomInv, Exclusive
<1> QED
  BY <1>1, OfTask DEF FaultInv

\* A worker ends in phase `now`, the games as they are.
LEMMA FinishForgetsNothing ==
    ASSUME RoomInv, FaultInv, NEW t \in Tasks, task[t].pc \in Working,
           NEW result \in {"ok", "error"}, Finish(t, result), proc' = proc, fault' = fault,
           watched' = watched, restart_required' = restart_required, phase' \in Phases,
           NoShutdowns => /\ QuietIn(phase', proc, restart_required)
                          /\ SeenIn(phase', proc, watched, restart_required)
                          /\ phase' \notin {"Stopping", "Starting"},
           task[t].pc \in StopInner =>
              task[t].todo = {} \/ restart_required \/ ~fault
    PROVE  FaultInv' /\ AllSound
<1>1. /\ permit = t /\ task[t] \in TaskRecords /\ task \in [Tasks -> TaskRecords]
      /\ Waits(task[t], phase, proc, restart_required)
      /\ restart_required \in BOOLEAN /\ fault \in BOOLEAN
      /\ fault /\ ~restart_required => BadIn(proc) # {}
  BY OfHolder
<1>2. task' = [task EXCEPT ![t].pc = "done", ![t].result = result]
  BY DEF Finish
<1>3. task'[t].pc = "done" /\ task'[t].kind = task[t].kind /\ TaskMoves(t)
  BY <1>1, <1>2 DEF TaskMoves, TaskRecords, Steps
<1>4. /\ Waits(task'[t], phase', proc', restart_required')
      /\ Tells(task'[t], phase', restart_required') /\ ~MayReach(task'[t])
  BY <1>3 DEF Waits, Tells, MayReach, StopInner
<1>5. Sound(t)
  BY <1>1, <1>3 DEF Sound, Waits
<1>6. FaultInv'
  BY <1>1, <1>3, <1>4, HolderMoves
<1> QED
  BY <1>3, <1>5, <1>6, SoundAlone

\* stop_inner begins: every bad end is among the drivers that it waits for.
LEMMA StopForgetsNothing ==
    ASSUME RoomInv, FaultInv, NEW t \in Tasks, permit = t, permit' = permit, proc' = proc,
           fault' = fault, watched' = watched,
           NEW required \in BOOLEAN, restart_required' = (restart_required \/ required),
           NEW pc \in StopInner, pc = "stopping" => task[t].pc = "notice",
           pc = "failing" => task[t].pc = "settling",
           NEW force, NEW late \in BOOLEAN, BeginStop(t, pc, force, late)
    PROVE  FaultInv' /\ AllSound
<1>1. /\ task[t] \in TaskRecords /\ task \in [Tasks -> TaskRecords] /\ proc \in Procs
      /\ restart_required \in BOOLEAN /\ fault \in BOOLEAN
      /\ fault /\ ~restart_required => BadIn(proc) # {}
  BY OfTask DEF FaultInv
<1>2. /\ task' = [task EXCEPT ![t].pc = pc, ![t].todo = Drivers,
                              ![t].bad = FALSE, ![t].late = late]
      /\ phase' = "Stopping"
  BY DEF BeginStop, StopWaitsFor
<1>3. Drivers \in SUBSET Shards /\ pc \in Steps
  BY DEF Drivers, Steps
<1>4. /\ task'[t] = [task[t] EXCEPT !.pc = pc, !.todo = Drivers, !.bad = FALSE,
                                    !.late = late]
      /\ \A u \in Tasks : u # t => task'[u] = task[u]
  BY <1>1, <1>2
<1>5. /\ task'[t] \in TaskRecords /\ task'[t].pc = pc /\ task'[t].todo = Drivers
      /\ task'[t].kind = task[t].kind
  BY <1>1, <1>3, <1>4 DEF TaskRecords
<1>6. TaskMoves(t)
  <2>1. task' \in [Tasks -> TaskRecords]
    <3>1. DOMAIN task' = Tasks /\ task' = [u \in Tasks |-> task'[u]]
      BY <1>1, <1>2
    <3>2. \A u \in Tasks : task'[u] \in TaskRecords
      BY <1>1, <1>4, <1>5
    <3> QED
      BY <3>1, <3>2
  <2> QED
    BY <1>4, <2>1 DEF TaskMoves
<1>7. BadIn(proc) \subseteq Drivers
  BY DEF BadIn, Drivers
<1>8. Waits(task'[t], phase', proc', restart_required')
  BY <1>2, <1>5, <1>7 DEF Waits
<1>9. /\ Tells(task'[t], phase', restart_required')
      /\ QuietIn(phase', proc', restart_required')
      /\ SeenIn(phase', proc', watched', restart_required')
      /\ HeldBy(phase', task'[t].pc)
  BY <1>2, <1>5 DEF Tells, QuietIn, SeenIn, HeldBy, StopInner, MonitoredPhases
<1>10. MayReach(task'[t]) => MayReach(task[t])
  BY <1>5 DEF MayReach, StopInner
<1>11. phase' \in Phases /\ restart_required' \in BOOLEAN
  BY <1>1, <1>2 DEF Phases
<1>12. FaultInv'
  BY <1>1, <1>5, <1>6, <1>8, <1>9, <1>10, <1>11, HolderMoves
<1>13. Sound(t)
  BY <1>5 DEF Sound, StopInner
<1> QED
  BY <1>6, <1>12, <1>13, SoundAlone

\* invoke_inner after an error in phase `now`.
LEMMA ErrorForgetsNothing ==
    ASSUME RoomInv, FaultInv, NEW t \in Tasks, task[t].pc \in Working, proc' = proc,
           fault' = fault, watched' = watched, NEW now \in Phases,
           NoShutdowns => /\ QuietIn(now, proc, restart_required)
                          /\ SeenIn(now, proc, watched, restart_required),
           task[t].pc \in StopInner =>
              now = "Stopping" \/ task[t].todo = {} \/ restart_required \/ ~fault,
           AfterError(t, now)
    PROVE  FaultInv' /\ AllSound
<1>1. permit = t
  BY OfHolder
<1>2. CASE now \in CleanupPhases
  <2>1. PICK late \in BOOLEAN : late = (now = "Starting" /\ t \notin hit)
    OBVIOUS
  <2>2. /\ BeginStop(t, "cleanup", FALSE, late) /\ permit' = permit
        /\ restart_required' = (restart_required \/ late)
    BY <1>2, <2>1 DEF AfterError
  <2>3. "cleanup" \in StopInner
    BY DEF StopInner
  <2> QED
    BY <1>1, <2>2, <2>3, StopForgetsNothing
<1>3. CASE now \notin CleanupPhases
  <2>1. Finish(t, "error") /\ phase' = now /\ restart_required' = restart_required
    BY <1>3 DEF AfterError
  <2>2. now \notin {"Stopping", "Starting"}
    BY <1>3 DEF CleanupPhases
  <2> QED
    BY <1>1, <2>1, <2>2, FinishForgetsNothing
<1> QED
  BY <1>2, <1>3

\* A task that fails in the phase that it finds.
LEMMA ErrorHere ==
    ASSUME RoomInv, FaultInv, NEW t \in Tasks, task[t].pc \in Working, proc' = proc,
           fault' = fault, watched' = watched, AfterError(t, phase)
    PROVE  FaultInv' /\ AllSound
<1>1. /\ phase \in Phases
      /\ NoShutdowns => /\ QuietIn(phase, proc, restart_required)
                        /\ SeenIn(phase, proc, watched, restart_required)
      /\ Waits(task[t], phase, proc, restart_required)
  BY OfHolder
<1> QED
  BY <1>1, ErrorForgetsNothing DEF Waits

\* t goes on to a place of dispatch() outside stop_inner.
LEMMA GotoForgetsNothing ==
    ASSUME RoomInv, FaultInv, NEW t \in Tasks, task[t].pc \in Working, permit' = permit,
           proc' = proc, fault' = fault, watched' = watched,
           restart_required' = restart_required, phase' \in Phases,
           NEW pc \in {"notice", "asking", "reloading", "downloading"}, Goto(t, pc),
           pc = "notice" => task[t].pc = "begin", pc = "downloading" => task[t].pc = "stopping",
           NoShutdowns => /\ pc = "asking" => phase' = "Running"
                          /\ pc = "reloading" => phase' = "Starting"
                          /\ phase' \in {"Stopping", "Starting"} => HeldBy(phase', pc)
                          /\ QuietIn(phase', proc, restart_required)
                          /\ SeenIn(phase', proc, watched, restart_required)
    PROVE  FaultInv' /\ AllSound
<1>1. /\ permit = t /\ task[t] \in TaskRecords /\ task \in [Tasks -> TaskRecords]
      /\ restart_required \in BOOLEAN /\ fault \in BOOLEAN
      /\ fault /\ ~restart_required => BadIn(proc) # {}
  BY OfHolder
<1>2. task'[t].pc = pc /\ task'[t].kind = task[t].kind /\ TaskMoves(t)
  BY <1>1 DEF Goto, TaskMoves, TaskRecords, Steps, Dispatching
<1>3. /\ Waits(task'[t], phase', proc', restart_required')
      /\ NoShutdowns => Tells(task'[t], phase', restart_required')
      /\ MayReach(task'[t]) => MayReach(task[t])
  BY <1>2 DEF Waits, Tells, MayReach, StopInner
<1>4. FaultInv'
  BY <1>1, <1>2, <1>3, HolderMoves
<1>5. Sound(t)
  BY <1>2 DEF Sound, StopInner
<1> QED
  BY <1>2, <1>4, <1>5, SoundAlone

-----------------------------------------------------------------------------
(* start_inner after a bad end *)

\* What start_inner finds when it is reached in phase `now`: by a start, by a restart
\* behind its stop_inner, or by an update behind its download.
Reaches(t, now) ==
    /\ task[t].kind \in LaunchKinds
    /\ \/ task[t].pc \in {"begin", "downloading"} /\ now = phase
       \/ task[t].pc = "stopping" /\ task[t].todo = {} /\ now = "Stopped"

\* Where it may launch, no game ended badly.
LEMMA NothingBadBeforeLaunch ==
    ASSUME RoomInv, FaultInv, OrderlyOperations, NEW t \in Tasks, NEW now,
           Reaches(t, now), now # "Running", ~restart_required
    PROVE  BadIn(proc) = {} /\ ~fault
<1>1. task[t].pc \in Working
  BY DEF Reaches, Working, Dispatching
<1>2. /\ Waits(task[t], phase, proc, restart_required)
      /\ phase \in Phases
      /\ fault => BadIn(proc) # {}
      /\ NoShutdowns =>
           /\ phase \in {"Stopping", "Starting"} => HeldBy(phase, task[t].pc)
           /\ QuietIn(phase, proc, restart_required)
  BY <1>1, OfHolder
<1>3. CASE task[t].pc = "stopping"
  BY <1>2, <1>3 DEF Reaches, Waits, StopInner
<1>4. CASE task[t].pc # "stopping" /\ NoShutdowns
  <2>1. phase \in {"Stopped", "Preparing", "Failed"}
    BY <1>2, <1>4 DEF Reaches, HeldBy, StopInner, Phases
  <2>2. BadIn(proc) = {}
    BY <1>2, <1>4, <2>1 DEF QuietIn, BadIn
  <2> QED
    BY <1>2, <2>2
<1>5. CASE ~NoShutdowns
  <2>1. PICK b \in Clients : OneLauncher(b)
    BY <1>5 DEF OrderlyOperations
  <2>2. t = b
    BY <2>1 DEF Reaches, FaultInv, Asked, OneLauncher, LaunchKinds, Tasks
  <2>3. MayReach(task[b])
    BY <2>2 DEF Reaches, MayReach
  <2>4. \A s \in Shards : proc[s] = "none"
    BY <2>1, <2>3 DEF FaultInv
  <2> QED
    BY <1>2, <2>4 DEF BadIn
<1> QED
  BY <1>3, <1>4, <1>5

\* start_inner, whatever becomes of it.
LEMMA StartForgetsNothing ==
    ASSUME RoomInv, FaultInv, OrderlyOperations, NEW t \in Tasks, NEW now \in Phases,
           Reaches(t, now),
           NoShutdowns => QuietIn(now, proc, restart_required)
                          /\ SeenIn(now, proc, watched, restart_required),
           StartInner(t, now)
    PROVE  FaultInv' /\ AllSound
<1>1. task[t].pc \in Working
  BY DEF Reaches, Working, Dispatching
<1>2. /\ permit = t /\ task[t] \in TaskRecords /\ task \in [Tasks -> TaskRecords]
      /\ restart_required \in BOOLEAN /\ fault \in BOOLEAN /\ proc \in Procs
      /\ phase \in Phases
  BY <1>1, OfHolder
<1>3. task[t].pc \in StopInner => task[t].todo = {}
  BY DEF Reaches, StopInner
<1>4. ASSUME Finish(t, "ok"), now = "Running", UNCHANGED <<phase, restart_required, games>>
      PROVE  FaultInv' /\ AllSound
  <2>1. proc' = proc /\ fault' = fault /\ watched' = watched /\ phase' = phase
    BY <1>4 DEF games
  <2>2. phase = "Running"
    BY <1>4 DEF Reaches
  <2> QED
    BY <1>1, <1>2, <1>3, <1>4, <2>1, <2>2, FinishForgetsNothing
<1>5. ASSUME AfterError(t, now), UNCHANGED <<proc, ready, watched, fault>>
      PROVE  FaultInv' /\ AllSound
  BY <1>1, <1>3, <1>5, ErrorForgetsNothing
<1>6. ASSUME MayLaunch, now # "Running"
      PROVE  /\ ~restart_required /\ ~fault
             /\ \A s \in Shards : proc[s] \in {"none", "clean"}
  <2>1. BadIn(proc) = {} /\ ~fault /\ ~restart_required
    BY <1>6, NothingBadBeforeLaunch DEF MayLaunch
  <2> QED
    BY <1>2, <1>6, <2>1 DEF MayLaunch, AllStopped, BadIn, Procs, Ends
<1>7. ASSUME MayLaunch, now # "Running", AfterError(t, "Preparing"),
             UNCHANGED <<proc, ready, watched, fault>>
      PROVE  FaultInv' /\ AllSound
  <2>1. QuietIn("Preparing", proc, restart_required)
    BY <1>6, <1>7 DEF QuietIn
  <2>2. SeenIn("Preparing", proc, watched, restart_required) /\ "Preparing" \in Phases
    BY DEF SeenIn, MonitoredPhases, Phases
  <2> QED
    BY <1>1, <1>3, <1>7, <2>1, <2>2, ErrorForgetsNothing
<1>8. ASSUME MayLaunch, now # "Running", NEW spawned \in SUBSET Shards, NEW asked,
             Launch(spawned, asked), TaskMoves(t), task'[t].kind = task[t].kind,
             task'[t].pc \in {"done", "failing", "settling"},
             restart_required' = restart_required, phase' \in {"Failed", "Stopping", "Starting"},
             phase' = "Failed" => spawned = {},
             task'[t].pc = "failing" <=> phase' = "Stopping",
             task'[t].pc = "settling" <=> phase' = "Starting",
             phase' # "Failed" => permit' = t
      PROVE  FaultInv' /\ AllSound
  <2>1. ~fault /\ ~restart_required /\ fault' = fault
    BY <1>6, <1>8 DEF Launch
  <2>2. BadIn(proc') = {}
    BY <1>8 DEF Launch, BadIn
  <2>3. Waits(task'[t], phase', proc', restart_required')
    BY <1>8, <2>2 DEF Waits, StopInner
  <2>4. /\ Tells(task'[t], phase', restart_required')
        /\ phase' \in {"Stopping", "Starting"} => permit' = t /\ HeldBy(phase', task'[t].pc)
    BY <1>8 DEF Tells, HeldBy, StopInner
  <2>5. QuietIn(phase', proc', restart_required')
    BY <1>8 DEF QuietIn, Launch
  <2>6. SeenIn(phase', proc', watched', restart_required')
    BY <1>8 DEF SeenIn, Launch
  <2>7. task[t].kind \in LaunchKinds /\ ~MayReach(task'[t])
    BY <1>8 DEF Reaches, MayReach
  <2>8. phase' \in Phases
    BY <1>8 DEF Phases
  <2>9. FaultInv'
    BY <1>2, <1>8, <2>1, <2>3, <2>4, <2>5, <2>6, <2>7, <2>8, HolderMoves
  <2>10. Sound(t)
    BY <2>1 DEF Sound
  <2> QED
    BY <1>8, <2>9, <2>10, SoundAlone
<1>9. ASSUME MayLaunch, now # "Running", phase' = "Failed", Finish(t, "error"),
             Launch({}, "no"), UNCHANGED restart_required
      PROVE  FaultInv' /\ AllSound
  <2>1. task' = [task EXCEPT ![t].pc = "done", ![t].result = "error"]
    BY <1>9 DEF Finish
  <2>2. task'[t].pc = "done" /\ task'[t].kind = task[t].kind /\ TaskMoves(t)
    BY <1>2, <2>1 DEF TaskMoves, TaskRecords, Steps
  <2> QED
    BY <1>8, <1>9, <2>2
<1>10. ASSUME MayLaunch, now # "Running", NEW spawned \in (SUBSET Shards) \ {Shards},
              Launch(spawned, "stop"), phase' = "Stopping",
              task' = [task EXCEPT ![t].pc = "failing", ![t].todo = spawned,
                                   ![t].bad = FALSE],
              UNCHANGED <<permit, queue, restart_required>>
      PROVE  FaultInv' /\ AllSound
  <2>1. task'[t].pc = "failing" /\ task'[t].kind = task[t].kind /\ TaskMoves(t)
    BY <1>2, <1>10 DEF TaskMoves, TaskRecords, Steps, StopInner
  <2> QED
    BY <1>2, <1>8, <1>10, <2>1
<1>11. ASSUME MayLaunch, now # "Running", Launch(Shards, "no"), phase' = "Starting",
              Goto(t, "settling"), UNCHANGED <<permit, queue, restart_required>>
      PROVE  FaultInv' /\ AllSound
  <2>1. task'[t].pc = "settling" /\ task'[t].kind = task[t].kind /\ TaskMoves(t)
    BY <1>2, <1>11 DEF Goto, TaskMoves, TaskRecords, Steps, Dispatching
  <2> QED
    BY <1>2, <1>8, <1>11, <2>1
<1> QED
  BY <1>4, <1>5, <1>7, <1>9, <1>10, <1>11 DEF StartInner

-----------------------------------------------------------------------------
(* The actions *)

\* An operation is submitted: nobody's work or games change.
LEMMA SubmitForgetsNothing ==
    ASSUME RoomInv, FaultInv, NEW c \in Clients,
           \/ \E kind \in Mutations : Invoke(c, kind)
           \/ InvokeKill(c) \/ ShutdownPriority(c) \/ ForceFault(c) \/ WhileStopped(c)
    PROVE  FaultInv' /\ AllSound
<1>1. /\ c \in Tasks /\ task \in [Tasks -> TaskRecords] /\ task[c] \in TaskRecords
      /\ c \notin Shards
  BY OfTask, ClientsAssumption DEF Tasks
<1>2. task[c].pc = "idle"
  BY DEF Invoke, InvokeKill, ShutdownPriority, ForceFault, WhileStopped
<1>3. task[c].pc \notin Working /\ MayReach(task[c])
  BY <1>2 DEF Working, Dispatching, StopInner, MayReach
<1>4. /\ proc' = proc /\ fault' = fault /\ watched' = watched
      /\ restart_required' = restart_required
      /\ phase' = phase \/ (phase' = "Stopping" /\ ~NoShutdowns)
      /\ permit' = permit \/ permit = "free"
  BY DEF Invoke, InvokeKill, ShutdownPriority, ForceFault, WhileStopped, games, NoShutdowns
<1>5. PICK kind \in Operations[c], pc \in {"begin", "queueing", "queued", "holding", "done"},
           result \in {"none", "ok", "error", "busy"} :
         task' = [task EXCEPT ![c].kind = kind, ![c].pc = pc, ![c].result = result]
  <2>1. \E kind \in Operations[c] :
           \/ \E pc \in {"begin", "queueing", "queued", "holding"} :
                 task' = [task EXCEPT ![c].kind = kind, ![c].pc = pc]
           \/ task' = [task EXCEPT ![c].kind = kind, ![c].pc = "done", ![c].result = "busy"]
    <3>1. ASSUME NEW kind \in Mutations, Invoke(c, kind)
          PROVE  /\ kind \in Operations[c]
                 /\ \/ task' = [task EXCEPT ![c].kind = kind, ![c].pc = "begin"]
                    \/ task' = [task EXCEPT ![c].kind = kind, ![c].pc = "done",
                                            ![c].result = "busy"]
      BY <3>1 DEF Invoke
    <3>2. CASE InvokeKill(c)
      BY <3>2 DEF InvokeKill
    <3>3. CASE ShutdownPriority(c)
      BY <3>3 DEF ShutdownPriority
    <3>4. CASE ForceFault(c)
      BY <3>4 DEF ForceFault
    <3>5. CASE WhileStopped(c)
      BY <3>5 DEF WhileStopped
    <3> QED
      BY <3>1, <3>2, <3>3, <3>4, <3>5
  <2>2. PICK kind \in Operations[c] :
           \/ \E pc \in {"begin", "queueing", "queued", "holding"} :
                 task' = [task EXCEPT ![c].kind = kind, ![c].pc = pc]
           \/ task' = [task EXCEPT ![c].kind = kind, ![c].pc = "done", ![c].result = "busy"]
    BY <2>1
  <2>3. ASSUME NEW pc \in {"begin", "queueing", "queued", "holding"},
               task' = [task EXCEPT ![c].kind = kind, ![c].pc = pc]
        PROVE  task' = [task EXCEPT ![c].kind = kind, ![c].pc = pc,
                                    ![c].result = task[c].result]
    BY <1>1, <2>3 DEF TaskRecords
  <2>4. task[c].result \in {"none", "ok", "error", "busy"}
    BY <1>1 DEF TaskRecords
  <2> QED
    BY <2>2, <2>3, <2>4
<1>6. /\ task'[c].kind = kind /\ task'[c].pc = pc
      /\ \A u \in Tasks : u # c => task'[u] = task[u]
  BY <1>1, <1>5 DEF TaskRecords
<1>7. kind \in Kinds
  BY OperationsAssumption
<1>8. TaskMoves(c)
  <2>1. task'[c] \in TaskRecords
    <3>1. task'[c] = [task[c] EXCEPT !.kind = kind, !.pc = pc, !.result = result]
      BY <1>1, <1>5
    <3>2. pc \in Steps
      BY DEF Steps, Dispatching
    <3> QED
      BY <1>1, <1>7, <3>1, <3>2 DEF TaskRecords
  <2>2. DOMAIN task' = Tasks /\ task' = [u \in Tasks |-> task'[u]]
    BY <1>1, <1>5
  <2>3. \A u \in Tasks : task'[u] \in TaskRecords
    BY <1>1, <1>6, <2>1
  <2> QED
    BY <1>6, <2>2, <2>3 DEF TaskMoves
<1>9. Asked(c, task'[c].kind)
  BY <1>1, <1>6 DEF Asked
<1> QED
  BY <1>1, <1>3, <1>4, <1>6, <1>8, <1>9, OtherMoves

\* A task lines up for the permit, or begins its stop_inner with it.
LEMMA AcquireForgetsNothing ==
    ASSUME RoomInv, FaultInv, NEW t \in Tasks, Acquire(t) \/ Acquired(t)
    PROVE  FaultInv' /\ AllSound
<1>1. task \in [Tasks -> TaskRecords] /\ task[t] \in TaskRecords
  BY OfTask
<1>2. CASE Acquire(t)
  <2>1. task[t].pc \notin Working /\ ~MayReach([task[t] EXCEPT !.pc = "queued"])
    BY <1>1, <1>2 DEF Acquire, Working, Dispatching, StopInner, MayReach, TaskRecords
  <2>2. /\ task'[t] = [task[t] EXCEPT !.pc = "queued"] /\ task'[t].pc = "queued"
        /\ task'[t].kind = task[t].kind /\ TaskMoves(t)
    BY <1>1, <1>2 DEF Acquire, Goto, TaskMoves, TaskRecords, Steps
  <2>3. Asked(t, task'[t].kind)
    BY <2>2 DEF FaultInv
  <2>4. /\ proc' = proc /\ fault' = fault /\ watched' = watched /\ phase' = phase
        /\ restart_required' = restart_required /\ (permit' = permit \/ permit = "free")
    BY <1>2 DEF Acquire, games
  <2> QED
    BY <2>1, <2>2, <2>3, <2>4, OtherMoves
<1>3. CASE Acquired(t)
  <2>1. PICK required \in BOOLEAN : required = (task[t].kind = "fault")
    OBVIOUS
  <2>2. /\ permit = t /\ permit' = permit /\ proc' = proc /\ fault' = fault
        /\ watched' = watched /\ restart_required' = (restart_required \/ required)
    BY <1>3, <2>1 DEF Acquired
  <2>3. PICK pc \in {"killing", "closing"}, force \in BOOLEAN :
           BeginStop(t, pc, force, FALSE)
    BY <1>3 DEF Acquired
  <2>4. pc \in StopInner
    BY DEF StopInner
  <2> QED
    BY <2>2, <2>3, <2>4, StopForgetsNothing
<1> QED
  BY <1>2, <1>3

\* A task ends without touching phase or games, from a place where it holds no phase.
LEMMA LeaveForgetsNothing ==
    ASSUME RoomInv, FaultInv, NEW t \in Tasks,
           task[t].pc \in {"begin", "holding", "asking", "downloading"},
           NEW result \in {"ok", "error"}, Finish(t, result),
           UNCHANGED <<phase, restart_required, games>>
    PROVE  FaultInv' /\ AllSound
<1>1. task[t].pc \in Working /\ task[t].pc \notin StopInner
  BY DEF Working, Dispatching, StopInner
<1>2. /\ phase \in Phases
      /\ NoShutdowns => /\ QuietIn(phase, proc, restart_required)
                        /\ SeenIn(phase, proc, watched, restart_required)
                        /\ phase \in {"Stopping", "Starting"} => HeldBy(phase, task[t].pc)
  BY <1>1, OfHolder
<1>3. NoShutdowns => phase \notin {"Stopping", "Starting"}
  BY <1>1, <1>2 DEF HeldBy
<1>4. /\ phase' = phase /\ restart_required' = restart_required
      /\ proc' = proc /\ fault' = fault /\ watched' = watched
  BY DEF games
<1> QED
  BY <1>1, <1>2, <1>3, <1>4, FinishForgetsNothing

\* The first stretch of an operation.
LEMMA BeginForgetsNothing ==
    ASSUME RoomInv, FaultInv, OrderlyOperations, NEW t \in Tasks, Begin(t)
    PROVE  FaultInv' /\ AllSound
<1>1. task[t].pc = "begin" /\ task[t].pc \in Working
  BY DEF Begin, Working, Dispatching
<1>2. /\ phase \in Phases
      /\ NoShutdowns => /\ QuietIn(phase, proc, restart_required)
                        /\ SeenIn(phase, proc, watched, restart_required)
                        /\ phase \in {"Stopping", "Starting"} => HeldBy(phase, task[t].pc)
  BY <1>1, OfHolder
<1>3. CASE task[t].kind = "start"
  <2>1. StartInner(t, phase)
    BY <1>3 DEF Begin, Updates
  <2>2. Reaches(t, phase)
    BY <1>1, <1>3 DEF Reaches, LaunchKinds
  <2> QED
    BY <1>2, <2>1, <2>2, StartForgetsNothing
<1>4. task[t].kind # "configure"
  BY DEF FaultInv, Asked, OrderlyOperations, Tasks
<1>5. CASE task[t].kind \in {"stop", "restart"} \union Updates
  <2>1. /\ Goto(t, "notice") /\ phase' = phase /\ permit' = permit /\ proc' = proc
        /\ fault' = fault /\ watched' = watched /\ restart_required' = restart_required
    BY <1>5 DEF Begin, Updates, games
  <2>2. NoShutdowns /\ phase \in {"Stopping", "Starting"} => HeldBy(phase, "notice")
    BY <1>1, <1>2 DEF HeldBy, StopInner
  <2> QED
    BY <1>1, <1>2, <2>1, <2>2, GotoForgetsNothing
<1>6. CASE task[t].kind \notin {"start", "configure", "stop", "restart"} \union Updates
  <2>1. \/ /\ RoomReady
           /\ Goto(t, "asking") /\ phase' = phase /\ permit' = permit /\ proc' = proc
           /\ fault' = fault /\ watched' = watched /\ restart_required' = restart_required
        \/ AfterError(t, phase) /\ proc' = proc /\ fault' = fault /\ watched' = watched
    BY <1>6 DEF Begin, games
  <2> QED
    BY <1>1, <1>2, <2>1, GotoForgetsNothing, ErrorHere DEF RoomReady
<1> QED
  BY <1>3, <1>4, <1>5, <1>6

\* The countdown before a stop is over.
LEMMA NoticeForgetsNothing ==
    ASSUME RoomInv, FaultInv, NEW t \in Tasks, NoticeEnds(t)
    PROVE  FaultInv' /\ AllSound
<1>1. task[t].pc = "notice" /\ task[t].pc \in Working
  BY DEF NoticeEnds, Working, Dispatching
<1>2. permit = t /\ proc' = proc /\ fault' = fault /\ watched' = watched
  BY <1>1, OfHolder DEF NoticeEnds
<1>3. CASE /\ BeginStop(t, "stopping", FALSE, FALSE)
           /\ UNCHANGED <<permit, queue, restart_required>>
  <2>1. restart_required' = (restart_required \/ FALSE) /\ "stopping" \in StopInner
    BY <1>1, <1>3, OfHolder DEF StopInner
  <2> QED
    BY <1>1, <1>2, <1>3, <2>1, StopForgetsNothing
<1>4. CASE AfterError(t, phase)
  BY <1>1, <1>2, <1>4, ErrorHere
<1> QED
  BY <1>3, <1>4 DEF NoticeEnds

\* A start or a reload whose games are up: a monitor that saw one die meanwhile has
\* asked for a fresh container.
LEMMA SettledForgetsNothing ==
    ASSUME RoomInv, FaultInv, NEW t \in Tasks, Settled(t) \/ Reloaded(t)
    PROVE  FaultInv' /\ AllSound
<1>1. /\ task[t].pc \in {"settling", "reloading"} /\ task[t].pc \in Working
      /\ Finish(t, "ok") /\ phase' = "Running" /\ restart_required' = restart_required
      /\ proc' = proc /\ fault' = fault /\ watched' = watched
  BY DEF Settled, Reloaded, Working, Dispatching, games
<1>2. NoShutdowns => /\ Tells(task[t], phase, restart_required)
                     /\ SeenIn(phase, proc, watched, restart_required)
  BY <1>1, OfHolder
<1>3. NoShutdowns => /\ SeenIn("Running", proc, watched, restart_required)
                     /\ QuietIn("Running", proc, restart_required)
  BY <1>1, <1>2 DEF Tells, SeenIn, QuietIn, MonitoredPhases
<1>4. "Running" \in Phases /\ task[t].pc \notin StopInner
  BY <1>1 DEF Phases, StopInner
<1> QED
  BY <1>1, <1>3, <1>4, FinishForgetsNothing

\* A start that cannot be ready asks for a fresh container.
LEMMA SettleFailsForgetsNothing ==
    ASSUME RoomInv, FaultInv, NEW t \in Tasks, SettleFails(t)
    PROVE  FaultInv' /\ AllSound
<1>1. task[t].pc = "settling" /\ task[t].pc \in Working
  BY DEF SettleFails, Working, Dispatching
<1>2. /\ permit = t /\ permit' = permit /\ proc' = proc /\ fault' = fault /\ watched' = watched
      /\ restart_required' = (restart_required \/ TRUE)
      /\ BeginStop(t, "failing", FALSE, FALSE) /\ "failing" \in StopInner
  BY <1>1, OfHolder DEF SettleFails, StopInner
<1> QED
  BY <1>1, <1>2, StopForgetsNothing

\* The reload was asked for: games with monitors are starting again.
LEMMA ReloadAskedForgetsNothing ==
    ASSUME RoomInv, FaultInv, NEW t \in Tasks, ReloadAsked(t)
    PROVE  FaultInv' /\ AllSound
<1>1. /\ task[t].pc = "asking" /\ task[t].pc \in Working /\ Goto(t, "reloading")
      /\ phase' = "Starting" /\ permit' = permit /\ restart_required' = restart_required
      /\ proc' = proc /\ fault' = fault /\ watched' = watched
  BY DEF ReloadAsked, Working, Dispatching
<1>2. NoShutdowns => /\ Tells(task[t], phase, restart_required)
                     /\ SeenIn(phase, proc, watched, restart_required)
  BY <1>1, OfHolder
<1>3. NoShutdowns => /\ SeenIn("Starting", proc, watched, restart_required)
                     /\ QuietIn("Starting", proc, restart_required)
                     /\ HeldBy("Starting", "reloading")
  BY <1>1, <1>2 DEF Tells, SeenIn, QuietIn, MonitoredPhases, HeldBy
<1>4. "Starting" \in Phases
  BY DEF Phases
<1> QED
  BY <1>1, <1>3, <1>4, GotoForgetsNothing

\* The native updater is done.
LEMMA DownloadedForgetsNothing ==
    ASSUME RoomInv, FaultInv, OrderlyOperations, NEW t \in Tasks, Downloaded(t)
    PROVE  FaultInv' /\ AllSound
<1>1. task[t].pc = "downloading" /\ task[t].pc \in Working
  BY DEF Downloaded, Working, Dispatching
<1>2. CASE AfterError(t, phase) /\ UNCHANGED <<proc, ready, watched, fault>>
  BY <1>1, <1>2, ErrorHere
<1>3. CASE task[t].kind = "update_restart" /\ StartInner(t, phase)
  <2>1. Reaches(t, phase)
    BY <1>1, <1>3 DEF Reaches, LaunchKinds
  <2> QED
    BY <1>1, <1>3, <2>1, OfHolder, StartForgetsNothing
<1>4. CASE Finish(t, "ok") /\ UNCHANGED <<phase, restart_required, games>>
  BY <1>1, <1>4, LeaveForgetsNothing
<1> QED
  BY <1>2, <1>3, <1>4 DEF Downloaded

\* An operation fails, or is cut.
LEMMA FailsForgetsNothing ==
    ASSUME RoomInv, FaultInv, NEW t \in Tasks, Fails(t) \/ Interrupted(t)
    PROVE  FaultInv' /\ AllSound
<1>1. /\ task[t].pc \in Working /\ AfterError(t, phase)
      /\ proc' = proc /\ fault' = fault /\ watched' = watched
  BY DEF Fails, Interrupted, Working, Dispatching
<1> QED
  BY <1>1, ErrorHere

\* stop_inner hears of a driver: what it takes off its list it has recorded.
LEMMA StopReportsForgetsNothing ==
    ASSUME RoomInv, FaultInv, NEW t \in Tasks, NEW s \in Shards, StopReports(t, s)
    PROVE  FaultInv' /\ AllSound
<1>1. /\ task[t].pc \in StopInner /\ task[t].pc \in Working
      /\ proc' = proc /\ fault' = fault /\ watched' = watched /\ phase' = phase
      /\ permit' = permit /\ restart_required' = (restart_required \/ Recreate(t, s))
  BY DEF StopReports, games, Working
<1>2. /\ permit = t /\ task \in [Tasks -> TaskRecords] /\ task[t] \in TaskRecords
      /\ Waits(task[t], phase, proc, restart_required)
      /\ restart_required \in BOOLEAN /\ fault \in BOOLEAN /\ phase \in Phases
      /\ fault /\ ~restart_required => BadIn(proc) # {}
      /\ NoShutdowns =>
           /\ Tells(task[t], phase, restart_required)
           /\ phase \in {"Stopping", "Starting"} => HeldBy(phase, task[t].pc)
           /\ QuietIn(phase, proc, restart_required)
           /\ SeenIn(phase, proc, watched, restart_required)
  BY <1>1, OfHolder
<1>3. PICK failed \in BOOLEAN : failed = (task[t].bad \/ StopFailed(t, s))
  OBVIOUS
<1>4. task' = [task EXCEPT ![t].todo = @ \ {s}, ![t].bad = failed]
  BY <1>2, <1>3 DEF StopReports
<1>5. /\ task'[t].pc = task[t].pc /\ task'[t].kind = task[t].kind
      /\ task'[t].todo = task[t].todo \ {s} /\ TaskMoves(t)
  BY <1>2, <1>4 DEF TaskMoves, TaskRecords
<1>6. ~restart_required' => s \notin BadIn(proc)
  BY <1>1 DEF Recreate, StopFailed, Forcing, BadIn
<1>7. Waits(task'[t], phase', proc', restart_required')
  BY <1>1, <1>2, <1>5, <1>6 DEF Waits
<1>8. restart_required' \in BOOLEAN /\ (~restart_required' => ~restart_required)
  BY <1>1, <1>2
<1>9. NoShutdowns => /\ Tells(task'[t], phase', restart_required')
                     /\ QuietIn(phase', proc', restart_required')
                     /\ SeenIn(phase', proc', watched', restart_required')
                     /\ phase' \in {"Stopping", "Starting"} =>
                           permit' = t /\ HeldBy(phase', task'[t].pc)
  BY <1>1, <1>2, <1>5, <1>8 DEF Tells, QuietIn, SeenIn
<1>10. MayReach(task'[t]) => MayReach(task[t])
  BY <1>5 DEF MayReach
<1>11. FaultInv'
  BY <1>1, <1>2, <1>5, <1>7, <1>8, <1>9, <1>10, HolderMoves
<1>12. Sound(t)
  BY <1>1, <1>5 DEF Sound, StopInner
<1> QED
  BY <1>5, <1>11, <1>12, SoundAlone

\* stop_inner is through: every bad end is recorded.
LEMMA StopEndsForgetsNothing ==
    ASSUME RoomInv, FaultInv, OrderlyOperations, NEW t \in Tasks, StopEnds(t)
    PROVE  FaultInv' /\ AllSound
<1>1. task[t].pc \in StopInner /\ task[t].todo = {} /\ task[t].pc \in Working
  BY DEF StopEnds, Working
<1>2. /\ proc \in Procs /\ JudgedBy(task[t], proc) /\ permit = t
      /\ Waits(task[t], phase, proc, restart_required)
  BY <1>1, OfHolder
<1>3. ~restart_required => \A s \in Shards : proc[s] \in {"none", "clean"}
  <2> SUFFICES ASSUME ~restart_required, NEW s \in Shards PROVE proc[s] \in {"none", "clean"}
    OBVIOUS
  <2>1. s \notin BadIn(proc) /\ proc[s] # "up"
    BY <1>1, <1>2 DEF Waits, JudgedBy
  <2> QED
    BY <1>2, <2>1 DEF BadIn, Procs, Ends
<1>4. ASSUME NEW now \in {"Stopped", "Failed"}
      PROVE  /\ now \in Phases /\ now \notin {"Stopping", "Starting"}
             /\ QuietIn(now, proc, restart_required)
             /\ SeenIn(now, proc, watched, restart_required)
  BY <1>3 DEF QuietIn, SeenIn, MonitoredPhases, Phases
<1>5. CASE /\ \E result \in {"ok", "error"} : Finish(t, result)
           /\ phase' \in {"Stopped", "Failed"} /\ UNCHANGED <<restart_required, games>>
  <2>1. /\ proc' = proc /\ fault' = fault /\ watched' = watched
        /\ restart_required' = restart_required
    BY <1>5 DEF games
  <2> QED
    BY <1>1, <1>4, <1>5, <2>1, FinishForgetsNothing
<1>6. CASE task[t].pc = "stopping" /\ task[t].kind = "restart" /\ StartInner(t, "Stopped")
  <2>1. Reaches(t, "Stopped")
    BY <1>1, <1>6 DEF Reaches, LaunchKinds
  <2> QED
    BY <1>4, <1>6, <2>1, StartForgetsNothing
<1>7. CASE /\ task[t].pc = "stopping" /\ phase' = "Stopped" /\ Goto(t, "downloading")
           /\ UNCHANGED <<permit, queue, restart_required, games>>
  <2>1. /\ proc' = proc /\ fault' = fault /\ watched' = watched
        /\ restart_required' = restart_required /\ permit' = permit
    BY <1>7 DEF games
  <2> QED
    BY <1>1, <1>4, <1>7, <2>1, GotoForgetsNothing
<1>8. \/ /\ \E result \in {"ok", "error"} : Finish(t, result)
         /\ phase' \in {"Stopped", "Failed"} /\ UNCHANGED <<restart_required, games>>
      \/ task[t].pc = "stopping" /\ task[t].kind = "restart" /\ StartInner(t, "Stopped")
      \/ /\ task[t].pc = "stopping" /\ phase' = "Stopped" /\ Goto(t, "downloading")
         /\ UNCHANGED <<permit, queue, restart_required, games>>
  BY DEF StopEnds
<1> QED
  BY <1>5, <1>6, <1>7, <1>8

\* A game ends: every stop_inner still waits for it, and in a phase that nobody works in
\* there was none.
LEMMA ExitForgetsNothing ==
    ASSUME RoomInv, FaultInv, NEW s \in Shards, Exit(s)
    PROVE  FaultInv' /\ AllSound
<1>1. /\ task' = task /\ permit' = permit /\ phase' = phase /\ proc[s] = "up"
      /\ watched' = watched /\ restart_required' = restart_required
  BY DEF Exit
<1>2. PICK end \in Ends : proc' = [proc EXCEPT ![s] = end] /\ fault' = (fault \/ end # "clean")
  BY DEF Exit
<1>3. proc \in Procs
  BY DEF RoomInv, Types
<1>4. /\ \A r \in Shards : r # s => proc'[r] = proc[r]
      /\ proc'[s] = end
  BY <1>2, <1>3 DEF Procs
<1>5. BadIn(proc) \subseteq BadIn(proc') /\ BadIn(proc') \subseteq BadIn(proc) \union {s}
  BY <1>1, <1>4 DEF BadIn
<1>6. fault' \in BOOLEAN /\ (fault' /\ ~restart_required' => BadIn(proc') # {})
  <2>1. end # "clean" => s \in BadIn(proc')
    BY <1>4 DEF BadIn, Ends
  <2>2. fault \in BOOLEAN /\ (fault /\ ~restart_required => BadIn(proc) # {})
    BY DEF FaultInv
  <2> QED
    BY <1>1, <1>2, <1>5, <2>1, <2>2
<1>7. \A t \in Tasks : Waits(task'[t], phase', proc', restart_required')
  <2> SUFFICES ASSUME NEW t \in Tasks PROVE Waits(task[t], phase, proc', restart_required)
    BY <1>1
  <2>1. Waits(task[t], phase, proc, restart_required) /\ JudgedBy(task[t], proc)
    BY OfTask DEF FaultInv
  <2>2. task[t].pc \in StopInner => s \in task[t].todo
    BY <1>1, <2>1 DEF JudgedBy
  <2> QED
    BY <1>5, <2>1, <2>2 DEF Waits
<1>8. ASSUME NoShutdowns
      PROVE  /\ QuietIn(phase', proc', restart_required')
             /\ SeenIn(phase', proc', watched', restart_required')
  <2>1. QuietIn(phase, proc, restart_required) /\ SeenIn(phase, proc, watched, restart_required)
    BY <1>8 DEF FaultInv
  <2>2. QuietIn(phase', proc', restart_required')
    BY <1>1, <2>1 DEF QuietIn
  <2>3. SeenIn(phase', proc', watched', restart_required')
    BY <1>1, <1>4, <2>1 DEF SeenIn
  <2> QED
    BY <2>2, <2>3
<1>9. \A b \in Clients : ~(OneLauncher(b) /\ MayReach(task'[b]))
  BY <1>1 DEF FaultInv
<1>10. FaultInv'
  BY <1>1, <1>6, <1>7, <1>8, <1>9 DEF FaultInv
<1>11. AllSound
  BY <1>1 DEF AllSound, Sound, StopInner
<1> QED
  BY <1>10, <1>11

\* The monitor of a game that ended: it asks for a fresh container, unless somebody
\* else is judging the games.
LEMMA MonitorForgetsNothing ==
    ASSUME RoomInv, FaultInv, NEW s \in Shards, Monitor(s)
    PROVE  FaultInv' /\ AllSound
<1>1. /\ proc' = proc /\ permit' = permit /\ fault' = fault /\ watched' = watched \ {s}
      /\ s \in Tasks /\ s \notin Clients
  BY ClientsAssumption DEF Monitor, Tasks
<1>2. CASE /\ phase \in MonitoredPhases /\ restart_required' = TRUE /\ phase' = "Failed"
           /\ task' = [task EXCEPT ![s] = [NoTask EXCEPT !.kind = "cleanup",
                                                         !.pc = "queueing"]]
  <2>1. task'[s].pc = "queueing" /\ task'[s].kind = "cleanup" /\ TaskMoves(s)
    BY <1>1, <1>2, OfTask DEF TaskMoves, TaskRecords, NoTask, Steps
  <2>2. \A u \in Tasks : u # s => task'[u] = task[u]
    BY <2>1 DEF TaskMoves
  <2>3. \A u \in Tasks : task'[u].pc \notin StopInner
    <3>1. \A u \in Tasks : task[u].pc \notin StopInner
      BY <1>2 DEF FaultInv, Waits, MonitoredPhases
    <3> QED
      BY <2>1, <2>2, <3>1 DEF StopInner
  <2>4. \A u \in Tasks : Asked(u, task'[u].kind)
    BY <1>1, <2>1, <2>2 DEF FaultInv, Asked
  <2>5. \A u \in Tasks : /\ Waits(task'[u], phase', proc', restart_required')
                         /\ Tells(task'[u], phase', restart_required')
    BY <1>2, <2>3 DEF Waits, Tells
  <2>6. /\ QuietIn(phase', proc', restart_required')
        /\ SeenIn(phase', proc', watched', restart_required') /\ phase' \in Phases
    BY <1>2 DEF QuietIn, SeenIn, Phases
  <2>7. \A b \in Clients : task'[b] = task[b]
    BY <1>1, <2>2 DEF Tasks
  <2>8. FaultInv'
    BY <1>1, <1>2, <2>4, <2>5, <2>6, <2>7 DEF FaultInv
  <2>9. Sound(s)
    BY <2>1 DEF Sound
  <2> QED
    BY <1>1, <2>1, <2>8, <2>9, SoundAlone
<1>3. CASE phase \notin MonitoredPhases /\ UNCHANGED <<phase, task, hit, restart_required>>
  <2>1. SeenIn(phase', proc', watched', restart_required')
    BY <1>3 DEF SeenIn
  <2>2. FaultInv'
    BY <1>1, <1>3, <2>1 DEF FaultInv
  <2>3. AllSound
    BY <1>3 DEF AllSound, Sound, StopInner
  <2> QED
    BY <2>2, <2>3
<1> QED
  BY <1>2, <1>3 DEF Monitor

\* No step forgets a bad end.
LEMMA FaultNext ==
    ASSUME OrderlyOperations, RoomInv, FaultInv, [Next]_vars
    PROVE  FaultInv' /\ AllSound
<1>1. ASSUME NEW c \in Clients,
             \/ \E kind \in Mutations : Invoke(c, kind)
             \/ InvokeKill(c) \/ ShutdownPriority(c) \/ ForceFault(c) \/ WhileStopped(c)
      PROVE  FaultInv' /\ AllSound
  BY <1>1, SubmitForgetsNothing
<1>2. ASSUME NEW t \in Tasks, Advance(t) PROVE FaultInv' /\ AllSound
  <2>1. CASE Acquire(t) \/ Acquired(t) \/ Begin(t) \/ NoticeEnds(t)
    BY <2>1, AcquireForgetsNothing, BeginForgetsNothing, NoticeForgetsNothing
  <2>2. CASE Settled(t) \/ SettleFails(t) \/ ReloadAsked(t) \/ Reloaded(t)
    BY <2>2, SettledForgetsNothing, SettleFailsForgetsNothing, ReloadAskedForgetsNothing
  <2>3. CASE NativeAnswers(t)
    BY <2>3, LeaveForgetsNothing DEF NativeAnswers
  <2>4. CASE Downloaded(t) \/ Fails(t) \/ Interrupted(t)
    BY <2>4, DownloadedForgetsNothing, FailsForgetsNothing
  <2>5. CASE \E s \in Shards : StopReports(t, s)
    BY <2>5, StopReportsForgetsNothing
  <2>6. CASE StopEnds(t)
    BY <2>6, StopEndsForgetsNothing
  <2>7. CASE DropHold(t)
    BY <2>7, LeaveForgetsNothing DEF DropHold
  <2> QED
    BY <1>2, <2>1, <2>2, <2>3, <2>4, <2>5, <2>6, <2>7 DEF Advance
<1>3. ASSUME NEW s \in Shards, Exit(s) \/ Monitor(s) PROVE FaultInv' /\ AllSound
  BY <1>3, ExitForgetsNothing, MonitorForgetsNothing
<1>4. ASSUME UNCHANGED <<task, proc, permit, phase, restart_required, watched, fault>>
      PROVE  FaultInv' /\ AllSound
  BY <1>4 DEF FaultInv, AllSound, Sound, StopInner
<1>5. ASSUME NEW s \in Shards, ReadyChanges(s) PROVE FaultInv' /\ AllSound
  BY <1>4, <1>5 DEF ReadyChanges
<1>6. CASE UNCHANGED vars
  BY <1>4, <1>6 DEF vars, games
<1> QED
  BY <1>1, <1>2, <1>3, <1>5, <1>6 DEF Next

\* A room that is not configured, and that is either never shut down with priority or has
\* at most one operation that starts games, starts none in a container in which one ended
\* badly (start_inner, the monitors of the shards).
THEOREM NothingLaunchedOverFault ==
    ASSUME OrderlyOperations
    PROVE  Spec => NoLaunchAfterFault
<1>1. ASSUME AllSound PROVE Spawns => ~fault
  BY <1>1 DEF AllSound, Sound, Spawns
<1> QED
  BY RoomInit, RoomNext, FaultInit, FaultNext, <1>1, PTL DEF Spec, NoLaunchAfterFault

\* In the same rooms a stop or a shutdown that ends leaves no bad end unrecorded: the
\* Agent will ask for a fresh container (stop_inner, requires_container_restart).
THEOREM FaultsRecorded ==
    ASSUME OrderlyOperations
    PROVE  Spec => StopRecordsFault
<1>1. ASSUME AllSound
      PROVE  \A c \in Clients :
                (/\ task[c].kind \in {"stop", "shutdown"}
                 /\ task[c].pc \in StopInner /\ task'[c].pc = "done"
                 /\ fault) => restart_required
  BY <1>1 DEF AllSound, Sound, Tasks
<1> QED
  BY RoomInit, RoomNext, FaultInit, FaultNext, <1>1, PTL DEF Spec, StopRecordsFault

-----------------------------------------------------------------------------
(* Requests to several worlds: what they are made of *)

RequestKinds == PlayerCommands \union Reloads \union {"save"}
Avatars ==
    {a \in [state : {"none", "loading", "here", "leaving"}, guid : Nat, born : Nat] :
        IF a.state \in {"here", "leaving"} THEN a.guid > 0 /\ a.born > 0
        ELSE a.guid = 0 /\ a.born = 0}
WorldRecord == [session : Nat, gen : Nat, snap : Nat, saves : SUBSET Nat, next : Nat]
ViewRecord == [session : Nat, snap : Nat, saves : SUBSET Nat, avatar : Avatars]
IdentityRecord == [session : Nat, gen : Nat]
SightingRecord == [session : Nat, gen : Nat, avatar : Avatars]
SettleRecord == [gen : Nat, session : Nat, snap : Nat]

\* The fields of a request.
Shape(j) ==
    j = [request |-> j.request, pc |-> j.pc, at |-> j.at, shards |-> j.shards, ask |-> j.ask,
         first |-> j.first, view |-> j.view, seen |-> j.seen, initial |-> j.initial,
         found |-> j.found, only |-> j.only, ids |-> j.ids, session |-> j.session,
         target |-> j.target, late |-> j.late, answer |-> j.answer]

\* What a request keeps while it goes on.
Continues(j) ==
    /\ Shape(j)
    /\ j.request = job.request /\ j.initial = job.initial /\ j.only = job.only

\* The request is over.
Ended(j, answer) ==
    /\ Continues(j) /\ j.found = job.found /\ j.target = job.target
    /\ j.pc = "idle" /\ j.answer = answer

\* The request asks the first of some shards, or the next.
Started(j, pc, shards) ==
    /\ Continues(j) /\ j.late = job.late /\ j.answer = job.answer
    /\ j.pc = pc /\ j.shards = shards /\ j.at = 1 /\ j.ask = shards[1]
    /\ j.first = Identity(shards[1]) /\ j.view = <<>>

Advanced(j) ==
    /\ Continues(j) /\ j.late = job.late /\ j.answer = job.answer
    /\ j.pc = job.pc /\ j.shards = job.shards /\ j.at = job.at + 1
    /\ j.ask = job.shards[job.at + 1] /\ j.first = Identity(job.shards[job.at + 1])
    /\ j.view = <<>> /\ j.found = job.found

\* Fields of the records that the actions build.
LEMMA EndedFields ==
    ASSUME Shape(job), NEW answer
    PROVE  Ended(EndedWith(answer), answer) /\ EndedWith(answer).late = job.late
<1>1. PICK j : j = EndedWith(answer)  OBVIOUS
<1>2. j = [request |-> job.request, pc |-> "idle", at |-> 1, shards |-> <<>>, ask |-> "",
           first |-> <<>>, view |-> <<>>, seen |-> <<>>, initial |-> job.initial,
           found |-> job.found, only |-> job.only, ids |-> <<>>, session |-> job.session,
           target |-> job.target, late |-> job.late, answer |-> answer]
  BY <1>1 DEF Shape, EndedWith
<1>3. Ended(j, answer) /\ j.late = job.late
  BY ONLY <1>2 DEF Shape, Ended, Continues
<1> QED BY <1>1, <1>3, Zenon

\* The same for the first question of a round.
LEMMA AskingFields ==
    ASSUME Shape(job), NEW pc, NEW shards
    PROVE  /\ Started(Asking(pc, shards), pc, shards) /\ Asking(pc, shards).seen = <<>>
           /\ Asking(pc, shards).found = job.found /\ Asking(pc, shards).target = job.target
<1>1. PICK j : j = Asking(pc, shards)  OBVIOUS
<1>2. PICK q : q = shards[1]  OBVIOUS
<1>3. PICK f : f = Identity(q)  OBVIOUS
<1>4. j = [job EXCEPT !.pc = pc, !.shards = shards, !.at = 1, !.seen = <<>>, !.ask = q,
                      !.first = f, !.view = <<>>]
  BY <1>1, <1>2, <1>3, Zenon DEF Asking
<1>5. j = [request |-> job.request, pc |-> pc, at |-> 1, shards |-> shards, ask |-> q,
           first |-> f, view |-> <<>>, seen |-> <<>>, initial |-> job.initial,
           found |-> job.found, only |-> job.only, ids |-> job.ids, session |-> job.session,
           target |-> job.target, late |-> job.late, answer |-> job.answer]
  BY <1>4 DEF Shape
<1> QED BY <1>1, <1>2, <1>3, <1>5 DEF Shape, Started, Continues

\* The same for the next question.
LEMMA NextShardFields ==
    ASSUME Shape(job)
    PROVE  /\ Advanced(NextShard) /\ NextShard.target = job.target
           /\ NextShard.seen = Append(job.seen, View)
<1>1. PICK a : a = Ask(job.shards[job.at + 1])  OBVIOUS
<1>2. /\ Shape(a) /\ Continues(a) /\ a.late = job.late /\ a.answer = job.answer /\ a.pc = job.pc
      /\ a.shards = job.shards /\ a.ask = job.shards[job.at + 1]
      /\ a.first = Identity(job.shards[job.at + 1]) /\ a.view = <<>> /\ a.found = job.found
      /\ a.target = job.target
  BY <1>1 DEF Shape, Continues, Ask
<1>3. NextShard = [a EXCEPT !.at = job.at + 1, !.seen = Append(job.seen, View)]
  BY <1>1 DEF NextShard
<1> QED BY <1>2, <1>3 DEF Shape, Continues, Advanced

\* The same, when the answer is kept as a sighting.
LEMMA NextSightingFields ==
    ASSUME Shape(job)
    PROVE  /\ Advanced(NextSighting) /\ NextSighting.target = job.target
           /\ NextSighting.seen = Append(job.seen, Sighting)
<1>1. PICK a : a = NextShard  OBVIOUS
<1>2. Advanced(a) /\ a.target = job.target
  BY <1>1, NextShardFields
<1>3. NextSighting = [a EXCEPT !.seen = Append(job.seen, Sighting)]
  BY <1>1 DEF NextSighting
<1> QED BY <1>2, <1>3 DEF Shape, Continues, Advanced

-----------------------------------------------------------------------------
(* Worlds and players *)

EffectShape ==
    effect = [ran |-> effect.ran, born |-> effect.born, ahead |-> effect.ahead,
              empty |-> effect.empty]

WorldsTypes ==
    /\ world \in [InRoom -> WorldRecord] /\ avatar \in [InRoom -> Avatars]
    /\ born \in Nat /\ loads \subseteq [shard : InRoom, session : Nat, id : Nat]
    /\ EffectShape
    /\ \A s \in InRoom : world[s].snap > 0 /\ world[s].saves \subseteq 1 .. (world[s].snap - 1)
    /\ \A s \in InRoom : avatar[s].guid < world[s].next /\ avatar[s].born <= born
    /\ \A s, q \in InRoom : avatar[s].born = avatar[q].born /\ avatar[s].born > 0 => s = q

\* What a step may do to worlds and players: generations grow; the player of a shard is
\* the entity that was there (and goes on leaving), nobody yet, or a new entity.
Evolves ==
    /\ born <= born' /\ loads \subseteq loads'
    /\ \A s \in InRoom :
        /\ world[s].gen <= world'[s].gen
        /\ world'[s].gen = world[s].gen =>
              world[s].next <= world'[s].next /\ world'[s].session = world[s].session
        /\ \/ /\ avatar'[s].guid = avatar[s].guid /\ avatar'[s].born = avatar[s].born
              /\ avatar[s].state = "leaving" => avatar'[s].state = "leaving"
           \/ avatar'[s].guid = 0 /\ avatar'[s].born = 0
           \/ /\ avatar'[s].born > born
              /\ world'[s].gen = world[s].gen => avatar'[s].guid >= world[s].next

\* One world saves for its followers.
LEMMA SavedWorlds ==
    ASSUME WorldsTypes, NEW followers \in SUBSET Secondaries
    PROVE  /\ SavedBy(followers) \in [InRoom -> WorldRecord]
           /\ \A s \in InRoom :
               /\ SavedBy(followers)[s].gen = world[s].gen
               /\ SavedBy(followers)[s].next = world[s].next
               /\ SavedBy(followers)[s].session = world[s].session
               /\ \/ SavedBy(followers)[s] = world[s] /\ s # Main
                  \/ /\ SavedBy(followers)[s].snap = world[Main].snap + 1
                     /\ SavedBy(followers)[s].saves \subseteq 1 .. world[Main].snap
<1>1. PICK w : w = SavedBy(followers)  OBVIOUS
<1>2. PICK n \in Nat : n = world[Main].snap /\ n > 0
  BY WorldsAssumption DEF WorldsTypes, WorldRecord, InRoom
<1>3. w = [s \in InRoom |->
             IF s \in followers \union {Main}
             THEN [world[s] EXCEPT !.saves = {i \in @ : i < n} \union {n}, !.snap = n + 1]
             ELSE world[s]]
  BY <1>1, <1>2 DEF SavedBy
<1>4. ASSUME NEW s \in InRoom
      PROVE  /\ w[s] \in WorldRecord /\ w[s].gen = world[s].gen /\ w[s].next = world[s].next
             /\ w[s].session = world[s].session
             /\ \/ w[s] = world[s] /\ s # Main
                \/ w[s].snap = n + 1 /\ w[s].saves \subseteq 1 .. n
  <2>1. PICK r \in WorldRecord : r = world[s]  BY DEF WorldsTypes
  <2>2. CASE s \in followers \union {Main}
    <3>1. w[s] = [r EXCEPT !.saves = {i \in @ : i < n} \union {n}, !.snap = n + 1]
      BY <1>3, <2>1, <2>2
    <3>2. r.saves \subseteq 1 .. (r.snap - 1) /\ r.snap \in Nat
      BY <2>1 DEF WorldsTypes, WorldRecord
    <3>3. {i \in r.saves : i < n} \union {n} \subseteq 1 .. n
      BY <1>2, <3>2
    <3>4. PICK saves : saves = {i \in r.saves : i < n} \union {n}  OBVIOUS
    <3>5. /\ saves \subseteq 1 .. n /\ saves \in SUBSET Nat /\ n + 1 \in Nat
          /\ w[s] = [r EXCEPT !.saves = saves, !.snap = n + 1]
      BY <3>1, <3>3, <3>4
    <3> QED BY <2>1, <3>5 DEF WorldRecord
  <2>3. CASE s \notin followers \union {Main}
    BY <1>3, <2>1, <2>3
  <2> QED BY <2>2, <2>3
<1>5. w \in [InRoom -> WorldRecord]
  BY <1>3, <1>4
<1> QED BY <1>1, <1>2, <1>4, <1>5

\* One shard loads a world: the newest save that it kept, or a new one.
LEMMA LoadedWorld ==
    ASSUME WorldsTypes, NEW s \in InRoom, LoadWorld(s)
    PROVE  /\ world' \in [InRoom -> WorldRecord]
           /\ \A q \in InRoom \ {s} : world'[q] = world[q] /\ avatar'[q] = avatar[q]
           /\ avatar' \in [InRoom -> Avatars] /\ avatar'[s] = NoAvatar
           /\ world'[s].gen = world[s].gen + 1 /\ world'[s].next = 1
           /\ world'[s].saves \subseteq world[s].saves
           /\ UNCHANGED <<job, effect, born>>
           /\ \E id \in Nat :
               /\ id = 0 \/ id \in world[s].saves
               /\ world'[s].snap = id + 1 /\ world'[s].saves \subseteq 1 .. id
               /\ loads' = loads \union {[shard |-> s, session |-> world'[s].session, id |-> id]}
<1>1. PICK r \in WorldRecord : r = world[s]  BY DEF WorldsTypes
<1>2. r.saves \subseteq 1 .. (r.snap - 1) /\ r.snap \in Nat /\ r.gen + 1 \in Nat /\ r.session \in Nat
  BY <1>1 DEF WorldsTypes, WorldRecord
<1>3. PICK kept : kept = {i \in world[s].saves : i <= order[s].id /\ order[s].session = world[s].session}
  OBVIOUS
<1>4. kept \subseteq r.saves  BY <1>1, <1>3
<1>5. PICK id, session :
          /\ id = IF kept = {} THEN 0 ELSE Max(kept)
          /\ session = IF kept = {} THEN r.session + 1 ELSE r.session
  OBVIOUS
<1>6. /\ world' = [world EXCEPT ![s] = [session |-> session, gen |-> @.gen + 1, snap |-> id + 1,
                                        saves |-> kept, next |-> 1]]
      /\ loads' = loads \union {[shard |-> s, session |-> session, id |-> id]}
      /\ avatar' = [avatar EXCEPT ![s] = NoAvatar] /\ UNCHANGED <<job, effect, born>>
  BY <1>1, <1>3, <1>5 DEF LoadWorld
<1>7. id \in Nat /\ (id = 0 \/ id \in r.saves) /\ kept \subseteq 1 .. id
  <2>1. CASE kept = {}  BY <1>5, <2>1
  <2>2. CASE kept # {}
    <3>1. kept \in SUBSET (1 .. r.snap)  BY <1>2, <1>4
    <3>2. Max(kept) \in kept /\ \A i \in kept : i <= Max(kept)
      BY <1>2, <2>2, <3>1, GreatestNumber
    <3>3. id = Max(kept)  BY <1>5, <2>2
    <3>4. id \in kept /\ \A i \in kept : i <= id  BY <3>2, <3>3, Zenon
    <3> QED BY <1>2, <1>4, <3>1, <3>4
  <2> QED BY <2>1, <2>2
<1>8. session \in Nat  BY <1>2, <1>5
<1>9. PICK new : new = [session |-> session, gen |-> r.gen + 1, snap |-> id + 1, saves |-> kept, next |-> 1]
  OBVIOUS
<1>10. new \in WorldRecord
  <2>1. kept \in SUBSET Nat /\ id + 1 \in Nat  BY <1>7
  <2> QED BY <1>2, <1>8, <1>9, <2>1 DEF WorldRecord
<1>11. world' = [world EXCEPT ![s] = new]  BY <1>1, <1>6, <1>9
<1>12. NoAvatar \in Avatars  BY DEF NoAvatar, Avatars
<1> QED
  <2>1. /\ world' \in [InRoom -> WorldRecord] /\ world'[s] = new
        /\ \A q \in InRoom \ {s} : world'[q] = world[q]
    BY <1>10, <1>11 DEF WorldsTypes
  <2>2. /\ avatar' \in [InRoom -> Avatars] /\ avatar'[s] = NoAvatar
        /\ \A q \in InRoom \ {s} : avatar'[q] = avatar[q]
    BY <1>6, <1>12 DEF WorldsTypes
  <2>3. /\ new.session = session /\ new.gen = r.gen + 1 /\ new.snap = id + 1 /\ new.saves = kept
        /\ new.next = 1
    BY <1>9
  <2> QED BY <1>1, <1>4, <1>6, <1>7, <2>1, <2>2, <2>3

\* Nothing happens to worlds and players.
LEMMA StillWorlds ==
    ASSUME WorldsTypes, UNCHANGED <<world, avatar, born, loads>>
    PROVE  /\ Evolves
           /\ EffectShape' => WorldsTypes'
<1>1. Evolves
  BY DEF WorldsTypes, WorldRecord, Evolves
<1>2. /\ world' = world /\ avatar' = avatar /\ born' = born /\ loads' = loads
  OBVIOUS
<1> QED BY <1>1, <1>2 DEF WorldsTypes

\* Another player on one shard: the same entity, none, or a new one.
LEMMA MovedAvatar ==
    ASSUME WorldsTypes, NEW s \in InRoom, NEW a \in Avatars,
           \A q \in InRoom : avatar'[q] = IF q = s THEN a ELSE avatar[q],
           avatar' \in [InRoom -> Avatars],
           born' \in Nat, born <= born', UNCHANGED loads, EffectShape',
           world' \in [InRoom -> WorldRecord],
           \A q \in InRoom : /\ world'[q].gen = world[q].gen /\ world'[q].snap = world[q].snap
                             /\ world'[q].saves = world[q].saves
                             /\ world'[q].session = world[q].session
                             /\ world[q].next <= world'[q].next,
           \/ a.guid = 0 /\ a.born = 0
           \/ /\ a.guid = avatar[s].guid /\ a.born = avatar[s].born
              /\ avatar[s].state = "leaving" => a.state = "leaving"
           \/ /\ a.guid = world[s].next /\ a.guid < world'[s].next
              /\ a.born > born /\ a.born <= born'
    PROVE  WorldsTypes' /\ Evolves
<1>1. \A q \in InRoom : /\ world[q].gen \in Nat /\ world[q].next \in Nat /\ avatar[q].guid \in Nat
                        /\ avatar[q].born \in Nat /\ world[q].next > 0 /\ born \in Nat
                        /\ avatar[q].guid < world[q].next /\ avatar[q].born <= born
                        /\ world'[q].next \in Nat
  BY DEF WorldsTypes, WorldRecord, Avatars
<1>2. a.guid \in Nat /\ a.born \in Nat  BY DEF Avatars
<1>3. Evolves
  BY <1>1, <1>2 DEF Evolves
<1>4. \A q \in InRoom : avatar'[q].guid < world'[q].next /\ avatar'[q].born <= born'
  BY <1>1, <1>2
<1>5. \A q, p \in InRoom : avatar'[q].born = avatar'[p].born /\ avatar'[q].born > 0 => q = p
  <2> TAKE q, p \in InRoom
  <2>1. CASE q # s /\ p # s  BY <2>1 DEF WorldsTypes
  <2>2. CASE q = s /\ p # s  BY <1>1, <1>2, <2>2 DEF WorldsTypes
  <2>3. CASE q # s /\ p = s  BY <1>1, <1>2, <2>3 DEF WorldsTypes
  <2> QED BY <2>1, <2>2, <2>3
<1>6. \A q \in InRoom : world'[q].snap > 0 /\ world'[q].saves \subseteq 1 .. (world'[q].snap - 1)
  BY DEF WorldsTypes
<1>7. loads' = loads  OBVIOUS
<1> QED BY <1>3, <1>4, <1>5, <1>6, <1>7 DEF WorldsTypes

\* A player who comes, goes or vanishes.
LEMMA WalkKeeps ==
    ASSUME WorldsTypes, NEW s \in InRoom, Walk(s) \/ Vanish(s)
    PROVE  WorldsTypes' /\ Evolves
<1>1. /\ avatar \in [InRoom -> Avatars] /\ avatar[s] \in Avatars /\ world \in [InRoom -> WorldRecord]
      /\ world[s] \in WorldRecord /\ born \in Nat /\ avatar[s].guid < world[s].next
      /\ avatar[s].guid \in Nat /\ world[s].next \in Nat
  BY DEF WorldsTypes, Avatars, WorldRecord
<1>2. /\ [NoAvatar EXCEPT !.state = "loading"] \in Avatars
      /\ [NoAvatar EXCEPT !.state = "none"] \in Avatars
      /\ \A x \in {"loading", "none"} : [NoAvatar EXCEPT !.state = x].guid = 0
                                        /\ [NoAvatar EXCEPT !.state = x].born = 0
  BY DEF NoAvatar, Avatars
<1>8. UNCHANGED effect => EffectShape'  BY DEF WorldsTypes, EffectShape
<1>3. ASSUME NEW x \in {"loading", "none"}, avatar' = [avatar EXCEPT ![s] = [NoAvatar EXCEPT !.state = x]],
             UNCHANGED <<world, born, loads, effect>>
      PROVE  WorldsTypes' /\ Evolves
  <2>1. PICK a \in Avatars : a = [NoAvatar EXCEPT !.state = x] /\ a.guid = 0 /\ a.born = 0
    BY <1>2
  <2>2. /\ \A q \in InRoom : avatar'[q] = IF q = s THEN a ELSE avatar[q]
        /\ avatar' \in [InRoom -> Avatars]
    BY <1>1, <1>3, <2>1
  <2>3. \A q \in InRoom : world[q].next \in Nat  BY DEF WorldsTypes, WorldRecord
  <2>4. /\ born' \in Nat /\ born <= born' /\ UNCHANGED loads /\ EffectShape'
        /\ world' \in [InRoom -> WorldRecord]
        /\ \A q \in InRoom : /\ world'[q].gen = world[q].gen /\ world'[q].snap = world[q].snap
                             /\ world'[q].saves = world[q].saves
                             /\ world'[q].session = world[q].session
                             /\ world[q].next <= world'[q].next
    BY <1>1, <1>3, <1>8, <2>3
  <2>5. a.guid = 0 /\ a.born = 0  BY <2>1
  <2> QED BY ONLY WorldsTypes, s \in InRoom, a \in Avatars, <2>2, <2>4, <2>5, MovedAvatar
<1>4. CASE Walk(s) /\ avatar[s].state = "loading"
  <2>1. PICK a : a = [state |-> "here", guid |-> world[s].next, born |-> born + 1]  OBVIOUS
  <2>2. PICK w : w = [world[s] EXCEPT !.next = @ + 1]  OBVIOUS
  <2>3. /\ avatar' = [avatar EXCEPT ![s] = a] /\ world' = [world EXCEPT ![s].next = @ + 1]
        /\ born' = born + 1 /\ UNCHANGED <<loads, effect>>
    BY <1>4, <2>1 DEF Walk
  <2>4. /\ w \in WorldRecord /\ w.gen = world[s].gen /\ w.snap = world[s].snap /\ w.saves = world[s].saves
        /\ w.session = world[s].session /\ w.next = world[s].next + 1
    BY <1>1, <2>2 DEF WorldRecord
  <2>5. /\ world' \in [InRoom -> WorldRecord] /\ world'[s] = w
        /\ \A q \in InRoom \ {s} : world'[q] = world[q]
    BY <1>1, <2>2, <2>3, <2>4
  <2>6. a \in Avatars /\ a.guid = world[s].next /\ a.born = born + 1
    BY <1>1, <2>1 DEF Avatars
  <2>7. /\ \A q \in InRoom : avatar'[q] = IF q = s THEN a ELSE avatar[q]
        /\ avatar' \in [InRoom -> Avatars]
    BY <1>1, <2>3, <2>6
  <2>8. \A q \in InRoom : world[q].next \in Nat  BY DEF WorldsTypes, WorldRecord
  <2>9. \A q \in InRoom : /\ world'[q].gen = world[q].gen /\ world'[q].snap = world[q].snap
                          /\ world'[q].saves = world[q].saves /\ world'[q].session = world[q].session
                          /\ world[q].next <= world'[q].next
    BY <2>4, <2>5, <2>8
  <2>10. a.guid < world'[s].next /\ a.born > born /\ a.born <= born' /\ born' \in Nat /\ born <= born'
    BY <1>1, <2>3, <2>4, <2>5, <2>6
  <2> QED BY <1>8, <2>3, <2>5, <2>6, <2>7, <2>9, <2>10, MovedAvatar
<1>5. CASE Walk(s) /\ avatar[s].state = "here"
  <2>1. PICK a : a = [avatar[s] EXCEPT !.state = "leaving"]  OBVIOUS
  <2>2. avatar' = [avatar EXCEPT ![s].state = "leaving"] /\ UNCHANGED <<world, born, loads, effect>>
    BY <1>5 DEF Walk
  <2>3. a \in Avatars /\ a.guid = avatar[s].guid /\ a.born = avatar[s].born /\ a.state = "leaving"
    BY <1>1, <1>5, <2>1 DEF Avatars
  <2>4. /\ \A q \in InRoom : avatar'[q] = IF q = s THEN a ELSE avatar[q]
        /\ avatar' \in [InRoom -> Avatars]
    BY <1>1, <2>1, <2>2, <2>3
  <2>5. \A q \in InRoom : world[q].next \in Nat  BY DEF WorldsTypes, WorldRecord
  <2> QED BY <1>1, <1>8, <2>2, <2>3, <2>4, <2>5, MovedAvatar
<1>6. CASE Walk(s) /\ avatar[s].state \notin {"loading", "here"}
  BY <1>3, <1>6 DEF Walk
<1>7. CASE Vanish(s)
  <2>1. PICK x \in {"loading", "none"} : avatar' = [avatar EXCEPT ![s] = [NoAvatar EXCEPT !.state = x]]
    <3>1. PICK stays \in BOOLEAN :
             avatar' = [avatar EXCEPT ![s] = [NoAvatar EXCEPT !.state = IF stays THEN "loading" ELSE "none"]]
      BY <1>7 DEF Vanish
    <3>2. PICK x : x = IF stays THEN "loading" ELSE "none"  OBVIOUS
    <3> QED BY <3>1, <3>2
  <2> QED BY <1>3, <1>7, <2>1 DEF Vanish
<1> QED BY <1>4, <1>5, <1>6, <1>7

\* A world that is loaded.
LEMMA LoadKeeps ==
    ASSUME WorldsTypes, NEW s \in InRoom, LoadWorld(s)
    PROVE  WorldsTypes' /\ Evolves
<1>1. PICK id \in Nat :
          /\ id = 0 \/ id \in world[s].saves
          /\ world'[s].snap = id + 1 /\ world'[s].saves \subseteq 1 .. id
          /\ loads' = loads \union {[shard |-> s, session |-> world'[s].session, id |-> id]}
  BY LoadedWorld
<1>2. /\ world' \in [InRoom -> WorldRecord] /\ avatar' \in [InRoom -> Avatars]
      /\ \A q \in InRoom \ {s} : world'[q] = world[q] /\ avatar'[q] = avatar[q]
      /\ avatar'[s] = NoAvatar /\ world'[s].gen = world[s].gen + 1 /\ world'[s].next = 1
      /\ effect' = effect /\ born' = born
  BY LoadedWorld
<1>3. NoAvatar.guid = 0 /\ NoAvatar.born = 0  BY DEF NoAvatar
<1>4. \A q \in InRoom : /\ world[q].gen \in Nat /\ world[q].next \in Nat /\ avatar[q].guid \in Nat
                        /\ avatar[q].born \in Nat
  BY DEF WorldsTypes, WorldRecord, Avatars
<1>5. Evolves
  BY <1>1, <1>2, <1>3, <1>4 DEF Evolves, WorldsTypes
<1>6. loads' \subseteq [shard : InRoom, session : Nat, id : Nat]
  <2>1. world'[s].session \in Nat  BY <1>2 DEF WorldRecord
  <2> QED BY <1>1, <2>1 DEF WorldsTypes
<1>7. \A q \in InRoom : world'[q].snap > 0 /\ world'[q].saves \subseteq 1 .. (world'[q].snap - 1)
  <2> TAKE q \in InRoom
  <2>1. CASE q # s  BY <1>2, <2>1 DEF WorldsTypes
  <2>2. CASE q = s
    <3>1. id + 1 > 0 /\ (id + 1) - 1 = id  OBVIOUS
    <3> QED BY <1>1, <2>2, <3>1
  <2> QED BY <2>1, <2>2
<1>8. \A q \in InRoom : avatar'[q].guid < world'[q].next /\ avatar'[q].born <= born'
  BY <1>2, <1>3, <1>4 DEF WorldsTypes
<1>9. \A q, p \in InRoom : avatar'[q].born = avatar'[p].born /\ avatar'[q].born > 0 => q = p
  BY <1>2, <1>3, <1>4 DEF WorldsTypes
<1>10. EffectShape'  BY <1>2 DEF WorldsTypes, EffectShape
<1> QED BY <1>2, <1>5, <1>6, <1>7, <1>8, <1>9, <1>10 DEF WorldsTypes

\* A snapshot that is saved.
LEMMA SavesKeep ==
    ASSUME WorldsTypes, NEW followers \in SUBSET Secondaries, world' = SavedBy(followers),
           UNCHANGED <<avatar, born, loads>>, EffectShape'
    PROVE  WorldsTypes' /\ Evolves
<1>1. /\ world' \in [InRoom -> WorldRecord]
      /\ \A s \in InRoom :
           /\ world'[s].gen = world[s].gen /\ world'[s].next = world[s].next
           /\ world'[s].session = world[s].session
           /\ \/ world'[s] = world[s]
              \/ world'[s].snap = world[Main].snap + 1 /\ world'[s].saves \subseteq 1 .. world[Main].snap
  BY SavedWorlds
<1>2. avatar' = avatar /\ born' = born /\ loads' = loads  OBVIOUS
<1>3. \A q \in InRoom : /\ world[q].gen \in Nat /\ world[q].next \in Nat /\ avatar[q].guid \in Nat
                        /\ avatar[q].born \in Nat
  BY DEF WorldsTypes, WorldRecord, Avatars
<1>4. Evolves  BY <1>1, <1>2, <1>3 DEF Evolves, WorldsTypes
<1>5. \A s \in InRoom : world'[s].snap > 0 /\ world'[s].saves \subseteq 1 .. (world'[s].snap - 1)
  <2> TAKE s \in InRoom
  <2>1. PICK n \in Nat : n = world[Main].snap
    BY WorldsAssumption DEF WorldsTypes, WorldRecord, InRoom
  <2>2. CASE world'[s] = world[s]  BY <2>2 DEF WorldsTypes
  <2>3. CASE world'[s].snap = n + 1 /\ world'[s].saves \subseteq 1 .. n
    <3>1. n + 1 > 0 /\ (n + 1) - 1 = n  OBVIOUS
    <3> QED BY <2>3, <3>1
  <2> QED BY <1>1, <2>1, <2>2, <2>3
<1>6. \A s \in InRoom : avatar[s].guid < world'[s].next  BY <1>1 DEF WorldsTypes
<1> QED BY <1>1, <1>2, <1>4, <1>5, <1>6 DEF WorldsTypes

-----------------------------------------------------------------------------
(* The request *)

\* No command was written yet.
Early == {"locate", "destination", "command", "catalog", "complete", "presence", "reload",
          "runtime", "save"}

PhasesOf(request) ==
    CASE request = "get" -> {"idle", "locate"}
      [] request = "migrate" -> {"idle", "locate", "destination", "command"}
      [] request \in {"kick", "despawn"} -> {"idle", "locate", "command", "confirm"}
      [] request \in {"reset", "rollback", "day", "exact"} ->
           {"idle", "catalog", "complete", "reload", "polling", "settle"}
      [] request = "regenerate" -> {"idle", "presence", "reload", "polling", "settle"}
      [] request = "regenerate_shard" -> {"idle", "reload", "polling", "settle"}
      [] request = "save" -> {"idle", "runtime", "save"}

\* What a phase says of the request.
LEMMA PhasesTell ==
    ASSUME NEW r \in RequestKinds
    PROVE  /\ "idle" \in PhasesOf(r)
           /\ "locate" \in PhasesOf(r) <=> r \in PlayerCommands
           /\ "destination" \in PhasesOf(r) <=> r = "migrate"
           /\ "command" \in PhasesOf(r) <=> r \in {"migrate", "kick", "despawn"}
           /\ "confirm" \in PhasesOf(r) <=> r \in {"kick", "despawn"}
           /\ "catalog" \in PhasesOf(r) <=> r \in {"reset", "rollback", "day", "exact"}
           /\ "complete" \in PhasesOf(r) <=> r \in {"reset", "rollback", "day", "exact"}
           /\ "presence" \in PhasesOf(r) <=> r = "regenerate"
           /\ "reload" \in PhasesOf(r) <=> r \in Reloads
           /\ "polling" \in PhasesOf(r) <=> r \in Reloads
           /\ "settle" \in PhasesOf(r) <=> r \in Reloads
           /\ "runtime" \in PhasesOf(r) <=> r = "save"
           /\ "save" \in PhasesOf(r) <=> r = "save"
           /\ r \in PlayerCommands => r \notin Reloads /\ r # "save"
           /\ r \in Reloads => r # "save"
<1>1. CASE r = "get"  BY <1>1 DEF PhasesOf, PlayerCommands, Reloads
<1>2. CASE r = "migrate"  BY <1>2 DEF PhasesOf, PlayerCommands, Reloads
<1>3. CASE r = "kick"  BY <1>3 DEF PhasesOf, PlayerCommands, Reloads
<1>4. CASE r = "despawn"  BY <1>4 DEF PhasesOf, PlayerCommands, Reloads
<1>5. CASE r = "reset"  BY <1>5 DEF PhasesOf, PlayerCommands, Reloads
<1>6. CASE r = "rollback"  BY <1>6 DEF PhasesOf, PlayerCommands, Reloads
<1>7. CASE r = "day"  BY <1>7 DEF PhasesOf, PlayerCommands, Reloads
<1>8. CASE r = "exact"  BY <1>8 DEF PhasesOf, PlayerCommands, Reloads
<1>9. CASE r = "regenerate"  BY <1>9 DEF PhasesOf, PlayerCommands, Reloads
<1>10. CASE r = "regenerate_shard"  BY <1>10 DEF PhasesOf, PlayerCommands, Reloads
<1>11. CASE r = "save"  BY <1>11 DEF PhasesOf, PlayerCommands, Reloads
<1> QED BY <1>1, <1>2, <1>3, <1>4, <1>5, <1>6, <1>7, <1>8, <1>9, <1>10, <1>11
        DEF RequestKinds, PlayerCommands, Reloads

\* The question that is out.
Question ==
    /\ job.shards \in Seq(InRoom) /\ job.at \in 1 .. Len(job.shards)
    /\ job.ask = job.shards[job.at] /\ job.ask \in InRoom
    /\ job.first \in IdentityRecord /\ job.first.gen <= world[job.ask].gen
    /\ job.view # <<>> => View \in ViewRecord

JobTypes ==
    /\ Shape(job) /\ job.request \in RequestKinds /\ job.late \in BOOLEAN
    /\ job.pc \in PhasesOf(job.request)
    /\ job.answer # "none" => job.pc = "idle"
    /\ job.pc \in Questions => Question
    /\ job.pc \in {"locate", "confirm"} => job.seen \in Seq(SightingRecord) /\ Len(job.seen) = job.at - 1
    /\ job.pc = "settle" => job.seen \in Seq(SettleRecord) /\ Len(job.seen) = job.at - 1
    /\ job.pc \in Early => ~job.late /\ ~effect.ran
    /\ job.pc = "idle" /\ job.answer = "none" => ~job.late /\ ~effect.ran
    /\ job.request \in Reloads /\ job.answer = "refused" => ~job.late /\ ~effect.ran

\* The lists of shards that are asked.
LEMMA ShardLists ==
    /\ RoomShards \in Seq(InRoom) /\ RoomShards # <<>> /\ Main \in InRoom
    /\ \A s \in InRoom : <<s>> \in Seq(InRoom) /\ <<s>> # <<>>
    /\ \A s \in InRoom : \E i \in 1 .. Len(RoomShards) : RoomShards[i] = s
<1>1. RoomShards \in Seq(InRoom) /\ Main \in InRoom  BY WorldsAssumption DEF InRoom
<1>2. PICK n \in Nat : n = Len(RoomShards) /\ DOMAIN RoomShards = 1 .. n
  BY <1>1
<1>3. InRoom = {RoomShards[i] : i \in 1 .. n}
  BY <1>2 DEF InRoom, ToSet
<1>4. \A s \in InRoom : \E i \in 1 .. n : RoomShards[i] = s  BY <1>3
<1>5. RoomShards # <<>>
  <2>1. n # 0  BY <1>1, <1>4
  <2> QED BY <1>2, <2>1
<1> QED BY <1>1, <1>2, <1>4, <1>5

\* What another module does to worlds leaves the request as it is.
LEMMA JobStays ==
    ASSUME WorldsTypes, JobTypes, Evolves, world' \in [InRoom -> WorldRecord],
           UNCHANGED <<job, effect>>
    PROVE  JobTypes'
<1>1. job.pc \in Questions => Question'
  <2> SUFFICES ASSUME job.pc \in Questions PROVE Question'
    OBVIOUS
  <2>1. Question  BY DEF JobTypes
  <2>2. job.first.gen <= world[job.ask].gen /\ world[job.ask].gen <= world'[job.ask].gen
        /\ job.first.gen \in Nat /\ world[job.ask].gen \in Nat /\ world'[job.ask].gen \in Nat
    BY <2>1 DEF Question, Evolves, WorldsTypes, WorldRecord, IdentityRecord
  <2>3. job.first.gen <= world'[job.ask].gen  BY <2>2
  <2> QED BY <2>1, <2>3 DEF Question, View
<1> QED BY <1>1 DEF JobTypes, Shape

\* A request that ends is well-formed.
LEMMA JobEnds ==
    ASSUME JobTypes, NEW answer, Ended(job', answer), answer # "none", job'.late \in BOOLEAN,
           job.request \in Reloads /\ answer = "refused" => ~job'.late /\ ~effect'.ran
    PROVE  JobTypes'
<1>1. /\ Shape(job') /\ job'.request = job.request /\ job'.pc = "idle" /\ job'.answer = answer
  BY DEF Ended, Continues
<1>2. "idle" \in PhasesOf(job.request) /\ "idle" \notin Questions \union Early
  BY PhasesTell DEF JobTypes, Questions, Early
<1> QED BY <1>1, <1>2 DEF JobTypes, Shape

\* So is one that starts to ask.
LEMMA JobStarts ==
    ASSUME WorldsTypes, JobTypes, NEW pc \in Questions, NEW shards \in Seq(InRoom), shards # <<>>,
           Started(job', pc, shards), pc \in PhasesOf(job.request), job.answer = "none",
           world' = world,
           pc \in Early => ~job.late /\ ~effect'.ran,
           pc \in {"locate", "confirm", "settle"} => job'.seen = <<>>
    PROVE  JobTypes'
<1>1. /\ Shape(job') /\ job'.request = job.request /\ job'.pc = pc /\ job'.answer = "none"
      /\ job'.late = job.late /\ job'.shards = shards /\ job'.at = 1 /\ job'.ask = shards[1]
      /\ job'.first = Identity(shards[1]) /\ job'.view = <<>>
  BY DEF Started, Continues
<1>2. Len(shards) \in Nat /\ Len(shards) > 0 /\ shards[1] \in InRoom
  OBVIOUS
<1>3. Identity(shards[1]) \in IdentityRecord /\ Identity(shards[1]).gen = world[shards[1]].gen
      /\ world[shards[1]].gen \in Nat
  BY <1>2 DEF WorldsTypes, WorldRecord, Identity, IdentityRecord
<1>4. Question'
  BY <1>1, <1>2, <1>3 DEF Question
<1>5. pc # "idle"  BY DEF Questions
<1>6. ASSUME pc \in {"locate", "confirm"}
      PROVE  job'.seen \in Seq(SightingRecord) /\ Len(job'.seen) = 1 - 1
  <2>1. job'.seen = <<>>  BY <1>6
  <2>2. job'.seen \in Seq(SightingRecord) /\ Len(job'.seen) = 0
    BY <2>1, EmptySeq, Zenon
  <2> QED BY <2>2
<1>7. ASSUME pc = "settle" PROVE job'.seen \in Seq(SettleRecord) /\ Len(job'.seen) = 1 - 1
  <2>1. job'.seen = <<>>  BY <1>7
  <2>2. job'.seen \in Seq(SettleRecord) /\ Len(job'.seen) = 0
    BY <2>1, EmptySeq, Zenon
  <2> QED BY <2>2
<1> QED BY <1>1, <1>4, <1>5, <1>6, <1>7 DEF JobTypes, Shape

\* So is one that asks the next shard.
LEMMA JobAdvances ==
    ASSUME WorldsTypes, JobTypes, job.pc \in Questions, ~AllAsked, Advanced(job'), NEW x,
           UNCHANGED <<world, effect>>,
           job.pc \in {"locate", "confirm"} => x \in SightingRecord,
           job.pc = "settle" => x \in SettleRecord,
           job.pc \in {"locate", "confirm", "settle"} => job'.seen = Append(job.seen, x)
    PROVE  JobTypes'
<1>1. /\ Shape(job') /\ job'.request = job.request /\ job'.pc = job.pc /\ job'.answer = job.answer
      /\ job'.late = job.late /\ job'.shards = job.shards /\ job'.at = job.at + 1
      /\ job'.ask = job.shards[job.at + 1] /\ job'.first = Identity(job.shards[job.at + 1])
      /\ job'.view = <<>>
  BY DEF Advanced, Continues
<1>2. PICK n \in Nat, m \in Nat : n = Len(job.shards) /\ m = job.at /\ m \in 1 .. n /\ m # n
  BY DEF JobTypes, Question, AllAsked
<1>3. PICK q \in InRoom : q = job.shards[m + 1]
  BY <1>2 DEF JobTypes, Question
<1>4. Identity(q) \in IdentityRecord /\ Identity(q).gen = world[q].gen /\ world[q].gen \in Nat
  BY DEF WorldsTypes, WorldRecord, Identity, IdentityRecord
<1>5. Question'
  <2>1. job'.shards \in Seq(InRoom) /\ job'.at \in 1 .. Len(job'.shards) /\ job'.ask = job'.shards[job'.at]
    BY <1>1, <1>2 DEF JobTypes, Question
  <2> QED BY <1>1, <1>2, <1>3, <1>4, <2>1 DEF Question
<1>6. ASSUME job.pc \in {"locate", "confirm"}
      PROVE  job'.seen \in Seq(SightingRecord) /\ Len(job'.seen) = (m + 1) - 1
  <2>1. job.seen \in Seq(SightingRecord) /\ Len(job.seen) = m - 1 /\ x \in SightingRecord
        /\ job'.seen = Append(job.seen, x)
    BY <1>2, <1>6 DEF JobTypes
  <2> QED BY <2>1, AppendProperties
<1>7. ASSUME job.pc = "settle"
      PROVE  job'.seen \in Seq(SettleRecord) /\ Len(job'.seen) = (m + 1) - 1
  <2>1. job.seen \in Seq(SettleRecord) /\ Len(job.seen) = m - 1 /\ x \in SettleRecord
        /\ job'.seen = Append(job.seen, x)
    BY <1>2, <1>7 DEF JobTypes
  <2> QED BY <2>1, AppendProperties
<1> QED BY <1>1, <1>2, <1>5, <1>6, <1>7 DEF JobTypes, Shape

\* An answer arrives.
LEMMA Observed ==
    ASSUME WorldsTypes, JobTypes, Observe
    PROVE  /\ JobTypes' /\ Continues(job')
           /\ job'.pc = job.pc /\ job'.at = job.at /\ job'.shards = job.shards /\ job'.ask = job.ask
           /\ job'.first = job.first /\ job'.seen = job.seen /\ job'.found = job.found
           /\ job'.target = job.target /\ job'.late = job.late /\ job'.answer = job.answer
           /\ job'.view # <<>> /\ View' \in ViewRecord
           /\ View'.session = world[job.ask].session /\ View'.snap = world[job.ask].snap
           /\ View'.avatar = avatar[job.ask]
<1>1. PICK s : s = job.ask  OBVIOUS
<1>2. s \in InRoom /\ job.pc \in Questions  BY <1>1 DEF Observe, JobTypes, Question
<1>3. PICK v : v = [session |-> world[s].session, snap |-> world[s].snap, saves |-> world[s].saves,
                    avatar |-> avatar[s]]
  OBVIOUS
<1>4. /\ v \in ViewRecord /\ v.session = world[s].session /\ v.snap = world[s].snap
      /\ v.avatar = avatar[s]
  BY <1>2, <1>3 DEF WorldsTypes, WorldRecord, ViewRecord
<1>5. job' = [job EXCEPT !.view = <<v>>] /\ UNCHANGED <<world, effect>>
  BY <1>1, <1>3 DEF Observe
<1>6. PICK y : y = <<v>> /\ y # <<>> /\ y[1] = v
  <2>1. <<v>>[1] = v  OBVIOUS
  <2>2. <<v>> # <<>>  OBVIOUS
  <2> QED BY <2>1, <2>2
<1>7. /\ Continues(job')
      /\ job'.pc = job.pc /\ job'.at = job.at /\ job'.shards = job.shards /\ job'.ask = job.ask
      /\ job'.first = job.first /\ job'.seen = job.seen /\ job'.found = job.found
      /\ job'.target = job.target /\ job'.late = job.late /\ job'.answer = job.answer
      /\ job'.view = y
  <2>1. Shape(job)  BY DEF JobTypes
  <2>2. job' = [job EXCEPT !.view = y]  BY <1>5, <1>6
  <2> QED BY ONLY <2>1, <2>2 DEF Shape, Continues
<1>8. View' = v  BY <1>6, <1>7 DEF View
<1>9. Question'
  BY <1>2, <1>4, <1>5, <1>7, <1>8 DEF JobTypes, Question
<1>10. JobTypes'
  BY <1>5, <1>7, <1>9 DEF JobTypes, Shape, Continues
<1> QED BY <1>1, <1>4, <1>6, <1>7, <1>8, <1>10

-----------------------------------------------------------------------------
(* Player commands *)

\* A command is about to be written.
Commanded(j, pc) ==
    /\ Continues(j) /\ j.late = job.late /\ j.answer = job.answer /\ j.pc = pc

\* Another question within the phase.
LEMMA AskFields ==
    ASSUME Shape(job), NEW s
    PROVE  /\ Commanded(Ask(s), job.pc) /\ Ask(s).found = job.found /\ Ask(s).target = job.target
<1>1. PICK j : j = Ask(s)  OBVIOUS
<1>2. PICK f : f = Identity(s)  OBVIOUS
<1>3. j = [job EXCEPT !.ask = s, !.first = f, !.view = <<>>]  BY <1>1, <1>2 DEF Ask
<1>4. Commanded(j, job.pc) /\ j.found = job.found /\ j.target = job.target
  BY ONLY Shape(job), <1>3 DEF Shape, Commanded, Continues
<1> QED BY <1>1, <1>4, Zenon

\* A command waits for its answer.
LEMMA JobCommands ==
    ASSUME JobTypes, NEW pc \in {"command", "reload", "save", "polling"}, Commanded(job', pc),
           pc \in PhasesOf(job.request), job.answer = "none",
           pc \in Early => ~job.late /\ ~effect'.ran
    PROVE  JobTypes'
<1>1. /\ Shape(job') /\ job'.request = job.request /\ job'.pc = pc /\ job'.answer = "none"
      /\ job'.late = job.late
  BY DEF Commanded, Continues
<1>2. pc \notin Questions /\ pc # "idle"  BY DEF Questions
<1> QED BY <1>1, <1>2 DEF JobTypes, Shape

\* What is sighted of one shard.
LEMMA SightingAdded ==
    ASSUME JobTypes, job.pc \in {"locate", "confirm"}, job.view # <<>>
    PROVE  /\ Sighting \in SightingRecord /\ Sighting.gen = job.first.gen
           /\ Sighting.avatar = View.avatar
           /\ Sightings \in Seq(SightingRecord) /\ Len(Sightings) = job.at
           /\ DOMAIN Sightings = 1 .. job.at
           /\ \A i \in 1 .. (job.at - 1) : Sightings[i] = job.seen[i]
           /\ Sightings[job.at] = Sighting
<1>1. Question  BY DEF JobTypes, Questions
<1>2. Sighting \in SightingRecord /\ Sighting.gen = job.first.gen /\ Sighting.avatar = View.avatar
  BY <1>1 DEF Question, ViewRecord, IdentityRecord, SightingRecord, Sighting
<1>3. PICK x \in SightingRecord : x = Sighting  BY <1>2
<1>4. PICK u \in Seq(SightingRecord) : u = job.seen /\ Len(u) = job.at - 1  BY DEF JobTypes
<1>5. job.at \in Nat /\ job.at > 0 /\ (job.at - 1) + 1 = job.at
  BY <1>1 DEF Question
<1>6. PICK v : v = Append(u, x)  OBVIOUS
<1>7. /\ v \in Seq(SightingRecord) /\ Len(v) = job.at /\ v[job.at] = x
      /\ \A i \in 1 .. (job.at - 1) : v[i] = u[i]
  BY <1>4, <1>5, <1>6, AppendProperties
<1>8. DOMAIN v = 1 .. job.at  BY <1>7
<1>9. v = Sightings  BY <1>3, <1>4, <1>6 DEF Sightings
<1> QED BY <1>2, <1>3, <1>4, <1>7, <1>8, <1>9

\* A sighting arrives: locate refuses, answers, goes on or has found the player.
LEMMA LocateStep ==
    ASSUME WorldsTypes, JobTypes, Locate
    PROVE  /\ JobTypes'
           /\ \/ \E answer \in {"refused", "ok"} :
                   /\ Ended(job', answer) /\ job'.late = job.late
                   /\ answer = "ok" => job.request = "get"
              \/ /\ Advanced(job') /\ ~AllAsked /\ job'.seen = Append(job.seen, Sighting)
              \/ /\ PlayerState(Sightings) = "Active" /\ AllAsked
                 /\ job'.found = Found(Sightings) /\ job'.pc \in {"destination", "command"}
                 /\ Continues(job') /\ job'.late = job.late /\ job'.answer = job.answer
<1>1. /\ job.pc = "locate" /\ job.view # <<>> /\ UNCHANGED <<world, effect>>
      /\ ~job.late /\ ~effect.ran /\ job.answer = "none" /\ Shape(job)
      /\ job.request \in PlayerCommands /\ job.late \in BOOLEAN
  BY PhasesTell DEF Locate, Replied, Quiet, JobTypes, Early
<1>2. ASSUME NEW answer \in {"refused", "ok"}, AnswerWith(answer), answer = "ok" => job.request = "get"
      PROVE  JobTypes' /\ Ended(job', answer) /\ job'.late = job.late
  <2>1. Ended(job', answer) /\ job'.late = job.late
    BY <1>1, <1>2, EndedFields DEF AnswerWith
  <2> QED BY <1>1, <2>1, JobEnds
<1>3. CASE ~SameWorld
  <2>1. AnswerWith("refused")  BY <1>3 DEF Locate
  <2> QED BY <1>2, <2>1
<1>4. CASE SameWorld /\ ~AllAsked
  <2>1. job' = NextSighting  BY <1>4 DEF Locate
  <2>2. Advanced(job') /\ job'.seen = Append(job.seen, Sighting)
    BY <1>1, <2>1, NextSightingFields
  <2>3. Sighting \in SightingRecord  BY <1>1, SightingAdded
  <2>4. job.pc \in Questions  BY <1>1 DEF Questions
  <2>5. JobTypes'  BY <1>1, <1>4, <2>2, <2>3, <2>4, JobAdvances
  <2> QED BY <1>4, <2>2, <2>5
<1>5. CASE SameWorld /\ AllAsked /\ job.request = "get"
  <2>1. AnswerWith("ok")  BY <1>5 DEF Locate
  <2> QED BY <1>2, <1>5, <2>1
<1>6. CASE SameWorld /\ AllAsked /\ job.request # "get" /\ PlayerState(Sightings) # "Active"
  <2>1. AnswerWith("refused")  BY <1>6 DEF Locate
  <2> QED BY <1>2, <2>1
<1>7. CASE SameWorld /\ AllAsked /\ job.request # "get" /\ PlayerState(Sightings) = "Active"
  <2>1. PICK f : f = Found(Sightings)  OBVIOUS
  <2>2. CASE job.request = "migrate"
    <3>1. PICK a : a = Asking("destination", RoomShards)  OBVIOUS
    <3>2. Started(a, "destination", RoomShards)  BY <1>1, <3>1, AskingFields
    <3>3. job' = [a EXCEPT !.found = f]  BY <1>7, <2>1, <2>2, <3>1 DEF Locate
    <3>4. Started(job', "destination", RoomShards) /\ job'.found = f
      BY ONLY <3>2, <3>3 DEF Started, Continues, Shape
    <3>5. "destination" \in Questions /\ "destination" \in PhasesOf(job.request)
      BY <2>2, PhasesTell DEF JobTypes, Questions
    <3>6. JobTypes'
      BY <1>1, <3>4, <3>5, ShardLists, JobStarts
    <3> QED BY <1>7, <2>1, <3>4, <3>6 DEF Started
  <2>3. CASE job.request # "migrate"
    <3>1. PICK a : a = Ask(f[1].shard)  OBVIOUS
    <3>2. Commanded(a, job.pc)  BY <1>1, <3>1, AskFields
    <3>3. job' = [a EXCEPT !.pc = "command", !.found = f, !.seen = <<>>]
      BY <1>7, <2>1, <2>3, <3>1 DEF Locate
    <3>4. Commanded(job', "command") /\ job'.found = f
      BY ONLY <3>2, <3>3 DEF Commanded, Continues, Shape
    <3>5. "command" \in PhasesOf(job.request)
      BY <1>1, <1>7, PhasesTell DEF JobTypes, PlayerCommands
    <3>6. JobTypes'  BY <1>1, <3>4, <3>5, JobCommands
    <3> QED BY <1>7, <2>1, <3>4, <3>6 DEF Commanded
  <2> QED BY <2>2, <2>3
<1> QED BY <1>3, <1>4, <1>5, <1>6, <1>7

\* A shard answers a migration: it goes on, is refused or goes to its command.
LEMMA DestinationStep ==
    ASSUME WorldsTypes, JobTypes, Destination
    PROVE  /\ JobTypes' /\ Continues(job') /\ job'.late = job.late /\ job'.found = job.found
           /\ \/ Ended(job', "refused")
              \/ job'.pc \in {"destination", "command"} /\ job'.answer = job.answer
<1>1. /\ job.pc = "destination" /\ job.view # <<>> /\ UNCHANGED <<world, effect>>
      /\ ~job.late /\ ~effect.ran /\ job.answer = "none" /\ Shape(job)
      /\ job.request = "migrate" /\ job.late \in BOOLEAN
  BY PhasesTell DEF Destination, Replied, Quiet, JobTypes, Early
<1>2. CASE ~AllAsked /\ job' = NextShard
  <2>1. Advanced(job')  BY <1>1, <1>2, NextShardFields
  <2>2. job.pc \in Questions  BY <1>1 DEF Questions
  <2>3. JobTypes'  BY <1>1, <1>2, <2>1, <2>2, JobAdvances
  <2> QED BY <1>1, <2>1, <2>3 DEF Advanced
<1>3. CASE job' = [Ask(job.found[1].shard) EXCEPT !.pc = "command", !.seen = <<>>]
  <2>1. PICK a : a = Ask(job.found[1].shard)  OBVIOUS
  <2>2. Commanded(a, job.pc) /\ a.found = job.found  BY <1>1, <2>1, AskFields
  <2>3. job' = [a EXCEPT !.pc = "command", !.seen = <<>>]  BY <1>3, <2>1
  <2>4. Commanded(job', "command") /\ job'.found = job.found
    BY ONLY <2>2, <2>3 DEF Commanded, Continues, Shape
  <2>5. "command" \in PhasesOf(job.request)  BY <1>1, PhasesTell DEF JobTypes
  <2>6. JobTypes'  BY <1>1, <2>4, <2>5, JobCommands
  <2> QED BY <2>4, <2>6 DEF Commanded
<1>4. CASE AnswerWith("refused")
  <2>1. Ended(job', "refused") /\ job'.late = job.late
    BY <1>1, <1>4, EndedFields DEF AnswerWith
  <2>2. job.request \notin Reloads  BY <1>1 DEF Reloads
  <2>3. JobTypes'  BY <1>1, <2>1, <2>2, JobEnds
  <2> QED BY <2>1, <2>3 DEF Ended
<1> QED BY <1>2, <1>3, <1>4 DEF Destination

\* A late command has run or was refused.
LEMMA LateSettled ==
    ASSUME WorldsTypes, JobTypes, Evolves, world' \in [InRoom -> WorldRecord],
           job.late, job' = [job EXCEPT !.late = FALSE]
    PROVE  /\ JobTypes' /\ Continues(job') /\ ~job'.late
           /\ job'.pc = job.pc /\ job'.at = job.at /\ job'.shards = job.shards /\ job'.ask = job.ask
           /\ job'.first = job.first /\ job'.view = job.view /\ job'.seen = job.seen
           /\ job'.found = job.found /\ job'.target = job.target /\ job'.answer = job.answer
           /\ View' = View
<1>1. /\ Continues(job') /\ job'.late = FALSE
      /\ job'.pc = job.pc /\ job'.at = job.at /\ job'.shards = job.shards /\ job'.ask = job.ask
      /\ job'.first = job.first /\ job'.view = job.view /\ job'.seen = job.seen
      /\ job'.found = job.found /\ job'.target = job.target /\ job'.answer = job.answer
  <2>1. Shape(job)  BY DEF JobTypes
  <2> QED BY ONLY <2>1, job' = [job EXCEPT !.late = FALSE] DEF Shape, Continues
<1>2. View' = View  BY <1>1 DEF View
<1>3. job.pc \in Questions => Question'
  <2> SUFFICES ASSUME job.pc \in Questions PROVE Question'
    OBVIOUS
  <2>1. Question  BY DEF JobTypes
  <2>2. job.first.gen <= world[job.ask].gen /\ world[job.ask].gen <= world'[job.ask].gen
        /\ job.first.gen \in Nat /\ world[job.ask].gen \in Nat /\ world'[job.ask].gen \in Nat
    BY <2>1 DEF Question, Evolves, WorldsTypes, WorldRecord, IdentityRecord
  <2>3. job.first.gen <= world'[job.ask].gen  BY <2>2
  <2> QED BY <1>1, <1>2, <2>1, <2>3 DEF Question
<1>4. /\ job.pc \notin Early /\ ~(job.pc = "idle" /\ job.answer = "none")
      /\ ~(job.request \in Reloads /\ job.answer = "refused")
  BY DEF JobTypes
<1>5. JobTypes'
  BY <1>1, <1>3, <1>4 DEF JobTypes, Continues
<1> QED BY <1>1, <1>2, <1>5

\* The command runs, in time or late: it misses its player, or makes that player leave.
LEMMA PlayerCommandStep ==
    ASSUME WorldsTypes, JobTypes, PlayerCommand,
           NEW s \in InRoom, s = job.found[1].shard
    PROVE  /\ WorldsTypes' /\ JobTypes' /\ Evolves
           /\ Continues(job') /\ job'.found = job.found /\ job.request \in PlayerCommands
           /\ \/ /\ effect' = effect /\ job'.pc \in {"idle", job.pc}
                 /\ job'.answer \in {job.answer, "refused"}
                 /\ job'.pc # "idle" => /\ job'.at = job.at /\ job'.shards = job.shards
                                        /\ job'.view = job.view /\ job'.seen = job.seen
                                        /\ job'.ask = job.ask /\ job'.first = job.first
              \/ /\ Guarded(s, job.found[1]) /\ effect'.ran /\ effect'.born = avatar[s].born
                 /\ effect'.ahead = effect.ahead
                 /\ avatar'[s].state = "leaving" /\ avatar'[s].born = avatar[s].born
                 /\ \A q \in InRoom \ {s} : avatar'[q] = avatar[q]
                 /\ job'.answer = "ok" => job.answer = "ok" \/ job.request = "migrate"
                 /\ job'.pc = "confirm" =>
                       \/ job.pc = "confirm" /\ job'.shards = job.shards
                       \/ /\ job.request \in {"kick", "despawn"} /\ job'.shards = RoomShards
                          /\ job'.view = <<>> /\ job'.seen = <<>> /\ job'.at = 1
                 /\ job'.pc \in {"idle", "confirm", job.pc}
                 /\ job.pc \in {"locate", "destination", "command"} => job'.pc \in {"idle", "confirm"}
                 /\ job.late =>
                       /\ job'.at = job.at /\ job'.shards = job.shards
                       /\ job'.view = job.view /\ job'.seen = job.seen
                       /\ job'.ask = job.ask /\ job'.answer = job.answer /\ job'.pc = job.pc
<1> DEFINE f == job.found[1]
<1>1. /\ UNCHANGED <<world, order, moves, loads, born>> /\ job.request \in PlayerCommands
      /\ Shape(job) /\ job.late \in BOOLEAN
      /\ job.pc = "command" => ~job.late /\ ~effect.ran /\ job.answer = "none"
      /\ world \in [InRoom -> WorldRecord]
      /\ job.late => job.pc \notin {"locate", "destination", "command"}
      /\ job.pc = "command" => job.request \in {"migrate", "kick", "despawn"}
  BY PhasesTell DEF PlayerCommand, JobTypes, Early, PlayerCommands, WorldsTypes
<1>2. CASE ~Guarded(s, f)
  <2>1. /\ job' = IF job.late THEN [job EXCEPT !.late = FALSE] ELSE EndedWith("refused")
        /\ UNCHANGED <<effect, avatar>>
    BY <1>2 DEF PlayerCommand
  <2>2. WorldsTypes' /\ Evolves
    <3>1. EffectShape'  BY <2>1 DEF WorldsTypes, EffectShape
    <3> QED BY <1>1, <2>1, <3>1, StillWorlds
  <2>3. CASE job.late
    <3>1. job' = [job EXCEPT !.late = FALSE]  BY <2>1, <2>3
    <3>2. world' \in [InRoom -> WorldRecord]  BY <1>1
    <3> QED BY <1>1, <2>1, <2>2, <2>3, <3>1, <3>2, LateSettled
  <2>4. CASE ~job.late
    <3>1. job' = EndedWith("refused")  BY <2>1, <2>4
    <3>2. Ended(job', "refused") /\ job'.late = job.late  BY <1>1, <3>1, EndedFields
    <3>3. job.request \notin Reloads  BY <1>1 DEF PlayerCommands, Reloads
    <3>4. JobTypes'  BY <1>1, <3>2, <3>3, JobEnds
    <3> QED BY <1>1, <2>1, <2>2, <3>2, <3>4 DEF Ended
  <2> QED BY <2>3, <2>4
<1>3. CASE Guarded(s, f)
  <2>1. /\ effect' = [effect EXCEPT !.ran = TRUE, !.born = avatar[s].born]
        /\ avatar' = [avatar EXCEPT ![s].state = "leaving"]
        /\ job' = IF job.late THEN [job EXCEPT !.late = FALSE]
                  ELSE IF job.request = "migrate" THEN EndedWith("ok")
                  ELSE Asking("confirm", RoomShards)
    BY <1>3 DEF PlayerCommand
  <2>2. EffectShape' /\ effect'.ran /\ effect'.born = avatar[s].born /\ effect'.ahead = effect.ahead
    BY <2>1 DEF WorldsTypes, EffectShape
  <2>3. PICK a : a = [avatar[s] EXCEPT !.state = "leaving"]  OBVIOUS
  <2>4. avatar[s] \in Avatars /\ avatar[s].state = "here" /\ avatar \in [InRoom -> Avatars]
    BY <1>3 DEF WorldsTypes, Guarded
  <2>5. a \in Avatars /\ a.guid = avatar[s].guid /\ a.born = avatar[s].born /\ a.state = "leaving"
    BY <2>3, <2>4 DEF Avatars
  <2>6. /\ \A q \in InRoom : avatar'[q] = IF q = s THEN a ELSE avatar[q]
        /\ avatar' \in [InRoom -> Avatars]
    BY <2>1, <2>3, <2>4, <2>5
  <2>7. /\ born' \in Nat /\ born <= born' /\ UNCHANGED loads
        /\ world' \in [InRoom -> WorldRecord]
        /\ \A q \in InRoom : /\ world'[q].gen = world[q].gen /\ world'[q].snap = world[q].snap
                             /\ world'[q].saves = world[q].saves
                             /\ world'[q].session = world[q].session
                             /\ world[q].next <= world'[q].next
    BY <1>1 DEF WorldsTypes, WorldRecord
  <2>8. WorldsTypes' /\ Evolves
    BY ONLY WorldsTypes, s \in InRoom, <2>2, <2>4, <2>5, <2>6, <2>7, MovedAvatar
  <2>9. avatar'[s].state = "leaving" /\ avatar'[s].born = avatar[s].born
        /\ \A q \in InRoom \ {s} : avatar'[q] = avatar[q]
    BY <2>5, <2>6
  <2>10. CASE job.late
    <3>1. job' = [job EXCEPT !.late = FALSE]  BY <2>1, <2>10
    <3> QED BY <1>1, <1>3, <2>2, <2>7, <2>8, <2>9, <2>10, <3>1, LateSettled
  <2>11. CASE ~job.late /\ job.request = "migrate"
    <3>1. job' = EndedWith("ok")  BY <2>1, <2>11
    <3>2. Ended(job', "ok") /\ job'.late = job.late  BY <1>1, <3>1, EndedFields
    <3>3. JobTypes'  BY <1>1, <3>2, JobEnds
    <3> QED BY <1>1, <1>3, <2>2, <2>8, <2>9, <2>11, <3>2, <3>3 DEF Ended
  <2>12. CASE ~job.late /\ job.request # "migrate"
    <3>1. job' = Asking("confirm", RoomShards) /\ job.pc = "command"
      BY <2>1, <2>12 DEF PlayerCommand
    <3>2. Started(job', "confirm", RoomShards) /\ job'.seen = <<>> /\ job'.found = job.found
      BY <1>1, <3>1, AskingFields
    <3>3. "confirm" \in Questions /\ "confirm" \in PhasesOf(job.request) /\ "confirm" \notin Early
      BY <1>1, <2>12, <3>1, PhasesTell DEF JobTypes, Questions, Early
    <3>4. JobTypes'  BY <1>1, <3>1, <3>2, <3>3, ShardLists, JobStarts
    <3>5. job.request \in {"kick", "despawn"}
      BY <1>1, <2>12, <3>1
    <3> QED BY <1>1, <1>3, <2>2, <2>8, <2>9, <2>12, <3>1, <3>2, <3>4, <3>5 DEF Started
  <2> QED BY <2>10, <2>11, <2>12
<1> QED BY <1>2, <1>3

\* A sighting after a removal: the confirmation fails, goes on, starts over or is done.
LEMMA ConfirmStep ==
    ASSUME WorldsTypes, JobTypes, Confirm
    PROVE  /\ JobTypes' /\ Continues(job') /\ job'.found = job.found
           /\ job.pc = "confirm" /\ job.view # <<>> /\ UNCHANGED effect
           /\ \/ Ended(job', "failed")
              \/ Advanced(job') /\ ~AllAsked /\ job'.seen = Append(job.seen, Sighting)
              \/ Ended(job', "ok") /\ AllAsked /\ PlayerGone(Sightings)
              \/ Started(job', "confirm", RoomShards) /\ job'.seen = <<>>
<1>1. /\ job.pc = "confirm" /\ job.view # <<>> /\ UNCHANGED <<world, effect>>
      /\ job.answer = "none" /\ Shape(job) /\ job.request \notin Reloads
      /\ job.late \in BOOLEAN /\ "confirm" \in PhasesOf(job.request)
      /\ "confirm" \in Questions /\ "confirm" \notin Early
  BY PhasesTell DEF Confirm, Replied, Quiet, JobTypes, Early, Reloads, Questions
<1>2. ASSUME NEW answer \in {"failed", "ok"}, AnswerWith(answer)
      PROVE  JobTypes' /\ Ended(job', answer) /\ Continues(job') /\ job'.found = job.found
  <2>1. Ended(job', answer) /\ job'.late = job.late
    BY <1>1, <1>2, EndedFields DEF AnswerWith
  <2>2. JobTypes'  BY <1>1, <2>1, JobEnds
  <2> QED BY <2>1, <2>2 DEF Ended
<1>3. CASE ~SameWorld
  <2>1. AnswerWith("failed")  BY <1>3 DEF Confirm
  <2> QED BY <1>1, <1>2, <2>1
<1>4. CASE SameWorld /\ ~AllAsked
  <2>1. job' = NextSighting  BY <1>4 DEF Confirm
  <2>2. Advanced(job') /\ job'.seen = Append(job.seen, Sighting)
    BY <1>1, <2>1, NextSightingFields
  <2>3. Sighting \in SightingRecord  BY <1>1, SightingAdded
  <2>5. JobTypes'  BY <1>1, <1>4, <2>2, <2>3, JobAdvances
  <2> QED BY <1>1, <1>4, <2>2, <2>5 DEF Advanced
<1>5. CASE SameWorld /\ AllAsked /\ PlayerGone(Sightings)
  <2>1. AnswerWith("ok")  BY <1>5 DEF Confirm
  <2> QED BY <1>1, <1>2, <1>5, <2>1
<1>6. CASE SameWorld /\ AllAsked /\ ~PlayerGone(Sightings)
  <2>1. job' = Asking("confirm", RoomShards)  BY <1>6 DEF Confirm
  <2>2. Started(job', "confirm", RoomShards) /\ job'.seen = <<>> /\ job'.found = job.found
    BY <1>1, <2>1, AskingFields
  <2>3. JobTypes'  BY <1>1, <2>2, ShardLists, JobStarts
  <2> QED BY <1>1, <2>2, <2>3 DEF Started
<1> QED BY <1>3, <1>4, <1>5, <1>6

-----------------------------------------------------------------------------
(* Ends that may come at any await *)

\* A request that is given up leaves worlds and players alone.
LEMMA AbandonStep ==
    ASSUME WorldsTypes, JobTypes, QuestionFails \/ CommandUnanswered \/ GiveUpWaiting
    PROVE  /\ JobTypes' /\ UNCHANGED <<world, avatar, born, loads, effect>>
           /\ Continues(job') /\ job'.found = job.found /\ job'.target = job.target
           /\ \/ /\ job'.pc = "idle" /\ job'.answer \in {"failed", "refused", "unknown"}
                 /\ job'.answer = "refused" => job.pc \in Early
              \/ job.pc = "reload" /\ job'.pc = "polling" /\ job'.answer = job.answer
           /\ job'.late => job.late \/ job.pc \in Commands
           /\ job'.late /\ ~job.late => job.pc \in Commands
<1>1. /\ UNCHANGED <<world, avatar, born, loads, effect>> /\ Shape(job) /\ job.late \in BOOLEAN
      /\ job.pc \in Commands => job.pc \in Early
  BY DEF QuestionFails, CommandUnanswered, GiveUpWaiting, Quiet, JobTypes, Commands, Early
<1>2. CASE QuestionFails
  <2>1. PICK answer \in {"failed", "refused"} :
           AnswerWith(answer) /\ (answer = "refused" => job.pc \in Early)
    BY <1>2 DEF QuestionFails, Questions, Early
  <2>2. Ended(job', answer) /\ job'.late = job.late
    BY <1>1, <2>1, EndedFields DEF AnswerWith
  <2>3. JobTypes'
    <3>1. answer = "refused" => ~job.late /\ ~effect.ran  BY <2>1 DEF JobTypes
    <3> QED BY <1>1, <2>2, <3>1, JobEnds
  <2> QED BY <1>1, <2>1, <2>2, <2>3 DEF Ended
<1>3. CASE CommandUnanswered /\ job.pc = "reload"
  <2>1. job' = [[job EXCEPT !.pc = "polling"] EXCEPT !.late = TRUE]
    BY <1>3 DEF CommandUnanswered
  <2>2. /\ Continues(job') /\ job'.late = TRUE /\ job'.pc = "polling" /\ job'.answer = job.answer
        /\ job'.found = job.found /\ job'.target = job.target
    BY ONLY <1>1, <2>1 DEF Shape, Continues
  <2>3. JobTypes'
    <3>1. job.answer = "none"  BY <1>3 DEF JobTypes
    <3>2. "polling" \in PhasesOf(job.request)  BY <1>3, PhasesTell DEF JobTypes
    <3>3. "polling" \notin Questions \union Early  BY DEF Questions, Early
    <3> QED BY <1>1, <2>2, <3>1, <3>2, <3>3 DEF JobTypes, Continues
  <2>4. job.pc \in Commands  BY <1>3 DEF CommandUnanswered
  <2> QED BY <1>1, <1>3, <2>2, <2>3, <2>4
<1>4. CASE CommandUnanswered /\ job.pc # "reload"
  <2>1. PICK e : e = EndedWith("unknown")  OBVIOUS
  <2>2. Ended(e, "unknown")  BY <1>1, <2>1, EndedFields
  <2>3. job' = [e EXCEPT !.late = TRUE]  BY <1>4, <2>1 DEF CommandUnanswered
  <2>4. Ended(job', "unknown") /\ job'.late = TRUE
    BY ONLY <2>2, <2>3 DEF Ended, Continues, Shape
  <2>5. JobTypes'  BY <1>1, <2>4, JobEnds
  <2>6. job.pc \in Commands  BY <1>4 DEF CommandUnanswered
  <2> QED BY <1>1, <2>4, <2>5, <2>6 DEF Ended
<1>5. CASE GiveUpWaiting
  <2>1. PICK e : e = EndedWith("unknown")  OBVIOUS
  <2>2. Ended(e, "unknown")  BY <1>1, <2>1, EndedFields
  <2>3. PICK b \in BOOLEAN : b = (job.late \/ job.pc \in Commands)
    OBVIOUS
  <2>4. job' = [e EXCEPT !.late = b]  BY <1>5, <2>1, <2>3 DEF GiveUpWaiting
  <2>5. Ended(job', "unknown") /\ job'.late = b
    BY ONLY <2>2, <2>4 DEF Ended, Continues, Shape
  <2>6. JobTypes'  BY <2>5, JobEnds
  <2>7. job'.late => job.late \/ job.pc \in Commands  BY <2>3, <2>5
  <2> QED BY <1>1, <2>5, <2>6, <2>7 DEF Ended
<1> QED BY <1>2, <1>3, <1>4, <1>5

\* The master is asked first, then every secondary.
LEMMA MasterFirstListed ==
    /\ MasterFirst \in Seq(InRoom) /\ MasterFirst # <<>> /\ MasterFirst[1] = Main
    /\ \A i \in 2 .. Len(MasterFirst) : MasterFirst[i] \in Secondaries
    /\ \A s \in Secondaries : \E i \in 2 .. Len(MasterFirst) : MasterFirst[i] = s
<1>1. RoomShards \in Seq(InRoom) /\ Main \in InRoom  BY ShardLists
<1>2. IsFiniteSet(Secondaries)
  <2>1. PICK n \in Nat : n = Len(RoomShards) /\ DOMAIN RoomShards = 1 .. n
    BY <1>1
  <2>2. RoomShards \in Surjection(1 .. n, InRoom)
    <3>1. RoomShards \in [1 .. n -> InRoom]  BY <1>1, <2>1
    <3>2. \A s \in InRoom : \E i \in 1 .. n : RoomShards[i] = s  BY <2>1, ShardLists
    <3> QED BY <3>1, <3>2 DEF Surjection
  <2>3. IsFiniteSet(1 .. n)  BY FS_Interval
  <2>4. IsFiniteSet(InRoom)  BY <2>2, <2>3, FS_Surjection
  <2> QED BY <2>4, FS_Subset DEF Secondaries, InRoom
<1>3. PICK m \in Nat : m = Cardinality(Secondaries) /\ ExistsBijection(1 .. m, Secondaries)
  BY <1>2, FS_CardinalityType
<1>4. PICK u : u = SetToSeq(Secondaries)  OBVIOUS
<1>5. u \in [1 .. m -> Secondaries] /\ IsInjective(u)
  <2>1. \E f \in [1 .. m -> Secondaries] : IsInjective(f)
    <3>1. PICK f \in Bijection(1 .. m, Secondaries) : TRUE
      BY <1>3 DEF ExistsBijection
    <3>2. f \in [1 .. m -> Secondaries] /\ IsInjective(f)
      BY <3>1 DEF Bijection, Injection
    <3> QED BY <3>2
  <2> QED BY <1>3, <1>4, <2>1 DEF SetToSeq
<1>6. \A s \in Secondaries : \E i \in 1 .. m : u[i] = s
  <2>1. u \in Injection(1 .. m, Secondaries)
    BY <1>5 DEF Injection, IsInjective
  <2>2. Cardinality(1 .. m) = m  BY FS_Interval
  <2>3. u \in Surjection(1 .. m, Secondaries)
    BY <1>2, <1>3, <2>1, <2>2, FS_Injection
  <2> QED BY <2>3 DEF Surjection
<1>7. u \in Seq(Secondaries) /\ Len(u) = m  BY <1>5
<1>8. PICK v \in Seq(InRoom) : v = <<Main>> /\ Len(v) = 1 /\ v[1] = Main
  <2>1. PICK v : v = <<Main>>  OBVIOUS
  <2>2. Len(v) = 1 /\ v[1] = Main  BY <2>1
  <2>3. v \in Seq(InRoom)  BY <2>1, ShardLists
  <2> QED BY <2>1, <2>2, <2>3
<1>9. u \in Seq(InRoom)
  <2>1. Secondaries \subseteq InRoom  BY DEF Secondaries, InRoom
  <2> QED BY <1>7, <2>1
<1>10. PICK w : w = v \o u  OBVIOUS
<1>11. /\ w \in Seq(InRoom) /\ Len(w) = 1 + m /\ w[1] = Main
       /\ \A i \in 1 .. 1 + m : w[i] = IF i <= 1 THEN v[i] ELSE u[i - 1]
  BY <1>7, <1>8, <1>9, <1>10, ConcatProperties
<1>12. w = MasterFirst  BY <1>4, <1>8, <1>10 DEF MasterFirst
<1>13. \A i \in 2 .. 1 + m : w[i] \in Secondaries
  BY <1>5, <1>11
<1>14. \A s \in Secondaries : \E i \in 2 .. 1 + m : w[i] = s
  <2> TAKE s \in Secondaries
  <2>1. PICK i \in 1 .. m : u[i] = s  BY <1>6
  <2>2. i + 1 \in 2 .. 1 + m /\ w[i + 1] = u[i]
    BY <1>11
  <2> QED BY <2>1, <2>2
<1>15. w # <<>>
  <2>1. Len(w) # 0  BY <1>11
  <2> QED BY <2>1, EmptySeq
<1> QED BY <1>11, <1>12, <1>13, <1>14, <1>15

\* A request begins by asking, or with its command.
LEMMA BeginStep ==
    ASSUME WorldsTypes, JobTypes, NEW r \in Requests, BeginRequest(r)
    PROVE  /\ JobTypes' /\ UNCHANGED <<world, avatar, born, loads, effect>>
           /\ ~job'.late /\ ~effect.ran /\ job'.answer = "none" /\ job'.target = 0
           /\ job'.request = job.request /\ job'.at = 1 /\ job'.view = <<>> /\ job'.seen = <<>>
           /\ job'.initial = [q \in InRoom |-> Identity(q)]
           /\ job'.pc \in {"locate", "catalog", "complete", "presence", "reload", "runtime"}
           /\ job'.pc = "runtime" => job'.shards = MasterFirst
           /\ job.request # "regenerate_shard" => job'.only = {}
<1> DEFINE initial == [q \in InRoom |-> Identity(q)]
           fresh == [job EXCEPT !.initial = initial]
<1>1. /\ UNCHANGED <<world, avatar, born, loads, effect>>
      /\ job = [request |-> r, pc |-> "idle", at |-> 1, shards |-> <<>>, ask |-> "", first |-> <<>>,
                view |-> <<>>, seen |-> <<>>, initial |-> <<>>, found |-> <<>>, only |-> {},
                ids |-> <<>>, session |-> 0, target |-> 0, late |-> FALSE, answer |-> "none"]
  BY DEF BeginRequest, Quiet, NoRequest
<1>2. /\ ~effect.ran /\ job.request = r /\ r \in RequestKinds
  BY <1>1, WorldsAssumption DEF JobTypes, RequestKinds
<1>3. PICK s \in InRoom, scope \in {<<q>> : q \in InRoom} \union {RoomShards} :
          LET to(j, pc, shards) == [j EXCEPT !.pc = pc, !.shards = shards, !.ask = shards[1],
                                             !.first = Identity(shards[1])]
          IN job' = CASE r \in PlayerCommands -> to(fresh, "locate", scope)
                      [] r \in {"reset", "rollback", "day"} -> to(fresh, "catalog", <<Main>>)
                      [] r = "exact" -> to([fresh EXCEPT !.ids = <<2>>], "complete", RoomShards)
                      [] r = "regenerate" -> to(fresh, "presence", RoomShards)
                      [] r = "regenerate_shard" -> Command([fresh EXCEPT !.only = {s}], s)
                      [] r = "save" -> to(fresh, "runtime", MasterFirst)
  BY DEF BeginRequest
<1>4. scope \in Seq(InRoom) /\ scope # <<>>
  BY <1>3, ShardLists
<1> HIDE DEF initial
<1>5. ASSUME NEW shards \in Seq(InRoom), shards # <<>>, NEW q, NEW f, NEW ids,
             NEW pc \in {"locate", "catalog", "complete", "presence", "runtime"}, pc \in PhasesOf(r),
             pc = "runtime" => shards = MasterFirst, q = shards[1], f = Identity(q),
             job' = [request |-> r, pc |-> pc, at |-> 1, shards |-> shards, ask |-> q,
                     first |-> f, view |-> <<>>, seen |-> <<>>, initial |-> initial,
                     found |-> <<>>, only |-> {}, ids |-> ids, session |-> 0, target |-> 0,
                     late |-> FALSE, answer |-> "none"]
      PROVE  /\ JobTypes' /\ ~job'.late /\ job'.answer = "none" /\ job'.target = 0
             /\ job'.request = job.request /\ job'.at = 1 /\ job'.view = <<>> /\ job'.seen = <<>>
             /\ job'.initial = initial /\ job'.pc = pc
             /\ job'.pc = "runtime" => job'.shards = MasterFirst
             /\ job'.only = {}
  <2>1. q \in InRoom /\ 1 \in 1 .. Len(shards)  BY <1>5
  <2>4. f \in IdentityRecord /\ f.gen = world[q].gen /\ world[q].gen \in Nat
    BY <1>5, <2>1 DEF WorldsTypes, WorldRecord, Identity, IdentityRecord
  <2>5. /\ job'.request = r /\ job'.pc = pc /\ job'.at = 1 /\ job'.shards = shards /\ job'.ask = q
        /\ job'.first = f /\ job'.view = <<>> /\ job'.seen = <<>> /\ job'.initial = initial
        /\ job'.only = {} /\ job'.target = 0 /\ job'.late = FALSE /\ job'.answer = "none"
        /\ Shape(job')
    BY ONLY <1>5 DEF Shape
  <2>6. Question'
    <3>1. job'.shards \in Seq(InRoom) /\ job'.at \in 1 .. Len(job'.shards)
          /\ job'.ask = job'.shards[job'.at]
      BY <1>5, <2>1, <2>5
    <3>2. f.gen <= world'[q].gen
      <4>1. world' = world  BY <1>1
      <4>2. PICK n \in Nat : n = world[q].gen /\ f.gen = n  BY <2>4
      <4>3. n <= n  OBVIOUS
      <4>4. world'[q].gen = n  BY <4>1, <4>2
      <4> QED BY <4>2, <4>3, <4>4, Zenon
    <3>3. job'.ask \in InRoom /\ job'.first \in IdentityRecord
          /\ job'.first.gen <= world'[job'.ask].gen
      BY <2>1, <2>4, <2>5, <3>2
    <3> QED BY <2>5, <3>1, <3>3 DEF Question
  <2>7. /\ <<>> \in Seq(SightingRecord) /\ Len(<<>>) = 0  BY EmptySeq
  <2>8. JobTypes'
    <3>1. pc \notin {"idle", "confirm", "settle"}  BY <1>5
    <3>2. job'.pc \in {"locate", "confirm"} =>
             job'.seen \in Seq(SightingRecord) /\ Len(job'.seen) = job'.at - 1
      <4>1. job'.seen \in Seq(SightingRecord) /\ Len(job'.seen) = 0  BY <2>5, <2>7, Zenon
      <4>2. job'.at - 1 = 0  BY <2>5
      <4> QED BY <4>1, <4>2
    <3> QED BY <1>1, <1>2, <1>5, <2>5, <2>6, <3>1, <3>2 DEF JobTypes
  <2> QED BY <1>2, <1>5, <2>5, <2>8
<1>7. CASE r \in PlayerCommands
  <2>1. PICK shards \in Seq(InRoom) : shards = scope /\ shards # <<>>  BY <1>4
  <2>2. PICK q : q = shards[1]  OBVIOUS
  <2>3. PICK f : f = Identity(q)  OBVIOUS
  <2>4. job' = [fresh EXCEPT !.pc = "locate", !.shards = shards, !.ask = q, !.first = f]
    <3>1. job' = [fresh EXCEPT !.pc = "locate", !.shards = shards, !.ask = shards[1],
                                !.first = Identity(shards[1])]
      BY <1>3, <1>7, <2>1 DEF PlayerCommands
    <3> QED BY <2>2, <2>3, <3>1, Zenon
  <2>5. job' = [request |-> r, pc |-> "locate", at |-> 1, shards |-> shards, ask |-> q,
                first |-> f, view |-> <<>>, seen |-> <<>>, initial |-> initial,
                found |-> <<>>, only |-> {}, ids |-> <<>>, session |-> 0, target |-> 0,
                late |-> FALSE, answer |-> "none"]
    BY ONLY <1>1, <2>4
  <2>6. "locate" \in PhasesOf(r)  BY <1>2, <1>7, PhasesTell
  <2>7. "locate" # "runtime"  OBVIOUS
  <2> HIDE DEF fresh
  <2>8. /\ JobTypes' /\ ~job'.late /\ job'.answer = "none" /\ job'.target = 0
        /\ job'.request = job.request /\ job'.at = 1 /\ job'.view = <<>> /\ job'.seen = <<>>
        /\ job'.initial = initial /\ job'.pc = "locate"
        /\ job'.pc = "runtime" => job'.shards = MasterFirst
        /\ job'.only = {}
    BY <1>5, <2>1, <2>2, <2>3, <2>5, <2>6, <2>7
  <2> QED BY <1>1, <1>2, <2>8 DEF initial
<1>8. CASE r \in {"reset", "rollback", "day"}
  <2>1. PICK shards \in Seq(InRoom) : shards = <<Main>> /\ shards # <<>>  BY ShardLists
  <2>2. PICK q : q = shards[1]  OBVIOUS
  <2>3. PICK f : f = Identity(q)  OBVIOUS
  <2>4. job' = [fresh EXCEPT !.pc = "catalog", !.shards = shards, !.ask = q, !.first = f]
    <3>1. job' = [fresh EXCEPT !.pc = "catalog", !.shards = shards, !.ask = shards[1],
                                !.first = Identity(shards[1])]
      BY <1>3, <1>8, <2>1 DEF PlayerCommands
    <3> QED BY <2>2, <2>3, <3>1, Zenon
  <2>5. job' = [request |-> r, pc |-> "catalog", at |-> 1, shards |-> shards, ask |-> q,
                first |-> f, view |-> <<>>, seen |-> <<>>, initial |-> initial,
                found |-> <<>>, only |-> {}, ids |-> <<>>, session |-> 0, target |-> 0,
                late |-> FALSE, answer |-> "none"]
    BY ONLY <1>1, <2>4
  <2>6. "catalog" \in PhasesOf(r)  BY <1>2, <1>8, PhasesTell
  <2>7. "catalog" # "runtime"  OBVIOUS
  <2> HIDE DEF fresh
  <2>8. /\ JobTypes' /\ ~job'.late /\ job'.answer = "none" /\ job'.target = 0
        /\ job'.request = job.request /\ job'.at = 1 /\ job'.view = <<>> /\ job'.seen = <<>>
        /\ job'.initial = initial /\ job'.pc = "catalog"
        /\ job'.pc = "runtime" => job'.shards = MasterFirst
        /\ job'.only = {}
    BY <1>5, <2>1, <2>2, <2>3, <2>5, <2>6, <2>7
  <2> QED BY <1>1, <1>2, <2>8 DEF initial
<1>9. CASE r = "exact"
  <2>1. PICK shards \in Seq(InRoom) : shards = RoomShards /\ shards # <<>>  BY ShardLists
  <2>2. PICK q : q = shards[1]  OBVIOUS
  <2>3. PICK f : f = Identity(q)  OBVIOUS
  <2>4. job' = [[fresh EXCEPT !.ids = <<2>>] EXCEPT !.pc = "complete", !.shards = shards, !.ask = q, !.first = f]
    <3>1. job' = [[fresh EXCEPT !.ids = <<2>>] EXCEPT !.pc = "complete", !.shards = shards, !.ask = shards[1],
                                !.first = Identity(shards[1])]
      BY <1>3, <1>9, <2>1 DEF PlayerCommands
    <3> QED BY <2>2, <2>3, <3>1, Zenon
  <2>5. job' = [request |-> r, pc |-> "complete", at |-> 1, shards |-> shards, ask |-> q,
                first |-> f, view |-> <<>>, seen |-> <<>>, initial |-> initial,
                found |-> <<>>, only |-> {}, ids |-> <<2>>, session |-> 0, target |-> 0,
                late |-> FALSE, answer |-> "none"]
    BY ONLY <1>1, <2>4
  <2>6. "complete" \in PhasesOf(r)  BY <1>2, <1>9, PhasesTell
  <2>7. "complete" # "runtime"  OBVIOUS
  <2> HIDE DEF fresh
  <2>8. /\ JobTypes' /\ ~job'.late /\ job'.answer = "none" /\ job'.target = 0
        /\ job'.request = job.request /\ job'.at = 1 /\ job'.view = <<>> /\ job'.seen = <<>>
        /\ job'.initial = initial /\ job'.pc = "complete"
        /\ job'.pc = "runtime" => job'.shards = MasterFirst
        /\ job'.only = {}
    BY <1>5, <2>1, <2>2, <2>3, <2>5, <2>6, <2>7
  <2> QED BY <1>1, <1>2, <2>8 DEF initial
<1>10. CASE r = "regenerate"
  <2>1. PICK shards \in Seq(InRoom) : shards = RoomShards /\ shards # <<>>  BY ShardLists
  <2>2. PICK q : q = shards[1]  OBVIOUS
  <2>3. PICK f : f = Identity(q)  OBVIOUS
  <2>4. job' = [fresh EXCEPT !.pc = "presence", !.shards = shards, !.ask = q, !.first = f]
    <3>1. job' = [fresh EXCEPT !.pc = "presence", !.shards = shards, !.ask = shards[1],
                                !.first = Identity(shards[1])]
      BY <1>3, <1>10, <2>1 DEF PlayerCommands
    <3> QED BY <2>2, <2>3, <3>1, Zenon
  <2>5. job' = [request |-> r, pc |-> "presence", at |-> 1, shards |-> shards, ask |-> q,
                first |-> f, view |-> <<>>, seen |-> <<>>, initial |-> initial,
                found |-> <<>>, only |-> {}, ids |-> <<>>, session |-> 0, target |-> 0,
                late |-> FALSE, answer |-> "none"]
    BY ONLY <1>1, <2>4
  <2>6. "presence" \in PhasesOf(r)  BY <1>2, <1>10, PhasesTell
  <2>7. "presence" # "runtime"  OBVIOUS
  <2> HIDE DEF fresh
  <2>8. /\ JobTypes' /\ ~job'.late /\ job'.answer = "none" /\ job'.target = 0
        /\ job'.request = job.request /\ job'.at = 1 /\ job'.view = <<>> /\ job'.seen = <<>>
        /\ job'.initial = initial /\ job'.pc = "presence"
        /\ job'.pc = "runtime" => job'.shards = MasterFirst
        /\ job'.only = {}
    BY <1>5, <2>1, <2>2, <2>3, <2>5, <2>6, <2>7
  <2> QED BY <1>1, <1>2, <2>8 DEF initial
<1>11. CASE r = "regenerate_shard"
  <2>1. job' = Command([fresh EXCEPT !.only = {s}], s)
    BY <1>3, <1>11 DEF PlayerCommands
  <2>2. PICK f : f = Identity(s)  OBVIOUS
  <2>3. job' = [[fresh EXCEPT !.only = {s}] EXCEPT !.pc = "reload", !.ask = s, !.first = f,
                              !.view = <<>>, !.ids = <<>>, !.seen = <<>>]
    BY <2>1, <2>2 DEF Command
  <2>4. job' = [request |-> r, pc |-> "reload", at |-> 1, shards |-> <<>>, ask |-> s,
              first |-> f, view |-> <<>>, seen |-> <<>>, initial |-> initial,
              found |-> <<>>, only |-> {s}, ids |-> <<>>, session |-> 0, target |-> 0,
              late |-> FALSE, answer |-> "none"]
    BY <1>1, <2>3
  <2>5. /\ job'.request = r /\ job'.pc = "reload" /\ job'.at = 1
        /\ job'.view = <<>> /\ job'.seen = <<>> /\ job'.initial = initial
        /\ job'.target = 0 /\ job'.late = FALSE /\ job'.answer = "none"
        /\ Shape(job')
    BY ONLY <2>4 DEF Shape
  <2>6. "reload" \in PhasesOf(r) /\ "reload" \notin Questions
    BY <1>2, <1>11, PhasesTell DEF Reloads, Questions
  <2>7. JobTypes'  BY <1>1, <1>2, <2>5, <2>6 DEF JobTypes
  <2> QED BY <1>1, <1>2, <1>11, <2>5, <2>7 DEF initial
<1>12. CASE r = "save"
  <2>1. PICK shards \in Seq(InRoom) : shards = MasterFirst /\ shards # <<>>  BY MasterFirstListed
  <2>2. PICK q : q = shards[1]  OBVIOUS
  <2>3. PICK f : f = Identity(q)  OBVIOUS
  <2>4. job' = [fresh EXCEPT !.pc = "runtime", !.shards = shards, !.ask = q, !.first = f]
    <3>1. job' = [fresh EXCEPT !.pc = "runtime", !.shards = shards, !.ask = shards[1],
                                !.first = Identity(shards[1])]
      BY <1>3, <1>12, <2>1 DEF PlayerCommands
    <3> QED BY <2>2, <2>3, <3>1, Zenon
  <2>5. job' = [request |-> r, pc |-> "runtime", at |-> 1, shards |-> shards, ask |-> q,
                first |-> f, view |-> <<>>, seen |-> <<>>, initial |-> initial,
                found |-> <<>>, only |-> {}, ids |-> <<>>, session |-> 0, target |-> 0,
                late |-> FALSE, answer |-> "none"]
    BY ONLY <1>1, <2>4
  <2>6. "runtime" \in PhasesOf(r)  BY <1>2, <1>12, PhasesTell
  <2>7. shards = MasterFirst  BY <2>1
  <2> HIDE DEF fresh
  <2>8. /\ JobTypes' /\ ~job'.late /\ job'.answer = "none" /\ job'.target = 0
        /\ job'.request = job.request /\ job'.at = 1 /\ job'.view = <<>> /\ job'.seen = <<>>
        /\ job'.initial = initial /\ job'.pc = "runtime"
        /\ job'.pc = "runtime" => job'.shards = MasterFirst
        /\ job'.only = {}
    BY <1>5, <2>1, <2>2, <2>3, <2>5, <2>6, <2>7
  <2> QED BY <1>1, <1>2, <2>8 DEF initial
<1> QED BY <1>2, <1>7, <1>8, <1>9, <1>10, <1>11, <1>12 DEF RequestKinds, Reloads

-----------------------------------------------------------------------------
(* Selecting what to reload *)

\* A check of one snapshot starts with the first shard.
LEMMA CheckFields ==
    ASSUME NEW j, Continues(j), j.late = job.late, j.answer = job.answer, NEW ids
    PROVE  Started(Check(j, ids), "complete", RoomShards) /\ Check(j, ids).target = j.target
<1>1. PICK q : q = RoomShards[1]  OBVIOUS
<1>2. PICK f : f = Identity(q)  OBVIOUS
<1>3. PICK c : c = Check(j, ids)  OBVIOUS
<1>4. c = [j EXCEPT !.ids = ids, !.pc = "complete", !.shards = RoomShards, !.at = 1, !.ask = q,
                    !.first = f, !.view = <<>>]
  BY <1>1, <1>2, <1>3, Zenon DEF Check
<1>5. /\ Continues(c) /\ c.late = j.late /\ c.answer = j.answer /\ c.pc = "complete"
      /\ c.shards = RoomShards /\ c.at = 1 /\ c.ask = q /\ c.first = f /\ c.view = <<>>
      /\ c.target = j.target
  BY ONLY Continues(j), <1>4 DEF Continues, Shape
<1>6. Started(c, "complete", RoomShards)  BY <1>1, <1>2, <1>5, Zenon DEF Started
<1> QED BY <1>3, <1>5, <1>6, Zenon

\* The reload is about to be written.
LEMMA CommandFields ==
    ASSUME NEW j, Continues(j), j.late = job.late, j.answer = job.answer, NEW s
    PROVE  Commanded(Command(j, s), "reload") /\ Command(j, s).target = j.target
<1>1. PICK f : f = Identity(s)  OBVIOUS
<1>2. PICK c : c = Command(j, s)  OBVIOUS
<1>3. c = [j EXCEPT !.pc = "reload", !.ask = s, !.first = f, !.view = <<>>, !.ids = <<>>,
                    !.seen = <<>>]
  BY <1>1, <1>2, Zenon DEF Command
<1>4. /\ Continues(c) /\ c.late = j.late /\ c.answer = j.answer /\ c.pc = "reload"
      /\ c.target = j.target
  BY ONLY Continues(j), <1>3 DEF Continues, Shape
<1> QED BY <1>2, <1>4, Zenon DEF Commanded

\* What a step of the selection does to the request.
Selects ==
    /\ JobTypes' /\ Continues(job') /\ UNCHANGED <<world, avatar, born, loads, effect>>
    /\ job.pc # "idle" /\ job.request \in Reloads
    /\ job'.pc \in {"idle", "complete", "presence", "reload"}
    /\ job'.answer \in {"none", "refused"}
    /\ \/ job'.target = job.target
       \/ job'.target \in Nat /\ job.request \in {"reset", "rollback", "day", "exact"}

\* What the request is while it selects.
LEMMA Selecting ==
    ASSUME JobTypes, job.pc \in {"catalog", "complete", "presence"}, UNCHANGED effect
    PROVE  /\ Shape(job) /\ Continues(job) /\ job.answer = "none" /\ job.request \in Reloads
           /\ ~job.late /\ ~effect'.ran /\ job.late \in BOOLEAN /\ job.pc \in Questions
           /\ job.pc # "idle" /\ "reload" \in PhasesOf(job.request)
           /\ job.pc # "presence" => /\ job.request \in {"reset", "rollback", "day", "exact"}
                                     /\ "complete" \in PhasesOf(job.request)
<1>1. job.pc \in Early /\ job.pc \in Questions /\ job.pc # "idle"
  BY DEF Early, Questions
<1>2. job.request \in RequestKinds /\ Shape(job) /\ ~job.late /\ ~effect.ran /\ job.answer = "none"
      /\ job.pc \in PhasesOf(job.request) /\ job.late \in BOOLEAN
  BY <1>1 DEF JobTypes
<1>3. /\ job.request \in Reloads /\ "reload" \in PhasesOf(job.request)
      /\ job.pc # "presence" => /\ job.request \in {"reset", "rollback", "day", "exact"}
                                /\ "complete" \in PhasesOf(job.request)
  BY <1>2, PhasesTell DEF Reloads
<1> QED BY <1>1, <1>2, <1>3 DEF Continues

\* A refused selection.
LEMMA SelectionRefused ==
    ASSUME WorldsTypes, JobTypes, job.pc \in {"catalog", "complete", "presence"},
           AnswerWith("refused"), UNCHANGED <<world, avatar, born, loads, effect>>
    PROVE  Selects
<1>1. effect' = effect  OBVIOUS
<1>2. Shape(job) /\ ~job.late /\ ~effect'.ran /\ job.late \in BOOLEAN /\ job.request \in Reloads
      /\ job.pc # "idle"
  BY <1>1, Selecting
<1>3. Ended(job', "refused") /\ job'.late = job.late
  BY <1>2, EndedFields DEF AnswerWith
<1>4. JobTypes'  BY <1>2, <1>3, JobEnds
<1> QED BY <1>2, <1>3, <1>4 DEF Selects, Ended

\* A candidate is checked on every shard.
LEMMA SelectionChecks ==
    ASSUME WorldsTypes, JobTypes, job.pc \in {"catalog", "complete"}, NEW j, NEW ids,
           Continues(j), j.late = job.late, j.answer = job.answer,
           j.target = job.target \/ j.target \in Nat,
           job' = Check(j, ids), UNCHANGED <<world, avatar, born, loads, effect>>
    PROVE  Selects
<1>1. effect' = effect /\ world' = world  OBVIOUS
<1>2. /\ ~job.late /\ ~effect'.ran /\ job.request \in {"reset", "rollback", "day", "exact"}
      /\ job.request \in Reloads /\ job.pc # "idle" /\ job.answer = "none"
      /\ "complete" \in PhasesOf(job.request)
  BY <1>1, Selecting
<1>3. Started(job', "complete", RoomShards) /\ job'.target = j.target
  BY CheckFields
<1>4. "complete" \in Questions /\ "complete" \notin {"locate", "confirm", "settle"}
  BY DEF Questions
<1>5. JobTypes'  BY <1>1, <1>2, <1>3, <1>4, ShardLists, JobStarts
<1> QED BY <1>2, <1>3, <1>5 DEF Selects, Started

\* The selection is done.
LEMMA SelectionDone ==
    ASSUME WorldsTypes, JobTypes, job.pc \in {"complete", "presence"}, NEW j, NEW s,
           Continues(j), j.late = job.late, j.answer = job.answer,
           \/ j.target = job.target
           \/ j.target \in Nat /\ job.pc = "complete",
           job' = Command(j, s), UNCHANGED <<world, avatar, born, loads, effect>>
    PROVE  Selects
<1>1. effect' = effect  OBVIOUS
<1>2. /\ ~job.late /\ ~effect'.ran /\ job.request \in Reloads /\ job.pc # "idle"
      /\ job.answer = "none" /\ "reload" \in PhasesOf(job.request)
      /\ job.pc # "presence" => job.request \in {"reset", "rollback", "day", "exact"}
  BY <1>1, Selecting
<1>3. Commanded(job', "reload") /\ job'.target = j.target
  BY CommandFields
<1>4. JobTypes'  BY <1>2, <1>3, JobCommands
<1> QED BY <1>2, <1>3, <1>4 DEF Selects, Commanded

\* The next shard is asked.
LEMMA SelectionAdvances ==
    ASSUME WorldsTypes, JobTypes, job.pc \in {"complete", "presence"}, ~AllAsked,
           job' = NextShard, UNCHANGED <<world, avatar, born, loads, effect>>
    PROVE  Selects
<1>1. effect' = effect /\ world' = world  OBVIOUS
<1>2. /\ Shape(job) /\ job.request \in Reloads /\ job.pc # "idle" /\ job.pc \in Questions
      /\ job.answer = "none"
  BY <1>1, Selecting
<1>3. Advanced(job') /\ job'.target = job.target  BY <1>2, NextShardFields
<1>4. job.pc \notin {"locate", "confirm", "settle"}  OBVIOUS
<1>5. JobTypes'  BY <1>1, <1>2, <1>3, <1>4, JobAdvances
<1> QED BY <1>2, <1>3, <1>5 DEF Selects, Advanced

\* select_snapshot and complete_snapshot touch nothing but the request.
LEMMA SelectionStep ==
    ASSUME WorldsTypes, JobTypes, Catalog \/ Complete \/ Presence
    PROVE  Selects
<1>1. UNCHANGED <<world, avatar, born, loads, effect>>
  BY DEF Catalog, Complete, Presence, Quiet
<1>2. CASE Catalog
  <2>1. job.pc = "catalog"  BY <1>2 DEF Catalog, Replied
  <2>2. Continues(job)  BY <2>1 DEF JobTypes, Continues
  <2>3. PICK ids : ids = Candidates(View.saves)  OBVIOUS
  <2>4. AnswerWith("refused") \/ job' = Check(job, ids)
    BY <1>2, <2>3, Zenon DEF Catalog
  <2> QED BY <1>1, <2>1, <2>2, <2>4, SelectionRefused, SelectionChecks
<1>3. CASE Complete
  <2>1. job.pc = "complete" /\ job.view # <<>>  BY <1>3 DEF Complete, Replied
  <2>2. Continues(job) /\ Question
    BY <2>1 DEF JobTypes, Continues, Questions
  <2>3. PICK id : id = job.ids[1]  OBVIOUS
  <2>4. PICK j : j = IF id \in View.saves THEN [job EXCEPT !.target = id] ELSE job
    OBVIOUS
  <2>5. /\ Continues(j) /\ j.late = job.late /\ j.answer = job.answer
        /\ j.target = job.target \/ j.target \in Nat
    <3>1. CASE id \in View.saves
      <4>1. id \in Nat  BY <2>1, <2>2, <3>1 DEF Question, ViewRecord
      <4>2. j = [job EXCEPT !.target = id]  BY <2>4, <3>1
      <4>3. Continues(j) /\ j.late = job.late /\ j.answer = job.answer /\ j.target = id
        BY ONLY <2>2, <4>2 DEF Continues, Shape
      <4> QED BY <4>1, <4>3
    <3>2. CASE id \notin View.saves
      BY <2>2, <2>4, <3>2
    <3> QED BY <3>1, <3>2
  <2>6. PICK rest : rest = Tail(job.ids)  OBVIOUS
  <2>7. \/ AnswerWith("refused")
        \/ ~AllAsked /\ job' = NextShard
        \/ job' = Check(j, rest)
        \/ job' = Command(j, Main)
    BY <1>3, <2>3, <2>4, <2>6, Zenon DEF Complete
  <2> QED BY <1>1, <2>1, <2>5, <2>7, SelectionRefused, SelectionChecks, SelectionDone,
             SelectionAdvances
<1>4. CASE Presence
  <2>1. job.pc = "presence"  BY <1>4 DEF Presence, Replied
  <2>2. Continues(job)  BY <2>1 DEF JobTypes, Continues
  <2>3. \/ AnswerWith("refused")
        \/ ~AllAsked /\ job' = NextShard
        \/ job' = Command(job, Main)
    BY <1>4, Zenon DEF Presence
  <2> QED BY <1>1, <2>1, <2>2, <2>3, SelectionRefused, SelectionDone, SelectionAdvances
<1> QED BY <1>2, <1>3, <1>4

-----------------------------------------------------------------------------
(* The reload, and what the shards say afterwards *)

\* The command of a reload is refused, or it reorders the worlds.
LEMMA ReloadCommandStep ==
    ASSUME WorldsTypes, JobTypes, ReloadCommand
    PROVE  /\ WorldsTypes' /\ JobTypes' /\ UNCHANGED <<world, avatar, born, loads>>
           /\ Continues(job') /\ job'.target = job.target /\ job.request \in Reloads
           /\ \/ effect' = effect
              \/ /\ effect'.ran /\ effect'.ahead = effect.ahead
                 /\ job.request = "regenerate" => effect'.empty
           /\ job'.answer \in {job.answer, "refused"}
           /\ \/ job'.pc \in {"idle", "polling"} /\ job.pc = "reload"
              \/ /\ job'.pc = job.pc /\ job'.at = job.at /\ job'.shards = job.shards
                 /\ job'.view = job.view /\ job'.seen = job.seen /\ job'.ask = job.ask
                 /\ View' = View
<1>1. /\ UNCHANGED <<world, avatar, born, loads>> /\ Shape(job) /\ job.late \in BOOLEAN
      /\ job.request \in Reloads
      /\ ~job.late => /\ job.pc = "reload" /\ ~effect.ran /\ job.answer = "none"
      /\ "polling" \in PhasesOf(job.request) /\ world \in [InRoom -> WorldRecord]
  <2>1. job.pc = "reload" => job.request \in Reloads /\ ~effect.ran /\ job.answer = "none"
    BY PhasesTell DEF JobTypes, Early
  <2>2. job.request \in Reloads  BY <2>1 DEF ReloadCommand
  <2>3. "polling" \in PhasesOf(job.request)
    BY <2>2, PhasesTell DEF RequestKinds
  <2> QED BY <2>1, <2>2, <2>3 DEF ReloadCommand, JobTypes, WorldsTypes
<1>2. world' = world  BY <1>1
<1>3. WorldsTypes => Evolves  BY <1>1, StillWorlds
<1>4. CASE job.late /\ job' = [job EXCEPT !.late = FALSE]
  <2>1. world' \in [InRoom -> WorldRecord]  BY <1>1, <1>2
  <2>2. /\ JobTypes' /\ Continues(job') /\ job'.target = job.target /\ job'.answer = job.answer
        /\ job'.pc = job.pc /\ job'.at = job.at /\ job'.shards = job.shards
        /\ job'.view = job.view /\ job'.seen = job.seen /\ job'.ask = job.ask /\ View' = View
    BY <1>3, <1>4, <2>1, LateSettled
  <2>3. CASE effect' = effect
    <3>1. EffectShape'  BY <2>3 DEF WorldsTypes, EffectShape
    <3>2. WorldsTypes'  BY <1>1, <3>1, StillWorlds
    <3> QED BY <1>1, <2>2, <2>3, <3>2
  <2>4. CASE effect' # effect
    <3>1. PICK b \in BOOLEAN : b = (avatar[Main].state = "none")  OBVIOUS
    <3>2. Accepts /\ effect' = [effect EXCEPT !.ran = TRUE, !.empty = b]
      BY <2>4, <3>1 DEF ReloadCommand
    <3>3. EffectShape' /\ effect'.ran /\ effect'.ahead = effect.ahead /\ effect'.empty = b
      BY <3>2 DEF WorldsTypes, EffectShape
    <3>4. job.request = "regenerate" => b
      BY <3>1, <3>2 DEF Accepts
    <3>5. WorldsTypes'  BY <1>1, <3>3, StillWorlds
    <3> QED BY <1>1, <2>2, <3>3, <3>4, <3>5
  <2> QED BY <2>3, <2>4
<1>5. CASE ~job.late /\ Accepts
  <2>1. job' = [job EXCEPT !.pc = "polling"]  BY <1>5 DEF ReloadCommand
  <2>2. Commanded(job', "polling") /\ job'.target = job.target
    BY ONLY <1>1, <2>1 DEF Commanded, Continues, Shape
  <2>3. "polling" \notin Early  BY DEF Early
  <2>4. JobTypes'  BY <1>1, <1>5, <2>2, <2>3, JobCommands
  <2>5. PICK b \in BOOLEAN : b = (avatar[Main].state = "none")  OBVIOUS
  <2>6. effect' = [effect EXCEPT !.ran = TRUE, !.empty = b]
    BY <1>5, <2>5 DEF ReloadCommand
  <2>7. EffectShape' /\ effect'.ran /\ effect'.ahead = effect.ahead /\ effect'.empty = b
    BY <2>6 DEF WorldsTypes, EffectShape
  <2>8. job.request = "regenerate" => b
    BY <1>5, <2>5 DEF Accepts
  <2>9. WorldsTypes'  BY <1>1, <2>7, StillWorlds
  <2> QED BY <1>1, <1>5, <2>2, <2>4, <2>7, <2>8, <2>9 DEF Commanded
<1>6. CASE ~job.late /\ ~Accepts
  <2>1. job' = EndedWith("refused") /\ effect' = effect  BY <1>6 DEF ReloadCommand
  <2>2. Ended(job', "refused") /\ job'.late = job.late  BY <1>1, <2>1, EndedFields
  <2>3. JobTypes'
    <3>1. job'.late \in BOOLEAN /\ ~job'.late /\ ~effect'.ran  BY <1>1, <1>6, <2>1, <2>2
    <3> QED BY <2>2, <3>1, JobEnds
  <2>4. EffectShape'  BY <2>1 DEF WorldsTypes, EffectShape
  <2>5. WorldsTypes'  BY <1>1, <2>4, StillWorlds
  <2> QED BY <1>1, <1>6, <2>1, <2>2, <2>3, <2>5 DEF Ended
<1> QED BY <1>1, <1>4, <1>5, <1>6 DEF ReloadCommand

\* Every expected shard is back; they are asked in turn.
LEMMA PolledStep ==
    ASSUME WorldsTypes, JobTypes, Polled
    PROVE  /\ JobTypes' /\ UNCHANGED <<world, avatar, born, loads, effect>>
           /\ Started(job', "settle", RoomShards) /\ job'.seen = <<>> /\ job'.target = job.target
           /\ job.request \in Reloads /\ job.pc = "polling" /\ job.answer = "none"
           /\ \A s \in Expected : Renewed(s)
<1>1. /\ UNCHANGED <<world, avatar, born, loads, effect>> /\ job.pc = "polling" /\ Shape(job)
      /\ job.answer = "none" /\ job.request \in Reloads /\ \A s \in Expected : Renewed(s)
      /\ job.request \in RequestKinds
  BY PhasesTell DEF Polled, Quiet, JobTypes
<1>2. Started(job', "settle", RoomShards) /\ job'.seen = <<>> /\ job'.target = job.target
  BY <1>1, AskingFields DEF Polled
<1>3. "settle" \in Questions /\ "settle" \notin Early /\ "settle" \in PhasesOf(job.request)
  BY <1>1, PhasesTell DEF Questions, Early
<1>4. world' = world  BY <1>1
<1>5. JobTypes'  BY <1>1, <1>2, <1>3, <1>4, ShardLists, JobStarts
<1> QED BY <1>1, <1>2, <1>5

\* What a shard said after the reload.
SettledNow == [gen |-> job.first.gen, session |-> View.session, snap |-> View.snap]
AllSettled == Append(job.seen, SettledNow)

\* The answer joins what the shards said before.
LEMMA SettledAdded ==
    ASSUME JobTypes, job.pc = "settle", job.view # <<>>
    PROVE  /\ SettledNow \in SettleRecord /\ SettledNow.session = View.session /\ SettledNow.snap = View.snap
           /\ DOMAIN AllSettled = 1 .. job.at
           /\ \A i \in 1 .. (job.at - 1) : AllSettled[i] = job.seen[i]
           /\ AllSettled[job.at] = SettledNow
<1>1. Question  BY DEF JobTypes, Questions
<1>2. SettledNow \in SettleRecord /\ SettledNow.session = View.session /\ SettledNow.snap = View.snap
  BY <1>1 DEF Question, ViewRecord, IdentityRecord, SettleRecord, SettledNow
<1>3. PICK x \in SettleRecord : x = SettledNow  BY <1>2
<1>4. PICK u \in Seq(SettleRecord) : u = job.seen /\ Len(u) = job.at - 1  BY DEF JobTypes
<1>5. job.at \in Nat /\ job.at > 0 /\ (job.at - 1) + 1 = job.at
  BY <1>1 DEF Question
<1>6. PICK v : v = Append(u, x)  OBVIOUS
<1>7. /\ v \in Seq(SettleRecord) /\ Len(v) = job.at /\ v[job.at] = x
      /\ \A i \in 1 .. (job.at - 1) : v[i] = u[i]
  BY <1>4, <1>5, <1>6, AppendProperties
<1>8. DOMAIN v = 1 .. job.at  BY <1>7
<1>9. v = AllSettled  BY <1>3, <1>4, <1>6 DEF AllSettled
<1> QED BY <1>2, <1>3, <1>4, <1>7, <1>8, <1>9

\* A confirmed reload: each shard says the snapshot and the session it should have.
LEMMA SettleStep ==
    ASSUME WorldsTypes, JobTypes, ReloadSettled
    PROVE  /\ JobTypes' /\ UNCHANGED <<world, avatar, born, loads, effect>>
           /\ Continues(job') /\ job'.target = job.target /\ job.pc = "settle" /\ job.view # <<>>
           /\ job.request \in Reloads /\ job.answer = "none"
           /\ \/ Advanced(job') /\ ~AllAsked /\ job'.seen = AllSettled
              \/ Started(job', "settle", RoomShards) /\ job'.seen = <<>>
              \/ Ended(job', "failed")
              \/ /\ Ended(job', "ok") /\ AllAsked
                 /\ \A i \in DOMAIN AllSettled :
                      /\ (AllSettled[i].session # job.initial[job.shards[i]].session) =
                           (job.request = "regenerate" \/ job.shards[i] \in job.only)
                      /\ job.target > 0 => AllSettled[i].snap = job.target + 1
<1>1. /\ UNCHANGED <<world, avatar, born, loads, effect>> /\ job.pc = "settle" /\ Shape(job)
      /\ job.answer = "none" /\ job.request \in Reloads /\ job.view # <<>>
      /\ job.request \in RequestKinds /\ job.late \in BOOLEAN
  BY PhasesTell DEF ReloadSettled, Replied, Quiet, JobTypes
<1>2. "settle" \in Questions /\ "settle" \notin Early /\ "settle" \in PhasesOf(job.request)
  BY <1>1, PhasesTell DEF Questions, Early
<1>3. PICK seen : seen = AllSettled  OBVIOUS
<1>4. seen = Append(job.seen, [gen |-> job.first.gen, session |-> View.session, snap |-> View.snap])
  BY <1>3 DEF AllSettled, SettledNow
<1>5. PICK fit \in BOOLEAN :
        fit = (\A i \in DOMAIN seen :
                 /\ (seen[i].session # job.initial[job.shards[i]].session) =
                      (job.request = "regenerate" \/ job.shards[i] \in job.only)
                 /\ job.target > 0 => seen[i].snap = job.target + 1)
  OBVIOUS
<1>6. \/ ~AllAsked /\ job' = [NextShard EXCEPT !.seen = seen]
      \/ job' = Asking("settle", RoomShards)
      \/ AllAsked /\ AnswerWith(IF fit THEN "ok" ELSE "failed")
  BY <1>4, <1>5 DEF ReloadSettled
<1>7. CASE ~AllAsked /\ job' = [NextShard EXCEPT !.seen = seen]
  <2>1. PICK a : a = NextShard  OBVIOUS
  <2>2. Advanced(a) /\ a.target = job.target  BY <1>1, <2>1, NextShardFields
  <2>3. job' = [a EXCEPT !.seen = seen]  BY <1>7, <2>1
  <2>4. Advanced(job') /\ job'.seen = seen /\ job'.target = job.target
    BY ONLY <2>2, <2>3 DEF Advanced, Continues, Shape
  <2>5. PICK x : x = SettledNow  OBVIOUS
  <2>6. x \in SettleRecord /\ seen = Append(job.seen, x)
    BY <1>1, <1>3, <2>5, SettledAdded DEF AllSettled
  <2>7. job.pc \in Questions /\ job.pc \notin {"locate", "confirm"} /\ UNCHANGED <<world, effect>>
    BY <1>1, <1>2
  <2>8. JobTypes'  BY <1>7, <2>4, <2>6, <2>7, JobAdvances
  <2> QED BY <1>1, <1>3, <1>7, <2>4, <2>8 DEF Advanced
<1>8. CASE job' = Asking("settle", RoomShards)
  <2>1. Started(job', "settle", RoomShards) /\ job'.seen = <<>> /\ job'.target = job.target
    BY <1>1, <1>8, AskingFields
  <2>2. world' = world  BY <1>1
  <2>3. JobTypes'  BY <1>1, <1>2, <2>1, <2>2, ShardLists, JobStarts
  <2> QED BY <1>1, <2>1, <2>3 DEF Started
<1>9. CASE AllAsked /\ AnswerWith(IF fit THEN "ok" ELSE "failed")
  <2>1. PICK answer : answer = IF fit THEN "ok" ELSE "failed"  OBVIOUS
  <2>2. Ended(job', answer) /\ job'.late = job.late
    BY <1>1, <1>9, <2>1, EndedFields DEF AnswerWith
  <2>3. answer # "none" /\ answer # "refused" /\ job'.late \in BOOLEAN  BY <1>1, <2>1, <2>2
  <2>4. JobTypes'  BY <2>2, <2>3, JobEnds
  <2>5. CASE fit
    <3>1. answer = "ok"  BY <2>1, <2>5
    <3> QED BY <1>1, <1>3, <1>5, <1>9, <2>2, <2>4, <2>5, <3>1 DEF Ended
  <2>6. CASE ~fit
    <3>1. answer = "failed"  BY <2>1, <2>6
    <3> QED BY <1>1, <2>2, <2>4, <3>1 DEF Ended
  <2> QED BY <2>5, <2>6
<1> QED BY <1>6, <1>7, <1>8, <1>9

-----------------------------------------------------------------------------
(* Saves *)

\* The master's number becomes the target; a secondary beyond it ends the save.
LEMMA RuntimeStep ==
    ASSUME WorldsTypes, JobTypes, Runtime
    PROVE  /\ JobTypes' /\ UNCHANGED <<world, avatar, born, loads, effect>>
           /\ Continues(job') /\ job.request = "save" /\ job.pc = "runtime" /\ job.view # <<>>
           /\ ~job'.late
           /\ \/ Ended(job', "refused")
              \/ /\ \/ Advanced(job') /\ ~AllAsked
                    \/ AllAsked /\ Commanded(job', "save")
                 /\ IF job.ask = Main THEN job'.target = View.snap
                    ELSE job'.target = job.target /\ MaySave(View.snap)
<1>1. /\ UNCHANGED <<world, avatar, born, loads, effect>> /\ job.pc = "runtime" /\ Shape(job)
      /\ job.answer = "none" /\ job.request = "save" /\ job.view # <<>> /\ ~job.late /\ ~effect.ran
      /\ job.request \in RequestKinds /\ job.late \in BOOLEAN
  BY PhasesTell DEF Runtime, Replied, Quiet, JobTypes, Early
<1>2. job.pc \in Questions /\ "save" \in PhasesOf(job.request) /\ job.request \notin Reloads
  BY <1>1, PhasesTell DEF Questions
<1>3. PICK o : o = IF AllAsked THEN [job EXCEPT !.pc = "save"] ELSE NextShard  OBVIOUS
<1>4. /\ Continues(o) /\ o.late = job.late /\ o.answer = job.answer /\ o.target = job.target
      /\ \/ ~AllAsked /\ Advanced(o)
         \/ AllAsked /\ Commanded(o, "save")
  <2>1. CASE AllAsked
    <3>1. o = [job EXCEPT !.pc = "save"]  BY <1>3, <2>1
    <3>2. Commanded(o, "save") /\ o.target = job.target
      BY ONLY <1>1, <3>1 DEF Commanded, Continues, Shape
    <3> QED BY <2>1, <3>2 DEF Commanded
  <2>2. CASE ~AllAsked
    <3>1. o = NextShard  BY <1>3, <2>2
    <3> QED BY <1>1, <2>2, <3>1, NextShardFields DEF Advanced
  <2> QED BY <2>1, <2>2
<1>5. ASSUME Continues(job'), job'.late = job.late, job'.answer = job.answer,
             \/ ~AllAsked /\ Advanced(job')
             \/ AllAsked /\ Commanded(job', "save")
      PROVE  JobTypes'
  <2>1. CASE ~AllAsked /\ Advanced(job')
    <3>1. job.pc \notin {"locate", "confirm", "settle"} /\ UNCHANGED <<world, effect>>
      BY <1>1
    <3> QED BY <1>2, <2>1, <3>1, JobAdvances
  <2>2. CASE Commanded(job', "save")
    <3>1. ~effect'.ran  BY <1>1
    <3> QED BY <1>1, <1>2, <2>2, <3>1, JobCommands
  <2> QED BY <1>5, <2>1, <2>2
<1>6. CASE job.ask = Main
  <2>1. PICK snap, session : snap = View.snap /\ session = View.session  OBVIOUS
  <2>2. job' = [o EXCEPT !.target = snap, !.session = session]
    BY <1>3, <1>6, <2>1 DEF Runtime
  <2>3. /\ Continues(job') /\ job'.late = job.late /\ job'.answer = job.answer
        /\ job'.target = snap
        /\ \/ ~AllAsked /\ Advanced(job')
           \/ AllAsked /\ Commanded(job', "save")
    BY ONLY <1>4, <2>2 DEF Advanced, Commanded, Continues, Shape
  <2>4. JobTypes'  BY <1>5, <2>3
  <2> QED BY <1>1, <1>6, <2>1, <2>3, <2>4
<1>7. CASE job.ask # Main /\ MaySave(View.snap)
  <2>1. job' = o  BY <1>3, <1>7 DEF Runtime
  <2>2. JobTypes'  BY <1>4, <1>5, <2>1
  <2> QED BY <1>1, <1>4, <1>7, <2>1, <2>2
<1>8. CASE job.ask # Main /\ ~MaySave(View.snap)
  <2>1. AnswerWith("refused")  BY <1>8 DEF Runtime
  <2>2. Ended(job', "refused") /\ job'.late = job.late
    BY <1>1, <2>1, EndedFields DEF AnswerWith
  <2>3. JobTypes'  BY <1>1, <1>2, <2>2, JobEnds
  <2> QED BY <1>1, <2>2, <2>3 DEF Ended
<1> QED BY <1>6, <1>7, <1>8

\* The save compares the master's number again, and then the master saves.
LEMMA SaveCommandStep ==
    ASSUME WorldsTypes, JobTypes, SaveCommand
    PROVE  /\ WorldsTypes' /\ JobTypes' /\ Evolves /\ UNCHANGED <<avatar, born, loads>>
           /\ Continues(job') /\ job.request = "save" /\ ~job'.late
           /\ job'.pc \notin {"runtime", "save"}
           /\ job.pc = "save" \/ job.late
           /\ \/ UNCHANGED <<world, effect>>
              \/ /\ \E followers \in SUBSET Secondaries : world' = SavedBy(followers)
                 /\ world[Main].snap = job.target
                 /\ effect'.ahead => \E s \in Secondaries : world[s].snap > job.target
<1>1. /\ UNCHANGED <<avatar, born, loads>> /\ Shape(job) /\ job.late \in BOOLEAN
      /\ job.request = "save" /\ job.request \notin Reloads
      /\ ~job.late => job.pc = "save" /\ job.answer = "none"
      /\ job.late => job.pc \notin {"runtime", "save"}
      /\ job.pc = "save" \/ job.late
      /\ world \in [InRoom -> WorldRecord]
  <2>1. job.pc = "save" => job.request = "save" /\ job.answer = "none"
    BY PhasesTell DEF JobTypes
  <2>2. job.request = "save"  BY <2>1 DEF SaveCommand
  <2>3. job.late => job.pc \notin {"runtime", "save"}  BY DEF JobTypes, Early
  <2> QED BY <2>1, <2>2, <2>3 DEF SaveCommand, JobTypes, WorldsTypes, Reloads
<1>2. \/ UNCHANGED <<world, effect>>
      \/ /\ \E followers \in SUBSET Secondaries : world' = SavedBy(followers)
         /\ world[Main].snap = job.target
         /\ effect' = [effect EXCEPT !.ran = TRUE,
                                     !.ahead = \E s \in Secondaries : world[s].snap > job.target]
  BY DEF SaveCommand
<1>3. /\ WorldsTypes' /\ Evolves /\ world' \in [InRoom -> WorldRecord]
      /\ \/ UNCHANGED <<world, effect>>
         \/ /\ \E followers \in SUBSET Secondaries : world' = SavedBy(followers)
            /\ world[Main].snap = job.target
            /\ effect'.ahead => \E s \in Secondaries : world[s].snap > job.target
  <2>1. CASE UNCHANGED <<world, effect>>
    <3>1. EffectShape'  BY <2>1 DEF WorldsTypes, EffectShape
    <3>2. WorldsTypes' /\ Evolves  BY <1>1, <2>1, <3>1, StillWorlds
    <3> QED BY <2>1, <3>2 DEF WorldsTypes
  <2>2. CASE /\ \E followers \in SUBSET Secondaries : world' = SavedBy(followers)
             /\ world[Main].snap = job.target
             /\ effect' = [effect EXCEPT !.ran = TRUE,
                                         !.ahead = \E s \in Secondaries : world[s].snap > job.target]
    <3>1. PICK followers \in SUBSET Secondaries : world' = SavedBy(followers)  BY <2>2
    <3>2. PICK b \in BOOLEAN : b = \E s \in Secondaries : world[s].snap > job.target
      OBVIOUS
    <3>3. effect' = [effect EXCEPT !.ran = TRUE, !.ahead = b]  BY <2>2, <3>2
    <3>4. EffectShape' /\ effect'.ahead = b  BY <3>3 DEF WorldsTypes, EffectShape
    <3>5. WorldsTypes' /\ Evolves  BY <1>1, <3>1, <3>4, SavesKeep
    <3>6. b => \E s \in Secondaries : world[s].snap > job.target  BY <3>2
    <3> QED BY <2>2, <3>4, <3>5, <3>6 DEF WorldsTypes
  <2> QED BY <1>2, <2>1, <2>2
<1>4. CASE job.late
  <2>1. job' = [job EXCEPT !.late = FALSE]  BY <1>4 DEF SaveCommand
  <2>2. /\ JobTypes' /\ Continues(job') /\ ~job'.late /\ job'.pc = job.pc
    BY <1>3, <1>4, <2>1, LateSettled
  <2> QED BY <1>1, <1>3, <1>4, <2>2
<1>5. CASE ~job.late
  <2>1. PICK answer \in {"ok", "refused"} : job' = EndedWith(answer)  BY <1>5 DEF SaveCommand
  <2>2. Ended(job', answer) /\ job'.late = job.late  BY <1>1, <2>1, EndedFields
  <2>3. JobTypes'  BY <1>1, <2>2, JobEnds
  <2> QED BY <1>1, <1>3, <1>5, <2>2, <2>3 DEF Ended
<1> QED BY <1>4, <1>5

-----------------------------------------------------------------------------
(* Steps of the worlds, and how a behaviour begins *)

\* What a step may do to sessions, snapshots and loads.
SameNumbers ==
    /\ loads' = loads
    /\ \A q \in InRoom : /\ world'[q].gen = world[q].gen /\ world'[q].session = world[q].session
                         /\ world'[q].snap = world[q].snap /\ world'[q].saves = world[q].saves
Saved == loads' = loads /\ \E followers \in SUBSET Secondaries : world' = SavedBy(followers)
WorldKinds == SameNumbers \/ Saved \/ \E s \in InRoom : LoadWorld(s)

GameStep ==
    \/ \E s \in InRoom : Walk(s) \/ Vanish(s) \/ LoadWorld(s)
    \/ GameSaves \/ GameReorders

\* Players and games leave the request alone and well-formed.
LEMMA GamesKeep ==
    ASSUME WorldsTypes, JobTypes, GameStep
    PROVE  WorldsTypes' /\ JobTypes' /\ Evolves /\ WorldKinds /\ UNCHANGED <<job, effect>>
<1>1. ASSUME WorldsTypes', Evolves, UNCHANGED <<job, effect>>
      PROVE  JobTypes'
  BY <1>1, JobStays DEF WorldsTypes
<1>2. CASE \E s \in InRoom : Walk(s) \/ Vanish(s)
  <2>1. PICK s \in InRoom : Walk(s) \/ Vanish(s)  BY <1>2
  <2>2. WorldsTypes' /\ Evolves  BY <2>1, WalkKeeps
  <2>3. UNCHANGED <<job, effect>>  BY <2>1 DEF Walk, Vanish
  <2>4. SameNumbers
    <3>1. world' = world \/ world' = [world EXCEPT ![s].next = @ + 1]
      BY <2>1 DEF Walk, Vanish
    <3>2. loads' = loads  BY <2>1 DEF Walk, Vanish
    <3>3. CASE world' = world  BY <3>2, <3>3 DEF SameNumbers
    <3>4. CASE world' = [world EXCEPT ![s].next = @ + 1]
      <4>1. PICK r \in WorldRecord : r = world[s]  BY DEF WorldsTypes
      <4>2. PICK n : n = [r EXCEPT !.next = @ + 1]  OBVIOUS
      <4>3. world' = [world EXCEPT ![s] = n]  BY <3>4, <4>1, <4>2
      <4>4. n.gen = r.gen /\ n.session = r.session /\ n.snap = r.snap /\ n.saves = r.saves
        BY <4>2 DEF WorldRecord
      <4>5. \A q \in InRoom : world'[q] = IF q = s THEN n ELSE world[q]
        BY <4>3 DEF WorldsTypes
      <4> QED BY <3>2, <4>1, <4>4, <4>5 DEF SameNumbers
    <3> QED BY <3>1, <3>3, <3>4
  <2> QED BY <1>1, <2>2, <2>3, <2>4 DEF WorldKinds
<1>3. CASE \E s \in InRoom : LoadWorld(s)
  <2>1. PICK s \in InRoom : LoadWorld(s)  BY <1>3
  <2>2. WorldsTypes' /\ Evolves  BY <2>1, LoadKeeps
  <2>3. UNCHANGED <<job, effect>>  BY <2>1, LoadedWorld
  <2> QED BY <1>1, <2>1, <2>2, <2>3 DEF WorldKinds
<1>4. CASE GameSaves
  <2>1. PICK followers \in SUBSET Secondaries : world' = SavedBy(followers)
    BY <1>4 DEF GameSaves
  <2>2. UNCHANGED <<avatar, order, job, effect, loads, born>>  BY <1>4 DEF GameSaves
  <2>3. EffectShape'  BY <2>2 DEF WorldsTypes, EffectShape
  <2>4. WorldsTypes' /\ Evolves  BY <2>1, <2>2, <2>3, SavesKeep
  <2>5. Saved  BY <2>1, <2>2 DEF Saved
  <2> QED BY <1>1, <2>2, <2>4, <2>5 DEF WorldKinds
<1>5. CASE GameReorders
  <2>1. UNCHANGED <<world, avatar, job, effect, loads, born>>  BY <1>5 DEF GameReorders
  <2>2. EffectShape'  BY <2>1 DEF WorldsTypes, EffectShape
  <2>3. WorldsTypes' /\ Evolves  BY <2>1, <2>2, StillWorlds
  <2>4. SameNumbers  BY <2>1 DEF SameNumbers
  <2> QED BY <1>1, <2>1, <2>3, <2>4 DEF WorldKinds
<1> QED BY <1>2, <1>3, <1>4, <1>5 DEF GameStep

\* The request as it is before it begins, and the worlds it finds.
LEMMA WorldsBegin ==
    ASSUME WorldsInit
    PROVE  /\ WorldsTypes /\ JobTypes /\ job.pc = "idle" /\ job.answer = "none" /\ ~job.late
           /\ ~effect.ran /\ ~effect.ahead /\ loads = {} /\ job.target = 0 /\ job.only = {}
           /\ \A q \in InRoom : \A i \in world[q].saves : i < world[Main].snap
<1>1. PICK r \in Requests : job = [NoRequest EXCEPT !.request = r]  BY DEF WorldsInit
<1>2. job = [request |-> r, pc |-> "idle", at |-> 1, shards |-> <<>>, ask |-> "", first |-> <<>>,
             view |-> <<>>, seen |-> <<>>, initial |-> <<>>, found |-> <<>>, only |-> {},
             ids |-> <<>>, session |-> 0, target |-> 0, late |-> FALSE, answer |-> "none"]
  BY <1>1 DEF NoRequest
<1>3. PICK snap \in [Secondaries -> {3, 4}], saves \in [Secondaries -> {{1, 2}, {2}}],
           home \in {{}} \union {{s} : s \in Secondaries} :
        /\ job.request \in PlayerCommands => \A s \in Secondaries : snap[s] = 3 /\ saves[s] = {1, 2}
        /\ job.request \notin PlayerCommands \union {"regenerate"} => home = {}
        /\ world = [s \in InRoom |->
                      [session |-> 1, gen |-> 1, snap |-> IF s = Main THEN 3 ELSE snap[s],
                       saves |-> IF s = Main THEN {1, 2} ELSE saves[s], next |-> 2]]
        /\ avatar = [s \in InRoom |->
                      IF s \in home THEN [state |-> "here", guid |-> 1, born |-> 1] ELSE NoAvatar]
  BY Zenon DEF WorldsInit
<1>4. /\ born = 1 /\ loads = {} /\ effect = [ran |-> FALSE, born |-> 0, ahead |-> FALSE, empty |-> TRUE]
  BY DEF WorldsInit
<1>5. EffectShape /\ ~effect.ran /\ ~effect.ahead  BY <1>4 DEF EffectShape
<1>6. Main \in InRoom /\ Secondaries = InRoom \ {Main}  BY ShardLists DEF Secondaries, InRoom
<1>7. ASSUME NEW s \in InRoom
      PROVE  /\ world[s] \in WorldRecord /\ world[s].next = 2
             /\ world[s].snap \in {3, 4} /\ world[s].saves \subseteq {1, 2}
  <2>1. PICK n \in {3, 4}, k \in {{1, 2}, {2}} :
           /\ n = IF s = Main THEN 3 ELSE snap[s]
           /\ k = IF s = Main THEN {1, 2} ELSE saves[s]
    BY <1>6
  <2>2. world[s] = [session |-> 1, gen |-> 1, snap |-> n, saves |-> k, next |-> 2]
    BY <1>3, <2>1
  <2>3. k \in SUBSET Nat /\ k \subseteq {1, 2} /\ n \in Nat  BY <2>1
  <2> QED BY <2>1, <2>2, <2>3 DEF WorldRecord
<1>8. world[Main].snap = 3
  BY <1>3, <1>6
<1>9. world \in [InRoom -> WorldRecord]  BY <1>3, <1>7
<1>10. ASSUME NEW s \in InRoom
       PROVE  /\ avatar[s] \in Avatars
              /\ \/ s \in home /\ avatar[s].guid = 1 /\ avatar[s].born = 1
                 \/ avatar[s].guid = 0 /\ avatar[s].born = 0
  <2>1. avatar[s] = IF s \in home THEN [state |-> "here", guid |-> 1, born |-> 1] ELSE NoAvatar
    BY <1>3
  <2> QED BY <2>1 DEF NoAvatar, Avatars
<1>11. avatar \in [InRoom -> Avatars]  BY <1>3, <1>10
<1>12. \A s, q \in InRoom : avatar[s].born = avatar[q].born /\ avatar[s].born > 0 => s = q
  BY <1>3, <1>10
<1>13. WorldsTypes
  <2>1. \A s \in InRoom : avatar[s].guid < world[s].next /\ avatar[s].born <= born
    BY <1>4, <1>7, <1>10
  <2>2. \A s \in InRoom : world[s].snap > 0 /\ world[s].saves \subseteq 1 .. (world[s].snap - 1)
    BY <1>7
  <2> QED BY <1>4, <1>5, <1>9, <1>11, <1>12, <2>1, <2>2 DEF WorldsTypes
<1>14. /\ job.request = r /\ job.pc = "idle" /\ job.late = FALSE /\ job.answer = "none"
       /\ job.target = 0 /\ job.only = {} /\ Shape(job)
  BY ONLY <1>2 DEF Shape
<1>15. r \in RequestKinds  BY WorldsAssumption DEF RequestKinds
<1>16. "idle" \in PhasesOf(r) /\ "idle" \notin Questions \union Early
  BY <1>15, PhasesTell DEF Questions, Early
<1>17. JobTypes  BY <1>5, <1>14, <1>15, <1>16 DEF JobTypes
<1>18. \A q \in InRoom : \A i \in world[q].saves : i < world[Main].snap
  BY <1>7, <1>8
<1> QED BY <1>4, <1>5, <1>13, <1>14, <1>17, <1>18

-----------------------------------------------------------------------------
(* The inductive invariant *)

\* The avatar a that shard s showed in generation g: its entity is on no other shard, and
\* while the world is the same the GUID stands for no other entity.
Trace(s, g, a) ==
    /\ g <= world[s].gen
    /\ a.born > 0 =>
        /\ a.born <= born /\ a.guid > 0
        /\ \A q \in InRoom \ {s} : avatar[q].born # a.born
        /\ world[s].gen = g =>
              a.guid < world[s].next /\ (avatar[s].guid = a.guid => avatar[s].born = a.born)

Leaving(n) == \A s \in InRoom : avatar[s].born = n => avatar[s].state = "leaving"
Gone(n) == \A s \in InRoom : avatar[s].born # n

\* The player that was found.
Target == job.found[1]
FoundRecord == [shard : InRoom, session : Nat, gen : Nat, guid : Nat, born : Nat]

\* A player command knows of the shards it asked, of the player it found, of what it did,
\* and of the shards that no longer show the player.
SeenKnown ==
    job.pc = "locate" =>
        /\ job.view # <<>> => Trace(job.ask, job.first.gen, View.avatar)
        /\ \A i \in 1 .. (job.at - 1) : Trace(job.shards[i], job.seen[i].gen, job.seen[i].avatar)
FoundKnown ==
    job.pc \in {"destination", "command", "confirm"} \/ job.late \/ effect.ran =>
        Target \in FoundRecord /\ Target.born > 0 /\ Trace(Target.shard, Target.gen, Target)
HitKnown == effect.ran => effect.born = Target.born /\ Leaving(Target.born)
ConfirmKnown ==
    job.pc = "confirm" =>
        /\ effect.ran /\ job.shards = RoomShards
        /\ job.view # <<>> /\ job.ask = Target.shard /\ View.avatar.state = "none" => Gone(Target.born)
        /\ \A i \in 1 .. (job.at - 1) :
              job.shards[i] = Target.shard /\ job.seen[i].avatar.state = "none" => Gone(Target.born)
RemovalKnown ==
    job.answer = "ok" /\ job.request \in {"kick", "despawn"} =>
        effect.ran /\ (job.request = "kick" => Gone(Target.born))

PlayerInv ==
    job.request \in PlayerCommands =>
        SeenKnown /\ FoundKnown /\ HitKnown /\ ConfirmKnown /\ RemovalKnown

\* What is known of the worlds that were loaded.
MainLoaded == \E l \in loads : l.shard = Main
LoadInv ==
    /\ ~MainLoaded =>
          /\ \A q \in InRoom : \A i \in world[q].saves : i < world[Main].snap
          /\ \A l \in loads : l.id < world[Main].snap
    /\ MainLoaded => \E l \in loads : l.shard = Main /\ l.id < world[Main].snap

\* Shard s, in this session and at this number, loaded a world no newer than it, unless
\* the number is one that the master, taken back, saved up to again.
Witness(s, session, snap) ==
    \E l \in loads :
       /\ l.shard = s /\ l.session = session
       /\ \/ l.id < snap
          \/ s # Main /\ \E m \in loads : m.shard = Main /\ m.id + 2 <= snap

\* A reload knows the worlds it began with, and what the shards said that were asked after it.
BeginningKnown ==
    job.pc # "idle" =>
        /\ job.initial \in [InRoom -> IdentityRecord]
        /\ \A s \in InRoom : Renewed(s) => Witness(s, world[s].session, world[s].snap)
TargetKnown ==
    /\ job.target \in Nat
    /\ job.request \in {"regenerate", "regenerate_shard"} => job.target = 0
    /\ job.request # "regenerate_shard" => job.only = {}
SettleKnown ==
    job.pc = "settle" =>
        /\ job.shards = RoomShards /\ \A s \in InRoom : s \in Expected => Renewed(s)
        /\ job.view # <<>> /\ job.ask \in Expected => Witness(job.ask, View.session, View.snap)
        /\ \A i \in 1 .. (job.at - 1) :
              job.shards[i] \in Expected =>
                  Witness(job.shards[i], job.seen[i].session, job.seen[i].snap)

ReloadInv ==
    job.request \in Reloads => BeginningKnown /\ TargetKnown /\ SettleKnown /\ ReloadsAreTrue

\* No secondary up to the n-th is beyond the number the save stands for, if the master
\* still has it.
Reached(n) ==
    /\ job.target \in Nat /\ job.target <= world[Main].snap
    /\ world[Main].snap = job.target =>
          \A i \in 2 .. n : world[MasterFirst[i]].snap <= job.target

SaveInv ==
    /\ SavesMoveForward
    /\ job.request = "save" /\ ~MainLoaded =>
        /\ job.pc = "runtime" =>
              /\ job.shards = MasterFirst
              /\ job.at = 1 /\ job.view # <<>> => View.snap <= world[Main].snap
              /\ job.at > 1 => Reached(job.at - 1)
              /\ job.at > 1 /\ job.view # <<>> /\ world[Main].snap = job.target =>
                    world[job.ask].snap <= View.snap \/ world[job.ask].snap <= job.target
        /\ job.pc = "save" \/ job.late => Reached(Len(MasterFirst))

-----------------------------------------------------------------------------
(* Loads *)

\* What was loaded stays loaded.
LEMMA WitnessGrows ==
    ASSUME NEW s, NEW session, NEW snap, loads \subseteq loads', Witness(s, session, snap)
    PROVE  Witness(s, session, snap)'
BY DEF Witness

\* The master's number only falls when the master is loaded.
LEMMA LoadsKept ==
    ASSUME WorldsTypes, WorldsTypes', LoadInv, WorldKinds
    PROVE  /\ LoadInv' /\ (MainLoaded => MainLoaded')
           /\ \/ MainLoaded'
              \/ /\ world'[Main].snap = world[Main].snap
                 /\ \A q \in InRoom : world'[q].snap <= world[q].snap
              \/ world'[Main].snap = world[Main].snap + 1
<1>1. Main \in InRoom  BY ShardLists
<1>2. \A q \in InRoom : /\ world[q].snap \in Nat /\ world'[q].snap \in Nat /\ world[q].snap > 0
                        /\ world[q].saves \subseteq 1 .. (world[q].snap - 1)
                        /\ world'[q].saves \subseteq 1 .. (world'[q].snap - 1)
  BY DEF WorldsTypes, WorldRecord
<1>3. \A l \in loads : l.id \in Nat  BY DEF WorldsTypes
<1>4. CASE SameNumbers
  <2>1. loads' = loads /\ \A q \in InRoom : world'[q].snap = world[q].snap /\ world'[q].saves = world[q].saves
    BY <1>4 DEF SameNumbers
  <2> QED BY <1>1, <1>2, <2>1 DEF LoadInv, MainLoaded
<1>5. CASE Saved
  <2>1. PICK followers \in SUBSET Secondaries : world' = SavedBy(followers)  BY <1>5 DEF Saved
  <2>2. loads' = loads  BY <1>5 DEF Saved
  <2>3. \A s \in InRoom : \/ world'[s] = world[s] /\ s # Main
                          \/ /\ world'[s].snap = world[Main].snap + 1
                             /\ world'[s].saves \subseteq 1 .. world[Main].snap
    BY <2>1, SavedWorlds
  <2>4. world'[Main].snap = world[Main].snap + 1  BY <1>1, <2>3
  <2>5. MainLoaded' <=> MainLoaded  BY <2>2 DEF MainLoaded
  <2>6. ASSUME ~MainLoaded, NEW q \in InRoom, NEW i \in world'[q].saves
        PROVE  i < world'[Main].snap
    <3>1. CASE world'[q] = world[q]
      <4>1. i \in Nat /\ i < world[Main].snap  BY <1>2, <2>6, <3>1 DEF LoadInv
      <4> QED BY <1>1, <1>2, <2>4, <4>1
    <3>2. CASE world'[q].saves \subseteq 1 .. world[Main].snap
      BY <1>1, <1>2, <2>4, <2>6, <3>2
    <3> QED BY <2>3, <3>1, <3>2
  <2>7. \A l \in loads : l.id < world[Main].snap => l.id < world'[Main].snap
    BY <1>1, <1>2, <1>3, <2>4
  <2>8. LoadInv'  BY <2>2, <2>5, <2>6, <2>7 DEF LoadInv
  <2> QED BY <2>4, <2>5, <2>8
<1>6. CASE \E s \in InRoom : LoadWorld(s)
  <2>1. PICK s \in InRoom : LoadWorld(s)  BY <1>6
  <2>2. PICK id \in Nat :
          /\ id = 0 \/ id \in world[s].saves
          /\ world'[s].snap = id + 1
          /\ loads' = loads \union {[shard |-> s, session |-> world'[s].session, id |-> id]}
    BY <2>1, LoadedWorld
  <2>3. /\ \A q \in InRoom \ {s} : world'[q] = world[q]
        /\ world'[s].saves \subseteq world[s].saves
    BY <2>1, LoadedWorld
  <2>4. PICK new : new = [shard |-> s, session |-> world'[s].session, id |-> id]  OBVIOUS
  <2>5. loads' = loads \union {new} /\ new.shard = s /\ new.id = id  BY <2>2, <2>4
  <2>6. MainLoaded => MainLoaded'  BY <2>5 DEF MainLoaded
  <2>7. CASE s = Main
    <3>1. MainLoaded'  BY <2>5, <2>7 DEF MainLoaded
    <3>2. new \in loads' /\ new.shard = Main /\ new.id < world'[Main].snap
      BY <2>2, <2>5, <2>7
    <3>3. LoadInv'  BY <3>1, <3>2 DEF LoadInv
    <3> QED BY <2>6, <3>1, <3>3
  <2>8. CASE s # Main
    <3>1. world'[Main] = world[Main]  BY <1>1, <2>3, <2>8
    <3>2. MainLoaded' <=> MainLoaded  BY <2>5, <2>8 DEF MainLoaded
    <3>3. \A q \in InRoom : world'[q].saves \subseteq world[q].saves  BY <2>3
    <3>4. ~MainLoaded => id < world[Main].snap
      BY <1>1, <1>2, <2>2 DEF LoadInv
    <3>5. LoadInv'
      <4>1. CASE MainLoaded
        BY <2>5, <3>1, <3>2, <4>1 DEF LoadInv
      <4>2. CASE ~MainLoaded
        <5>1. \A l \in loads' : l.id < world'[Main].snap
          BY <2>5, <3>1, <3>4, <4>2 DEF LoadInv
        <5>2. \A q \in InRoom : \A i \in world'[q].saves : i < world'[Main].snap
          BY <3>1, <3>3, <4>2 DEF LoadInv
        <5> QED BY <3>2, <4>2, <5>1, <5>2 DEF LoadInv
      <4> QED BY <4>1, <4>2
    <3>6. \A q \in InRoom : world'[q].snap <= world[q].snap
      <4> TAKE q \in InRoom
      <4>1. CASE q = s  BY <1>2, <2>2, <4>1
      <4>2. CASE q # s  BY <1>2, <2>3, <4>2
      <4> QED BY <4>1, <4>2
    <3> QED BY <2>6, <3>1, <3>5, <3>6
  <2> QED BY <2>7, <2>8
<1> QED BY <1>4, <1>5, <1>6 DEF WorldKinds

\* A shard that has been loaded since the request began can say which load it stands for.
LEMMA BackedKept ==
    ASSUME WorldsTypes, WorldsTypes', LoadInv, WorldKinds, loads \subseteq loads',
           job'.initial = job.initial, job.initial \in [InRoom -> IdentityRecord],
           NEW s \in InRoom, Renewed(s) => Witness(s, world[s].session, world[s].snap)
    PROVE  (Renewed(s) => Witness(s, world[s].session, world[s].snap))'
<1> SUFFICES ASSUME Renewed(s)'
             PROVE  Witness(s, world[s].session, world[s].snap)'
  OBVIOUS
<1>1. Main \in InRoom  BY ShardLists
<1>2. \A q \in InRoom : world[q].snap \in Nat /\ world'[q].snap \in Nat /\ world[q].gen \in Nat
  BY DEF WorldsTypes, WorldRecord
<1>3. \A l \in loads : l.id \in Nat  BY DEF WorldsTypes
<1>4. ASSUME world'[s].gen = world[s].gen
      PROVE  Witness(s, world[s].session, world[s].snap)
  BY <1>4 DEF Renewed
<1>5. ASSUME world'[s].gen = world[s].gen, world'[s].session = world[s].session,
             world'[s].snap = world[s].snap
      PROVE  Witness(s, world[s].session, world[s].snap)'
  BY <1>4, <1>5 DEF Witness
<1>6. CASE SameNumbers
  BY <1>5, <1>6 DEF SameNumbers
<1>7. CASE Saved
  <2>1. PICK followers \in SUBSET Secondaries : world' = SavedBy(followers)  BY <1>7 DEF Saved
  <2>2. loads' = loads  BY <1>7 DEF Saved
  <2>3. /\ world'[s].gen = world[s].gen /\ world'[s].session = world[s].session
        /\ \/ world'[s] = world[s] /\ s # Main
           \/ world'[s].snap = world[Main].snap + 1
    BY <2>1, SavedWorlds
  <2>4. CASE world'[s] = world[s]
    BY <1>5, <2>4
  <2>5. CASE world'[s].snap = world[Main].snap + 1
    <3>1. PICK l \in loads :
             /\ l.shard = s /\ l.session = world[s].session
             /\ \/ l.id < world[s].snap
                \/ s # Main /\ \E m \in loads : m.shard = Main /\ m.id + 2 <= world[s].snap
      BY <1>4, <2>3 DEF Witness
    <3>2. CASE s = Main
      <4>1. l.id < world'[s].snap  BY <1>1, <1>2, <1>3, <2>5, <3>1, <3>2
      <4> QED BY <2>2, <2>3, <3>1, <4>1 DEF Witness
    <3>3. CASE s # Main /\ MainLoaded
      <4>1. PICK m \in loads : m.shard = Main /\ m.id < world[Main].snap
        BY <3>3 DEF LoadInv
      <4>2. m.id + 2 <= world'[s].snap  BY <1>1, <1>2, <1>3, <2>5, <4>1
      <4> QED BY <2>2, <2>3, <3>1, <3>3, <4>1, <4>2 DEF Witness
    <3>4. CASE s # Main /\ ~MainLoaded
      <4>1. l.id < world[Main].snap  BY <3>1, <3>4 DEF LoadInv
      <4>2. l.id < world'[s].snap  BY <1>1, <1>2, <1>3, <2>5, <3>1, <4>1
      <4> QED BY <2>2, <2>3, <3>1, <4>2 DEF Witness
    <3> QED BY <3>2, <3>3, <3>4
  <2> QED BY <2>3, <2>4, <2>5
<1>8. CASE \E q \in InRoom : LoadWorld(q)
  <2>1. PICK q \in InRoom : LoadWorld(q)  BY <1>8
  <2>2. PICK id \in Nat :
          /\ world'[q].snap = id + 1
          /\ loads' = loads \union {[shard |-> q, session |-> world'[q].session, id |-> id]}
    BY <2>1, LoadedWorld
  <2>3. \A p \in InRoom \ {q} : world'[p] = world[p]  BY <2>1, LoadedWorld
  <2>4. CASE s = q
    <3>1. PICK new : new = [shard |-> q, session |-> world'[q].session, id |-> id]  OBVIOUS
    <3>2. new \in loads' /\ new.shard = q /\ new.session = world'[q].session /\ new.id < world'[q].snap
      BY <2>2, <3>1
    <3> QED BY <2>4, <3>2 DEF Witness
  <2>5. CASE s # q
    <3>1. world'[s] = world[s]  BY <2>3, <2>5
    <3> QED BY <1>5, <3>1
  <2> QED BY <2>4, <2>5
<1> QED BY <1>6, <1>7, <1>8 DEF WorldKinds

-----------------------------------------------------------------------------
(* The player that was found *)

\* What is known of an avatar that was shown goes on holding.
LEMMA TraceKept ==
    ASSUME WorldsTypes, WorldsTypes', Evolves, NEW s \in InRoom, NEW g \in Nat, NEW a,
           a.born \in Nat, a.guid \in Nat, Trace(s, g, a)
    PROVE  Trace(s, g, a)'
<1>1. \A q \in InRoom : /\ world[q].gen \in Nat /\ world'[q].gen \in Nat /\ world[q].next \in Nat
                        /\ world'[q].next \in Nat /\ avatar[q].born \in Nat /\ avatar'[q].born \in Nat
                        /\ avatar'[q].guid \in Nat
  BY DEF WorldsTypes, WorldRecord, Avatars
<1>2. born \in Nat /\ born' \in Nat /\ born <= born'  BY DEF WorldsTypes, Evolves
<1>3. g <= world'[s].gen
  <2>1. g <= world[s].gen /\ world[s].gen <= world'[s].gen  BY DEF Trace, Evolves
  <2> QED BY <1>1, <2>1
<1>4. ASSUME a.born > 0
      PROVE  /\ a.born <= born' /\ a.guid > 0
             /\ \A q \in InRoom \ {s} : avatar'[q].born # a.born
             /\ world'[s].gen = g =>
                   a.guid < world'[s].next /\ (avatar'[s].guid = a.guid => avatar'[s].born = a.born)
  <2>1. /\ a.born <= born /\ a.guid > 0 /\ \A q \in InRoom \ {s} : avatar[q].born # a.born
        /\ world[s].gen = g =>
              a.guid < world[s].next /\ (avatar[s].guid = a.guid => avatar[s].born = a.born)
    BY <1>4 DEF Trace
  <2>2. \A q \in InRoom : \/ avatar'[q].born = avatar[q].born \/ avatar'[q].born = 0
                          \/ avatar'[q].born > born
    BY DEF Evolves
  <2>3. \A q \in InRoom \ {s} : avatar'[q].born # a.born
    BY <1>1, <1>2, <1>4, <2>1, <2>2
  <2>4. ASSUME world'[s].gen = g
        PROVE  a.guid < world'[s].next /\ (avatar'[s].guid = a.guid => avatar'[s].born = a.born)
    <3>1. world[s].gen = g /\ world'[s].gen = world[s].gen
      <4>1. g <= world[s].gen /\ world[s].gen <= world'[s].gen  BY DEF Trace, Evolves
      <4> QED BY <1>1, <2>4, <4>1
    <3>2. a.guid < world[s].next /\ (avatar[s].guid = a.guid => avatar[s].born = a.born)
      BY <2>1, <3>1
    <3>3. world[s].next <= world'[s].next  BY <3>1 DEF Evolves
    <3>4. \/ avatar'[s].guid = avatar[s].guid /\ avatar'[s].born = avatar[s].born
          \/ avatar'[s].guid = 0
          \/ avatar'[s].guid >= world[s].next
      BY <3>1 DEF Evolves
    <3> QED BY <1>1, <2>1, <3>2, <3>3, <3>4
  <2> QED BY <1>2, <2>1, <2>3, <2>4
<1> QED BY <1>3, <1>4 DEF Trace

\* An entity that is leaving never comes back, and one that is gone neither.
LEMMA LeavingKept ==
    ASSUME WorldsTypes, Evolves, NEW n \in Nat, n > 0, n <= born
    PROVE  (Leaving(n) => Leaving(n)') /\ (Gone(n) => Gone(n)')
<1>1. \A q \in InRoom : avatar[q].born \in Nat /\ born \in Nat
  BY DEF WorldsTypes, Avatars
<1>2. \A q \in InRoom :
        \/ avatar'[q].born = avatar[q].born /\ (avatar[q].state = "leaving" => avatar'[q].state = "leaving")
        \/ avatar'[q].born = 0 \/ avatar'[q].born > born
  BY DEF Evolves
<1> QED BY <1>1, <1>2 DEF Leaving, Gone

\* What a shard shows of its player.
LEMMA AvatarTraced ==
    ASSUME WorldsTypes, NEW s \in InRoom, NEW g, g <= world[s].gen
    PROVE  Trace(s, g, avatar[s])
<1>1. /\ avatar[s] \in Avatars /\ avatar[s].born <= born /\ avatar[s].guid < world[s].next
      /\ \A q \in InRoom : avatar[s].born = avatar[q].born /\ avatar[s].born > 0 => s = q
  BY DEF WorldsTypes
<1>2. avatar[s].born > 0 => avatar[s].guid > 0  BY <1>1 DEF Avatars
<1> QED BY <1>1, <1>2 DEF Trace

\* A player that is active was seen somewhere; one that is disconnected nowhere.
LEMMA StatesTell ==
    ASSUME NEW n \in Nat, NEW seen, DOMAIN seen = 1 .. n
    PROVE  /\ PlayerState(seen) = "Active" => Active(seen) # {}
           /\ PlayerState(seen) = "Disconnected" => Sighted(seen) = {}
<1>1. IsFiniteSet(1 .. n)  BY FS_Interval
<1>2. Sighted(seen) \subseteq 1 .. n /\ Active(seen) \subseteq 1 .. n
  BY DEF Sighted, Active
<1>3. IsFiniteSet(Sighted(seen)) /\ IsFiniteSet(Active(seen))  BY <1>1, <1>2, FS_Subset
<1>4. PICK a \in Nat : a = Cardinality(Active(seen)) /\ (a = 0 <=> Active(seen) = {})
  BY <1>3, FS_CardinalityType, FS_EmptySet
<1>5. PICK b \in Nat : b = Cardinality(Sighted(seen)) /\ (b = 0 <=> Sighted(seen) = {})
  BY <1>3, FS_CardinalityType, FS_EmptySet
<1>6. PICK d \in BOOLEAN : d = (Departing(seen) = {})  OBVIOUS
<1>7. PICK e \in BOOLEAN : e = (Active(seen) \union Departing(seen) = {})  OBVIOUS
<1>8. e <=> (a = 0 /\ d)  BY <1>4, <1>6, <1>7
<1>9. PlayerState(seen) =
        CASE a > 1 -> "Conflict"
          [] a <= 1 /\ ~d -> "Migrating"
          [] a = 1 /\ d -> "Active"
          [] e /\ b > 1 -> "Migrating"
          [] e /\ b = 1 -> "Loading"
          [] OTHER -> "Disconnected"
  BY <1>4, <1>5, <1>6, <1>7, Zenon DEF PlayerState
<1>10. PICK p : p = PlayerState(seen)  OBVIOUS
<1>11. (p = "Active" => a # 0) /\ (p = "Disconnected" => b = 0)
  <2>1. CASE a > 1  BY <1>8, <1>9, <1>10, <2>1
  <2>2. CASE a <= 1 /\ ~d  BY <1>8, <1>9, <1>10, <2>2
  <2>3. CASE a = 1 /\ d  BY <1>8, <1>9, <1>10, <2>3
  <2>4. CASE a = 0 /\ d  BY <1>8, <1>9, <1>10, <2>4
  <2> QED BY <2>1, <2>2, <2>3, <2>4
<1> QED BY <1>4, <1>5, <1>10, <1>11

\* The player that was found is one that some shard showed.
LEMMA FoundTraced ==
    ASSUME NEW n \in Nat, NEW seen \in Seq(SightingRecord), Len(seen) = n,
           job.shards \in Seq(InRoom), Len(job.shards) >= n,
           \A i \in 1 .. n : Trace(job.shards[i], seen[i].gen, seen[i].avatar),
           PlayerState(seen) = "Active"
    PROVE  \E f \in FoundRecord :
              Found(seen) = <<f>> /\ f.born > 0 /\ Trace(f.shard, f.gen, f)
<1>1. DOMAIN seen = 1 .. n  OBVIOUS
<1>2. Active(seen) # {}  BY <1>1, StatesTell
<1>3. Active(seen) \subseteq 1 .. n /\ Active(seen) \subseteq Nat
  BY <1>1 DEF Active, Sighted
<1>4. PICK i : i = Minimum(Active(seen))  OBVIOUS
<1>5. i \in Active(seen)
  <2>1. \E m \in Active(seen) : \A k \in Active(seen) : m <= k
    BY <1>2, <1>3, LeastNumber
  <2> QED BY <1>4, <2>1, Zenon DEF Minimum
<1>6. i \in 1 .. n /\ seen[i] \in SightingRecord /\ seen[i].avatar.state = "here"
  BY <1>3, <1>5 DEF Active
<1>7. PICK r \in SightingRecord : r = seen[i] /\ r.avatar.state = "here"  BY <1>6
<1>8. PICK q \in InRoom : q = job.shards[i]  BY <1>6
<1>9. PICK f : f = [shard |-> q, session |-> r.session, gen |-> r.gen, guid |-> r.avatar.guid,
                    born |-> r.avatar.born]
  OBVIOUS
<1>10. /\ f \in FoundRecord /\ f.born > 0 /\ f.shard = q /\ f.gen = r.gen
       /\ f.guid = r.avatar.guid /\ f.born = r.avatar.born
  <2>1. /\ r.session \in Nat /\ r.gen \in Nat /\ r.avatar.guid \in Nat /\ r.avatar.born \in Nat
        /\ r.avatar.born > 0
    BY <1>7 DEF SightingRecord, Avatars
  <2> QED BY <1>9, <2>1 DEF FoundRecord
<1>11. Found(seen) = <<f>>
  BY <1>2, <1>4, <1>7, <1>8, <1>9, Zenon DEF Found
<1>12. Trace(q, r.gen, r.avatar)  BY <1>6, <1>7, <1>8
<1>13. Trace(f.shard, f.gen, f)  BY <1>10, <1>12 DEF Trace
<1> QED BY <1>10, <1>11, <1>13

-----------------------------------------------------------------------------
(* Player commands keep what they know *)

\* The player that was found stays the one that was found.
LEMMA TargetKept ==
    ASSUME WorldsTypes, WorldsTypes', Evolves, job'.found = job.found,
           Target \in FoundRecord, Target.born > 0, Trace(Target.shard, Target.gen, Target)
    PROVE  /\ Target' = Target
           /\ (Target \in FoundRecord /\ Target.born > 0 /\ Trace(Target.shard, Target.gen, Target))'
           /\ Leaving(Target.born) => Leaving(Target.born)'
           /\ Gone(Target.born) => Gone(Target.born)'
<1>1. PICK f \in FoundRecord : f = Target  OBVIOUS
<1>2. f.shard \in InRoom /\ f.gen \in Nat /\ f.guid \in Nat /\ f.born \in Nat
  BY <1>1 DEF FoundRecord
<1>3. Target' = f  BY <1>1 DEF Target
<1>4. Trace(f.shard, f.gen, f) /\ f.born > 0  BY <1>1
<1>5. f.born <= born  BY <1>4 DEF Trace
<1>6. PICK s \in InRoom, g \in Nat, n \in Nat : s = f.shard /\ g = f.gen /\ n = f.born  BY <1>2
<1>7. Trace(s, g, f)'  BY <1>2, <1>4, <1>6, TraceKept
<1>8. (Leaving(n) => Leaving(n)') /\ (Gone(n) => Gone(n)')
  BY <1>4, <1>5, <1>6, LeavingKept
<1>9. Trace(Target.shard, Target.gen, Target)'
  BY <1>3, <1>6, <1>7 DEF Trace
<1>10. (Leaving(Target.born) => Leaving(Target.born)') /\ (Gone(Target.born) => Gone(Target.born)')
  BY <1>1, <1>3, <1>6, <1>8 DEF Leaving, Gone
<1> QED BY <1>1, <1>3, <1>4, <1>9, <1>10

\* A step that is no command keeps what the request knows of it.
LEMMA HitsKept ==
    ASSUME WorldsTypes, WorldsTypes', Evolves, FoundKnown, HitKnown, RemovalKnown,
           job'.found = job.found, job'.request = job.request, effect' = effect,
           job'.pc \in {"destination", "command", "confirm"} \/ job'.late =>
              job.pc \in {"destination", "command", "confirm"} \/ job.late \/ effect.ran,
           job'.answer = "ok" /\ job.request \in {"kick", "despawn"} => job.answer = "ok"
    PROVE  FoundKnown' /\ HitKnown' /\ RemovalKnown'
<1>1. ASSUME job.pc \in {"destination", "command", "confirm"} \/ job.late \/ effect.ran
      PROVE  /\ Target' = Target
             /\ (Target \in FoundRecord /\ Target.born > 0 /\ Trace(Target.shard, Target.gen, Target))'
             /\ Leaving(Target.born) => Leaving(Target.born)'
             /\ Gone(Target.born) => Gone(Target.born)'
  BY <1>1, TargetKept DEF FoundKnown
<1>2. FoundKnown'  BY <1>1 DEF FoundKnown
<1>3. HitKnown'  BY <1>1 DEF HitKnown
<1>4. RemovalKnown'  BY <1>1 DEF RemovalKnown
<1> QED BY <1>2, <1>3, <1>4

\* Nobody else makes a request forget.
LEMMA PlayerGames ==
    ASSUME WorldsTypes, WorldsTypes', JobTypes, Evolves, PlayerInv, UNCHANGED <<job, effect>>
    PROVE  PlayerInv'
<1> SUFFICES ASSUME job.request \in PlayerCommands PROVE PlayerInv'
  BY DEF PlayerInv
<1>1. SeenKnown /\ FoundKnown /\ HitKnown /\ ConfirmKnown /\ RemovalKnown  BY DEF PlayerInv
<1>2. FoundKnown' /\ HitKnown' /\ RemovalKnown'  BY <1>1, HitsKept
<1>3. job' = job /\ View' = View  BY DEF View
<1>4. SeenKnown'
  <2> SUFFICES ASSUME job.pc = "locate" PROVE SeenKnown'
    BY <1>3 DEF SeenKnown
  <2>1. Question /\ job.seen \in Seq(SightingRecord) /\ Len(job.seen) = job.at - 1
    BY DEF JobTypes, Questions
  <2>2. ASSUME job.view # <<>> PROVE Trace(job.ask, job.first.gen, View.avatar)'
    <3>1. PICK s \in InRoom, g \in Nat, a \in Avatars :
             s = job.ask /\ g = job.first.gen /\ a = View.avatar
      BY <2>1, <2>2 DEF Question, IdentityRecord, ViewRecord
    <3>2. a.born \in Nat /\ a.guid \in Nat  BY DEF Avatars
    <3>3. Trace(s, g, a)  BY <1>1, <2>2, <3>1 DEF SeenKnown
    <3>4. Trace(s, g, a)'  BY <3>2, <3>3, TraceKept
    <3> QED BY <1>3, <3>1, <3>4 DEF Trace
  <2>3. ASSUME NEW i \in 1 .. (job.at - 1)
        PROVE  Trace(job.shards[i], job.seen[i].gen, job.seen[i].avatar)'
    <3>1. job.shards[i] \in InRoom /\ job.seen[i] \in SightingRecord
      BY <2>1 DEF Question
    <3>2. PICK s \in InRoom, g \in Nat, a \in Avatars :
             s = job.shards[i] /\ g = job.seen[i].gen /\ a = job.seen[i].avatar
      BY <3>1 DEF SightingRecord
    <3>3. a.born \in Nat /\ a.guid \in Nat  BY DEF Avatars
    <3>4. Trace(s, g, a)  BY <1>1, <3>2 DEF SeenKnown
    <3>5. Trace(s, g, a)'  BY <3>3, <3>4, TraceKept
    <3> QED BY <1>3, <3>2, <3>5 DEF Trace
  <2> QED BY <1>3, <2>2, <2>3 DEF SeenKnown
<1>5. ConfirmKnown'
  <2> SUFFICES ASSUME job.pc = "confirm" PROVE ConfirmKnown'
    BY <1>3 DEF ConfirmKnown
  <2>1. Target' = Target /\ (Gone(Target.born) => Gone(Target.born)')
    BY <1>1, TargetKept DEF FoundKnown
  <2> QED BY <1>1, <1>3, <2>1 DEF ConfirmKnown
<1> QED BY <1>1, <1>2, <1>3, <1>4, <1>5 DEF PlayerInv

\* The answer of a shard: what it shows is its avatar.
LEMMA PlayerObserves ==
    ASSUME WorldsTypes, JobTypes, PlayerInv, Observe
    PROVE  PlayerInv'
<1>1. UNCHANGED <<world, avatar, born, loads, effect>>  BY DEF Observe
<1>2. EffectShape'  BY <1>1 DEF WorldsTypes, EffectShape
<1>3. WorldsTypes' /\ Evolves  BY <1>1, <1>2, StillWorlds
<1>4. /\ job'.request = job.request /\ job'.pc = job.pc /\ job'.at = job.at
      /\ job'.shards = job.shards /\ job'.ask = job.ask /\ job'.first = job.first
      /\ job'.seen = job.seen /\ job'.found = job.found /\ job'.late = job.late
      /\ job'.answer = job.answer /\ View'.avatar = avatar[job.ask] /\ job.pc \in Questions
  BY Observed DEF Continues, Observe
<1> SUFFICES ASSUME job.request \in PlayerCommands PROVE PlayerInv'
  BY <1>4 DEF PlayerInv
<1>5. SeenKnown /\ FoundKnown /\ HitKnown /\ ConfirmKnown /\ RemovalKnown  BY DEF PlayerInv
<1>6. FoundKnown' /\ HitKnown' /\ RemovalKnown'  BY <1>1, <1>3, <1>4, <1>5, HitsKept
<1>7. Question  BY <1>4 DEF JobTypes
<1>8. SeenKnown'
  <2>1. PICK s \in InRoom, g \in Nat : s = job.ask /\ g = job.first.gen /\ g <= world[s].gen
    BY <1>7 DEF Question, IdentityRecord
  <2>2. Trace(s, g, avatar[s])  BY <2>1, AvatarTraced
  <2>3. Trace(job.ask, job.first.gen, View.avatar)'
    BY <1>1, <1>4, <2>1, <2>2 DEF Trace
  <2>4. ASSUME job.pc = "locate", NEW i \in 1 .. (job.at - 1)
        PROVE  Trace(job.shards[i], job.seen[i].gen, job.seen[i].avatar)'
    <3>1. Trace(job.shards[i], job.seen[i].gen, job.seen[i].avatar)
      BY <1>5, <2>4 DEF SeenKnown
    <3> QED BY <1>1, <1>4, <3>1 DEF Trace
  <2> QED BY <1>4, <2>3, <2>4 DEF SeenKnown
<1>9. ConfirmKnown'
  <2> SUFFICES ASSUME job.pc = "confirm" PROVE ConfirmKnown'
    BY <1>4 DEF ConfirmKnown
  <2>1. /\ Target' = Target /\ Target \in FoundRecord /\ Target.born > 0
        /\ Trace(Target.shard, Target.gen, Target)
    BY <1>4, <1>5 DEF FoundKnown, Target
  <2>2. ASSUME job.ask = Target.shard, avatar[job.ask].state = "none"
        PROVE  Gone(Target.born)
    <3>1. avatar[job.ask] \in Avatars /\ avatar[job.ask].born = 0
      BY <1>7, <2>2 DEF Question, WorldsTypes, Avatars
    <3>2. \A q \in InRoom \ {job.ask} : avatar[q].born # Target.born
      BY <2>1, <2>2 DEF Trace
    <3>3. avatar[job.ask].born # Target.born  BY <2>1, <3>1
    <3> QED BY <3>2, <3>3 DEF Gone
  <2>3. Gone(Target.born) => Gone(Target.born)'  BY <1>1, <2>1 DEF Gone
  <2> QED BY <1>1, <1>4, <1>5, <2>1, <2>2, <2>3 DEF ConfirmKnown
<1> QED BY <1>4, <1>6, <1>8, <1>9 DEF PlayerInv
\* A request that begins knows nothing yet.
LEMMA PlayerBegins ==
    ASSUME WorldsTypes, JobTypes, NEW r \in Requests, BeginRequest(r)
    PROVE  PlayerInv'
<1>1. /\ UNCHANGED <<world, avatar, born, loads, effect>> /\ ~job'.late /\ ~effect.ran
      /\ job'.answer = "none" /\ job'.view = <<>> /\ job'.at = 1
      /\ job'.pc \in {"locate", "catalog", "complete", "presence", "reload", "runtime"}
  BY BeginStep
<1>2. job'.view = <<>> /\ 1 .. (job'.at - 1) = {}  BY <1>1
<1>3. SeenKnown'
  <2>1. \A i \in 1 .. (job'.at - 1) : FALSE  BY <1>2
  <2> QED BY <1>2, <2>1 DEF SeenKnown
<1>4. FoundKnown' /\ HitKnown' /\ ConfirmKnown' /\ RemovalKnown'
  BY <1>1 DEF FoundKnown, HitKnown, ConfirmKnown, RemovalKnown
<1> QED BY <1>3, <1>4 DEF PlayerInv

\* locate binds the command to a player that a shard showed.
LEMMA PlayerLocates ==
    ASSUME WorldsTypes, JobTypes, PlayerInv, Locate
    PROVE  PlayerInv'
<1>1. /\ JobTypes' /\ job.pc = "locate" /\ job.view # <<>>
      /\ UNCHANGED <<world, avatar, born, loads, effect>> /\ ~job.late /\ ~effect.ran
      /\ job.answer = "none" /\ job.request \in PlayerCommands
  BY LocateStep, PhasesTell DEF Locate, Replied, Quiet, JobTypes, Early
<1>2. Question /\ job.seen \in Seq(SightingRecord) /\ Len(job.seen) = job.at - 1
  BY <1>1 DEF JobTypes, Questions
<1>3. SeenKnown  BY <1>1 DEF PlayerInv
<1>4. HitKnown'  BY <1>1 DEF HitKnown
<1>5. /\ Sightings \in Seq(SightingRecord) /\ Len(Sightings) = job.at
      /\ \A i \in 1 .. (job.at - 1) : Sightings[i] = job.seen[i]
      /\ Sightings[job.at] = Sighting /\ Sighting.gen = job.first.gen
      /\ Sighting.avatar = View.avatar
  BY <1>1, SightingAdded
<1>6. \A i \in 1 .. job.at : Trace(job.shards[i], Sightings[i].gen, Sightings[i].avatar)
  <2> TAKE i \in 1 .. job.at
  <2>1. CASE i = job.at
    <3>1. Trace(job.ask, job.first.gen, View.avatar) /\ job.ask = job.shards[i]
      BY <1>1, <1>2, <1>3, <2>1 DEF SeenKnown, Question
    <3> QED BY <1>5, <2>1, <3>1
  <2>2. CASE i # job.at
    <3>1. i \in 1 .. (job.at - 1)  BY <1>2, <2>2 DEF Question
    <3> QED BY <1>1, <1>3, <1>5, <3>1 DEF SeenKnown
  <2> QED BY <2>1, <2>2
<1>7. ASSUME NEW answer \in {"refused", "ok"}, Ended(job', answer), job'.late = job.late,
             answer = "ok" => job.request = "get"
      PROVE  PlayerInv'
  <2>1. job'.pc = "idle" /\ job'.answer = answer /\ job'.request = job.request
    BY <1>7 DEF Ended, Continues
  <2>2. SeenKnown' /\ ConfirmKnown'  BY <2>1 DEF SeenKnown, ConfirmKnown
  <2>3. FoundKnown'  BY <1>1, <1>7, <2>1 DEF FoundKnown
  <2>4. RemovalKnown'  BY <1>7, <2>1 DEF RemovalKnown
  <2> QED BY <1>4, <2>2, <2>3, <2>4 DEF PlayerInv
<1>8. CASE Advanced(job') /\ ~AllAsked /\ job'.seen = Append(job.seen, Sighting)
  <2>1. /\ job'.pc = "locate" /\ job'.answer = job.answer /\ job'.request = job.request
        /\ job'.late = job.late /\ job'.shards = job.shards /\ job'.at = job.at + 1
        /\ job'.view = <<>> /\ job'.seen = Sightings
    BY <1>1, <1>8 DEF Advanced, Continues, Sightings
  <2>2. 1 .. (job'.at - 1) = 1 .. job.at  BY <1>2, <2>1 DEF Question
  <2>3. ASSUME NEW i \in 1 .. (job'.at - 1)
        PROVE  Trace(job.shards[i], job.seen[i].gen, job.seen[i].avatar)'
    <3>1. PICK s, g, a : s = job.shards[i] /\ g = Sightings[i].gen /\ a = Sightings[i].avatar
      OBVIOUS
    <3>2. Trace(s, g, a)  BY <1>6, <2>2, <3>1
    <3>3. job'.shards[i] = s /\ job'.seen[i].gen = g /\ job'.seen[i].avatar = a
      BY <2>1, <3>1
    <3> QED BY <1>1, <3>2, <3>3 DEF Trace
  <2>4. SeenKnown'  BY <2>1, <2>3 DEF SeenKnown
  <2>5. FoundKnown' /\ ConfirmKnown' /\ RemovalKnown'
    BY <1>1, <2>1 DEF FoundKnown, ConfirmKnown, RemovalKnown
  <2> QED BY <1>4, <2>4, <2>5 DEF PlayerInv
<1>9. CASE /\ PlayerState(Sightings) = "Active" /\ AllAsked
           /\ job'.found = Found(Sightings) /\ job'.pc \in {"destination", "command"}
           /\ Continues(job') /\ job'.late = job.late /\ job'.answer = job.answer
  <2>1. PICK n \in Nat, seen \in Seq(SightingRecord) :
           n = job.at /\ seen = Sightings /\ Len(seen) = n
    BY <1>2, <1>5 DEF Question
  <2>2. job.shards \in Seq(InRoom) /\ Len(job.shards) >= n
    BY <1>2, <2>1 DEF Question
  <2>3. \A i \in 1 .. n : Trace(job.shards[i], seen[i].gen, seen[i].avatar)
    BY <1>6, <2>1
  <2>4. PICK f \in FoundRecord : Found(seen) = <<f>> /\ f.born > 0 /\ Trace(f.shard, f.gen, f)
    BY <1>9, <2>1, <2>2, <2>3, FoundTraced
  <2>5. Target' = f
    <3>1. job'.found = <<f>>  BY <1>9, <2>1, <2>4
    <3>2. <<f>>[1] = f  OBVIOUS
    <3> QED BY <3>1, <3>2, Zenon DEF Target
  <2>6. Trace(Target.shard, Target.gen, Target)'  BY <1>1, <2>4, <2>5 DEF Trace
  <2>7. FoundKnown'  BY <2>4, <2>5, <2>6 DEF FoundKnown
  <2>8. SeenKnown' /\ ConfirmKnown' /\ RemovalKnown'
    BY <1>1, <1>9 DEF SeenKnown, ConfirmKnown, RemovalKnown
  <2> QED BY <1>4, <2>7, <2>8 DEF PlayerInv
<1> QED BY <1>7, <1>8, <1>9, LocateStep

\* The question for the destination changes nothing about the player.
LEMMA PlayerMigrates ==
    ASSUME WorldsTypes, JobTypes, PlayerInv, Destination
    PROVE  PlayerInv'
<1>1. /\ UNCHANGED <<world, avatar, born, loads, effect>> /\ job.pc = "destination"
      /\ job.request \in PlayerCommands /\ job.request = "migrate"
  BY PhasesTell DEF Destination, Replied, Quiet, JobTypes, PlayerCommands
<1>2. EffectShape'  BY <1>1 DEF WorldsTypes, EffectShape
<1>3. WorldsTypes' /\ Evolves  BY <1>1, <1>2, StillWorlds
<1>4. /\ job'.request = job.request /\ job'.found = job.found
      /\ job'.pc \in {"idle", "destination", "command"}
  BY DestinationStep DEF Continues, Ended
<1>5. FoundKnown /\ HitKnown /\ RemovalKnown  BY <1>1 DEF PlayerInv
<1>6. job.request \notin {"kick", "despawn"}  BY <1>1
<1>7. FoundKnown' /\ HitKnown' /\ RemovalKnown'
  BY <1>1, <1>3, <1>4, <1>5, <1>6, HitsKept
<1>8. SeenKnown' /\ ConfirmKnown'  BY <1>4 DEF SeenKnown, ConfirmKnown
<1> QED BY <1>7, <1>8 DEF PlayerInv

\* The command hits the entity that was found, or nothing.
LEMMA PlayerHits ==
    ASSUME WorldsTypes, JobTypes, PlayerInv, PlayerCommand
    PROVE  WorldsTypes' /\ JobTypes' /\ Evolves /\ PlayerInv' /\ UNCHANGED <<world, loads>>
           /\ Continues(job') /\ effect'.ahead = effect.ahead
<1>1. /\ job.request \in PlayerCommands /\ (job.pc = "command" \/ job.late)
      /\ UNCHANGED <<world, born, loads>>
  BY PhasesTell DEF PlayerCommand, JobTypes, PlayerCommands
<1>2. SeenKnown /\ FoundKnown /\ HitKnown /\ ConfirmKnown /\ RemovalKnown
  BY <1>1 DEF PlayerInv
<1>3. Target \in FoundRecord /\ Target.born > 0 /\ Trace(Target.shard, Target.gen, Target)
  BY <1>1, <1>2 DEF FoundKnown
<1>4. PICK s \in InRoom : s = Target.shard  BY <1>3 DEF FoundRecord
<1>5. s = job.found[1].shard  BY <1>4 DEF Target
<1>6. /\ WorldsTypes' /\ JobTypes' /\ Evolves /\ Continues(job') /\ job'.found = job.found
  BY <1>5, PlayerCommandStep
<1>7. /\ Target' = Target
      /\ (Target \in FoundRecord /\ Target.born > 0 /\ Trace(Target.shard, Target.gen, Target))'
      /\ Leaving(Target.born) => Leaving(Target.born)'
      /\ Gone(Target.born) => Gone(Target.born)'
  BY <1>3, <1>6, TargetKept
<1>8. FoundKnown'  BY <1>7 DEF FoundKnown
<1>9. job'.request = job.request  BY <1>6 DEF Continues
<1>10. job.pc # "locate" /\ (job.pc = "command" => ~job.late)
  BY <1>1 DEF JobTypes, Early
<1>11. CASE /\ effect' = effect /\ job'.pc \in {"idle", job.pc}
            /\ job'.answer \in {job.answer, "refused"}
            /\ job'.pc # "idle" => /\ job'.at = job.at /\ job'.shards = job.shards
                                   /\ job'.view = job.view /\ job'.seen = job.seen
                                   /\ job'.ask = job.ask /\ job'.first = job.first
  <2>1. HitKnown'  BY <1>2, <1>7, <1>11 DEF HitKnown
  <2>2. SeenKnown'  BY <1>10, <1>11 DEF SeenKnown
  <2>3. ConfirmKnown'
    <3>1. View' = View \/ job'.pc = "idle"  BY <1>11 DEF View
    <3> QED BY <1>2, <1>7, <1>11, <3>1 DEF ConfirmKnown
  <2>4. RemovalKnown'  BY <1>2, <1>7, <1>9, <1>11 DEF RemovalKnown
  <2>5. effect'.ahead = effect.ahead  BY <1>11
  <2> QED BY <1>1, <1>6, <1>8, <2>1, <2>2, <2>3, <2>4, <2>5 DEF PlayerInv
<1>12. CASE /\ Guarded(s, job.found[1]) /\ effect'.ran /\ effect'.born = avatar[s].born
            /\ effect'.ahead = effect.ahead
            /\ avatar'[s].state = "leaving" /\ avatar'[s].born = avatar[s].born
            /\ \A q \in InRoom \ {s} : avatar'[q] = avatar[q]
            /\ job'.answer = "ok" => job.answer = "ok" \/ job.request = "migrate"
            /\ job'.pc = "confirm" =>
                  \/ job.pc = "confirm" /\ job'.shards = job.shards
                  \/ /\ job.request \in {"kick", "despawn"} /\ job'.shards = RoomShards
                     /\ job'.view = <<>> /\ job'.seen = <<>> /\ job'.at = 1
            /\ job'.pc \in {"idle", "confirm", job.pc}
            /\ job.pc \in {"locate", "destination", "command"} => job'.pc \in {"idle", "confirm"}
            /\ job.late =>
                  /\ job'.at = job.at /\ job'.shards = job.shards
                  /\ job'.view = job.view /\ job'.seen = job.seen
                  /\ job'.ask = job.ask /\ job'.answer = job.answer /\ job'.pc = job.pc
  <2>1. /\ world[s].gen = Target.gen /\ avatar[s].guid = Target.guid
    BY <1>12 DEF Guarded, Target
  <2>2. avatar[s].born = Target.born
    BY <1>3, <1>4, <2>1 DEF Trace
  <2>3. \A q \in InRoom : avatar'[q].born = Target.born => q = s
    BY <1>3, <1>4, <1>12 DEF Trace
  <2>4. HitKnown'
    BY <1>7, <1>12, <2>2, <2>3 DEF HitKnown, Leaving
  <2>5. SeenKnown'  BY <1>10, <1>12 DEF SeenKnown
  <2>6. ConfirmKnown'
    <3> SUFFICES ASSUME job'.pc = "confirm" PROVE ConfirmKnown'
      BY DEF ConfirmKnown
    <3>1. CASE job.late
      <4>1. job.pc = "confirm" /\ View' = View  BY <1>12, <3>1 DEF View
      <4> QED BY <1>2, <1>7, <1>12, <3>1, <4>1 DEF ConfirmKnown
    <3>2. CASE ~job.late
      <4>1. job'.shards = RoomShards /\ job'.view = <<>> /\ job'.at = 1
        BY <1>1, <1>12, <3>2
      <4>2. \A i \in 1 .. (job'.at - 1) : FALSE  BY <4>1
      <4> QED BY <1>12, <4>1, <4>2 DEF ConfirmKnown
    <3> QED BY <3>1, <3>2
  <2>7. RemovalKnown'
    <3>1. job'.answer = "ok" /\ job.request \in {"kick", "despawn"} => job.answer = "ok"
      BY <1>12
    <3> QED BY <1>2, <1>7, <1>9, <1>12, <3>1 DEF RemovalKnown
  <2> QED BY <1>1, <1>6, <1>8, <1>12, <2>4, <2>5, <2>6, <2>7 DEF PlayerInv
<1> QED BY <1>5, <1>11, <1>12, PlayerCommandStep

\* A removal that is confirmed is one: every shard was asked after the command.
LEMMA PlayerConfirms ==
    ASSUME WorldsTypes, JobTypes, PlayerInv, Confirm
    PROVE  PlayerInv'
<1>1. /\ UNCHANGED <<world, avatar, born, loads, effect>> /\ job.pc = "confirm"
      /\ job.view # <<>> /\ job.request \in PlayerCommands /\ job.request \in {"kick", "despawn"}
      /\ job'.found = job.found /\ job'.request = job.request
  BY ConfirmStep, PhasesTell DEF Confirm, Replied, Quiet, JobTypes, PlayerCommands, Continues
<1>2. EffectShape'  BY <1>1 DEF WorldsTypes, EffectShape
<1>3. WorldsTypes' /\ Evolves  BY <1>1, <1>2, StillWorlds
<1>4. SeenKnown /\ FoundKnown /\ HitKnown /\ ConfirmKnown /\ RemovalKnown
  BY <1>1 DEF PlayerInv
<1>5. /\ Target' = Target /\ (Leaving(Target.born) => Leaving(Target.born)')
      /\ Gone(Target.born) => Gone(Target.born)'
  BY <1>1, <1>3, <1>4, TargetKept DEF FoundKnown
<1>6. effect.ran /\ job.shards = RoomShards  BY <1>1, <1>4 DEF ConfirmKnown
<1>7. Question /\ job.seen \in Seq(SightingRecord) /\ Len(job.seen) = job.at - 1
  BY <1>1 DEF JobTypes, Questions
<1>8. /\ DOMAIN Sightings = 1 .. job.at /\ Sightings[job.at] = Sighting
      /\ \A i \in 1 .. (job.at - 1) : Sightings[i] = job.seen[i]
      /\ Sighting.avatar = View.avatar
  BY <1>1, SightingAdded
<1>9. ASSUME NEW i \in 1 .. job.at, job.shards[i] = Target.shard, Sightings[i].avatar.state = "none"
      PROVE  Gone(Target.born)
  <2>1. CASE i = job.at
    <3>1. job.ask = Target.shard /\ View.avatar.state = "none"
      BY <1>7, <1>8, <1>9, <2>1 DEF Question
    <3> QED BY <1>1, <1>4, <3>1 DEF ConfirmKnown
  <2>2. CASE i # job.at
    <3>1. i \in 1 .. (job.at - 1)  BY <1>7, <2>2 DEF Question
    <3> QED BY <1>1, <1>4, <1>8, <1>9, <3>1 DEF ConfirmKnown
  <2> QED BY <2>1, <2>2
<1>10. CASE Ended(job', "failed")
  <2>1. job'.pc = "idle" /\ job'.answer = "failed"  BY <1>10 DEF Ended
  <2>2. FoundKnown' /\ HitKnown' /\ RemovalKnown'
    BY <1>1, <1>3, <1>4, <2>1, HitsKept
  <2>3. SeenKnown' /\ ConfirmKnown'  BY <2>1 DEF SeenKnown, ConfirmKnown
  <2> QED BY <2>2, <2>3 DEF PlayerInv
<1>11. CASE Advanced(job') /\ job'.seen = Append(job.seen, Sighting)
  <2>1. /\ job'.pc = "confirm" /\ job'.answer = job.answer /\ job'.shards = job.shards
        /\ job'.at = job.at + 1 /\ job'.view = <<>> /\ job'.seen = Sightings
    BY <1>1, <1>11 DEF Advanced, Sightings
  <2>2. FoundKnown' /\ HitKnown' /\ RemovalKnown'
    BY <1>1, <1>3, <1>4, <2>1, HitsKept
  <2>3. 1 .. (job'.at - 1) = 1 .. job.at  BY <1>7, <2>1 DEF Question
  <2>4. ConfirmKnown'
    <3>1. ASSUME NEW i \in 1 .. (job'.at - 1), job'.shards[i] = Target'.shard,
                 job'.seen[i].avatar.state = "none"
          PROVE  Gone(Target.born)'
      <4>1. Gone(Target.born)  BY <1>5, <1>9, <2>1, <2>3, <3>1
      <4> QED BY <1>5, <4>1
    <3> QED BY <1>1, <1>6, <2>1, <3>1 DEF ConfirmKnown
  <2>5. SeenKnown'  BY <2>1 DEF SeenKnown
  <2> QED BY <2>2, <2>4, <2>5 DEF PlayerInv
<1>12. CASE Ended(job', "ok") /\ AllAsked /\ PlayerGone(Sightings)
  <2>1. job'.pc = "idle" /\ job'.answer = "ok" /\ effect'.ran  BY <1>1, <1>6, <1>12 DEF Ended
  <2>2. ASSUME job.request = "kick" PROVE Gone(Target.born)
    <3>1. PlayerState(Sightings) = "Disconnected"  BY <1>12, <2>2 DEF PlayerGone
    <3>2. job.at \in Nat  BY <1>7 DEF Question
    <3>3. Sighted(Sightings) = {}  BY <1>8, <3>1, <3>2, StatesTell
    <3>4. Target.shard \in InRoom  BY <1>1, <1>4 DEF FoundKnown, FoundRecord
    <3>5. PICK i \in 1 .. Len(RoomShards) : RoomShards[i] = Target.shard
      BY <3>4, ShardLists
    <3>6. i \in 1 .. job.at /\ job.shards[i] = Target.shard
      BY <1>6, <1>12, <3>5 DEF AllAsked
    <3>7. Sightings[i].avatar.state = "none"
      BY <1>8, <3>3, <3>6 DEF Sighted
    <3> QED BY <1>9, <3>6, <3>7
  <2>3. RemovalKnown'  BY <1>1, <1>5, <2>1, <2>2 DEF RemovalKnown
  <2>4. FoundKnown' /\ HitKnown'
    <3>1. /\ (Target \in FoundRecord /\ Target.born > 0 /\ Trace(Target.shard, Target.gen, Target))'
      BY <1>1, <1>3, <1>4, TargetKept DEF FoundKnown
    <3>2. HitKnown'  BY <1>1, <1>4, <1>5, <1>6 DEF HitKnown
    <3> QED BY <3>1, <3>2 DEF FoundKnown
  <2>5. SeenKnown' /\ ConfirmKnown'  BY <2>1 DEF SeenKnown, ConfirmKnown
  <2> QED BY <2>3, <2>4, <2>5 DEF PlayerInv
<1>13. CASE Started(job', "confirm", RoomShards)
  <2>1. /\ job'.pc = "confirm" /\ job'.answer = job.answer /\ job'.shards = RoomShards
        /\ job'.at = 1 /\ job'.view = <<>>
    BY <1>13 DEF Started
  <2>2. FoundKnown' /\ HitKnown' /\ RemovalKnown'
    BY <1>1, <1>3, <1>4, <2>1, HitsKept
  <2>3. \A i \in 1 .. (job'.at - 1) : FALSE  BY <2>1
  <2>4. SeenKnown' /\ ConfirmKnown'  BY <1>1, <1>6, <2>1, <2>3 DEF SeenKnown, ConfirmKnown
  <2> QED BY <2>2, <2>4 DEF PlayerInv
<1> QED BY <1>10, <1>11, <1>12, <1>13, ConfirmStep

\* Giving up changes nothing about the player; a command may still be on its way.
LEMMA PlayerAbandons ==
    ASSUME WorldsTypes, JobTypes, PlayerInv, QuestionFails \/ CommandUnanswered \/ GiveUpWaiting
    PROVE  PlayerInv'
<1>1. /\ UNCHANGED <<world, avatar, born, loads, effect>>
      /\ job'.found = job.found /\ job'.request = job.request
      /\ \/ /\ job'.pc = "idle" /\ job'.answer \in {"failed", "refused", "unknown"}
         \/ job.pc = "reload" /\ job'.pc = "polling" /\ job'.answer = job.answer
      /\ job'.late => job.late \/ job.pc \in Commands
  BY AbandonStep DEF Continues
<1>2. EffectShape'  BY <1>1 DEF WorldsTypes, EffectShape
<1>3. WorldsTypes' /\ Evolves  BY <1>1, <1>2, StillWorlds
<1> SUFFICES ASSUME job.request \in PlayerCommands PROVE PlayerInv'
  BY <1>1 DEF PlayerInv
<1>4. FoundKnown /\ HitKnown /\ RemovalKnown  BY DEF PlayerInv
<1>5. job.pc \notin {"reload", "save"}  BY PhasesTell DEF JobTypes
<1>6. job'.pc = "idle" /\ job'.answer # "ok" /\ (job'.late => job.late \/ job.pc = "command")
  BY <1>1, <1>5 DEF Commands
<1>7. FoundKnown' /\ HitKnown' /\ RemovalKnown'  BY <1>1, <1>3, <1>4, <1>6, HitsKept
<1>8. SeenKnown' /\ ConfirmKnown'  BY <1>6 DEF SeenKnown, ConfirmKnown
<1> QED BY <1>7, <1>8 DEF PlayerInv

-----------------------------------------------------------------------------
(* Reloads keep what they know *)

\* The worlds a reload began with, and the loads since.
LEMMA BeginningKept ==
    ASSUME WorldsTypes, WorldsTypes', LoadInv, WorldKinds, loads \subseteq loads', BeginningKnown,
           job'.initial = job.initial, job'.pc # "idle" => job.pc # "idle"
    PROVE  BeginningKnown'
<1> SUFFICES ASSUME job'.pc # "idle" PROVE BeginningKnown'
  BY DEF BeginningKnown
<1>1. /\ job.initial \in [InRoom -> IdentityRecord]
      /\ \A s \in InRoom : Renewed(s) => Witness(s, world[s].session, world[s].snap)
  BY DEF BeginningKnown
<1>2. ASSUME NEW s \in InRoom
      PROVE  (Renewed(s) => Witness(s, world[s].session, world[s].snap))'
  BY <1>1, BackedKept
<1> QED BY <1>1, <1>2 DEF BeginningKnown

\* The outcome of a reload, unless the step is the one that confirms it.
LEMMA OutcomeKept ==
    ASSUME ReloadsAreTrue, JobTypes', loads \subseteq loads', job'.request = job.request,
           job'.initial = job.initial,
           job'.answer = "ok" => job.answer = "ok" /\ job'.target = job.target,
           job.request = "regenerate" /\ effect'.ran => effect.ran \/ effect'.empty,
           effect'.empty = effect.empty \/ effect'.empty
    PROVE  ReloadsAreTrue'
<1> SUFFICES ASSUME job.request \in Reloads PROVE ReloadsAreTrue'
  BY DEF ReloadsAreTrue
<1>1. job'.answer = "refused" => ~effect'.ran  BY DEF JobTypes
<1>2. job.request = "regenerate" /\ effect'.ran => effect'.empty  BY DEF ReloadsAreTrue
<1>3. job'.answer = "ok" /\ job'.target > 0 =>
        \A s \in InRoom : \E l \in loads :
           /\ l.shard = s /\ l.session = job.initial[s].session
           /\ \/ l.id <= job.target
              \/ s # Main /\ \E m \in loads : m.shard = Main /\ m.id < job.target
  BY DEF ReloadsAreTrue
<1>4. job'.answer = "ok" /\ job'.target > 0 =>
        \A s \in InRoom : \E l \in loads' :
           /\ l.shard = s /\ l.session = job'.initial[s].session
           /\ \/ l.id <= job'.target
              \/ s # Main /\ \E m \in loads' : m.shard = Main /\ m.id < job'.target
  <2> SUFFICES ASSUME job'.answer = "ok", job'.target > 0, NEW s \in InRoom
               PROVE  \E l \in loads' :
                         /\ l.shard = s /\ l.session = job'.initial[s].session
                         /\ \/ l.id <= job'.target
                            \/ s # Main /\ \E m \in loads' : m.shard = Main /\ m.id < job'.target
    OBVIOUS
  <2>1. PICK l \in loads :
           /\ l.shard = s /\ l.session = job.initial[s].session
           /\ \/ l.id <= job.target
              \/ s # Main /\ \E m \in loads : m.shard = Main /\ m.id < job.target
    BY <1>3
  <2> QED BY <2>1
<1>5. job'.answer = "ok" /\ job.request = "regenerate" =>
        \A s \in InRoom : \E l \in loads' : l.shard = s /\ l.session # job'.initial[s].session
  BY DEF ReloadsAreTrue
<1> QED BY <1>1, <1>2, <1>4, <1>5 DEF ReloadsAreTrue

\* A world that is renewed stays renewed.
LEMMA RenewedKept ==
    ASSUME WorldsTypes, WorldsTypes', Evolves, job'.initial = job.initial, NEW s \in InRoom,
           job.initial \in [InRoom -> IdentityRecord], Renewed(s)
    PROVE  Renewed(s)'
<1>1. PICK a \in Nat, b \in Nat, c \in Nat :
         a = job.initial[s].gen /\ b = world[s].gen /\ c = world'[s].gen
  BY DEF IdentityRecord, WorldsTypes, WorldRecord
<1>2. b > a /\ b <= c  BY <1>1 DEF Renewed, Evolves
<1>3. c > a  BY <1>2
<1> QED BY <1>1, <1>3 DEF Renewed

\* What games do meanwhile.
LEMMA ReloadGames ==
    ASSUME WorldsTypes, WorldsTypes', JobTypes, JobTypes', LoadInv, Evolves, WorldKinds, ReloadInv,
           UNCHANGED <<job, effect>>
    PROVE  ReloadInv'
<1> SUFFICES ASSUME job.request \in Reloads PROVE ReloadInv'
  BY DEF ReloadInv
<1>1. BeginningKnown /\ TargetKnown /\ SettleKnown /\ ReloadsAreTrue  BY DEF ReloadInv
<1>2. loads \subseteq loads'  BY DEF Evolves
<1>3. BeginningKnown'  BY <1>1, <1>2, BeginningKept
<1>4. TargetKnown'  BY <1>1 DEF TargetKnown
<1>5. ReloadsAreTrue'  BY <1>1, <1>2, OutcomeKept
<1>6. SettleKnown'
  <2> SUFFICES ASSUME job.pc = "settle" PROVE SettleKnown'
    BY DEF SettleKnown
  <2>1. job' = job /\ View' = View /\ Expected' = Expected  BY DEF View, Expected
  <2>2. job.initial \in [InRoom -> IdentityRecord]  BY <1>1 DEF BeginningKnown
  <2>3. \A s \in InRoom : s \in Expected => Renewed(s)'
    <3> SUFFICES ASSUME NEW s \in InRoom, s \in Expected PROVE Renewed(s)'
      OBVIOUS
    <3>1. Renewed(s)  BY <1>1 DEF SettleKnown
    <3> QED BY <2>1, <2>2, <3>1, RenewedKept
  <2>4. ASSUME job.view # <<>>, job.ask \in Expected
        PROVE  Witness(job.ask, View.session, View.snap)'
    <3>1. PICK s, session, snap : s = job.ask /\ session = View.session /\ snap = View.snap
      OBVIOUS
    <3>2. Witness(s, session, snap)  BY <1>1, <2>4, <3>1 DEF SettleKnown
    <3>3. Witness(s, session, snap)'  BY <1>2, <3>2, WitnessGrows
    <3> QED BY <2>1, <3>1, <3>3 DEF Witness
  <2>5. ASSUME NEW i \in 1 .. (job.at - 1), job.shards[i] \in Expected
        PROVE  Witness(job.shards[i], job.seen[i].session, job.seen[i].snap)'
    <3>1. PICK s, session, snap :
             s = job.shards[i] /\ session = job.seen[i].session /\ snap = job.seen[i].snap
      OBVIOUS
    <3>2. Witness(s, session, snap)  BY <1>1, <2>5, <3>1 DEF SettleKnown
    <3>3. Witness(s, session, snap)'  BY <1>2, <3>2, WitnessGrows
    <3> QED BY <2>1, <3>1, <3>3 DEF Witness
  <2> QED BY <1>1, <2>1, <2>3, <2>4, <2>5 DEF SettleKnown
<1> QED BY <1>3, <1>4, <1>5, <1>6 DEF ReloadInv

\* A shard says what its world is.
LEMMA ReloadObserves ==
    ASSUME WorldsTypes, JobTypes, LoadInv, ReloadInv, Observe
    PROVE  ReloadInv'
<1>1. UNCHANGED <<world, avatar, born, loads, effect>>  BY DEF Observe
<1>2. /\ JobTypes' /\ Continues(job') /\ job'.pc = job.pc /\ job'.at = job.at
      /\ job'.shards = job.shards /\ job'.ask = job.ask /\ job'.seen = job.seen
      /\ job'.target = job.target /\ job'.answer = job.answer
      /\ View'.session = world[job.ask].session /\ View'.snap = world[job.ask].snap
      /\ job.pc \in Questions
  BY Observed DEF Observe
<1>3. job'.request = job.request /\ job'.initial = job.initial /\ job'.only = job.only
  BY <1>2 DEF Continues
<1> SUFFICES ASSUME job.request \in Reloads PROVE ReloadInv'
  BY <1>3 DEF ReloadInv
<1>4. BeginningKnown /\ TargetKnown /\ SettleKnown /\ ReloadsAreTrue  BY DEF ReloadInv
<1>5. BeginningKnown'  BY <1>1, <1>2, <1>3, <1>4 DEF BeginningKnown, Renewed, Witness
<1>6. TargetKnown'  BY <1>2, <1>3, <1>4 DEF TargetKnown
<1>7. ReloadsAreTrue'  BY <1>1, <1>2, <1>3, <1>4, OutcomeKept
<1>8. SettleKnown'
  <2> SUFFICES ASSUME job.pc = "settle" PROVE SettleKnown'
    BY <1>2 DEF SettleKnown
  <2>1. Expected' = Expected  BY <1>3 DEF Expected
  <2>2. job.ask \in InRoom  BY <1>2 DEF JobTypes, Question
  <2>3. job.ask \in Expected => Witness(job.ask, world[job.ask].session, world[job.ask].snap)
    BY <1>4, <2>2 DEF SettleKnown, BeginningKnown
  <2>4. job.ask \in Expected => Witness(job.ask, View.session, View.snap)'
    BY <1>1, <1>2, <2>3 DEF Witness
  <2>5. \A s \in InRoom : s \in Expected => Renewed(s)'
    BY <1>1, <1>3, <1>4 DEF SettleKnown, Renewed
  <2>6. \A i \in 1 .. (job.at - 1) :
           job.shards[i] \in Expected =>
               Witness(job.shards[i], job.seen[i].session, job.seen[i].snap)'
    BY <1>1, <1>2, <1>4 DEF SettleKnown, Witness
  <2> QED BY <1>2, <1>4, <2>1, <2>4, <2>5, <2>6 DEF SettleKnown
<1> QED BY <1>5, <1>6, <1>7, <1>8 DEF ReloadInv

\* No world is renewed when the request begins.
LEMMA ReloadBegins ==
    ASSUME WorldsTypes, JobTypes, NEW r \in Requests, BeginRequest(r)
    PROVE  ReloadInv'
<1>1. /\ UNCHANGED <<world, avatar, born, loads, effect>> /\ ~job'.late /\ ~effect.ran
      /\ job'.answer = "none" /\ job'.target = 0 /\ job'.request = job.request
      /\ job'.initial = [q \in InRoom |-> Identity(q)]
      /\ job'.pc \in {"locate", "catalog", "complete", "presence", "reload", "runtime"}
      /\ job.request # "regenerate_shard" => job'.only = {}
  BY BeginStep
<1>2. \A q \in InRoom : Identity(q) \in IdentityRecord /\ Identity(q).gen = world[q].gen
                        /\ world[q].gen \in Nat
  BY DEF Identity, IdentityRecord, WorldsTypes, WorldRecord
<1>3. PICK i : i = [q \in InRoom |-> Identity(q)]  OBVIOUS
<1>4. i \in [InRoom -> IdentityRecord] /\ \A q \in InRoom : i[q].gen = world[q].gen
  BY <1>2, <1>3
<1>5. \A s \in InRoom : ~(Renewed(s)')
  <2> TAKE s \in InRoom
  <2>1. world'[s].gen = i[s].gen /\ world[s].gen \in Nat  BY <1>1, <1>2, <1>4
  <2> QED BY <1>1, <1>3, <1>4, <2>1 DEF Renewed
<1>6. BeginningKnown'  BY <1>1, <1>3, <1>4, <1>5 DEF BeginningKnown
<1>7. TargetKnown' /\ SettleKnown' /\ ReloadsAreTrue'
  BY <1>1 DEF TargetKnown, SettleKnown, ReloadsAreTrue
<1> QED BY <1>6, <1>7 DEF ReloadInv

\* The selection of a snapshot leaves the worlds alone.
LEMMA ReloadSelects ==
    ASSUME WorldsTypes, JobTypes, ReloadInv, Catalog \/ Complete \/ Presence
    PROVE  ReloadInv'
<1>1. /\ JobTypes' /\ UNCHANGED <<world, avatar, born, loads, effect>> /\ job.pc # "idle"
      /\ job.request \in Reloads /\ job'.answer \in {"none", "refused"}
      /\ job'.pc \in {"idle", "complete", "presence", "reload"}
      /\ \/ job'.target = job.target
         \/ job'.target \in Nat /\ job.request \in {"reset", "rollback", "day", "exact"}
      /\ job'.request = job.request /\ job'.initial = job.initial /\ job'.only = job.only
  BY SelectionStep DEF Selects, Continues
<1>2. BeginningKnown /\ TargetKnown /\ ReloadsAreTrue  BY <1>1 DEF ReloadInv
<1>3. BeginningKnown'  BY <1>1, <1>2 DEF BeginningKnown, Renewed, Witness
<1>4. TargetKnown'  BY <1>1, <1>2 DEF TargetKnown
<1>5. SettleKnown'  BY <1>1 DEF SettleKnown
<1>6. ReloadsAreTrue'  BY <1>1, <1>2, OutcomeKept
<1> QED BY <1>3, <1>4, <1>5, <1>6 DEF ReloadInv

\* The command, in time or late.
LEMMA ReloadRuns ==
    ASSUME WorldsTypes, JobTypes, ReloadInv, ReloadCommand
    PROVE  ReloadInv'
<1>1. /\ JobTypes' /\ UNCHANGED <<world, avatar, born, loads>>
      /\ job'.target = job.target /\ job.request \in Reloads
      /\ \/ effect' = effect
         \/ effect'.ran /\ (job.request = "regenerate" => effect'.empty)
      /\ job'.answer \in {job.answer, "refused"}
      /\ job'.request = job.request /\ job'.initial = job.initial /\ job'.only = job.only
      /\ \/ job'.pc \in {"idle", "polling"} /\ job.pc = "reload"
         \/ /\ job'.pc = job.pc /\ job'.at = job.at /\ job'.shards = job.shards
            /\ job'.view = job.view /\ job'.seen = job.seen /\ job'.ask = job.ask
            /\ View' = View
  BY ReloadCommandStep DEF Continues
<1>2. BeginningKnown /\ TargetKnown /\ SettleKnown /\ ReloadsAreTrue  BY <1>1 DEF ReloadInv
<1>3. BeginningKnown'  BY <1>1, <1>2 DEF BeginningKnown, Renewed, Witness
<1>4. TargetKnown'  BY <1>1, <1>2 DEF TargetKnown
<1>5. SettleKnown'
  <2>1. CASE job'.pc \in {"idle", "polling"}  BY <2>1 DEF SettleKnown
  <2>2. CASE /\ job'.pc = job.pc /\ job'.at = job.at /\ job'.shards = job.shards
             /\ job'.view = job.view /\ job'.seen = job.seen /\ job'.ask = job.ask
             /\ View' = View
    <3> SUFFICES ASSUME job.pc = "settle" PROVE SettleKnown'
      BY <2>2 DEF SettleKnown
    <3>1. Expected' = Expected  BY <1>1 DEF Expected
    <3> QED BY <1>1, <1>2, <2>2, <3>1 DEF SettleKnown, Renewed, Witness
  <2> QED BY <1>1, <2>1, <2>2
<1>6. ReloadsAreTrue'
  <2>1. job'.answer = "refused" => ~effect'.ran  BY <1>1 DEF JobTypes
  <2>2. job.request = "regenerate" /\ effect'.ran => effect'.empty
    BY <1>1, <1>2 DEF ReloadsAreTrue
  <2> QED BY <1>1, <1>2, <2>1, <2>2 DEF ReloadsAreTrue
<1> QED BY <1>1, <1>3, <1>4, <1>5, <1>6 DEF ReloadInv

\* Every expected shard is back before the first is asked.
LEMMA ReloadPolled ==
    ASSUME WorldsTypes, JobTypes, ReloadInv, Polled
    PROVE  ReloadInv'
<1>1. /\ JobTypes' /\ UNCHANGED <<world, avatar, born, loads, effect>>
      /\ job'.target = job.target /\ job.request \in Reloads /\ job.pc = "polling"
      /\ job.answer = "none" /\ \A s \in Expected : Renewed(s)
      /\ job'.request = job.request /\ job'.initial = job.initial /\ job'.only = job.only
      /\ job'.answer = job.answer /\ job'.pc = "settle" /\ job'.shards = RoomShards
      /\ job'.at = 1 /\ job'.view = <<>>
  BY PolledStep DEF Started, Continues
<1>2. BeginningKnown /\ TargetKnown /\ ReloadsAreTrue  BY <1>1 DEF ReloadInv
<1>3. BeginningKnown'  BY <1>1, <1>2 DEF BeginningKnown, Renewed, Witness
<1>4. TargetKnown'  BY <1>1, <1>2 DEF TargetKnown
<1>5. SettleKnown'
  <2>1. Expected' = Expected  BY <1>1 DEF Expected
  <2>2. \A i \in 1 .. (job'.at - 1) : FALSE  BY <1>1
  <2>3. \A s \in InRoom : s \in Expected => Renewed(s)'
    BY <1>1 DEF Renewed
  <2> QED BY <1>1, <2>1, <2>2, <2>3 DEF SettleKnown
<1>6. ReloadsAreTrue'  BY <1>1, <1>2, OutcomeKept
<1> QED BY <1>3, <1>4, <1>5, <1>6 DEF ReloadInv

-----------------------------------------------------------------------------
(* The end of a reload *)

\* What the shards said so far, with the answer that has just come.
LEMMA SettleWitness ==
    ASSUME JobTypes, SettleKnown, job.pc = "settle", job.view # <<>>, NEW i \in 1 .. job.at,
           job.shards[i] \in Expected
    PROVE  Witness(job.shards[i], AllSettled[i].session, AllSettled[i].snap)
<1>1. /\ SettledNow.session = View.session /\ SettledNow.snap = View.snap
      /\ \A n \in 1 .. (job.at - 1) : AllSettled[n] = job.seen[n]
      /\ AllSettled[job.at] = SettledNow
  BY SettledAdded
<1>2. job.ask = job.shards[job.at] /\ job.at \in Nat
  BY DEF JobTypes, Questions, Question
<1>3. CASE i = job.at
  BY <1>1, <1>2, <1>3 DEF SettleKnown
<1>4. CASE i # job.at
  <2>1. i \in 1 .. (job.at - 1)  BY <1>2, <1>4
  <2> QED BY <1>1, <2>1 DEF SettleKnown
<1> QED BY <1>3, <1>4

\* A confirmed reload: what every shard said is what it should be.
LEMMA ReloadConfirmed ==
    ASSUME WorldsTypes, JobTypes, BeginningKnown, TargetKnown, SettleKnown,
           job.pc = "settle", job.view # <<>>, AllAsked,
           \A i \in DOMAIN AllSettled :
              /\ (AllSettled[i].session # job.initial[job.shards[i]].session) =
                   (job.request = "regenerate" \/ job.shards[i] \in job.only)
              /\ job.target > 0 => AllSettled[i].snap = job.target + 1
    PROVE  /\ job.target > 0 =>
                \A s \in InRoom : \E l \in loads :
                   /\ l.shard = s /\ l.session = job.initial[s].session
                   /\ \/ l.id <= job.target
                      \/ s # Main /\ \E m \in loads : m.shard = Main /\ m.id < job.target
           /\ job.request = "regenerate" =>
                \A s \in InRoom : \E l \in loads : l.shard = s /\ l.session # job.initial[s].session
<1>1. job.shards = RoomShards /\ job.target \in Nat  BY DEF SettleKnown, TargetKnown
<1>2. \A l \in loads : l.id \in Nat  BY DEF WorldsTypes
<1>3. ASSUME NEW s \in InRoom, job.request # "regenerate_shard"
      PROVE  \E session, snap :
                /\ Witness(s, session, snap)
                /\ (session # job.initial[s].session) = (job.request = "regenerate")
                /\ job.target > 0 => snap = job.target + 1
  <2>1. PICK i \in 1 .. Len(RoomShards) : RoomShards[i] = s  BY ShardLists
  <2>2. i \in 1 .. job.at /\ i \in DOMAIN AllSettled  BY <1>1, <2>1, SettledAdded DEF AllAsked
  <2>3. job.shards[i] = s /\ s \in Expected /\ s \notin job.only
    BY <1>1, <1>3, <2>1 DEF Expected, TargetKnown
  <2>4. PICK session, snap : session = AllSettled[i].session /\ snap = AllSettled[i].snap
    OBVIOUS
  <2>5. Witness(s, session, snap)  BY <2>2, <2>3, <2>4, SettleWitness
  <2>6. /\ (session # job.initial[s].session) = (job.request = "regenerate" \/ s \in job.only)
        /\ job.target > 0 => snap = job.target + 1
    BY <2>2, <2>3, <2>4
  <2> QED BY <2>3, <2>5, <2>6
<1>4. ASSUME job.target > 0, NEW s \in InRoom
      PROVE  \E l \in loads :
                /\ l.shard = s /\ l.session = job.initial[s].session
                /\ \/ l.id <= job.target
                   \/ s # Main /\ \E m \in loads : m.shard = Main /\ m.id < job.target
  <2>1. job.request \notin {"regenerate", "regenerate_shard"}  BY <1>4 DEF TargetKnown
  <2>2. PICK session, snap :
           /\ Witness(s, session, snap)
           /\ (session # job.initial[s].session) = (job.request = "regenerate")
           /\ job.target > 0 => snap = job.target + 1
    BY <1>3, <2>1
  <2>3. session = job.initial[s].session /\ snap = job.target + 1  BY <1>4, <2>1, <2>2
  <2>4. PICK l \in loads :
           /\ l.shard = s /\ l.session = session
           /\ \/ l.id < snap
              \/ s # Main /\ \E m \in loads : m.shard = Main /\ m.id + 2 <= snap
    BY <2>2 DEF Witness
  <2>5. l.id < snap => l.id <= job.target  BY <1>1, <1>2, <2>3
  <2>6. \A m \in loads : m.id + 2 <= snap => m.id < job.target  BY <1>1, <1>2, <2>3
  <2> QED BY <2>3, <2>4, <2>5, <2>6
<1>5. ASSUME job.request = "regenerate", NEW s \in InRoom
      PROVE  \E l \in loads : l.shard = s /\ l.session # job.initial[s].session
  <2>1. PICK session, snap :
           /\ Witness(s, session, snap)
           /\ (session # job.initial[s].session) = (job.request = "regenerate")
           /\ job.target > 0 => snap = job.target + 1
    BY <1>3, <1>5
  <2> QED BY <1>5, <2>1 DEF Witness
<1> QED BY <1>4, <1>5

\* A shard has answered after the reload.
LEMMA ReloadSettles ==
    ASSUME WorldsTypes, JobTypes, ReloadInv, ReloadSettled
    PROVE  ReloadInv'
<1>1. /\ JobTypes' /\ UNCHANGED <<world, avatar, born, loads, effect>> /\ job'.target = job.target
      /\ job.pc = "settle" /\ job.view # <<>> /\ job.request \in Reloads /\ job.answer = "none"
      /\ job'.request = job.request /\ job'.initial = job.initial /\ job'.only = job.only
      /\ \/ Advanced(job') /\ ~AllAsked /\ job'.seen = AllSettled
         \/ Started(job', "settle", RoomShards) /\ job'.seen = <<>>
         \/ Ended(job', "failed")
         \/ /\ Ended(job', "ok") /\ AllAsked
            /\ \A i \in DOMAIN AllSettled :
                 /\ (AllSettled[i].session # job.initial[job.shards[i]].session) =
                      (job.request = "regenerate" \/ job.shards[i] \in job.only)
                 /\ job.target > 0 => AllSettled[i].snap = job.target + 1
  BY SettleStep DEF Continues
<1>2. BeginningKnown /\ TargetKnown /\ SettleKnown /\ ReloadsAreTrue  BY <1>1 DEF ReloadInv
<1>3. BeginningKnown'  BY <1>1, <1>2 DEF BeginningKnown, Renewed, Witness
<1>4. TargetKnown'  BY <1>1, <1>2 DEF TargetKnown
<1>5. Expected' = Expected /\ \A s \in InRoom : s \in Expected => Renewed(s)'
  BY <1>1, <1>2 DEF Expected, SettleKnown, Renewed
<1>6. CASE Advanced(job') /\ ~AllAsked /\ job'.seen = AllSettled
  <2>1. /\ job'.pc = "settle" /\ job'.shards = job.shards /\ job'.at = job.at + 1
        /\ job'.view = <<>> /\ job'.answer = "none" /\ job.at \in Nat
    BY <1>1, <1>6 DEF Advanced, JobTypes, Questions, Question
  <2>2. ASSUME NEW i \in 1 .. (job'.at - 1), job.shards[i] \in Expected
        PROVE  Witness(job.shards[i], AllSettled[i].session, AllSettled[i].snap)
    <3>1. i \in 1 .. job.at  BY <2>1
    <3> QED BY <1>1, <1>2, <2>2, <3>1, SettleWitness
  <2>3. SettleKnown'
    BY <1>1, <1>2, <1>5, <1>6, <2>1, <2>2 DEF SettleKnown, Witness
  <2>4. ReloadsAreTrue'  BY <1>1, <1>2, <2>1, OutcomeKept
  <2> QED BY <1>3, <1>4, <2>3, <2>4 DEF ReloadInv
<1>7. CASE Started(job', "settle", RoomShards)
  <2>1. /\ job'.pc = "settle" /\ job'.shards = RoomShards /\ job'.at = 1 /\ job'.view = <<>>
        /\ job'.answer = "none"
    BY <1>1, <1>7 DEF Started
  <2>2. \A i \in 1 .. (job'.at - 1) : FALSE  BY <2>1
  <2>3. SettleKnown'  BY <1>5, <2>1, <2>2 DEF SettleKnown
  <2>4. ReloadsAreTrue'  BY <1>1, <1>2, <2>1, OutcomeKept
  <2> QED BY <1>3, <1>4, <2>3, <2>4 DEF ReloadInv
<1>8. CASE Ended(job', "failed")
  <2>1. job'.pc = "idle" /\ job'.answer = "failed"  BY <1>8 DEF Ended
  <2>2. SettleKnown'  BY <2>1 DEF SettleKnown
  <2>3. ReloadsAreTrue'  BY <1>1, <1>2, <2>1, OutcomeKept
  <2> QED BY <1>3, <1>4, <2>2, <2>3 DEF ReloadInv
<1>9. CASE /\ Ended(job', "ok") /\ AllAsked
           /\ \A i \in DOMAIN AllSettled :
                /\ (AllSettled[i].session # job.initial[job.shards[i]].session) =
                     (job.request = "regenerate" \/ job.shards[i] \in job.only)
                /\ job.target > 0 => AllSettled[i].snap = job.target + 1
  <2>1. job'.pc = "idle" /\ job'.answer = "ok"  BY <1>9 DEF Ended
  <2>2. SettleKnown'  BY <2>1 DEF SettleKnown
  <2>3. /\ job.target > 0 =>
                \A s \in InRoom : \E l \in loads :
                   /\ l.shard = s /\ l.session = job.initial[s].session
                   /\ \/ l.id <= job.target
                      \/ s # Main /\ \E m \in loads : m.shard = Main /\ m.id < job.target
        /\ job.request = "regenerate" =>
                \A s \in InRoom : \E l \in loads : l.shard = s /\ l.session # job.initial[s].session
    BY <1>1, <1>2, <1>9, ReloadConfirmed
  <2>4. job.request = "regenerate" /\ effect.ran => effect.empty
    BY <1>1, <1>2 DEF ReloadsAreTrue
  <2>5. ReloadsAreTrue'  BY <1>1, <2>1, <2>3, <2>4 DEF ReloadsAreTrue
  <2> QED BY <1>3, <1>4, <2>2, <2>5 DEF ReloadInv
<1> QED BY <1>1, <1>6, <1>7, <1>8, <1>9

\* The end that may come at any await.
LEMMA ReloadAbandons ==
    ASSUME WorldsTypes, JobTypes, ReloadInv, QuestionFails \/ CommandUnanswered \/ GiveUpWaiting
    PROVE  ReloadInv'
<1>1. /\ JobTypes' /\ UNCHANGED <<world, avatar, born, loads, effect>> /\ job'.target = job.target
      /\ job'.request = job.request /\ job'.initial = job.initial /\ job'.only = job.only
      /\ \/ /\ job'.pc = "idle" /\ job'.answer \in {"failed", "refused", "unknown"}
            /\ job.pc # "idle"
         \/ job.pc = "reload" /\ job'.pc = "polling" /\ job'.answer = job.answer
  <2>1. job.pc # "idle"
    BY DEF QuestionFails, CommandUnanswered, GiveUpWaiting, Questions, Commands
  <2> QED BY <2>1, AbandonStep DEF Continues
<1> SUFFICES ASSUME job.request \in Reloads PROVE ReloadInv'
  BY <1>1 DEF ReloadInv
<1>2. BeginningKnown /\ TargetKnown /\ ReloadsAreTrue  BY DEF ReloadInv
<1>3. BeginningKnown'  BY <1>1, <1>2 DEF BeginningKnown, Renewed, Witness
<1>4. TargetKnown'  BY <1>1, <1>2 DEF TargetKnown
<1>5. SettleKnown'  BY <1>1 DEF SettleKnown
<1>6. ReloadsAreTrue'  BY <1>1, <1>2, OutcomeKept
<1> QED BY <1>3, <1>4, <1>5, <1>6 DEF ReloadInv

-----------------------------------------------------------------------------
(* Saves keep what they know *)

\* A step after which the request is no save that still has to run.
LEMMA SaveOver ==
    ASSUME SavesMoveForward, effect'.ahead => effect.ahead, loads \subseteq loads',
           job'.request = "save" => job'.pc \notin {"runtime", "save"} /\ ~job'.late
    PROVE  SaveInv'
<1>1. SavesMoveForward'  BY DEF SavesMoveForward
<1> QED BY <1>1 DEF SaveInv

\* What games do meanwhile: the master's number grows, or it does not and no other does.
LEMMA SaveGames ==
    ASSUME WorldsTypes, WorldsTypes', JobTypes, LoadInv, Evolves, WorldKinds, SaveInv,
           UNCHANGED <<job, effect>>
    PROVE  SaveInv'
<1>1. SavesMoveForward'  BY DEF SaveInv, SavesMoveForward, Evolves
<1> SUFFICES ASSUME job.request = "save", ~(MainLoaded') PROVE SaveInv'
  BY <1>1 DEF SaveInv
<1>2. /\ ~MainLoaded
      /\ \/ /\ world'[Main].snap = world[Main].snap
            /\ \A q \in InRoom : world'[q].snap <= world[q].snap
         \/ world'[Main].snap = world[Main].snap + 1
  BY LoadsKept
<1>3. /\ Main \in InRoom /\ MasterFirst \in Seq(InRoom)
      /\ \A q \in InRoom : world[q].snap \in Nat /\ world'[q].snap \in Nat
  BY ShardLists, MasterFirstListed DEF WorldsTypes, WorldRecord
<1>4. job' = job /\ View' = View  BY DEF View
<1>5. ASSUME NEW n \in 0 .. Len(MasterFirst), Reached(n)
      PROVE  Reached(n)'
  <2>1. /\ job.target \in Nat /\ job.target <= world[Main].snap
        /\ world[Main].snap = job.target =>
              \A i \in 2 .. n : world[MasterFirst[i]].snap <= job.target
    BY <1>5 DEF Reached
  <2>2. job.target <= world'[Main].snap  BY <1>2, <1>3, <2>1
  <2>3. ASSUME world'[Main].snap = job.target, NEW i \in 2 .. n
        PROVE  world'[MasterFirst[i]].snap <= job.target
    <3>1. MasterFirst[i] \in InRoom  BY <1>3
    <3>2. world[Main].snap = job.target /\ world'[MasterFirst[i]].snap <= world[MasterFirst[i]].snap
      BY <1>2, <1>3, <2>1, <2>3, <3>1
    <3>3. world[MasterFirst[i]].snap <= job.target  BY <2>1, <3>2
    <3> QED BY <1>3, <2>1, <3>1, <3>2, <3>3
  <2> QED BY <1>4, <2>1, <2>2, <2>3 DEF Reached
<1>6. CASE job.pc = "runtime"
  <2>1. /\ Question /\ job.shards = MasterFirst /\ ~job.late
        /\ job.at = 1 /\ job.view # <<>> => View.snap <= world[Main].snap
        /\ job.at > 1 => Reached(job.at - 1)
        /\ job.at > 1 /\ job.view # <<>> /\ world[Main].snap = job.target =>
              world[job.ask].snap <= View.snap \/ world[job.ask].snap <= job.target
    BY <1>2, <1>6 DEF SaveInv, JobTypes, Questions, Early
  <2>2. /\ job.at \in 1 .. Len(MasterFirst) /\ job.ask \in InRoom
        /\ job.view # <<>> => View.snap \in Nat
    BY <2>1 DEF Question, ViewRecord
  <2>3. job.at = 1 /\ job.view # <<>> => View.snap <= world'[Main].snap
    BY <1>2, <1>3, <2>1, <2>2
  <2>4. job.at > 1 => Reached(job.at - 1)'
    <3> SUFFICES ASSUME job.at > 1 PROVE Reached(job.at - 1)'
      OBVIOUS
    <3>1. PICK n \in 0 .. Len(MasterFirst) : n = job.at - 1  BY <2>2
    <3>2. Reached(n)'  BY <1>5, <2>1, <3>1
    <3> QED BY <1>4, <3>1, <3>2
  <2>5. ASSUME job.at > 1, job.view # <<>>, world'[Main].snap = job.target
        PROVE  world'[job.ask].snap <= View.snap \/ world'[job.ask].snap <= job.target
    <3>1. job.target \in Nat /\ job.target <= world[Main].snap  BY <2>1, <2>5 DEF Reached
    <3>2. world[Main].snap = job.target /\ world'[job.ask].snap <= world[job.ask].snap
      BY <1>2, <1>3, <2>2, <2>5, <3>1
    <3>3. world[job.ask].snap <= View.snap \/ world[job.ask].snap <= job.target
      BY <2>1, <2>5, <3>2
    <3> QED BY <1>3, <2>2, <2>5, <3>1, <3>2, <3>3
  <2> QED BY <1>1, <1>4, <1>6, <2>1, <2>3, <2>4, <2>5 DEF SaveInv
<1>7. CASE job.pc # "runtime"
  <2>1. PICK n \in 0 .. Len(MasterFirst) : n = Len(MasterFirst)  BY <1>3
  <2>2. job.pc = "save" \/ job.late => Reached(n)  BY <1>2, <2>1 DEF SaveInv
  <2>3. job.pc = "save" \/ job.late => Reached(n)'  BY <1>5, <2>2
  <2> QED BY <1>1, <1>4, <1>7, <2>1, <2>3 DEF SaveInv
<1> QED BY <1>6, <1>7

\* A shard says its number.
LEMMA SaveObserves ==
    ASSUME WorldsTypes, JobTypes, SaveInv, Observe
    PROVE  SaveInv'
<1>1. /\ UNCHANGED <<world, loads, effect>> /\ job'.pc = job.pc /\ job'.at = job.at
      /\ job'.shards = job.shards /\ job'.ask = job.ask /\ job'.target = job.target
      /\ job'.late = job.late /\ View'.snap = world[job.ask].snap /\ job.pc \in Questions
      /\ job'.request = job.request
  BY Observed DEF Observe, Continues
<1>2. SavesMoveForward' /\ (MainLoaded' <=> MainLoaded)
  BY <1>1 DEF SaveInv, SavesMoveForward, MainLoaded
<1> SUFFICES ASSUME job.request = "save", ~MainLoaded, job.pc = "runtime" PROVE SaveInv'
  <2>1. job.pc # "save"  BY <1>1 DEF Questions
  <2>2. Reached(Len(MasterFirst)) => Reached(Len(MasterFirst))'  BY <1>1 DEF Reached
  <2> QED BY <1>1, <1>2, <2>1, <2>2 DEF SaveInv
<1>3. /\ Question /\ ~job.late /\ job.shards = MasterFirst
      /\ job.at > 1 => Reached(job.at - 1)
  BY DEF SaveInv, JobTypes, Questions, Early
<1>4. /\ job.ask \in InRoom /\ world[job.ask].snap \in Nat /\ job.at \in Nat
      /\ job.at = 1 => job.ask = Main
  <2>1. job.ask \in InRoom /\ job.ask = MasterFirst[job.at]  BY <1>3 DEF Question
  <2>2. job.at \in Nat  BY <1>3, MasterFirstListed DEF Question
  <2>3. world[job.ask].snap \in Nat  BY <2>1 DEF WorldsTypes, WorldRecord
  <2> QED BY <2>1, <2>2, <2>3, MasterFirstListed
<1>5. PICK a \in Nat : a = world[job.ask].snap  BY <1>4
<1>6. /\ job.at = 1 => View'.snap <= world[Main].snap
      /\ world[job.ask].snap <= View'.snap
  <2>1. a <= a  BY <1>5
  <2>2. View'.snap = a /\ world[job.ask].snap = a  BY <1>1, <1>5, Zenon
  <2>3. job.at = 1 => world[Main].snap = a  BY <1>4, <2>2, Zenon
  <2> QED BY <2>1, <2>2, <2>3, Zenon
<1>7. job.at > 1 => Reached(job.at - 1)'  BY <1>1, <1>3 DEF Reached
<1> QED BY <1>1, <1>2, <1>3, <1>6, <1>7 DEF SaveInv

\* The save begins with the master.
LEMMA SaveBegins ==
    ASSUME WorldsTypes, JobTypes, SaveInv, NEW r \in Requests, BeginRequest(r)
    PROVE  SaveInv'
<1>1. /\ UNCHANGED <<world, loads, effect>> /\ ~job'.late /\ job'.at = 1 /\ job'.view = <<>>
      /\ job'.pc \in {"locate", "catalog", "complete", "presence", "reload", "runtime"}
      /\ job'.pc = "runtime" => job'.shards = MasterFirst
  BY BeginStep
<1>2. SavesMoveForward'  BY <1>1 DEF SaveInv, SavesMoveForward
<1> QED BY <1>1, <1>2 DEF SaveInv

\* The numbers are compared one after another.
LEMMA SaveCompares ==
    ASSUME WorldsTypes, JobTypes, SaveInv, Runtime
    PROVE  SaveInv'
<1>1. /\ UNCHANGED <<world, loads, effect>> /\ job.request = "save" /\ job.pc = "runtime"
      /\ job.view # <<>> /\ ~job'.late
      /\ \/ Ended(job', "refused")
         \/ /\ \/ Advanced(job') /\ ~AllAsked
               \/ AllAsked /\ Commanded(job', "save")
            /\ IF job.ask = Main THEN job'.target = View.snap
               ELSE job'.target = job.target /\ MaySave(View.snap)
  BY RuntimeStep
<1>2. SavesMoveForward' /\ (MainLoaded' <=> MainLoaded)
  BY <1>1 DEF SaveInv, SavesMoveForward, MainLoaded
<1>3. CASE Ended(job', "refused")
  BY <1>1, <1>2, <1>3 DEF Ended, SaveInv
<1> SUFFICES ASSUME ~MainLoaded,
                    \/ Advanced(job') /\ ~AllAsked
                    \/ AllAsked /\ Commanded(job', "save"),
                    IF job.ask = Main THEN job'.target = View.snap
                    ELSE job'.target = job.target /\ MaySave(View.snap)
             PROVE  SaveInv'
  <2>1. MainLoaded => SaveInv'  BY <1>2 DEF SaveInv
  <2> QED BY <1>1, <1>3, <2>1
<1>4. /\ Question /\ job.shards = MasterFirst
      /\ job.at = 1 => View.snap <= world[Main].snap
      /\ job.at > 1 => Reached(job.at - 1)
      /\ job.at > 1 /\ world[Main].snap = job.target =>
            world[job.ask].snap <= View.snap \/ world[job.ask].snap <= job.target
  BY <1>1 DEF SaveInv, JobTypes, Questions
<1>5. /\ job.at \in 1 .. Len(MasterFirst) /\ job.ask = MasterFirst[job.at] /\ job.ask \in InRoom
      /\ View.snap \in Nat
  BY <1>1, <1>4 DEF Question, ViewRecord
<1>6. \A q \in InRoom : world[q].snap \in Nat  BY DEF WorldsTypes, WorldRecord
<1>7. Main \in InRoom /\ MasterFirst[1] = Main /\ MasterFirst \in Seq(InRoom)
      /\ \A i \in 2 .. Len(MasterFirst) : MasterFirst[i] # Main
  BY ShardLists, MasterFirstListed DEF Secondaries
<1>8. PICK n \in Nat : n = job.at /\ n > 0  BY <1>5
<1>9. Reached(n)'
  <2>1. CASE n = 1
    <3>1. job.ask = Main  BY <1>5, <1>7, <1>8, <2>1
    <3>2. job'.target = View.snap /\ View.snap <= world[Main].snap  BY <1>4, <1>8, <2>1, <3>1
    <3>3. \A i \in 2 .. n : FALSE  BY <2>1
    <3> QED BY <1>1, <1>5, <3>2, <3>3 DEF Reached
  <2>2. CASE n > 1
    <3>1. job.ask # Main  BY <1>5, <1>7, <1>8, <2>2
    <3>2. job'.target = job.target /\ View.snap <= job.target  BY <3>1 DEF MaySave
    <3>3. /\ job.target \in Nat /\ job.target <= world[Main].snap
          /\ world[Main].snap = job.target =>
                \A i \in 2 .. (n - 1) : world[MasterFirst[i]].snap <= job.target
      BY <1>4, <1>8, <2>2 DEF Reached
    <3>4. ASSUME world[Main].snap = job.target, NEW i \in 2 .. n
          PROVE  world[MasterFirst[i]].snap <= job.target
      <4>1. CASE i = n
        <5>1. PICK a \in Nat : a = world[job.ask].snap  BY <1>5, <1>6
        <5>2. a <= View.snap \/ a <= job.target  BY <1>4, <1>8, <2>2, <3>4, <5>1
        <5>3. a <= job.target  BY <1>5, <3>2, <3>3, <5>1, <5>2
        <5> QED BY <1>5, <1>8, <4>1, <5>1, <5>3
      <4>2. CASE i # n
        <5>1. i \in 2 .. (n - 1)  BY <4>2
        <5> QED BY <3>3, <3>4, <5>1
      <4> QED BY <4>1, <4>2
    <3> QED BY <1>1, <3>2, <3>3, <3>4 DEF Reached
  <2> QED BY <1>8, <2>1, <2>2
<1>10. CASE Advanced(job') /\ ~AllAsked
  <2>1. /\ job'.pc = "runtime" /\ job'.shards = MasterFirst /\ job'.at = n + 1 /\ job'.view = <<>>
    BY <1>1, <1>4, <1>8, <1>10 DEF Advanced
  <2>2. PICK k \in Nat : k = n + 1  OBVIOUS
  <2>3. k # 1 /\ k - 1 = n  BY <1>8, <2>2
  <2>4. job'.at = k  BY <2>1, <2>2
  <2>5. job'.at # 1 /\ job'.at - 1 = n  BY <2>3, <2>4
  <2> QED BY <1>1, <1>2, <1>9, <2>1, <2>5 DEF SaveInv
<1>11. CASE AllAsked /\ Commanded(job', "save")
  <2>1. job'.pc = "save" /\ n = Len(MasterFirst)  BY <1>4, <1>8, <1>11 DEF Commanded, AllAsked
  <2> QED BY <1>1, <1>2, <1>9, <2>1 DEF SaveInv
<1> QED BY <1>10, <1>11

\* The save runs, in time or late.
LEMMA SaveRuns ==
    ASSUME WorldsTypes, JobTypes, SaveInv, SaveCommand
    PROVE  SaveInv'
<1>1. /\ loads' = loads /\ job.request = "save" /\ ~job'.late
      /\ job'.pc \notin {"runtime", "save"}
      /\ job.pc = "save" \/ job.late
      /\ \/ UNCHANGED effect
         \/ /\ world[Main].snap = job.target
            /\ effect'.ahead => \E s \in Secondaries : world[s].snap > job.target
  BY SaveCommandStep
<1>2. SavesMoveForward'
  <2> SUFFICES ASSUME effect'.ahead, ~MainLoaded PROVE FALSE
    BY <1>1 DEF SavesMoveForward, MainLoaded
  <2>1. ~effect.ahead  BY DEF SaveInv, SavesMoveForward, MainLoaded
  <2>2. /\ world[Main].snap = job.target
        /\ \E s \in Secondaries : world[s].snap > job.target
    BY <1>1, <2>1
  <2>3. Reached(Len(MasterFirst))  BY <1>1 DEF SaveInv
  <2>4. PICK s \in Secondaries : world[s].snap > job.target  BY <2>2
  <2>5. PICK i \in 2 .. Len(MasterFirst) : MasterFirst[i] = s  BY MasterFirstListed
  <2>6. world[s].snap <= job.target /\ job.target \in Nat  BY <2>2, <2>3, <2>5 DEF Reached
  <2>7. world[s].snap \in Nat  BY DEF Secondaries, InRoom, WorldsTypes, WorldRecord
  <2> QED BY <2>4, <2>6, <2>7
<1> QED BY <1>1, <1>2 DEF SaveInv

\* A save that is given up may still run.
LEMMA SaveAbandons ==
    ASSUME WorldsTypes, JobTypes, SaveInv, QuestionFails \/ CommandUnanswered \/ GiveUpWaiting
    PROVE  SaveInv'
<1>1. /\ UNCHANGED <<world, loads, effect>> /\ job'.target = job.target
      /\ job'.request = job.request /\ job'.pc \in {"idle", "polling"}
      /\ job'.late => job.late \/ job.pc \in Commands
  BY AbandonStep DEF Continues
<1>2. SavesMoveForward' /\ (MainLoaded' <=> MainLoaded)
  BY <1>1 DEF SaveInv, SavesMoveForward, MainLoaded
<1>3. job.request = "save" /\ job'.late => job.late \/ job.pc = "save"
  BY <1>1, PhasesTell DEF JobTypes, Commands, PlayerCommands, Reloads
<1>4. Reached(Len(MasterFirst)) => Reached(Len(MasterFirst))'  BY <1>1 DEF Reached
<1> QED BY <1>1, <1>2, <1>3, <1>4 DEF SaveInv

-----------------------------------------------------------------------------
(* Requests are honest *)

WorldsInv == WorldsTypes /\ JobTypes /\ LoadInv /\ PlayerInv /\ ReloadInv /\ SaveInv

\* What is known of one kind of requests says nothing of the others.
LEMMA OtherRequests ==
    ASSUME job'.request = job.request
    PROVE  /\ job.request \notin PlayerCommands => PlayerInv'
           /\ job.request \notin Reloads => ReloadInv'
BY DEF PlayerInv, ReloadInv

\* A step that leaves worlds and players alone.
LEMMA StillKept ==
    ASSUME WorldsTypes, LoadInv, UNCHANGED <<world, avatar, born, loads>>, EffectShape'
    PROVE  WorldsTypes' /\ LoadInv' /\ Evolves
<1>1. WorldsTypes' /\ Evolves  BY StillWorlds
<1>2. world' = world /\ loads' = loads  OBVIOUS
<1>3. LoadInv'  BY <1>2 DEF LoadInv, MainLoaded
<1> QED BY <1>1, <1>3

\* Nothing happens.
LEMMA WorldsStutter ==
    ASSUME WorldsInv, UNCHANGED worldsVars
    PROVE  WorldsInv'
<1>1. /\ world' = world /\ avatar' = avatar /\ born' = born /\ loads' = loads /\ job' = job
      /\ effect' = effect
  BY DEF worldsVars
<1>2. WorldsTypes /\ JobTypes /\ LoadInv /\ PlayerInv /\ ReloadInv /\ SaveInv  BY DEF WorldsInv
<1>3. EffectShape'  BY <1>1, <1>2 DEF WorldsTypes, EffectShape
<1>4. WorldsTypes' /\ LoadInv' /\ Evolves  BY <1>1, <1>2, <1>3, StillKept
<1>5. WorldKinds  BY <1>1 DEF WorldKinds, SameNumbers
<1>6. JobTypes'  BY <1>1, <1>2, <1>4, JobStays DEF WorldsTypes
<1>7. PlayerInv'  BY <1>1, <1>2, <1>4, PlayerGames
<1>8. ReloadInv'  BY <1>1, <1>2, <1>4, <1>5, <1>6, ReloadGames
<1>9. SaveInv'  BY <1>1, <1>2, <1>4, <1>5, SaveGames
<1> QED BY <1>4, <1>6, <1>7, <1>8, <1>9 DEF WorldsInv

\* Players and games.
LEMMA WorldsByThemselves ==
    ASSUME WorldsInv, GameStep
    PROVE  WorldsInv'
<1>1. WorldsTypes /\ JobTypes /\ LoadInv /\ PlayerInv /\ ReloadInv /\ SaveInv  BY DEF WorldsInv
<1>2. WorldsTypes' /\ JobTypes' /\ Evolves /\ WorldKinds /\ UNCHANGED <<job, effect>>
  BY <1>1, GamesKeep
<1>3. LoadInv'  BY <1>1, <1>2, LoadsKept
<1>4. PlayerInv'  BY <1>1, <1>2, PlayerGames
<1>5. ReloadInv'  BY <1>1, <1>2, ReloadGames
<1>6. SaveInv'  BY <1>1, <1>2, SaveGames
<1> QED BY <1>2, <1>3, <1>4, <1>5, <1>6 DEF WorldsInv

\* The steps of a request that only look: questions, decisions and ends.
LEMMA WorldsLook ==
    ASSUME WorldsInv, JobTypes', PlayerInv', ReloadInv', SaveInv',
           UNCHANGED <<world, avatar, born, loads, effect>>
    PROVE  WorldsInv'
<1>1. WorldsTypes /\ LoadInv  BY DEF WorldsInv
<1>2. EffectShape'  BY <1>1 DEF WorldsTypes, EffectShape
<1>3. WorldsTypes' /\ LoadInv'  BY <1>1, <1>2, StillKept
<1> QED BY <1>3 DEF WorldsInv

\* The steps of player commands.
LEMMA WorldsPlayers ==
    ASSUME WorldsInv, Locate \/ Destination \/ PlayerCommand \/ Confirm
    PROVE  WorldsInv'
<1>1. WorldsTypes /\ JobTypes /\ LoadInv /\ PlayerInv /\ SavesMoveForward
  BY DEF WorldsInv, SaveInv
<1>2. job.request \in PlayerCommands
  BY <1>1, PhasesTell DEF Locate, Destination, PlayerCommand, Confirm, Replied, JobTypes,
     PlayerCommands
<1>3. job.request \notin Reloads /\ job.request # "save" /\ job.request \in RequestKinds
  BY <1>1, <1>2, PhasesTell DEF JobTypes
<1>4. ASSUME job'.request = job.request, effect'.ahead = effect.ahead, loads' = loads
      PROVE  ReloadInv' /\ SaveInv'
  <2>1. ReloadInv'  BY <1>3, <1>4, OtherRequests
  <2>2. SaveInv'  BY <1>1, <1>3, <1>4, SaveOver
  <2> QED BY <2>1, <2>2
<1>5. CASE PlayerCommand
  <2>1. /\ WorldsTypes' /\ JobTypes' /\ PlayerInv' /\ UNCHANGED <<world, loads>>
        /\ job'.request = job.request /\ effect'.ahead = effect.ahead
    BY <1>1, <1>5, PlayerHits DEF Continues
  <2>2. LoadInv'  BY <1>1, <2>1 DEF LoadInv, MainLoaded
  <2> QED BY <1>4, <2>1, <2>2 DEF WorldsInv
<1>6. CASE Locate \/ Destination \/ Confirm
  <2>1. UNCHANGED <<world, avatar, born, loads, effect>>
    BY <1>6 DEF Locate, Destination, Confirm, Quiet
  <2>2. JobTypes' /\ job'.request = job.request
    BY <1>1, <1>6, LocateStep, DestinationStep, ConfirmStep DEF Ended, Advanced, Continues
  <2>3. PlayerInv'  BY <1>1, <1>6, PlayerLocates, PlayerMigrates, PlayerConfirms
  <2>4. ReloadInv' /\ SaveInv'  BY <1>4, <2>1, <2>2
  <2> QED BY <2>1, <2>2, <2>3, <2>4, WorldsLook
<1> QED BY <1>5, <1>6

\* The steps of reloads.
LEMMA WorldsReload ==
    ASSUME WorldsInv,
           Catalog \/ Complete \/ Presence \/ ReloadCommand \/ Polled \/ ReloadSettled
    PROVE  WorldsInv'
<1>1. WorldsTypes /\ JobTypes /\ LoadInv /\ ReloadInv /\ SavesMoveForward
  BY DEF WorldsInv, SaveInv
<1>2. ASSUME job.request \in Reloads, job'.request = job.request, effect'.ahead = effect.ahead,
             loads' = loads
      PROVE  PlayerInv' /\ SaveInv'
  <2>1. job.request \notin PlayerCommands /\ job.request # "save"
    BY <1>1, <1>2, PhasesTell DEF JobTypes
  <2>2. PlayerInv'  BY <1>2, <2>1, OtherRequests
  <2>3. SaveInv'  BY <1>1, <1>2, <2>1, SaveOver
  <2> QED BY <2>2, <2>3
<1>3. CASE ReloadCommand
  <2>1. /\ WorldsTypes' /\ JobTypes' /\ UNCHANGED <<world, avatar, born, loads>>
        /\ job'.request = job.request /\ job.request \in Reloads /\ effect'.ahead = effect.ahead
    BY <1>1, <1>3, ReloadCommandStep DEF Continues
  <2>2. ReloadInv'  BY <1>1, <1>3, ReloadRuns
  <2>3. LoadInv'  BY <1>1, <2>1 DEF LoadInv, MainLoaded
  <2> QED BY <1>2, <2>1, <2>2, <2>3 DEF WorldsInv
<1>4. CASE Catalog \/ Complete \/ Presence
  <2>1. /\ JobTypes' /\ UNCHANGED <<world, avatar, born, loads, effect>>
        /\ job.request \in Reloads /\ job'.request = job.request
    BY <1>1, <1>4, SelectionStep DEF Selects, Continues
  <2>2. ReloadInv'  BY <1>1, <1>4, ReloadSelects
  <2>3. PlayerInv' /\ SaveInv'  BY <1>2, <2>1
  <2> QED BY <2>1, <2>2, <2>3, WorldsLook
<1>5. CASE Polled
  <2>1. /\ JobTypes' /\ UNCHANGED <<world, avatar, born, loads, effect>>
        /\ job.request \in Reloads /\ job'.request = job.request
    BY <1>1, <1>5, PolledStep DEF Started, Continues
  <2>2. ReloadInv'  BY <1>1, <1>5, ReloadPolled
  <2>3. PlayerInv' /\ SaveInv'  BY <1>2, <2>1
  <2> QED BY <2>1, <2>2, <2>3, WorldsLook
<1>6. CASE ReloadSettled
  <2>1. /\ JobTypes' /\ UNCHANGED <<world, avatar, born, loads, effect>>
        /\ job.request \in Reloads /\ job'.request = job.request
    BY <1>1, <1>6, SettleStep DEF Continues
  <2>2. ReloadInv'  BY <1>1, <1>6, ReloadSettles
  <2>3. PlayerInv' /\ SaveInv'  BY <1>2, <2>1
  <2> QED BY <2>1, <2>2, <2>3, WorldsLook
<1> QED BY <1>3, <1>4, <1>5, <1>6

\* The steps of saves.
LEMMA WorldsSave ==
    ASSUME WorldsInv, Runtime \/ SaveCommand
    PROVE  WorldsInv'
<1>1. WorldsTypes /\ JobTypes /\ LoadInv /\ SaveInv  BY DEF WorldsInv
<1>2. ASSUME job.request = "save", job'.request = job.request
      PROVE  PlayerInv' /\ ReloadInv'
  BY <1>2, OtherRequests DEF PlayerCommands, Reloads
<1>3. CASE Runtime
  <2>1. /\ JobTypes' /\ UNCHANGED <<world, avatar, born, loads, effect>>
        /\ job.request = "save" /\ job'.request = job.request
    BY <1>1, <1>3, RuntimeStep DEF Continues
  <2>2. SaveInv'  BY <1>1, <1>3, SaveCompares
  <2> QED BY <1>2, <2>1, <2>2, WorldsLook
<1>4. CASE SaveCommand
  <2>1. /\ WorldsTypes' /\ JobTypes' /\ UNCHANGED loads
        /\ job.request = "save" /\ job'.request = job.request
        /\ \/ world' = world
           \/ \E followers \in SUBSET Secondaries : world' = SavedBy(followers)
    BY <1>1, <1>4, SaveCommandStep DEF Continues
  <2>2. WorldKinds  BY <2>1 DEF WorldKinds, SameNumbers, Saved
  <2>3. LoadInv'  BY <1>1, <2>1, <2>2, LoadsKept
  <2>4. SaveInv'  BY <1>1, <1>4, SaveRuns
  <2> QED BY <1>2, <2>1, <2>3, <2>4 DEF WorldsInv
<1> QED BY <1>3, <1>4

\* The beginning, the answers and the early ends, which all requests share.
LEMMA WorldsShared ==
    ASSUME WorldsInv,
           \/ \E r \in Requests : BeginRequest(r)
           \/ Observe
           \/ QuestionFails \/ CommandUnanswered \/ GiveUpWaiting
    PROVE  WorldsInv'
<1>1. WorldsTypes /\ JobTypes /\ LoadInv /\ PlayerInv /\ ReloadInv /\ SaveInv  BY DEF WorldsInv
<1>2. CASE \E r \in Requests : BeginRequest(r)
  <2>1. PICK r \in Requests : BeginRequest(r)  BY <1>2
  <2>2. JobTypes' /\ UNCHANGED <<world, avatar, born, loads, effect>>
    BY <1>1, <2>1, BeginStep
  <2>3. PlayerInv' /\ ReloadInv' /\ SaveInv'
    BY <1>1, <2>1, PlayerBegins, ReloadBegins, SaveBegins
  <2> QED BY <2>2, <2>3, WorldsLook
<1>3. CASE Observe
  <2>1. JobTypes' /\ UNCHANGED <<world, avatar, born, loads, effect>>
    BY <1>1, <1>3, Observed DEF Observe
  <2>2. PlayerInv' /\ ReloadInv' /\ SaveInv'
    BY <1>1, <1>3, PlayerObserves, ReloadObserves, SaveObserves
  <2> QED BY <2>1, <2>2, WorldsLook
<1>4. CASE QuestionFails \/ CommandUnanswered \/ GiveUpWaiting
  <2>1. JobTypes' /\ UNCHANGED <<world, avatar, born, loads, effect>>
    BY <1>1, <1>4, AbandonStep
  <2>2. PlayerInv' /\ ReloadInv' /\ SaveInv'
    BY <1>1, <1>4, PlayerAbandons, ReloadAbandons, SaveAbandons
  <2> QED BY <2>1, <2>2, WorldsLook
<1> QED BY <1>2, <1>3, <1>4

\* Every behaviour begins with the invariant.
LEMMA WorldsInvBegins ==
    ASSUME WorldsInit
    PROVE  WorldsInv
<1>1. /\ WorldsTypes /\ JobTypes /\ job.pc = "idle" /\ job.answer = "none" /\ ~job.late
      /\ ~effect.ran /\ ~effect.ahead /\ loads = {} /\ job.target = 0 /\ job.only = {}
      /\ \A q \in InRoom : \A i \in world[q].saves : i < world[Main].snap
  BY WorldsBegin
<1>2. LoadInv  BY <1>1 DEF LoadInv, MainLoaded
<1>3. PlayerInv
  BY <1>1 DEF PlayerInv, SeenKnown, FoundKnown, HitKnown, ConfirmKnown, RemovalKnown
<1>4. ReloadInv
  BY <1>1 DEF ReloadInv, BeginningKnown, TargetKnown, SettleKnown, ReloadsAreTrue
<1>5. SaveInv  BY <1>1 DEF SaveInv, SavesMoveForward
<1> QED BY <1>1, <1>2, <1>3, <1>4, <1>5 DEF WorldsInv

\* The invariant says what the requests promise.
LEMMA WorldsInvPromises ==
    ASSUME WorldsInv
    PROVE  RequestsAreHonest
<1>1. PlayersAreHitInPlace
  <2> SUFFICES ASSUME job.request \in PlayerCommands PROVE PlayersAreHitInPlace
    BY DEF PlayersAreHitInPlace
  <2>1. HitKnown /\ RemovalKnown  BY DEF WorldsInv, PlayerInv
  <2> QED BY <2>1 DEF PlayersAreHitInPlace, HitKnown, RemovalKnown, Leaving, Gone, Target
<1>2. ReloadsAreTrue
  BY DEF WorldsInv, ReloadInv, ReloadsAreTrue
<1>3. SavesMoveForward  BY DEF WorldsInv, SaveInv
<1> QED BY <1>1, <1>2, <1>3 DEF RequestsAreHonest

\* What is asked of several shards in turn holds when it is used: a player command touches
\* the entity that was located, a confirmed rollback or regeneration took every shard where
\* it should, and a save sets no secondary back, whatever players and games do meanwhile
\* (locate, player_request, reload, save in room.rs).
THEOREM RequestsHonest == WorldsSpec => []RequestsAreHonest
<1>1. WorldsInit => WorldsInv  BY WorldsInvBegins
<1>2. WorldsInv /\ [WorldsNext]_worldsVars => WorldsInv'
  <2> SUFFICES ASSUME WorldsInv, [WorldsNext]_worldsVars PROVE WorldsInv'
    OBVIOUS
  <2>1. \/ GameStep
        \/ Locate \/ Destination \/ PlayerCommand \/ Confirm
        \/ Catalog \/ Complete \/ Presence \/ ReloadCommand \/ Polled \/ ReloadSettled
        \/ Runtime \/ SaveCommand
        \/ \E r \in Requests : BeginRequest(r)
        \/ Observe
        \/ QuestionFails \/ CommandUnanswered \/ GiveUpWaiting
        \/ UNCHANGED worldsVars
    BY DEF WorldsNext, GameStep
  <2> QED BY <2>1, WorldsByThemselves, WorldsPlayers, WorldsReload, WorldsSave, WorldsShared,
             WorldsStutter
<1>3. WorldsInv => RequestsAreHonest  BY WorldsInvPromises
<1> QED BY <1>1, <1>2, <1>3, PTL DEF WorldsSpec
=============================================================================
