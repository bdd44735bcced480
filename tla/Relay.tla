------------------------------- MODULE Relay -------------------------------
(***************************************************************************)
(* The path of one shard's observations: the Driver publishes events to a  *)
(* bounded subscription and its state to a watch (driver.rs); Room.monitor *)
(* relays the events and follows the watch (room.rs); both feed the meters *)
(* (observability.rs) and the local output thread.  The attempts of a room *)
(* are numbered; an old attempt's relay may outlive it.                    *)
(*                                                                         *)
(* driver   per attempt: running, generation, players in its world         *)
(* channel  per attempt: the subscription's queue; count: its counters     *)
(* relay, follow   the two tasks of monitor, per attempt                   *)
(* metric   ShardMetrics: the attempt and generation it is about, up,      *)
(*          players.  The up-down counters follow it.                      *)
(* output   the local output queue and its thread; losses: records that    *)
(*          did not fit; report: close_telemetry                           *)
(* seen     history: who was in which world                                *)
(***************************************************************************)
EXTENDS Naturals, Sequences, FiniteSets, SequencesExt

CONSTANTS
    Players,
    SUBSCRIPTION_LINES, OUTPUT_RECORDS,
    MaxAttempts, MaxGenerations, MaxEvents      \* bounds

ASSUME RelayAssumption ==
    SUBSCRIPTION_LINES \in Nat /\ OUTPUT_RECORDS \in Nat /\ MaxAttempts \in Nat

VARIABLES attempt, driver, channel, count, relay, follow, metric, output, losses, report, seen

relayVars == <<attempt, driver, channel, count, relay, follow, metric, output, losses, report, seen>>

Attempts == 1 .. MaxAttempts
NoDriver == [running |-> FALSE, gen |-> 0, players |-> {}]
Total(field) == SumFunction([n \in Attempts |-> count[n][field]])

RelayTypeOK ==
    /\ attempt \in 0 .. MaxAttempts
    /\ \A n \in Attempts : Len(channel[n]) <= SUBSCRIPTION_LINES /\ driver[n].gen <= MaxGenerations
    /\ relay \in [Attempts -> {"none", "run", "done", "aborted"}]
    /\ \A n \in Attempts : follow[n].state \in {"none", "wait", "apply", "done"}
    /\ metric.nonce \in 0 .. MaxAttempts /\ metric.players \subseteq Players
    /\ output.queue <= OUTPUT_RECORDS
    /\ report \in {"open", "relays", "output", "sdk", "ok", "failed"}

RelayInit ==
    /\ attempt = 0
    /\ driver = [n \in Attempts |-> NoDriver]
    /\ channel = [n \in Attempts |-> <<>>]
    /\ count = [n \in Attempts |-> [published |-> 0, dropped |-> 0, relayed |-> 0, told |-> 0]]
    /\ relay = [n \in Attempts |-> "none"]
    /\ follow = [n \in Attempts |-> [state |-> "none", fresh |-> FALSE, copy |-> NoDriver]]
    /\ metric = [nonce |-> 0, gen |-> 0, up |-> FALSE, players |-> {}]
    /\ output = [queue |-> 0, writing |-> FALSE, closed |-> FALSE, settled |-> 0]
    /\ losses = 0 /\ report = "open" /\ seen = {}

-----------------------------------------------------------------------------
(* Observability *)

\* Mutant: a new generation of the same attempt keeps the presence of the old one.
ObserveStateKeeping(n, s) ==
    LET same == metric.nonce = n
    IN [nonce |-> n, gen |-> IF same /\ s.gen < metric.gen THEN metric.gen ELSE s.gen,
        up |-> s.running, players |-> IF same /\ s.running THEN metric.players ELSE {}]

\* observe_state: another attempt or a later generation resets presence, and so
\* does an exit; an older generation of the same attempt does not.
ObserveState(n, s) ==
    LET same == metric.nonce = n
        later == same /\ s.gen > metric.gen
    IN [nonce |-> n, gen |-> IF same /\ ~later THEN metric.gen ELSE s.gen,
        up |-> s.running,
        players |-> IF same /\ ~later /\ s.running THEN metric.players ELSE {}]

Apply(e, players) ==
    CASE e.name = "presence" -> e.players
      [] e.name = "entered"  -> players \union e.players
      [] e.name = "left"     -> players \ e.players

\* observe_driver: events of another attempt or an older generation are ignored.
ObserveDriver(n, e) ==
    LET nonce == IF metric.nonce = 0 THEN n ELSE metric.nonce
        before == IF e.gen > metric.gen THEN {} ELSE metric.players
    IN IF nonce # n \/ e.gen < metric.gen THEN metric
       ELSE [nonce |-> n, gen |-> e.gen, up |-> metric.up,
             players |-> IF metric.up THEN Apply(e, before) ELSE before]

-----------------------------------------------------------------------------
(* The Driver: telemetry, advance_generation and the end of its pump *)

\* Room.start_inner: monitor() subscribes, observes the state and spawns its tasks.
StartAttempt ==
    /\ attempt < MaxAttempts /\ report = "open"
    /\ attempt > 0 => ~driver[attempt].running
    /\ LET n == attempt + 1 IN
       /\ attempt' = n
       /\ driver' = [driver EXCEPT ![n].running = TRUE]
       /\ metric' = ObserveState(n, driver'[n])
       /\ relay' = [relay EXCEPT ![n] = "run"]
       /\ follow' = [follow EXCEPT ![n].state = "wait", ![n].fresh = TRUE]
    /\ UNCHANGED <<channel, count, output, losses, report, seen>>

\* A subscriber without room loses the event, and that is counted.
PublishEvent(n, e) ==
    LET room == Len(channel[n]) < SUBSCRIPTION_LINES IN
    /\ channel' = [channel EXCEPT ![n] = IF room THEN Append(@, e) ELSE @]
    /\ count' = [count EXCEPT ![n].published = @ + 1,
                              ![n].dropped = @ + (IF room THEN 0 ELSE 1)]

\* A contiguous record updates the watched state without waking its readers.
TelemetryRecord(n) ==
    /\ driver[n].running /\ driver[n].gen > 0 /\ Total("published") < MaxEvents
    /\ \E name \in {"presence", "entered", "left"}, who \in Players :
          LET world == CASE name = "entered" -> driver[n].players \union {who}
                         [] name = "left" -> driver[n].players \ {who}
                         [] OTHER -> driver[n].players
          IN /\ driver' = [driver EXCEPT ![n].players = world]
             /\ seen' = seen \union {<<n, driver[n].gen, p>> : p \in world}
             /\ PublishEvent(n, [gen |-> driver[n].gen, name |-> name,
                                 players |-> IF name = "presence" THEN world ELSE {who}])
    /\ UNCHANGED <<attempt, relay, follow, metric, output, losses, report>>

Watched(n) == follow[n].state # "done"

NewGeneration(n) ==
    /\ driver[n].running
    /\ SumFunction([m \in Attempts |-> driver[m].gen]) < MaxGenerations
    /\ driver' = [driver EXCEPT ![n].gen = @ + 1, ![n].players = {}]
    /\ follow' = [follow EXCEPT ![n].fresh = Watched(n)]
    /\ UNCHANGED <<attempt, channel, count, relay, metric, output, losses, report, seen>>

\* The pump ends: the state says so and every subscription is closed.
ExitDriver(n) ==
    /\ driver[n].running
    /\ driver' = [driver EXCEPT ![n].running = FALSE, ![n].players = {}]
    /\ follow' = [follow EXCEPT ![n].fresh = Watched(n)]
    /\ UNCHANGED <<attempt, channel, count, relay, metric, output, losses, report, seen>>

-----------------------------------------------------------------------------
(* Room.monitor *)

\* LocalOutput.submit: a closed or full queue drops the record, and counts it.
SubmitOutput(encodes) ==
    IF ~encodes \/ output.closed \/ output.queue >= OUTPUT_RECORDS
    THEN losses' = losses + 1 /\ UNCHANGED output
    ELSE output' = [output EXCEPT !.queue = @ + 1] /\ UNCHANGED losses

\* The drops so far are recorded before the event is observed and written.
RelayEvent(n) ==
    /\ relay[n] = "run" /\ channel[n] # <<>>
    /\ channel' = [channel EXCEPT ![n] = Tail(@)]
    /\ count' = [count EXCEPT ![n].relayed = @ + 1, ![n].told = count[n].dropped]
    /\ metric' = ObserveDriver(n, Head(channel[n]))
    /\ \E encodes \in BOOLEAN : SubmitOutput(encodes)
    /\ UNCHANGED <<attempt, driver, relay, follow, report, seen>>

LastDrops(n) == count[n].dropped

RelayEnd(n) ==
    /\ relay[n] = "run" /\ channel[n] = <<>> /\ ~driver[n].running
    /\ relay' = [relay EXCEPT ![n] = "done"]
    /\ count' = [count EXCEPT ![n].told = LastDrops(n)]
    /\ UNCHANGED <<attempt, driver, channel, follow, metric, output, losses, report, seen>>

\* The watch is read, and what was read is applied: other tasks run in between.
FollowRead(n) ==
    /\ follow[n].state = "wait" /\ follow[n].fresh
    /\ IF attempt # n
       THEN follow' = [follow EXCEPT ![n].state = "done", ![n].fresh = FALSE]
       ELSE follow' = [follow EXCEPT ![n].state = "apply", ![n].fresh = FALSE,
                                     ![n].copy = [driver[n] EXCEPT !.players = {}]]
    /\ UNCHANGED <<attempt, driver, channel, count, relay, metric, output, losses, report, seen>>

FollowApply(n) ==
    /\ follow[n].state = "apply"
    /\ metric' = ObserveState(n, follow[n].copy)
    /\ follow' = [follow EXCEPT ![n].copy = NoDriver,
                                ![n].state = IF follow[n].copy.running THEN "wait" ELSE "done"]
    /\ UNCHANGED <<attempt, driver, channel, count, relay, output, losses, report, seen>>

\* stop_inner refreshes the shard with the state after the stop.
StopRefresh(n) ==
    /\ n = attempt /\ ~driver[n].running
    /\ metric' = ObserveState(n, driver[n])
    /\ UNCHANGED <<attempt, driver, channel, count, relay, follow, output, losses, report, seen>>

-----------------------------------------------------------------------------
(* LocalOutput's thread, and close_telemetry *)

OutputTake ==
    /\ ~output.writing /\ output.queue > 0
    /\ output' = [output EXCEPT !.queue = @ - 1, !.writing = TRUE]
    /\ UNCHANGED <<attempt, driver, channel, count, relay, follow, metric, losses, report, seen>>

\* A record that was written counts as such, one that was not as dropped.
OutputWrite ==
    /\ output.writing
    /\ output' = [output EXCEPT !.writing = FALSE, !.settled = @ + 1]
    /\ UNCHANGED <<attempt, driver, channel, count, relay, follow, metric, losses, report, seen>>

CloseTelemetry ==
    /\ report = "open" /\ (attempt > 0 => ~driver[attempt].running)
    /\ report' = "relays"
    /\ UNCHANGED <<attempt, driver, channel, count, relay, follow, metric, output, losses, seen>>

Relaying == {n \in Attempts : relay[n] = "run"}

\* Relays that do not end in time are aborted, which fails the close.
CloseRelays ==
    /\ report = "relays"
    /\ relay' = [n \in Attempts |-> IF n \in Relaying THEN "aborted" ELSE relay[n]]
    /\ report' = "output"
    /\ output' = [output EXCEPT !.closed = TRUE]
    /\ UNCHANGED <<attempt, driver, channel, count, follow, metric, losses, seen>>

OutputDrained == output.closed /\ output.queue = 0 /\ ~output.writing

\* The output thread ended, or is given up.  Then the exporter is closed, which
\* may fail.
CloseOutput ==
    /\ report = "output"
    /\ \/ /\ OutputDrained /\ \A n \in Attempts : relay[n] # "aborted"
          /\ report' = "sdk"
       \/ report' = "failed"
    /\ UNCHANGED <<attempt, driver, channel, count, relay, follow, metric, output, losses, seen>>

\* Observability.close: the providers flush and shut down, or the close fails.
CloseSdk ==
    /\ report = "sdk"
    /\ report' \in {"ok", "failed"}
    /\ UNCHANGED <<attempt, driver, channel, count, relay, follow, metric, output, losses, seen>>

-----------------------------------------------------------------------------

AttemptStep(n) ==
    \/ TelemetryRecord(n) \/ NewGeneration(n) \/ ExitDriver(n)
    \/ RelayEvent(n) \/ RelayEnd(n) \/ FollowRead(n) \/ FollowApply(n) \/ StopRefresh(n)
RelayNext ==
    \/ StartAttempt \/ \E n \in Attempts : AttemptStep(n)
    \/ OutputTake \/ OutputWrite
    \/ CloseTelemetry \/ CloseRelays \/ CloseOutput \/ CloseSdk

RelaySpec == RelayInit /\ [][RelayNext]_relayVars

-----------------------------------------------------------------------------
(* Properties *)

\* Although events and states reach the meters by two roads, late, dropped or
\* after the next attempt began, the players the meters count were in the very world
\* the meters are about, and a process known to be down counts nobody.
PresenceIsCurrent ==
    /\ \A p \in metric.players : <<metric.nonce, metric.gen, p>> \in seen
    /\ ~metric.up => metric.players = {}

\* Every published event is queued, relayed or dropped; drops are recorded by the
\* end of the relay; relayed events are queued, settled, or recorded as lost.  A
\* close that reports success has left nothing behind.
ObservationsAreCounted ==
    /\ \A n \in Attempts :
        /\ count[n].published = Len(channel[n]) + count[n].relayed + count[n].dropped
        /\ relay[n] = "done" => (count[n].told = count[n].dropped /\ channel[n] = <<>>)
    /\ Total("relayed") = output.queue + (IF output.writing THEN 1 ELSE 0) + output.settled + losses
    /\ report = "ok" =>
        /\ \A n \in Attempts : channel[n] = <<>>
        /\ output.queue = 0 /\ ~output.writing

\* Both roads to the meters and to the journal keep their accounts (observe_state,
\* observe_driver, monitor, close_telemetry).
ObservationsAreHonest == PresenceIsCurrent /\ ObservationsAreCounted
=============================================================================
