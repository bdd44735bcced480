------------------------------ MODULE Process ------------------------------
(***************************************************************************)
(* One supervised game process (process.rs): its pipes, the readers that   *)
(* never wait for a consumer, the supervisor, and the handle that may be   *)
(* dropped at any time.                                                    *)
(*                                                                         *)
(* Game:       child    "up", "killed" (SIGKILL is on its way), "dead"     *)
(*             heirs    other processes that inherited its pipes: in its   *)
(*                      group, or escaped from it                          *)
(*             output   what the readers have not yet read, per stream     *)
(* Readers:    reader   per stream; protocol, logs: the two queues         *)
(*             dropped, fatal                                              *)
(* Supervisor: stop     the request; forced, termed: what it has done      *)
(*             sup, report                                                 *)
(* Handle:     handle   FALSE once GameProcess is dropped                  *)
(* History:    written, delivered   records per stream                     *)
(*             lost     a control record was lost                          *)
(***************************************************************************)
EXTENDS Naturals, Sequences, SequencesExt

CONSTANTS
    Streams,                \* among Reply, Lifecycle, Stdout, Stderr
    PROTOCOL_QUEUE_LINES,
    LOG_QUEUE_LINES,
    LOG_QUEUE_BYTES,
    Says,                   \* what an ordinary line may mean to its reader
    MaxWrites               \* bound: records written by the game

ASSUME StreamsAssumption == Streams \subseteq {"Reply", "Lifecycle", "Stdout", "Stderr"}
ASSUME SaysAssumption == "other" \in Says
ASSUME QueuesAssumption ==
    PROTOCOL_QUEUE_LINES \in Nat /\ LOG_QUEUE_LINES \in Nat /\ LOG_QUEUE_BYTES \in Nat

VARIABLES child, heirs, output, reader, protocol, logs, dropped, fatal,
          stop, forced, termed, sup, report, handle, written, delivered, lost

gameVars == <<child, heirs>>
queueVars == <<protocol, logs, dropped, fatal, lost>>
supVars == <<forced, termed, sup, report>>
processVars == <<gameVars, output, reader, queueVars, stop, supVars, handle,
                 written, delivered>>

Protocol(s) == s \in {"Reply", "Lifecycle"}

\* What a stream can carry: a record of the driver or the control endpoint is
\* mandatory wherever it appears; a line may be too long, or cut off by the end
\* of the stream.  Only ordinary lines are charged for their size.
Records(s) ==
    {r \in [stream : {s}, mandatory : BOOLEAN, form : {"line", "long", "torn"}, size : {1, 2},
             says : Says] :
        /\ r.mandatory => r.says = "other"
        /\ Protocol(s) => r.mandatory
        /\ s = "Stderr" => ~r.mandatory
        /\ r.size = 2 => r.form = "line" /\ ~r.mandatory}

ReadError(s) ==
    [stream |-> s, mandatory |-> s # "Stderr", form |-> "error", size |-> 1,
     says |-> "other"]

NoReport == [forced |-> FALSE, drained |-> FALSE, error |-> FALSE]

ProcessTypeOK ==
    /\ child \in {"up", "killed", "dead"} /\ heirs \in {"none", "group", "escaped"}
    /\ \A s \in Streams : output[s] \in Seq(Records(s))
    /\ reader \in [Streams -> {"reading", "ended", "aborted"}]
    /\ Len(protocol) <= PROTOCOL_QUEUE_LINES /\ Len(logs) <= LOG_QUEUE_LINES
    /\ dropped \in [Streams -> Nat] /\ fatal \in BOOLEAN
    /\ stop \in {"Running", "Terminate", "Kill"}
    /\ sup \in {"watch", "drain", "done"} /\ forced \in BOOLEAN /\ termed \in BOOLEAN
    /\ handle \in BOOLEAN

\* spawn: pipes, one reader per stream, the supervisor.
ProcessInit ==
    /\ child = "up" /\ heirs = "none"
    /\ output = [s \in Streams |-> <<>>]
    /\ reader = [s \in Streams |-> "reading"]
    /\ protocol = <<>> /\ logs = <<>>
    /\ dropped = [s \in Streams |-> 0] /\ fatal = FALSE
    /\ stop = "Running" /\ forced = FALSE /\ termed = FALSE
    /\ sup = "watch" /\ report = NoReport /\ handle = TRUE
    /\ written = [s \in Streams |-> 0] /\ delivered = [s \in Streams |-> 0]
    /\ lost = FALSE

-----------------------------------------------------------------------------
(* The game *)

Writers == child # "dead" \/ heirs # "none"

WriteOutput(s) ==
    /\ Writers /\ SumFunction(written) < MaxWrites
    /\ \A i \in DOMAIN output[s] : output[s][i].form # "torn"
    /\ \E r \in Records(s) : output' = [output EXCEPT ![s] = Append(@, r)]
    /\ written' = [written EXCEPT ![s] = @ + 1]
    /\ UNCHANGED <<gameVars, reader, queueVars, stop, supVars, handle, delivered>>

Fork ==
    /\ child # "dead" /\ heirs = "none"
    /\ heirs' \in {"group", "escaped"}
    /\ UNCHANGED <<child, output, reader, queueVars, stop, supVars, handle, written,
                   delivered>>

\* The game ends, by itself, by a signal it obeys or by one it cannot ignore.
ChildEnds ==
    /\ child # "dead"
    /\ child' = "dead"
    /\ UNCHANGED <<heirs, output, reader, queueVars, stop, supVars, handle, written,
                   delivered>>

-----------------------------------------------------------------------------
(* Output and read_output: readers never wait for the consumer *)

HeldBytes(queue) == SumFunction([i \in DOMAIN queue |-> queue[i].size])

\* A record that finds no room is counted; fail_protocol if it was mandatory.
Drop(r) ==
    /\ dropped' = [dropped EXCEPT ![r.stream] = @ + 1]
    /\ fatal' = (fatal \/ r.mandatory)
    /\ lost' = (lost \/ r.mandatory)
    /\ UNCHANGED <<protocol, logs>>

Enqueue(r) ==
    /\ IF r.mandatory
       THEN protocol' = Append(protocol, r) /\ logs' = logs
       ELSE logs' = Append(logs, r) /\ protocol' = protocol
    /\ UNCHANGED dropped

Fits(r) ==
    /\ handle
    /\ IF r.mandatory THEN Len(protocol) < PROTOCOL_QUEUE_LINES
       ELSE /\ Len(logs) < LOG_QUEUE_LINES
            /\ HeldBytes(logs) + r.size <= LOG_QUEUE_BYTES

\* Too long or unreadable: fatal if mandatory, even though an event follows.
Broken(r) == r.mandatory /\ r.form \in {"long", "error"}

Emit(r) ==
    IF Fits(r)
    THEN /\ Enqueue(r)
         /\ fatal' = (fatal \/ Broken(r))
         /\ lost' = (lost \/ (r.mandatory /\ r.form # "line"))
    ELSE Drop(r)

ReadRecord(s) ==
    /\ reader[s] = "reading" /\ output[s] # <<>>
    /\ Head(output[s]).form # "torn"
    /\ Emit(Head(output[s]))
    /\ output' = [output EXCEPT ![s] = Tail(@)]
    /\ UNCHANGED <<gameVars, reader, stop, supVars, handle, written, delivered>>

\* End of file: the unterminated rest is a last log line, or an incomplete control
\* record, which is handed on as the protocol error.
ReadEnd(s) ==
    /\ reader[s] = "reading" /\ ~Writers
    /\ reader' = [reader EXCEPT ![s] = "ended"]
    /\ \/ output[s] = <<>> /\ UNCHANGED <<output, queueVars, delivered>>
       \/ /\ output[s] # <<>> /\ Head(output[s]).form = "torn"
          /\ output' = [output EXCEPT ![s] = <<>>]
          /\ IF Head(output[s]).mandatory
             THEN /\ fatal' = TRUE /\ lost' = TRUE
                  /\ delivered' = [delivered EXCEPT ![s] = @ + 1]
                  /\ UNCHANGED <<protocol, logs, dropped>>
             ELSE Emit(Head(output[s])) /\ UNCHANGED delivered
    /\ UNCHANGED <<gameVars, stop, supVars, handle, written>>

ReadFails(s) ==
    /\ reader[s] = "reading" /\ SumFunction(written) < MaxWrites
    /\ reader' = [reader EXCEPT ![s] = "ended"]
    /\ Emit(ReadError(s))
    /\ written' = [written EXCEPT ![s] = @ + 1]
    /\ UNCHANGED <<gameVars, output, stop, supVars, handle, delivered>>

-----------------------------------------------------------------------------
(* GameProcess *)

\* Control output takes priority over logs.
NextEvent ==
    /\ handle
    /\ \/ /\ protocol # <<>>
          /\ protocol' = Tail(protocol) /\ logs' = logs
          /\ delivered' = [delivered EXCEPT ![Head(protocol).stream] = @ + 1]
       \/ /\ protocol = <<>> /\ logs # <<>>
          /\ logs' = Tail(logs) /\ protocol' = protocol
          /\ delivered' = [delivered EXCEPT ![Head(logs).stream] = @ + 1]
    /\ UNCHANGED <<gameVars, output, reader, dropped, fatal, lost, stop, supVars,
                   handle, written>>

\* A later request never weakens an earlier one.
Shutdown ==
    /\ handle /\ stop = "Running"
    /\ stop' = "Terminate"
    /\ UNCHANGED <<gameVars, output, reader, queueVars, supVars, handle, written,
                   delivered>>

RequestKill ==
    /\ handle /\ stop # "Kill"
    /\ stop' = "Kill"
    /\ UNCHANGED <<gameVars, output, reader, queueVars, supVars, handle, written,
                   delivered>>

\* Dropping the handle discards both queues and requests a kill.
DropHandle ==
    /\ handle
    /\ handle' = FALSE /\ stop' = "Kill"
    /\ protocol' = <<>> /\ logs' = <<>>
    /\ UNCHANGED <<gameVars, output, reader, dropped, fatal, lost, supVars, written,
                   delivered>>

-----------------------------------------------------------------------------
(* supervise *)

Terminate ==
    /\ sup = "watch" /\ stop = "Terminate" /\ ~termed
    /\ termed' = TRUE
    /\ UNCHANGED <<gameVars, output, reader, queueVars, stop, forced, sup, report,
                   handle, written, delivered>>

\* Mutant: only a request kills; the grace period never ends.
KillDueOnRequest == stop = "Kill" \/ fatal

\* A request, a broken protocol, or the end of the grace period.
KillDue == stop = "Kill" \/ fatal \/ termed

SignalKill ==
    /\ sup = "watch" /\ ~forced /\ KillDue
    /\ forced' = TRUE
    /\ child' = IF child = "dead" THEN child ELSE "killed"
    /\ heirs' = IF heirs = "group" THEN "none" ELSE heirs
    /\ UNCHANGED <<output, reader, queueVars, stop, termed, sup, report, handle,
                   written, delivered>>

\* child.wait() returned; descendants in the group are killed.
Reap ==
    /\ sup = "watch" /\ child = "dead"
    /\ sup' = "drain"
    /\ heirs' = IF heirs = "group" THEN "none" ELSE heirs
    /\ UNCHANGED <<child, output, reader, queueVars, stop, forced, termed, report,
                   handle, written, delivered>>

\* OUTPUT_DRAIN_TIMEOUT: somebody still holds the pipes.
DrainTimeout ==
    /\ sup = "drain"
    /\ \E s \in Streams : reader[s] = "reading"
    /\ reader' = [s \in Streams |-> IF reader[s] = "reading" THEN "aborted" ELSE reader[s]]
    /\ UNCHANGED <<gameVars, output, queueVars, stop, supVars, handle, written, delivered>>

Drained == \A s \in Streams : reader[s] # "reading"

Complete ==
    /\ sup = "drain" /\ Drained
    /\ sup' = "done"
    /\ report' = [forced |-> forced \/ termed, error |-> fatal,
                  drained |-> \A s \in Streams : reader[s] = "ended"]
    /\ UNCHANGED <<gameVars, output, reader, queueVars, stop, forced, termed, handle,
                   written, delivered>>

-----------------------------------------------------------------------------

ReaderStep(s) == ReadRecord(s) \/ ReadEnd(s) \/ ReadFails(s)
SupervisorStep == Terminate \/ SignalKill \/ Reap \/ DrainTimeout \/ Complete
ProcessNext ==
    \/ \E s \in Streams : WriteOutput(s) \/ ReaderStep(s)
    \/ Fork \/ ChildEnds
    \/ NextEvent \/ Shutdown \/ RequestKill \/ DropHandle
    \/ SupervisorStep

ProcessSpec == ProcessInit /\ [][ProcessNext]_processVars

-----------------------------------------------------------------------------
(* Properties *)

CountOf(queue, s) == SumFunction([i \in DOMAIN queue |-> IF queue[i].stream = s THEN 1 ELSE 0])
QueuedOf(s) == CountOf(protocol, s) + CountOf(logs, s)

\* Whatever the consumer does, every record a game wrote is still unread,
\* queued, delivered or counted as dropped, and the queues stay within both
\* their limits: readers lose nothing silently and hoard nothing.
NoSilentLoss ==
    /\ handle => \A s \in Streams :
          written[s] = Len(output[s]) + QueuedOf(s) + delivered[s] + dropped[s]
    /\ Len(protocol) <= PROTOCOL_QUEUE_LINES
    /\ HeldBytes(logs) <= LOG_QUEUE_BYTES

\* The exit report is final: the game is reaped, nobody reads its pipes, a lost
\* control record is reported as a protocol error, and control output that is said to be
\* drained has left nothing behind.
ReportIsFinal ==
    sup = "done" =>
        /\ child = "dead" /\ \A s \in Streams : reader[s] # "reading"
        /\ lost => report.error
        /\ (report.drained /\ ~fatal) => \A s \in Streams \ {"Stderr"} : output[s] = <<>>

\* The game's output is accounted for while it runs and when its end is reported
\* (read_output, Output, supervise).
OutputIsAccounted == NoSilentLoss /\ ReportIsFinal

\* A game that was asked to stop, lost its handle or broke its protocol is
\* reaped and reported, whatever it does and whoever holds its pipes.
ProcessEnds == (stop # "Running" \/ fatal) ~> sup = "done"

=============================================================================
