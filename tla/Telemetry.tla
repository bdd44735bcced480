----------------------------- MODULE Telemetry -----------------------------
(***************************************************************************)
(* The OTLP log exporter (telemetry.rs): producers that never wait, the    *)
(* worker that owns the queue, and callers that wait for it.  A record is  *)
(* its sequence number and its encoded size.                               *)
(*                                                                         *)
(* Producer: sender    FALSE once the exporter is closed                   *)
(*           stats     the counters of ExportStats                         *)
(* Control:  through, closing    what flush and close asked for            *)
(*           late      the close deadline has passed                       *)
(* Worker:   queue, batch, spare (the `next` slot), sending                *)
(*           worker    "loop", "send", "stopped"                           *)
(*           flush, drained    its local flags (flush, closed)             *)
(*           progress  what it has told the waiters                        *)
(* Waiters:  waiter    per caller: what it waits for and how it ended      *)
(***************************************************************************)
EXTENDS Naturals, Sequences, SequencesExt

CONSTANTS
    Waiters,
    QUEUE_CAPACITY, QUEUE_BYTES,
    MAX_BATCH_RECORDS, MAX_BATCH_BYTES,   \* bytes net of the resource envelope
    MaxSubmissions, MaxRetries           \* bounds

\* LogExporter::new refuses any other configuration.
ASSUME ExportConfigAssumption ==
    /\ QUEUE_CAPACITY \in Nat \ {0} /\ QUEUE_BYTES \in Nat \ {0}
    /\ MAX_BATCH_RECORDS \in Nat \ {0} /\ MAX_BATCH_BYTES \in Nat \ {0}

VARIABLES sender, stats, submissions, through, closing, late,
          queue, batch, spare, sending, worker, attempts, flush, drained, progress, waiter

producerVars == <<sender, submissions>>
controlVars == <<through, closing, late>>
workerVars == <<queue, batch, spare, sending, worker, attempts, flush, drained, progress>>
telemetryVars == <<producerVars, stats, controlVars, workerVars, waiter>>

Outcomes == {"exported", "rejected", "failed", "timed_out", "shutdown_dropped"}
Refused == {"invalid", "too_large", "queue_full", "queue_bytes_full", "closed_dropped"}
Counters == {"accepted"} \union Outcomes \union Refused

NotWaiting == [state |-> "idle", target |-> 0]

TelemetryTypeOK ==
    /\ sender \in BOOLEAN /\ closing \in BOOLEAN /\ late \in BOOLEAN
    /\ stats.count \in [Counters -> 0 .. MaxSubmissions]
    /\ stats.records \in 0 .. QUEUE_CAPACITY /\ stats.bytes \in 0 .. QUEUE_BYTES
    /\ Len(batch) <= MAX_BATCH_RECORDS /\ Len(spare) <= 1
    /\ worker \in {"loop", "send", "stopped"} /\ flush \in BOOLEAN /\ drained \in BOOLEAN
    /\ \A w \in Waiters : waiter[w].state \in {"idle", "flush", "close", "settled",
                                               "unsettled", "timeout"}

TelemetryInit ==
    /\ sender = TRUE /\ submissions = 0
    /\ stats = [count |-> [c \in Counters |-> 0], records |-> 0, bytes |-> 0]
    /\ through = 0 /\ closing = FALSE /\ late = FALSE
    /\ queue = <<>> /\ batch = <<>> /\ spare = <<>> /\ sending = <<>>
    /\ worker = "loop" /\ attempts = 0 /\ flush = FALSE /\ drained = FALSE
    /\ progress = [completed |-> 0, stopped |-> FALSE]
    /\ waiter = [w \in Waiters |-> NotWaiting]

Bytes(records) == SumFunction([i \in DOMAIN records |-> records[i].bytes])
Bump(c, n) == [stats EXCEPT !.count[c] = @ + n]

-----------------------------------------------------------------------------
(* submit *)

\* What a LogEvent becomes: nothing (to_otlp refuses it), or so many bytes.
Unencodable == 0
Encodings == {Unencodable} \union 1 .. (MAX_BATCH_BYTES + 1)

\* The batch in the worker's hands still counts.
Full == stats.records >= QUEUE_CAPACITY

Submit(bytes) ==
    /\ submissions < MaxSubmissions
    /\ submissions' = submissions + 1
    /\ IF bytes = Unencodable THEN stats' = Bump("invalid", 1) /\ UNCHANGED queue
       ELSE IF ~sender THEN stats' = Bump("closed_dropped", 1) /\ UNCHANGED queue
       ELSE IF bytes > MAX_BATCH_BYTES THEN stats' = Bump("too_large", 1) /\ UNCHANGED queue
       ELSE IF Full THEN stats' = Bump("queue_full", 1) /\ UNCHANGED queue
       ELSE IF bytes > QUEUE_BYTES - stats.bytes
       THEN stats' = Bump("queue_bytes_full", 1) /\ UNCHANGED queue
       ELSE /\ queue' = Append(queue, [seq |-> stats.count["accepted"] + 1, bytes |-> bytes])
            /\ stats' = [Bump("accepted", 1) EXCEPT !.records = @ + 1, !.bytes = @ + bytes]
    /\ UNCHANGED <<sender, controlVars, batch, spare, sending, worker, attempts, flush,
                   drained, progress, waiter>>

-----------------------------------------------------------------------------
(* flush, close and their wait *)

Flush(w) ==
    /\ waiter[w].state = "idle"
    /\ waiter' = [waiter EXCEPT ![w] = [state |-> "flush", target |-> stats.count["accepted"]]]
    /\ through' = IF through < stats.count["accepted"] THEN stats.count["accepted"] ELSE through
    /\ UNCHANGED <<producerVars, stats, closing, late, workerVars>>

\* begin_close: only the first one sets the deadline.  Drop waits for nobody.
BeginClose(w) ==
    /\ waiter[w].state = "idle" /\ sender
    /\ sender' = FALSE /\ closing' = TRUE /\ through' = stats.count["accepted"]
    /\ \/ waiter' = [waiter EXCEPT ![w] = [state |-> "close",
                                           target |-> stats.count["accepted"]]]
       \/ waiter' = waiter
    /\ UNCHANGED <<submissions, stats, late, workerVars>>

CloseAgain(w) ==
    /\ waiter[w].state = "idle" /\ ~sender
    /\ waiter' = [waiter EXCEPT ![w] = [state |-> "close", target |-> stats.count["accepted"]]]
    /\ UNCHANGED <<producerVars, stats, controlVars, workerVars>>

\* Mutant: a flush has waited long enough once the channel is empty.
WaitedByQueue(w) ==
    \/ progress.stopped /\ waiter[w].state \in {"flush", "close"}
    \/ waiter[w].state = "flush" /\ queue = <<>>

Waited(w) ==
    \/ progress.stopped /\ waiter[w].state \in {"flush", "close"}
    \/ waiter[w].state = "flush" /\ progress.completed >= waiter[w].target

Return(w) ==
    /\ Waited(w)
    /\ waiter' = [waiter EXCEPT ![w].state =
          IF progress.completed >= waiter[w].target THEN "settled" ELSE "unsettled"]
    /\ UNCHANGED <<producerVars, stats, controlVars, workerVars>>

\* A flush timeout only ends the caller's wait; a close has no timeout of its own.
FlushTimeout(w) ==
    /\ waiter[w].state = "flush"
    /\ waiter' = [waiter EXCEPT ![w].state = "timeout"]
    /\ UNCHANGED <<producerVars, stats, controlVars, workerVars>>

CloseDeadline ==
    /\ closing /\ ~late
    /\ late' = TRUE
    /\ UNCHANGED <<producerVars, stats, through, closing, workerVars, waiter>>

-----------------------------------------------------------------------------
(* export_worker: one iteration of its loop per step *)

\* Mutant: a flush waits until a batch is full or the interval ticks.
SendDueUnasked == flush \/ drained \/ Len(batch) >= MAX_BATCH_RECORDS

SendDue ==
    \/ flush \/ drained \/ Len(batch) >= MAX_BATCH_RECORDS
    \/ through > progress.completed /\ Last(batch).seq >= through

Looping == worker = "loop" /\ ~late

BeginSend ==
    /\ Looping /\ batch # <<>> /\ SendDue
    /\ sending' = batch /\ batch' = <<>>
    /\ worker' = "send" /\ attempts' = 0
    /\ UNCHANGED <<producerVars, stats, controlVars, queue, spare, flush, drained, progress,
                   waiter>>

Waiting == Looping /\ ~(batch # <<>> /\ SendDue) /\ ~(drained /\ batch = <<>>)

TakeSpare ==
    /\ Waiting /\ spare # <<>>
    /\ batch' = batch \o spare /\ spare' = <<>>
    /\ UNCHANGED <<producerVars, stats, controlVars, queue, sending, worker, attempts, flush,
                   drained, progress, waiter>>

\* A record that would exceed the limit of the batch waits in the spare slot.
TakeQueued ==
    /\ Waiting /\ spare = <<>> /\ ~drained /\ queue # <<>>
    /\ queue' = Tail(queue)
    /\ IF Bytes(batch) + Head(queue).bytes > MAX_BATCH_BYTES
       THEN spare' = <<Head(queue)>> /\ flush' = TRUE /\ UNCHANGED batch
       ELSE batch' = Append(batch, Head(queue)) /\ UNCHANGED <<spare, flush>>
    /\ UNCHANGED <<producerVars, stats, controlVars, sending, worker, attempts, drained,
                   progress, waiter>>

\* recv() returned None: the sender is gone and the queue is empty.
SeeClosed ==
    /\ Waiting /\ spare = <<>> /\ ~drained /\ queue = <<>> /\ ~sender
    /\ drained' = TRUE
    /\ UNCHANGED <<producerVars, stats, controlVars, queue, batch, spare, sending, worker,
                   attempts, flush, progress, waiter>>

Tick ==
    /\ Waiting /\ spare = <<>>
    /\ flush' = (batch # <<>>)
    /\ UNCHANGED <<producerVars, stats, controlVars, queue, batch, spare, sending, worker,
                   attempts, drained, progress, waiter>>

\* Nothing more to send, or the deadline: what remains is dropped and counted.
Stop ==
    /\ \/ worker = "loop" /\ late
       \/ Looping /\ drained /\ batch = <<>>
    /\ worker' = "stopped"
    /\ stats' = [Bump("shutdown_dropped", stats.records) EXCEPT !.records = 0, !.bytes = 0]
    /\ queue' = <<>> /\ batch' = <<>> /\ spare' = <<>>
    /\ progress' = [completed |-> stats.count["accepted"], stopped |-> TRUE]
    /\ UNCHANGED <<producerVars, controlVars, sending, attempts, flush, drained, waiter>>

-----------------------------------------------------------------------------
(* send_batch and retry_batch *)

Settle(counts) ==
    /\ stats' = [stats EXCEPT !.count = counts, !.records = @ - Len(sending),
                              !.bytes = @ - Bytes(sending)]
    /\ progress' = [completed |-> Last(sending).seq, stopped |-> FALSE]
    /\ sending' = <<>> /\ worker' = "loop" /\ attempts' = 0 /\ flush' = FALSE
    /\ UNCHANGED <<producerVars, controlVars, queue, batch, spare, drained, waiter>>

\* A collector may claim to have rejected more than it was sent.
RejectedInRange(rejected) == rejected <= Len(sending)

Respond(rejected) ==
    /\ worker = "send" /\ ~late
    /\ IF RejectedInRange(rejected)
       THEN Settle([stats.count EXCEPT !["exported"] = @ + Len(sending) - rejected,
                                       !["rejected"] = @ + rejected])
       ELSE Settle([stats.count EXCEPT !["failed"] = @ + Len(sending)])

Refuse ==
    /\ worker = "send" /\ ~late
    /\ Settle([stats.count EXCEPT !["failed"] = @ + Len(sending)])

\* A temporary error is retried within the budget of the batch.
Retry ==
    /\ worker = "send" /\ ~late /\ attempts < MaxRetries
    /\ attempts' = attempts + 1
    /\ UNCHANGED <<producerVars, stats, controlVars, queue, batch, spare, sending, worker,
                   flush, drained, progress, waiter>>

\* export_timeout, or the close deadline if it comes first.
ExportTimeout ==
    /\ worker = "send"
    /\ Settle([stats.count EXCEPT !["timed_out"] = @ + Len(sending)])

-----------------------------------------------------------------------------

WorkerLoop == BeginSend \/ TakeSpare \/ TakeQueued \/ SeeClosed \/ Stop
SendStep == ExportTimeout \/ Refuse \/ Retry
            \/ \E rejected \in 0 .. MAX_BATCH_RECORDS + 1 : Respond(rejected)
TelemetryNext ==
    \/ \E bytes \in Encodings : Submit(bytes)
    \/ \E w \in Waiters : Flush(w) \/ BeginClose(w) \/ CloseAgain(w) \/ Return(w)
                          \/ FlushTimeout(w)
    \/ CloseDeadline \/ WorkerLoop \/ Tick \/ SendStep

TelemetrySpec == TelemetryInit /\ [][TelemetryNext]_telemetryVars

-----------------------------------------------------------------------------
(* Properties *)

Held == queue \o batch \o spare \o sending

\* Every accepted record is settled exactly once: it is in the worker's hands, or
\* counted as exported, rejected, failed, timed out or dropped at shutdown, and what
\* is in its hands stays within both limits of the queue, whatever the collector
\* answers and whenever the exporter is closed.
AcceptedIsCounted ==
    /\ stats.records = Len(Held) /\ stats.bytes = Bytes(Held)
    /\ stats.count["accepted"] = Len(Held) + SumFunctionOnSet(stats.count, Outcomes)
    /\ submissions = stats.count["accepted"] + SumFunctionOnSet(stats.count, Refused)
    /\ Len(Held) <= QUEUE_CAPACITY /\ Bytes(Held) <= QUEUE_BYTES

\* A flush or close that returned has settled every record accepted before it was
\* called, although records are batched, spared and submitted while it waits; none is
\* told that the worker left records behind.
WaitersAreTold ==
    \A w \in Waiters :
        /\ waiter[w].state # "unsettled"
        /\ waiter[w].state = "settled" => \A i \in DOMAIN Held : Held[i].seq > waiter[w].target

\* The exporter's books are right and those who wait are told the truth (submit,
\* export_worker, flush, close).
ExportsAreAccounted == AcceptedIsCounted /\ WaitersAreTold

\* A flush settles what was accepted before it without waiting for the interval,
\* and a closed exporter stops, although the collector may never answer.
ExporterSettles ==
    (through > progress.completed \/ closing) ~>
        /\ progress.completed >= through
        /\ closing => progress.stopped /\ \A w \in Waiters : waiter[w].state # "close"

=============================================================================
