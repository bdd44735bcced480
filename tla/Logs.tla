-------------------------------- MODULE Logs --------------------------------
(***************************************************************************)
(* Log queries (logs.rs): each runs an external reader (journalctl or the  *)
(* Netdata plugin) as a supervised child whose output is bounded, and a    *)
(* client that pages through the journal by cursor.                        *)
(*                                                                         *)
(* query   per query: pc, its result, the records it got                   *)
(* task    the supervisor of its child; it holds the concurrency permit    *)
(* tool    the child: "none", "up", "exited" (not reaped), "reaped"        *)
(* pipe    lines the child wrote and the task has not read; line: those    *)
(*         queued for the query; wrote: how many lines were written        *)
(* pages   the paging client; first, last: the entries the journal retains *)
(***************************************************************************)
EXTENDS Naturals, Sequences, FiniteSets, SequencesExt

CONSTANTS
    Queries,
    MaxConcurrency,         \* permits of NetdataLogs
    Limit,                  \* records of a query, and of a page
    MaxLines, MaxEntries    \* bounds: lines of all children, entries ever logged

ASSUME LogsAssumption ==
    /\ IsFiniteSet(Queries) /\ MaxConcurrency \in Nat \ {0} /\ Limit \in Nat \ {0}
    /\ MaxLines \in Nat /\ MaxEntries \in Nat

VARIABLES query, task, tool, pipe, line, wrote, first, last, pages

readerVars == <<query, task, tool, pipe, line, wrote>>
journalVars == <<first, last, pages>>
logsVars == <<readerVars, journalVars>>

\* exit "held": a process outside the group of the child keeps its pipes open.
NoTool == [state |-> "none", exit |-> "none"]

LogsTypeOK ==
    /\ \A q \in Queries :
        /\ query[q].pc \in {"idle", "slot", "run", "closing", "done"}
        /\ query[q].result \in {"none", "ok", "error", "interrupted", "dropped"}
        /\ task[q].state \in {"none", "reading", "stopping", "done"}
        /\ tool[q].state \in {"none", "up", "exited", "reaped"}
        /\ line[q] \in 0 .. 1 /\ wrote[q] \in 0 .. MaxLines
    /\ first \in 1 .. MaxEntries + 1 /\ last \in 0 .. MaxEntries

LogsInit ==
    /\ query = [q \in Queries |-> [pc |-> "idle", result |-> "none", got |-> 0]]
    /\ task = [q \in Queries |-> [state |-> "none", stop |-> FALSE, failed |-> FALSE]]
    /\ tool = [q \in Queries |-> NoTool]
    /\ pipe = [q \in Queries |-> 0] /\ line = [q \in Queries |-> 0]
    /\ wrote = [q \in Queries |-> 0]
    /\ first = 1 /\ last = 0
    /\ pages = [cursor |-> 0, from |-> 0, seen |-> 0, more |-> TRUE, end |-> 0, failed |-> FALSE]

-----------------------------------------------------------------------------
(* query_cancellable *)

\* Validation of the request and of the window precedes the wait for a slot.
StartQuery(q) ==
    /\ query[q].pc = "idle"
    /\ \/ query' = [query EXCEPT ![q].pc = "slot"]
       \/ query' = [query EXCEPT ![q].pc = "done", ![q].result = "error"]
    /\ UNCHANGED <<task, tool, pipe, line, wrote, journalVars>>

\* The permit moves into the supervisor and is held until it ends.
SlotsUsed == {q \in Queries : task[q].state \in {"reading", "stopping"}}

Spawn(q) ==
    /\ query[q].pc = "slot" /\ Cardinality(SlotsUsed) < MaxConcurrency
    /\ \/ /\ query' = [query EXCEPT ![q].pc = "run"]
          /\ task' = [task EXCEPT ![q].state = "reading"]
          /\ tool' = [tool EXCEPT ![q].state = "up"]
       \/ /\ query' = [query EXCEPT ![q].pc = "done", ![q].result = "error"]
          /\ UNCHANGED <<task, tool>>
    /\ UNCHANGED <<pipe, line, wrote, journalVars>>

\* Waiting for a slot ends by the deadline, by cancellation or by a dropped future.
GiveUpSlot(q) ==
    /\ query[q].pc = "slot"
    /\ \E r \in {"interrupted", "dropped"} :
          query' = [query EXCEPT ![q].pc = "done", ![q].result = r]
    /\ UNCHANGED <<task, tool, pipe, line, wrote, journalVars>>

\* close(): stop is requested, then the queue of lines is closed.
CloseOutput(q, r) ==
    /\ query' = [query EXCEPT ![q].pc = "closing", ![q].result = r]
    /\ task' = [task EXCEPT ![q].stop = TRUE]
    /\ line' = [line EXCEPT ![q] = 0]
    /\ UNCHANGED <<tool, pipe, wrote, journalVars>>

\* A record too many, or one that does not parse, fails the query.
NextRecord(q) ==
    /\ query[q].pc = "run" /\ line[q] = 1
    /\ \/ CloseOutput(q, "error")
       \/ /\ query[q].got < Limit
          /\ query' = [query EXCEPT ![q].got = @ + 1]
          /\ line' = [line EXCEPT ![q] = 0]
          /\ UNCHANGED <<task, tool, pipe, wrote, journalVars>>

\* The supervisor's verdict, then the summary of the diagnostics (matched_count).
EndOfOutput(q) ==
    /\ query[q].pc = "run" /\ line[q] = 0 /\ task[q].state = "done"
    /\ \/ CloseOutput(q, IF task[q].failed THEN "error" ELSE "ok")
       \/ CloseOutput(q, "error")

\* The completion deadline, or the caller's cancellation.
Interrupt(q) == query[q].pc = "run" /\ CloseOutput(q, "interrupted")

\* close().await returns once the supervisor has reaped the child.
Closed(q) ==
    /\ query[q].pc = "closing" /\ task[q].state = "done"
    /\ query' = [query EXCEPT ![q].pc = "done"]
    /\ UNCHANGED <<task, tool, pipe, line, wrote, journalVars>>

DropQuery(q) ==
    /\ query[q].pc \in {"run", "closing"}
    /\ query' = [query EXCEPT ![q].pc = "done", ![q].result = "dropped"]
    /\ task' = [task EXCEPT ![q].stop = TRUE]
    /\ line' = [line EXCEPT ![q] = 0]
    /\ UNCHANGED <<tool, pipe, wrote, journalVars>>

-----------------------------------------------------------------------------
(* The external reader, and LogOutput's task *)

ToolWrites(q) ==
    /\ tool[q].state = "up" /\ SumFunction(wrote) < MaxLines
    /\ pipe' = [pipe EXCEPT ![q] = @ + 1]
    /\ wrote' = [wrote EXCEPT ![q] = @ + 1]
    /\ UNCHANGED <<query, task, tool, line, journalVars>>

\* By itself, or by a SIGTERM it obeys.
ToolExits(q) ==
    /\ tool[q].state = "up"
    /\ \E exit \in {"clean", "failed", "held"}
                  \union (IF task[q].state = "stopping" THEN {"killed"} ELSE {}) :
          tool' = [tool EXCEPT ![q] = [state |-> "exited", exit |-> exit]]
    /\ UNCHANGED <<query, task, pipe, line, wrote, journalVars>>

\* One queued line and one pending send: the task waits for the query.  A line or
\* an output beyond its byte limit fails the reader.
ReadLine(q) ==
    /\ task[q].state = "reading" /\ ~task[q].stop /\ pipe[q] > 0 /\ line[q] = 0
    /\ pipe' = [pipe EXCEPT ![q] = @ - 1]
    /\ \/ /\ task' = [task EXCEPT ![q].state = "stopping", ![q].failed = TRUE]
          /\ UNCHANGED line
       \/ line' = [line EXCEPT ![q] = 1] /\ UNCHANGED task
    /\ UNCHANGED <<query, tool, wrote, journalVars>>

ReapTool(q) ==
    /\ task[q].state \in {"reading", "stopping"} /\ tool[q].state = "exited"
    /\ tool' = [tool EXCEPT ![q].state = "reaped"]
    /\ UNCHANGED <<query, task, pipe, line, wrote, journalVars>>

\* Mutant: the exit of the child ends the output.
OutputEndedAtExit(q) == tool[q].state = "reaped"

OutputEnded(q) == tool[q].state = "reaped" /\ pipe[q] = 0 /\ tool[q].exit # "held"

FinishReading(q) ==
    /\ task[q].state = "reading" /\ ~task[q].stop /\ OutputEnded(q)
    /\ task' = [task EXCEPT ![q].state = "done", ![q].failed = (tool[q].exit = "failed")]
    /\ UNCHANGED <<query, tool, pipe, line, wrote, journalVars>>

\* The stop request is polled first.
SeeStop(q) ==
    /\ task[q].state = "reading" /\ task[q].stop
    /\ task' = [task EXCEPT ![q].state = "stopping"]
    /\ UNCHANGED <<query, tool, pipe, line, wrote, journalVars>>

\* Mutant: SIGTERM is all a child is sent.
ToolKillDueNever(q) == FALSE

\* SIGTERM, and after CLOSE_TIMEOUT a SIGKILL.
ToolKillDue(q) == task[q].state = "stopping"

KillTool(q) ==
    /\ ToolKillDue(q) /\ tool[q].state = "up"
    /\ \E exit \in {"killed", "held"} :
          tool' = [tool EXCEPT ![q] = [state |-> "exited", exit |-> exit]]
    /\ UNCHANGED <<query, task, pipe, line, wrote, journalVars>>

\* What is left in the pipes is discarded; held pipes are given up after a while.
FinishStopping(q) ==
    /\ task[q].state = "stopping" /\ tool[q].state = "reaped"
    /\ task' = [task EXCEPT ![q].state = "done",
                            ![q].failed = @ \/ tool[q].exit \in {"held", "failed"}]
    /\ pipe' = [pipe EXCEPT ![q] = 0]
    /\ UNCHANGED <<query, tool, line, wrote, journalVars>>

-----------------------------------------------------------------------------
(* Paging: JournalLogs::command, query and JournalStream.next_record *)

LogEntry ==
    /\ last < MaxEntries
    /\ last' = last + 1
    /\ UNCHANGED <<readerVars, first, pages>>

\* The journal rotates away its oldest entries.
Vacuum ==
    /\ first <= last
    /\ first' = first + 1
    /\ UNCHANGED <<readerVars, last, pages>>

\* --lines: the page, one more to see if there is more, and the anchor.
Lines == Limit + 1 + (IF pages.cursor = 0 THEN 0 ELSE 1)

\* journalctl starts at the cursor's entry, or at the next one that is retained.
Entries ==
    LET start == IF first < pages.cursor THEN pages.cursor ELSE first
        stop == IF start + Lines - 1 < last THEN start + Lines - 1 ELSE last
    IN [i \in 1 .. (IF stop < start THEN 0 ELSE stop - start + 1) |-> start + i - 1]

\* A forward page; the first line must be the anchor the client asked for.
Page ==
    /\ ~pages.failed
    /\ IF pages.cursor # 0 /\ (Entries = <<>> \/ Head(Entries) # pages.cursor)
       THEN pages' = [pages EXCEPT !.failed = TRUE]
       ELSE LET found == IF pages.cursor = 0 THEN Entries ELSE Tail(Entries)
                kept == IF Len(found) < Limit THEN Len(found) ELSE Limit
            IN pages' = [pages EXCEPT
                  !.from = IF @ = 0 /\ kept > 0 THEN found[1] ELSE @,
                  !.cursor = IF kept = 0 THEN @ ELSE found[kept],
                  !.seen = @ + kept,
                  !.more = Len(found) > Limit, !.end = last]
    /\ UNCHANGED <<readerVars, first, last>>

-----------------------------------------------------------------------------

QueryStep(q) == StartQuery(q) \/ Spawn(q) \/ GiveUpSlot(q) \/ NextRecord(q) \/ EndOfOutput(q)
                \/ Interrupt(q) \/ Closed(q) \/ DropQuery(q)
TaskStep(q) == ReadLine(q) \/ ReapTool(q) \/ FinishReading(q) \/ SeeStop(q) \/ KillTool(q)
               \/ FinishStopping(q)
LogsNext ==
    \/ \E q \in Queries : QueryStep(q) \/ ToolWrites(q) \/ ToolExits(q) \/ TaskStep(q)
    \/ LogEntry \/ Vacuum \/ Page

LogsSpec == LogsInit /\ [][LogsNext]_logsVars

-----------------------------------------------------------------------------
(* Properties *)

\* However queries are cancelled, dropped or time out, no more readers run at a
\* time than there are permits, and a query that has returned has its child reaped.
ReadersAreBounded ==
    /\ Cardinality({q \in Queries : tool[q].state \in {"up", "exited"}}) <= MaxConcurrency
    /\ \A q \in Queries : (query[q].pc = "done" /\ query[q].result # "dropped") =>
          tool[q].state \in {"none", "reaped"}

\* A query that succeeds returns every line its reader wrote, within the limit,
\* and its reader had succeeded; a partial answer is always an error.
AnswersAreWhole ==
    \A q \in Queries :
        (query[q].pc = "done" /\ query[q].result = "ok") =>
            /\ query[q].got = wrote[q] /\ query[q].got <= Limit
            /\ tool[q].exit = "clean"

\* Pages chained by their cursor neither skip nor repeat an entry while the
\* journal grows and rotates, and a page says truly whether it was the last.
PagesAreContiguous ==
    ~pages.failed =>
        /\ pages.seen > 0 => pages.cursor = pages.from + pages.seen - 1
        /\ pages.end > 0 => (pages.more <=> pages.cursor < pages.end /\ pages.seen > 0)

\* Answers, pages and the number of readers (LogOutput, query_cancellable,
\* JournalLogs).
QueriesAreSound == AnswersAreWhole /\ PagesAreContiguous /\ ReadersAreBounded

\* Every query ends and every supervisor reaps its child and returns its permit.
QueriesEnd ==
    (\E q \in Queries : query[q].pc # "idle") ~>
        (\A q \in Queries : /\ query[q].pc \in {"idle", "done"}
                            /\ tool[q].state # "none" => task[q].state = "done")

=============================================================================
