--------------------------- MODULE ServicesProofs ---------------------------
(***************************************************************************)
(* Theorems about the services around a room, for every value of the       *)
(* constants: log readers (Logs), the exporter (Telemetry), game output    *)
(* (Process) and the downloader (Mods).                                    *)
(*                                                                         *)
(* Logs: as long as a query reads, every line of its child is in the pipe, *)
(* queued or returned, and a supervisor that ends without a failure has    *)
(* emptied the pipe of a child that ended by itself.  For the pages:       *)
(* journalctl starts at the cursor's entry or behind it, and the anchor    *)
(* tells the two apart.                                                    *)
(* Telemetry: what the exporter holds is one row of records, numbered      *)
(* without a gap behind those completed; its length and its bytes are the  *)
(* counters.                                                               *)
(* Process: every record written is in its pipe, queued, delivered         *)
(* or counted as dropped, as long as somebody holds the process.           *)
(* Mods: a failure that the updater wrote was heard, is on its way, or the *)
(* output is known to be incomplete.                                       *)
(***************************************************************************)
EXTENDS Mods, Telemetry, Logs, Folding

-----------------------------------------------------------------------------
(* Log queries and journal pages *)

Query == [pc : {"idle", "slot", "run", "closing", "done"},
          result : {"none", "ok", "error", "interrupted", "dropped"}, got : Nat]
Task == [state : {"none", "reading", "stopping", "done"}, stop : BOOLEAN, failed : BOOLEAN]
Tool == [state : {"none", "up", "exited", "reaped"},
         exit : {"none", "clean", "failed", "held", "killed"}]

ReaderTypes ==
    /\ query \in [Queries -> Query] /\ task \in [Queries -> Task]
    /\ tool \in [Queries -> Tool]
    /\ pipe \in [Queries -> Nat] /\ line \in [Queries -> Nat] /\ wrote \in [Queries -> Nat]

\* The permit of a child is with its supervisor until the child is reaped.
Supervised(t, u) ==
    /\ u.state = "none" <=> t.state = "none"
    /\ u.state \in {"up", "exited"} => t.state \in {"reading", "stopping"}
    /\ u.exit = "none" <=> u.state \in {"none", "up"}
    /\ u.exit = "killed" => t.state # "reading"

\* Who started the child, and who stops it.
Driven(x, t) ==
    /\ x.pc \in {"idle", "slot"} => t.state = "none" /\ x.got = 0
    /\ t.state = "none" => ~t.stop
    /\ x.pc \in {"run", "closing"} => t.state # "none"
    /\ x.pc = "run" => ~t.stop
    /\ x.pc = "run" /\ t.state = "stopping" => t.failed
    /\ x.pc = "done" /\ x.result # "dropped" => t.state \in {"none", "done"}

\* No line is lost on the way of a query that goes on, or that succeeded.
LinesKept(x, t, u, p, l, w) ==
    /\ x.got <= Limit
    /\ t.state = "none" => p = 0 /\ l = 0 /\ w = 0
    /\ x.pc = "run" /\ t.state = "reading" => x.got + l + p = w
    /\ x.pc = "run" /\ t.state = "done" /\ ~t.failed => x.got + l = w /\ u.exit = "clean"
    /\ x.result = "ok" => /\ x.pc \in {"closing", "done"} /\ t.state = "done"
                          /\ x.got = w /\ u.exit = "clean"

OneQuery(x, t, u, p, l, w) == Supervised(t, u) /\ Driven(x, t) /\ LinesKept(x, t, u, p, l, w)

ReaderInv ==
    /\ ReaderTypes
    /\ \A q \in Queries : OneQuery(query[q], task[q], tool[q], pipe[q], line[q], wrote[q])
    /\ Cardinality(SlotsUsed) <= MaxConcurrency

LEMMA ReaderInit == LogsInit => ReaderInv
<1> SUFFICES ASSUME LogsInit PROVE ReaderInv
  OBVIOUS
<1>1. ReaderTypes
  BY DEF LogsInit, ReaderTypes, Query, Task, Tool, NoTool
<1>2. ASSUME NEW q \in Queries
      PROVE  OneQuery(query[q], task[q], tool[q], pipe[q], line[q], wrote[q])
  BY LogsAssumption DEF LogsInit, NoTool, OneQuery, Supervised, Driven, LinesKept
<1>3. SlotsUsed = {}
  BY DEF SlotsUsed, LogsInit
<1>4. Cardinality(SlotsUsed) <= MaxConcurrency
  BY <1>3, FS_EmptySet, LogsAssumption
<1> QED
  BY <1>1, <1>2, <1>4 DEF ReaderInv

\* Nothing of another query changes.
OnlyMoves(q) ==
    \A r \in Queries \ {q} :
        /\ query'[r] = query[r] /\ task'[r] = task[r] /\ tool'[r] = tool[r]
        /\ pipe'[r] = pipe[r] /\ line'[r] = line[r] /\ wrote'[r] = wrote[r]

\* One query, its supervisor and its child move; a supervisor starts within the permits.
LEMMA QueryMoves ==
    ASSUME ReaderInv, NEW q \in Queries, ReaderTypes', OnlyMoves(q),
           OneQuery(query'[q], task'[q], tool'[q], pipe'[q], line'[q], wrote'[q]),
           task'[q].state \in {"reading", "stopping"} =>
               \/ task[q].state \in {"reading", "stopping"}
               \/ Cardinality(SlotsUsed) < MaxConcurrency
    PROVE  ReaderInv'
<1>1. \A r \in Queries \ {q} : task'[r] = task[r]
  BY DEF OnlyMoves
<1>2. ASSUME NEW r \in Queries
      PROVE  OneQuery(query'[r], task'[r], tool'[r], pipe'[r], line'[r], wrote'[r])
  <2>1. CASE r = q
    BY <2>1
  <2>2. CASE r # q
    <3>1. /\ query'[r] = query[r] /\ task'[r] = task[r] /\ tool'[r] = tool[r]
          /\ pipe'[r] = pipe[r] /\ line'[r] = line[r] /\ wrote'[r] = wrote[r]
      BY <2>2 DEF OnlyMoves
    <3>2. OneQuery(query[r], task[r], tool[r], pipe[r], line[r], wrote[r])
      BY DEF ReaderInv
    <3> QED
      BY <3>1, <3>2
  <2> QED
    BY <2>1, <2>2
<1>3. Cardinality(SlotsUsed') <= MaxConcurrency
  <2>1. IsFiniteSet(SlotsUsed)
    BY LogsAssumption, FS_Subset DEF SlotsUsed
  <2>2. SlotsUsed' \subseteq SlotsUsed \union {q}
    BY <1>1 DEF SlotsUsed
  <2>3. /\ IsFiniteSet(SlotsUsed \union {q})
        /\ Cardinality(SlotsUsed) \in Nat /\ Cardinality(SlotsUsed \union {q}) \in Nat
    BY <2>1, FS_AddElement, FS_CardinalityType
  <2>4. /\ Cardinality(SlotsUsed') \in Nat
        /\ Cardinality(SlotsUsed') <= Cardinality(SlotsUsed \union {q})
    BY <2>2, <2>3, FS_Subset, FS_CardinalityType
  <2>5. CASE task'[q].state \in {"reading", "stopping"} => task[q].state \in {"reading", "stopping"}
    <3>1. SlotsUsed' \subseteq SlotsUsed
      BY <1>1, <2>5 DEF SlotsUsed
    <3>2. Cardinality(SlotsUsed') <= Cardinality(SlotsUsed)
      BY <2>1, <3>1, FS_Subset
    <3> QED
      BY <2>3, <2>4, <3>2, LogsAssumption DEF ReaderInv
  <2>6. CASE Cardinality(SlotsUsed) < MaxConcurrency
    <3>1. Cardinality(SlotsUsed \union {q}) <= Cardinality(SlotsUsed) + 1
      BY <2>1, <2>3, FS_AddElement
    <3> QED
      BY <2>3, <2>4, <2>6, <3>1, LogsAssumption
  <2> QED
    BY <2>5, <2>6
<1> QED
  BY <1>2, <1>3 DEF ReaderInv

\* What the invariant says of one query.
LEMMA OfQuery ==
    ASSUME ReaderInv, NEW q \in Queries
    PROVE  /\ query[q] \in Query /\ task[q] \in Task /\ tool[q] \in Tool
           /\ pipe[q] \in Nat /\ line[q] \in Nat /\ wrote[q] \in Nat
           /\ OneQuery(query[q], task[q], tool[q], pipe[q], line[q], wrote[q])
BY DEF ReaderInv, ReaderTypes

-----------------------------------------------------------------------------
(* query_cancellable *)

\* Only the record of the query changes, to x.
LEMMA QueryAlone ==
    ASSUME ReaderInv, NEW q \in Queries, NEW x \in Query,
           query' = [query EXCEPT ![q] = x], UNCHANGED <<task, tool, pipe, line, wrote>>,
           OneQuery(x, task[q], tool[q], pipe[q], line[q], wrote[q])
    PROVE  ReaderInv'
<1>1. query'[q] = x /\ ReaderTypes' /\ OnlyMoves(q)
  BY DEF ReaderInv, ReaderTypes, OnlyMoves
<1> QED
  BY <1>1, QueryMoves

\* A query that never had a child, or whose child is reaped, is over.
LEMMA QueryOver ==
    ASSUME ReaderInv, NEW q \in Queries,
           \/ query[q].pc \in {"idle", "slot"}
           \/ query[q].pc = "closing" /\ task[q].state = "done",
           NEW r, r = query[q].result \/ r \in {"error", "interrupted", "dropped"},
           query' = [query EXCEPT ![q].pc = "done", ![q].result = r],
           UNCHANGED <<task, tool, pipe, line, wrote>>
    PROVE  ReaderInv'
<1>1. OneQuery(query[q], task[q], tool[q], pipe[q], line[q], wrote[q]) /\ query[q] \in Query
  BY OfQuery
<1>2. PICK x : x = [query[q] EXCEPT !.pc = "done", !.result = r]
  OBVIOUS
<1>3. /\ x \in Query /\ x.pc = "done" /\ x.got = query[q].got
      /\ x.result = query[q].result \/ x.result # "ok"
  BY <1>1, <1>2 DEF Query
<1>4. query' = [query EXCEPT ![q] = x]
  BY <1>2 DEF ReaderInv, ReaderTypes
<1>5. OneQuery(x, task[q], tool[q], pipe[q], line[q], wrote[q])
  BY <1>1, <1>3 DEF OneQuery, Driven, LinesKept
<1> QED
  BY <1>3, <1>4, <1>5, QueryAlone

LEMMA StartQueryKeeps ==
    ASSUME ReaderInv, NEW q \in Queries, StartQuery(q) PROVE ReaderInv'
<1>1. query[q].pc = "idle" /\ UNCHANGED <<task, tool, pipe, line, wrote>>
  BY DEF StartQuery
<1>2. CASE query' = [query EXCEPT ![q].pc = "slot"]
  <2>1. OneQuery(query[q], task[q], tool[q], pipe[q], line[q], wrote[q]) /\ query[q] \in Query
    BY OfQuery
  <2>2. PICK x : x = [query[q] EXCEPT !.pc = "slot"]
    OBVIOUS
  <2>3. x \in Query /\ x.pc = "slot" /\ x.got = query[q].got /\ x.result = query[q].result
    BY <2>1, <2>2 DEF Query
  <2>4. query' = [query EXCEPT ![q] = x]
    BY <1>2, <2>2 DEF ReaderInv, ReaderTypes
  <2>5. OneQuery(x, task[q], tool[q], pipe[q], line[q], wrote[q])
    BY <1>1, <2>1, <2>3 DEF OneQuery, Driven, LinesKept
  <2> QED
    BY <1>1, <2>3, <2>4, <2>5, QueryAlone
<1>3. CASE query' = [query EXCEPT ![q].pc = "done", ![q].result = "error"]
  BY <1>1, <1>3, QueryOver
<1> QED
  BY <1>2, <1>3 DEF StartQuery

LEMMA SpawnKeeps ==
    ASSUME ReaderInv, NEW q \in Queries, Spawn(q) PROVE ReaderInv'
<1>1. /\ query[q].pc = "slot" /\ UNCHANGED <<pipe, line, wrote>>
      /\ Cardinality(SlotsUsed) < MaxConcurrency
  BY DEF Spawn
<1>2. CASE /\ query' = [query EXCEPT ![q].pc = "run"]
           /\ task' = [task EXCEPT ![q].state = "reading"]
           /\ tool' = [tool EXCEPT ![q].state = "up"]
  <2>1. /\ OneQuery(query[q], task[q], tool[q], pipe[q], line[q], wrote[q])
        /\ query[q] \in Query /\ task[q] \in Task /\ tool[q] \in Tool
    BY OfQuery
  <2>2. PICK x : x = [query[q] EXCEPT !.pc = "run"]
    OBVIOUS
  <2>3. x \in Query /\ x.pc = "run" /\ x.got = query[q].got /\ x.result = query[q].result
    BY <2>1, <2>2 DEF Query
  <2>4. PICK t : t = [task[q] EXCEPT !.state = "reading"]
    OBVIOUS
  <2>5. t \in Task /\ t.state = "reading" /\ t.stop = task[q].stop
    BY <2>1, <2>4 DEF Task
  <2>6. PICK u : u = [tool[q] EXCEPT !.state = "up"]
    OBVIOUS
  <2>7. u \in Tool /\ u.state = "up" /\ u.exit = tool[q].exit
    BY <2>1, <2>6 DEF Tool
  <2>8. /\ query' = [query EXCEPT ![q] = x] /\ task' = [task EXCEPT ![q] = t]
        /\ tool' = [tool EXCEPT ![q] = u]
    BY <1>2, <2>2, <2>4, <2>6 DEF ReaderInv, ReaderTypes
  <2>9. Supervised(t, u) /\ Driven(x, t)
    BY <1>1, <2>1, <2>3, <2>5, <2>7 DEF OneQuery, Supervised, Driven
  <2>10. LinesKept(x, t, u, pipe[q], line[q], wrote[q])
    BY <1>1, <2>1, <2>3, <2>5, <2>7 DEF OneQuery, Driven, LinesKept
  <2>11. query'[q] = x /\ task'[q] = t /\ tool'[q] = u /\ ReaderTypes' /\ OnlyMoves(q)
    BY <1>1, <2>3, <2>5, <2>7, <2>8 DEF ReaderInv, ReaderTypes, OnlyMoves
  <2>12. OneQuery(query'[q], task'[q], tool'[q], pipe'[q], line'[q], wrote'[q])
    BY <1>1, <2>9, <2>10, <2>11 DEF OneQuery
  <2> QED
    BY <1>1, <2>11, <2>12, QueryMoves
<1>3. CASE /\ query' = [query EXCEPT ![q].pc = "done", ![q].result = "error"]
           /\ UNCHANGED <<task, tool>>
  BY <1>1, <1>3, QueryOver
<1> QED
  BY <1>2, <1>3 DEF Spawn

LEMMA GiveUpSlotKeeps ==
    ASSUME ReaderInv, NEW q \in Queries, GiveUpSlot(q) PROVE ReaderInv'
<1>1. PICK r \in {"interrupted", "dropped"} :
        query' = [query EXCEPT ![q].pc = "done", ![q].result = r]
  BY DEF GiveUpSlot
<1> QED
  BY <1>1, QueryOver DEF GiveUpSlot

\* close() and a dropped query: a result is "ok" only when every line was returned.
LEMMA StopsReading ==
    ASSUME ReaderInv, NEW q \in Queries, query[q].pc \in {"run", "closing"},
           NEW pc, NEW r,
           \/ pc = "closing" /\ query[q].pc = "run" /\ r \in {"error", "interrupted"}
           \/ pc = "done" /\ r = "dropped"
           \/ /\ pc = "closing" /\ query[q].pc = "run" /\ r = "ok"
              /\ line[q] = 0 /\ task[q].state = "done" /\ ~task[q].failed,
           query' = [query EXCEPT ![q].pc = pc, ![q].result = r],
           task' = [task EXCEPT ![q].stop = TRUE], line' = [line EXCEPT ![q] = 0],
           UNCHANGED <<tool, pipe, wrote>>
    PROVE  ReaderInv'
<1>1. /\ OneQuery(query[q], task[q], tool[q], pipe[q], line[q], wrote[q])
      /\ query[q] \in Query /\ task[q] \in Task /\ tool[q] \in Tool
      /\ pipe[q] \in Nat /\ line[q] \in Nat /\ wrote[q] \in Nat
  BY OfQuery
<1>2. PICK x : x = [query[q] EXCEPT !.pc = pc, !.result = r]
  OBVIOUS
<1>3. x \in Query /\ x.pc = pc /\ x.got = query[q].got /\ x.result = r /\ x.got \in Nat
  BY <1>1, <1>2 DEF Query
<1>4. PICK t : t = [task[q] EXCEPT !.stop = TRUE]
  OBVIOUS
<1>5. t \in Task /\ t.state = task[q].state /\ t.failed = task[q].failed
  BY <1>1, <1>4 DEF Task
<1>6. query' = [query EXCEPT ![q] = x] /\ task' = [task EXCEPT ![q] = t]
  BY <1>2, <1>4 DEF ReaderInv, ReaderTypes
<1>7. Supervised(t, tool[q]) /\ Driven(x, t)
  BY <1>1, <1>3, <1>5 DEF OneQuery, Supervised, Driven
<1>8. LinesKept(x, t, tool[q], pipe[q], 0, wrote[q])
  BY <1>1, <1>3, <1>5 DEF OneQuery, Driven, LinesKept
<1>9. query'[q] = x /\ task'[q] = t /\ line'[q] = 0 /\ ReaderTypes' /\ OnlyMoves(q)
  <2>1. ReaderTypes
    BY DEF ReaderInv
  <2>2. query'[q] = x /\ task'[q] = t /\ line'[q] = 0
    BY <1>6, <2>1 DEF ReaderTypes
  <2>3. query' \in [Queries -> Query]
    BY <1>3, <1>6, <2>1 DEF ReaderTypes
  <2>4. task' \in [Queries -> Task] /\ line' \in [Queries -> Nat]
    BY <1>5, <1>6, <2>1 DEF ReaderTypes
  <2>5. ReaderTypes'
    BY <2>1, <2>3, <2>4 DEF ReaderTypes
  <2>6. OnlyMoves(q)
    BY <1>6, <2>1 DEF ReaderTypes, OnlyMoves
  <2> QED
    BY <2>2, <2>5, <2>6
<1>10. OneQuery(query'[q], task'[q], tool'[q], pipe'[q], line'[q], wrote'[q])
  BY <1>7, <1>8, <1>9 DEF OneQuery
<1> QED
  BY <1>5, <1>9, <1>10, QueryMoves

LEMMA NextRecordKeeps ==
    ASSUME ReaderInv, NEW q \in Queries, NextRecord(q) PROVE ReaderInv'
<1>1. query[q].pc = "run" /\ line[q] = 1
  BY DEF NextRecord
<1>2. CASE CloseOutput(q, "error")
  BY <1>1, <1>2, StopsReading DEF CloseOutput
<1>3. CASE /\ query[q].got < Limit
           /\ query' = [query EXCEPT ![q].got = @ + 1]
           /\ line' = [line EXCEPT ![q] = 0]
           /\ UNCHANGED <<task, tool, pipe, wrote>>
  <2>1. /\ OneQuery(query[q], task[q], tool[q], pipe[q], line[q], wrote[q])
        /\ query[q] \in Query /\ task[q] \in Task /\ tool[q] \in Tool
        /\ pipe[q] \in Nat /\ line[q] \in Nat /\ wrote[q] \in Nat
    BY OfQuery
  <2>2. PICK n \in Nat : n = query[q].got + 1
    BY <2>1 DEF Query
  <2>3. PICK x : x = [query[q] EXCEPT !.got = n]
    OBVIOUS
  <2>4. x \in Query /\ x.pc = "run" /\ x.got = n /\ x.result = query[q].result
    BY <1>1, <2>1, <2>3 DEF Query
  <2>5. query' = [query EXCEPT ![q] = x]
    BY <1>3, <2>2, <2>3 DEF ReaderInv, ReaderTypes
  <2>6. Supervised(task[q], tool[q]) /\ Driven(x, task[q])
    BY <1>1, <2>1, <2>4 DEF OneQuery, Driven
  <2>7. query[q].got \in Nat
    BY <2>1 DEF Query
  <2>8. LinesKept(x, task[q], tool[q], pipe[q], 0, wrote[q])
    BY <1>1, <1>3, <2>1, <2>2, <2>4, <2>7, LogsAssumption DEF OneQuery, Driven, LinesKept
  <2>9. query'[q] = x /\ line'[q] = 0 /\ ReaderTypes' /\ OnlyMoves(q)
    BY <1>3, <2>4, <2>5 DEF ReaderInv, ReaderTypes, OnlyMoves
  <2>10. OneQuery(query'[q], task'[q], tool'[q], pipe'[q], line'[q], wrote'[q])
    BY <1>3, <2>6, <2>8, <2>9 DEF OneQuery
  <2> QED
    BY <1>3, <2>9, <2>10, QueryMoves
<1> QED
  BY <1>2, <1>3 DEF NextRecord

LEMMA EndOfOutputKeeps ==
    ASSUME ReaderInv, NEW q \in Queries, EndOfOutput(q) PROVE ReaderInv'
<1>1. query[q].pc = "run" /\ line[q] = 0 /\ task[q].state = "done"
  BY DEF EndOfOutput
<1>2. CASE CloseOutput(q, "error")
  BY <1>1, <1>2, StopsReading DEF CloseOutput
<1>3. CASE ~task[q].failed /\ CloseOutput(q, "ok")
  BY <1>1, <1>3, StopsReading DEF CloseOutput
<1> QED
  BY <1>2, <1>3 DEF EndOfOutput

LEMMA LeaveKeeps ==
    ASSUME ReaderInv, NEW q \in Queries, Interrupt(q) \/ DropQuery(q) \/ Closed(q)
    PROVE  ReaderInv'
<1>1. CASE Interrupt(q)
  BY <1>1, StopsReading DEF Interrupt, CloseOutput
<1>2. CASE DropQuery(q)
  BY <1>2, StopsReading DEF DropQuery
<1>3. CASE Closed(q)
  <2>1. query' = [query EXCEPT ![q].pc = "done", ![q].result = query[q].result]
    BY <1>3, OfQuery DEF Closed, Query, ReaderInv, ReaderTypes
  <2> QED
    BY <1>3, <2>1, QueryOver DEF Closed
<1> QED
  BY <1>1, <1>2, <1>3

-----------------------------------------------------------------------------
(* The external reader, and LogOutput's task *)

\* Only the child of q changes, to u, which writes w lines in all; p are in its pipe.
LEMMA ToolMoves ==
    ASSUME ReaderInv, NEW q \in Queries, NEW u \in Tool, NEW p \in Nat, NEW w \in Nat,
           tool' = [tool EXCEPT ![q] = u], pipe' = [pipe EXCEPT ![q] = p],
           wrote' = [wrote EXCEPT ![q] = w], UNCHANGED <<query, task, line>>,
           Supervised(task[q], u),
           LinesKept(query[q], task[q], u, p, line[q], w)
    PROVE  ReaderInv'
<1>1. tool'[q] = u /\ pipe'[q] = p /\ wrote'[q] = w /\ ReaderTypes' /\ OnlyMoves(q)
  BY DEF ReaderInv, ReaderTypes, OnlyMoves
<1>2. OneQuery(query'[q], task'[q], tool'[q], pipe'[q], line'[q], wrote'[q])
  BY <1>1, OfQuery DEF OneQuery
<1> QED
  BY <1>1, <1>2, QueryMoves

LEMMA ToolWritesKeeps ==
    ASSUME ReaderInv, NEW q \in Queries, ToolWrites(q) PROVE ReaderInv'
<1>1. /\ OneQuery(query[q], task[q], tool[q], pipe[q], line[q], wrote[q])
      /\ query[q] \in Query /\ tool[q] \in Tool
      /\ pipe[q] \in Nat /\ line[q] \in Nat /\ wrote[q] \in Nat
  BY OfQuery
<1>2. PICK p \in Nat : p = pipe[q] + 1
  BY <1>1
<1>3. PICK w \in Nat : w = wrote[q] + 1
  BY <1>1
<1>4. /\ pipe' = [pipe EXCEPT ![q] = p] /\ wrote' = [wrote EXCEPT ![q] = w]
      /\ tool' = [tool EXCEPT ![q] = tool[q]] /\ UNCHANGED <<query, task, line>>
  BY <1>2, <1>3 DEF ToolWrites, ReaderInv, ReaderTypes
<1>5. tool[q].state = "up" /\ task[q].state \in {"reading", "stopping"}
  BY <1>1 DEF ToolWrites, OneQuery, Supervised
<1>6. query[q].got \in Nat
  BY <1>1 DEF Query
<1>7. LinesKept(query[q], task[q], tool[q], p, line[q], w)
  BY <1>1, <1>2, <1>3, <1>5, <1>6 DEF OneQuery, LinesKept
<1> QED
  BY <1>1, <1>4, <1>7, ToolMoves DEF OneQuery

\* The child ends, or is reaped: what counts is known of its new record u.
LEMMA ToolEnds ==
    ASSUME ReaderInv, NEW q \in Queries, NEW u \in Tool, tool' = [tool EXCEPT ![q] = u],
           UNCHANGED <<query, task, pipe, line, wrote>>,
           task[q].state \in {"reading", "stopping"},
           u.state \in {"exited", "reaped"}, u.exit # "none",
           u.exit = "killed" => task[q].state # "reading"
    PROVE  ReaderInv'
<1>1. /\ OneQuery(query[q], task[q], tool[q], pipe[q], line[q], wrote[q])
      /\ pipe[q] \in Nat /\ line[q] \in Nat /\ wrote[q] \in Nat
  BY OfQuery
<1>2. Supervised(task[q], u)
  BY DEF Supervised
<1>3. LinesKept(query[q], task[q], u, pipe[q], line[q], wrote[q])
  BY <1>1 DEF OneQuery, LinesKept
<1>4. pipe' = [pipe EXCEPT ![q] = pipe[q]] /\ wrote' = [wrote EXCEPT ![q] = wrote[q]]
  BY DEF ReaderInv, ReaderTypes
<1> QED
  BY <1>1, <1>2, <1>3, <1>4, ToolMoves

LEMMA ToolExitsKeeps ==
    ASSUME ReaderInv, NEW q \in Queries, ToolExits(q) \/ KillTool(q) PROVE ReaderInv'
<1>1. PICK exit \in {"clean", "failed", "held", "killed"} :
        tool' = [tool EXCEPT ![q] = [state |-> "exited", exit |-> exit]]
        /\ (exit = "killed" => task[q].state = "stopping")
  BY DEF ToolExits, KillTool, ToolKillDue
<1>2. PICK u : u = [state |-> "exited", exit |-> exit]
  OBVIOUS
<1>3. u \in Tool /\ u.state = "exited" /\ u.exit = exit
  BY <1>2 DEF Tool
<1>4. task[q].state \in {"reading", "stopping"} /\ UNCHANGED <<query, task, pipe, line, wrote>>
  BY OfQuery DEF ToolExits, KillTool, OneQuery, Supervised
<1>5. tool' = [tool EXCEPT ![q] = u]
  BY <1>1, <1>2
<1> QED
  BY <1>1, <1>3, <1>4, <1>5, ToolEnds

LEMMA ReapToolKeeps ==
    ASSUME ReaderInv, NEW q \in Queries, ReapTool(q) PROVE ReaderInv'
<1>1. PICK u : u = [tool[q] EXCEPT !.state = "reaped"]
  OBVIOUS
<1>2. u \in Tool /\ u.state = "reaped" /\ u.exit = tool[q].exit
  BY <1>1, OfQuery DEF Tool
<1>3. tool' = [tool EXCEPT ![q] = u]
  BY <1>1 DEF ReapTool, ReaderInv, ReaderTypes
<1>4. u.exit # "none" /\ (u.exit = "killed" => task[q].state # "reading")
  BY <1>2, OfQuery DEF ReapTool, OneQuery, Supervised
<1> QED
  BY <1>2, <1>3, <1>4, ToolEnds DEF ReapTool

\* Only the supervisor of q changes, to t, with p lines left in the pipe and l queued.
LEMMA TaskMoves ==
    ASSUME ReaderInv, NEW q \in Queries, NEW t \in Task, NEW p \in Nat, NEW l \in Nat,
           task' = [task EXCEPT ![q] = t], pipe' = [pipe EXCEPT ![q] = p],
           line' = [line EXCEPT ![q] = l], UNCHANGED <<query, tool, wrote>>,
           task[q].state \in {"reading", "stopping"},
           Supervised(t, tool[q]), Driven(query[q], t),
           LinesKept(query[q], t, tool[q], p, l, wrote[q])
    PROVE  ReaderInv'
<1>1. task'[q] = t /\ pipe'[q] = p /\ line'[q] = l /\ ReaderTypes' /\ OnlyMoves(q)
  BY DEF ReaderInv, ReaderTypes, OnlyMoves
<1>2. OneQuery(query'[q], task'[q], tool'[q], pipe'[q], line'[q], wrote'[q])
  BY <1>1 DEF OneQuery
<1> QED
  BY <1>1, <1>2, QueryMoves

LEMMA ReadLineKeeps ==
    ASSUME ReaderInv, NEW q \in Queries, ReadLine(q) PROVE ReaderInv'
<1>1. /\ OneQuery(query[q], task[q], tool[q], pipe[q], line[q], wrote[q])
      /\ query[q] \in Query /\ task[q] \in Task
      /\ pipe[q] \in Nat /\ line[q] \in Nat /\ wrote[q] \in Nat
  BY OfQuery
<1>2. task[q].state = "reading" /\ pipe[q] > 0 /\ line[q] = 0 /\ query[q].got \in Nat
  BY <1>1 DEF ReadLine, Query
<1>3. PICK p \in Nat : p = pipe[q] - 1
  BY <1>1, <1>2
<1>4. pipe' = [pipe EXCEPT ![q] = p] /\ UNCHANGED <<query, tool, wrote>>
  BY <1>3 DEF ReadLine
<1>5. CASE task' = [task EXCEPT ![q].state = "stopping", ![q].failed = TRUE] /\ line' = line
  <2>1. PICK t : t = [task[q] EXCEPT !.state = "stopping", !.failed = TRUE]
    OBVIOUS
  <2>2. t \in Task /\ t.state = "stopping" /\ t.failed /\ t.stop = task[q].stop
    BY <1>1, <2>1 DEF Task
  <2>3. task' = [task EXCEPT ![q] = t] /\ line' = [line EXCEPT ![q] = line[q]]
    BY <1>5, <2>1 DEF ReaderInv, ReaderTypes
  <2>4. Supervised(t, tool[q]) /\ Driven(query[q], t)
    BY <1>1, <1>2, <2>2 DEF OneQuery, Supervised, Driven
  <2>5. LinesKept(query[q], t, tool[q], p, line[q], wrote[q])
    BY <1>1, <1>2, <2>2 DEF OneQuery, LinesKept
  <2> QED
    BY <1>1, <1>2, <1>4, <2>2, <2>3, <2>4, <2>5, TaskMoves
<1>6. CASE line' = [line EXCEPT ![q] = 1] /\ task' = task
  <2>1. task' = [task EXCEPT ![q] = task[q]]
    BY <1>6 DEF ReaderInv, ReaderTypes
  <2>2. LinesKept(query[q], task[q], tool[q], p, 1, wrote[q])
    BY <1>1, <1>2, <1>3 DEF OneQuery, LinesKept
  <2> QED
    BY <1>1, <1>2, <1>4, <1>6, <2>1, <2>2, TaskMoves DEF OneQuery
<1> QED
  BY <1>5, <1>6 DEF ReadLine

LEMMA FinishReadingKeeps ==
    ASSUME ReaderInv, NEW q \in Queries, FinishReading(q) PROVE ReaderInv'
<1>1. /\ OneQuery(query[q], task[q], tool[q], pipe[q], line[q], wrote[q])
      /\ query[q] \in Query /\ task[q] \in Task /\ tool[q] \in Tool
      /\ pipe[q] \in Nat /\ line[q] \in Nat /\ wrote[q] \in Nat
  BY OfQuery
<1>2. /\ task[q].state = "reading" /\ tool[q].state = "reaped" /\ pipe[q] = 0
      /\ tool[q].exit # "held" /\ query[q].got \in Nat /\ UNCHANGED <<query, tool, wrote>>
  BY <1>1 DEF FinishReading, OutputEnded, Query
<1>3. PICK b \in BOOLEAN : b = (tool[q].exit = "failed")
  OBVIOUS
<1>4. PICK t : t = [task[q] EXCEPT !.state = "done", !.failed = b]
  OBVIOUS
<1>5. t \in Task /\ t.state = "done" /\ t.failed = b /\ t.stop = task[q].stop
  BY <1>1, <1>4 DEF Task
<1>6. /\ task' = [task EXCEPT ![q] = t] /\ pipe' = [pipe EXCEPT ![q] = pipe[q]]
      /\ line' = [line EXCEPT ![q] = line[q]]
  BY <1>3, <1>4 DEF FinishReading, ReaderInv, ReaderTypes
<1>7. Supervised(t, tool[q]) /\ Driven(query[q], t)
  BY <1>1, <1>2, <1>5 DEF OneQuery, Supervised, Driven
<1>8. tool[q].exit \in {"clean", "failed"}
  BY <1>1, <1>2 DEF OneQuery, Supervised, Tool
<1>9. ~t.failed => tool[q].exit = "clean"
  BY <1>3, <1>5, <1>8
<1>10. LinesKept(query[q], t, tool[q], pipe[q], line[q], wrote[q])
  BY <1>1, <1>2, <1>5, <1>9 DEF OneQuery, LinesKept
<1> QED
  BY <1>1, <1>2, <1>5, <1>6, <1>7, <1>10, TaskMoves

LEMMA SeeStopKeeps ==
    ASSUME ReaderInv, NEW q \in Queries, SeeStop(q) PROVE ReaderInv'
<1>1. /\ OneQuery(query[q], task[q], tool[q], pipe[q], line[q], wrote[q])
      /\ query[q] \in Query /\ task[q] \in Task
      /\ pipe[q] \in Nat /\ line[q] \in Nat /\ wrote[q] \in Nat
  BY OfQuery
<1>2. task[q].state = "reading" /\ task[q].stop /\ UNCHANGED <<query, tool, wrote>>
  BY DEF SeeStop
<1>3. PICK t : t = [task[q] EXCEPT !.state = "stopping"]
  OBVIOUS
<1>4. t \in Task /\ t.state = "stopping" /\ t.failed = task[q].failed /\ t.stop = task[q].stop
  BY <1>1, <1>3 DEF Task
<1>5. /\ task' = [task EXCEPT ![q] = t] /\ pipe' = [pipe EXCEPT ![q] = pipe[q]]
      /\ line' = [line EXCEPT ![q] = line[q]]
  BY <1>3 DEF SeeStop, ReaderInv, ReaderTypes
<1>6. Supervised(t, tool[q]) /\ Driven(query[q], t)
  BY <1>1, <1>2, <1>4 DEF OneQuery, Supervised, Driven
<1>7. LinesKept(query[q], t, tool[q], pipe[q], line[q], wrote[q])
  BY <1>1, <1>2, <1>4 DEF OneQuery, LinesKept
<1> QED
  BY <1>1, <1>2, <1>4, <1>5, <1>6, <1>7, TaskMoves

LEMMA FinishStoppingKeeps ==
    ASSUME ReaderInv, NEW q \in Queries, FinishStopping(q) PROVE ReaderInv'
<1>1. /\ OneQuery(query[q], task[q], tool[q], pipe[q], line[q], wrote[q])
      /\ query[q] \in Query /\ task[q] \in Task
      /\ pipe[q] \in Nat /\ line[q] \in Nat /\ wrote[q] \in Nat
  BY OfQuery
<1>2. /\ task[q].state = "stopping" /\ tool[q].state = "reaped"
      /\ pipe' = [pipe EXCEPT ![q] = 0] /\ UNCHANGED <<query, tool, wrote>>
  BY DEF FinishStopping
<1>3. PICK b \in BOOLEAN : b = (task[q].failed \/ tool[q].exit \in {"held", "failed"})
  OBVIOUS
<1>4. PICK t : t = [task[q] EXCEPT !.state = "done", !.failed = b]
  OBVIOUS
<1>5. t \in Task /\ t.state = "done" /\ t.failed = b /\ t.stop = task[q].stop
  BY <1>1, <1>4 DEF Task
<1>6. task' = [task EXCEPT ![q] = t] /\ line' = [line EXCEPT ![q] = line[q]]
  BY <1>3, <1>4 DEF FinishStopping, ReaderInv, ReaderTypes
<1>7. Supervised(t, tool[q]) /\ Driven(query[q], t)
  BY <1>1, <1>2, <1>5 DEF OneQuery, Supervised, Driven
<1>8. query[q].pc = "run" => t.failed
  BY <1>1, <1>2, <1>3, <1>5 DEF OneQuery, Driven
<1>9. LinesKept(query[q], t, tool[q], 0, line[q], wrote[q])
  BY <1>1, <1>2, <1>5, <1>8 DEF OneQuery, LinesKept
<1> QED
  BY <1>1, <1>2, <1>5, <1>6, <1>7, <1>9, TaskMoves

LEMMA ReaderStillKeeps == ReaderInv /\ UNCHANGED readerVars => ReaderInv'
BY DEF ReaderInv, ReaderTypes, readerVars, SlotsUsed

-----------------------------------------------------------------------------
(* Paging *)

PageRecord == [cursor : Nat, from : Nat, seen : Nat, more : BOOLEAN, end : Nat,
               failed : BOOLEAN]

\* What the pages so far have shown: the entries from `from` to the cursor.
Shown(g) ==
    /\ g.seen = 0 => g.cursor = 0 /\ g.from = 0
    /\ g.seen > 0 => g.from > 0 /\ g.cursor = g.from + g.seen - 1
    /\ g.end > 0 => (g.more <=> g.cursor < g.end /\ g.seen > 0)

JournalInv ==
    /\ first \in Nat \ {0} /\ last \in Nat
    /\ pages \in PageRecord /\ pages.cursor <= last
    /\ Shown(pages)

LEMMA JournalInit == LogsInit => JournalInv
BY DEF LogsInit, JournalInv, PageRecord, Shown

\* The entries journalctl prints are consecutive from the cursor's, or from the oldest
\* one behind it, and fewer than asked for only at the end of the journal.
LEMMA EntriesPrinted ==
    ASSUME JournalInv
    PROVE  \E start, n \in Nat :
               /\ Entries = [i \in 1 .. n |-> start + i - 1]
               /\ start > 0 /\ start >= pages.cursor
               /\ n <= Lines
               /\ n > 0 => start + n - 1 <= last
               /\ n < Lines => start + n - 1 >= last
<1>1. /\ first \in Nat \ {0} /\ last \in Nat /\ pages.cursor \in Nat
      /\ Lines \in Nat /\ Lines > 0
  BY LogsAssumption DEF JournalInv, PageRecord, Lines
<1>2. PICK start \in Nat : start = IF first < pages.cursor THEN pages.cursor ELSE first
  BY <1>1
<1>3. PICK end \in Nat : end = IF start + Lines - 1 < last THEN start + Lines - 1 ELSE last
  BY <1>1
<1>4. PICK n \in Nat : n = IF end < start THEN 0 ELSE end - start + 1
  <2>1. CASE end < start
    BY <2>1
  <2>2. CASE ~(end < start)
    <3>1. end - start + 1 \in Nat
      BY <2>2
    <3> QED
      BY <2>2, <3>1
  <2> QED
    BY <2>1, <2>2
<1>5. Entries = [i \in 1 .. n |-> start + i - 1]
  BY <1>2, <1>3, <1>4 DEF Entries
<1>6. start > 0 /\ start >= pages.cursor
  BY <1>1, <1>2
<1>7. n <= Lines /\ (n > 0 => start + n - 1 <= last) /\ (n < Lines => start + n - 1 >= last)
  BY <1>1, <1>3, <1>4
<1> QED
  BY <1>5, <1>6, <1>7

\* The page found behind the anchor, or at the start of the journal.
Found == IF pages.cursor = 0 THEN Entries ELSE Tail(Entries)

LEMMA PageFound ==
    ASSUME JournalInv,
           ~(pages.cursor # 0 /\ (Entries = <<>> \/ Head(Entries) # pages.cursor))
    PROVE  \E base, m \in Nat :
               /\ Len(Found) = m /\ \A k \in 1 .. m : Found[k] = base + k
               /\ pages.cursor # 0 => base = pages.cursor
               /\ m <= Limit + 1
               /\ m > 0 => base + m <= last
               /\ m <= Limit => base + m >= last
<1>1. last \in Nat /\ pages.cursor \in Nat /\ Limit \in Nat \ {0}
  BY LogsAssumption DEF JournalInv, PageRecord
<1>2. PICK start, n \in Nat :
               /\ Entries = [i \in 1 .. n |-> start + i - 1]
               /\ start > 0 /\ start >= pages.cursor
               /\ n <= Lines
               /\ n > 0 => start + n - 1 <= last
               /\ n < Lines => start + n - 1 >= last
  BY EntriesPrinted
<1>3. /\ Entries \in Seq(Nat) /\ Len(Entries) = n
      /\ \A i \in 1 .. n : Entries[i] = start + i - 1
  BY <1>2
<1>4. CASE pages.cursor = 0
  <2>1. Found = Entries /\ Lines = Limit + 1
    BY <1>1, <1>4 DEF Found, Lines
  <2>2. PICK base \in Nat : base = start - 1
    BY <1>2
  <2>3. \A k \in 1 .. n : Entries[k] = base + k
    BY <1>2, <1>3, <2>2
  <2>4. n <= Limit + 1 /\ (n > 0 => base + n <= last) /\ (n <= Limit => base + n >= last)
    BY <1>1, <1>2, <2>1, <2>2
  <2> QED
    BY <1>3, <1>4, <2>1, <2>3, <2>4
<1>5. CASE pages.cursor # 0
  <2>1. Found = Tail(Entries) /\ Lines = Limit + 2
    BY <1>1, <1>5 DEF Found, Lines
  <2>2. Entries # <<>> /\ Head(Entries) = pages.cursor
    BY <1>5
  <2>3. n > 0 /\ start = pages.cursor
    <3>1. n > 0
      BY <1>3, <2>2
    <3>2. Head(Entries) = Entries[1]
      BY <1>3, <3>1
    <3>3. Entries[1] = start
      BY <1>3, <3>1
    <3> QED
      BY <2>2, <3>1, <3>2, <3>3
  <2>4. PICK m \in Nat : m = n - 1
    BY <2>3
  <2>5. Len(Found) = m /\ \A k \in 1 .. m : Found[k] = Entries[k + 1]
    BY <1>3, <2>1, <2>2, <2>4
  <2>6. \A k \in 1 .. m : Found[k] = start + k
    BY <1>3, <2>4, <2>5
  <2>7. m <= Limit + 1 /\ (m > 0 => start + m <= last) /\ (m <= Limit => start + m >= last)
    BY <1>1, <1>2, <2>1, <2>3, <2>4
  <2> QED
    BY <2>3, <2>5, <2>6, <2>7
<1> QED
  BY <1>4, <1>5

LEMMA PageKeeps == ASSUME JournalInv, Page PROVE JournalInv'
<1>1. /\ first \in Nat \ {0} /\ last \in Nat /\ pages \in PageRecord
      /\ pages.cursor <= last /\ Shown(pages) /\ Limit \in Nat \ {0}
      /\ first' = first /\ last' = last
  BY LogsAssumption DEF JournalInv, Page
<1>2. CASE pages.cursor # 0 /\ (Entries = <<>> \/ Head(Entries) # pages.cursor)
  <2>1. pages' = [pages EXCEPT !.failed = TRUE]
    BY <1>2 DEF Page
  <2>2. /\ pages' \in PageRecord /\ pages'.cursor = pages.cursor /\ pages'.from = pages.from
        /\ pages'.seen = pages.seen /\ pages'.more = pages.more /\ pages'.end = pages.end
    BY <1>1, <2>1 DEF PageRecord
  <2> QED
    BY <1>1, <2>2 DEF JournalInv, Shown
<1>3. CASE ~(pages.cursor # 0 /\ (Entries = <<>> \/ Head(Entries) # pages.cursor))
  <2>1. PICK base, m \in Nat :
               /\ Len(Found) = m /\ \A k \in 1 .. m : Found[k] = base + k
               /\ pages.cursor # 0 => base = pages.cursor
               /\ m <= Limit + 1
               /\ m > 0 => base + m <= last
               /\ m <= Limit => base + m >= last
    BY <1>3, PageFound
  <2>2. PICK kept \in Nat : kept = IF m < Limit THEN m ELSE Limit
    BY <1>1
  <2>3. kept <= m /\ (kept > 0 => Found[1] = base + 1 /\ Found[kept] = base + kept)
    BY <1>1, <2>1, <2>2
  <2>4. /\ pages.cursor \in Nat /\ pages.from \in Nat /\ pages.seen \in Nat
        /\ pages.failed \in BOOLEAN
    BY <1>1 DEF PageRecord
  <2>5. PICK from \in Nat : from = IF pages.from = 0 /\ kept > 0 THEN base + 1 ELSE pages.from
    BY <2>4
  <2>6. PICK cursor \in Nat : cursor = IF kept = 0 THEN pages.cursor ELSE base + kept
    BY <2>4
  <2>7. PICK seen \in Nat : seen = pages.seen + kept
    BY <2>4
  <2>8. PICK more \in BOOLEAN : more = (m > Limit)
    <3>1. (m > Limit) \in BOOLEAN
      OBVIOUS
    <3> QED
      BY <3>1, Zenon
  <2>9. pages' = [pages EXCEPT
                  !.from = IF @ = 0 /\ kept > 0 THEN Found[1] ELSE @,
                  !.cursor = IF kept = 0 THEN @ ELSE Found[kept],
                  !.seen = @ + kept, !.more = m > Limit, !.end = last]
    BY <1>3, <2>1, <2>2 DEF Page, Found
  <2>10. pages' = [pages EXCEPT !.from = from, !.cursor = cursor, !.seen = seen,
                                !.more = more, !.end = last]
    <3>1. from = IF pages.from = 0 /\ kept > 0 THEN Found[1] ELSE pages.from
      BY <2>3, <2>5
    <3>2. cursor = IF kept = 0 THEN pages.cursor ELSE Found[kept]
      BY <2>3, <2>6
    <3> QED
      BY <2>7, <2>8, <2>9, <3>1, <3>2, Zenon
  <2>11. /\ pages' \in PageRecord /\ pages'.from = from /\ pages'.cursor = cursor
         /\ pages'.seen = seen /\ pages'.more = more /\ pages'.end = last
    BY <1>1, <2>10 DEF PageRecord
  <2>12. cursor <= last
    BY <1>1, <2>1, <2>2, <2>3, <2>4, <2>6
  <2>13. seen = 0 => cursor = 0 /\ from = 0
    BY <1>1, <2>4, <2>5, <2>6, <2>7 DEF Shown
  <2>14. seen > 0 => from > 0 /\ cursor = from + seen - 1
    <3>1. pages.seen = 0 => pages.cursor = 0 /\ pages.from = 0
      BY <1>1 DEF Shown
    <3>2. pages.seen > 0 => pages.from > 0 /\ pages.cursor = pages.from + pages.seen - 1
      BY <1>1 DEF Shown
    <3>3. pages.seen > 0 => pages.cursor # 0
      BY <2>4, <3>2
    <3>4. CASE kept = 0
      BY <2>4, <2>5, <2>6, <2>7, <3>2, <3>4
    <3>5. CASE kept > 0 /\ pages.seen = 0
      BY <2>4, <2>5, <2>6, <2>7, <3>1, <3>5
    <3>6. CASE kept > 0 /\ pages.seen > 0
      <4>1. base = pages.cursor
        BY <2>1, <3>3, <3>6
      <4>2. from = pages.from /\ cursor = base + kept
        BY <2>4, <2>5, <2>6, <3>2, <3>6
      <4> QED
        BY <2>4, <2>7, <3>2, <3>6, <4>1, <4>2
    <3> QED
      BY <2>4, <3>4, <3>5, <3>6
  <2>15. last > 0 => (more <=> cursor < last /\ seen > 0)
    <3>1. CASE m > Limit
      <4>1. kept = Limit /\ m = Limit + 1 /\ kept > 0 /\ base + m <= last
        BY <1>1, <2>1, <2>2, <3>1
      <4>2. cursor < last /\ seen > 0
        BY <1>1, <2>4, <2>6, <2>7, <4>1
      <4> QED
        BY <2>8, <3>1, <4>2
    <3>2. CASE m <= Limit
      <4>1. kept = m /\ base + m >= last
        BY <1>1, <2>1, <2>2, <3>2
      <4>2. ~more
        <5>1. ~(m > Limit)
          BY <1>1, <3>2
        <5> QED
          BY <2>8, <5>1, Zenon
      <4>3. CASE kept > 0
        <5>1. cursor >= last
          BY <1>1, <2>6, <4>1, <4>3
        <5> QED
          BY <1>1, <4>2, <5>1
      <4>4. CASE kept = 0
        <5>1. CASE pages.cursor # 0
          <6>1. base = pages.cursor
            BY <2>1, <5>1
          <6>2. cursor >= last
            BY <1>1, <2>4, <2>6, <4>1, <4>4, <6>1
          <6> QED
            BY <1>1, <4>2, <6>2
        <5>2. CASE pages.cursor = 0
          <6>1. pages.seen = 0
            BY <1>1, <2>4, <5>2 DEF Shown
          <6>2. seen = 0
            BY <2>7, <4>4, <6>1
          <6> QED
            BY <4>2, <6>2
        <5> QED
          BY <5>1, <5>2
      <4> QED
        BY <4>3, <4>4
    <3> QED
      BY <1>1, <2>1, <3>1, <3>2
  <2> QED
    BY <1>1, <2>11, <2>12, <2>13, <2>14, <2>15 DEF JournalInv, Shown
<1> QED
  BY <1>2, <1>3

LEMMA JournalGrows == ASSUME JournalInv, LogEntry \/ Vacuum PROVE JournalInv'
<1>1. first \in Nat \ {0} /\ last \in Nat /\ pages.cursor \in Nat /\ pages' = pages
  BY DEF JournalInv, PageRecord, LogEntry, Vacuum
<1>2. first' \in Nat \ {0} /\ last' \in Nat /\ last' >= last
  BY <1>1 DEF LogEntry, Vacuum
<1> QED
  BY <1>1, <1>2 DEF JournalInv

-----------------------------------------------------------------------------

LEMMA LogsInvNext ==
    ReaderInv /\ JournalInv /\ [LogsNext]_logsVars => ReaderInv' /\ JournalInv'
<1> SUFFICES ASSUME ReaderInv, JournalInv, [LogsNext]_logsVars
             PROVE  ReaderInv' /\ JournalInv'
  OBVIOUS
<1>1. UNCHANGED journalVars => JournalInv'
  BY DEF JournalInv, journalVars
<1>2. ASSUME NEW q \in Queries, QueryStep(q) PROVE ReaderInv' /\ UNCHANGED journalVars
  <2>1. ReaderInv'
    BY <1>2, StartQueryKeeps, SpawnKeeps, GiveUpSlotKeeps, NextRecordKeeps,
       EndOfOutputKeeps, LeaveKeeps DEF QueryStep
  <2>2. UNCHANGED journalVars
    BY <1>2 DEF QueryStep, StartQuery, Spawn, GiveUpSlot, NextRecord, EndOfOutput,
                Interrupt, CloseOutput, Closed, DropQuery, journalVars
  <2> QED
    BY <2>1, <2>2
<1>3. ASSUME NEW q \in Queries, ToolWrites(q) \/ ToolExits(q) \/ TaskStep(q)
      PROVE  ReaderInv' /\ UNCHANGED journalVars
  <2>1. ReaderInv'
    BY <1>3, ToolWritesKeeps, ToolExitsKeeps, ReadLineKeeps, ReapToolKeeps,
       FinishReadingKeeps, SeeStopKeeps, FinishStoppingKeeps DEF TaskStep
  <2>2. UNCHANGED journalVars
    BY <1>3 DEF ToolWrites, ToolExits, TaskStep, ReadLine, ReapTool, FinishReading,
                SeeStop, KillTool, FinishStopping, journalVars
  <2> QED
    BY <2>1, <2>2
<1>4. CASE LogEntry \/ Vacuum \/ Page
  <2>1. UNCHANGED readerVars
    BY <1>4 DEF LogEntry, Vacuum, Page
  <2> QED
    BY <1>4, <2>1, ReaderStillKeeps, JournalGrows, PageKeeps
<1>5. CASE UNCHANGED logsVars
  BY <1>1, <1>5, ReaderStillKeeps DEF logsVars
<1> QED
  BY <1>1, <1>2, <1>3, <1>4, <1>5 DEF LogsNext

\* What a log query and its pages tell (LogOutput, query_cancellable, JournalLogs):
\* a query that succeeds returns every line of a reader that succeeded, at most as many
\* readers run as there are permits and none outlives its query, and chained pages
\* neither skip nor repeat an entry of a journal that grows and rotates.
THEOREM LogQueries == LogsSpec => []QueriesAreSound
<1>1. LogsInit => ReaderInv /\ JournalInv
  BY ReaderInit, JournalInit
<1>2. ReaderInv /\ JournalInv => QueriesAreSound
  <2> SUFFICES ASSUME ReaderInv, JournalInv PROVE QueriesAreSound
    OBVIOUS
  <2>1. AnswersAreWhole
    BY DEF ReaderInv, OneQuery, LinesKept, AnswersAreWhole
  <2>2. PagesAreContiguous
    BY DEF JournalInv, Shown, PagesAreContiguous
  <2>3. ReadersAreBounded
    <3> DEFINE Running == {q \in Queries : tool[q].state \in {"up", "exited"}}
    <3>1. Running \subseteq SlotsUsed /\ IsFiniteSet(SlotsUsed)
      BY LogsAssumption, FS_Subset DEF ReaderInv, OneQuery, Supervised, SlotsUsed
    <3>2. /\ Cardinality(Running) <= Cardinality(SlotsUsed)
          /\ Cardinality(Running) \in Nat /\ Cardinality(SlotsUsed) \in Nat
      BY <3>1, FS_Subset, FS_CardinalityType
    <3>3. Cardinality(Running) <= MaxConcurrency
      BY <3>2, LogsAssumption DEF ReaderInv
    <3>4. ASSUME NEW q \in Queries, query[q].pc = "done", query[q].result # "dropped"
          PROVE  tool[q].state \in {"none", "reaped"}
      BY <3>4, OfQuery DEF OneQuery, Supervised, Driven, Tool
    <3> QED
      BY <3>3, <3>4 DEF ReadersAreBounded
  <2> QED
    BY <2>1, <2>2, <2>3 DEF QueriesAreSound
<1> QED
  BY <1>1, <1>2, LogsInvNext, PTL DEF LogsSpec

-----------------------------------------------------------------------------
(* The exporter *)

Record == [seq : Nat, bytes : Nat]
WaiterStates == {"idle", "flush", "close", "settled", "unsettled", "timeout"}
Accepted == stats.count["accepted"]

TelemetryTypes ==
    /\ sender \in BOOLEAN /\ closing \in BOOLEAN /\ late \in BOOLEAN
    /\ stats \in [count : [Counters -> Nat], records : Nat, bytes : Nat]
    /\ submissions \in Nat
    /\ queue \in Seq(Record) /\ batch \in Seq(Record) /\ spare \in Seq(Record)
    /\ sending \in Seq(Record)
    /\ worker \in {"loop", "send", "stopped"} /\ drained \in BOOLEAN
    /\ progress \in [completed : Nat, stopped : BOOLEAN]
    /\ waiter \in [Waiters -> [state : WaiterStates, target : Nat]]

\* Only a closed exporter drains and stops, and then it holds nothing.
WorkerShape ==
    /\ worker # "send" => sending = <<>>
    /\ worker = "send" => sending # <<>>
    /\ worker = "stopped" => queue = <<>> /\ batch = <<>> /\ spare = <<>>
    /\ progress.stopped <=> worker = "stopped"
    /\ closing \/ late \/ drained \/ worker = "stopped" => ~sender
    /\ late => closing

\* One sequence after another, opaque to the provers.
Cat(u, v) == u \o v

\* What the exporter holds, oldest first: what is sent, the batch, the spare record
\* and the queue.
Row == Cat(sending, Cat(batch, Cat(spare, queue)))

Numbered(records, before) ==
    \A i \in 1 .. Len(records) : records[i].seq = before + i

\* The records held are the last ones accepted, in the order of their numbers.
InOrder ==
    /\ Numbered(Row, progress.completed)
    /\ Accepted = progress.completed + Len(Row)

\* The counters of records and bytes.
Booked ==
    /\ stats.records = Len(Row) /\ stats.bytes = Bytes(Row)
    /\ stats.records <= QUEUE_CAPACITY /\ stats.bytes <= QUEUE_BYTES
    /\ Accepted = stats.records + SumFunctionOnSet(stats.count, Outcomes)
    /\ submissions = Accepted + SumFunctionOnSet(stats.count, Refused)

\* What a waiter waits for was accepted; what it was told is completed.
Told ==
    \A w \in Waiters :
        /\ waiter[w].state # "unsettled"
        /\ waiter[w].target <= Accepted
        /\ waiter[w].state = "settled" => waiter[w].target <= progress.completed

TelemetryInv == TelemetryTypes /\ WorkerShape /\ InOrder /\ Booked /\ Told

-----------------------------------------------------------------------------
(* Bytes and counters *)

\* The bytes of records are what they weigh by their size.
LEMMA BytesWeigh ==
    ASSUME NEW u \in Seq(Record)
    PROVE  Bytes(u) = Weight(u, [r \in Record |-> r.bytes])
<1>1. \A i \in DOMAIN u : u[i] \in Record  OBVIOUS
<1>2. [i \in DOMAIN u |-> u[i].bytes] = [i \in DOMAIN u |-> [r \in Record |-> r.bytes][u[i]]]
  BY <1>1
<1> QED BY <1>2 DEF Bytes, Weight

\* The sizes of records are numbers.
LEMMA Sizes == [r \in Record |-> r.bytes] \in [Record -> Nat]
BY DEF Record

\* Bytes are counted.
LEMMA BytesOf ==
    ASSUME NEW u \in Seq(Record)
    PROVE  Bytes(u) \in Nat
<1> DEFINE g == [r \in Record |-> r.bytes]
<1>1. g \in [Record -> Nat] /\ Bytes(u) = Weight(u, g)  BY Sizes, BytesWeigh
<1> HIDE DEF g
<1> QED BY <1>1, WeightNat

\* The bytes of one sequence after another.
LEMMA BytesConcat ==
    ASSUME NEW u \in Seq(Record), NEW v \in Seq(Record)
    PROVE  Bytes(u \o v) = Bytes(u) + Bytes(v)
<1> DEFINE g == [r \in Record |-> r.bytes]
<1>0. u \o v \in Seq(Record)  BY ConcatProperties
<1>1. /\ g \in [Record -> Nat] /\ Bytes(u) = Weight(u, g) /\ Bytes(v) = Weight(v, g)
      /\ Bytes(u \o v) = Weight(u \o v, g)
  BY <1>0, Sizes, BytesWeigh
<1> HIDE DEF g
<1> QED BY <1>1, WeightConcat

\* No records have no bytes.
LEMMA BytesNone == Bytes(<<>>) = 0
<1>1. <<>> \in Seq(Record)  OBVIOUS
<1> QED BY <1>1, BytesWeigh, WeightNone

\* The bytes of one more record.
LEMMA BytesAppend ==
    ASSUME NEW u \in Seq(Record), NEW r \in Record
    PROVE  Bytes(Append(u, r)) = Bytes(u) + r.bytes
<1> DEFINE g == [x \in Record |-> x.bytes]
<1>0. Append(u, r) \in Seq(Record)  BY AppendProperties
<1>1. /\ g \in [Record -> Nat] /\ Bytes(u) = Weight(u, g) /\ g[r] = r.bytes
      /\ Bytes(Append(u, r)) = Weight(Append(u, r), g)
  BY <1>0, Sizes, BytesWeigh
<1> HIDE DEF g
<1> QED BY <1>1, WeightAppend

\* The classes of counters are finite and apart.
LEMMA CounterSets ==
    /\ IsFiniteSet(Outcomes) /\ IsFiniteSet(Refused)
    /\ Outcomes \subseteq Counters /\ Refused \subseteq Counters /\ "accepted" \in Counters
    /\ "accepted" \notin Outcomes /\ "accepted" \notin Refused
    /\ \A c \in Outcomes : c \notin Refused
<1>1. IsFiniteSet({"exported"} \union {"rejected"} \union {"failed"} \union {"timed_out"}
                     \union {"shutdown_dropped"})
  BY FS_Singleton, FS_Union
<1>2. IsFiniteSet({"invalid"} \union {"too_large"} \union {"queue_full"}
                     \union {"queue_bytes_full"} \union {"closed_dropped"})
  BY FS_Singleton, FS_Union
<1>3. Outcomes = {"exported"} \union {"rejected"} \union {"failed"} \union {"timed_out"}
                     \union {"shutdown_dropped"}
  BY DEF Outcomes
<1>4. Refused = {"invalid"} \union {"too_large"} \union {"queue_full"}
                     \union {"queue_bytes_full"} \union {"closed_dropped"}
  BY DEF Refused
<1>5. IsFiniteSet(Outcomes) /\ IsFiniteSet(Refused)
  BY <1>1, <1>2, <1>3, <1>4, Zenon
<1> QED BY <1>5 DEF Outcomes, Refused, Counters

\* One counter grows by n.
LEMMA CountGrows ==
    ASSUME NEW k \in [Counters -> Nat], NEW c \in Counters, NEW n \in Nat
    PROVE  LET l == [k EXCEPT ![c] = @ + n]
           IN  /\ l \in [Counters -> Nat]
               /\ SumFunctionOnSet(l, Outcomes)
                    = SumFunctionOnSet(k, Outcomes) + (IF c \in Outcomes THEN n ELSE 0)
               /\ SumFunctionOnSet(l, Refused)
                    = SumFunctionOnSet(k, Refused) + (IF c \in Refused THEN n ELSE 0)
               /\ SumFunctionOnSet(k, Outcomes) \in Nat /\ SumFunctionOnSet(k, Refused) \in Nat
<1> DEFINE l == [k EXCEPT ![c] = k[c] + n]
<1>1. l \in [Counters -> Nat] /\ l \in [Counters -> Int] /\ k \in [Counters -> Int]
  OBVIOUS
<1>2. l[c] = k[c] + n /\ (\A x \in Counters : x # c => l[x] = k[x]) /\ n \in Int
  OBVIOUS
<1> HIDE DEF l
<1>3. SumFunctionOnSet(l, Outcomes)
          = SumFunctionOnSet(k, Outcomes) + (IF c \in Outcomes THEN n ELSE 0)
  BY <1>1, <1>2, CounterSets, SumBump
<1>4. SumFunctionOnSet(l, Refused)
          = SumFunctionOnSet(k, Refused) + (IF c \in Refused THEN n ELSE 0)
  BY <1>1, <1>2, CounterSets, SumBump
<1>5. SumFunctionOnSet(k, Outcomes) \in Nat /\ SumFunctionOnSet(k, Refused) \in Nat
  BY CounterSets, SumNat
<1> QED BY <1>1, <1>3, <1>4, <1>5 DEF l

-----------------------------------------------------------------------------
(* One lemma per action *)

\* Two sequences of records, one after the other.
LEMMA CatProperties ==
    ASSUME NEW u \in Seq(Record), NEW v \in Seq(Record)
    PROVE  /\ Cat(u, v) \in Seq(Record)
           /\ Len(Cat(u, v)) = Len(u) + Len(v) /\ Len(u) \in Nat /\ Len(v) \in Nat
           /\ Bytes(Cat(u, v)) = Bytes(u) + Bytes(v) /\ Bytes(u) \in Nat /\ Bytes(v) \in Nat
           /\ \A i \in 1 .. Len(u) + Len(v) :
                  Cat(u, v)[i] = IF i <= Len(u) THEN u[i] ELSE v[i - Len(u)]
<1>1. /\ u \o v \in Seq(Record) /\ Len(u \o v) = Len(u) + Len(v)
      /\ \A i \in 1 .. Len(u) + Len(v) : (u \o v)[i] = IF i <= Len(u) THEN u[i] ELSE v[i - Len(u)]
  BY ConcatProperties
<1>2. Bytes(u \o v) = Bytes(u) + Bytes(v) /\ Bytes(u) \in Nat /\ Bytes(v) \in Nat
  BY BytesConcat, BytesOf
<1>3. Len(u) \in Nat /\ Len(v) \in Nat  BY LenProperties
<1> QED BY <1>1, <1>2, <1>3, Zenon DEF Cat

\* Records in a row can be grouped either way.
LEMMA Regroup ==
    ASSUME NEW x \in Seq(Record), NEW y \in Seq(Record), NEW z \in Seq(Record)
    PROVE  Cat(Cat(x, y), z) = Cat(x, Cat(y, z))
<1>1. (x \o y) \o z = x \o (y \o z)  BY ConcatAssociative
<1> QED BY <1>1, Zenon DEF Cat

\* No records, before or after others.
LEMMA CatNone ==
    ASSUME NEW u \in Seq(Record)
    PROVE  Cat(u, <<>>) = u /\ Cat(<<>>, u) = u /\ <<>> \in Seq(Record)
<1>1. u \o <<>> = u /\ <<>> \o u = u  BY ConcatEmptySeq
<1> QED BY <1>1 DEF Cat

\* The last of a row may be regrouped.
LEMMA RowAppended ==
    ASSUME NEW a \in Seq(Record), NEW b \in Seq(Record), NEW c \in Seq(Record),
           NEW d \in Seq(Record), NEW e \in Seq(Record)
    PROVE  Cat(a, Cat(b, Cat(c, Cat(d, e)))) = Cat(Cat(a, Cat(b, Cat(c, d))), e)
<1>1. Cat(c, d) \in Seq(Record) /\ Cat(b, Cat(c, d)) \in Seq(Record)  BY CatProperties
<1>2. Cat(Cat(c, d), e) = Cat(c, Cat(d, e))  BY Regroup
<1>3. Cat(Cat(b, Cat(c, d)), e) = Cat(b, Cat(Cat(c, d), e))  BY <1>1, Regroup
<1>4. Cat(Cat(a, Cat(b, Cat(c, d))), e) = Cat(a, Cat(Cat(b, Cat(c, d)), e))
  BY <1>1, Regroup
<1> QED BY <1>2, <1>3, <1>4

\* The row is one of records.
LEMMA RowType ==
    ASSUME TelemetryTypes
    PROVE  Row \in Seq(Record) /\ Len(Row) \in Nat /\ Bytes(Row) \in Nat
           /\ Cat(batch, Cat(spare, queue)) \in Seq(Record)
<1>1. Row \in Seq(Record) /\ Cat(batch, Cat(spare, queue)) \in Seq(Record)
  BY CatProperties DEF TelemetryTypes, Row
<1> QED BY <1>1, BytesOf, LenProperties

\* A step that moves records between the worker's slots keeps the row.
LEMMA MoveKeeps ==
    ASSUME TelemetryInv, TelemetryTypes', WorkerShape', Row' = Row,
           UNCHANGED <<stats, submissions, progress, waiter>>
    PROVE  TelemetryInv'
BY DEF TelemetryInv, InOrder, Booked, Told, Accepted, Numbered

\* A refused record changes two counters only.
LEMMA RefusedKeeps ==
    ASSUME TelemetryInv, NEW c \in Refused, stats' = Bump(c, 1),
           submissions' = submissions + 1,
           UNCHANGED <<queue, sender, controlVars, batch, spare, sending, worker, attempts, flush,
                       drained, progress, waiter>>
    PROVE  TelemetryInv'
<1> USE DEF TelemetryInv
<1> DEFINE k == stats.count
           l == [k EXCEPT ![c] = @ + 1]
<1>1. k \in [Counters -> Nat] /\ c \in Counters /\ c # "accepted"
      /\ stats.records \in Nat /\ stats.bytes \in Nat
      /\ stats \in [count : [Counters -> Nat], records : Nat, bytes : Nat]
  BY CounterSets DEF TelemetryTypes
<1>2. /\ l \in [Counters -> Nat]
      /\ SumFunctionOnSet(l, Outcomes)
           = SumFunctionOnSet(k, Outcomes) + (IF c \in Outcomes THEN 1 ELSE 0)
      /\ SumFunctionOnSet(l, Refused)
           = SumFunctionOnSet(k, Refused) + (IF c \in Refused THEN 1 ELSE 0)
      /\ SumFunctionOnSet(k, Outcomes) \in Nat /\ SumFunctionOnSet(k, Refused) \in Nat
  BY <1>1, CountGrows
<1>3. /\ stats'.count = l /\ stats'.records = stats.records /\ stats'.bytes = stats.bytes
      /\ stats' = [stats EXCEPT !.count = l]
  BY <1>1 DEF Bump
<1>4. l["accepted"] = k["accepted"] /\ k["accepted"] \in Nat  BY <1>1, CounterSets
<1>5. c \notin Outcomes  BY CounterSets
<1> HIDE DEF k, l
<1>6. Accepted' = Accepted /\ Accepted \in Nat  BY <1>3, <1>4 DEF Accepted, k
<1>7. TelemetryTypes'
  <2>1. stats' \in [count : [Counters -> Nat], records : Nat, bytes : Nat]
    BY <1>1, <1>2, <1>3
  <2> QED BY <2>1 DEF TelemetryTypes, controlVars
<1>8. WorkerShape' /\ Row' = Row
  BY DEF WorkerShape, Row, controlVars
<1>9. InOrder'
  BY <1>6, <1>8 DEF InOrder, Numbered
<1>10. Booked'
  <2>1. SumFunctionOnSet(stats'.count, Outcomes) = SumFunctionOnSet(stats.count, Outcomes)
    BY <1>2, <1>3, <1>5 DEF k
  <2>2. SumFunctionOnSet(stats'.count, Refused) = SumFunctionOnSet(stats.count, Refused) + 1
    BY <1>2, <1>3 DEF k
  <2>3. submissions = Accepted + SumFunctionOnSet(stats.count, Refused)  BY DEF Booked
  <2>4. submissions' = Accepted' + SumFunctionOnSet(stats'.count, Refused)
    <3>1. SumFunctionOnSet(stats.count, Refused) \in Nat  BY <1>2 DEF k
    <3> QED BY <1>6, <2>2, <2>3, <3>1
  <2> QED BY <1>3, <1>6, <1>8, <2>1, <2>4 DEF Booked
<1>11. Told'
  BY <1>6 DEF Told
<1> QED BY <1>7, <1>8, <1>9, <1>10, <1>11

\* An accepted record is the last of the queue.
LEMMA AcceptedKeeps ==
    ASSUME TelemetryInv, NEW bytes \in Nat, sender, stats.records < QUEUE_CAPACITY,
           bytes <= QUEUE_BYTES - stats.bytes,
           queue' = Append(queue, [seq |-> stats.count["accepted"] + 1, bytes |-> bytes]),
           stats' = [Bump("accepted", 1) EXCEPT !.records = @ + 1, !.bytes = @ + bytes],
           submissions' = submissions + 1,
           UNCHANGED <<sender, controlVars, batch, spare, sending, worker, attempts, flush,
                       drained, progress, waiter>>
    PROVE  TelemetryInv'
<1> USE DEF TelemetryInv
<1> DEFINE k == stats.count
           l == [k EXCEPT !["accepted"] = @ + 1]
           r == [seq |-> stats.count["accepted"] + 1, bytes |-> bytes]
<1>1. k \in [Counters -> Nat] /\ "accepted" \in Counters
      /\ stats.records \in Nat /\ stats.bytes \in Nat
      /\ stats \in [count : [Counters -> Nat], records : Nat, bytes : Nat]
      /\ queue \in Seq(Record) /\ progress.completed \in Nat /\ submissions \in Nat
  BY CounterSets DEF TelemetryTypes
<1>2. /\ l \in [Counters -> Nat]
      /\ SumFunctionOnSet(l, Outcomes)
           = SumFunctionOnSet(k, Outcomes) + (IF "accepted" \in Outcomes THEN 1 ELSE 0)
      /\ SumFunctionOnSet(l, Refused)
           = SumFunctionOnSet(k, Refused) + (IF "accepted" \in Refused THEN 1 ELSE 0)
      /\ SumFunctionOnSet(k, Outcomes) \in Nat /\ SumFunctionOnSet(k, Refused) \in Nat
  BY <1>1, CountGrows
<1>3. /\ stats'.count = l /\ stats'.records = stats.records + 1
      /\ stats'.bytes = stats.bytes + bytes
      /\ stats' = [stats EXCEPT !.count = l, !.records = stats.records + 1,
                                !.bytes = stats.bytes + bytes]
  BY <1>1 DEF Bump
<1>4. l["accepted"] = k["accepted"] + 1 /\ k["accepted"] \in Nat  BY <1>1
<1>5. r \in Record /\ r.bytes = bytes /\ r.seq = Accepted + 1  BY <1>4 DEF Record, Accepted
<1> HIDE DEF k, l, r
<1>6. Accepted' = Accepted + 1 /\ Accepted \in Nat  BY <1>3, <1>4 DEF Accepted, k
<1>7. queue' \in Seq(Record) /\ queue' = Cat(queue, <<r>>) /\ <<r>> \in Seq(Record)
  <2>1. queue' = Append(queue, r)  BY DEF r
  <2>2. Append(queue, r) \in Seq(Record) /\ Append(queue, r) = queue \o <<r>>
        /\ <<r>> \in Seq(Record)
    BY <1>1, <1>5, AppendProperties, AppendIsConcat
  <2> QED BY <2>1, <2>2, Zenon DEF Cat
<1>8. TelemetryTypes'
  <2>1. stats.records + 1 \in Nat /\ stats.bytes + bytes \in Nat /\ submissions + 1 \in Nat
    BY <1>1
  <2>2. stats' \in [count : [Counters -> Nat], records : Nat, bytes : Nat]
    BY <1>1, <1>2, <1>3, <2>1, Zenon
  <2>3. submissions' \in Nat  BY <2>1
  <2> QED BY <1>7, <2>2, <2>3 DEF TelemetryTypes, controlVars
<1>9. WorkerShape'
  BY DEF WorkerShape, controlVars
<1>10. Row' = Append(Row, r) /\ Row \in Seq(Record)
  <2>1. spare \in Seq(Record) /\ batch \in Seq(Record) /\ sending \in Seq(Record)
    BY DEF TelemetryTypes
  <2>2. Row \in Seq(Record)  BY RowType
  <2>3. Cat(sending, Cat(batch, Cat(spare, Cat(queue, <<r>>)))) = Cat(Row, <<r>>)
    <3> HIDE DEF TelemetryInv
    <3>1. PICK e \in Seq(Record) : e = <<r>>  BY <1>7, Zenon
    <3>2. Cat(sending, Cat(batch, Cat(spare, Cat(queue, e)))) = Cat(Row, e)
      <4>1. PICK a \in Seq(Record), b \in Seq(Record), c \in Seq(Record), d \in Seq(Record) :
                a = sending /\ b = batch /\ c = spare /\ d = queue
        BY <1>1, <2>1, Zenon
      <4>2. Cat(a, Cat(b, Cat(c, Cat(d, e)))) = Cat(Cat(a, Cat(b, Cat(c, d))), e)
        BY RowAppended
      <4> QED BY <4>1, <4>2, Zenon DEF Row
    <3> QED BY <3>1, <3>2, Zenon
  <2>4. Row' = Row \o <<r>>  BY <1>7, <2>3, Zenon DEF Row, Cat
  <2> QED BY <1>5, <2>2, <2>4, AppendIsConcat, Zenon
<1>11. Len(Row') = Len(Row) + 1 /\ Len(Row) \in Nat /\ Row'[Len(Row) + 1] = r
       /\ (\A i \in 1 .. Len(Row) : Row'[i] = Row[i])
       /\ Bytes(Row') = Bytes(Row) + bytes /\ Bytes(Row) \in Nat
  <2>1. PICK u \in Seq(Record) : u = Row  BY <1>10, Zenon
  <2>2. PICK v : v = Row'  OBVIOUS
  <2>3. v = Append(u, r)  BY <1>10, <2>1, <2>2, Zenon
  <2>4. Len(v) = Len(u) + 1 /\ Len(u) \in Nat /\ v[Len(u) + 1] = r
        /\ (\A i \in 1 .. Len(u) : v[i] = u[i])
        /\ Bytes(v) = Bytes(u) + bytes /\ Bytes(u) \in Nat
    <3> HIDE DEF TelemetryInv
    <3>1. Len(v) = Len(u) + 1 /\ Len(u) \in Nat /\ v[Len(u) + 1] = r
          /\ (\A i \in 1 .. Len(u) : v[i] = u[i])
      BY <1>5, <2>3, AppendProperties, LenProperties
    <3>2. Bytes(v) = Bytes(u) + bytes /\ Bytes(u) \in Nat
      BY <1>5, <2>3, BytesAppend, BytesOf
    <3> QED BY <3>1, <3>2
  <2> QED BY <2>1, <2>2, <2>4, Zenon
<1>12. InOrder'
  <2>1. PICK d \in Nat : d = progress.completed  BY <1>1
  <2>2. PICK m \in Nat : m = Len(Row)  BY <1>11
  <2>3. Accepted = d + m /\ \A i \in 1 .. m : Row[i].seq = d + i
    BY <2>1, <2>2 DEF InOrder, Numbered
  <2>4. r.seq = d + (m + 1)  BY <1>5, <2>3
  <2>5. \A i \in 1 .. m + 1 : Row'[i].seq = d + i
    <3> TAKE i \in 1 .. m + 1
    <3>1. CASE i = m + 1  BY <3>1, <1>11, <2>2, <2>4
    <3>2. CASE i \in 1 .. m  BY <3>2, <1>11, <2>2, <2>3
    <3> QED BY <3>1, <3>2
  <2>6. Accepted' = d + (m + 1)  BY <1>6, <2>3
  <2> QED BY <1>11, <2>1, <2>2, <2>5, <2>6 DEF InOrder, Numbered
<1>13. Booked'
  <2>1. SumFunctionOnSet(stats'.count, Outcomes) = SumFunctionOnSet(stats.count, Outcomes)
        /\ SumFunctionOnSet(stats'.count, Refused) = SumFunctionOnSet(stats.count, Refused)
        /\ SumFunctionOnSet(stats.count, Outcomes) \in Nat
        /\ SumFunctionOnSet(stats.count, Refused) \in Nat
    BY <1>2, <1>3, CounterSets DEF k
  <2>2. stats'.records = Len(Row') /\ stats'.bytes = Bytes(Row')
    BY <1>3, <1>11 DEF Booked
  <2>3. stats'.records <= QUEUE_CAPACITY /\ stats'.bytes <= QUEUE_BYTES
    <3>1. bytes <= QUEUE_BYTES - stats.bytes /\ stats.records < QUEUE_CAPACITY  OBVIOUS
    <3>2. stats.records + 1 <= QUEUE_CAPACITY /\ stats.bytes + bytes <= QUEUE_BYTES
      <4> HIDE DEF TelemetryInv
      <4> QED BY <1>1, <3>1, ExportConfigAssumption
    <3> QED BY <1>3, <3>2, Zenon
  <2>4. Accepted' = stats'.records + SumFunctionOnSet(stats'.count, Outcomes)
    BY <1>1, <1>3, <1>6, <2>1 DEF Booked
  <2>5. submissions' = Accepted' + SumFunctionOnSet(stats'.count, Refused)
    BY <1>1, <1>6, <2>1 DEF Booked
  <2> QED BY <2>2, <2>3, <2>4, <2>5 DEF Booked
<1>14. Told'
  BY <1>6 DEF Told, TelemetryTypes
<1> QED BY <1>8, <1>9, <1>12, <1>13, <1>14

\* Submit: a record is refused and counted, or accepted.
LEMMA SubmitKeeps ==
    ASSUME TelemetryInv, NEW bytes \in Encodings, Submit(bytes)
    PROVE  TelemetryInv'
<1>1. bytes \in Nat  BY ExportConfigAssumption DEF Encodings, Unencodable
<1>2. {"invalid", "closed_dropped", "too_large", "queue_full", "queue_bytes_full"} \subseteq Refused
  BY DEF Refused
<1>3. stats.records \in Nat  BY DEF TelemetryInv, TelemetryTypes
<1>4. /\ submissions' = submissions + 1
      /\ UNCHANGED <<sender, controlVars, batch, spare, sending, worker, attempts, flush,
                     drained, progress, waiter>>
  BY DEF Submit
<1>5. ASSUME NEW c \in Refused, stats' = Bump(c, 1), UNCHANGED queue
      PROVE  TelemetryInv'
  BY <1>4, <1>5, RefusedKeeps
<1>6. CASE \E c \in Refused : stats' = Bump(c, 1) /\ UNCHANGED queue
  BY <1>5, <1>6
<1>7. CASE ~(\E c \in Refused : stats' = Bump(c, 1) /\ UNCHANGED queue)
  <2>1. /\ sender /\ ~Full /\ ~(bytes > QUEUE_BYTES - stats.bytes)
        /\ queue' = Append(queue, [seq |-> stats.count["accepted"] + 1, bytes |-> bytes])
        /\ stats' = [Bump("accepted", 1) EXCEPT !.records = @ + 1, !.bytes = @ + bytes]
    BY <1>2, <1>7, Zenon DEF Submit
  <2>2. stats.records < QUEUE_CAPACITY  BY <1>3, <2>1, ExportConfigAssumption DEF Full
  <2>3. bytes <= QUEUE_BYTES - stats.bytes
    BY <1>1, <2>1, ExportConfigAssumption DEF TelemetryInv, TelemetryTypes
  <2> QED BY <1>1, <1>4, <2>1, <2>2, <2>3, AcceptedKeeps
<1> QED BY <1>6, <1>7

\* A waiter is registered or released; nothing else of the books changes.
LEMMA WaiterKeeps ==
    ASSUME TelemetryInv, NEW w \in Waiters, NEW s \in WaiterStates, NEW n \in Nat,
           s # "unsettled", n <= Accepted, s = "settled" => n <= progress.completed,
           waiter' = [waiter EXCEPT ![w] = [state |-> s, target |-> n]],
           sender' \in BOOLEAN, closing' \in BOOLEAN, sender' => sender,
           closing' => (closing \/ ~sender'), closing => closing',
           UNCHANGED <<submissions, stats, late, workerVars>>
    PROVE  TelemetryInv'
<1> USE DEF TelemetryInv
<1>1. TelemetryTypes'
  BY DEF TelemetryTypes, workerVars
<1>2. WorkerShape' /\ Row' = Row /\ Accepted' = Accepted
  BY DEF WorkerShape, workerVars, Row, Accepted
<1>3. InOrder' /\ Booked'
  BY <1>2 DEF InOrder, Booked, Numbered, workerVars
<1>4. Told'
  BY <1>2 DEF Told, TelemetryTypes, workerVars
<1> QED BY <1>1, <1>2, <1>3, <1>4

\* Flush and close register what was accepted so far.
LEMMA RegisterKeeps ==
    ASSUME TelemetryInv, NEW w \in Waiters, Flush(w) \/ BeginClose(w) \/ CloseAgain(w)
    PROVE  TelemetryInv'
<1>1. Accepted \in Nat /\ Accepted <= Accepted
  BY CounterSets DEF TelemetryInv, TelemetryTypes, Accepted
<1>2. /\ sender \in BOOLEAN /\ closing \in BOOLEAN
      /\ {"flush", "close"} \subseteq WaiterStates \ {"settled", "unsettled"}
  BY DEF TelemetryInv, TelemetryTypes, WaiterStates
<1>3. CASE Flush(w)
  <2>1. waiter' = [waiter EXCEPT ![w] = [state |-> "flush", target |-> Accepted]]
        /\ UNCHANGED <<sender, submissions, stats, closing, late, workerVars>>
    BY <1>3 DEF Flush, Accepted, producerVars
  <2> QED BY <1>1, <1>2, <2>1, WaiterKeeps
<1>4. CASE CloseAgain(w)
  <2>1. waiter' = [waiter EXCEPT ![w] = [state |-> "close", target |-> Accepted]]
        /\ UNCHANGED <<sender, submissions, stats, closing, late, workerVars>>
    BY <1>4 DEF CloseAgain, Accepted, producerVars, controlVars
  <2> QED BY <1>1, <1>2, <2>1, WaiterKeeps
<1>5. CASE BeginClose(w)
  <2>1. /\ sender' = FALSE /\ closing' = TRUE
        /\ UNCHANGED <<submissions, stats, late, workerVars>>
        /\ \/ waiter' = [waiter EXCEPT ![w] = [state |-> "close", target |-> Accepted]]
           \/ waiter' = waiter
    BY <1>5 DEF BeginClose, Accepted
  <2>2. CASE waiter' = [waiter EXCEPT ![w] = [state |-> "close", target |-> Accepted]]
    BY <1>1, <1>2, <2>1, <2>2, WaiterKeeps
  <2>3. CASE waiter' = waiter
    <3>1. TelemetryTypes' /\ WorkerShape' /\ Row' = Row
      BY <2>1, <2>3 DEF TelemetryInv, TelemetryTypes, WorkerShape, workerVars, Row
    <3> QED BY <2>1, <2>3, <3>1, MoveKeeps DEF workerVars
  <2> QED BY <2>1, <2>2, <2>3
<1> QED BY <1>3, <1>4, <1>5

\* The worker has stopped only with everything completed, so that those it releases
\* are told that their records are settled.
LEMMA ReturnKeeps ==
    ASSUME TelemetryInv, NEW w \in Waiters, Return(w) \/ FlushTimeout(w)
    PROVE  TelemetryInv'
<1> USE DEF TelemetryInv
<1>1. /\ waiter[w] \in [state : WaiterStates, target : Nat] /\ progress.completed \in Nat
      /\ waiter[w].target <= Accepted /\ waiter[w].target \in Nat
      /\ waiter \in [Waiters -> [state : WaiterStates, target : Nat]]
      /\ sender \in BOOLEAN /\ closing \in BOOLEAN
  BY DEF TelemetryTypes, Told
<1>2. {"settled", "timeout"} \subseteq WaiterStates  BY DEF WaiterStates
<1>3. ASSUME NEW s, waiter' = [waiter EXCEPT ![w].state = s]
      PROVE  waiter' = [waiter EXCEPT ![w] = [state |-> s, target |-> waiter[w].target]]
  <2> HIDE DEF TelemetryInv
  <2>1. [waiter[w] EXCEPT !.state = s] = [state |-> s, target |-> waiter[w].target]
    BY <1>1
  <2>2. waiter' = [waiter EXCEPT ![w] = [waiter[w] EXCEPT !.state = s]]
    BY <1>3, Zenon
  <2> QED BY <2>1, <2>2, Zenon
<1>4. CASE FlushTimeout(w)
  <2>1. waiter' = [waiter EXCEPT ![w] = [state |-> "timeout", target |-> waiter[w].target]]
        /\ UNCHANGED <<sender, closing, submissions, stats, late, workerVars>>
    BY <1>3, <1>4 DEF FlushTimeout, producerVars, controlVars
  <2> QED BY <1>1, <1>2, <2>1, WaiterKeeps
<1>5. CASE Return(w)
  <2>1. progress.completed >= waiter[w].target
    <3>1. CASE progress.stopped
      <4>1. Row = <<>>
        BY <3>1, CatNone DEF WorkerShape, Row, TelemetryTypes
      <4>2. Accepted = progress.completed + Len(Row)  BY DEF InOrder
      <4>3. Accepted = progress.completed  BY <1>1, <4>1, <4>2
      <4> QED BY <1>1, <4>3
    <3>2. CASE ~progress.stopped
      BY <1>5, <3>2 DEF Return, Waited
    <3> QED BY <3>1, <3>2
  <2>2. waiter' = [waiter EXCEPT ![w] = [state |-> "settled", target |-> waiter[w].target]]
        /\ UNCHANGED <<sender, closing, submissions, stats, late, workerVars>>
    BY <1>3, <1>5, <2>1 DEF Return, producerVars, controlVars
  <2>3. waiter[w].target <= progress.completed  BY <1>1, <2>1
  <2> QED BY <1>1, <1>2, <2>2, <2>3, WaiterKeeps
<1> QED BY <1>4, <1>5

\* The worker fills its batch, or begins to send it: the row stays as it is.
LEMMA WorkerKeeps ==
    ASSUME TelemetryInv,
           CloseDeadline \/ BeginSend \/ TakeSpare \/ TakeQueued \/ SeeClosed \/ Tick \/ Retry
    PROVE  TelemetryInv'
<1> USE DEF TelemetryInv
<1>1. /\ sending \in Seq(Record) /\ batch \in Seq(Record) /\ spare \in Seq(Record)
      /\ queue \in Seq(Record) /\ <<>> \in Seq(Record)
  BY DEF TelemetryTypes
<1>2. CASE CloseDeadline
  <2>1. TelemetryTypes' /\ WorkerShape' /\ Row' = Row
    BY <1>2 DEF CloseDeadline, TelemetryTypes, WorkerShape, Row, workerVars, producerVars
  <2> QED BY <1>2, <2>1, MoveKeeps DEF CloseDeadline, workerVars, producerVars
<1>3. CASE BeginSend
  <2>1. TelemetryTypes' /\ WorkerShape'
    BY <1>1, <1>3
    DEF BeginSend, Looping, TelemetryTypes, WorkerShape, controlVars, producerVars
  <2>2. Row' = Row
    <3>1. sending = <<>> /\ sending' = batch /\ batch' = <<>> /\ spare' = spare /\ queue' = queue
      BY <1>3 DEF BeginSend, Looping, WorkerShape
    <3>2. Cat(spare, queue) \in Seq(Record)  BY <1>1, CatProperties
    <3>3. Cat(batch, Cat(spare, queue)) \in Seq(Record)  BY <1>1, <3>2, CatProperties
    <3>4. Cat(<<>>, Cat(spare, queue)) = Cat(spare, queue)  BY <3>2, CatNone
    <3>5. Row = Cat(batch, Cat(spare, queue))  BY <3>1, <3>3, CatNone DEF Row
    <3> QED BY <3>1, <3>4, <3>5, Zenon DEF Row
  <2> QED BY <1>3, <2>1, <2>2, MoveKeeps DEF BeginSend, producerVars
<1>4. CASE TakeSpare
  <2>0. batch' = Cat(batch, spare) /\ batch' \in Seq(Record) /\ spare' = <<>>
        /\ sending' = sending /\ queue' = queue
    BY <1>1, <1>4, CatProperties DEF TakeSpare, Cat
  <2>1. TelemetryTypes' /\ WorkerShape'
    BY <1>1, <1>4, <2>0
    DEF TakeSpare, Waiting, Looping, TelemetryTypes, WorkerShape, controlVars, producerVars
  <2>2. Row' = Row
    <3>1. Cat(Cat(batch, spare), queue) = Cat(batch, Cat(spare, queue))  BY <1>1, Regroup
    <3>2. Cat(<<>>, queue) = queue  BY <1>1, CatNone
    <3> QED BY <2>0, <3>1, <3>2, Zenon DEF Row
  <2> QED BY <1>4, <2>1, <2>2, MoveKeeps DEF TakeSpare, producerVars
<1>5. CASE TakeQueued
  <2> DEFINE h == Head(queue)
  <2>1. queue # <<>> /\ spare = <<>> /\ sending' = sending /\ queue' = Tail(queue)
        /\ \/ spare' = <<h>> /\ batch' = batch
           \/ spare' = spare /\ batch' = Append(batch, h)
    BY <1>5 DEF TakeQueued
  <2>2. h \in Record /\ <<h>> \in Seq(Record) /\ queue' \in Seq(Record)
        /\ queue = <<h>> \o queue' /\ Append(batch, h) = batch \o <<h>>
    <3>1. h \in Record /\ Tail(queue) \in Seq(Record)  BY <1>1, <2>1, HeadTailProperties
    <3>2. <<h>> \in Seq(Record)  BY <3>1
    <3>3. queue = <<h>> \o Tail(queue)  BY <1>1, <2>1, <3>1
    <3>4. Append(batch, h) = batch \o <<h>>  BY <1>1, <3>1, AppendIsConcat
    <3> QED BY <2>1, <3>1, <3>2, <3>3, <3>4, Zenon
  <2> HIDE DEF h
  <2>3. PICK e \in Seq(Record) : e = <<h>>  BY <2>2, Zenon
  <2>4. queue = Cat(e, queue') /\ Append(batch, h) = Cat(batch, e)  BY <2>2, <2>3, Zenon DEF Cat
  <2>5. Row' = Row /\ batch' \in Seq(Record) /\ spare' \in Seq(Record)
    <3>1. Cat(e, queue') \in Seq(Record)  BY <2>2, CatProperties
    <3>2. Cat(<<>>, Cat(e, queue')) = Cat(e, queue')  BY <3>1, CatNone
    <3>3. Cat(spare, queue) = Cat(e, queue')  BY <2>1, <2>4, <3>2, Zenon
    <3>4. Row = Cat(sending, Cat(batch, Cat(e, queue')))  BY <3>3, Zenon DEF Row
    <3>5. CASE spare' = <<h>> /\ batch' = batch
      BY <1>1, <2>1, <2>3, <3>4, <3>5, Zenon DEF Row
    <3>6. CASE spare' = spare /\ batch' = Append(batch, h)
      <4>1. Cat(<<>>, queue') = queue'  BY <2>2, CatNone
      <4>2. Cat(Cat(batch, e), queue') = Cat(batch, Cat(e, queue'))  BY <1>1, <2>2, Regroup
      <4>3. Cat(batch, e) \in Seq(Record)  BY <1>1, CatProperties
      <4>4. Row' = Cat(sending, Cat(Cat(batch, e), queue'))
        BY <2>1, <2>4, <3>6, <4>1, Zenon DEF Row
      <4> QED BY <1>1, <2>4, <3>4, <3>6, <4>2, <4>3, <4>4, Zenon
    <3> QED BY <2>1, <3>5, <3>6, Zenon
  <2>6. TelemetryTypes'
    BY <1>5, <2>2, <2>5 DEF TakeQueued, TelemetryTypes, controlVars, producerVars
  <2>7. WorkerShape'
    BY <1>5 DEF TakeQueued, Waiting, Looping, WorkerShape, controlVars, producerVars
  <2> QED BY <1>5, <2>5, <2>6, <2>7, MoveKeeps DEF TakeQueued, producerVars
<1>6. CASE SeeClosed
  <2>1. TelemetryTypes' /\ WorkerShape' /\ Row' = Row
    BY <1>6 DEF SeeClosed, TelemetryTypes, WorkerShape, Row, controlVars, producerVars
  <2> QED BY <1>6, <2>1, MoveKeeps DEF SeeClosed, producerVars
<1>7. CASE Tick
  <2>1. TelemetryTypes' /\ WorkerShape' /\ Row' = Row
    BY <1>7 DEF Tick, TelemetryTypes, WorkerShape, Row, controlVars, producerVars
  <2> QED BY <1>7, <2>1, MoveKeeps DEF Tick, producerVars
<1>8. CASE Retry
  <2>1. TelemetryTypes' /\ WorkerShape' /\ Row' = Row
    BY <1>8 DEF Retry, TelemetryTypes, WorkerShape, Row, controlVars, producerVars
  <2> QED BY <1>8, <2>1, MoveKeeps DEF Retry, producerVars
<1> QED BY <1>2, <1>3, <1>4, <1>5, <1>6, <1>7, <1>8

\* The counters of a row that loses records: what was taken off is counted.
LEMMA BooksKeep ==
    ASSUME TelemetryInv, NEW n \in Nat, NEW l \in [Counters -> Nat],
           l["accepted"] = Accepted,
           SumFunctionOnSet(l, Outcomes) = SumFunctionOnSet(stats.count, Outcomes) + n,
           SumFunctionOnSet(l, Refused) = SumFunctionOnSet(stats.count, Refused),
           Row' \in Seq(Record), Len(Row) = n + Len(Row'), Bytes(Row') <= Bytes(Row),
           stats'.count = l, stats'.records = Len(Row'), stats'.bytes = Bytes(Row'),
           UNCHANGED submissions
    PROVE  Booked' /\ Accepted' = Accepted
<1>1. Accepted' = Accepted  BY DEF Accepted
<1>2. /\ Len(Row) \in Nat /\ Len(Row') \in Nat /\ Bytes(Row) \in Nat /\ Bytes(Row') \in Nat
  BY RowType, BytesOf, LenProperties DEF TelemetryInv
<1>3. SumFunctionOnSet(stats.count, Outcomes) \in Nat
  BY CounterSets, SumNat DEF TelemetryInv, TelemetryTypes
<1>4. /\ Len(Row) <= QUEUE_CAPACITY /\ Bytes(Row) <= QUEUE_BYTES
      /\ Accepted = Len(Row) + SumFunctionOnSet(stats.count, Outcomes)
      /\ submissions = Accepted + SumFunctionOnSet(stats.count, Refused)
  BY DEF TelemetryInv, Booked
<1>5. Len(Row') <= QUEUE_CAPACITY /\ Bytes(Row') <= QUEUE_BYTES
  BY <1>2, <1>4, ExportConfigAssumption
<1>6. Accepted = Len(Row') + SumFunctionOnSet(l, Outcomes)
  BY <1>2, <1>3, <1>4
<1> QED BY <1>1, <1>4, <1>5, <1>6 DEF Booked

\* What the worker drops when it stops is counted.
LEMMA StopKeeps ==
    ASSUME TelemetryInv, Stop
    PROVE  TelemetryInv'
<1> DEFINE k == stats.count
           n == stats.records
           l == [k EXCEPT !["shutdown_dropped"] = @ + n]
<1>1. /\ k \in [Counters -> Nat] /\ n \in Nat
      /\ stats \in [count : [Counters -> Nat], records : Nat, bytes : Nat]
      /\ "shutdown_dropped" \in Counters /\ "shutdown_dropped" \in Outcomes
      /\ "shutdown_dropped" \notin Refused
  BY CounterSets DEF TelemetryInv, TelemetryTypes, Outcomes, Refused, Counters
<1>2. /\ l \in [Counters -> Nat] /\ l["accepted"] = Accepted
      /\ SumFunctionOnSet(l, Outcomes) = SumFunctionOnSet(k, Outcomes) + n
      /\ SumFunctionOnSet(l, Refused) = SumFunctionOnSet(k, Refused)
  <2>1. /\ l \in [Counters -> Nat]
        /\ SumFunctionOnSet(l, Outcomes)
             = SumFunctionOnSet(k, Outcomes) + (IF "shutdown_dropped" \in Outcomes THEN n ELSE 0)
        /\ SumFunctionOnSet(l, Refused)
             = SumFunctionOnSet(k, Refused) + (IF "shutdown_dropped" \in Refused THEN n ELSE 0)
        /\ SumFunctionOnSet(k, Refused) \in Nat
    <3> HIDE DEF k, n
    <3> QED BY <1>1, CountGrows
  <2>2. l["accepted"] = Accepted  BY <1>1, CounterSets DEF Accepted
  <2> HIDE DEF k, l, n
  <2> QED BY <1>1, <2>1, <2>2
<1>3. stats' = [count |-> l, records |-> 0, bytes |-> 0]
  BY <1>1 DEF Stop, Bump
<1>4. /\ worker = "loop" /\ worker' = "stopped" /\ sending = <<>> /\ ~sender
      /\ queue' = <<>> /\ batch' = <<>> /\ spare' = <<>> /\ sending' = <<>>
      /\ progress' = [completed |-> Accepted, stopped |-> TRUE]
      /\ UNCHANGED <<sender, submissions, through, closing, late, drained, waiter>>
  BY DEF Stop, Looping, TelemetryInv, WorkerShape, Accepted, producerVars, controlVars
<1>5. Row' = <<>> /\ Row' \in Seq(Record) /\ Len(Row') = 0 /\ Bytes(Row') = 0
  <2>0. Cat(<<>>, <<>>) = <<>>  BY DEF Cat
  <2>1. Row' = <<>>  BY <1>4, <2>0, Zenon DEF Row
  <2> QED BY <2>1, BytesNone
<1>6. Len(Row) = n /\ Len(Row) \in Nat /\ Bytes(Row) \in Nat
  BY RowType DEF TelemetryInv, Booked
<1> HIDE DEF l
<1>7. stats'.count = l /\ stats'.records = 0 /\ stats'.bytes = 0  BY <1>3
<1>8. Booked' /\ Accepted' = Accepted
  <2>1. Len(Row) = n + Len(Row') /\ Bytes(Row') <= Bytes(Row) /\ stats'.records = Len(Row')
        /\ stats'.bytes = Bytes(Row')
    BY <1>1, <1>5, <1>6, <1>7
  <2> QED BY <1>1, <1>2, <1>4, <1>5, <1>7, <2>1, BooksKeep
<1>9. Accepted \in Nat  BY CounterSets DEF TelemetryInv, TelemetryTypes, Accepted
<1>10. TelemetryTypes'
  <2>1. stats' \in [count : [Counters -> Nat], records : Nat, bytes : Nat]  BY <1>2, <1>3
  <2>2. progress' \in [completed : Nat, stopped : BOOLEAN]  BY <1>4, <1>9
  <2> QED BY <1>4, <2>1, <2>2 DEF TelemetryInv, TelemetryTypes
<1>11. WorkerShape'  BY <1>4 DEF TelemetryInv, WorkerShape
<1>12. InOrder'
  <2>1. progress'.completed = Accepted  BY <1>4
  <2> QED BY <1>5, <1>8, <1>9, <2>1 DEF InOrder, Numbered
<1>13. Told'
  <2>1. progress'.completed = Accepted /\ waiter' = waiter  BY <1>4
  <2> QED BY <1>8, <2>1 DEF TelemetryInv, Told
<1> QED BY <1>8, <1>10, <1>11, <1>12, <1>13 DEF TelemetryInv

\* A batch that is settled leaves the row from the front, and the waiters hear of its
\* last record.
LEMMA SettleKeeps ==
    ASSUME TelemetryInv, worker = "send", NEW l \in [Counters -> Nat],
           l["accepted"] = Accepted,
           SumFunctionOnSet(l, Outcomes) = SumFunctionOnSet(stats.count, Outcomes) + Len(sending),
           SumFunctionOnSet(l, Refused) = SumFunctionOnSet(stats.count, Refused),
           Settle(l)
    PROVE  TelemetryInv'
<1> DEFINE rest == Cat(batch, Cat(spare, queue))
<1>1. /\ sending \in Seq(Record) /\ sending # <<>> /\ rest \in Seq(Record)
      /\ Row \in Seq(Record) /\ Row = Cat(sending, rest)
      /\ progress.completed \in Nat /\ Accepted \in Nat
  BY RowType, CounterSets DEF TelemetryInv, TelemetryTypes, WorkerShape, Row, Accepted
<1>2. /\ sending' = <<>> /\ worker' = "loop"
      /\ progress' = [completed |-> Last(sending).seq, stopped |-> FALSE]
      /\ UNCHANGED <<sender, submissions, through, closing, late, queue, batch, spare, drained,
                     waiter>>
  BY DEF Settle, producerVars, controlVars
<1>3. Row' = rest
  <2>1. Row' = Cat(<<>>, rest)  BY <1>2 DEF Row
  <2> HIDE DEF rest
  <2> QED BY <1>1, <2>1, CatNone
<1> HIDE DEF rest
<1>4. PICK m \in Nat \ {0}, o \in Nat, d \in Nat :
          m = Len(sending) /\ o = Len(rest) /\ d = progress.completed
  BY <1>1, LenProperties, EmptySeq
<1>5. /\ Len(Row) = m + o
      /\ \A i \in 1 .. m + o : Row[i] = IF i <= m THEN sending[i] ELSE rest[i - m]
      /\ Bytes(Row) = Bytes(sending) + Bytes(rest) /\ Bytes(sending) \in Nat /\ Bytes(rest) \in Nat
  BY <1>1, <1>4, CatProperties
<1>6. /\ \A i \in 1 .. m + o : Row[i].seq = d + i
      /\ Accepted = d + (m + o)
  BY <1>4, <1>5 DEF TelemetryInv, InOrder, Numbered
<1>7. Last(sending).seq = d + m
  <2>1. m \in 1 .. m + o /\ m <= m  BY <1>4
  <2>2. Row[m] = sending[m]  BY <1>5, <2>1
  <2> QED BY <1>4, <1>6, <2>1, <2>2 DEF Last
<1>8. \A i \in 1 .. o : rest[i].seq = (d + m) + i
  <2> TAKE i \in 1 .. o
  <2>1. m + i \in 1 .. m + o /\ ~(m + i <= m) /\ (m + i) - m = i /\ d + (m + i) = (d + m) + i
    BY <1>4
  <2>2. Row[m + i] = rest[i]  BY <1>5, <2>1
  <2> QED BY <1>6, <2>1, <2>2
<1>9. progress'.completed = d + m /\ d + m \in Nat /\ d <= d + m /\ progress'.stopped = FALSE
  BY <1>2, <1>4, <1>7
<1>10. /\ stats'.count = l /\ stats'.records = stats.records - Len(sending)
       /\ stats'.bytes = stats.bytes - Bytes(sending)
       /\ stats' = [count |-> l, records |-> stats.records - Len(sending),
                    bytes |-> stats.bytes - Bytes(sending)]
  BY DEF Settle, TelemetryInv, TelemetryTypes
<1>11. stats'.records = o /\ stats'.bytes = Bytes(rest)
  <2>1. stats.records = m + o /\ stats.bytes = Bytes(sending) + Bytes(rest)
    BY <1>5 DEF TelemetryInv, Booked
  <2>2. stats.records - m = o  BY <1>4, <2>1
  <2>3. stats.bytes - Bytes(sending) = Bytes(rest)  BY <1>5, <2>1
  <2> QED BY <1>4, <1>10, <2>2, <2>3, Zenon
<1>12. Booked' /\ Accepted' = Accepted
  <2>1. Len(Row) = m + Len(Row') /\ Bytes(Row') <= Bytes(Row)  BY <1>3, <1>4, <1>5
  <2>2. stats'.count = l /\ stats'.records = Len(Row') /\ stats'.bytes = Bytes(Row')
        /\ Row' \in Seq(Record)
    BY <1>1, <1>3, <1>4, <1>10, <1>11
  <2>3. SumFunctionOnSet(l, Outcomes) = SumFunctionOnSet(stats.count, Outcomes) + m
    BY <1>4
  <2> QED BY <1>2, <1>4, <2>1, <2>2, <2>3, BooksKeep
<1>13. TelemetryTypes'
  <2>1. stats' \in [count : [Counters -> Nat], records : Nat, bytes : Nat]
    <3>1. stats' = [count |-> l, records |-> o, bytes |-> Bytes(rest)]  BY <1>10, <1>11
    <3> QED BY <1>5, <3>1
  <2>2. progress' \in [completed : Nat, stopped : BOOLEAN]
    <3>1. progress' = [completed |-> d + m, stopped |-> FALSE]  BY <1>2, <1>7
    <3> QED BY <1>9, <3>1
  <2> QED BY <1>2, <2>1, <2>2 DEF TelemetryInv, TelemetryTypes
<1>14. WorkerShape'
  BY <1>2, <1>9 DEF TelemetryInv, WorkerShape
<1>15. InOrder'
  <2>1. Accepted = (d + m) + o
    <3>1. \A a, b, c \in Nat : a + (b + c) = (a + b) + c  OBVIOUS
    <3>2. m \in Nat /\ o \in Nat /\ d \in Nat  OBVIOUS
    <3>3. d + (m + o) = (d + m) + o  BY <3>1, <3>2, Zenon
    <3> QED BY <1>6, <3>3, Zenon
  <2> QED BY <1>3, <1>4, <1>8, <1>9, <1>12, <2>1 DEF InOrder, Numbered
<1>16. Told'
  <2> SUFFICES ASSUME NEW w \in Waiters
               PROVE  /\ waiter[w].state # "unsettled" /\ waiter[w].target <= Accepted
                      /\ waiter[w].state = "settled" => waiter[w].target <= d + m
    BY <1>2, <1>9, <1>12 DEF Told
  <2>1. /\ waiter[w].state # "unsettled" /\ waiter[w].target <= Accepted
        /\ waiter[w].state = "settled" => waiter[w].target <= d
        /\ waiter[w].target \in Nat
    BY <1>4 DEF TelemetryInv, Told, TelemetryTypes
  <2> QED BY <1>4, <2>1
<1> QED BY <1>12, <1>13, <1>14, <1>15, <1>16 DEF TelemetryInv

\* One outcome counts the whole batch.
LEMMA OneOutcome ==
    ASSUME TelemetryInv, NEW c \in Outcomes, NEW n \in Nat
    PROVE  LET l == [stats.count EXCEPT ![c] = @ + n]
           IN  /\ l \in [Counters -> Nat] /\ l["accepted"] = Accepted
               /\ SumFunctionOnSet(l, Outcomes) = SumFunctionOnSet(stats.count, Outcomes) + n
               /\ SumFunctionOnSet(l, Refused) = SumFunctionOnSet(stats.count, Refused)
               /\ SumFunctionOnSet(stats.count, Outcomes) \in Nat
<1> DEFINE k == stats.count
           l == [k EXCEPT ![c] = @ + n]
<1>1. k \in [Counters -> Nat] /\ c \in Counters /\ c # "accepted" /\ c \notin Refused
  BY CounterSets DEF TelemetryInv, TelemetryTypes
<1>2. l["accepted"] = Accepted  BY <1>1, CounterSets DEF Accepted
<1>3. /\ l \in [Counters -> Nat]
      /\ SumFunctionOnSet(l, Outcomes)
           = SumFunctionOnSet(k, Outcomes) + (IF c \in Outcomes THEN n ELSE 0)
      /\ SumFunctionOnSet(l, Refused)
           = SumFunctionOnSet(k, Refused) + (IF c \in Refused THEN n ELSE 0)
      /\ SumFunctionOnSet(k, Outcomes) \in Nat /\ SumFunctionOnSet(k, Refused) \in Nat
  <2> HIDE DEF k
  <2> QED BY <1>1, CountGrows
<1>4. SumFunctionOnSet(l, Refused) = SumFunctionOnSet(k, Refused)
  <2> HIDE DEF k, l
  <2> QED BY <1>1, <1>3
<1>5. SumFunctionOnSet(l, Outcomes) = SumFunctionOnSet(k, Outcomes) + n
  <2> HIDE DEF k, l
  <2> QED BY <1>3
<1> QED BY <1>2, <1>3, <1>4, <1>5

\* Every answer of the collector, and none, counts the batch once.
LEMMA SendKeeps ==
    ASSUME TelemetryInv, ExportTimeout \/ Refuse \/ \E rejected \in 0 .. MAX_BATCH_RECORDS + 1 :
                                                        Respond(rejected)
    PROVE  TelemetryInv'
<1>1. worker = "send" /\ Len(sending) \in Nat /\ stats.count \in [Counters -> Nat]
  BY LenProperties DEF ExportTimeout, Refuse, Respond, TelemetryInv, TelemetryTypes
<1>2. {"exported", "rejected", "failed", "timed_out"} \subseteq Outcomes /\ "exported" # "rejected"
  BY DEF Outcomes
<1>3. ASSUME NEW c \in Outcomes, Settle([stats.count EXCEPT ![c] = @ + Len(sending)])
      PROVE  TelemetryInv'
  <2> DEFINE l == [stats.count EXCEPT ![c] = @ + Len(sending)]
  <2>1. /\ l \in [Counters -> Nat] /\ l["accepted"] = Accepted
        /\ SumFunctionOnSet(l, Outcomes)
             = SumFunctionOnSet(stats.count, Outcomes) + Len(sending)
        /\ SumFunctionOnSet(l, Refused) = SumFunctionOnSet(stats.count, Refused)
    <3>1. PICK n \in Nat : n = Len(sending)  BY <1>1
    <3> QED BY <3>1, OneOutcome
  <2>2. Settle(l)  BY <1>3
  <2> HIDE DEF l
  <2> QED BY <1>1, <2>1, <2>2, SettleKeeps
<1>4. ASSUME NEW rejected \in Nat, rejected <= Len(sending),
             Settle([stats.count EXCEPT !["exported"] = @ + Len(sending) - rejected,
                                        !["rejected"] = @ + rejected])
      PROVE  TelemetryInv'
  <2> DEFINE k == stats.count
             e == Len(sending) - rejected
             j == [k EXCEPT !["exported"] = @ + e]
             l == [j EXCEPT !["rejected"] = @ + rejected]
  <2>1. e \in Nat /\ e + rejected = Len(sending)  BY <1>1, <1>4
  <2>2. k \in [Counters -> Nat] /\ k["exported"] \in Nat /\ "exported" \in Counters
        /\ "rejected" \in Counters
    BY <1>1, <1>2, CounterSets
  <2>3. l = [stats.count EXCEPT !["exported"] = @ + Len(sending) - rejected,
                                !["rejected"] = @ + rejected]
    <3>1. k["exported"] + e = k["exported"] + Len(sending) - rejected
      BY <1>1, <1>4, <2>2
    <3> QED BY <3>1
  <2> HIDE DEF e
  <2>4. /\ j \in [Counters -> Nat] /\ j["accepted"] = Accepted
        /\ SumFunctionOnSet(j, Outcomes) = SumFunctionOnSet(k, Outcomes) + e
        /\ SumFunctionOnSet(j, Refused) = SumFunctionOnSet(k, Refused)
        /\ SumFunctionOnSet(k, Outcomes) \in Nat
    BY <1>2, <2>1, OneOutcome
  <2> HIDE DEF j
  <2>5. /\ l \in [Counters -> Nat]
        /\ SumFunctionOnSet(l, Outcomes)
             = SumFunctionOnSet(j, Outcomes) + (IF "rejected" \in Outcomes THEN rejected ELSE 0)
        /\ SumFunctionOnSet(l, Refused)
             = SumFunctionOnSet(j, Refused) + (IF "rejected" \in Refused THEN rejected ELSE 0)
        /\ SumFunctionOnSet(j, Refused) \in Nat
    <3>1. /\ l \in [Counters -> Nat] /\ l["rejected"] = j["rejected"] + rejected
          /\ \A x \in Counters : x # "rejected" => l[x] = j[x]
      BY <2>2, <2>4
    <3> HIDE DEF l, k
    <3>2. l \in [Counters -> Int] /\ j \in [Counters -> Int] /\ rejected \in Int  BY <2>4, <3>1
    <3>3. \A S \in {Outcomes, Refused} :
              SumFunctionOnSet(l, S) = SumFunctionOnSet(j, S)
                                         + (IF "rejected" \in S THEN rejected ELSE 0)
      BY <2>2, <3>1, <3>2, CounterSets, SumBump
    <3>4. SumFunctionOnSet(j, Refused) \in Nat  BY <2>4, CounterSets, SumNat
    <3> QED BY <3>1, <3>3, <3>4
  <2>6. l["accepted"] = Accepted  BY <2>2, <2>4, CounterSets
  <2>7. "rejected" \in Outcomes /\ "rejected" \notin Refused  BY <1>2, CounterSets
  <2>8. Settle(l)  BY <1>4, <2>3, Zenon
  <2> HIDE DEF l
  <2>9. SumFunctionOnSet(l, Outcomes) = SumFunctionOnSet(k, Outcomes) + Len(sending)
    <3> HIDE DEF k
    <3>1. PICK x \in Nat : x = SumFunctionOnSet(k, Outcomes)  BY <2>4
    <3>2. SumFunctionOnSet(l, Outcomes) = (x + e) + rejected  BY <2>4, <2>5, <2>7, <3>1
    <3>3. PICK m \in Nat : m = Len(sending)  BY <1>1
    <3>4. (x + e) + rejected = x + m  BY <2>1, <3>3
    <3> QED BY <3>1, <3>2, <3>3, <3>4, Zenon
  <2>10. SumFunctionOnSet(l, Refused) = SumFunctionOnSet(k, Refused)
    BY <2>4, <2>5, <2>7
  <2> QED BY <1>1, <2>5, <2>6, <2>8, <2>9, <2>10, SettleKeeps
<1>5. CASE ExportTimeout  BY <1>2, <1>3, <1>5 DEF ExportTimeout
<1>6. CASE Refuse  BY <1>2, <1>3, <1>6 DEF Refuse
<1>7. CASE \E rejected \in 0 .. MAX_BATCH_RECORDS + 1 : Respond(rejected)
  <2>1. PICK rejected \in 0 .. MAX_BATCH_RECORDS + 1 : Respond(rejected)  BY <1>7
  <2>2. rejected \in Nat  BY ExportConfigAssumption
  <2>3. CASE RejectedInRange(rejected)
    <3>1. rejected <= Len(sending)
          /\ Settle([stats.count EXCEPT !["exported"] = @ + Len(sending) - rejected,
                                        !["rejected"] = @ + rejected])
      BY <2>1, <2>3, Zenon DEF Respond, RejectedInRange
    <3> QED BY <1>4, <2>2, <3>1, Zenon
  <2>4. CASE ~RejectedInRange(rejected)
    <3>1. Settle([stats.count EXCEPT !["failed"] = @ + Len(sending)])
      BY <2>1, <2>4, Zenon DEF Respond
    <3> QED BY <1>2, <1>3, <3>1, Zenon
  <2> QED BY <2>3, <2>4
<1> QED BY <1>5, <1>6, <1>7

\* A new exporter holds nothing and has counted nothing.
LEMMA TelemetryStarts == TelemetryInit => TelemetryInv
<1> SUFFICES ASSUME TelemetryInit PROVE TelemetryInv
  OBVIOUS
<1> DEFINE k == [c \in Counters |-> 0]
<1>1. stats = [count |-> k, records |-> 0, bytes |-> 0] /\ k \in [Counters -> Nat]
  BY DEF TelemetryInit
<1>2. SumFunctionOnSet(k, Outcomes) = 0 /\ SumFunctionOnSet(k, Refused) = 0
  BY CounterSets, SumZero
<1>3. Row = <<>>
  <2>1. Cat(<<>>, <<>>) = <<>>  BY DEF Cat
  <2> QED BY <2>1, Zenon DEF Row, TelemetryInit
<1>4. stats.count = k /\ stats.records = 0 /\ stats.bytes = 0 /\ Accepted = 0
  BY <1>1, CounterSets DEF Accepted
<1>5. TelemetryTypes
  <2>1. stats \in [count : [Counters -> Nat], records : Nat, bytes : Nat]  BY <1>1
  <2>2. <<>> \in Seq(Record)  OBVIOUS
  <2> QED BY <2>1, <2>2 DEF TelemetryInit, TelemetryTypes, WaiterStates, NotWaiting
<1> HIDE DEF k
<1>6. WorkerShape  BY DEF TelemetryInit, WorkerShape
<1>7. InOrder
  BY <1>3, <1>4 DEF TelemetryInit, InOrder, Numbered
<1>8. Booked
  BY <1>2, <1>3, <1>4, BytesNone, ExportConfigAssumption DEF TelemetryInit, Booked
<1>9. Told
  BY <1>4 DEF TelemetryInit, Told, NotWaiting
<1> QED BY <1>5, <1>6, <1>7, <1>8, <1>9 DEF TelemetryInv

\* Every step keeps the exporter's books.
LEMMA TelemetryStep == TelemetryInv /\ [TelemetryNext]_telemetryVars => TelemetryInv'
<1> SUFFICES ASSUME TelemetryInv, [TelemetryNext]_telemetryVars PROVE TelemetryInv'
  OBVIOUS
<1>1. CASE UNCHANGED telemetryVars
  <2>1. TelemetryTypes' /\ WorkerShape' /\ Row' = Row
    BY <1>1 DEF telemetryVars, producerVars, controlVars, workerVars, TelemetryInv,
                TelemetryTypes, WorkerShape, Row
  <2> QED BY <1>1, <2>1, MoveKeeps DEF telemetryVars, producerVars, workerVars
<1>2. CASE \E bytes \in Encodings : Submit(bytes)  BY <1>2, SubmitKeeps
<1>3. CASE \E w \in Waiters : Flush(w) \/ BeginClose(w) \/ CloseAgain(w) \/ Return(w)
                              \/ FlushTimeout(w)
  BY <1>3, RegisterKeeps, ReturnKeeps
<1>4. CASE CloseDeadline \/ WorkerLoop \/ Tick \/ SendStep
  BY <1>4, WorkerKeeps, StopKeeps, SendKeeps DEF WorkerLoop, SendStep
<1> QED BY <1>1, <1>2, <1>3, <1>4 DEF TelemetryNext

\* The books imply what is promised: the records held, in whatever slots, are those of
\* the row.
LEMMA BooksAreRight == TelemetryInv => ExportsAreAccounted
<1> SUFFICES ASSUME TelemetryInv PROVE ExportsAreAccounted
  OBVIOUS
<1>1. PICK a \in Seq(Record), b \in Seq(Record), c \in Seq(Record), q \in Seq(Record) :
          a = sending /\ b = batch /\ c = spare /\ q = queue
  BY Zenon DEF TelemetryInv, TelemetryTypes
<1>2. Held = Cat(Cat(Cat(q, b), c), a)  BY <1>1, Zenon DEF Held, Cat
<1>3. Row = Cat(a, Cat(b, Cat(c, q)))  BY <1>1, Zenon DEF Row
<1>4. PICK u \in Seq(Record), v \in Seq(Record), x \in Seq(Record), y \in Seq(Record) :
          /\ u = Cat(q, b) /\ v = Cat(u, c)
          /\ x = Cat(c, q) /\ y = Cat(b, x)
  BY CatProperties
<1>5. Held = Cat(v, a) /\ Row = Cat(a, y)  BY <1>2, <1>3, <1>4, Zenon
<1>6. Held \in Seq(Record) /\ Len(Held) \in Nat /\ Len(Held) = Len(Row)
      /\ Bytes(Held) = Bytes(Row)
  <2>1. Held \in Seq(Record) /\ Len(Held) = Len(v) + Len(a) /\ Bytes(Held) = Bytes(v) + Bytes(a)
    BY <1>5, CatProperties
  <2>2. Len(v) = Len(u) + Len(c) /\ Bytes(v) = Bytes(u) + Bytes(c)  BY <1>4, CatProperties
  <2>3. Len(u) = Len(q) + Len(b) /\ Bytes(u) = Bytes(q) + Bytes(b)  BY <1>4, CatProperties
  <2>4. Len(Row) = Len(a) + Len(y) /\ Bytes(Row) = Bytes(a) + Bytes(y)  BY <1>5, CatProperties
  <2>5. Len(y) = Len(b) + Len(x) /\ Bytes(y) = Bytes(b) + Bytes(x)  BY <1>4, CatProperties
  <2>6. Len(x) = Len(c) + Len(q) /\ Bytes(x) = Bytes(c) + Bytes(q)  BY <1>4, CatProperties
  <2>7. /\ Len(a) \in Nat /\ Len(b) \in Nat /\ Len(c) \in Nat /\ Len(q) \in Nat
        /\ Bytes(a) \in Nat /\ Bytes(b) \in Nat /\ Bytes(c) \in Nat /\ Bytes(q) \in Nat
    BY BytesOf, LenProperties
  <2>8. Len(Held) = Len(Row) /\ Len(Held) \in Nat  BY <2>1, <2>2, <2>3, <2>4, <2>5, <2>6, <2>7
  <2>9. Bytes(Held) = Bytes(Row)  BY <2>1, <2>2, <2>3, <2>4, <2>5, <2>6, <2>7
  <2> QED BY <2>1, <2>8, <2>9
<1>7. AcceptedIsCounted
  BY <1>6 DEF TelemetryInv, Booked, AcceptedIsCounted, Accepted
<1>8. \A i \in DOMAIN Held : Held[i].seq > progress.completed
  <2> DEFINE Late(s) == \A i \in 1 .. Len(s) : s[i].seq > progress.completed
  <2>1. \A s \in Seq(Record), t \in Seq(Record) : Late(Cat(s, t)) <=> Late(s) /\ Late(t)
    <3> TAKE s \in Seq(Record), t \in Seq(Record)
    <3>1. PICK m \in Nat, o \in Nat : m = Len(s) /\ o = Len(t)  BY LenProperties
    <3>2. /\ Len(Cat(s, t)) = m + o
          /\ \A i \in 1 .. m + o : Cat(s, t)[i] = IF i <= m THEN s[i] ELSE t[i - m]
      BY <3>1, CatProperties
    <3>3. ASSUME Late(s), Late(t) PROVE Late(Cat(s, t))
      <4> SUFFICES ASSUME NEW i \in 1 .. m + o PROVE Cat(s, t)[i].seq > progress.completed
        BY <3>2
      <4>1. CASE i <= m
        <5>1. i \in 1 .. m  BY <4>1
        <5> QED BY <3>1, <3>2, <3>3, <4>1, <5>1
      <4>2. CASE ~(i <= m)
        <5>1. i - m \in 1 .. o  BY <4>2
        <5> QED BY <3>1, <3>2, <3>3, <4>2, <5>1
      <4> QED BY <4>1, <4>2
    <3>4. ASSUME Late(Cat(s, t)) PROVE Late(s)
      <4> SUFFICES ASSUME NEW i \in 1 .. m PROVE s[i].seq > progress.completed
        BY <3>1
      <4>1. i \in 1 .. m + o /\ i <= m  OBVIOUS
      <4> QED BY <3>2, <3>4, <4>1
    <3>5. ASSUME Late(Cat(s, t)) PROVE Late(t)
      <4> SUFFICES ASSUME NEW i \in 1 .. o PROVE t[i].seq > progress.completed
        BY <3>1
      <4>1. m + i \in 1 .. m + o /\ ~(m + i <= m) /\ (m + i) - m = i  OBVIOUS
      <4>2. Cat(s, t)[m + i] = t[i]  BY <3>2, <4>1
      <4> QED BY <3>2, <3>5, <4>1, <4>2
    <3> QED BY <3>3, <3>4, <3>5
  <2>2. Late(Row)
    <3>1. PICK d \in Nat : d = progress.completed  BY DEF TelemetryInv, TelemetryTypes
    <3>2. \A i \in 1 .. Len(Row) : Row[i].seq = d + i
      BY <3>1 DEF TelemetryInv, InOrder, Numbered
    <3>3. \A i \in 1 .. Len(Row) : d + i > d  BY <1>6
    <3> QED BY <3>1, <3>2, <3>3
  <2> HIDE DEF Late
  <2>3. Late(a) /\ Late(y)  BY <1>5, <2>1, <2>2
  <2>4. Late(b) /\ Late(x)  BY <1>4, <2>1, <2>3
  <2>5. Late(c) /\ Late(q)  BY <1>4, <2>1, <2>4
  <2>6. Late(u)  BY <1>4, <2>1, <2>4, <2>5
  <2>7. Late(v)  BY <1>4, <2>1, <2>5, <2>6
  <2>8. Late(Held)  BY <1>5, <2>1, <2>3, <2>7
  <2>9. DOMAIN Held = 1 .. Len(Held)  BY <1>6, LenProperties
  <2> QED BY <2>8, <2>9 DEF Late
<1>9. WaitersAreTold
  <2> SUFFICES ASSUME NEW w \in Waiters
               PROVE  /\ waiter[w].state # "unsettled"
                      /\ waiter[w].state = "settled" =>
                             \A i \in DOMAIN Held : Held[i].seq > waiter[w].target
    BY DEF WaitersAreTold
  <2>1. /\ waiter[w].state # "unsettled" /\ waiter[w].target \in Nat
        /\ waiter[w].state = "settled" => waiter[w].target <= progress.completed
        /\ progress.completed \in Nat
    BY DEF TelemetryInv, Told, TelemetryTypes
  <2>2. \A i \in DOMAIN Held : Held[i].seq \in Nat
    <3>1. \A i \in DOMAIN Held : Held[i] \in Record  BY <1>6
    <3> QED BY <3>1 DEF Record
  <2>3. ASSUME waiter[w].state = "settled", NEW i \in DOMAIN Held
        PROVE  Held[i].seq > waiter[w].target
    <3>1. PICK n \in Nat : n = Held[i].seq  BY <2>2
    <3>2. PICK t \in Nat, d \in Nat : t = waiter[w].target /\ d = progress.completed  BY <2>1
    <3>3. n > d /\ t <= d  BY <1>8, <2>1, <2>3, <3>1, <3>2
    <3> QED BY <3>1, <3>2, <3>3
  <2> QED BY <2>1, <2>3
<1> QED BY <1>7, <1>9 DEF ExportsAreAccounted

\* The exporter's books are right and those who wait are told the truth.
THEOREM ExportsAccounted == TelemetrySpec => []ExportsAreAccounted
<1>1. TelemetryInit => TelemetryInv  BY TelemetryStarts
<1>2. TelemetryInv /\ [TelemetryNext]_telemetryVars => TelemetryInv'  BY TelemetryStep
<1>3. TelemetryInv => ExportsAreAccounted  BY BooksAreRight
<1> QED BY <1>1, <1>2, <1>3, PTL DEF TelemetrySpec

-----------------------------------------------------------------------------
(* Game output *)

Item == [stream : Streams, mandatory : BOOLEAN, form : {"line", "long", "torn", "error"},
         size : Nat, says : Says]

ProcessTypes ==
    /\ child \in {"up", "killed", "dead"} /\ heirs \in {"none", "group", "escaped"}
    /\ output \in [Streams -> Seq(Item)]
    /\ reader \in [Streams -> {"reading", "ended", "aborted"}]
    /\ protocol \in Seq(Item) /\ logs \in Seq(Item)
    /\ dropped \in [Streams -> Nat] /\ written \in [Streams -> Nat]
    /\ delivered \in [Streams -> Nat]
    /\ fatal \in BOOLEAN /\ lost \in BOOLEAN /\ handle \in BOOLEAN
    /\ forced \in BOOLEAN /\ termed \in BOOLEAN
    /\ sup \in {"watch", "drain", "done"}
    /\ report \in [forced : BOOLEAN, drained : BOOLEAN, error : BOOLEAN]

\* A stream carries its own records; only its last may be torn.
OutputShape ==
    \A s \in Streams : \A i \in 1 .. Len(output[s]) :
        /\ output[s][i].stream = s /\ output[s][i].form # "error"
        /\ output[s][i].form = "torn" => i = Len(output[s])

\* Every record is somewhere while there is a handle.
Accounts ==
    handle => \A s \in Streams :
        written[s] = Len(output[s]) + QueuedOf(s) + delivered[s] + dropped[s]

Limits == Len(protocol) <= PROTOCOL_QUEUE_LINES /\ HeldBytes(logs) <= LOG_QUEUE_BYTES

\* A lost control record breaks the protocol; a stream of control records that was
\* read to its end is empty and nobody writes to it.
Endings ==
    /\ lost => fatal
    /\ \A s \in Streams \ {"Stderr"} :
          reader[s] = "ended" => fatal \/ (~Writers /\ output[s] = <<>>)
    /\ sup # "watch" => child = "dead"
    /\ sup = "done" => /\ \A s \in Streams : reader[s] # "reading"
                       /\ report.error = fatal
                       /\ report.drained => \A s \in Streams : reader[s] = "ended"

ProcessInv == ProcessTypes /\ OutputShape /\ Accounts /\ Limits /\ Endings

-----------------------------------------------------------------------------
(* Counting *)

Mark(s) == [r \in Item |-> IF r.stream = s THEN 1 ELSE 0]

\* The records of a stream in a queue weigh one each.
LEMMA CountWeighs ==
    ASSUME NEW u \in Seq(Item), NEW s
    PROVE  CountOf(u, s) = Weight(u, Mark(s)) /\ Mark(s) \in [Item -> Nat]
<1>1. \A i \in DOMAIN u : u[i] \in Item  OBVIOUS
<1>2. [i \in DOMAIN u |-> IF u[i].stream = s THEN 1 ELSE 0]
          = [i \in DOMAIN u |-> Mark(s)[u[i]]]
  BY <1>1 DEF Mark
<1>3. Mark(s) \in [Item -> Nat]  BY DEF Mark
<1> QED BY <1>2, <1>3 DEF CountOf, Weight

\* A record more at the end of a queue.
LEMMA CountAppend ==
    ASSUME NEW u \in Seq(Item), NEW r \in Item, NEW s
    PROVE  CountOf(Append(u, r), s) = CountOf(u, s) + (IF r.stream = s THEN 1 ELSE 0)
<1>1. Append(u, r) \in Seq(Item)  BY AppendProperties
<1>2. /\ CountOf(Append(u, r), s) = Weight(Append(u, r), Mark(s))
      /\ CountOf(u, s) = Weight(u, Mark(s)) /\ Mark(s) \in [Item -> Nat]
  BY <1>1, CountWeighs
<1>3. Weight(Append(u, r), Mark(s)) = Weight(u, Mark(s)) + Mark(s)[r]  BY <1>2, WeightAppend
<1>4. Mark(s)[r] = IF r.stream = s THEN 1 ELSE 0  BY DEF Mark
<1> QED BY <1>2, <1>3, <1>4

\* A record less at the front.
LEMMA CountTail ==
    ASSUME NEW u \in Seq(Item), u # <<>>, NEW s
    PROVE  /\ Head(u) \in Item /\ Tail(u) \in Seq(Item)
           /\ CountOf(u, s) = (IF Head(u).stream = s THEN 1 ELSE 0) + CountOf(Tail(u), s)
<1>1. Head(u) \in Item /\ Tail(u) \in Seq(Item)  BY HeadTailProperties
<1>2. /\ CountOf(Tail(u), s) = Weight(Tail(u), Mark(s))
      /\ CountOf(u, s) = Weight(u, Mark(s)) /\ Mark(s) \in [Item -> Nat]
  BY <1>1, CountWeighs
<1>3. Weight(u, Mark(s)) = Mark(s)[Head(u)] + Weight(Tail(u), Mark(s))  BY <1>2, WeightTail
<1>4. Mark(s)[Head(u)] = IF Head(u).stream = s THEN 1 ELSE 0  BY <1>1 DEF Mark
<1> QED BY <1>1, <1>2, <1>3, <1>4

\* Counts are numbers.
LEMMA CountNat ==
    ASSUME NEW u \in Seq(Item), NEW s
    PROVE  CountOf(u, s) \in Nat
BY CountWeighs, WeightNat

\* An empty queue has no records of any stream.
LEMMA CountNone == \A s : CountOf(<<>>, s) = 0
<1>1. <<>> \in Seq(Item)  OBVIOUS
<1> QED BY <1>1, CountWeighs, WeightNone

Charge == [r \in Item |-> r.size]

\* The bytes a queue holds are what it weighs by size.
LEMMA HeldWeighs ==
    ASSUME NEW u \in Seq(Item)
    PROVE  HeldBytes(u) = Weight(u, Charge) /\ Charge \in [Item -> Nat]
<1>1. \A i \in DOMAIN u : u[i] \in Item  OBVIOUS
<1>2. [i \in DOMAIN u |-> u[i].size] = [i \in DOMAIN u |-> Charge[u[i]]]
  BY <1>1 DEF Charge
<1>3. Charge \in [Item -> Nat]  BY DEF Charge, Item
<1> QED BY <1>2, <1>3 DEF HeldBytes, Weight

\* Bytes are numbers.
LEMMA HeldNat ==
    ASSUME NEW u \in Seq(Item)
    PROVE  HeldBytes(u) \in Nat
BY HeldWeighs, WeightNat

\* A record more is charged for its size.
LEMMA HeldAppend ==
    ASSUME NEW u \in Seq(Item), NEW r \in Item
    PROVE  HeldBytes(Append(u, r)) = HeldBytes(u) + r.size
<1>1. Append(u, r) \in Seq(Item)  BY AppendProperties
<1>2. /\ HeldBytes(Append(u, r)) = Weight(Append(u, r), Charge)
      /\ HeldBytes(u) = Weight(u, Charge) /\ Charge \in [Item -> Nat]
  BY <1>1, HeldWeighs
<1>3. Weight(Append(u, r), Charge) = Weight(u, Charge) + Charge[r]  BY <1>2, WeightAppend
<1>4. Charge[r] = r.size  BY DEF Charge
<1> QED BY <1>2, <1>3, <1>4

\* A record less frees its size.
LEMMA HeldTail ==
    ASSUME NEW u \in Seq(Item), u # <<>>
    PROVE  /\ HeldBytes(u) \in Nat /\ HeldBytes(Tail(u)) \in Nat
           /\ HeldBytes(Tail(u)) <= HeldBytes(u)
<1>1. Head(u) \in Item /\ Tail(u) \in Seq(Item)  BY HeadTailProperties
<1>2. /\ HeldBytes(Tail(u)) = Weight(Tail(u), Charge)
      /\ HeldBytes(u) = Weight(u, Charge) /\ Charge \in [Item -> Nat]
  BY <1>1, HeldWeighs
<1>3. Weight(u, Charge) = Charge[Head(u)] + Weight(Tail(u), Charge)  BY <1>2, WeightTail
<1>4. Weight(u, Charge) \in Nat /\ Weight(Tail(u), Charge) \in Nat /\ Charge[Head(u)] \in Nat
  BY <1>1, <1>2, WeightNat
<1> QED BY <1>2, <1>3, <1>4

\* An empty queue holds nothing.
LEMMA HeldNone == HeldBytes(<<>>) = 0
<1>1. <<>> \in Seq(Item)  OBVIOUS
<1> QED BY <1>1, HeldWeighs, WeightNone

-----------------------------------------------------------------------------
(* One lemma per action *)

\* A record that is emitted joins a queue within its limits, or is counted.
LEMMA EmitKeeps ==
    ASSUME ProcessTypes, Limits, NEW r \in Item, Emit(r)
    PROVE  /\ protocol' \in Seq(Item) /\ logs' \in Seq(Item) /\ dropped' \in [Streams -> Nat]
           /\ fatal' \in BOOLEAN /\ lost' \in BOOLEAN
           /\ Limits'
           /\ \A s \in Streams : QueuedOf(s)' + dropped'[s]
                  = QueuedOf(s) + dropped[s] + (IF r.stream = s THEN 1 ELSE 0)
           /\ fatal => fatal'
           /\ lost' => lost \/ fatal' \/ (r.mandatory /\ r.form = "torn")
           /\ r.mandatory /\ r.form = "error" => fatal'
           /\ \/ protocol' = Append(protocol, r) /\ logs' = logs /\ dropped' = dropped
              \/ logs' = Append(logs, r) /\ protocol' = protocol /\ dropped' = dropped
              \/ /\ protocol' = protocol /\ logs' = logs
                 /\ dropped'[r.stream] # 0 /\ \A s \in Streams : dropped[s] # 0 => dropped'[s] # 0
<1>1. /\ protocol \in Seq(Item) /\ logs \in Seq(Item) /\ dropped \in [Streams -> Nat]
      /\ fatal \in BOOLEAN /\ lost \in BOOLEAN
      /\ Len(protocol) \in Nat /\ HeldBytes(logs) \in Nat
      /\ r.stream \in Streams /\ r.mandatory \in BOOLEAN /\ r.size \in Nat
      /\ r.form \in {"line", "long", "torn", "error"}
  <2>1. HeldBytes(logs) \in Nat  BY HeldNat DEF ProcessTypes
  <2> QED BY <2>1, LenProperties DEF ProcessTypes, Item
<1>2. ASSUME NEW s \in Streams
      PROVE  CountOf(protocol, s) \in Nat /\ CountOf(logs, s) \in Nat /\ dropped[s] \in Nat
  BY <1>1, CountNat
<1>3. CASE Fits(r) /\ r.mandatory
  <2>1. /\ protocol' = Append(protocol, r) /\ logs' = logs /\ dropped' = dropped
        /\ fatal' = (fatal \/ Broken(r)) /\ lost' = (lost \/ (r.mandatory /\ r.form # "line"))
        /\ Len(protocol) < PROTOCOL_QUEUE_LINES
    BY <1>3, Zenon DEF Emit, Enqueue, Fits
  <2>2. protocol' \in Seq(Item) /\ Len(protocol') = Len(protocol) + 1
    BY <1>1, <2>1, AppendProperties
  <2>3. Limits'  BY <1>1, <2>1, <2>2, QueuesAssumption DEF Limits
  <2>4. ASSUME NEW s \in Streams
        PROVE  QueuedOf(s)' + dropped'[s]
                  = QueuedOf(s) + dropped[s] + (IF r.stream = s THEN 1 ELSE 0)
    <3>1. CountOf(protocol', s) = CountOf(protocol, s) + (IF r.stream = s THEN 1 ELSE 0)
      BY <1>1, <2>1, CountAppend
    <3> QED BY <1>2, <2>1, <3>1 DEF QueuedOf
  <2> QED BY <1>1, <2>1, <2>2, <2>3, <2>4 DEF Broken
<1>4. CASE Fits(r) /\ ~r.mandatory
  <2>1. /\ logs' = Append(logs, r) /\ protocol' = protocol /\ dropped' = dropped
        /\ fatal' = (fatal \/ Broken(r)) /\ lost' = (lost \/ (r.mandatory /\ r.form # "line"))
        /\ HeldBytes(logs) + r.size <= LOG_QUEUE_BYTES
    BY <1>4, Zenon DEF Emit, Enqueue, Fits
  <2>2. logs' \in Seq(Item) /\ HeldBytes(logs') = HeldBytes(logs) + r.size
    BY <1>1, <2>1, AppendProperties, HeldAppend
  <2>3. Limits'  BY <1>1, <2>1, <2>2, QueuesAssumption DEF Limits
  <2>4. ASSUME NEW s \in Streams
        PROVE  QueuedOf(s)' + dropped'[s]
                  = QueuedOf(s) + dropped[s] + (IF r.stream = s THEN 1 ELSE 0)
    <3>1. CountOf(logs', s) = CountOf(logs, s) + (IF r.stream = s THEN 1 ELSE 0)
      BY <1>1, <2>1, CountAppend
    <3> QED BY <1>2, <2>1, <3>1 DEF QueuedOf
  <2> QED BY <1>1, <1>4, <2>1, <2>2, <2>3, <2>4 DEF Broken
<1>5. CASE ~Fits(r)
  <2>1. /\ logs' = logs /\ protocol' = protocol
        /\ dropped' = [dropped EXCEPT ![r.stream] = @ + 1]
        /\ fatal' = (fatal \/ r.mandatory) /\ lost' = (lost \/ r.mandatory)
    BY <1>5, Zenon DEF Emit, Drop
  <2>2. /\ dropped' \in [Streams -> Nat] /\ dropped'[r.stream] = dropped[r.stream] + 1
        /\ \A s \in Streams : s # r.stream => dropped'[s] = dropped[s]
    BY <1>1, <2>1
  <2>3. Limits'  BY <2>1 DEF Limits
  <2>4. ASSUME NEW s \in Streams
        PROVE  /\ QueuedOf(s)' + dropped'[s]
                  = QueuedOf(s) + dropped[s] + (IF r.stream = s THEN 1 ELSE 0)
               /\ dropped[s] # 0 => dropped'[s] # 0
    <3>1. dropped'[s] = dropped[s] + (IF r.stream = s THEN 1 ELSE 0)  BY <1>2, <2>2
    <3>2. QueuedOf(s)' = QueuedOf(s) /\ QueuedOf(s) \in Nat  BY <1>2, <2>1 DEF QueuedOf
    <3> QED BY <1>2, <3>1, <3>2
  <2>5. dropped'[r.stream] # 0  BY <1>1, <2>2
  <2> QED BY <1>1, <2>1, <2>2, <2>3, <2>4, <2>5
<1> QED BY <1>1, <1>3, <1>4, <1>5

\* The records of every stream that a consumer may still read.
LEMMA QueuedNat ==
    ASSUME ProcessTypes, NEW s \in Streams
    PROVE  /\ QueuedOf(s) \in Nat /\ dropped[s] \in Nat /\ delivered[s] \in Nat
           /\ written[s] \in Nat /\ output[s] \in Seq(Item) /\ Len(output[s]) \in Nat
<1>1. CountOf(protocol, s) \in Nat /\ CountOf(logs, s) \in Nat
  BY CountNat DEF ProcessTypes
<1>2. output[s] \in Seq(Item)  BY DEF ProcessTypes
<1> QED BY <1>1, <1>2, LenProperties DEF ProcessTypes, QueuedOf

\* The same after a step.
LEMMA QueuedNext ==
    ASSUME protocol' \in Seq(Item), logs' \in Seq(Item), dropped' \in [Streams -> Nat],
           output' \in [Streams -> Seq(Item)], NEW s \in Streams
    PROVE  QueuedOf(s)' \in Nat /\ dropped'[s] \in Nat /\ Len(output'[s]) \in Nat
<1>1. CountOf(protocol', s) \in Nat /\ CountOf(logs', s) \in Nat
  BY CountNat
<1>2. output'[s] \in Seq(Item)  OBVIOUS
<1> QED BY <1>1, <1>2, LenProperties DEF QueuedOf

\* Steps of the game, the handle and the supervisor that touch no output.
LEMMA BooksStay ==
    ASSUME ProcessInv,
           UNCHANGED <<output, protocol, logs, dropped, written, delivered, handle>>
    PROVE  OutputShape' /\ Accounts' /\ Limits'
BY DEF ProcessInv, OutputShape, Accounts, Limits, QueuedOf

\* They keep the invariant.
LEMMA QuietKeeps ==
    ASSUME ProcessInv,
           Fork \/ ChildEnds \/ Shutdown \/ RequestKill \/ SupervisorStep
    PROVE  ProcessInv'
<1> USE DEF ProcessInv
<1>1. UNCHANGED <<output, protocol, logs, dropped, written, delivered, handle, fatal, lost>>
  BY DEF Fork, ChildEnds, Shutdown, RequestKill, SupervisorStep, Terminate, SignalKill, Reap,
         DrainTimeout, Complete, queueVars
<1>2. OutputShape' /\ Accounts' /\ Limits'  BY <1>1, BooksStay
<1>3. CASE Fork
  BY <1>1, <1>2, <1>3 DEF Fork, ProcessTypes, Endings, Writers, queueVars, supVars
<1>4. CASE ChildEnds
  BY <1>1, <1>2, <1>4 DEF ChildEnds, ProcessTypes, Endings, Writers, queueVars, supVars
<1>5. CASE Shutdown \/ RequestKill
  BY <1>1, <1>2, <1>5
  DEF Shutdown, RequestKill, ProcessTypes, Endings, Writers, gameVars, queueVars, supVars
<1>6. CASE Terminate \/ SignalKill \/ Reap
  BY <1>1, <1>2, <1>6
  DEF Terminate, SignalKill, Reap, ProcessTypes, Endings, Writers, gameVars, queueVars, supVars
<1>7. CASE DrainTimeout
  BY <1>1, <1>2, <1>7
  DEF DrainTimeout, ProcessTypes, Endings, Writers, gameVars, queueVars, supVars
<1>8. CASE Complete
  <2>1. ProcessTypes'
    <3>1. report' \in [forced : BOOLEAN, drained : BOOLEAN, error : BOOLEAN]
      BY <1>8 DEF Complete, ProcessTypes
    <3> QED BY <1>1, <1>8, <3>1 DEF Complete, ProcessTypes, gameVars
  <2>2. Endings'
    BY <1>1, <1>8 DEF Complete, Drained, Endings, Writers, gameVars
  <2> QED BY <1>2, <2>1, <2>2
<1> QED BY <1>3, <1>4, <1>5, <1>6, <1>7, <1>8 DEF SupervisorStep

\* The game writes a record.
LEMMA WriteKeeps ==
    ASSUME ProcessInv, NEW s \in Streams, WriteOutput(s)
    PROVE  ProcessInv'
<1> USE DEF ProcessInv
<1>1. PICK r \in Records(s) : output' = [output EXCEPT ![s] = Append(@, r)]
  BY DEF WriteOutput
<1>2. r \in Item /\ r.stream = s /\ r.form # "error"
  BY DEF Records, Item
<1>3. /\ output \in [Streams -> Seq(Item)] /\ output[s] \in Seq(Item) /\ Len(output[s]) \in Nat
      /\ written \in [Streams -> Nat] /\ written[s] \in Nat
  BY LenProperties DEF ProcessTypes
<1>4. /\ UNCHANGED <<child, heirs, reader, protocol, logs, dropped, fatal, lost, forced, termed,
                     sup, report, handle, delivered>>
      /\ Writers /\ written' = [written EXCEPT ![s] = @ + 1]
      /\ \A i \in DOMAIN output[s] : output[s][i].form # "torn"
  BY DEF WriteOutput, gameVars, queueVars, supVars
<1>16. PICK u \in Seq(Item) : u = output[s]  BY <1>3
<1>5. PICK v : u = output[s] /\ v = Append(u, r)  BY <1>16
<1>6. v \in Seq(Item) /\ Len(v) = Len(u) + 1 /\ v[Len(u) + 1] = r
      /\ (\A i \in 1 .. Len(u) : v[i] = u[i]) /\ DOMAIN u = 1 .. Len(u) /\ Len(u) \in Nat
  BY <1>2, <1>5, AppendProperties, LenProperties
<1>7. /\ output' \in [Streams -> Seq(Item)] /\ output'[s] = v
      /\ \A x \in Streams : x # s => output'[x] = output[x]
      /\ written' \in [Streams -> Nat] /\ written'[s] = written[s] + 1
      /\ \A x \in Streams : x # s => written'[x] = written[x]
  BY <1>1, <1>3, <1>4, <1>5, <1>6
<1>8. ProcessTypes'  BY <1>4, <1>7 DEF ProcessTypes
<1>9. OutputShape'
  <2> SUFFICES ASSUME NEW x \in Streams, NEW i \in 1 .. Len(output'[x])
               PROVE  /\ output'[x][i].stream = x /\ output'[x][i].form # "error"
                      /\ output'[x][i].form = "torn" => i = Len(output'[x])
    BY DEF OutputShape
  <2>1. CASE x # s
    <3>1. output'[x] = output[x]  BY <1>7, <2>1
    <3> QED BY <3>1 DEF OutputShape
  <2>2. CASE x = s
    <3>1. i \in 1 .. Len(u) + 1 /\ output'[x][i] = v[i] /\ Len(output'[x]) = Len(u) + 1
      BY <1>6, <1>7, <2>2
    <3>2. CASE i = Len(u) + 1  BY <1>2, <1>6, <2>2, <3>1, <3>2
    <3>3. CASE i \in 1 .. Len(u)
      <4>1. v[i] = u[i] /\ u[i].form # "torn"  BY <1>4, <1>5, <1>6, <3>3
      <4>2. u[i].stream = s /\ u[i].form # "error"  BY <1>5, <3>3 DEF OutputShape
      <4> QED BY <2>2, <3>1, <4>1, <4>2
    <3> QED BY <1>6, <3>1, <3>2, <3>3
  <2> QED BY <2>1, <2>2
<1>10. Accounts'
  <2> SUFFICES ASSUME handle, NEW x \in Streams
               PROVE  written'[x] = Len(output'[x]) + QueuedOf(x) + delivered[x] + dropped[x]
    BY <1>4 DEF Accounts, QueuedOf
  <2>1. /\ written[x] = Len(output[x]) + QueuedOf(x) + delivered[x] + dropped[x]
        /\ QueuedOf(x) \in Nat /\ dropped[x] \in Nat /\ delivered[x] \in Nat
        /\ written[x] \in Nat /\ Len(output[x]) \in Nat
    BY QueuedNat DEF Accounts
  <2>2. CASE x # s  BY <1>7, <2>1, <2>2
  <2>3. CASE x = s
    <3>1. written'[x] = written[x] + 1 /\ Len(output'[x]) = Len(output[x]) + 1
      BY <1>5, <1>6, <1>7, <2>3
    <3>2. PICK a \in Nat, b \in Nat, c \in Nat, d \in Nat :
              a = Len(output[x]) /\ b = QueuedOf(x) /\ c = delivered[x] /\ d = dropped[x]
      BY <2>1, Zenon
    <3>3. (a + b + c + d) + 1 = (a + 1) + b + c + d  OBVIOUS
    <3> QED BY <2>1, <3>1, <3>2, <3>3, Zenon
  <2> QED BY <2>2, <2>3
<1>11. Limits'  BY <1>4 DEF Limits
<1>12. Endings'  BY <1>4 DEF Endings, Writers
<1> QED BY <1>8, <1>9, <1>10, <1>11, <1>12

\* The rest of a stream after its first record.
LEMMA RestOfStream ==
    ASSUME ProcessInv, NEW s \in Streams, output[s] # <<>>
    PROVE  LET v == Tail(output[s]) IN
           /\ Head(output[s]) \in Item /\ Head(output[s]).stream = s
           /\ Head(output[s]).form # "error"
           /\ Head(output[s]).form = "torn" => Len(output[s]) = 1
           /\ v \in Seq(Item) /\ Len(output[s]) \in Nat /\ Len(v) \in Nat
           /\ Len(output[s]) = Len(v) + 1
           /\ \A i \in 1 .. Len(v) : /\ v[i].stream = s /\ v[i].form # "error"
                                     /\ v[i].form = "torn" => i = Len(v)
<1>1. PICK u \in Seq(Item) : u = output[s] /\ u # <<>>
  BY QueuedNat, Zenon DEF ProcessInv
<1>2. \A i \in 1 .. Len(u) : /\ u[i].stream = s /\ u[i].form # "error"
                             /\ u[i].form = "torn" => i = Len(u)
  BY <1>1, Zenon DEF ProcessInv, OutputShape
<1>3. /\ Head(u) \in Item /\ Tail(u) \in Seq(Item) /\ Len(Tail(u)) = Len(u) - 1
      /\ \A i \in 1 .. Len(Tail(u)) : Tail(u)[i] = u[i + 1]
      /\ Len(u) \in Nat /\ Len(u) # 0 /\ Head(u) = u[1]
  BY <1>1, HeadTailProperties
<1>4. PICK v \in Seq(Item), n \in Nat : v = Tail(u) /\ n = Len(v) /\ Len(u) = n + 1
  <2>1. PICK v \in Seq(Item) : v = Tail(u)  BY <1>3, Zenon
  <2>2. Len(v) \in Nat /\ Len(u) = Len(v) + 1
    <3>1. PICK m \in Nat : m = Len(u)  BY <1>3
    <3>2. Len(v) \in Nat /\ Len(v) = m - 1  BY <1>3, <2>1, <3>1, LenProperties
    <3> QED BY <3>1, <3>2
  <2> QED BY <2>1, <2>2
<1>5. \A i \in 1 .. n : /\ v[i].stream = s /\ v[i].form # "error"
                        /\ v[i].form = "torn" => i = n
  <2> TAKE i \in 1 .. n
  <2>1. i + 1 \in 1 .. n + 1 /\ (i + 1 = n + 1 => i = n)  OBVIOUS
  <2>2. v[i] = u[i + 1]  BY <1>3, <1>4
  <2> QED BY <1>2, <1>4, <2>1, <2>2
<1>6. 1 \in 1 .. Len(u)  BY <1>3
<1> QED BY <1>1, <1>2, <1>3, <1>4, <1>5, <1>6

\* A reader hands on a whole record.
LEMMA ReadKeeps ==
    ASSUME ProcessInv, NEW s \in Streams, ReadRecord(s)
    PROVE  ProcessInv'
<1> DEFINE r == Head(output[s])
           v == Tail(output[s])
<1>1. /\ reader[s] = "reading" /\ output[s] # <<>> /\ r.form # "torn" /\ Emit(r)
      /\ output' = [output EXCEPT ![s] = v]
      /\ UNCHANGED <<child, heirs, reader, forced, termed, sup, report, handle, written,
                     delivered>>
  BY DEF ReadRecord, gameVars, supVars
<1>2. /\ r \in Item /\ r.stream = s
      /\ v \in Seq(Item) /\ Len(output[s]) \in Nat /\ Len(v) \in Nat
      /\ Len(output[s]) = Len(v) + 1
      /\ \A i \in 1 .. Len(v) : /\ v[i].stream = s /\ v[i].form # "error"
                                /\ v[i].form = "torn" => i = Len(v)
  BY <1>1, RestOfStream
<1> HIDE DEF r, v
<1>3. /\ protocol' \in Seq(Item) /\ logs' \in Seq(Item) /\ dropped' \in [Streams -> Nat]
      /\ fatal' \in BOOLEAN /\ lost' \in BOOLEAN
      /\ Limits'
      /\ \A x \in Streams : QueuedOf(x)' + dropped'[x]
             = QueuedOf(x) + dropped[x] + (IF r.stream = x THEN 1 ELSE 0)
      /\ fatal => fatal'
      /\ lost' => lost \/ fatal' \/ (r.mandatory /\ r.form = "torn")
  BY <1>1, <1>2, EmitKeeps DEF ProcessInv
<1>4. /\ output' \in [Streams -> Seq(Item)] /\ output'[s] = v
      /\ \A x \in Streams : x # s => output'[x] = output[x]
  BY <1>1, <1>2 DEF ProcessInv, ProcessTypes
<1>5. ProcessTypes'  BY <1>1, <1>3, <1>4 DEF ProcessInv, ProcessTypes
<1>6. OutputShape'
  <2> SUFFICES ASSUME NEW x \in Streams, NEW i \in 1 .. Len(output'[x])
               PROVE  /\ output'[x][i].stream = x /\ output'[x][i].form # "error"
                      /\ output'[x][i].form = "torn" => i = Len(output'[x])
    BY DEF OutputShape
  <2>1. CASE x = s  BY <1>2, <1>4, <2>1
  <2>2. CASE x # s
    <3>1. output'[x] = output[x]  BY <1>4, <2>2
    <3> QED BY <3>1 DEF ProcessInv, OutputShape
  <2> QED BY <2>1, <2>2
<1>7. Accounts'
  <2> SUFFICES ASSUME handle, NEW x \in Streams
               PROVE  written[x] = Len(output'[x]) + QueuedOf(x)' + delivered[x] + dropped'[x]
    BY <1>1 DEF Accounts
  <2>1. written[x] = Len(output[x]) + QueuedOf(x) + delivered[x] + dropped[x]
    BY DEF ProcessInv, Accounts
  <2>2. PICK a \in Nat, b \in Nat, c \in Nat, d \in Nat :
            a = Len(output[x]) /\ b = QueuedOf(x) /\ c = delivered[x] /\ d = dropped[x]
    BY QueuedNat, Zenon DEF ProcessInv
  <2>3. PICK e \in Nat, f \in Nat, g \in Nat :
            e = Len(output'[x]) /\ f = QueuedOf(x)' /\ g = dropped'[x]
    <3>1. QueuedOf(x)' \in Nat /\ dropped'[x] \in Nat /\ Len(output'[x]) \in Nat
      BY <1>3, <1>4, QueuedNext
    <3> QED BY <3>1, Zenon
  <2>4. CASE x # s
    <3>1. e = a  BY <1>4, <2>2, <2>3, <2>4
    <3>2. f + g = b + d + 0  BY <1>2, <1>3, <2>2, <2>3, <2>4
    <3>3. a + b + c + d = e + f + c + g  BY <3>1, <3>2
    <3> QED BY <2>1, <2>2, <2>3, <3>3, Zenon
  <2>5. CASE x = s
    <3>1. a = e + 1  BY <1>2, <1>4, <2>2, <2>3, <2>5
    <3>2. f + g = b + d + 1  BY <1>2, <1>3, <2>2, <2>3, <2>5
    <3>3. a + b + c + d = e + f + c + g  BY <3>1, <3>2
    <3> QED BY <2>1, <2>2, <2>3, <3>3, Zenon
  <2> QED BY <2>4, <2>5
<1>8. Endings'
  <2>1. lost' => fatal'  BY <1>1, <1>3 DEF ProcessInv, Endings
  <2>2. \A x \in Streams : reader[x] = "ended" => output'[x] = output[x]  BY <1>1, <1>4
  <2>3. sup # "done"  BY <1>1 DEF ProcessInv, Endings
  <2> QED BY <1>1, <1>3, <2>1, <2>2, <2>3 DEF ProcessInv, Endings, Writers
<1> QED BY <1>3, <1>5, <1>6, <1>7, <1>8 DEF ProcessInv

\* The end of a stream: its torn last record is handed on, counted or reported.
LEMMA ReadEndKeeps ==
    ASSUME ProcessInv, NEW s \in Streams, ReadEnd(s)
    PROVE  ProcessInv'
<1> USE DEF ProcessInv
<1> DEFINE r == Head(output[s])
<1>1. /\ reader[s] = "reading" /\ ~Writers /\ reader' = [reader EXCEPT ![s] = "ended"]
      /\ UNCHANGED <<child, heirs, forced, termed, sup, report, handle, written>>
  BY DEF ReadEnd, gameVars, supVars
<1>2. /\ reader' \in [Streams -> {"reading", "ended", "aborted"}]
      /\ \A x \in Streams : x # s => reader'[x] = reader[x]
  BY <1>1 DEF ProcessTypes
<1>3. sup # "done" /\ ~Writers'  BY <1>1 DEF Endings, Writers
<1>4. CASE output[s] = <<>>
  <2>1. UNCHANGED <<output, protocol, logs, dropped, fatal, lost, delivered>>
    BY <1>4 DEF ReadEnd, queueVars
  <2>2. OutputShape' /\ Accounts' /\ Limits'  BY <1>1, <2>1, BooksStay
  <2>3. ProcessTypes'  BY <1>1, <1>2, <2>1 DEF ProcessTypes
  <2>4. Endings'  BY <1>1, <1>2, <1>3, <1>4, <2>1 DEF Endings
  <2> QED BY <2>2, <2>3, <2>4
<1>5. CASE output[s] # <<>>
  <2>1. /\ r.form = "torn" /\ output' = [output EXCEPT ![s] = <<>>]
        /\ IF r.mandatory
           THEN /\ fatal' = TRUE /\ lost' = TRUE
                /\ delivered' = [delivered EXCEPT ![s] = @ + 1]
                /\ UNCHANGED <<protocol, logs, dropped>>
           ELSE Emit(r) /\ UNCHANGED delivered
    BY <1>5 DEF ReadEnd
  <2>2. r \in Item /\ r.stream = s /\ Len(output[s]) = 1
    BY <1>5, <2>1, RestOfStream
  <2>3. /\ output' \in [Streams -> Seq(Item)] /\ output'[s] = <<>>
        /\ \A x \in Streams : x # s => output'[x] = output[x]
    BY <2>1 DEF ProcessTypes
  <2>4. /\ protocol' \in Seq(Item) /\ logs' \in Seq(Item) /\ dropped' \in [Streams -> Nat]
        /\ fatal' \in BOOLEAN /\ lost' \in BOOLEAN /\ delivered' \in [Streams -> Nat]
        /\ Limits' /\ (fatal => fatal') /\ (lost' => lost \/ fatal')
        /\ \A x \in Streams : QueuedOf(x)' + dropped'[x] + delivered'[x]
               = QueuedOf(x) + dropped[x] + delivered[x] + (IF s = x THEN 1 ELSE 0)
    <3>1. CASE r.mandatory
      <4>1. /\ fatal' = TRUE /\ lost' = TRUE
            /\ delivered' = [delivered EXCEPT ![s] = @ + 1]
            /\ UNCHANGED <<protocol, logs, dropped>>
        BY <2>1, <3>1
      <4>2. delivered' \in [Streams -> Nat]
            /\ \A x \in Streams : delivered'[x] = delivered[x] + (IF s = x THEN 1 ELSE 0)
        BY <4>1 DEF ProcessTypes
      <4>3. ASSUME NEW x \in Streams
            PROVE  QueuedOf(x)' + dropped'[x] + delivered'[x]
                     = QueuedOf(x) + dropped[x] + delivered[x] + (IF s = x THEN 1 ELSE 0)
        <5>1. QueuedOf(x)' = QueuedOf(x) /\ dropped'[x] = dropped[x]  BY <4>1 DEF QueuedOf
        <5>2. QueuedOf(x) \in Nat /\ dropped[x] \in Nat /\ delivered[x] \in Nat  BY QueuedNat
        <5> QED BY <4>2, <5>1, <5>2
      <4> QED BY <4>1, <4>2, <4>3 DEF ProcessTypes, Limits
    <3>2. CASE ~r.mandatory
      <4>1. Emit(r) /\ delivered' = delivered  BY <2>1, <3>2
      <4> HIDE DEF r
      <4>2. /\ protocol' \in Seq(Item) /\ logs' \in Seq(Item) /\ dropped' \in [Streams -> Nat]
            /\ fatal' \in BOOLEAN /\ lost' \in BOOLEAN /\ Limits'
            /\ \A x \in Streams : QueuedOf(x)' + dropped'[x]
                   = QueuedOf(x) + dropped[x] + (IF r.stream = x THEN 1 ELSE 0)
            /\ fatal => fatal'
            /\ lost' => lost \/ fatal' \/ (r.mandatory /\ r.form = "torn")
        BY <2>2, <4>1, EmitKeeps
      <4>3. ASSUME NEW x \in Streams
            PROVE  QueuedOf(x)' + dropped'[x] + delivered'[x]
                     = QueuedOf(x) + dropped[x] + delivered[x] + (IF s = x THEN 1 ELSE 0)
        <5>1. QueuedOf(x) \in Nat /\ dropped[x] \in Nat /\ delivered[x] \in Nat  BY QueuedNat
        <5> QED BY <2>2, <4>1, <4>2, <5>1
      <4> QED BY <3>2, <4>1, <4>2, <4>3 DEF ProcessTypes
    <3> QED BY <3>1, <3>2
  <2> HIDE DEF r
  <2>5. ProcessTypes'  BY <1>1, <1>2, <2>3, <2>4 DEF ProcessTypes
  <2>6. OutputShape'
    <3> SUFFICES ASSUME NEW x \in Streams, NEW i \in 1 .. Len(output'[x])
                 PROVE  /\ output'[x][i].stream = x /\ output'[x][i].form # "error"
                        /\ output'[x][i].form = "torn" => i = Len(output'[x])
      BY DEF OutputShape
    <3>1. CASE x = s
      <4>1. Len(output'[x]) = 0  BY <2>3, <3>1
      <4> QED BY <4>1
    <3>2. CASE x # s
      <4>1. output'[x] = output[x]  BY <2>3, <3>2
      <4> QED BY <4>1 DEF OutputShape
    <3> QED BY <3>1, <3>2
  <2>7. Accounts'
    <3> SUFFICES ASSUME handle, NEW x \in Streams
                 PROVE  written[x] = Len(output'[x]) + QueuedOf(x)' + delivered'[x] + dropped'[x]
      BY <1>1 DEF Accounts
    <3>1. written[x] = Len(output[x]) + QueuedOf(x) + delivered[x] + dropped[x]
      BY DEF Accounts
    <3>2. PICK a \in Nat, b \in Nat, c \in Nat, d \in Nat :
              a = Len(output[x]) /\ b = QueuedOf(x) /\ c = delivered[x] /\ d = dropped[x]
      BY QueuedNat, Zenon
    <3>3. PICK e \in Nat, f \in Nat, g \in Nat, h \in Nat :
              e = Len(output'[x]) /\ f = QueuedOf(x)' /\ g = dropped'[x] /\ h = delivered'[x]
      <4>1. QueuedOf(x)' \in Nat /\ dropped'[x] \in Nat /\ Len(output'[x]) \in Nat
            /\ delivered'[x] \in Nat
        BY <2>3, <2>4, QueuedNext
      <4> QED BY <4>1, Zenon
    <3>4. CASE x # s
      <4>1. e = a  BY <2>3, <3>2, <3>3, <3>4
      <4>2. f + g + h = b + d + c + 0  BY <2>4, <3>2, <3>3, <3>4
      <4>3. a + b + c + d = e + f + h + g  BY <4>1, <4>2
      <4> QED BY <3>1, <3>2, <3>3, <4>3, Zenon
    <3>5. CASE x = s
      <4>1. a = 1 /\ e = 0  BY <2>2, <2>3, <3>2, <3>3, <3>5
      <4>2. f + g + h = b + d + c + 1  BY <2>4, <3>2, <3>3, <3>5
      <4>3. a + b + c + d = e + f + h + g  BY <4>1, <4>2
      <4> QED BY <3>1, <3>2, <3>3, <4>3, Zenon
    <3> QED BY <3>4, <3>5
  <2>8. Endings'
    <3>1. lost' => fatal'  BY <2>4 DEF Endings
    <3>2. ASSUME NEW x \in Streams \ {"Stderr"}, reader'[x] = "ended", ~fatal'
          PROVE  output'[x] = <<>>
      <4>1. CASE x = s  BY <2>3, <4>1
      <4>2. CASE x # s  BY <1>2, <2>3, <2>4, <3>2, <4>2 DEF Endings
      <4> QED BY <4>1, <4>2
    <3>3. \A x \in Streams \ {"Stderr"} :
              reader'[x] = "ended" => fatal' \/ (~Writers' /\ output'[x] = <<>>)
      BY <1>3, <2>4, <3>2
    <3> QED BY <1>1, <1>3, <3>1, <3>3 DEF Endings
  <2> QED BY <2>4, <2>5, <2>6, <2>7, <2>8
<1> QED BY <1>4, <1>5

\* An unreadable stream is one more record: the error.
LEMMA ReadFailsKeeps ==
    ASSUME ProcessInv, NEW s \in Streams, ReadFails(s)
    PROVE  ProcessInv'
<1> USE DEF ProcessInv
<1> DEFINE r == ReadError(s)
<1>1. /\ reader[s] = "reading" /\ reader' = [reader EXCEPT ![s] = "ended"] /\ Emit(r)
      /\ written' = [written EXCEPT ![s] = @ + 1]
      /\ UNCHANGED <<child, heirs, output, forced, termed, sup, report, handle, delivered>>
  BY DEF ReadFails, gameVars, supVars
<1>2. /\ reader' \in [Streams -> {"reading", "ended", "aborted"}]
      /\ \A x \in Streams : x # s => reader'[x] = reader[x]
      /\ written' \in [Streams -> Nat]
      /\ \A x \in Streams : written'[x] = written[x] + (IF s = x THEN 1 ELSE 0)
  BY <1>1 DEF ProcessTypes
<1>3. r \in Item /\ r.stream = s /\ r.form = "error" /\ (s # "Stderr" => r.mandatory)
  BY SaysAssumption DEF ReadError, Item
<1> HIDE DEF r
<1>4. /\ protocol' \in Seq(Item) /\ logs' \in Seq(Item) /\ dropped' \in [Streams -> Nat]
      /\ fatal' \in BOOLEAN /\ lost' \in BOOLEAN
      /\ Limits'
      /\ \A x \in Streams : QueuedOf(x)' + dropped'[x]
             = QueuedOf(x) + dropped[x] + (IF r.stream = x THEN 1 ELSE 0)
      /\ fatal => fatal'
      /\ lost' => lost \/ fatal' \/ (r.mandatory /\ r.form = "torn")
      /\ r.mandatory /\ r.form = "error" => fatal'
  BY <1>1, <1>3, EmitKeeps
<1>5. ProcessTypes'  BY <1>1, <1>2, <1>4 DEF ProcessTypes
<1>6. OutputShape'  BY <1>1 DEF OutputShape
<1>7. Accounts'
  <2> SUFFICES ASSUME handle, NEW x \in Streams
               PROVE  written'[x] = Len(output[x]) + QueuedOf(x)' + delivered[x] + dropped'[x]
    BY <1>1 DEF Accounts
  <2>1. written[x] = Len(output[x]) + QueuedOf(x) + delivered[x] + dropped[x]
    BY DEF Accounts
  <2>2. PICK a \in Nat, b \in Nat, c \in Nat, d \in Nat :
            a = Len(output[x]) /\ b = QueuedOf(x) /\ c = delivered[x] /\ d = dropped[x]
    BY QueuedNat, Zenon
  <2>3. PICK f \in Nat, g \in Nat : f = QueuedOf(x)' /\ g = dropped'[x]
    <3>1. output' \in [Streams -> Seq(Item)]  BY <1>5 DEF ProcessTypes
    <3>2. QueuedOf(x)' \in Nat /\ dropped'[x] \in Nat  BY <1>4, <3>1, QueuedNext
    <3> QED BY <3>2, Zenon
  <2>4. PICK k \in Nat : k = IF s = x THEN 1 ELSE 0  OBVIOUS
  <2>5. f + g = b + d + k  BY <1>3, <1>4, <2>2, <2>3, <2>4, Zenon
  <2>6. written'[x] = (a + b + c + d) + k  BY <1>2, <2>1, <2>2, <2>4, Zenon
  <2>7. (a + b + c + d) + k = a + f + c + g  BY <2>5
  <2> QED BY <2>2, <2>3, <2>6, <2>7, Zenon
<1>8. Endings'
  <2>1. lost' => fatal'  BY <1>3, <1>4 DEF Endings
  <2>2. sup # "done"  BY <1>1 DEF Endings
  <2>3. ASSUME NEW x \in Streams \ {"Stderr"}, reader'[x] = "ended"
        PROVE  fatal' \/ (~Writers' /\ output'[x] = <<>>)
    <3>1. CASE x = s  BY <1>3, <1>4, <3>1
    <3>2. CASE x # s
      BY <1>1, <1>2, <1>4, <2>3, <3>2 DEF Endings, Writers
    <3> QED BY <3>1, <3>2
  <2> QED BY <1>1, <2>1, <2>2, <2>3 DEF Endings
<1> QED BY <1>4, <1>5, <1>6, <1>7, <1>8

\* The consumer takes the first record of one of the queues.
LEMMA NextEventKeeps ==
    ASSUME ProcessInv, NextEvent
    PROVE  ProcessInv'
<1> USE DEF ProcessInv
<1>1. UNCHANGED <<child, heirs, output, reader, dropped, fatal, lost, forced, termed, sup, report,
                  handle, written>>
  BY DEF NextEvent, gameVars, supVars
<1>2. protocol \in Seq(Item) /\ logs \in Seq(Item) /\ delivered \in [Streams -> Nat]
      /\ Len(protocol) \in Nat
  BY LenProperties DEF ProcessTypes
<1>3. PICK s \in Streams :
          /\ protocol' \in Seq(Item) /\ logs' \in Seq(Item) /\ Limits'
          /\ delivered' = [delivered EXCEPT ![s] = @ + 1]
          /\ \A x \in Streams : QueuedOf(x) = (IF s = x THEN 1 ELSE 0) + QueuedOf(x)'
  <2>1. CASE protocol # <<>>
    <3>1. protocol' = Tail(protocol) /\ logs' = logs
          /\ delivered' = [delivered EXCEPT ![Head(protocol).stream] = @ + 1]
      BY <2>1 DEF NextEvent
    <3>2. Head(protocol) \in Item /\ protocol' \in Seq(Item)
          /\ Len(protocol') = Len(protocol) - 1
      BY <1>2, <2>1, <3>1, HeadTailProperties
    <3>3. PICK s \in Streams : s = Head(protocol).stream  BY <3>2 DEF Item
    <3>4. ASSUME NEW x \in Streams
          PROVE  QueuedOf(x) = (IF s = x THEN 1 ELSE 0) + QueuedOf(x)'
      <4>1. CountOf(protocol, x) = (IF s = x THEN 1 ELSE 0) + CountOf(protocol', x)
        BY <1>2, <2>1, <3>1, <3>3, CountTail
      <4>2. CountOf(protocol', x) \in Nat /\ CountOf(logs, x) \in Nat  BY <1>2, <3>2, CountNat
      <4> QED BY <3>1, <4>1, <4>2 DEF QueuedOf
    <3>5. Limits'  BY <1>2, <3>1, <3>2, QueuesAssumption DEF Limits
    <3> QED BY <1>2, <3>1, <3>2, <3>3, <3>4, <3>5
  <2>2. CASE protocol = <<>>
    <3>1. logs # <<>> /\ logs' = Tail(logs) /\ protocol' = protocol
          /\ delivered' = [delivered EXCEPT ![Head(logs).stream] = @ + 1]
      BY <2>2 DEF NextEvent
    <3>2. Head(logs) \in Item /\ logs' \in Seq(Item)
      BY <1>2, <3>1, HeadTailProperties
    <3>3. PICK s \in Streams : s = Head(logs).stream  BY <3>2 DEF Item
    <3>4. ASSUME NEW x \in Streams
          PROVE  QueuedOf(x) = (IF s = x THEN 1 ELSE 0) + QueuedOf(x)'
      <4>1. CountOf(logs, x) = (IF s = x THEN 1 ELSE 0) + CountOf(logs', x)
        BY <1>2, <3>1, <3>3, CountTail
      <4>2. CountOf(logs', x) \in Nat /\ CountOf(protocol, x) \in Nat  BY <1>2, <3>2, CountNat
      <4> QED BY <3>1, <4>1, <4>2 DEF QueuedOf
    <3>5. Limits'
      <4>1. HeldBytes(logs) \in Nat /\ HeldBytes(logs') \in Nat
            /\ HeldBytes(logs') <= HeldBytes(logs)
        BY <1>2, <3>1, HeldTail
      <4> QED BY <3>1, <4>1, QueuesAssumption DEF Limits
    <3> QED BY <1>2, <3>1, <3>2, <3>3, <3>4, <3>5
  <2> QED BY <2>1, <2>2
<1>4. /\ delivered' \in [Streams -> Nat]
      /\ \A x \in Streams : delivered'[x] = delivered[x] + (IF s = x THEN 1 ELSE 0)
  BY <1>2, <1>3
<1>5. ProcessTypes'  BY <1>1, <1>3, <1>4 DEF ProcessTypes
<1>6. OutputShape' /\ Endings'  BY <1>1 DEF OutputShape, Endings, Writers
<1>7. Accounts'
  <2> SUFFICES ASSUME handle, NEW x \in Streams
               PROVE  written[x] = Len(output[x]) + QueuedOf(x)' + delivered'[x] + dropped[x]
    BY <1>1 DEF Accounts
  <2>1. written[x] = Len(output[x]) + QueuedOf(x) + delivered[x] + dropped[x]
    BY DEF Accounts
  <2>2. PICK a \in Nat, b \in Nat, c \in Nat, d \in Nat :
            a = Len(output[x]) /\ b = QueuedOf(x) /\ c = delivered[x] /\ d = dropped[x]
    BY QueuedNat, Zenon
  <2>3. PICK f \in Nat : f = QueuedOf(x)'
    <3>1. CountOf(protocol', x) \in Nat /\ CountOf(logs', x) \in Nat  BY <1>3, CountNat
    <3> QED BY <3>1 DEF QueuedOf
  <2>4. PICK k \in Nat : k = IF s = x THEN 1 ELSE 0  OBVIOUS
  <2>5. b = k + f  BY <1>3, <2>2, <2>3, <2>4, Zenon
  <2>6. delivered'[x] = c + k  BY <1>4, <2>2, <2>4, Zenon
  <2>7. a + b + c + d = a + f + (c + k) + d  BY <2>5
  <2> QED BY <2>1, <2>2, <2>3, <2>6, <2>7, Zenon
<1> QED BY <1>3, <1>5, <1>6, <1>7

\* Without a handle nothing is owed to a consumer.
LEMMA DropHandleKeeps ==
    ASSUME ProcessInv, DropHandle
    PROVE  ProcessInv'
<1> USE DEF ProcessInv
<1>1. /\ handle' = FALSE /\ protocol' = <<>> /\ logs' = <<>>
      /\ UNCHANGED <<child, heirs, output, reader, dropped, fatal, lost, forced, termed, sup,
                     report, written, delivered>>
  BY DEF DropHandle, gameVars, supVars
<1>2. ProcessTypes'
  <2>1. <<>> \in Seq(Item)  OBVIOUS
  <2>2. protocol' \in Seq(Item) /\ logs' \in Seq(Item) /\ handle' \in BOOLEAN
    BY <1>1, <2>1, Zenon
  <2>3. UNCHANGED <<child, heirs, output, reader, dropped, fatal, lost, forced, termed, sup,
                    report, written, delivered>>
    BY <1>1
  <2> QED BY <2>2, <2>3 DEF ProcessTypes
<1>3. OutputShape' /\ Endings'  BY <1>1 DEF OutputShape, Endings, Writers
<1>4. Accounts'  BY <1>1 DEF Accounts
<1>5. Limits'
  <2>1. Len(<<>>) = 0  OBVIOUS
  <2> QED BY <1>1, <2>1, HeldNone, QueuesAssumption DEF Limits
<1> QED BY <1>2, <1>3, <1>4, <1>5

\* Every step of the process keeps it.
LEMMA ProcessStep == ProcessInv /\ [ProcessNext]_processVars => ProcessInv'
<1> SUFFICES ASSUME ProcessInv, [ProcessNext]_processVars PROVE ProcessInv'
  OBVIOUS
<1>1. CASE UNCHANGED processVars
  <2>1. UNCHANGED <<child, heirs, output, reader, protocol, logs, dropped, fatal, lost, forced,
                    termed, sup, report, handle, written, delivered>>
    BY <1>1 DEF processVars, gameVars, queueVars, supVars
  <2>2. OutputShape' /\ Accounts' /\ Limits'  BY <2>1, BooksStay
  <2>3. ProcessTypes' /\ Endings'  BY <2>1 DEF ProcessInv, ProcessTypes, Endings, Writers
  <2> QED BY <2>2, <2>3 DEF ProcessInv
<1>2. CASE \E s \in Streams : WriteOutput(s) \/ ReaderStep(s)
  BY <1>2, WriteKeeps, ReadKeeps, ReadEndKeeps, ReadFailsKeeps DEF ReaderStep
<1>3. CASE NextEvent  BY <1>3, NextEventKeeps
<1>4. CASE DropHandle  BY <1>4, DropHandleKeeps
<1>5. CASE Fork \/ ChildEnds \/ Shutdown \/ RequestKill \/ SupervisorStep
  BY <1>5, QuietKeeps
<1> QED BY <1>1, <1>2, <1>3, <1>4, <1>5 DEF ProcessNext

\* A spawned process has written nothing.
LEMMA ProcessStarts == ProcessInit => ProcessInv
<1> SUFFICES ASSUME ProcessInit PROVE ProcessInv
  OBVIOUS
<1>1. <<>> \in Seq(Item) /\ Len(<<>>) = 0  OBVIOUS
<1>2. ProcessTypes  BY <1>1 DEF ProcessInit, ProcessTypes, NoReport
<1>3. OutputShape /\ Endings  BY <1>1 DEF ProcessInit, OutputShape, Endings
<1>4. Accounts
  <2>1. \A s \in Streams : QueuedOf(s) = 0  BY CountNone DEF ProcessInit, QueuedOf
  <2> QED BY <1>1, <2>1 DEF ProcessInit, Accounts
<1>5. Limits  BY <1>1, HeldNone, QueuesAssumption DEF ProcessInit, Limits
<1> QED BY <1>2, <1>3, <1>4, <1>5 DEF ProcessInv

\* The invariant is what is promised of the output.
LEMMA OutputAccounted == ProcessInv => OutputIsAccounted
BY DEF ProcessInv, Accounts, Limits, Endings, OutputIsAccounted, NoSilentLoss, ReportIsFinal

\* Readers lose nothing silently and hoard nothing, and the exit report is final.
THEOREM OutputBooks == ProcessSpec => []OutputIsAccounted
<1>1. ProcessInit => ProcessInv  BY ProcessStarts
<1>2. ProcessInv /\ [ProcessNext]_processVars => ProcessInv'  BY ProcessStep
<1>3. ProcessInv => OutputIsAccounted  BY OutputAccounted
<1> QED BY <1>1, <1>2, <1>3, PTL DEF ProcessSpec

-----------------------------------------------------------------------------
(* The downloader *)

\* Records that are in a pipe or in a queue.
Around ==
    {r \in Item : \/ \E s \in Streams : r \in Range(output[s])
                  \/ r \in Range(protocol) \/ r \in Range(logs)}

\* The verdict will be an error whatever the observer hears from now on.
Tainted ==
    \/ fatal \/ flawed \/ \E s \in Streams : dropped[s] # 0
    \/ \E r \in Range(protocol) \cup Range(logs) : r.form \in {"long", "error"}

ModsTypes ==
    /\ update \in {"asked", "prepared", "refused", "observing", "abandoned", "done"}
    /\ disk \in Disks /\ found \in Disks
    /\ completed \in BOOLEAN /\ failed \in BOOLEAN /\ flawed \in BOOLEAN /\ succeeded \in BOOLEAN

\* Before the updater is launched there is nothing to hear.
BeforeLaunch ==
    update \in {"asked", "prepared"} =>
        /\ said = {} /\ ~completed /\ ~failed /\ answer = "none"
        /\ Around = {} /\ \A s \in Streams : reader[s] = "reading"

\* While it is observed, a failure that was written was heard, is on its way, or the
\* output is known to be incomplete; and nothing is on its way that was not written.
Observation ==
    update = "observing" =>
        /\ answer = "none"
        /\ "failure" \in said => failed \/ Tainted \/ \E r \in Around : r.says = "failure"
        /\ \A s \in Streams : reader[s] = "ended" => Tainted \/ (~Writers /\ output[s] = <<>>)
        /\ \A r \in Around : r.says \in said \cup {"other"}
        /\ completed => "complete" \in said

Answered ==
    /\ update \in {"refused", "abandoned"} => answer = "none"
    /\ update = "asked" => disk = found
    /\ BelievedDownload /\ NothingLeftRunning /\ ScriptsAreKept

ModsInv == ProcessInv /\ ModsTypes /\ BeforeLaunch /\ Observation /\ Answered

\* What is in a sequence.
LEMMA RangeOf ==
    ASSUME NEW R, NEW u \in Seq(R)
    PROVE  /\ Range(u) \subseteq R
           /\ \A r \in R : Range(Append(u, r)) = Range(u) \cup {r}
           /\ u # <<>> => Range(u) = {Head(u)} \cup Range(Tail(u))
<1>1. DOMAIN u = 1 .. Len(u) /\ Len(u) \in Nat /\ \A i \in 1 .. Len(u) : u[i] \in R
  OBVIOUS
<1>2. Range(u) \subseteq R  BY <1>1 DEF Range
<1>3. ASSUME NEW r \in R PROVE Range(Append(u, r)) = Range(u) \cup {r}
  <2>1. PICK v : v = Append(u, r)  OBVIOUS
  <2>2. /\ DOMAIN v = 1 .. Len(u) + 1 /\ v[Len(u) + 1] = r
        /\ \A i \in 1 .. Len(u) : v[i] = u[i]
    <3>1. v \in Seq(R) /\ Len(v) = Len(u) + 1 /\ v[Len(u) + 1] = r
          /\ \A i \in 1 .. Len(u) : v[i] = u[i]
      BY <2>1, AppendProperties
    <3> QED BY <3>1, LenProperties
  <2>3. PICK n \in Nat : n = Len(u)  BY <1>1
  <2>4. \A x : (\E i \in 1 .. n + 1 : x = v[i]) <=> (x = v[n + 1] \/ \E i \in 1 .. n : x = v[i])
    <3> TAKE x
    <3>1. \A i \in 1 .. n + 1 : i = n + 1 \/ i \in 1 .. n  OBVIOUS
    <3>2. n + 1 \in 1 .. n + 1 /\ \A i \in 1 .. n : i \in 1 .. n + 1  OBVIOUS
    <3> QED BY <3>1, <3>2
  <2> QED BY <1>1, <2>1, <2>2, <2>3, <2>4 DEF Range
<1>4. ASSUME u # <<>> PROVE Range(u) = {Head(u)} \cup Range(Tail(u))
  <2>1. PICK v : v = Tail(u)  OBVIOUS
  <2>2. PICK n \in Nat : Len(u) = n + 1
    <3>1. PICK m \in Nat : m = Len(u)  BY <1>1
    <3>2. m # 0  BY <1>4, <3>1, EmptySeq
    <3>3. m - 1 \in Nat /\ m = (m - 1) + 1  BY <3>2
    <3> QED BY <3>1, <3>3
  <2>3. /\ DOMAIN v = 1 .. n /\ Head(u) = u[1] /\ \A i \in 1 .. n : v[i] = u[i + 1]
    <3>1. v \in Seq(R) /\ Len(v) = n /\ \A i \in 1 .. Len(v) : v[i] = u[i + 1]
      BY <1>4, <2>1, <2>2, HeadTailProperties
    <3> QED BY <1>4, <3>1, LenProperties
  <2>4. \A x : (\E i \in 1 .. n + 1 : x = u[i]) <=> (x = u[1] \/ \E i \in 1 .. n : x = u[i + 1])
    <3> TAKE x
    <3>1. \A i \in 1 .. n + 1 : i = 1 \/ (i - 1 \in 1 .. n /\ (i - 1) + 1 = i)  OBVIOUS
    <3>2. 1 \in 1 .. n + 1 /\ \A i \in 1 .. n : i + 1 \in 1 .. n + 1  OBVIOUS
    <3>3. ASSUME NEW i \in 1 .. n + 1, x = u[i]
          PROVE  x = u[1] \/ \E j \in 1 .. n : x = u[j + 1]
      <4>1. CASE i = 1  BY <3>3, <4>1
      <4>2. CASE i # 1
        <5>1. PICK j \in 1 .. n : j + 1 = i  BY <3>1, <4>2
        <5> QED BY <3>3, <5>1
      <4> QED BY <4>1, <4>2
    <3> QED BY <3>2, <3>3
  <2>5. \A x : x \in Range(u) <=> \E i \in 1 .. n + 1 : x = u[i]
    BY <1>1, <2>2 DEF Range
  <2>6. \A x : x \in Range(v) <=> \E i \in 1 .. n : x = u[i + 1]
    BY <2>3 DEF Range
  <2> QED BY <2>1, <2>3, <2>4, <2>5, <2>6
<1> QED BY <1>2, <1>3, <1>4

\* What is in the empty sequence.
LEMMA RangeNone == Range(<<>>) = {}
BY DEF Range

\* Every step of the downloader is one of the process or leaves it alone.
LEMMA ModsProcess ==
    ASSUME ModsInv, [ModsNext]_<<modsVars, processVars>>
    PROVE  ProcessInv'
<1>1. ProcessInv /\ [ProcessNext]_processVars
  BY DEF ModsInv, ModsNext, Prepare, SkipUpdate, Launch, Abandon, AnswerAbandoned, ObserveEvent,
         Conclude, UpdaterStep, ProcessNext
<1> QED BY <1>1, ProcessStep

\* What is emitted is in a queue or was dropped, and nothing leaves a queue.
LEMMA EmitHeard ==
    ASSUME ProcessInv, NEW r \in Item, Emit(r)
    PROVE  /\ Range(protocol) \subseteq Range(protocol')
           /\ Range(logs) \subseteq Range(logs')
           /\ Range(protocol') \cup Range(logs') \subseteq Range(protocol) \cup Range(logs) \cup {r}
           /\ r \in Range(protocol') \cup Range(logs') \/ dropped'[r.stream] # 0
           /\ \A s \in Streams : dropped[s] # 0 => dropped'[s] # 0
           /\ fatal => fatal'
           /\ r.stream \in Streams
<1>1. /\ fatal => fatal'
      /\ \/ protocol' = Append(protocol, r) /\ logs' = logs /\ dropped' = dropped
         \/ logs' = Append(logs, r) /\ protocol' = protocol /\ dropped' = dropped
         \/ /\ protocol' = protocol /\ logs' = logs
            /\ dropped'[r.stream] # 0 /\ \A s \in Streams : dropped[s] # 0 => dropped'[s] # 0
  BY EmitKeeps DEF ProcessInv
<1>2. protocol \in Seq(Item) /\ logs \in Seq(Item)  BY DEF ProcessInv, ProcessTypes
<1>3. Range(Append(protocol, r)) = Range(protocol) \cup {r}
      /\ Range(Append(logs, r)) = Range(logs) \cup {r}
  BY <1>2, RangeOf
<1>4. r.stream \in Streams  BY DEF Item
<1> QED BY <1>1, <1>3, <1>4, Zenon

\* A taint stays while queues only grow and counters keep counting.
LEMMA TaintStays ==
    ASSUME Tainted, Range(protocol) \subseteq Range(protocol'), Range(logs) \subseteq Range(logs'),
           \A s \in Streams : dropped[s] # 0 => dropped'[s] # 0, fatal => fatal', flawed => flawed'
    PROVE  Tainted'
BY DEF Tainted

\* Steps that leave the output alone.
LEMMA AroundStays ==
    ASSUME UNCHANGED <<output, protocol, logs>>
    PROVE  Around' = Around
BY DEF Around

\* Steps of the call itself.
LEMMA CallKeeps ==
    ASSUME ModsInv, Prepare \/ SkipUpdate \/ Launch \/ AnswerAbandoned \/ Conclude
    PROVE  ModsTypes' /\ BeforeLaunch' /\ Observation' /\ Answered'
<1> USE DEF ModsInv
<1>1. UNCHANGED <<child, heirs, output, reader, protocol, logs, dropped, fatal, sup, report>>
      /\ UNCHANGED <<completed, failed, flawed, succeeded, said, request>>
  BY DEF Prepare, SkipUpdate, Launch, AnswerAbandoned, Conclude, processVars, gameVars, queueVars,
         supVars, preparedVars, observedVars
<1>2. Around' = Around /\ (Tainted' <=> Tainted) /\ (Writers' <=> Writers)
  BY <1>1, AroundStays DEF Tainted, Writers
<1>3. CASE Prepare
  <2>1. update = "asked" /\ disk = found /\ found' = found /\ answer' = answer
        /\ update' \in {"prepared", "refused"} /\ disk' = (IF Valid THEN Shared(disk) ELSE disk)
    BY <1>3 DEF Prepare, Answered
  <2>2. disk' \in Disks /\ (disk.setup # "absent" => disk'.setup = disk.setup)
        /\ (Valid => disk'.ugc = "directory" /\ disk'.setup # "invalid")
    BY <2>1 DEF ModsTypes, Disks, Shared, Valid
  <2>3. ModsTypes'  BY <1>1, <2>1, <2>2 DEF ModsTypes
  <2>4. BeforeLaunch' /\ Observation'  BY <1>1, <1>2, <2>1 DEF BeforeLaunch, Observation
  <2>5. ScriptsAreKept'  BY <1>1, <2>1, <2>2 DEF ScriptsAreKept, Valid
  <2>6. Answered'
    BY <1>1, <2>1, <2>5 DEF Answered, BeforeLaunch, BelievedDownload, NothingLeftRunning
  <2> QED BY <2>3, <2>4, <2>6
<1>4. CASE SkipUpdate
  BY <1>1, <1>2, <1>4
  DEF SkipUpdate, preparedVars, ModsTypes, BeforeLaunch, Observation, Answered, BelievedDownload,
      NothingLeftRunning, ScriptsAreKept, Valid
<1>5. CASE Launch
  <2>1. ModsTypes' /\ BeforeLaunch' /\ Answered'
    BY <1>1, <1>2, <1>5
    DEF Launch, ModsTypes, BeforeLaunch, Answered, BelievedDownload, NothingLeftRunning,
        ScriptsAreKept, Valid
  <2>2. Observation'
    BY <1>1, <1>2, <1>5 DEF Launch, BeforeLaunch, Observation
  <2> QED BY <2>1, <2>2
<1>6. CASE AnswerAbandoned
  <2>1. child = "dead"  BY <1>6 DEF AnswerAbandoned, Killed, ProcessInv, Endings
  <2> QED
    BY <1>1, <1>2, <1>6, <2>1
    DEF AnswerAbandoned, Killed, preparedVars, ModsTypes, BeforeLaunch, Observation, Answered,
        BelievedDownload, NothingLeftRunning, ScriptsAreKept, Valid
<1>7. CASE Conclude
  <2>1. /\ update = "observing" /\ protocol = <<>> /\ logs = <<>> /\ sup = "done"
        /\ update' = "done" /\ answer' = Verdict /\ UNCHANGED <<disk, found>>
    BY <1>7 DEF Conclude, preparedVars
  <2>2. child = "dead"  BY <2>1 DEF ProcessInv, Endings
  <2>3. Verdict = "ok" => succeeded /\ "complete" \in said /\ "failure" \notin said
    <3> SUFFICES ASSUME Verdict = "ok"
                 PROVE  succeeded /\ "complete" \in said /\ "failure" \notin said
      OBVIOUS
    <3>1. succeeded /\ report.drained /\ ~report.error /\ Whole /\ ~failed /\ completed
      BY DEF Verdict
    <3>2. ~fatal /\ \A s \in Streams : reader[s] = "ended"
      BY <2>1, <3>1 DEF ProcessInv, Endings
    <3>3. Range(protocol) = {} /\ Range(logs) = {}  BY <2>1, RangeNone
    <3>4. ~Tainted  BY <3>1, <3>2, <3>3 DEF Tainted, Whole
    <3>5. \A s \in Streams : output[s] = <<>>  BY <2>1, <3>2, <3>4 DEF Observation
    <3>6. \A s \in Streams : Range(output[s]) = {}  BY <3>5, RangeNone, Zenon
    <3>7. Around = {}  BY <3>3, <3>6 DEF Around
    <3> QED BY <2>1, <3>1, <3>4, <3>7 DEF Observation
  <2>4. Answered'
    BY <1>1, <2>1, <2>2, <2>3
    DEF Answered, BelievedDownload, NothingLeftRunning, ScriptsAreKept, Valid
  <2> QED BY <1>1, <2>1, <2>4 DEF ModsTypes, BeforeLaunch, Observation
<1> QED BY <1>3, <1>4, <1>5, <1>6, <1>7

\* The observer hears the first record of a queue.
LEMMA ObserveKeeps ==
    ASSUME ModsInv, ObserveEvent
    PROVE  ModsTypes' /\ BeforeLaunch' /\ Observation' /\ Answered'
<1> USE DEF ModsInv
<1> DEFINE r == Heard
<1>1. /\ update = "observing" /\ update' = update /\ answer' = answer /\ NextEvent
      /\ UNCHANGED <<request, disk, found, succeeded, said>>
      /\ completed' = (completed \/ (r.form \in {"line", "torn"} /\ r.says = "complete"))
      /\ failed' = (failed \/ (r.form \in {"line", "torn"} /\ r.says = "failure"))
      /\ flawed' = (flawed \/ ~(r.form \in {"line", "torn"}))
  BY DEF ObserveEvent, preparedVars
<1>2. UNCHANGED <<child, heirs, output, reader, dropped, fatal, sup>>
  BY <1>1 DEF NextEvent, gameVars, supVars
<1>3. /\ r \in Item
      /\ Range(protocol) \cup Range(logs) = {r} \cup Range(protocol') \cup Range(logs')
  <2>1. protocol \in Seq(Item) /\ logs \in Seq(Item)  BY DEF ProcessInv, ProcessTypes
  <2>2. CASE protocol # <<>>
    <3>1. protocol' = Tail(protocol) /\ logs' = logs  BY <1>1, <2>2 DEF NextEvent
    <3>2. r = Head(protocol)  BY <2>2 DEF Heard
    <3>3. Range(protocol) = {Head(protocol)} \cup Range(Tail(protocol))
          /\ Head(protocol) \in Item
      BY <2>1, <2>2, RangeOf, HeadTailProperties
    <3> QED BY <3>1, <3>2, <3>3, Zenon
  <2>3. CASE protocol = <<>>
    <3>1. logs # <<>> /\ logs' = Tail(logs) /\ protocol' = protocol  BY <1>1, <2>3 DEF NextEvent
    <3>2. r = Head(logs)  BY <2>3 DEF Heard
    <3>3. Range(logs) = {Head(logs)} \cup Range(Tail(logs)) /\ Head(logs) \in Item
      BY <2>1, <3>1, RangeOf, HeadTailProperties
    <3> QED BY <3>1, <3>2, <3>3, Zenon
  <2> QED BY <2>2, <2>3
<1> HIDE DEF r
<1>4. r \in Around /\ Around' \subseteq Around /\ Around \subseteq Around' \cup {r}
  BY <1>2, <1>3 DEF Around
<1>5. Tainted => Tainted'
  <2>1. r.form \in {"long", "error"} => flawed'  BY <1>1
  <2>2. flawed => flawed'  BY <1>1
  <2> QED BY <1>2, <1>3, <2>1, <2>2 DEF Tainted
<1>6. r.form \notin {"line", "torn"} => Tainted'  BY <1>1 DEF Tainted
<1>7. ModsTypes'
  <2>1. completed' \in BOOLEAN /\ failed' \in BOOLEAN /\ flawed' \in BOOLEAN  BY <1>1
  <2> QED BY <1>1, <2>1 DEF ModsTypes
<1>8. BeforeLaunch'  BY <1>1 DEF BeforeLaunch
<1>9. Observation'
  <2>1. "failure" \in said => failed' \/ Tainted' \/ \E x \in Around' : x.says = "failure"
    BY <1>1, <1>4, <1>5, <1>6 DEF Observation
  <2>2. \A x \in Around' : x.says \in said \cup {"other"}  BY <1>1, <1>4 DEF Observation
  <2>3. completed' => "complete" \in said
    <3>1. r.says = "complete" => "complete" \in said  BY <1>1, <1>4 DEF Observation
    <3> QED BY <1>1, <3>1 DEF Observation
  <2>4. Writers' <=> Writers  BY <1>2 DEF Writers
  <2> QED BY <1>1, <1>2, <1>5, <2>1, <2>2, <2>3, <2>4 DEF Observation
<1>10. Answered'
  BY <1>1, <1>2 DEF Answered, Observation, BelievedDownload, NothingLeftRunning, ScriptsAreKept,
                    Valid
<1> QED BY <1>7, <1>8, <1>9, <1>10

\* A reader hands on a record of its stream, or an error of its own.
LEMMA HandOnKeeps ==
    ASSUME ModsInv, update = "observing", NEW s \in Streams, NEW r \in Item, Emit(r), r.stream = s,
           output' \in [Streams -> Seq(Item)],
           \A x \in Streams \ {s} : output'[x] = output[x],
           Range(output'[s]) \subseteq Range(output[s]),
           Range(output[s]) \subseteq Range(output'[s]) \cup {r},
           r \in Range(output[s]) \/ r.says = "other",
           UNCHANGED <<said, failed, flawed>>
    PROVE  /\ "failure" \in said' => failed' \/ Tainted' \/ \E x \in Around' : x.says = "failure"
           /\ \A x \in Around' : x.says \in said' \cup {"other"}
           /\ Tainted => Tainted'
           /\ r.form = "error" => Tainted'
<1>1. /\ Range(protocol) \subseteq Range(protocol')
      /\ Range(logs) \subseteq Range(logs')
      /\ Range(protocol') \cup Range(logs') \subseteq Range(protocol) \cup Range(logs) \cup {r}
      /\ r \in Range(protocol') \cup Range(logs') \/ dropped'[r.stream] # 0
      /\ \A x \in Streams : dropped[x] # 0 => dropped'[x] # 0
      /\ fatal => fatal'
  BY EmitHeard DEF ModsInv
<1>2. Tainted => Tainted'  BY <1>1, TaintStays
<1>3. Tainted' \/ r \in Range(protocol') \cup Range(logs')  BY <1>1 DEF Tainted
<1>4. r.form = "error" => Tainted'  BY <1>3 DEF Tainted
<1>5. \A x \in Around : x \in Around' \/ Tainted'
  <2> SUFFICES ASSUME NEW x \in Around, ~Tainted' PROVE x \in Around'
    OBVIOUS
  <2>1. x \in Item  BY DEF Around
  <2>2. r \in Range(protocol') \/ r \in Range(logs')  BY <1>3
  <2>3. CASE x \in Range(protocol) \/ x \in Range(logs)  BY <1>1, <2>1, <2>3 DEF Around
  <2>4. CASE \E y \in Streams : x \in Range(output[y])
    <3>1. PICK y \in Streams : x \in Range(output[y])  BY <2>4
    <3>2. CASE y = s  BY <2>1, <2>2, <3>1, <3>2 DEF Around
    <3>3. CASE y # s  BY <2>1, <3>1, <3>3 DEF Around
    <3> QED BY <3>2, <3>3
  <2> QED BY <2>3, <2>4 DEF Around
<1>6. \A x \in Around' : x \in Around \/ x.says = "other"
  <2> SUFFICES ASSUME NEW x \in Around', x.says # "other" PROVE x \in Around
    OBVIOUS
  <2>1. x \in Item  BY DEF Around
  <2>2. CASE x \in Range(protocol') \/ x \in Range(logs')
    <3>1. x \in Range(protocol) \/ x \in Range(logs) \/ x \in Range(output[s])
      BY <1>1, <2>2
    <3> QED BY <2>1, <3>1 DEF Around
  <2>3. CASE \E y \in Streams : x \in Range(output'[y])
    <3>1. PICK y \in Streams : x \in Range(output'[y])  BY <2>3
    <3>2. CASE y = s  BY <2>1, <3>1, <3>2 DEF Around
    <3>3. CASE y # s  BY <2>1, <3>1, <3>3 DEF Around
    <3> QED BY <3>2, <3>3
  <2> QED BY <2>2, <2>3 DEF Around
<1>7. "failure" \in said' => failed' \/ Tainted' \/ \E x \in Around' : x.says = "failure"
  BY <1>2, <1>5 DEF ModsInv, Observation
<1>8. \A x \in Around' : x.says \in said' \cup {"other"}
  BY <1>6 DEF ModsInv, Observation
<1> QED BY <1>2, <1>4, <1>7, <1>8

\* What the updater writes is remembered, and is on its way.
LEMMA WriteObserved ==
    ASSUME ModsInv, update = "observing", NEW s \in Streams, WriteOutput(s), Overheard(s),
           UNCHANGED <<update, answer, completed, failed, flawed>>
    PROVE  Observation'
<1> USE DEF ModsInv
<1>1. PICK r \in Records(s) : output' = [output EXCEPT ![s] = Append(@, r)]
  BY DEF WriteOutput
<1>2. r \in Item  BY DEF Records, Item
<1>3. UNCHANGED <<child, heirs, reader, protocol, logs, dropped, fatal>> /\ Writers
  BY DEF WriteOutput, gameVars, queueVars
<1>4. output \in [Streams -> Seq(Item)] /\ output[s] \in Seq(Item)
  BY DEF ProcessInv, ProcessTypes
<1>5. /\ output'[s] = Append(output[s], r)
      /\ \A x \in Streams : x # s => output'[x] = output[x]
  BY <1>1, <1>4
<1>6. Range(output'[s]) = Range(output[s]) \cup {r} /\ Last(output'[s]) = r
  <2>1. PICK u \in Seq(Item) : u = output[s]  BY <1>4
  <2>2. Range(Append(u, r)) = Range(u) \cup {r}  BY <1>2, RangeOf
  <2>3. Len(Append(u, r)) = Len(u) + 1 /\ Append(u, r)[Len(u) + 1] = r
    BY <1>2, AppendProperties
  <2> QED BY <1>5, <2>1, <2>2, <2>3, Zenon DEF Last
<1>7. said' = said \cup {r.says}  BY <1>6 DEF Overheard
<1>8. r \in Around' /\ Around \subseteq Around' /\ Around' \subseteq Around \cup {r}
  <2>1. \A x \in Streams : Range(output[x]) \subseteq Range(output'[x])
    BY <1>5, <1>6
  <2>2. \A x \in Streams : Range(output'[x]) \subseteq Range(output[x]) \cup {r}
    BY <1>5, <1>6
  <2>3. r \in Range(output'[s])  BY <1>6
  <2> QED BY <1>2, <1>3, <2>1, <2>2, <2>3 DEF Around
<1>9. Tainted' <=> Tainted  BY <1>3 DEF Tainted
<1>10. "failure" \in said' => failed' \/ Tainted' \/ \E x \in Around' : x.says = "failure"
  <2>1. CASE "failure" \in said  BY <1>8, <1>9, <2>1 DEF Observation
  <2>2. CASE r.says = "failure"  BY <1>8, <2>2
  <2> QED BY <1>7, <2>1, <2>2
<1>11. \A x \in Streams : reader'[x] = "ended" => Tainted'
  BY <1>3, <1>9 DEF Observation
<1>12. \A x \in Around' : x.says \in said' \cup {"other"}
  BY <1>7, <1>8 DEF Observation
<1>13. completed' => "complete" \in said'
  BY <1>7 DEF Observation
<1> QED BY <1>10, <1>11, <1>12, <1>13 DEF Observation

\* What a reader does keeps every written failure in sight.
LEMMA ReaderObserved ==
    ASSUME ModsInv, update = "observing", NEW s \in Streams, ReaderStep(s),
           UNCHANGED <<update, answer, completed, failed, flawed, said>>
    PROVE  Observation'
<1> USE DEF ModsInv
<1>0. output \in [Streams -> Seq(Item)] /\ output[s] \in Seq(Item)
      /\ reader \in [Streams -> {"reading", "ended", "aborted"}]
  BY DEF ProcessInv, ProcessTypes
<1>1. UNCHANGED <<child, heirs>> /\ (Writers' <=> Writers)
  BY DEF ReaderStep, ReadRecord, ReadEnd, ReadFails, gameVars, Writers
<1>2. CASE ReadRecord(s)
  <2> DEFINE r == Head(output[s])
             v == Tail(output[s])
  <2>1. /\ reader[s] = "reading" /\ output[s] # <<>> /\ Emit(r)
        /\ output' = [output EXCEPT ![s] = v] /\ reader' = reader
    BY <1>2 DEF ReadRecord
  <2>2. r \in Item /\ r.stream = s /\ v \in Seq(Item)  BY <2>1, RestOfStream
  <2>3. Range(output[s]) = {r} \cup Range(v)  BY <1>0, <2>1, RangeOf
  <2> HIDE DEF r, v
  <2>4. /\ output' \in [Streams -> Seq(Item)] /\ output'[s] = v
        /\ \A x \in Streams \ {s} : output'[x] = output[x]
    BY <1>0, <2>1, <2>2
  <2>5. /\ "failure" \in said' => failed' \/ Tainted' \/ \E x \in Around' : x.says = "failure"
        /\ \A x \in Around' : x.says \in said' \cup {"other"}
        /\ Tainted => Tainted'
    BY <2>1, <2>2, <2>3, <2>4, HandOnKeeps
  <2>6. ASSUME NEW x \in Streams, reader'[x] = "ended"
        PROVE  Tainted' \/ (~Writers' /\ output'[x] = <<>>)
    <3>1. x # s  BY <2>1, <2>6
    <3> QED BY <1>1, <2>1, <2>4, <2>5, <2>6, <3>1 DEF Observation
  <2> QED BY <2>5, <2>6 DEF Observation
<1>3. CASE ReadFails(s)
  <2> DEFINE r == ReadError(s)
  <2>1. /\ reader' = [reader EXCEPT ![s] = "ended"] /\ Emit(r) /\ output' = output
    BY <1>3 DEF ReadFails
  <2>2. r \in Item /\ r.stream = s /\ r.form = "error" /\ r.says = "other"
    BY SaysAssumption DEF ReadError, Item
  <2> HIDE DEF r
  <2>3. /\ "failure" \in said' => failed' \/ Tainted' \/ \E x \in Around' : x.says = "failure"
        /\ \A x \in Around' : x.says \in said' \cup {"other"}
        /\ r.form = "error" => Tainted'
    BY <1>0, <2>1, <2>2, HandOnKeeps
  <2> QED BY <2>2, <2>3 DEF Observation
<1>4. CASE ReadEnd(s) /\ output[s] = <<>>
  <2>1. /\ ~Writers /\ reader' = [reader EXCEPT ![s] = "ended"]
        /\ UNCHANGED <<output, protocol, logs, dropped, fatal>>
    BY <1>4 DEF ReadEnd, queueVars
  <2>2. Around' = Around /\ (Tainted' <=> Tainted)  BY <2>1, AroundStays DEF Tainted
  <2>3. \A x \in Streams : reader'[x] = "ended" => Tainted' \/ (~Writers' /\ output'[x] = <<>>)
    BY <1>0, <1>1, <1>4, <2>1, <2>2 DEF Observation
  <2> QED BY <2>2, <2>3 DEF Observation
<1>5. CASE ReadEnd(s) /\ output[s] # <<>>
  <2> DEFINE r == Head(output[s])
  <2>1. /\ ~Writers /\ reader' = [reader EXCEPT ![s] = "ended"]
        /\ r.form = "torn" /\ output' = [output EXCEPT ![s] = <<>>]
        /\ IF r.mandatory
           THEN fatal' = TRUE /\ UNCHANGED <<protocol, logs, dropped>>
           ELSE Emit(r)
    BY <1>5 DEF ReadEnd
  <2>2. r \in Item /\ r.stream = s /\ Len(output[s]) = 1
    BY <1>5, <2>1, RestOfStream
  <2>3. /\ output' \in [Streams -> Seq(Item)] /\ output'[s] = <<>>
        /\ \A x \in Streams \ {s} : output'[x] = output[x]
        /\ \A x \in Streams : x # s => reader'[x] = reader[x]
    BY <1>0, <2>1
  <2>4. Range(output[s]) = {r} /\ Range(output'[s]) = {}
    <3>1. Range(output[s]) = {r} \cup Range(Tail(output[s]))  BY <1>0, <1>5, RangeOf
    <3>2. Tail(output[s]) = <<>>
      <4>1. Tail(output[s]) \in Seq(Item) /\ Len(Tail(output[s])) = 0
        BY <1>0, <1>5, <2>2, HeadTailProperties
      <4> QED BY <4>1, EmptySeq
    <3> QED BY <2>3, <3>1, <3>2, RangeNone
  <2> HIDE DEF r
  <2>5. CASE r.mandatory
    <3>1. Tainted'  BY <2>1, <2>5 DEF Tainted
    <3>2. Around' \subseteq Around
      <4>1. UNCHANGED <<protocol, logs>>  BY <2>1, <2>5
      <4>2. \A x \in Streams : Range(output'[x]) \subseteq Range(output[x])
        <5> TAKE x \in Streams
        <5>1. CASE x = s  BY <2>4, <5>1
        <5>2. CASE x # s  BY <2>3, <5>2
        <5> QED BY <5>1, <5>2
      <4> QED BY <4>1, <4>2 DEF Around
    <3> QED BY <3>1, <3>2 DEF Observation
  <2>6. CASE ~r.mandatory
    <3>0. Emit(r)  BY <2>1, <2>6
    <3>1. /\ "failure" \in said' => failed' \/ Tainted' \/ \E x \in Around' : x.says = "failure"
          /\ \A x \in Around' : x.says \in said' \cup {"other"}
          /\ Tainted => Tainted'
      BY <2>2, <2>3, <2>4, <3>0, HandOnKeeps
    <3>2. ASSUME NEW x \in Streams, reader'[x] = "ended"
          PROVE  Tainted' \/ (~Writers' /\ output'[x] = <<>>)
      <4>1. CASE x = s  BY <1>1, <2>1, <2>3, <4>1
      <4>2. CASE x # s
        <5>1. reader[x] = "ended" /\ output'[x] = output[x]  BY <2>3, <3>2, <4>2
        <5> QED BY <1>1, <3>1, <5>1 DEF Observation
      <4> QED BY <4>1, <4>2
    <3> QED BY <3>1, <3>2 DEF Observation
  <2> QED BY <2>5, <2>6
<1> QED BY <1>2, <1>3, <1>4, <1>5 DEF ReaderStep

\* Steps of the game and its supervisor leave the output alone.
LEMMA SupervisorObserved ==
    ASSUME ModsInv, update = "observing", Fork \/ ChildEnds \/ SupervisorStep,
           UNCHANGED <<update, answer, completed, failed, flawed, said>>
    PROVE  Observation'
<1>1. UNCHANGED <<output, protocol, logs, dropped, fatal>>
  BY DEF Fork, ChildEnds, SupervisorStep, Terminate, SignalKill, Reap, DrainTimeout, Complete,
         queueVars
<1>2. Around' = Around /\ (Tainted' <=> Tainted)  BY <1>1, AroundStays DEF Tainted
<1>3. \A s \in Streams : reader'[s] = "ended" => reader[s] = "ended"
  BY DEF Fork, ChildEnds, SupervisorStep, Terminate, SignalKill, Reap, DrainTimeout, Complete
<1>4. ~Writers => ~Writers'
  BY DEF Fork, ChildEnds, SupervisorStep, Terminate, SignalKill, Reap, DrainTimeout, Complete,
         Writers, gameVars
<1> QED BY <1>1, <1>2, <1>3, <1>4 DEF ModsInv, Observation

\* The updater and its observer.
LEMMA UpdaterKeeps ==
    ASSUME ModsInv, UpdaterStep
    PROVE  ModsTypes' /\ BeforeLaunch' /\ Observation' /\ Answered'
<1>1. /\ update \in {"observing", "abandoned"} /\ answer = "none"
      /\ UNCHANGED <<request, disk, found, update, answer, completed, failed, flawed>>
      /\ succeeded' \in BOOLEAN
  BY DEF UpdaterStep, Launched, preparedVars, observedVars, ModsInv, ModsTypes, Observation, Answered
<1>2. ModsTypes' /\ BeforeLaunch'  BY <1>1 DEF ModsInv, ModsTypes, BeforeLaunch
<1>3. Answered'
  BY <1>1 DEF ModsInv, Answered, BelievedDownload, NothingLeftRunning, ScriptsAreKept, Valid
<1>4. Observation'
  <2>1. CASE update = "abandoned"  BY <1>1, <2>1 DEF Observation
  <2>2. CASE update = "observing"
    <3>1. CASE \E s \in Streams : WriteOutput(s) /\ Overheard(s)
      BY <1>1, <2>2, <3>1, WriteObserved
    <3>2. CASE \E s \in Streams : ReaderStep(s) /\ UNCHANGED said
      BY <1>1, <2>2, <3>2, ReaderObserved
    <3>3. CASE (Fork \/ ChildEnds \/ SupervisorStep) /\ UNCHANGED said
      BY <1>1, <2>2, <3>3, SupervisorObserved
    <3> QED BY <3>1, <3>2, <3>3 DEF UpdaterStep
  <2> QED BY <1>1, <2>1, <2>2
<1> QED BY <1>2, <1>3, <1>4

\* A call that has not begun has an updater that has not either.
LEMMA ModsStarts == ModsInit /\ ProcessInit => ModsInv
<1> SUFFICES ASSUME ModsInit, ProcessInit PROVE ModsInv
  OBVIOUS
<1>1. ProcessInv  BY ProcessStarts
<1>2. Around = {}
  BY RangeNone DEF ProcessInit, Around
<1>3. BeforeLaunch /\ Observation  BY <1>2 DEF ModsInit, ProcessInit, BeforeLaunch, Observation
<1>4. ModsTypes /\ Answered
  BY DEF ModsInit, ModsTypes, Answered, BelievedDownload, NothingLeftRunning, ScriptsAreKept
<1> QED BY <1>1, <1>3, <1>4 DEF ModsInv

\* Every step keeps the downloader honest.
LEMMA ModsStep == ModsInv /\ [ModsNext]_<<modsVars, processVars>> => ModsInv'
<1> SUFFICES ASSUME ModsInv, [ModsNext]_<<modsVars, processVars>> PROVE ModsInv'
  OBVIOUS
<1>1. ProcessInv'  BY ModsProcess
<1>2. CASE UNCHANGED <<modsVars, processVars>>
  <2>1. UNCHANGED <<child, heirs, output, reader, protocol, logs, dropped, fatal, sup>>
        /\ UNCHANGED <<completed, failed, flawed, succeeded, said, request, disk, found, update,
                       answer>>
    BY <1>2 DEF modsVars, processVars, gameVars, queueVars, supVars, preparedVars, observedVars
  <2>2. Around' = Around /\ (Tainted' <=> Tainted) /\ (Writers' <=> Writers)
    BY <2>1, AroundStays DEF Tainted, Writers
  <2>3. BeforeLaunch' /\ Observation'  BY <2>1, <2>2 DEF ModsInv, BeforeLaunch, Observation
  <2>4. ModsTypes' /\ Answered'
    BY <2>1 DEF ModsInv, ModsTypes, Answered, BelievedDownload, NothingLeftRunning,
                ScriptsAreKept, Valid
  <2> QED BY <1>1, <2>3, <2>4 DEF ModsInv
<1>3. CASE Prepare \/ SkipUpdate \/ Launch \/ AnswerAbandoned \/ Conclude
  BY <1>1, <1>3, CallKeeps DEF ModsInv
<1>4. CASE Abandon
  <2>1. /\ update = "observing" /\ answer = "none" /\ update' = "abandoned"
        /\ completed' = FALSE /\ failed' = FALSE /\ flawed' = FALSE
        /\ UNCHANGED <<request, disk, found, answer, succeeded>>
    BY <1>4 DEF Abandon, preparedVars, ModsInv, Observation
  <2>2. ModsTypes' /\ BeforeLaunch' /\ Observation' /\ Answered'
    BY <2>1 DEF ModsInv, ModsTypes, BeforeLaunch, Observation, Answered, BelievedDownload,
                NothingLeftRunning, ScriptsAreKept, Valid
  <2> QED BY <1>1, <2>2 DEF ModsInv
<1>5. CASE ObserveEvent  BY <1>1, <1>5, ObserveKeeps DEF ModsInv
<1>6. CASE UpdaterStep  BY <1>1, <1>6, UpdaterKeeps DEF ModsInv
<1> QED BY <1>2, <1>3, <1>4, <1>5, <1>6 DEF ModsNext

\* The downloader's answer is what its updater did.
THEOREM UpdatesHonest == ModsSpec => []UpdatesAreHonest
<1>1. ModsInit /\ ProcessInit => ModsInv  BY ModsStarts
<1>2. ModsInv /\ [ModsNext]_<<modsVars, processVars>> => ModsInv'  BY ModsStep
<1>3. ModsInv => UpdatesAreHonest
  BY OutputAccounted DEF ModsInv, Answered, UpdatesAreHonest
<1> QED BY <1>1, <1>2, <1>3, PTL DEF ModsSpec

=============================================================================
