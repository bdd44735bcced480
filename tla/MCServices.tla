----------------------------- MODULE MCServices -----------------------------
(***************************************************************************)
(* Services around a room that run on tasks and threads of their own: game *)
(* output, the exporter and the log readers.  They share no state here, so *)
(* a behaviour follows one of them.                                        *)
(***************************************************************************)
EXTENDS Mods, Telemetry, Logs

VARIABLE part

servicesVars == <<part, modsVars, processVars, telemetryVars, logsVars>>

GameStreams == {"Stdout", "Stderr"}
Meanings == {"other", "complete", "failure"}

Init ==
    /\ part \in {"process", "mods", "telemetry", "reader", "journal"}
    /\ ProcessInit /\ TelemetryInit /\ LogsInit
    /\ IF part = "mods" THEN ModsInit
       ELSE ModsInit /\ request = [proxy |-> FALSE, executable |-> FALSE, shared |-> FALSE]
                     /\ disk = [setup |-> "absent", settings |-> "absent", ugc |-> "absent"]

\* What a line means matters to the downloader only.
Unread == \A s \in Streams : \A i \in DOMAIN output'[s] : output'[s][i].says = "other"

ProcessPart ==
    /\ part = "process" /\ ProcessNext /\ Unread
    /\ UNCHANGED <<part, modsVars, telemetryVars, logsVars>>
\* An updater loads no driver and writes no control record.
Uncontrolled == \A s \in Streams : \A i \in DOMAIN output'[s] : ~output'[s][i].mandatory

ModsPart ==
    /\ part = "mods" /\ ModsNext /\ Uncontrolled
    /\ UNCHANGED <<part, telemetryVars, logsVars>>
TelemetryPart ==
    part = "telemetry" /\ TelemetryNext /\ UNCHANGED <<part, modsVars, processVars, logsVars>>
LogsPart ==
    /\ part \in {"reader", "journal"} /\ LogsNext
    /\ IF part = "reader" THEN UNCHANGED journalVars ELSE UNCHANGED readerVars
    /\ UNCHANGED <<part, modsVars, processVars, telemetryVars>>

Next == ProcessPart \/ ModsPart \/ TelemetryPart \/ LogsPart

In(p) == part = p
Game == part \in {"process", "mods"}

\* Tasks are polled and threads are scheduled, timers fire, and a killed process
\* is reaped; what a game, a client, a collector or a reader does is not forced.
Fairness ==
    /\ WF_processVars(Game /\ SupervisorStep)
    /\ WF_processVars(Game /\ child = "killed" /\ ChildEnds)
    /\ \A s \in Streams : WF_processVars(Game /\ (ReadRecord(s) \/ ReadEnd(s)))
    /\ WF_telemetryVars(In("telemetry") /\ WorkerLoop)
    /\ WF_telemetryVars(In("telemetry") /\ ExportTimeout)
    /\ \A w \in Waiters : WF_telemetryVars(In("telemetry") /\ Return(w))
    /\ \A q \in Queries :
        /\ WF_logsVars(In("reader") /\ GiveUpSlot(q)) /\ WF_logsVars(In("reader") /\ Interrupt(q))
        /\ WF_logsVars(In("reader") /\ Closed(q)) /\ WF_logsVars(In("reader") /\ TaskStep(q))

Spec == Init /\ [][Next]_servicesVars /\ Fairness

-----------------------------------------------------------------------------

\* What waits for records gets an end: a flush or a close of the exporter
\* (telemetry.rs), and a query of the journal, cancelled or not (logs.rs).
LoggingSettles == ExporterSettles /\ QueriesEnd
=============================================================================
