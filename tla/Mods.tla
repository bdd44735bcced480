-------------------------------- MODULE Mods --------------------------------
(***************************************************************************)
(* The mod downloader of a stopped room (mods.rs): the shared mod files    *)
(* are prepared, the game is run once as an updater, and its output and    *)
(* its end decide the answer, unless the wait is cancelled or times out.   *)
(*                                                                         *)
(* request   what the call names: a valid proxy, a regular executable, an  *)
(*           install that mounts the room's mods                           *)
(* disk      the shared mod files; found: as prepare found them, kept      *)
(*           until the updater runs                                        *)
(* update    the call's progress; answer: what it returned                 *)
(* completed, failed, flawed   what observe has gathered                   *)
(* succeeded, said   history: the exit status, and every meaning the       *)
(*                   updater wrote while it was observed                   *)
(***************************************************************************)
EXTENDS Process

VARIABLES request, disk, found, update, answer, completed, failed, flawed, succeeded, said

preparedVars == <<request, disk, found>>
observedVars == <<completed, failed, flawed>>
modsVars == <<preparedVars, update, answer, observedVars, succeeded, said>>

\* The setup script is absent, without a statement, with one, or not Lua that
\* declares valid Workshop ids.
Disks == [setup : {"absent", "idle", "code", "invalid"},
          settings : {"absent", "present"},
          ugc : {"absent", "directory", "other"}]

ModsInit ==
    /\ request \in [proxy : BOOLEAN, executable : BOOLEAN, shared : BOOLEAN]
    /\ disk \in Disks /\ found = disk
    /\ update = "asked" /\ answer = "none"
    /\ completed = FALSE /\ failed = FALSE /\ flawed = FALSE
    /\ succeeded = FALSE /\ said = {}

-----------------------------------------------------------------------------
(* PreparedMods::prepare *)

\* scan_setup: anything to execute makes an update necessary.
HasCode(d) == d.setup = "code"

\* validate_proxy, the executable, and every existing managed file.
Valid == request.proxy /\ request.executable /\ disk.ugc # "other" /\ disk.setup # "invalid"

\* prepare_shared: what is missing is created, what exists is kept.
Shared(d) ==
    [setup |-> IF d.setup = "absent" THEN "idle" ELSE d.setup,
     settings |-> "present", ugc |-> "directory"]

\* activate: the install and the room mount one mod directory.
Activated == HasCode(disk) => request.shared

Prepare ==
    /\ update = "asked"
    /\ disk' = IF Valid THEN Shared(disk) ELSE disk
    /\ update' = IF Valid /\ Activated THEN "prepared" ELSE "refused"
    /\ UNCHANGED <<request, found, answer, observedVars, succeeded, said, processVars>>

-----------------------------------------------------------------------------
(* update_cancellable and update_once *)

\* A setup without code needs no updater.
SkipUpdate ==
    /\ update = "prepared" /\ ~HasCode(disk)
    /\ update' = "done" /\ answer' = "unneeded"
    /\ UNCHANGED <<preparedVars, observedVars, succeeded, said, processVars>>

\* The updater starts on ports of its own, or an error of the system is returned.
Launch ==
    /\ update = "prepared" /\ HasCode(disk)
    /\ update' \in {"observing", "refused"}
    /\ found' = disk
    /\ UNCHANGED <<request, disk, answer, observedVars, succeeded, said, processVars>>

\* cancelled.changed() or the end of the download timeout drops the observer with
\* all it has gathered: kill().await.
Abandon ==
    /\ update = "observing"
    /\ update' = "abandoned"
    /\ RequestKill
    /\ completed' = FALSE /\ failed' = FALSE /\ flawed' = FALSE /\ said' = {}
    /\ UNCHANGED <<preparedVars, answer, succeeded>>

\* kill() returns with the exit report.
Killed == sup = "done"

AnswerAbandoned ==
    /\ update = "abandoned" /\ Killed
    /\ update' = "done" /\ answer' \in {"interrupted", "timeout"}
    /\ UNCHANGED <<preparedVars, observedVars, succeeded, said, processVars>>

-----------------------------------------------------------------------------
(* observe *)

Heard == Head(IF protocol # <<>> THEN protocol ELSE logs)

\* Only whole lines of Stdout and Stderr mean anything; a line that was too long
\* or unreadable stays in the counters of the report.
ObserveEvent ==
    /\ update = "observing" /\ NextEvent
    /\ LET line == Heard.form \in {"line", "torn"} IN
       /\ completed' = (completed \/ (line /\ Heard.says = "complete"))
       /\ failed' = (failed \/ (line /\ Heard.says = "failure"))
       /\ flawed' = (flawed \/ ~line)
    /\ UNCHANGED <<preparedVars, update, answer, succeeded, said>>

\* Mutant: the counters of lost output are not consulted.
WholeAlways == TRUE

\* stats.dropped, oversized and read_errors are all zero.
Whole == ~flawed /\ \A s \in Streams : dropped[s] = 0

\* A completion marker never overrides a failure.
Verdict ==
    IF succeeded /\ report.drained /\ ~report.error /\ Whole /\ ~failed /\ completed
    THEN "ok" ELSE "error"

\* Both queues are closed and empty, and wait() has the exit report.
Conclude ==
    /\ update = "observing"
    /\ protocol = <<>> /\ logs = <<>> /\ sup = "done"
    /\ update' = "done" /\ answer' = Verdict
    /\ UNCHANGED <<preparedVars, observedVars, succeeded, said, processVars>>

-----------------------------------------------------------------------------

Launched == update \in {"observing", "abandoned"}

Overheard(s) ==
    said' = IF update = "observing" THEN said \cup {Last(output'[s]).says} ELSE said

\* The updater runs beside its observer.
UpdaterStep ==
    /\ Launched
    /\ \/ \E s \in Streams :
            \/ WriteOutput(s) /\ Overheard(s) /\ UNCHANGED succeeded
            \/ ReaderStep(s) /\ UNCHANGED <<succeeded, said>>
       \/ ChildEnds /\ succeeded' \in BOOLEAN /\ UNCHANGED said
       \/ (Fork \/ SupervisorStep) /\ UNCHANGED <<succeeded, said>>
    /\ UNCHANGED <<preparedVars, update, answer, observedVars>>

ModsNext ==
    \/ Prepare \/ SkipUpdate \/ Launch \/ Abandon \/ AnswerAbandoned
    \/ ObserveEvent \/ Conclude \/ UpdaterStep

ModsSpec == ModsInit /\ ProcessInit /\ [][ModsNext]_<<modsVars, processVars>>

-----------------------------------------------------------------------------
(* Properties *)

\* A download is believed only if the updater exited successfully, said that it
\* had finished and never said that anything failed, whatever was dropped, cut or
\* reordered on the way to the observer.
BelievedDownload ==
    answer = "ok" => succeeded /\ "complete" \in said /\ "failure" \notin said

\* Whatever the answer, no updater is left behind to write into the room's mods.
NothingLeftRunning ==
    (answer # "none" /\ answer # "unneeded") => child = "dead" /\ sup = "done"

\* A call that was refused by its own checks created nothing, and no call ever
\* replaced a script it found.
ScriptsAreKept ==
    /\ ~Valid => disk = found
    /\ found.setup # "absent" => disk.setup = found.setup

\* The downloader's answer is what its updater did (prepare, update_once, observe),
\* and the output it was judged by is accounted for.
UpdatesAreHonest ==
    OutputIsAccounted /\ BelievedDownload /\ NothingLeftRunning /\ ScriptsAreKept
=============================================================================
