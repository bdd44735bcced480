------------------------------- MODULE Files -------------------------------
(***************************************************************************)
(* Room files (files.rs): the lock that the Agent and Host tools compete   *)
(* for, files replaced through a temporary one, the shared state file, and *)
(* crashes of a process or of the machine at any step.  Contents are the   *)
(* number of the job that wrote them; what a job wrote into the state file *)
(* is one field per owner.                                                 *)
(*                                                                         *)
(* owner    per process: its step, the rest of its job, what it writes     *)
(* lock     who holds the room, or Nobody                                  *)
(* live     what a reader sees; disk: what a power loss leaves; tmp: the   *)
(*          temporary file and whether its contents were synced            *)
(* torn     files a power loss may leave incomplete                        *)
(* legacy   the state is still in the file of an older version             *)
(* jobs, acked   history: jobs begun, and the last acknowledged per file   *)
(* fields   what each job made of the state                                *)
(***************************************************************************)
EXTENDS Naturals, Sequences, SequencesExt, FiniteSets

CONSTANTS
    Owners, Nobody,
    Changed, Removed,       \* the files of a configuration, in their order
    MaxJobs, MaxFailures    \* bounds

VARIABLES owner, lock, live, disk, tmp, torn, legacy, jobs, fields, acked, failures

diskVars == <<live, disk, tmp, torn, legacy>>
historyVars == <<jobs, fields, acked>>
filesVars == <<owner, lock, diskVars, historyVars, failures>>

StateFile == "state"
ConfigFiles == ToSet(Changed) \union ToSet(Removed)
AllFiles == ConfigFiles \union {StateFile}
Configuration == Changed \o Removed

\* validate_changes refuses a path named twice and every file of the controller; an
\* update that names no file touches none.
ASSUME FilesAssumption ==
    /\ Nobody \notin Owners
    /\ Changed \in Seq(ToSet(Changed)) /\ Removed \in Seq(ToSet(Removed))
    /\ Configuration # <<>> /\ IsInjective(Configuration)
    /\ StateFile \notin ConfigFiles
    /\ MaxJobs \in Nat /\ MaxFailures \in Nat

NoTemporary == [job |-> 0, synced |-> FALSE]
Idle == [step |-> "out", rest |-> <<>>, job |-> 0]

FilesTypeOK ==
    /\ lock \in Owners \union {Nobody}
    /\ \A o \in Owners : owner[o].step \in {"out", "ready", "clean", "write", "sync", "rename",
                                            "publish", "unlink"}
    /\ live \in [AllFiles -> 0 .. MaxJobs] /\ disk \in [AllFiles -> 0 .. MaxJobs]
    /\ fields \in [0 .. MaxJobs -> [Owners -> 0 .. MaxJobs]] /\ torn \subseteq AllFiles
    /\ legacy \in BOOLEAN /\ jobs \in 0 .. MaxJobs /\ failures \in 0 .. MaxFailures

FilesInit ==
    /\ owner = [o \in Owners |-> Idle] /\ lock = Nobody
    /\ live = [f \in AllFiles |-> 0] /\ disk = live /\ torn = {}
    /\ acked = [config |-> 0, state |-> [o \in Owners |-> 0]]
    /\ fields = [j \in 0 .. MaxJobs |-> [o \in Owners |-> 0]]
    /\ tmp = NoTemporary
    /\ legacy \in BOOLEAN
    /\ jobs = 0 /\ failures = 0

-----------------------------------------------------------------------------
(* RoomLock *)

LockFree(o) == lock = Nobody

\* try_acquire never waits; it moves an old state file to its new name.
TryAcquire(o) ==
    /\ owner[o].step = "out" /\ LockFree(o)
    /\ lock' = o /\ legacy' = FALSE
    /\ owner' = [owner EXCEPT ![o] = [Idle EXCEPT !.step = "ready"]]
    /\ UNCHANGED <<live, disk, tmp, torn, historyVars, failures>>

Release(o) ==
    /\ owner[o].step = "ready"
    /\ owner' = [owner EXCEPT ![o] = Idle]
    /\ lock' = IF lock = o THEN Nobody ELSE lock
    /\ UNCHANGED <<diskVars, historyVars, failures>>

-----------------------------------------------------------------------------
(* write_files and update_state *)

Ready(o) == owner[o].step = "ready" /\ jobs < MaxJobs

FirstStep(rest) == IF Head(rest) \in ToSet(Removed) THEN "unlink" ELSE "clean"

\* Everything is validated before the first file is touched.
WriteFiles(o) ==
    /\ Ready(o) /\ jobs' = jobs + 1
    /\ \/ UNCHANGED owner
       \/ owner' = [owner EXCEPT ![o] = [step |-> FirstStep(Configuration), job |-> jobs + 1,
                                         rest |-> Configuration]]
    /\ UNCHANGED <<lock, diskVars, fields, acked, failures>>

\* The file is read again before one part of it is changed.
StateRead(o) == live[StateFile]

UpdateState(o) ==
    /\ Ready(o) /\ jobs' = jobs + 1
    /\ owner' = [owner EXCEPT ![o] = [step |-> "clean", job |-> jobs + 1, rest |-> <<StateFile>>]]
    /\ fields' = [fields EXCEPT ![jobs + 1] = [fields[StateRead(o)] EXCEPT ![o] = jobs + 1]]
    /\ UNCHANGED <<lock, diskVars, acked, failures>>

-----------------------------------------------------------------------------
(* Directory::replace, one system call per step *)

Step(o, next) == owner' = [owner EXCEPT ![o].step = next]

RemoveTemporary(o) ==
    /\ owner[o].step = "clean"
    /\ tmp' = NoTemporary
    /\ Step(o, "write")
    /\ UNCHANGED <<lock, live, disk, torn, legacy, historyVars, failures>>

\* O_EXCL: another temporary file is an error.
WriteTemporary(o) ==
    /\ owner[o].step = "write" /\ tmp = NoTemporary
    /\ tmp' = [job |-> owner[o].job, synced |-> FALSE]
    /\ Step(o, "sync")
    /\ UNCHANGED <<lock, live, disk, torn, legacy, historyVars, failures>>

SyncTemporary(o) ==
    /\ owner[o].step = "sync"
    /\ tmp' = [tmp EXCEPT !.synced = TRUE]
    /\ Step(o, "rename")
    /\ UNCHANGED <<lock, live, disk, torn, legacy, historyVars, failures>>

\* Visible at once; what survives a power loss is decided by the directory's sync.
RenameTemporary(o) ==
    /\ owner[o].step = "rename" /\ tmp # NoTemporary
    /\ live' = [live EXCEPT ![Head(owner[o].rest)] = tmp.job]
    /\ torn' = IF tmp.synced THEN torn \ {Head(owner[o].rest)} ELSE torn \union {Head(owner[o].rest)}
    /\ tmp' = NoTemporary
    /\ Step(o, "publish")
    /\ UNCHANGED <<lock, disk, legacy, historyVars, failures>>

\* remove_regular_if_present: an absent file carries the number of the job too.
Unlink(o) ==
    /\ owner[o].step = "unlink"
    /\ live' = [live EXCEPT ![Head(owner[o].rest)] = owner[o].job]
    /\ Step(o, "publish")
    /\ UNCHANGED <<lock, disk, tmp, torn, legacy, historyVars, failures>>

Acknowledge(o, file) ==
    IF file = StateFile THEN [acked EXCEPT !.state[o] = owner[o].job]
    ELSE [acked EXCEPT !.config = owner[o].job]

\* The directory is synced; then the next file, or the job is done.
SyncDirectory(o) ==
    /\ owner[o].step = "publish"
    /\ disk' = live
    /\ LET file == Head(owner[o].rest)
           rest == Tail(owner[o].rest)
       IN IF rest # <<>>
          THEN /\ owner' = [owner EXCEPT ![o].rest = rest, ![o].step = FirstStep(rest)]
               /\ UNCHANGED acked
          ELSE /\ owner' = [owner EXCEPT ![o] = [Idle EXCEPT !.step = "ready"]]
               /\ acked' = Acknowledge(o, file)
    /\ UNCHANGED <<lock, live, tmp, torn, legacy, jobs, fields, failures>>

\* Mutant: an error of the last sync of the directory is not noticed.
FailsUnnoticed(o) ==
    /\ owner[o].step \notin {"out", "ready"} /\ failures < MaxFailures
    /\ failures' = failures + 1
    /\ owner' = [owner EXCEPT ![o] = [Idle EXCEPT !.step = "ready"]]
    /\ acked' = IF owner[o].step = "publish" /\ Len(owner[o].rest) = 1
                THEN Acknowledge(o, Head(owner[o].rest)) ELSE acked
    /\ UNCHANGED <<lock, diskVars, jobs, fields>>

\* The first error ends the job; what was replaced before stays.
Fails(o) ==
    /\ owner[o].step \notin {"out", "ready"} /\ failures < MaxFailures
    /\ failures' = failures + 1
    /\ owner' = [owner EXCEPT ![o] = [Idle EXCEPT !.step = "ready"]]
    /\ UNCHANGED <<lock, diskVars, historyVars>>

-----------------------------------------------------------------------------
(* Crashes *)

\* The kernel releases the lock of a process that dies.
Crash(o) ==
    /\ owner[o].step # "out" /\ failures < MaxFailures
    /\ failures' = failures + 1
    /\ owner' = [owner EXCEPT ![o] = Idle]
    /\ lock' = IF lock = o THEN Nobody ELSE lock
    /\ UNCHANGED <<diskVars, historyVars>>

\* A rename that was not synced may or may not survive.
PowerLoss ==
    /\ failures < MaxFailures
    /\ failures' = failures + 1
    /\ owner' = [o \in Owners |-> Idle] /\ lock' = Nobody
    /\ live' = disk \/ live' = live
    /\ disk' = live'
    /\ tmp' = NoTemporary \/ tmp' = tmp
    /\ UNCHANGED <<torn, legacy, historyVars>>

-----------------------------------------------------------------------------

OwnerStep(o) ==
    \/ TryAcquire(o) \/ Release(o) \/ WriteFiles(o) \/ UpdateState(o)
    \/ RemoveTemporary(o) \/ WriteTemporary(o) \/ SyncTemporary(o) \/ RenameTemporary(o)
    \/ Unlink(o) \/ SyncDirectory(o) \/ Fails(o) \/ Crash(o)
FilesNext == PowerLoss \/ \E o \in Owners : OwnerStep(o)
FilesSpec == FilesInit /\ [][FilesNext]_filesVars

-----------------------------------------------------------------------------
(* Properties *)

\* Whatever fails or crashes while files are replaced one by one, a reader and the
\* next start find every file whole, and the configuration is a prefix: no file is newer
\* than one that comes before it.
FilesAreWhole ==
    /\ torn = {}
    /\ \A view \in {live, disk} :
          \A i, j \in DOMAIN Configuration :
              i < j => view[Configuration[i]] >= view[Configuration[j]]

\* What was acknowledged survives crashes, power losses and the updates of other
\* owners: no configuration is older and no field of the state is undone.
AcknowledgedSurvives ==
    /\ \A f \in ConfigFiles : disk[f] >= acked.config
    /\ \A o \in Owners : fields[disk[StateFile]][o] >= acked.state[o]

\* Neither a crash nor another owner tears or undoes what is on disk (write_files,
\* update_state, replace).
FilesAreDurable == FilesAreWhole /\ AcknowledgedSurvives
=============================================================================
