------------------------------ MODULE Recovery ------------------------------
(***************************************************************************)
(* The recovery decisions of recovery.rs, as operators on the record that  *)
(* the room keeps under "recovery" in .dst-server.json.                    *)
(*                                                                         *)
(* A SavedShard is [session, id].  Its world_file is left out: the native  *)
(* game stores snapshot id of a session in one file of that session, and   *)
(* parse_catalog refuses a catalog with two snapshots of one id or one     *)
(* path, so equal (session, id) and equal (session, path) are one thing.   *)
(* A SavedRoom is a function from shard names to SavedShards.              *)
(*                                                                         *)
(* A Catalog is [session, ids, files, latest]: the snapshot numbers the    *)
(* native game lists, those whose world file exists, and the number whose  *)
(* file is latest_world_file.                                              *)
(*                                                                         *)
(* not_before_ms is left out: begin_current_retry is called with           *)
(* now_ms().max(not_before_ms), so its comparison always succeeds.         *)
(*                                                                         *)
(* Operators commented "Mutant" are wrong on purpose: each shows that a    *)
(* property fails when the definition after it has that bug.               *)
(***************************************************************************)
EXTENDS Integers, FiniteSets

CONSTANTS
    CURRENT_RESTARTS,   \* restarts of the current save between two resets
    MAX_SNAPSHOT_GAP    \* how far a target may lie behind any latest save

ASSUME RestartsAssumption == CURRENT_RESTARTS \in Nat
ASSUME GapAssumption == MAX_SNAPSHOT_GAP \in Nat

\* Largest and smallest member of a finite non-empty set of numbers.
Newest(S) == CHOOSE n \in S : \A m \in S : m <= n
Oldest(S) == CHOOSE n \in S : \A m \in S : n <= m

NoRoom == [s \in {} |-> 0]          \* the SavedRoom without a shard

Fatal == {"Disk", "Permission", "Configuration", "Mods", "Unknown"}
FailureKinds == Fatal \union {"Retryable", "LoadFailure"}

(***************************************************************************)
(* Failure: the evidence "shards" is empty unless the kind is LoadFailure. *)
(***************************************************************************)
Plain(kind) == [kind |-> kind, shards |-> NoRoom]
LoadFailure(evidence) == [kind |-> "LoadFailure", shards |-> evidence]

ClosedReasons ==
    {"Disk", "Permission", "Configuration", "Mods", "UnknownFailure",
     "UnprovenSnapshots", "SessionChanged", "SnapshotGapExceeded",
     "CurrentSaveChanged", "UnprovenLoadFailure", "CurrentRetriesExhausted",
     "RollbackAlreadyUsed", "NoPreviousCompleteSnapshot",
     "RecoveryTargetFailed"}

ClosedFor(kind) == IF kind = "Unknown" THEN "UnknownFailure" ELSE kind

(***************************************************************************)
(* RecoveryState.  "none" stands for an absent Option: closed = "none",    *)
(* retry.status = "none", target.phase = "none".  CurrentRetry.started is  *)
(* the difference between "reserved" and "started".                        *)
(***************************************************************************)
RetryStatus == {"none", "reserved", "started"}
TargetPhases == {"none", "Preparing", "Starting", "Ready", "Failed"}

NoRetry == [status |-> "none", shards |-> NoRoom]
NoTarget == [phase |-> "none", id |-> 0, shards |-> NoRoom]

DefaultState ==
    [restarts |-> 0, window |-> 0, closed |-> "none",
     retry |-> NoRetry, target |-> NoTarget]

Closed(st) == st.closed # "none"
TargetPending(st) == st.target.phase \in {"Preparing", "Starting"}
HasRetry(st) == st.retry.status # "none"
Pending(st) == HasRetry(st) \/ TargetPending(st)

\* What update() requires before it writes and decode() before it believes.
Validate(st) ==
    /\ st.restarts <= CURRENT_RESTARTS
    /\ HasRetry(st) =>
        /\ st.restarts > 0
        /\ DOMAIN st.retry.shards # {}
        /\ ~Closed(st)
        /\ \A s \in DOMAIN st.retry.shards : st.retry.shards[s].id > 0
    /\ st.target.phase # "none" =>
        /\ DOMAIN st.target.shards # {}
        /\ \A s \in DOMAIN st.target.shards :
              /\ st.target.shards[s].id > 0
              /\ st.target.shards[s].id = st.target.id

\* What the rest of the code assumes of the entry and never checks.
Coherent(st) ==
    /\ Pending(st) => ~Closed(st)
    /\ st.target.phase = "Failed" => Closed(st)
    /\ ~(HasRetry(st) /\ TargetPending(st))

\* From one entry to the next, a target that was not yet ready stays.
KeepsTarget(st, new) ==
    st.target.phase \in {"Preparing", "Starting", "Failed"} =>
        /\ new.target.phase # "none"
        /\ new.target.id = st.target.id
        /\ new.target.shards = st.target.shards

-----------------------------------------------------------------------------
(* close and reset *)

\* Mutant: the retry survives the close.
CloseKeepsRetry(st, reason) ==
    [st EXCEPT !.closed = reason,
               !.target.phase = IF TargetPending(st) THEN "Failed" ELSE @]

\* Mutant: the target of a closed incident still looks pending.
CloseKeepsTarget(st, reason) ==
    [st EXCEPT !.closed = reason, !.retry = NoRetry]

Close(st, reason) ==
    [st EXCEPT !.closed = reason,
               !.retry = NoRetry,
               !.target.phase = IF TargetPending(st) THEN "Failed" ELSE @]

\* Mutant: a fresh budget forgets an unfinished target.
ResetDropsTarget(st) ==
    [st EXCEPT !.restarts = 0, !.closed = "none",
               !.retry = NoRetry, !.target = NoTarget]

Reset(st) ==
    [st EXCEPT !.restarts = 0,
               !.closed = "none",
               !.retry = NoRetry,
               !.target = IF @.phase \in {"none", "Ready"} THEN NoTarget
                          ELSE [@ EXCEPT !.phase = "Preparing"]]

-----------------------------------------------------------------------------
(* latest_room, previous_target and verify_replay *)

LatestProven(required, catalogs) ==
    /\ required # {}
    /\ DOMAIN catalogs = required
    /\ \A s \in required : /\ catalogs[s].latest \in catalogs[s].files
                           /\ catalogs[s].latest > 0

LatestRoom(catalogs) ==
    [s \in DOMAIN catalogs |-> [session |-> catalogs[s].session,
                                id |-> catalogs[s].latest]]

IdsOf(room) == {room[s].id : s \in DOMAIN room}

\* Snapshots every shard still has, older than the failed one and than every
\* shard's latest save.
CompleteBefore(latest, catalogs, failed) ==
    {id \in UNION {catalogs[s].files : s \in DOMAIN catalogs} :
        /\ 0 < id
        /\ id < failed
        /\ id <= Oldest(IdsOf(latest))
        /\ \A s \in DOMAIN catalogs : id \in catalogs[s].files}

FixedTarget(catalogs, id) ==
    [phase |-> "Preparing",
     id |-> id,
     shards |-> [s \in DOMAIN catalogs |->
                    [session |-> catalogs[s].session, id |-> id]]]

\* Mutant: the gap is checked when a target is chosen, never again.
ShardRefusalWithoutGap(target, s, catalog) ==
    IF catalog.session # target.shards[s].session THEN "SessionChanged"
    ELSE IF target.id \notin catalog.ids THEN "NoPreviousCompleteSnapshot"
    ELSE IF target.id \notin catalog.files THEN "UnprovenSnapshots"
    ELSE IF catalog.latest < target.id THEN "CurrentSaveChanged"
    ELSE "none"

\* Why a persisted target may not be applied to the saves of one shard now on
\* disk, and to those of the room.  Of several refusing shards the code reports
\* the first by name, the model one of them.
ShardRefusal(target, s, catalog) ==
    IF catalog.session # target.shards[s].session THEN "SessionChanged"
    ELSE IF target.id \notin catalog.ids THEN "NoPreviousCompleteSnapshot"
    ELSE IF target.id \notin catalog.files THEN "UnprovenSnapshots"
    ELSE IF catalog.latest < target.id THEN "CurrentSaveChanged"
    ELSE IF catalog.latest - target.id > MAX_SNAPSHOT_GAP
        THEN "SnapshotGapExceeded"
    ELSE "none"

ReplayRefusal(target, required, catalogs) ==
    LET refusals == {ShardRefusal(target, s, catalogs[s]) : s \in required}
    IN  IF ~LatestProven(required, catalogs) THEN "UnprovenSnapshots"
        ELSE IF DOMAIN target.shards # required THEN "SessionChanged"
        ELSE IF refusals \subseteq {"none"} THEN "none"
        ELSE CHOOSE reason \in refusals : reason # "none"

-----------------------------------------------------------------------------
(* decide: the early returns in the order of the code, then the outcome *)

SessionsChanged(retry, latest) ==
    \/ DOMAIN retry.shards # DOMAIN latest
    \/ \E s \in DOMAIN latest : retry.shards[s].session # latest[s].session

\* Load evidence counts only when each named file is that shard's latest save.
EvidenceProven(evidence, latest) ==
    /\ DOMAIN evidence # {}
    /\ DOMAIN evidence \subseteq DOMAIN latest
    /\ \A s \in DOMAIN evidence : evidence[s] = latest[s]

Spread(latest) == Newest(IdsOf(latest)) - Oldest(IdsOf(latest))

\* The reason to close before any budget is looked at, "none" to go on.
Refusal(st, failure, required, catalogs) ==
    IF failure.kind \in Fatal THEN ClosedFor(failure.kind)
    ELSE IF TargetPending(st) THEN "RecoveryTargetFailed"
    ELSE IF ~LatestProven(required, catalogs) THEN "UnprovenSnapshots"
    ELSE IF HasRetry(st) /\ SessionsChanged(st.retry, LatestRoom(catalogs))
         THEN "SessionChanged"
    ELSE IF /\ failure.kind = "LoadFailure"
            /\ ~EvidenceProven(failure.shards, LatestRoom(catalogs))
         THEN "UnprovenLoadFailure"
    ELSE IF Spread(LatestRoom(catalogs)) > MAX_SNAPSHOT_GAP
         THEN "SnapshotGapExceeded"
    ELSE "none"

ReserveRetry(st, latest) ==
    [st EXCEPT !.restarts = @ + 1,
               !.retry = [status |-> "reserved", shards |-> latest]]

\* What is left once the restarts are used up.
Rollback(st, failure, catalogs) ==
    LET latest == LatestRoom(catalogs)
        candidates == CompleteBefore(latest, catalogs,
                                     Oldest(IdsOf(failure.shards)))
    IN  IF failure.kind # "LoadFailure"
            THEN Close(st, "CurrentRetriesExhausted")
        ELSE IF st.target.phase # "none"
            THEN Close(st, "RollbackAlreadyUsed")
        ELSE IF candidates = {}
            THEN Close(st, "NoPreviousCompleteSnapshot")
        ELSE IF Newest(IdsOf(latest)) - Newest(candidates) > MAX_SNAPSHOT_GAP
            THEN Close(st, "SnapshotGapExceeded")
        ELSE [st EXCEPT !.retry = NoRetry,
                        !.target = FixedTarget(catalogs, Newest(candidates))]

\* Mutant: one restart too many.
DecideOneMore(st, failure, required, catalogs) ==
    IF Closed(st) THEN st
    ELSE IF Refusal(st, failure, required, catalogs) # "none"
        THEN Close(st, Refusal(st, failure, required, catalogs))
    ELSE IF st.restarts <= CURRENT_RESTARTS
        THEN ReserveRetry(st, LatestRoom(catalogs))
    ELSE Rollback(st, failure, catalogs)

Decide(st, failure, required, catalogs) ==
    IF Closed(st) THEN st
    ELSE IF Refusal(st, failure, required, catalogs) # "none"
        THEN Close(st, Refusal(st, failure, required, catalogs))
    ELSE IF st.restarts < CURRENT_RESTARTS
        THEN ReserveRetry(st, LatestRoom(catalogs))
    ELSE Rollback(st, failure, catalogs)

ResumeTarget(st, required, catalogs) ==
    LET refusal == ReplayRefusal(st.target, required, catalogs)
    IN  IF refusal # "none" THEN Close(st, refusal)
        ELSE [st EXCEPT !.target.phase = "Preparing"]

\* Mutant: an unstarted retry no longer requires its recorded saves.
ResumeRetryUnchecked(st, required, catalogs) ==
    IF st.retry.status = "started"
        THEN Decide(st, Plain("Retryable"), required, catalogs)
    ELSE st

ResumeRetry(st, required, catalogs) ==
    IF st.retry.status = "started"
        THEN Decide(st, Plain("Retryable"), required, catalogs)
    ELSE IF /\ LatestProven(required, catalogs)
            /\ LatestRoom(catalogs) = st.retry.shards
        THEN st
    ELSE Close(st, "CurrentSaveChanged")

ResumePending(st, required, catalogs) ==
    IF Closed(st) THEN st
    ELSE IF TargetPending(st) THEN ResumeTarget(st, required, catalogs)
    ELSE IF HasRetry(st) THEN ResumeRetry(st, required, catalogs)
    ELSE st

\* The Decision that on_failure and resume_pending return is read off the
\* state they persist.
Decision(st) ==
    IF Closed(st) THEN "StayClosed"
    ELSE IF TargetPending(st) THEN "Restore"
    ELSE IF HasRetry(st) THEN "RetryCurrent"
    ELSE "None"

-----------------------------------------------------------------------------
(* The steps of a start; Can* are the ensure! of each *)

CanBeginRetry(st) == st.retry.status = "reserved" /\ ~Closed(st)
BeginCurrentRetry(st) == [st EXCEPT !.retry.status = "started"]

CanMarkPrepared(st) == ~Closed(st) /\ st.target.phase = "Preparing"
MarkPrepared(st) == [st EXCEPT !.target.phase = "Starting"]

CanMarkReady(st) ==
    /\ ~Closed(st)
    /\ st.retry.status # "reserved"
    /\ st.target.phase \in {"none", "Starting", "Ready"}

MarkReady(st) ==
    [st EXCEPT !.target.phase = IF @ = "none" THEN @ ELSE "Ready",
               !.retry = NoRetry]

(* The three ways to a fresh budget *)

CanResetAfterStable(st) ==
    /\ ~Closed(st)
    /\ ~HasRetry(st)
    /\ st.target.phase \in {"none", "Ready"}
ResetAfterStable(st) == Reset(st)

ResetForOpenWindow(st, window) ==
    IF st.window # 0 /\ window <= st.window THEN st
    ELSE Reset([st EXCEPT !.window = window])

ExplicitStart(st, alwaysOpen) ==
    IF alwaysOpen /\ Closed(st) THEN Reset(st) ELSE st

=============================================================================
