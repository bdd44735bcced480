--------------------------- MODULE RecoveryProofs ---------------------------
(***************************************************************************)
(* Theorems about RoomRecovery, for every number of shards, every bound    *)
(* and every restart budget and snapshot gap.                              *)
(*                                                                         *)
(* The argument: every operator of Recovery that computes a new entry from *)
(* a sound one yields a sound one and keeps an unfinished target (one      *)
(* lemma per operator); the actions apply these operators to the durable   *)
(* entry and nothing else writes it.                                       *)
(*                                                                         *)
(* For the launches: every decision closes the incident, reserves a        *)
(* restart of the saves it was shown, or fixes a target not too far behind *)
(* them (DecideParts, ResumeParts).  From there to the launch nothing but  *)
(* ApplyShard touches the saves, so that what was decided is what is on    *)
(* disk (LaunchInv); and each failure that was persisted is either paid    *)
(* for by a restart or the target, or still owed to the next decision      *)
(* (BudgetInv).                                                            *)
(***************************************************************************)
EXTENDS RoomRecovery, TLAPS, WellFoundedInduction, FiniteSetTheorems

-----------------------------------------------------------------------------
(* Largest and smallest snapshot numbers *)

\* A non-empty set of natural numbers has a smallest member.
LEMMA OldestExists ==
    ASSUME NEW S \in SUBSET Nat, S # {}
    PROVE  /\ Oldest(S) \in S
           /\ \A m \in S : Oldest(S) <= m
<1> DEFINE R == OpToRel(<, Nat)
<1>1. \A m, n \in Nat : (<<m, n>> \in R) <=> m < n
  BY DEF OpToRel
<1>2. IsWellFoundedOn(R, Nat)
  BY NatLessThanWellFounded
<1> HIDE DEF R
<1>3. \E n \in S : \A m \in S : ~(<<m, n>> \in R)
  BY <1>2, WFMin
<1>4. PICK n \in S : \A m \in S : ~(<<m, n>> \in R)
  BY <1>3
<1>5. ASSUME NEW m \in S PROVE n <= m
  <2>1. m \in Nat /\ n \in Nat
    OBVIOUS
  <2>2. ~(m < n)
    BY <1>1, <1>4, <2>1, Zenon
  <2> QED
    BY <2>1, <2>2
<1> QED
  BY <1>5 DEF Oldest

\* A non-empty set of snapshot numbers below a bound has a largest member.
LEMMA NewestExists ==
    ASSUME NEW N \in Nat, NEW S \in SUBSET (0 .. N), S # {}
    PROVE  /\ Newest(S) \in S
           /\ \A m \in S : m <= Newest(S)
<1> DEFINE T == {N - i : i \in S}
<1>1. T \in SUBSET Nat /\ T # {}
  <2>1. \A i \in S : i \in Nat /\ i <= N
    OBVIOUS
  <2>2. \A i \in S : N - i \in Nat
    BY <2>1
  <2>3. T # {}
    BY Zenon
  <2> QED
    BY <2>2, <2>3, Zenon
<1>2. /\ Oldest(T) \in T
      /\ \A m \in T : Oldest(T) <= m
  BY <1>1, OldestExists
<1>3. PICK i \in S : Oldest(T) = N - i
  BY <1>2
<1>4. \A j \in S : N - i <= N - j
  BY <1>2, <1>3
<1>5. \A j \in S : j <= i
  BY <1>4
<1> QED
  BY <1>5 DEF Newest

-----------------------------------------------------------------------------
(* Saved rooms *)

\* A saved room is a function on some of the shards.
LEMMA SavedRoomIntro ==
    ASSUME NEW D \in SUBSET Shards, NEW f \in [D -> Saved]
    PROVE  f \in SavedRooms
  BY Zenon DEF SavedRooms

LEMMA SavedRoomElim ==
    ASSUME NEW f \in SavedRooms
    PROVE  /\ DOMAIN f \in SUBSET Shards
           /\ f \in [DOMAIN f -> Saved]
<1>1. PICK D \in SUBSET Shards : f \in [D -> Saved]
  BY Zenon DEF SavedRooms
<1> QED
  BY <1>1, Zenon

LEMMA NoRoomIsSaved == NoRoom \in SavedRooms
<1>1. NoRoom \in [{} -> Saved]
  BY DEF NoRoom
<1> QED
  BY <1>1, SavedRoomIntro

LEMMA CatalogsElim ==
    ASSUME NEW c \in CatalogSets
    PROVE  /\ DOMAIN c \in SUBSET Shards
           /\ c \in [DOMAIN c -> SaveState]
<1>1. PICK D \in SUBSET Shards : c \in [D -> SaveState]
  BY Zenon DEF CatalogSets
<1> QED
  BY <1>1, Zenon

LEMMA CatalogsIntro ==
    ASSUME NEW D \in SUBSET Shards, NEW f \in [D -> SaveState]
    PROVE  f \in CatalogSets
  BY Zenon DEF CatalogSets

\* latest_room returns one saved shard per catalog.
LEMMA LatestRoomIsSaved ==
    ASSUME NEW c \in CatalogSets
    PROVE  /\ LatestRoom(c) \in SavedRooms
           /\ DOMAIN LatestRoom(c) = DOMAIN c
           /\ \A s \in DOMAIN c :
                 LatestRoom(c)[s] = [session |-> c[s].session,
                                     id |-> c[s].latest]
<1>1. /\ DOMAIN c \in SUBSET Shards
      /\ c \in [DOMAIN c -> SaveState]
  BY CatalogsElim
<1>2. \A s \in DOMAIN c :
         [session |-> c[s].session, id |-> c[s].latest] \in Saved
  BY <1>1 DEF SaveState, Saved
<1>3. LatestRoom(c) \in [DOMAIN c -> Saved]
  BY <1>2 DEF LatestRoom
<1> QED
  BY <1>1, <1>3, SavedRoomIntro DEF LatestRoom

-----------------------------------------------------------------------------
(* One lemma per operator that computes a new entry *)

\* What a step may make of the entry.
Sound(st, new) ==
    /\ new \in RecoveryStates
    /\ Validate(new)
    /\ Coherent(new)
    /\ KeepsTarget(st, new)

GoodEntry(st) == st \in RecoveryStates /\ Validate(st) /\ Coherent(st)

LEMMA SameIsSound ==
    ASSUME NEW st, GoodEntry(st)
    PROVE  Sound(st, st)
  BY DEF GoodEntry, Sound, KeepsTarget

LEMMA NoRetryIsRetry == NoRetry \in Retries
  BY NoRoomIsSaved DEF NoRetry, Retries, RetryStatus

LEMMA NoTargetIsTarget == NoTarget \in Targets
  BY NoRoomIsSaved, MaxAssumption DEF NoTarget, Targets, TargetPhases

LEMMA ZeroRestarts == 0 \in Restarts
  BY RestartsAssumption DEF Restarts

\* Only the phase of a target changes after it was fixed.
LEMMA PhaseChange ==
    ASSUME NEW target \in Targets, NEW phase \in TargetPhases
    PROVE  LET new == [target EXCEPT !.phase = phase]
           IN  /\ new \in Targets
               /\ new.phase = phase
               /\ new.id = target.id
               /\ new.shards = target.shards
  BY DEF Targets

LEMMA CloseIsSound ==
    ASSUME NEW st, GoodEntry(st), NEW reason \in ClosedReasons
    PROVE  Sound(st, Close(st, reason))
<1> DEFINE new == Close(st, reason)
           phase == IF TargetPending(st) THEN "Failed" ELSE st.target.phase
<1>1. st \in RecoveryStates /\ st.target \in Targets
  BY DEF GoodEntry, RecoveryStates
<1>2. phase \in TargetPhases /\ phase \notin {"Preparing", "Starting"}
  BY <1>1 DEF Targets, TargetPhases, TargetPending
<1>3. reason \in Closings /\ reason # "none"
  BY DEF Closings, ClosedReasons
<1>4. /\ new \in RecoveryStates
      /\ new.restarts = st.restarts
      /\ new.closed = reason
      /\ new.retry = NoRetry
      /\ new.target = [st.target EXCEPT !.phase = phase]
  BY <1>1, <1>2, <1>3, NoRetryIsRetry, PhaseChange DEF Close, RecoveryStates
<1>5. /\ new.target.phase = phase
      /\ new.target.id = st.target.id
      /\ new.target.shards = st.target.shards
  BY <1>1, <1>2, <1>4, PhaseChange
<1>6. phase = "none" <=> st.target.phase = "none"
  BY DEF TargetPending
<1> HIDE DEF new, phase
<1>7. Validate(new)
  BY <1>4, <1>5, <1>6 DEF GoodEntry, Validate, HasRetry, NoRetry
<1>8. Coherent(new)
  BY <1>2, <1>3, <1>4, <1>5
     DEF Coherent, HasRetry, Pending, TargetPending, Closed, NoRetry
<1>9. KeepsTarget(st, new)
  BY <1>5, <1>6 DEF KeepsTarget
<1> QED
  BY <1>4, <1>7, <1>8, <1>9 DEF Sound, new

LEMMA ResetIsSound ==
    ASSUME NEW st, GoodEntry(st)
    PROVE  Sound(st, Reset(st))
<1> DEFINE new == Reset(st)
           kept == [st.target EXCEPT !.phase = "Preparing"]
           target == IF st.target.phase \in {"none", "Ready"} THEN NoTarget
                     ELSE kept
<1>1. st \in RecoveryStates /\ st.target \in Targets
  BY DEF GoodEntry, RecoveryStates
<1>2. /\ kept \in Targets
      /\ kept.phase = "Preparing"
      /\ kept.id = st.target.id
      /\ kept.shards = st.target.shards
  BY <1>1, PhaseChange DEF TargetPhases
<1>3. target \in Targets
  BY <1>2, NoTargetIsTarget
<1>4. new = [st EXCEPT !.restarts = 0, !.closed = "none",
                       !.retry = NoRetry, !.target = target]
  BY Zenon DEF Reset
<1>5. "none" \in Closings
  BY DEF Closings
<1>6. /\ target.phase \in {"none", "Preparing"}
      /\ target.phase = "Preparing" =>
            /\ target.id = st.target.id
            /\ target.shards = st.target.shards
            /\ st.target.phase # "none"
      /\ target.phase = "none" => st.target.phase \in {"none", "Ready"}
  BY <1>2 DEF NoTarget
<1> HIDE DEF new, kept, target
<1>7. /\ new \in RecoveryStates
      /\ new.restarts = 0
      /\ new.closed = "none"
      /\ new.retry = NoRetry
      /\ new.target = target
  BY <1>1, <1>3, <1>4, <1>5, ZeroRestarts, NoRetryIsRetry DEF RecoveryStates
<1>8. Validate(new) /\ Coherent(new)
  BY <1>6, <1>7, RestartsAssumption
     DEF GoodEntry, Validate, Coherent, HasRetry, Pending, TargetPending,
         Closed, NoRetry
<1>9. KeepsTarget(st, new)
  BY <1>6, <1>7 DEF KeepsTarget
<1> QED
  BY <1>7, <1>8, <1>9 DEF Sound, new

\* A retry is reserved for the latest saves of a proven room.
LEMMA ReserveRetryIsSound ==
    ASSUME NEW st, GoodEntry(st), ~Closed(st), ~TargetPending(st),
           st.restarts < CURRENT_RESTARTS,
           NEW req, NEW c \in CatalogSets, LatestProven(req, c)
    PROVE  Sound(st, ReserveRetry(st, LatestRoom(c)))
<1> DEFINE new == ReserveRetry(st, LatestRoom(c))
           retry == [status |-> "reserved", shards |-> LatestRoom(c)]
           count == st.restarts + 1
<1>1. st \in RecoveryStates /\ st.restarts \in Restarts
  BY DEF GoodEntry, RecoveryStates
<1>2. retry \in Retries
  BY LatestRoomIsSaved DEF Retries, RetryStatus
<1>3. count \in Restarts /\ count > 0 /\ count <= CURRENT_RESTARTS
  BY <1>1, RestartsAssumption DEF Restarts
<1>4. /\ DOMAIN LatestRoom(c) # {}
      /\ \A s \in DOMAIN LatestRoom(c) : LatestRoom(c)[s].id > 0
  <2>1. DOMAIN c # {} /\ \A s \in DOMAIN c : c[s].latest > 0
    BY DEF LatestProven
  <2>2. DOMAIN LatestRoom(c) = DOMAIN c
    BY LatestRoomIsSaved
  <2>3. \A s \in DOMAIN c : LatestRoom(c)[s].id = c[s].latest
    BY DEF LatestRoom
  <2> QED
    BY <2>1, <2>2, <2>3
<1>5. /\ retry.status = "reserved"
      /\ retry.shards = LatestRoom(c)
  OBVIOUS
<1>6. new = [st EXCEPT !.restarts = count, !.retry = retry]
  BY Zenon DEF ReserveRetry
<1> HIDE DEF new, retry, count
<1>7. /\ new \in RecoveryStates
      /\ new.restarts = count
      /\ new.retry = retry
      /\ new.closed = st.closed
      /\ new.target = st.target
  BY <1>1, <1>2, <1>3, <1>6 DEF RecoveryStates
<1>8. Validate(new)
  BY <1>3, <1>4, <1>5, <1>7 DEF GoodEntry, Validate, HasRetry, Closed
<1>9. Coherent(new) /\ KeepsTarget(st, new)
  BY <1>7 DEF GoodEntry, Coherent, KeepsTarget, HasRetry, Pending,
              TargetPending, Closed
<1> QED
  BY <1>7, <1>8, <1>9 DEF Sound, new

\* previous_target picks a snapshot number of the catalogs.
LEMMA CandidatesAreIds ==
    ASSUME NEW c \in CatalogSets, NEW latest, NEW failed
    PROVE  LET candidates == CompleteBefore(latest, c, failed)
           IN  /\ candidates \in SUBSET (0 .. MaxSnapshot)
               /\ \A id \in candidates : id > 0
<1>1. c \in [DOMAIN c -> SaveState]
  BY CatalogsElim
<1>2. \A s \in DOMAIN c : c[s].files \in SUBSET Ids
  BY <1>1 DEF SaveState
<1>3. \A id \in Ids : id \in 0 .. MaxSnapshot /\ id > 0
  BY MaxAssumption DEF Ids
<1> QED
  BY <1>2, <1>3 DEF CompleteBefore

LEMMA FixedTargetIsTarget ==
    ASSUME NEW c \in CatalogSets, NEW id \in 0 .. MaxSnapshot, id > 0
    PROVE  /\ FixedTarget(c, id) \in Targets
           /\ FixedTarget(c, id).phase = "Preparing"
           /\ FixedTarget(c, id).id = id
           /\ DOMAIN FixedTarget(c, id).shards = DOMAIN c
           /\ \A s \in DOMAIN c : FixedTarget(c, id).shards[s].id = id
<1> DEFINE shards == [s \in DOMAIN c |-> [session |-> c[s].session, id |-> id]]
<1>1. DOMAIN c \in SUBSET Shards /\ c \in [DOMAIN c -> SaveState]
  BY CatalogsElim
<1>2. id \in Ids
  BY MaxAssumption DEF Ids
<1>3. \A s \in DOMAIN c : [session |-> c[s].session, id |-> id] \in Saved
  BY <1>1, <1>2 DEF SaveState, Saved
<1>4. shards \in [DOMAIN c -> Saved]
  BY <1>3
<1>5. shards \in SavedRooms
  BY <1>1, <1>4, SavedRoomIntro
<1>6. DOMAIN shards = DOMAIN c /\ \A s \in DOMAIN c : shards[s].id = id
  OBVIOUS
<1>7. FixedTarget(c, id) = [phase |-> "Preparing", id |-> id, shards |-> shards]
  BY DEF FixedTarget
<1> HIDE DEF shards
<1> QED
  BY <1>5, <1>6, <1>7 DEF Targets, TargetPhases

LEMMA RollbackIsSound ==
    ASSUME NEW st, GoodEntry(st), ~Closed(st),
           NEW req, NEW c \in CatalogSets, LatestProven(req, c),
           NEW failed
    PROVE  Sound(st, Rollback(st, failed, c))
<1> DEFINE candidates == CompleteBefore(LatestRoom(c), c,
                                        Oldest(IdsOf(failed.shards)))
           fixed == [st EXCEPT !.retry = NoRetry,
                               !.target = FixedTarget(c, Newest(candidates))]
<1>1. \A reason \in ClosedReasons : Sound(st, Close(st, reason))
  BY CloseIsSound
<1>2. ASSUME st.target.phase = "none", candidates # {}
      PROVE  Sound(st, fixed)
  <2>1. Newest(candidates) \in 0 .. MaxSnapshot /\ Newest(candidates) > 0
    BY <1>2, CandidatesAreIds, NewestExists, MaxAssumption
  <2> HIDE DEF candidates
  <2> DEFINE target == FixedTarget(c, Newest(candidates))
  <2>2. /\ target \in Targets
        /\ target.phase = "Preparing"
        /\ target.id = Newest(candidates)
        /\ DOMAIN target.shards = DOMAIN c
        /\ \A s \in DOMAIN c : target.shards[s].id = Newest(candidates)
    BY <2>1, FixedTargetIsTarget
  <2>3. DOMAIN c # {}
    BY DEF LatestProven
  <2> HIDE DEF target
  <2>4. /\ fixed \in RecoveryStates
        /\ fixed.restarts = st.restarts
        /\ fixed.closed = st.closed
        /\ fixed.retry = NoRetry
        /\ fixed.target = target
    BY <2>2, NoRetryIsRetry DEF GoodEntry, RecoveryStates, target
  <2> HIDE DEF fixed
  <2>5. Validate(fixed)
    BY <2>1, <2>2, <2>3, <2>4 DEF GoodEntry, Validate, HasRetry, NoRetry
  <2>6. Coherent(fixed) /\ KeepsTarget(st, fixed)
    BY <1>2, <2>2, <2>4 DEF Coherent, KeepsTarget, HasRetry, Pending,
                            TargetPending, Closed, NoRetry
  <2> QED
    BY <2>4, <2>5, <2>6 DEF Sound
<1>3. \/ \E reason \in ClosedReasons :
            Rollback(st, failed, c) = Close(st, reason)
      \/ /\ st.target.phase = "none"
         /\ candidates # {}
         /\ Rollback(st, failed, c) = fixed
  BY DEF Rollback, ClosedReasons
<1> QED
  BY <1>1, <1>2, <1>3

\* decide closes for a listed reason or has a proven room and no target owed.
LEMMA RefusalCases ==
    ASSUME NEW st, NEW failed, NEW req, NEW c
    PROVE  /\ Refusal(st, failed, req, c) \in ClosedReasons \union {"none"}
           /\ Refusal(st, failed, req, c) = "none" =>
                 ~TargetPending(st) /\ LatestProven(req, c)
<1>1. failed.kind \in Fatal =>
         ClosedFor(failed.kind) \in ClosedReasons /\ ClosedFor(failed.kind) # "none"
  BY DEF Fatal, ClosedFor, ClosedReasons
<1>2. {"RecoveryTargetFailed", "UnprovenSnapshots", "SessionChanged",
       "UnprovenLoadFailure", "SnapshotGapExceeded"} \subseteq ClosedReasons
  BY DEF ClosedReasons
<1> QED
  BY <1>1, <1>2 DEF Refusal

LEMMA DecideIsSound ==
    ASSUME NEW st, GoodEntry(st), NEW failed, NEW req, NEW c \in CatalogSets
    PROVE  Sound(st, Decide(st, failed, req, c))
<1> DEFINE refusal == Refusal(st, failed, req, c)
<1>1. CASE Closed(st)
  BY <1>1, SameIsSound DEF Decide
<1>2. CASE ~Closed(st) /\ refusal # "none"
  <2>1. refusal \in ClosedReasons
    BY <1>2, RefusalCases
  <2> QED
    BY <1>2, <2>1, CloseIsSound DEF Decide
<1>3. CASE ~Closed(st) /\ refusal = "none"
  <2>1. ~TargetPending(st) /\ LatestProven(req, c)
    BY <1>3, RefusalCases
  <2>2. CASE st.restarts < CURRENT_RESTARTS
    BY <1>3, <2>1, <2>2, ReserveRetryIsSound DEF Decide
  <2>3. CASE ~(st.restarts < CURRENT_RESTARTS)
    BY <1>3, <2>1, <2>3, RollbackIsSound DEF Decide
  <2> QED
    BY <2>2, <2>3
<1> QED
  BY <1>1, <1>2, <1>3

\* A step that only moves the phase of a pending target between Preparing,
\* Starting and Ready.
LEMMA AdvanceIsSound ==
    ASSUME NEW st, GoodEntry(st), ~Closed(st), ~HasRetry(st),
           st.target.phase # "none",
           NEW phase \in {"Preparing", "Starting", "Ready"}
    PROVE  Sound(st, [st EXCEPT !.target.phase = phase])
<1> DEFINE new == [st EXCEPT !.target.phase = phase]
           target == [st.target EXCEPT !.phase = phase]
<1>1. st \in RecoveryStates /\ st.target \in Targets /\ phase \in TargetPhases
  BY DEF GoodEntry, RecoveryStates, TargetPhases
<1>2. /\ target \in Targets
      /\ target.phase = phase
      /\ target.id = st.target.id
      /\ target.shards = st.target.shards
  BY <1>1, PhaseChange
<1>3. new = [st EXCEPT !.target = target]
  BY Zenon
<1> HIDE DEF new, target
<1>4. /\ new \in RecoveryStates
      /\ new.restarts = st.restarts
      /\ new.closed = st.closed
      /\ new.retry = st.retry
      /\ new.target = target
  BY <1>1, <1>2, <1>3 DEF RecoveryStates
<1>5. Validate(new) /\ Coherent(new) /\ KeepsTarget(st, new)
  BY <1>2, <1>4 DEF GoodEntry, Validate, Coherent, KeepsTarget, HasRetry,
                    Pending, TargetPending, Closed
<1> QED
  BY <1>4, <1>5 DEF Sound, new

\* verify_replay refuses for a listed reason.
LEMMA ReplayRefusalCases ==
    ASSUME NEW target, NEW req, NEW c
    PROVE  ReplayRefusal(target, req, c) \in ClosedReasons \union {"none"}
<1> DEFINE refusals == {ShardRefusal(target, s, c[s]) : s \in req}
<1>1. \A s \in req :
         ShardRefusal(target, s, c[s]) \in ClosedReasons \union {"none"}
  BY DEF ShardRefusal, ClosedReasons
<1>2. refusals \subseteq ClosedReasons \union {"none"}
  BY <1>1
<1>3. ReplayRefusal(target, req, c) \in
         {"UnprovenSnapshots", "SessionChanged", "none"} \union refusals
  <2> HIDE DEF refusals
  <2>1. ~(refusals \subseteq {"none"}) =>
           (CHOOSE reason \in refusals : reason # "none") \in refusals
    OBVIOUS
  <2> QED
    BY <2>1 DEF ReplayRefusal, refusals
<1> QED
  BY <1>2, <1>3 DEF ClosedReasons

LEMMA ResumePendingIsSound ==
    ASSUME NEW st, GoodEntry(st), NEW req, NEW c \in CatalogSets
    PROVE  Sound(st, ResumePending(st, req, c))
<1>1. CASE Closed(st)
  BY <1>1, SameIsSound DEF ResumePending
<1>2. CASE ~Closed(st) /\ TargetPending(st)
  <2> DEFINE refusal == ReplayRefusal(st.target, req, c)
  <2>1. refusal \in ClosedReasons \union {"none"}
    BY ReplayRefusalCases
  <2>2. ~HasRetry(st) /\ st.target.phase # "none"
    BY <1>2 DEF GoodEntry, Coherent, TargetPending
  <2>3. ResumePending(st, req, c) =
           IF refusal # "none" THEN Close(st, refusal)
           ELSE [st EXCEPT !.target.phase = "Preparing"]
    BY <1>2 DEF ResumePending, ResumeTarget
  <2> HIDE DEF refusal
  <2>4. CASE refusal # "none"
    BY <2>1, <2>3, <2>4, CloseIsSound
  <2>5. CASE refusal = "none"
    BY <1>2, <2>2, <2>3, <2>5, AdvanceIsSound
  <2> QED
    BY <2>4, <2>5
<1>3. CASE ~Closed(st) /\ ~TargetPending(st) /\ HasRetry(st)
  <2>1. Sound(st, Decide(st, Plain("Retryable"), req, c))
    BY DecideIsSound
  <2>2. Sound(st, Close(st, "CurrentSaveChanged"))
    BY CloseIsSound DEF ClosedReasons
  <2>3. Sound(st, st)
    BY SameIsSound
  <2>4. ResumePending(st, req, c) \in
           {Decide(st, Plain("Retryable"), req, c), st,
            Close(st, "CurrentSaveChanged")}
    BY <1>3 DEF ResumePending, ResumeRetry
  <2> QED
    BY <2>1, <2>2, <2>3, <2>4
<1>4. CASE ~Closed(st) /\ ~TargetPending(st) /\ ~HasRetry(st)
  BY <1>4, SameIsSound DEF ResumePending
<1> QED
  BY <1>1, <1>2, <1>3, <1>4

LEMMA BeginCurrentRetryIsSound ==
    ASSUME NEW st, GoodEntry(st), CanBeginRetry(st)
    PROVE  Sound(st, BeginCurrentRetry(st))
<1> DEFINE new == BeginCurrentRetry(st)
           retry == [st.retry EXCEPT !.status = "started"]
<1>1. st \in RecoveryStates /\ st.retry \in Retries
  BY DEF GoodEntry, RecoveryStates
<1>2. retry \in Retries /\ retry.status = "started" /\ retry.shards = st.retry.shards
  BY <1>1 DEF Retries, RetryStatus
<1>3. new = [st EXCEPT !.retry = retry]
  BY Zenon DEF BeginCurrentRetry
<1> HIDE DEF new, retry
<1>4. /\ new \in RecoveryStates
      /\ new.restarts = st.restarts
      /\ new.closed = st.closed
      /\ new.retry = retry
      /\ new.target = st.target
  BY <1>1, <1>2, <1>3 DEF RecoveryStates
<1>5. HasRetry(st) /\ HasRetry(new)
  BY <1>2, <1>4 DEF HasRetry, CanBeginRetry
<1>6. Validate(new)
  BY <1>2, <1>4, <1>5 DEF GoodEntry, Validate, Closed
<1>7. Coherent(new) /\ KeepsTarget(st, new)
  BY <1>4, <1>5 DEF GoodEntry, Coherent, KeepsTarget, Pending, TargetPending, Closed
<1> QED
  BY <1>4, <1>6, <1>7 DEF Sound, new

LEMMA MarkPreparedIsSound ==
    ASSUME NEW st, GoodEntry(st), CanMarkPrepared(st)
    PROVE  Sound(st, MarkPrepared(st))
<1>1. ~HasRetry(st) /\ ~Closed(st) /\ st.target.phase # "none"
  BY DEF GoodEntry, Coherent, CanMarkPrepared, TargetPending
<1> QED
  BY <1>1, AdvanceIsSound DEF MarkPrepared

LEMMA MarkReadyIsSound ==
    ASSUME NEW st, GoodEntry(st), CanMarkReady(st)
    PROVE  Sound(st, MarkReady(st))
<1> DEFINE new == MarkReady(st)
           phase == IF st.target.phase = "none" THEN "none" ELSE "Ready"
           target == [st.target EXCEPT !.phase = phase]
<1>1. st \in RecoveryStates /\ st.target \in Targets
  BY DEF GoodEntry, RecoveryStates
<1>2. phase \in TargetPhases
  BY DEF TargetPhases
<1>3. /\ target \in Targets
      /\ target.phase = phase
      /\ target.id = st.target.id
      /\ target.shards = st.target.shards
  BY <1>1, <1>2, PhaseChange
<1>4. new = [st EXCEPT !.target = target, !.retry = NoRetry]
  BY <1>1, Zenon DEF MarkReady
<1> HIDE DEF new, target
<1>5. /\ new \in RecoveryStates
      /\ new.restarts = st.restarts
      /\ new.closed = st.closed
      /\ new.retry = NoRetry
      /\ new.target = target
  BY <1>1, <1>3, <1>4, NoRetryIsRetry DEF RecoveryStates
<1>6. Validate(new) /\ Coherent(new)
  BY <1>3, <1>5 DEF GoodEntry, Validate, Coherent, HasRetry, Pending,
                    TargetPending, Closed, NoRetry, CanMarkReady
<1>7. KeepsTarget(st, new)
  BY <1>3, <1>5 DEF KeepsTarget
<1> QED
  BY <1>5, <1>6, <1>7 DEF Sound, new

LEMMA ResetForOpenWindowIsSound ==
    ASSUME NEW st, GoodEntry(st), NEW window \in Openings
    PROVE  Sound(st, ResetForOpenWindow(st, window))
<1> DEFINE opened == [st EXCEPT !.window = window]
<1>1. /\ opened \in RecoveryStates
      /\ opened.restarts = st.restarts
      /\ opened.closed = st.closed
      /\ opened.retry = st.retry
      /\ opened.target = st.target
  BY DEF GoodEntry, RecoveryStates
<1>2. ResetForOpenWindow(st, window) \in {st, Reset(opened)}
  BY DEF ResetForOpenWindow
<1> HIDE DEF opened
<1>3. GoodEntry(opened)
  BY <1>1 DEF GoodEntry, Validate, Coherent, HasRetry, Pending,
              TargetPending, Closed
<1>4. Sound(opened, Reset(opened))
  BY <1>3, ResetIsSound
<1>5. Sound(st, Reset(opened))
  BY <1>1, <1>4 DEF Sound, KeepsTarget
<1> QED
  BY <1>2, <1>5, SameIsSound

LEMMA ExplicitStartIsSound ==
    ASSUME NEW st, GoodEntry(st), NEW always
    PROVE  Sound(st, ExplicitStart(st, always))
  BY SameIsSound, ResetIsSound DEF ExplicitStart

-----------------------------------------------------------------------------
(* The state machine *)

\* The inductive invariant: the variables have their types, the durable entry
\* is valid and its parts agree.
RecoveryInv == TypeOK /\ ValidRecovery /\ OneIncident

LEMMA RecoveryInvEntry ==
    ASSUME RecoveryInv
    PROVE  GoodEntry(recovery) /\ required \in SUBSET Shards
  BY TopologiesAssumption
     DEF RecoveryInv, TypeOK, ValidRecovery, OneIncident, GoodEntry

LEMMA OnDiskIsCatalogs ==
    ASSUME RecoveryInv
    PROVE  OnDisk \in CatalogSets
<1>1. required \in SUBSET Shards /\ saves \in [Shards -> SaveState]
  BY RecoveryInvEntry DEF RecoveryInv, TypeOK
<1>2. OnDisk \in [required -> SaveState]
  BY <1>1 DEF OnDisk
<1> QED
  BY <1>1, <1>2, CatalogsIntro

LEMMA OpenedStateIsSound ==
    ASSUME RecoveryInv
    PROVE  Sound(recovery, OpenedState)
<1>1. GoodEntry(recovery) /\ opening \in Openings
  BY RecoveryInvEntry DEF RecoveryInv, TypeOK
<1> QED
  BY <1>1, SameIsSound, ResetForOpenWindowIsSound DEF OpenedState

\* Whatever step is taken, the durable entry stays sound.
LEMMA StepKeepsEntrySound ==
    ASSUME RecoveryInv, [Next]_vars
    PROVE  Sound(recovery, recovery')
<1> USE RecoveryInvEntry
<1>1. Sound(recovery, recovery)
  BY SameIsSound
<1>2. CASE UNCHANGED recovery
  BY <1>1, <1>2
<1>3. CASE HostStart
  BY <1>3, ExplicitStartIsSound DEF HostStart, Renew
<1>4. CASE Initialize
  BY <1>1, <1>4, OpenedStateIsSound DEF Initialize, Renew
<1>5. CASE ReadCatalogs
  <2>1. NoRoom \in [{} -> SaveState]
    BY DEF NoRoom
  <2>2. NoRoom \in CatalogSets
    BY <2>1, CatalogsIntro
  <2> QED
    BY <1>1, <1>5, <2>2, DecideIsSound DEF ReadCatalogs, Write
<1>6. CASE DecideRecovery
  <2>1. catalogs \in CatalogSets
    BY DEF RecoveryInv, TypeOK
  <2>2. recovery' \in {ResumePending(recovery, required, catalogs),
                       Decide(recovery, RunFailure, required, catalogs)}
    BY <1>6 DEF DecideRecovery, Write
  <2> QED
    BY <2>1, <2>2, DecideIsSound, ResumePendingIsSound
<1>7. CASE AwaitRetry
  <2>1. recovery' \in {ResumePending(recovery, required, OnDisk), recovery}
    BY <1>7 DEF AwaitRetry, Write
  <2> QED
    BY <1>1, <2>1, OnDiskIsCatalogs, ResumePendingIsSound
<1>8. CASE FinishApply
  BY <1>1, <1>8, MarkPreparedIsSound DEF FinishApply, Write
<1>9. CASE Launch
  BY <1>1, <1>9, BeginCurrentRetryIsSound DEF Launch, Write
<1>10. CASE RoomReady
  BY <1>1, <1>10, MarkReadyIsSound DEF RoomReady, Write
<1>11. CASE StableReset
  BY <1>11, ResetIsSound DEF StableReset, Renew, ResetAfterStable
<1>12. CASE TickOpening
  BY <1>12, OpenedStateIsSound DEF TickOpening, Renew
<1>13. CASE \/ ShutBeforeStart \/ NothingPending \/ ForgetRun \/ BeginApply
            \/ NothingToPrepare \/ SaveRun \/ SpawnGames \/ PersistFailure
            \/ RecordStop \/ \E s \in Shards : ApplyShard(s)
  BY <1>2, <1>13 DEF ShutBeforeStart, NothingPending, ForgetRun, BeginApply,
     NothingToPrepare, SaveRun, SpawnGames, PersistFailure, RecordStop,
     ApplyShard, durable
<1>14. CASE GameStep
  BY <1>2, <1>14 DEF GameStep, GamesReady, GameFault, GameSave, GameRollback,
     GameRegenerate, durable
<1>15. CASE \/ Restart \/ Activate \/ EditCluster \/ Open \/ Shut \/ CleanStop
            \/ Interrupt \/ ServerFault \/ Lose
  BY <1>2, <1>15 DEF Restart, Activate, EditCluster, Open, Shut, CleanStop,
     Interrupt, ServerFault, Lose, durable
<1>16. CASE UNCHANGED vars
  BY <1>2, <1>16 DEF vars
<1> QED
  BY <1>3, <1>4, <1>5, <1>6, <1>7, <1>8, <1>9, <1>10, <1>11, <1>12, <1>13,
     <1>14, <1>15, <1>16 DEF Next, AgentStep, OutsideStep

\* A save stays well formed under truncation to one of its files.
LEMMA TruncateIsSave ==
    ASSUME NEW save \in SaveState, NEW id \in save.files
    PROVE  Truncate(save, id) \in SaveState
<1> DEFINE new == [save EXCEPT !.ids = {i \in save.ids : i <= id},
                               !.files = {i \in save.files : i <= id},
                               !.latest = id]
<1>1. id \in Ids /\ id \in Int /\ save.files \subseteq save.ids
  BY DEF SaveState, Ids
<1>2. id <= id
  BY <1>1
<1>3. /\ new.ids = {i \in save.ids : i <= id}
      /\ new.files = {i \in save.files : i <= id}
      /\ new.latest = id
      /\ new.session = save.session
      /\ new \in [session : 1 .. MaxSession, ids : SUBSET Ids,
                  files : SUBSET Ids, latest : Ids]
  BY <1>1 DEF SaveState
<1>4. new.latest \in new.files /\ new.files \subseteq new.ids
  BY <1>1, <1>2, <1>3
<1>5. new \in SaveState
  BY <1>3, <1>4 DEF SaveState
<1> QED
  BY <1>5 DEF Truncate

LEMMA FirstSaveIsSave ==
    ASSUME NEW session \in 1 .. MaxSession
    PROVE  [FirstSave EXCEPT !.session = session] \in SaveState
  BY MaxAssumption DEF FirstSave, SaveState, Ids

LEMMA GameSaveIsSave ==
    ASSUME NEW save \in SaveState, NEW id, id = Newest(save.ids) + 1,
           id <= MaxSnapshot,
           NEW kept, kept = Recent(save.ids \union {id}) \union {save.latest}
    PROVE  /\ [save EXCEPT !.ids = kept,
                           !.files = (save.files \union {id}) \intersect kept,
                           !.latest = id] \in SaveState
           /\ [save EXCEPT !.ids = kept, !.files = save.files \intersect kept]
                 \in SaveState
<1>1. /\ save.ids \in SUBSET Ids
      /\ save.files \in SUBSET Ids
      /\ save.latest \in save.files
      /\ save.files \subseteq save.ids
      /\ save \in [session : 1 .. MaxSession, ids : SUBSET Ids,
                   files : SUBSET Ids, latest : Ids]
  BY DEF SaveState
<1>2. save.ids \in SUBSET (0 .. MaxSnapshot) /\ save.ids # {}
  BY <1>1, MaxAssumption DEF Ids
<1>3. /\ Newest(save.ids) \in save.ids
      /\ \A m \in save.ids : m <= Newest(save.ids)
  BY <1>2, NewestExists, MaxAssumption
<1>4. id \in Ids /\ \A m \in save.ids : m < id
  BY <1>1, <1>3, MaxAssumption DEF Ids
<1>5. kept \in SUBSET Ids /\ save.latest \in kept
  BY <1>1, <1>4 DEF Recent
<1>6. id \in kept
  <2>1. {j \in save.ids \union {id} : j > id} = {}
    BY <1>1, <1>4 DEF Ids
  <2>2. Cardinality({j \in save.ids \union {id} : j > id}) = 0
    BY <2>1, FS_EmptySet
  <2>3. Cardinality({j \in save.ids \union {id} : j > id}) < KeepSnapshots
    BY <2>2, KeepAssumption
  <2> QED
    BY <2>3 DEF Recent
<1> QED
  BY <1>1, <1>4, <1>5, <1>6 DEF SaveState

\* Truncation by the preloader and everything a game does keep the saves
\* well formed.
LEMMA StepKeepsSaves ==
    ASSUME RecoveryInv, [Next]_vars
    PROVE  saves' \in [Shards -> SaveState]
<1>0. saves \in [Shards -> SaveState] /\ required \in SUBSET Shards
  BY RecoveryInvEntry DEF RecoveryInv, TypeOK
<1>1. CASE UNCHANGED saves
  BY <1>0, <1>1
<1>2. ASSUME NEW s \in Shards, ApplyShard(s)
      PROVE  saves' \in [Shards -> SaveState]
  <2> DEFINE id == recovery.target.shards[s].id
  <2>1. \/ UNCHANGED saves
        \/ /\ id \in saves[s].files
           /\ saves' = [saves EXCEPT ![s] = Truncate(saves[s], id)]
    BY <1>2 DEF ApplyShard, NativeRefuses
  <2>2. CASE UNCHANGED saves
    BY <1>0, <2>2
  <2>3. CASE /\ id \in saves[s].files
             /\ saves' = [saves EXCEPT ![s] = Truncate(saves[s], id)]
    BY <1>0, <2>3, TruncateIsSave
  <2> QED
    BY <2>1, <2>2, <2>3
<1>3. ASSUME NEW s \in Shards, NEW whole \in BOOLEAN, GameSave(s, whole)
      PROVE  saves' \in [Shards -> SaveState]
  <2> DEFINE save == saves[s]
             id == Newest(save.ids) + 1
             kept == Recent(save.ids \union {id}) \union {save.latest}
             full == [save EXCEPT !.ids = kept,
                           !.files = (save.files \union {id}) \intersect kept,
                           !.latest = id]
             partial == [save EXCEPT !.ids = kept,
                                     !.files = save.files \intersect kept]
  <2>1. save \in SaveState /\ id <= MaxSnapshot
    BY <1>0, <1>3 DEF GameSave
  <2>2. full \in SaveState /\ partial \in SaveState
    BY <2>1, GameSaveIsSave
  <2>3. saves' = [saves EXCEPT ![s] = IF whole THEN full ELSE partial]
    BY <1>0, <1>3, Zenon DEF GameSave
  <2> HIDE DEF save, full, partial
  <2> QED
    BY <1>0, <2>2, <2>3
<1>4. ASSUME NEW s \in Shards, GameRollback(s)
      PROVE  saves' \in [Shards -> SaveState]
  <2>1. PICK id \in saves[s].files :
           saves' = [saves EXCEPT ![s] = Truncate(saves[s], id)]
    BY <1>4 DEF GameRollback
  <2>2. Truncate(saves[s], id) \in SaveState
    BY <1>0, TruncateIsSave
  <2> QED
    BY <1>0, <2>1, <2>2
<1>5. ASSUME NEW s \in Shards, GameRegenerate(s)
      PROVE  saves' \in [Shards -> SaveState]
  <2> DEFINE session == saves[s].session + 1
  <2>1. saves[s].session \in 1 .. MaxSession /\ saves[s].session < MaxSession
    BY <1>0, <1>5 DEF GameRegenerate, SaveState
  <2>2. session \in 1 .. MaxSession
    BY <2>1, MaxAssumption
  <2>3. [FirstSave EXCEPT !.session = session] \in SaveState
    BY <2>2, FirstSaveIsSave
  <2>4. saves' = [saves EXCEPT ![s] = [FirstSave EXCEPT !.session = session]]
    BY <1>5 DEF GameRegenerate
  <2> HIDE DEF session
  <2> QED
    BY <1>0, <2>3, <2>4
<1>6. CASE \/ Initialize \/ ShutBeforeStart \/ ReadCatalogs \/ NothingPending
           \/ DecideRecovery \/ ForgetRun \/ AwaitRetry \/ BeginApply
           \/ FinishApply \/ NothingToPrepare \/ Launch \/ SaveRun
           \/ SpawnGames \/ RoomReady \/ PersistFailure \/ RecordStop
  BY <1>1, <1>6 DEF Initialize, ShutBeforeStart, ReadCatalogs, NothingPending,
     DecideRecovery, ForgetRun, AwaitRetry, BeginApply, FinishApply,
     NothingToPrepare, Launch, SaveRun, SpawnGames, RoomReady, PersistFailure,
     RecordStop, durable
<1>7. CASE GamesReady \/ GameFault \/ OutsideStep
  BY <1>1, <1>7 DEF GamesReady, GameFault, OutsideStep, Restart, Activate,
     HostStart, EditCluster, Open, Shut, StableReset, TickOpening, CleanStop,
     Interrupt, ServerFault, Lose, durable
<1>8. CASE UNCHANGED vars
  BY <1>1, <1>8 DEF vars
<1> QED
  BY <1>2, <1>3, <1>4, <1>5, <1>6, <1>7, <1>8 DEF Next, AgentStep, GameStep

\* Whatever classify concludes is a failure, with evidence about saved shards.
LEMMA ClassifiedAreFailures ==
    ASSUME RecoveryInv
    PROVE  Classified \subseteq Failures
<1>1. required \in SUBSET Shards /\ saves \in [Shards -> SaveState]
  BY RecoveryInvEntry DEF RecoveryInv, TypeOK
<1>2. \A kind \in {"Retryable", "Unknown"} : Plain(kind) \in Failures
  BY NoRoomIsSaved DEF Plain, Failures, FailureKinds, Fatal
<1>3. ASSUME NEW D \in (SUBSET required) \ {{}}, NEW stale \in BOOLEAN
      PROVE  LoadFailure(Evidence(D, stale)) \in Failures
  <2>1. ASSUME NEW s \in D
        PROVE  [session |-> saves[s].session,
                id |-> IF stale THEN Oldest(saves[s].files)
                       ELSE saves[s].latest] \in Saved
    <3>1. /\ saves[s].session \in 1 .. MaxSession
          /\ saves[s].files \in SUBSET Ids
          /\ saves[s].files # {}
          /\ saves[s].latest \in Ids
      BY <1>1 DEF SaveState
    <3>2. saves[s].files \in SUBSET Nat
      BY <3>1 DEF Ids
    <3>3. Oldest(saves[s].files) \in Ids
      BY <3>1, <3>2, OldestExists
    <3> QED
      BY <3>1, <3>3 DEF Saved
  <2>2. Evidence(D, stale) \in [D -> Saved]
    BY <2>1 DEF Evidence
  <2>3. Evidence(D, stale) \in SavedRooms
    BY <1>1, <2>2, SavedRoomIntro
  <2> QED
    BY <2>3 DEF LoadFailure, Failures, FailureKinds
<1> QED
  BY <1>2, <1>3 DEF Classified

\* The variables other than recovery and saves keep their types.
OtherTypes ==
    /\ run \in RunStates
    /\ required \in Topologies
    /\ open \in BOOLEAN
    /\ opening \in Openings
    /\ exit \in {"0", "1", "8", "lost", "none"}
    /\ pc \in Stages
    /\ catalogs \in CatalogSets
    /\ todo \in SUBSET Shards
    /\ failure \in Failures \union {NoFailure}
    /\ faults \in Nat
    /\ losses \in 0 .. MaxLosses

LEMMA StepKeepsOtherTypes ==
    ASSUME RecoveryInv, [Next]_vars
    PROVE  OtherTypes'
<1>0. OtherTypes /\ required \in SUBSET Shards
  BY RecoveryInvEntry DEF RecoveryInv, TypeOK, OtherTypes
<1>1. NoRoom \in CatalogSets
  <2>1. NoRoom \in [{} -> SaveState]
    BY DEF NoRoom
  <2> QED
    BY <2>1, CatalogsIntro
<1>2. IdleRun \in RunStates
  BY DEF IdleRun, RunStates
<1>3. Plain("Unknown") \in Failures
  BY NoRoomIsSaved DEF Plain, Failures, FailureKinds, Fatal
<1>4. \A f \in Failures \union {NoFailure}, active \in BOOLEAN :
         [active |-> active, failure |-> f] \in RunStates
  BY DEF RunStates
<1> USE <1>0 DEF OtherTypes
<1>5. CASE Restart \/ Activate \/ HostStart \/ EditCluster
  BY <1>5 DEF Restart, Activate, HostStart, EditCluster, Begin, Renew, durable,
              world, memory, history, Stages, Preparing
<1>6. CASE Open \/ Shut
  <2>1. opening' \in Openings
    BY <1>6, MaxAssumption DEF Open, Shut, Openings
  <2>2. open' \in BOOLEAN
    BY <1>6, Zenon DEF Open, Shut
  <2>3. UNCHANGED <<durable, exit, memory, history>>
    BY <1>6 DEF Open, Shut
  <2> QED
    BY <2>1, <2>2, <2>3, Zenon DEF durable, memory, history
<1>7. CASE Initialize \/ ShutBeforeStart \/ NothingPending
  BY <1>1, <1>7 DEF Initialize, ShutBeforeStart, NothingPending, Exit, Goto,
                    Renew, durable, history, Stages, Preparing
<1>8. CASE ReadCatalogs
  BY <1>8, OnDiskIsCatalogs DEF ReadCatalogs, Goto, Write, Stages, Preparing
<1>9. CASE DecideRecovery \/ SpawnGames \/ GamesReady \/ RoomReady \/ CleanStop
  BY <1>9 DEF DecideRecovery, SpawnGames, GamesReady, RoomReady, CleanStop,
              Goto, Write, durable, history, Stages, Preparing, Gaming
<1>10. CASE ForgetRun \/ RecordStop
  BY <1>1, <1>2, <1>10 DEF ForgetRun, RecordStop, Exit, Goto, history, Stages,
                           Preparing
<1>11. CASE AwaitRetry \/ FinishApply \/ NothingToPrepare \/ Launch \/ Interrupt
  BY <1>1, <1>11 DEF AwaitRetry, FinishApply, NothingToPrepare, Launch,
     Interrupt, Exit, Goto, Write, durable, history, Stages, Preparing
<1>12. CASE BeginApply
  BY <1>1, <1>12 DEF BeginApply, Exit, durable, history, Stages, Preparing
<1>13. CASE \E s \in Shards : ApplyShard(s)
  BY <1>1, <1>13 DEF ApplyShard, Exit, history, Stages
<1>14. CASE SaveRun
  BY <1>4, <1>14 DEF SaveRun, Goto, history, Stages, Preparing
<1>15. CASE PersistFailure
  <2>1. run' \in RunStates
    BY <1>4, <1>15, Zenon DEF PersistFailure
  <2>2. faults' \in Nat
    BY <1>15, RestartsAssumption DEF PersistFailure
  <2> QED
    BY <1>1, <1>15, <2>1, <2>2 DEF PersistFailure, Exit, Stages
<1>16. CASE StableReset \/ TickOpening
  BY <1>16 DEF StableReset, TickOpening, Renew, world, memory
<1>17. CASE \E s \in Shards : \/ \E whole \in BOOLEAN : GameSave(s, whole)
                              \/ GameRollback(s)
                              \/ GameRegenerate(s)
  BY <1>17 DEF GameSave, GameRollback, GameRegenerate, world, memory, history
<1>18. CASE GameFault
  BY <1>18, ClassifiedAreFailures DEF GameFault, durable, world, history, Stages
<1>19. CASE ServerFault
  <2>1. run' \in RunStates
    BY <1>3, <1>4, <1>19, Zenon DEF ServerFault
  <2>2. losses' \in 0 .. MaxLosses
    BY <1>19, MaxAssumption DEF ServerFault
  <2> QED
    BY <1>1, <1>19, <2>1, <2>2 DEF ServerFault, Exit, Stages
<1>20. CASE Lose
  BY <1>1, <1>20, MaxAssumption DEF Lose, Exit, durable, Stages
<1>21. CASE UNCHANGED vars
  BY <1>21 DEF vars
<1> QED
  BY <1>5, <1>6, <1>7, <1>8, <1>9, <1>10, <1>11, <1>12, <1>13, <1>14, <1>15,
     <1>16, <1>17, <1>18, <1>19, <1>20, <1>21
     DEF Next, AgentStep, GameStep, OutsideStep

LEMMA InitEstablishesInv == Init => RecoveryInv
<1> SUFFICES ASSUME Init PROVE RecoveryInv
  OBVIOUS
<1>1. recovery \in RecoveryStates
  BY ZeroRestarts, NoRetryIsRetry, NoTargetIsTarget, MaxAssumption
     DEF Init, DefaultState, RecoveryStates, Openings, Closings
<1>2. ValidRecovery /\ OneIncident
  BY RestartsAssumption
     DEF Init, ValidRecovery, OneIncident, DefaultState, Validate, Coherent,
         HasRetry, Pending, TargetPending, Closed, NoRetry, NoTarget
<1>3. saves \in [Shards -> SaveState]
  BY MaxAssumption DEF Init, FirstSave, SaveState, Ids
<1>4. catalogs \in CatalogSets
  <2>1. NoRoom \in [{} -> SaveState]
    BY DEF NoRoom
  <2> QED
    BY <2>1, CatalogsIntro DEF Init
<1>5. run \in RunStates /\ failure \in Failures \union {NoFailure}
  BY DEF Init, IdleRun, RunStates
<1> QED
  BY <1>1, <1>2, <1>3, <1>4, <1>5, AlwaysOpenAssumption, MaxAssumption
     DEF RecoveryInv, TypeOK, Init, Openings, Stages

LEMMA NextKeepsInv == RecoveryInv /\ [Next]_vars => RecoveryInv'
<1> SUFFICES ASSUME RecoveryInv, [Next]_vars PROVE RecoveryInv'
  OBVIOUS
<1>1. Sound(recovery, recovery')
  BY StepKeepsEntrySound
<1>2. saves' \in [Shards -> SaveState]
  BY StepKeepsSaves
<1>3. OtherTypes'
  BY StepKeepsOtherTypes
<1> QED
  BY <1>1, <1>2, <1>3
     DEF RecoveryInv, TypeOK, OtherTypes, ValidRecovery, OneIncident, Sound

LEMMA InvHolds == Spec => []RecoveryInv
  BY InitEstablishesInv, NextKeepsInv, PTL DEF Spec

-----------------------------------------------------------------------------
(* Theorems *)

\* The durable entries, the saves and the Agent's memory always have their
\* types, so at most CURRENT_RESTARTS restarts are ever counted.
THEOREM TypeCorrect == Spec => []TypeOK
<1>1. RecoveryInv => TypeOK
  BY DEF RecoveryInv
<1> QED
  BY <1>1, InvHolds, PTL

\* Whatever is saved, lost or failed, validate() accepts every entry that
\* update() computes: no decision ever fails on the state an earlier one left.
THEOREM EntryAlwaysValid == Spec => []ValidRecovery
<1>1. RecoveryInv => ValidRecovery
  BY DEF RecoveryInv
<1> QED
  BY <1>1, InvHolds, PTL

\* A pending retry or target means an open incident, a failed target a closed
\* one, and a retry and a pending target are never owed together.
THEOREM IncidentCoherent == Spec => []OneIncident
<1>1. RecoveryInv => OneIncident
  BY DEF RecoveryInv
<1> QED
  BY <1>1, InvHolds, PTL

\* A fixed rollback target is never replaced or dropped before it was ready:
\* not by a lost container, a fresh budget or changed saves.
THEOREM TargetNeverReplaced == Spec => TargetStaysFixed
<1>1. RecoveryInv /\ [Next]_vars => [KeepsTarget(recovery, recovery')]_vars
  BY StepKeepsEntrySound DEF Sound
<1> QED
  BY <1>1, InvHolds, PTL DEF Spec, TargetStaysFixed

-----------------------------------------------------------------------------
(* The outcomes of a decision *)

\* The incident was closed.
ClosedBy(st, new) ==
    /\ Closed(new) /\ ~Pending(new)
    /\ new.restarts = st.restarts
    /\ new.target.phase = "none" <=> st.target.phase = "none"

\* A restart of the saves in the catalogs was reserved.
ReservedBy(st, new, c) ==
    /\ ~Closed(new) /\ ~TargetPending(new)
    /\ new.restarts = st.restarts + 1
    /\ new.retry = [status |-> "reserved", shards |-> LatestRoom(c)]
    /\ new.target = st.target

\* No shard has to discard more than MAX_SNAPSHOT_GAP numbers.
WithinGap(target, req, c) ==
    /\ DOMAIN target.shards = req
    /\ \A s \in req : c[s].latest - target.id <= MAX_SNAPSHOT_GAP

\* The one rollback was fixed.
FixedBy(st, new, req, c) ==
    /\ ~Closed(new) /\ ~HasRetry(new)
    /\ new.restarts = st.restarts
    /\ st.target.phase = "none" /\ new.target.phase = "Preparing"
    /\ WithinGap(new.target, req, c)

\* Only the phase of the target moved.
Advanced(st, new, phase) ==
    /\ new.closed = st.closed
    /\ new.restarts = st.restarts
    /\ new.retry = st.retry
    /\ new.target.phase = phase
    /\ new.target.id = st.target.id
    /\ new.target.shards = st.target.shards

LEMMA AdvanceParts ==
    ASSUME NEW st, GoodEntry(st), NEW phase \in TargetPhases
    PROVE  Advanced(st, [st EXCEPT !.target.phase = phase], phase)
<1> DEFINE new == [st EXCEPT !.target.phase = phase]
           target == [st.target EXCEPT !.phase = phase]
<1>1. st \in RecoveryStates /\ st.target \in Targets
  BY DEF GoodEntry, RecoveryStates
<1>2. target.phase = phase /\ target.id = st.target.id /\ target.shards = st.target.shards
  BY <1>1, PhaseChange
<1>3. new = [st EXCEPT !.target = target]
  BY Zenon
<1> HIDE DEF new, target
<1>4. /\ new.closed = st.closed /\ new.restarts = st.restarts
      /\ new.retry = st.retry /\ new.target = target
  BY <1>1, <1>3 DEF RecoveryStates
<1> QED
  BY <1>2, <1>4 DEF Advanced, new

LEMMA CloseParts ==
    ASSUME NEW st, GoodEntry(st), NEW reason \in ClosedReasons
    PROVE  ClosedBy(st, Close(st, reason))
<1> DEFINE phase == IF TargetPending(st) THEN "Failed" ELSE st.target.phase
           target == [st.target EXCEPT !.phase = phase]
           new == Close(st, reason)
<1>1. st \in RecoveryStates /\ st.target \in Targets
  BY DEF GoodEntry, RecoveryStates
<1>2. phase \in TargetPhases
  BY <1>1 DEF Targets, TargetPhases
<1>3. target \in Targets /\ target.phase = phase
  BY <1>1, <1>2, PhaseChange
<1>4. new = [st EXCEPT !.closed = reason, !.retry = NoRetry, !.target = target]
  BY <1>1, Zenon DEF Close
<1> HIDE DEF new, target
<1>5. /\ new.closed = reason /\ new.restarts = st.restarts
      /\ new.retry = NoRetry /\ new.target = target
  BY <1>1, <1>4 DEF RecoveryStates
<1>6. reason # "none"
  BY DEF ClosedReasons
<1>7. Closed(new) /\ ~HasRetry(new)
  BY <1>5, <1>6 DEF Closed, HasRetry, NoRetry
<1>8. ~TargetPending(new) /\ (phase = "none" <=> st.target.phase = "none")
  BY <1>3, <1>5 DEF TargetPending
<1> QED
  BY <1>3, <1>5, <1>7, <1>8 DEF ClosedBy, Pending, new

LEMMA ReserveParts ==
    ASSUME NEW st, GoodEntry(st), ~Closed(st), ~TargetPending(st), NEW c
    PROVE  ReservedBy(st, ReserveRetry(st, LatestRoom(c)), c)
<1> DEFINE new == ReserveRetry(st, LatestRoom(c))
<1>1. st \in RecoveryStates
  BY DEF GoodEntry
<1>2. /\ new.restarts = st.restarts + 1 /\ new.closed = st.closed
      /\ new.retry = [status |-> "reserved", shards |-> LatestRoom(c)]
      /\ new.target = st.target
  BY <1>1 DEF RecoveryStates, ReserveRetry
<1> HIDE DEF new
<1>3. ~Closed(new) /\ ~TargetPending(new)
  BY <1>2 DEF Closed, TargetPending
<1> QED
  BY <1>2, <1>3 DEF ReservedBy, new

\* The newest save of the room bounds what any shard would lose.
LEMMA RollbackParts ==
    ASSUME NEW st, GoodEntry(st), ~Closed(st), NEW failed,
           NEW req, NEW c \in CatalogSets, LatestProven(req, c)
    PROVE  LET new == Rollback(st, failed, c)
           IN  ClosedBy(st, new) \/ FixedBy(st, new, req, c)
<1> DEFINE latest == LatestRoom(c)
           candidates == CompleteBefore(latest, c, Oldest(IdsOf(failed.shards)))
           id == Newest(candidates)
           new == [st EXCEPT !.retry = NoRetry, !.target = FixedTarget(c, id)]
<1>1. \/ \E reason \in ClosedReasons : Rollback(st, failed, c) = Close(st, reason)
      \/ /\ Rollback(st, failed, c) = new
         /\ st.target.phase = "none"
         /\ candidates # {}
         /\ ~(Newest(IdsOf(latest)) - id > MAX_SNAPSHOT_GAP)
  BY DEF Rollback, ClosedReasons
<1>2. CASE \E reason \in ClosedReasons : Rollback(st, failed, c) = Close(st, reason)
  BY <1>2, CloseParts
<1>3. CASE /\ Rollback(st, failed, c) = new
           /\ st.target.phase = "none"
           /\ candidates # {}
           /\ ~(Newest(IdsOf(latest)) - id > MAX_SNAPSHOT_GAP)
  <2>1. candidates \in SUBSET (0 .. MaxSnapshot) /\ \A i \in candidates : i > 0
    BY CandidatesAreIds
  <2>2. id \in candidates
    BY <1>3, <2>1, NewestExists, MaxAssumption
  <2>3. id \in 0 .. MaxSnapshot /\ id > 0
    BY <2>1, <2>2
  <2> HIDE DEF candidates, id, latest
  <2>4. /\ FixedTarget(c, id).phase = "Preparing" /\ FixedTarget(c, id).id = id
        /\ DOMAIN FixedTarget(c, id).shards = DOMAIN c
    BY <2>3, FixedTargetIsTarget
  <2>5. DOMAIN c = req /\ req # {}
    BY DEF LatestProven
  <2>6. c \in [DOMAIN c -> SaveState]
    BY CatalogsElim
  <2>7. ASSUME NEW s \in req
        PROVE  latest[s].id = c[s].latest /\ c[s].latest \in Ids
    <3>1. latest[s] = [session |-> c[s].session, id |-> c[s].latest]
      BY <2>5, LatestRoomIsSaved DEF latest
    <3>2. c[s] \in SaveState
      BY <2>5, <2>6
    <3>3. c[s].latest \in Ids
      BY <3>2 DEF SaveState
    <3> QED
      BY <3>1, <3>3
  <2>8. DOMAIN latest = req
    BY <2>5, LatestRoomIsSaved DEF latest
  <2>9. IdsOf(latest) \in SUBSET (0 .. MaxSnapshot) /\ IdsOf(latest) # {}
    BY <2>5, <2>7, <2>8, MaxAssumption DEF IdsOf, Ids
  <2>10. /\ Newest(IdsOf(latest)) \in IdsOf(latest)
         /\ \A m \in IdsOf(latest) : m <= Newest(IdsOf(latest))
    BY <2>9, NewestExists, MaxAssumption
  <2>11. ASSUME NEW s \in req PROVE c[s].latest - id <= MAX_SNAPSHOT_GAP
    <3>1. c[s].latest \in IdsOf(latest)
      BY <2>7, <2>8 DEF IdsOf
    <3>2. c[s].latest <= Newest(IdsOf(latest))
      BY <2>10, <3>1
    <3>3. c[s].latest \in Int /\ Newest(IdsOf(latest)) \in Int /\ id \in Int
      BY <2>3, <2>9, <2>10, <3>1
    <3> QED
      BY <1>3, <3>2, <3>3, GapAssumption
  <2>12. /\ new.closed = st.closed /\ new.restarts = st.restarts
         /\ new.retry = NoRetry /\ new.target = FixedTarget(c, id)
    BY DEF GoodEntry, RecoveryStates
  <2> HIDE DEF new
  <2>13. ~Closed(new) /\ ~HasRetry(new)
    BY <2>12 DEF Closed, HasRetry, NoRetry
  <2>14. WithinGap(new.target, req, c)
    BY <2>4, <2>5, <2>11, <2>12 DEF WithinGap
  <2> QED
    BY <1>3, <2>4, <2>12, <2>13, <2>14 DEF FixedBy
<1> QED
  BY <1>1, <1>2, <1>3

\* decide leaves a closed incident alone; an open one it closes, or it spends one
\* restart, or the only rollback.
LEMMA DecideParts ==
    ASSUME NEW st, GoodEntry(st), NEW failed, NEW req, NEW c \in CatalogSets
    PROVE  LET new == Decide(st, failed, req, c)
           IN  \/ Closed(st) /\ new = st
               \/ ClosedBy(st, new)
               \/ ReservedBy(st, new, c)
               \/ FixedBy(st, new, req, c)
<1> DEFINE refusal == Refusal(st, failed, req, c)
<1>1. CASE Closed(st)
  BY <1>1 DEF Decide
<1>2. /\ refusal \in ClosedReasons \union {"none"}
      /\ refusal = "none" => ~TargetPending(st) /\ LatestProven(req, c)
  BY RefusalCases
<1>3. CASE ~Closed(st) /\ refusal # "none"
  BY <1>2, <1>3, CloseParts DEF Decide
<1>4. CASE ~Closed(st) /\ refusal = "none"
  BY <1>2, <1>4, ReserveParts, RollbackParts DEF Decide
<1> QED
  BY <1>1, <1>3, <1>4

\* A target that verify_replay accepts is within the gap.
LEMMA ReplayWithinGap ==
    ASSUME NEW target, NEW req, NEW c, ReplayRefusal(target, req, c) = "none"
    PROVE  /\ DOMAIN target.shards = req
           /\ \A s \in req : ~(c[s].latest - target.id > MAX_SNAPSHOT_GAP)
<1> DEFINE refusals == {ShardRefusal(target, s, c[s]) : s \in req}
<1>1. refusals \subseteq {"none"} /\ DOMAIN target.shards = req
  <2> HIDE DEF refusals
  <2>1. ~(refusals \subseteq {"none"}) =>
           (CHOOSE reason \in refusals : reason # "none") # "none"
    OBVIOUS
  <2> QED
    BY <2>1 DEF ReplayRefusal, refusals
<1>2. \A s \in req : ShardRefusal(target, s, c[s]) = "none"
  BY <1>1
<1> QED
  BY <1>1, <1>2 DEF ShardRefusal

\* A pending attempt is resumed as it was, or decided anew.
LEMMA ResumeParts ==
    ASSUME NEW st, GoodEntry(st), NEW req, NEW c \in CatalogSets
    PROVE  LET new == ResumePending(st, req, c)
           IN  \/ new = st /\ (Pending(st) =>
                     /\ st.retry.status = "reserved"
                     /\ LatestRoom(c) = st.retry.shards)
               \/ ClosedBy(st, new)
               \/ ReservedBy(st, new, c) /\ st.retry.status = "started"
               \/ FixedBy(st, new, req, c) /\ st.retry.status = "started"
               \/ /\ TargetPending(st)
                  /\ Advanced(st, new, "Preparing")
                  /\ WithinGap(st.target, req, c)
<1>1. st \in RecoveryStates /\ Coherent(st)
  BY DEF GoodEntry
<1>2. CASE Closed(st)
  BY <1>1, <1>2 DEF ResumePending, Coherent
<1>3. CASE ~Closed(st) /\ TargetPending(st)
  <2> DEFINE refusal == ReplayRefusal(st.target, req, c)
  <2>1. refusal \in ClosedReasons \union {"none"}
    BY ReplayRefusalCases
  <2>2. ResumePending(st, req, c) =
           IF refusal # "none" THEN Close(st, refusal)
           ELSE [st EXCEPT !.target.phase = "Preparing"]
    BY <1>3 DEF ResumePending, ResumeTarget
  <2>3. CASE refusal # "none"
    <3> HIDE DEF refusal
    <3> QED
      BY <2>1, <2>2, <2>3, CloseParts
  <2>4. CASE refusal = "none"
    <3>1. /\ DOMAIN st.target.shards = req
          /\ \A s \in req : ~(c[s].latest - st.target.id > MAX_SNAPSHOT_GAP)
      BY <2>4, ReplayWithinGap
    <3>2. DOMAIN c = req /\ c \in [DOMAIN c -> SaveState]
      BY <2>4, CatalogsElim DEF ReplayRefusal, LatestProven
    <3>3. st.target.id \in Int /\ \A s \in req : c[s].latest \in Int
      BY <1>1, <3>2, MaxAssumption DEF RecoveryStates, Targets, SaveState, Ids
    <3>4. WithinGap(st.target, req, c)
      BY <3>1, <3>3, GapAssumption DEF WithinGap
    <3>5. Advanced(st, [st EXCEPT !.target.phase = "Preparing"], "Preparing")
      BY AdvanceParts DEF TargetPhases
    <3> QED
      BY <1>3, <2>2, <2>4, <3>4, <3>5
  <2> QED
    BY <2>3, <2>4
<1>4. CASE ~Closed(st) /\ ~TargetPending(st) /\ HasRetry(st) /\ st.retry.status = "started"
  <2>1. ResumePending(st, req, c) = Decide(st, Plain("Retryable"), req, c)
    BY <1>4 DEF ResumePending, ResumeRetry
  <2> QED
    BY <1>4, <2>1, DecideParts
<1>5. CASE ~Closed(st) /\ ~TargetPending(st) /\ HasRetry(st) /\ st.retry.status # "started"
  <2>1. \/ ResumePending(st, req, c) = st /\ LatestRoom(c) = st.retry.shards
        \/ ResumePending(st, req, c) = Close(st, "CurrentSaveChanged")
    BY <1>5 DEF ResumePending, ResumeRetry
  <2>2. st.retry.status = "reserved"
    BY <1>1, <1>5 DEF RecoveryStates, Retries, RetryStatus, HasRetry
  <2>3. "CurrentSaveChanged" \in ClosedReasons
    BY DEF ClosedReasons
  <2> QED
    BY <2>1, <2>2, <2>3, CloseParts
<1>6. CASE ~Closed(st) /\ ~TargetPending(st) /\ ~HasRetry(st)
  BY <1>6 DEF ResumePending, Pending
<1> QED
  BY <1>2, <1>3, <1>4, <1>5, <1>6

LEMMA BeginParts ==
    ASSUME NEW st, GoodEntry(st)
    PROVE  LET new == BeginCurrentRetry(st)
           IN  /\ new.closed = st.closed /\ new.restarts = st.restarts
               /\ new.retry.status = "started"
               /\ new.retry.shards = st.retry.shards
               /\ new.target = st.target
<1> DEFINE new == BeginCurrentRetry(st)
           retry == [st.retry EXCEPT !.status = "started"]
<1>1. st \in RecoveryStates /\ st.retry \in Retries
  BY DEF GoodEntry, RecoveryStates
<1>2. retry.status = "started" /\ retry.shards = st.retry.shards
  BY <1>1 DEF Retries
<1>3. new = [st EXCEPT !.retry = retry]
  BY Zenon DEF BeginCurrentRetry
<1> HIDE DEF new, retry
<1>4. /\ new.closed = st.closed /\ new.restarts = st.restarts
      /\ new.retry = retry /\ new.target = st.target
  BY <1>1, <1>3 DEF RecoveryStates
<1> QED
  BY <1>2, <1>4 DEF new

-----------------------------------------------------------------------------
(* From the decision to the launch *)

\* The shard is where the fixed target wants it.
AtTarget(s) ==
    /\ saves[s].session = recovery.target.shards[s].session
    /\ saves[s].latest = recovery.target.shards[s].id

\* Nothing moves the saves between the preloader's read and the decision.
DecidedFromDisk == pc = "decide" => catalogs = OnDisk

\* A target about to be applied was measured against the saves still on disk.
GapKnown ==
    pc \in {"forget", "start", "apply"} /\ recovery.target.phase = "Preparing" =>
        WithinGap(recovery.target, required, OnDisk)

ApplyProgress ==
    pc = "apply" =>
        /\ ~Closed(recovery)
        /\ recovery.target.phase = "Preparing"
        /\ DOMAIN recovery.target.shards = required
        /\ todo \subseteq required
        /\ \A s \in required \ todo : AtTarget(s)

LaunchDecided ==
    pc = "launch" =>
        /\ ~Closed(recovery)
        /\ recovery.retry.status # "started"
        /\ recovery.target.phase # "Preparing"
        /\ recovery.target.phase = "Starting" =>
              LatestRoom(OnDisk) = recovery.target.shards
        /\ HasRetry(recovery) => LatestRoom(OnDisk) = recovery.retry.shards

\* The inductive invariant: what each stage before the launch may rely on.
LaunchInv ==
    /\ DecidedFromDisk
    /\ GapKnown
    /\ ApplyProgress
    /\ LaunchDecided
    /\ LaunchMatchesDecision

\* The stages that LaunchInv speaks of.
Deciding == {"decide", "forget", "start", "apply", "launch", "reserved", "launching"}

LEMMA OtherStages ==
    ASSUME pc' \notin Deciding
    PROVE  LaunchInv'
  BY DEF Deciding, LaunchInv, DecidedFromDisk, GapKnown, ApplyProgress,
         LaunchDecided, LaunchMatchesDecision

LEMMA SameDisk ==
    ASSUME UNCHANGED <<saves, required>>
    PROVE  OnDisk' = OnDisk
  BY DEF OnDisk

\* What a decision leaves for the stage "forget".
LEMMA ForgetKnown ==
    ASSUME RecoveryInv, pc' = "forget", UNCHANGED <<saves, required>>,
           \/ Closed(recovery) /\ recovery' = recovery
           \/ ~Pending(recovery')
           \/ ~TargetPending(recovery')
           \/ WithinGap(recovery'.target, required, OnDisk)
    PROVE  LaunchInv'
<1>1. OnDisk' = OnDisk
  BY SameDisk
<1>2. Closed(recovery) => ~Pending(recovery)
  BY RecoveryInvEntry DEF GoodEntry, Coherent
<1>3. recovery'.target.phase = "Preparing" => WithinGap(recovery'.target, required, OnDisk)
  BY <1>2 DEF Pending, TargetPending
<1>4. GapKnown'
  BY <1>1, <1>3 DEF GapKnown
<1> QED
  BY <1>4 DEF LaunchInv, DecidedFromDisk, ApplyProgress, LaunchDecided,
              LaunchMatchesDecision

LEMMA ApplyShardKeepsLaunchInv ==
    ASSUME RecoveryInv, LaunchInv, NEW s \in Shards, ApplyShard(s)
    PROVE  LaunchInv'
<1> DEFINE target == recovery.target.shards[s]
<1>1. CASE pc' = "off"
  BY <1>1, OtherStages DEF Deciding
<1>2. CASE pc' # "off"
  <2>1. /\ pc = "apply" /\ pc' = "apply" /\ s \in todo
        /\ ~NativeRefuses(saves[s], target)
        /\ saves' = [saves EXCEPT ![s] = Truncate(saves[s], target.id)]
        /\ todo' = todo \ {s}
        /\ UNCHANGED <<recovery, required>>
    BY <1>2 DEF ApplyShard, Exit
  <2>2. GoodEntry(recovery) /\ required \in SUBSET Shards
    BY RecoveryInvEntry
  <2>3. saves \in [Shards -> SaveState] /\ recovery.target.id \in Int
    BY <2>2, MaxAssumption DEF RecoveryInv, TypeOK, GoodEntry, RecoveryStates, Targets
  <2>4. /\ ~Closed(recovery) /\ recovery.target.phase = "Preparing"
        /\ DOMAIN recovery.target.shards = required
        /\ todo \subseteq required
        /\ \A r \in required \ todo : AtTarget(r)
    BY <2>1 DEF LaunchInv, ApplyProgress
  <2>5. s \in required /\ target.id = recovery.target.id
    BY <2>1, <2>2, <2>4 DEF GoodEntry, Validate
  <2>6. /\ saves'[s].session = target.session
        /\ saves'[s].latest = target.id
    <3> DEFINE save == saves[s]
    <3>1. save \in SaveState /\ save.session = target.session
      BY <2>1, <2>3 DEF NativeRefuses
    <3>2. saves'[s] = Truncate(save, target.id)
      BY <2>1, <2>3
    <3> HIDE DEF save, target
    <3> QED
      BY <3>1, <3>2 DEF Truncate, SaveState
  <2>7. \A r \in Shards : r # s => saves'[r] = saves[r]
    BY <2>1, <2>3
  <2>8. \A r \in required \ todo' : AtTarget(r)'
    BY <2>1, <2>2, <2>4, <2>6, <2>7 DEF AtTarget
  <2>9. ApplyProgress'
    BY <2>1, <2>4, <2>8 DEF ApplyProgress
  <2>10. \A r \in required : saves[r].latest - recovery.target.id <= MAX_SNAPSHOT_GAP
    BY <2>1, <2>4 DEF LaunchInv, GapKnown, WithinGap, OnDisk
  <2>11. \A r \in required : saves'[r].latest - recovery.target.id <= MAX_SNAPSHOT_GAP
    <3> TAKE r \in required
    <3>1. CASE r = s
      BY <2>3, <2>5, <2>6, <3>1, GapAssumption
    <3>2. CASE r # s
      BY <2>2, <2>7, <2>10, <3>2
    <3> QED
      BY <3>1, <3>2
  <2>12. GapKnown'
    BY <2>1, <2>4, <2>11 DEF GapKnown, WithinGap, OnDisk
  <2> QED
    BY <2>1, <2>9, <2>12 DEF LaunchInv, DecidedFromDisk, LaunchDecided, LaunchMatchesDecision
<1> QED
  BY <1>1, <1>2

\* The room that mark_prepared finds: every shard at its target.
LEMMA FinishApplyKeepsLaunchInv ==
    ASSUME RecoveryInv, LaunchInv, FinishApply
    PROVE  LaunchInv'
<1>1. CASE pc' = "off"
  BY <1>1, OtherStages DEF Deciding
<1>2. CASE pc' # "off"
  <2>1. /\ pc = "apply" /\ pc' = "launch" /\ todo = {}
        /\ recovery' = MarkPrepared(recovery)
        /\ UNCHANGED <<saves, required>>
    BY <1>2 DEF FinishApply, Exit, Goto, Write
  <2>2. /\ ~Closed(recovery) /\ recovery.target.phase = "Preparing"
        /\ DOMAIN recovery.target.shards = required
        /\ \A s \in required : AtTarget(s)
    BY <2>1 DEF LaunchInv, ApplyProgress
  <2>3. GoodEntry(recovery) /\ required \in SUBSET Shards
    BY RecoveryInvEntry
  <2>4. Advanced(recovery, recovery', "Starting")
    BY <2>1, <2>3, AdvanceParts DEF MarkPrepared, TargetPhases
  <2>5. ~HasRetry(recovery)
    BY <2>2, <2>3 DEF GoodEntry, Coherent, TargetPending
  <2>6. LatestRoom(OnDisk) = recovery.target.shards
    <3> DEFINE room == recovery.target.shards
    <3>1. room \in SavedRooms
      BY <2>3 DEF GoodEntry, RecoveryStates, Targets
    <3>2. room \in [required -> Saved]
      BY <2>2, <3>1, SavedRoomElim
    <3>3. \A s \in required : room[s] = [session |-> room[s].session, id |-> room[s].id]
      BY <3>2 DEF Saved
    <3>4. \A s \in required : LatestRoom(OnDisk)[s] =
                [session |-> saves[s].session, id |-> saves[s].latest]
      BY DEF LatestRoom, OnDisk
    <3>5. \A s \in required : LatestRoom(OnDisk)[s] = room[s]
      BY <2>2, <3>3, <3>4 DEF AtTarget
    <3>6. LatestRoom(OnDisk) = [s \in required |-> LatestRoom(OnDisk)[s]]
      BY DEF LatestRoom, OnDisk
    <3>7. room = [s \in required |-> room[s]]
      BY <3>2
    <3> QED
      BY <3>5, <3>6, <3>7, Zenon
  <2>7. LaunchDecided'
    BY <2>1, <2>2, <2>4, <2>5, <2>6, SameDisk DEF LaunchDecided, Advanced, Closed, HasRetry
  <2> QED
    BY <2>1, <2>7 DEF LaunchInv, DecidedFromDisk, GapKnown, ApplyProgress,
                      LaunchMatchesDecision
<1> QED
  BY <1>1, <1>2

LEMMA AwaitRetryKeepsLaunchInv ==
    ASSUME RecoveryInv, LaunchInv, AwaitRetry
    PROVE  LaunchInv'
<1> DEFINE new == ResumePending(recovery, required, OnDisk)
<1>1. CASE pc' = "off"
  BY <1>1, OtherStages DEF Deciding
<1>2. CASE pc' # "off"
  <2>1. /\ pc' = "launch" /\ HasRetry(recovery)
        /\ recovery' = new /\ Decision(new) = "RetryCurrent"
        /\ UNCHANGED <<saves, required>>
    BY <1>2 DEF AwaitRetry, Exit, Goto, Write
  <2>2. GoodEntry(recovery)
    BY RecoveryInvEntry
  <2>3. \/ new = recovery /\ (Pending(recovery) =>
                /\ recovery.retry.status = "reserved"
                /\ LatestRoom(OnDisk) = recovery.retry.shards)
        \/ ClosedBy(recovery, new)
        \/ ReservedBy(recovery, new, OnDisk) /\ recovery.retry.status = "started"
        \/ FixedBy(recovery, new, required, OnDisk) /\ recovery.retry.status = "started"
        \/ /\ TargetPending(recovery)
           /\ Advanced(recovery, new, "Preparing")
           /\ WithinGap(recovery.target, required, OnDisk)
    BY <2>2, OnDiskIsCatalogs, ResumeParts
  <2> HIDE DEF new
  <2>4. ~Closed(new) /\ ~TargetPending(new) /\ HasRetry(new)
    BY <2>1 DEF Decision
  <2>5. new.retry.status = "reserved" /\ LatestRoom(OnDisk) = new.retry.shards
    BY <2>1, <2>3, <2>4 DEF ClosedBy, ReservedBy, FixedBy, Advanced, Pending,
                            TargetPending
  <2>6. LaunchDecided'
    BY <2>1, <2>4, <2>5, SameDisk DEF LaunchDecided, TargetPending
  <2> QED
    BY <2>1, <2>6 DEF LaunchInv, DecidedFromDisk, GapKnown, ApplyProgress,
                      LaunchMatchesDecision
<1> QED
  BY <1>1, <1>2

LEMMA DecideRecoveryKeepsLaunchInv ==
    ASSUME RecoveryInv, LaunchInv, DecideRecovery
    PROVE  LaunchInv'
<1> DEFINE new == recovery'
<1>1. /\ pc' = "forget" /\ UNCHANGED <<saves, required>>
      /\ \/ new = ResumePending(recovery, required, catalogs)
         \/ new = Decide(recovery, RunFailure, required, catalogs)
  BY DEF DecideRecovery, Goto, Write
<1>2. catalogs = OnDisk /\ catalogs \in CatalogSets
  BY DEF DecideRecovery, LaunchInv, DecidedFromDisk, RecoveryInv, TypeOK
<1>3. GoodEntry(recovery)
  BY RecoveryInvEntry
<1>4. CASE new = Decide(recovery, RunFailure, required, catalogs)
  <2>1. \/ Closed(recovery) /\ new = recovery
        \/ ClosedBy(recovery, new)
        \/ ReservedBy(recovery, new, catalogs)
        \/ FixedBy(recovery, new, required, catalogs)
    BY <1>2, <1>3, <1>4, DecideParts
  <2> QED
    BY <1>1, <1>2, <2>1, ForgetKnown DEF ClosedBy, ReservedBy, FixedBy
<1>5. CASE new = ResumePending(recovery, required, catalogs)
  <2>1. \/ new = recovery /\ (Pending(recovery) =>
                /\ recovery.retry.status = "reserved"
                /\ LatestRoom(catalogs) = recovery.retry.shards)
        \/ ClosedBy(recovery, new)
        \/ ReservedBy(recovery, new, catalogs) /\ recovery.retry.status = "started"
        \/ FixedBy(recovery, new, required, catalogs) /\ recovery.retry.status = "started"
        \/ /\ TargetPending(recovery)
           /\ Advanced(recovery, new, "Preparing")
           /\ WithinGap(recovery.target, required, catalogs)
    BY <1>2, <1>3, <1>5, ResumeParts
  <2>2. CASE new = recovery /\ (Pending(recovery) => recovery.retry.status = "reserved")
    <3>1. ~Pending(recovery) \/ ~TargetPending(recovery)
      BY <1>3, <2>2 DEF GoodEntry, Coherent, HasRetry
    <3> QED
      BY <1>1, <2>2, <3>1, ForgetKnown
  <2>3. CASE Advanced(recovery, new, "Preparing") /\ WithinGap(recovery.target, required, catalogs)
    <3>1. WithinGap(new.target, required, OnDisk)
      BY <1>2, <2>3 DEF WithinGap, Advanced
    <3> QED
      BY <1>1, <3>1, ForgetKnown
  <2>4. CASE \/ ClosedBy(recovery, new)
             \/ ReservedBy(recovery, new, catalogs)
             \/ FixedBy(recovery, new, required, catalogs)
    BY <1>1, <1>2, <2>4, ForgetKnown DEF ClosedBy, ReservedBy, FixedBy
  <2> QED
    BY <2>1, <2>2, <2>3, <2>4
<1> QED
  BY <1>1, <1>4, <1>5

LEMMA LaunchKeepsLaunchInv ==
    ASSUME RecoveryInv, LaunchInv, Launch
    PROVE  LaunchInv'
<1>1. CASE pc' = "off"
  BY <1>1, OtherStages DEF Deciding
<1>2. CASE pc' # "off"
  <2>1. /\ pc = "launch" /\ pc' = "reserved" /\ UNCHANGED <<saves, required>>
        /\ \/ ~HasRetry(recovery) /\ recovery' = recovery
           \/ /\ HasRetry(recovery) /\ CanBeginRetry(recovery)
              /\ recovery' = BeginCurrentRetry(recovery)
    BY <1>2 DEF Launch, Exit, Goto, Write
  <2>2. /\ ~Closed(recovery)
        /\ recovery.target.phase # "Preparing"
        /\ recovery.target.phase = "Starting" =>
              LatestRoom(OnDisk) = recovery.target.shards
        /\ HasRetry(recovery) => LatestRoom(OnDisk) = recovery.retry.shards
    BY <2>1 DEF LaunchInv, LaunchDecided
  <2>3. OnDisk' = OnDisk
    BY <2>1, SameDisk
  <2>4. LaunchMatchesDecision'
    <3>1. CASE ~HasRetry(recovery) /\ recovery' = recovery
      BY <2>2, <2>3, <3>1 DEF LaunchMatchesDecision, HasRetry
    <3>2. CASE HasRetry(recovery) /\ recovery' = BeginCurrentRetry(recovery)
      <4>1. /\ recovery'.closed = recovery.closed
            /\ recovery'.retry.status = "started"
            /\ recovery'.retry.shards = recovery.retry.shards
            /\ recovery'.target = recovery.target
        BY <3>2, RecoveryInvEntry, BeginParts
      <4> QED
        BY <2>2, <2>3, <3>2, <4>1 DEF LaunchMatchesDecision, Closed
    <3> QED
      BY <2>1, <3>1, <3>2
  <2> QED
    BY <2>1, <2>4 DEF LaunchInv, DecidedFromDisk, GapKnown, ApplyProgress, LaunchDecided
<1> QED
  BY <1>1, <1>2

LEMMA InitEstablishesLaunchInv == Init => LaunchInv
  BY DEF Init, LaunchInv, DecidedFromDisk, GapKnown, ApplyProgress, LaunchDecided,
         LaunchMatchesDecision

LEMMA NextKeepsLaunchInv ==
    ASSUME RecoveryInv, LaunchInv, [Next]_vars
    PROVE  LaunchInv'
<1>1. CASE \/ Restart \/ Activate \/ HostStart \/ EditCluster \/ Initialize
           \/ ShutBeforeStart \/ SpawnGames \/ GamesReady \/ RoomReady
           \/ StableReset \/ TickOpening \/ PersistFailure \/ CleanStop
           \/ RecordStop \/ Interrupt \/ ServerFault \/ Lose
  <2>1. pc' \notin Deciding
    BY <1>1 DEF Restart, Activate, HostStart, EditCluster, Initialize,
       ShutBeforeStart, SpawnGames, GamesReady, RoomReady, StableReset,
       TickOpening, PersistFailure, CleanStop, RecordStop, Interrupt,
       ServerFault, Lose, Begin, Exit, Goto, world, memory, Deciding
  <2> QED
    BY <2>1, OtherStages
<1>2. CASE GameFault \/ \E s \in Shards : \/ \E whole \in BOOLEAN : GameSave(s, whole)
                                         \/ GameRollback(s)
                                         \/ GameRegenerate(s)
  <2>1. pc' \notin Deciding
    BY <1>2 DEF GameFault, GameSave, GameRollback, GameRegenerate, Gaming, memory,
                Deciding
  <2> QED
    BY <2>1, OtherStages
<1>3. CASE Open \/ Shut \/ UNCHANGED vars
  <2>1. UNCHANGED <<recovery, saves, required, pc, catalogs, todo>>
    BY <1>3 DEF Open, Shut, vars, durable, memory
  <2> QED
    BY <2>1 DEF LaunchInv, DecidedFromDisk, GapKnown, ApplyProgress, AtTarget,
                LaunchDecided, LaunchMatchesDecision, OnDisk
<1>4. CASE ReadCatalogs
  <2>1. CASE pc' = "decide"
    <3>1. catalogs' = OnDisk /\ UNCHANGED <<saves, required>>
      BY <1>4, <2>1 DEF ReadCatalogs, Goto
    <3> QED
      BY <2>1, <3>1, SameDisk DEF LaunchInv, DecidedFromDisk, GapKnown,
         ApplyProgress, LaunchDecided, LaunchMatchesDecision
  <2>2. CASE pc' # "decide"
    <3>1. /\ pc' = "forget" /\ UNCHANGED <<saves, required>>
          /\ recovery' = Decide(recovery, Plain("Unknown"), required, NoRoom)
      BY <1>4, <2>2 DEF ReadCatalogs, Goto, Write
    <3>2. "Unknown" \in Fatal /\ ClosedFor("Unknown") \in ClosedReasons
      BY DEF Fatal, ClosedFor, ClosedReasons
    <3>3. Refusal(recovery, Plain("Unknown"), required, NoRoom) = ClosedFor("Unknown")
      BY <3>2 DEF Refusal, Plain
    <3>4. \/ Closed(recovery) /\ recovery' = recovery
          \/ ClosedBy(recovery, recovery')
      BY <3>1, <3>2, <3>3, RecoveryInvEntry, CloseParts DEF Decide, ClosedReasons, ClosedFor
    <3> QED
      BY <3>1, <3>4, ForgetKnown DEF ClosedBy
  <2> QED
    BY <2>1, <2>2
<1>5. CASE NothingPending
  <2>1. pc' = "start" /\ ~Pending(recovery) /\ UNCHANGED durable
    BY <1>5 DEF NothingPending, Unfinished, Goto
  <2> QED
    BY <2>1 DEF durable, Pending, TargetPending, LaunchInv, DecidedFromDisk,
       GapKnown, ApplyProgress, LaunchDecided, LaunchMatchesDecision
<1>6. CASE ForgetRun
  <2>1. /\ pc = "forget" /\ pc' \in {"off", "start"}
        /\ UNCHANGED <<recovery, saves, required>>
    BY <1>6 DEF ForgetRun, Exit, Goto
  <2> QED
    BY <2>1, SameDisk DEF LaunchInv, DecidedFromDisk, GapKnown, ApplyProgress,
       LaunchDecided, LaunchMatchesDecision
<1>7. CASE BeginApply
  <2>1. /\ pc = "start" /\ UNCHANGED <<recovery, saves, required>>
        /\ \/ pc' = "off"
           \/ /\ pc' = "apply" /\ todo' = required /\ ~Closed(recovery)
              /\ recovery.target.phase = "Preparing"
              /\ DOMAIN recovery.target.shards = required
    BY <1>7 DEF BeginApply, Exit, durable
  <2> QED
    BY <2>1, SameDisk DEF LaunchInv, DecidedFromDisk, GapKnown, ApplyProgress,
       LaunchDecided, LaunchMatchesDecision
<1>8. CASE NothingToPrepare
  <2>1. /\ ~Pending(recovery) /\ UNCHANGED recovery
        /\ pc' = "off" \/ (pc' = "launch" /\ ~Closed(recovery))
    BY <1>8 DEF NothingToPrepare, Exit, Goto, durable
  <2> QED
    BY <2>1 DEF Pending, TargetPending, HasRetry, LaunchInv, DecidedFromDisk,
       GapKnown, ApplyProgress, LaunchDecided, LaunchMatchesDecision
<1>9. CASE SaveRun
  <2>1. /\ pc = "reserved" /\ pc' = "launching"
        /\ UNCHANGED <<recovery, saves, required>>
    BY <1>9 DEF SaveRun, Goto
  <2> QED
    BY <2>1, SameDisk DEF LaunchInv, DecidedFromDisk, GapKnown, ApplyProgress,
       LaunchDecided, LaunchMatchesDecision
<1> QED
  BY <1>1, <1>2, <1>3, <1>4, <1>5, <1>6, <1>7, <1>8, <1>9,
     DecideRecoveryKeepsLaunchInv, AwaitRetryKeepsLaunchInv,
     ApplyShardKeepsLaunchInv, FinishApplyKeepsLaunchInv, LaunchKeepsLaunchInv
     DEF Next, AgentStep, GameStep, OutsideStep

LEMMA LaunchInvHolds == Spec => []LaunchInv
<1>1. RecoveryInv /\ LaunchInv /\ [Next]_vars => LaunchInv'
  BY NextKeepsLaunchInv
<1> QED
  BY <1>1, InitEstablishesLaunchInv, InvHolds, PTL DEF Spec

-----------------------------------------------------------------------------
(* The budget *)

\* What an entry has spent: its counted restarts, and the one rollback.
PaidBy(st) == st.restarts + (IF st.target.phase = "none" THEN 0 ELSE 1)

Started == Gaming \union {"fault"}

\* A persisted failure is paid for, or it is the one that the next decision
\* still has to see, or the incident is closed.
Ledger ==
    /\ faults <= PaidBy(recovery) + 1
    /\ Closed(recovery) \/ run.failure # NoFailure \/ faults <= PaidBy(recovery)
    /\ Unstarted => faults <= PaidBy(recovery)
    /\ pc = "forget" => Closed(recovery) \/ faults <= PaidBy(recovery)

\* Between the decision and the end of the games no failure is on record.
FailureForgotten ==
    pc \in {"start", "apply", "launch", "reserved", "launching", "closing",
            "restarting"} \union Started => run.failure = NoFailure

\* Games that were launched belong to an open incident whose attempt began; once
\* the room was ready, no attempt is left.
GamesOpen ==
    /\ pc \in Started => ~Closed(recovery) /\ ~Unstarted
    /\ pc = "running" => CanResetAfterStable(recovery)
    /\ pc = "fault" => failure # NoFailure

\* The inductive invariant behind BudgetBoundsLaunches.
BudgetInv == Ledger /\ FailureForgotten /\ GamesOpen

LEMMA PaidIsNat ==
    ASSUME NEW st \in RecoveryStates
    PROVE  PaidBy(st) \in Nat /\ PaidBy(st) <= CURRENT_RESTARTS + 1
  BY RestartsAssumption DEF PaidBy, RecoveryStates, Restarts

LEMMA ResetParts ==
    ASSUME NEW st, GoodEntry(st)
    PROVE  LET new == Reset(st)
           IN  /\ ~Closed(new) /\ ~HasRetry(new)
               /\ st.target.phase \in {"none", "Ready"} => new.target.phase = "none"
<1> DEFINE new == Reset(st)
           target == IF st.target.phase \in {"none", "Ready"} THEN NoTarget
                     ELSE [st.target EXCEPT !.phase = "Preparing"]
<1>1. st \in RecoveryStates
  BY DEF GoodEntry
<1>2. new = [st EXCEPT !.restarts = 0, !.closed = "none",
                       !.retry = NoRetry, !.target = target]
  BY Zenon DEF Reset
<1>3. st.target.phase \in {"none", "Ready"} => target.phase = "none"
  BY DEF NoTarget
<1> HIDE DEF new, target
<1>4. new.closed = "none" /\ new.retry = NoRetry /\ new.target = target
  BY <1>1, <1>2 DEF RecoveryStates
<1> QED
  BY <1>3, <1>4 DEF new, Closed, HasRetry, NoRetry

LEMMA MarkReadyParts ==
    ASSUME NEW st, GoodEntry(st)
    PROVE  LET new == MarkReady(st)
           IN  /\ new.closed = st.closed /\ new.restarts = st.restarts
               /\ new.retry = NoRetry
               /\ new.target.phase = IF st.target.phase = "none" THEN "none" ELSE "Ready"
<1> DEFINE new == MarkReady(st)
           phase == IF st.target.phase = "none" THEN "none" ELSE "Ready"
           target == [st.target EXCEPT !.phase = phase]
<1>1. st \in RecoveryStates /\ st.target \in Targets
  BY DEF GoodEntry, RecoveryStates
<1>2. target.phase = phase
  BY <1>1, PhaseChange DEF TargetPhases
<1>3. new = [st EXCEPT !.target = target, !.retry = NoRetry]
  BY <1>1, Zenon DEF MarkReady
<1> HIDE DEF new, target
<1>4. /\ new.closed = st.closed /\ new.restarts = st.restarts
      /\ new.retry = NoRetry /\ new.target = target
  BY <1>1, <1>3 DEF RecoveryStates
<1> QED
  BY <1>2, <1>4 DEF new

\* A fresh budget leaves no attempt of a room that was ready.
LEMMA RenewedWhileRunning ==
    ASSUME NEW st, GoodEntry(st), CanResetAfterStable(st), NEW window \in Openings
    PROVE  /\ CanResetAfterStable(Reset(st))
           /\ CanResetAfterStable(ResetForOpenWindow(st, window))
<1> DEFINE opened == [st EXCEPT !.window = window]
<1>1. /\ opened \in RecoveryStates /\ opened.closed = st.closed
      /\ opened.restarts = st.restarts
      /\ opened.retry = st.retry /\ opened.target = st.target
  BY DEF GoodEntry, RecoveryStates
<1>2. ResetForOpenWindow(st, window) \in {st, Reset(opened)}
  BY DEF ResetForOpenWindow
<1> HIDE DEF opened
<1>3. GoodEntry(opened)
  BY <1>1 DEF GoodEntry, Validate, Coherent, HasRetry, Pending,
              TargetPending, Closed
<1>4. CanResetAfterStable(Reset(opened))
  BY <1>1, <1>3, ResetParts DEF CanResetAfterStable
<1>5. CanResetAfterStable(Reset(st))
  BY ResetParts DEF CanResetAfterStable
<1> QED
  BY <1>2, <1>4, <1>5

\* The ledger only asks what was paid: a step that pays no less, and opens no
\* attempt that was not paid for, keeps it.
LEMMA LedgerKept ==
    ASSUME RecoveryInv, Ledger, RecoveryInv', faults' = faults,
           PaidBy(recovery') >= PaidBy(recovery),
           \/ Closed(recovery') /\ ~Pending(recovery')
           \/ faults <= PaidBy(recovery')
    PROVE  Ledger'
<1>1. /\ PaidBy(recovery) \in Nat /\ PaidBy(recovery') \in Nat /\ faults \in Nat
  BY PaidIsNat DEF RecoveryInv, TypeOK
<1>2. faults <= PaidBy(recovery') + 1
  BY <1>1 DEF Ledger
<1>3. ~Pending(recovery') => ~Unstarted'
  BY DEF Unstarted, Pending, HasRetry, TargetPending
<1> QED
  BY <1>2, <1>3 DEF Ledger

\* The entry is untouched and no failure is forgotten.
LEMMA LedgerUntouched ==
    ASSUME Ledger, UNCHANGED <<recovery, faults>>, pc' # "forget",
           run'.failure = run.failure \/ run'.failure # NoFailure
    PROVE  Ledger'
  BY DEF Ledger, Unstarted

LEMMA LedgerRenewed ==
    ASSUME RecoveryInv, Ledger, RecoveryInv', NEW st, Renew(st), pc' # "forget",
           run' = run
    PROVE  Ledger'
<1>1. CASE recovery' = recovery /\ faults' = faults
  BY <1>1, LedgerUntouched
<1>2. CASE faults' = 0
  <2>1. PaidBy(recovery') \in Nat
    BY PaidIsNat DEF RecoveryInv, TypeOK
  <2>2. faults' <= PaidBy(recovery') /\ faults' <= PaidBy(recovery') + 1
    BY <1>2, <2>1
  <2> QED
    BY <2>2 DEF Ledger
<1> QED
  BY <1>1, <1>2 DEF Renew

\* What a decision pays.
LEMMA OutcomesPay ==
    ASSUME NEW st \in RecoveryStates, NEW new \in RecoveryStates, NEW req, NEW c
    PROVE  /\ ClosedBy(st, new) => PaidBy(new) = PaidBy(st)
           /\ ReservedBy(st, new, c) => PaidBy(new) = PaidBy(st) + 1
           /\ FixedBy(st, new, req, c) => PaidBy(new) = PaidBy(st) + 1
           /\ Advanced(st, new, "Preparing") /\ TargetPending(st) =>
                 PaidBy(new) = PaidBy(st)
<1>1. st.restarts \in Nat /\ new.restarts \in Nat
  BY RestartsAssumption DEF RecoveryStates, Restarts
<1> QED
  BY <1>1 DEF ClosedBy, ReservedBy, FixedBy, Advanced, TargetPending, PaidBy

\* on_failure sees the failure that is still owed and pays for it, or closes.
LEMMA DecideRecoveryKeepsLedger ==
    ASSUME RecoveryInv, Ledger, RecoveryInv', DecideRecovery
    PROVE  Ledger'
<1> DEFINE new == recovery'
<1>1. GoodEntry(recovery) /\ catalogs \in CatalogSets
  BY RecoveryInvEntry DEF RecoveryInv, TypeOK
<1>2. recovery \in RecoveryStates /\ new \in RecoveryStates
  BY DEF RecoveryInv, TypeOK
<1>3. /\ PaidBy(recovery) \in Nat /\ PaidBy(new) \in Nat
      /\ faults \in Nat /\ faults' = faults
  BY <1>2, PaidIsNat DEF RecoveryInv, TypeOK, DecideRecovery, Write
<1>4. CASE /\ Pending(recovery) /\ (Unstarted \/ run.failure = NoFailure)
           /\ new = ResumePending(recovery, required, catalogs)
  <2>1. faults <= PaidBy(recovery)
    BY <1>1, <1>4 DEF Ledger, GoodEntry, Coherent
  <2>2. \/ new = recovery \/ ClosedBy(recovery, new)
        \/ ReservedBy(recovery, new, catalogs)
        \/ FixedBy(recovery, new, required, catalogs)
        \/ Advanced(recovery, new, "Preparing") /\ TargetPending(recovery)
    BY <1>1, <1>4, ResumeParts
  <2>3. PaidBy(new) >= PaidBy(recovery)
    BY <1>2, <1>3, <2>2, OutcomesPay
  <2>4. faults <= PaidBy(new)
    BY <1>3, <2>1, <2>3
  <2> QED
    BY <1>3, <2>3, <2>4, LedgerKept
<1>5. CASE new = Decide(recovery, RunFailure, required, catalogs)
  <2>1. \/ Closed(recovery) /\ new = recovery
        \/ ClosedBy(recovery, new)
        \/ ReservedBy(recovery, new, catalogs)
        \/ FixedBy(recovery, new, required, catalogs)
    BY <1>1, <1>5, DecideParts
  <2>2. CASE Closed(recovery) /\ new = recovery
    BY <1>1, <1>3, <2>2, LedgerKept DEF GoodEntry, Coherent
  <2>3. CASE ClosedBy(recovery, new)
    <3>1. PaidBy(new) = PaidBy(recovery)
      BY <1>2, <2>3, OutcomesPay
    <3>2. PaidBy(new) >= PaidBy(recovery) /\ Closed(new) /\ ~Pending(new)
      BY <1>3, <2>3, <3>1 DEF ClosedBy
    <3> QED
      BY <1>3, <3>2, LedgerKept
  <2>4. CASE \/ ReservedBy(recovery, new, catalogs)
             \/ FixedBy(recovery, new, required, catalogs)
    <3>1. PaidBy(new) = PaidBy(recovery) + 1
      BY <1>2, <2>4, OutcomesPay
    <3>2. faults <= PaidBy(new) /\ PaidBy(new) >= PaidBy(recovery)
      BY <1>3, <3>1 DEF Ledger
    <3> QED
      BY <1>3, <3>2, LedgerKept
  <2> QED
    BY <2>1, <2>2, <2>3, <2>4
<1> QED
  BY <1>4, <1>5 DEF DecideRecovery, Write

LEMMA AwaitRetryKeepsLedger ==
    ASSUME RecoveryInv, BudgetInv, RecoveryInv', AwaitRetry
    PROVE  Ledger'
<1> DEFINE new == ResumePending(recovery, required, OnDisk)
<1>1. GoodEntry(recovery) /\ OnDisk \in CatalogSets
  BY RecoveryInvEntry, OnDiskIsCatalogs
<1>2. recovery \in RecoveryStates /\ recovery' \in RecoveryStates
  BY DEF RecoveryInv, TypeOK
<1>3. /\ PaidBy(recovery) \in Nat /\ PaidBy(recovery') \in Nat
      /\ faults \in Nat /\ faults' = faults
  BY <1>2, PaidIsNat DEF RecoveryInv, TypeOK, AwaitRetry, Write
<1>4. faults <= PaidBy(recovery)
  BY <1>1 DEF BudgetInv, Ledger, FailureForgotten, AwaitRetry, GoodEntry,
              Coherent, Pending
<1>5. \/ recovery' = recovery \/ ClosedBy(recovery, recovery')
      \/ ReservedBy(recovery, recovery', OnDisk)
      \/ FixedBy(recovery, recovery', required, OnDisk)
      \/ Advanced(recovery, recovery', "Preparing") /\ TargetPending(recovery)
  <2>1. recovery' = recovery \/ recovery' = new
    BY DEF AwaitRetry, Write
  <2> QED
    BY <1>1, <2>1, ResumeParts
<1>6. PaidBy(recovery') >= PaidBy(recovery)
  BY <1>2, <1>3, <1>5, OutcomesPay
<1>7. faults <= PaidBy(recovery')
  BY <1>3, <1>4, <1>6
<1> QED
  BY <1>3, <1>6, <1>7, LedgerKept DEF BudgetInv

\* A step that only moves the attempt on pays nothing and owes nothing.
LEMMA AttemptMoves ==
    ASSUME RecoveryInv, BudgetInv, RecoveryInv', [Next]_vars,
           FinishApply \/ Launch \/ RoomReady
    PROVE  Ledger'
<1>1. GoodEntry(recovery) /\ pc' # "forget" /\ UNCHANGED <<run, faults>>
  BY RecoveryInvEntry DEF FinishApply, Launch, RoomReady, Exit, Goto, Write
<1>2. CASE recovery' = recovery
  BY <1>1, <1>2, LedgerUntouched DEF BudgetInv
<1>3. CASE recovery' # recovery
  <2>1. /\ pc \in {"apply", "launch"} \union Started
        /\ \/ recovery' = MarkPrepared(recovery) /\ CanMarkPrepared(recovery)
           \/ recovery' = BeginCurrentRetry(recovery) /\ CanBeginRetry(recovery)
           \/ recovery' = MarkReady(recovery) /\ CanMarkReady(recovery)
    BY <1>3 DEF FinishApply, Launch, RoomReady, Write, Started, Gaming
  <2>2. /\ recovery'.restarts = recovery.restarts
        /\ recovery'.target.phase = "none" <=> recovery.target.phase = "none"
    <3>1. CASE recovery' = MarkPrepared(recovery) /\ CanMarkPrepared(recovery)
      <4>1. Advanced(recovery, recovery', "Starting")
        BY <1>1, <3>1, AdvanceParts DEF MarkPrepared, TargetPhases
      <4> QED
        BY <3>1, <4>1 DEF Advanced, CanMarkPrepared
    <3>2. CASE recovery' = BeginCurrentRetry(recovery)
      BY <1>1, <3>2, BeginParts
    <3>3. CASE recovery' = MarkReady(recovery)
      BY <1>1, <3>3, MarkReadyParts
    <3> QED
      BY <2>1, <3>1, <3>2, <3>3
  <2>3. PaidBy(recovery') = PaidBy(recovery)
    BY <2>2 DEF PaidBy
  <2>4. ~Closed(recovery)
    BY <2>1 DEF CanMarkPrepared, CanBeginRetry, CanMarkReady
  <2>5. faults <= PaidBy(recovery)
    BY <2>1, <2>4 DEF BudgetInv, Ledger, FailureForgotten
  <2>6. PaidBy(recovery') \in Nat
    BY PaidIsNat DEF RecoveryInv, TypeOK
  <2> QED
    BY <1>1, <2>3, <2>5, <2>6, LedgerKept DEF BudgetInv
<1> QED
  BY <1>2, <1>3

LEMMA NextKeepsLedger ==
    ASSUME RecoveryInv, BudgetInv, RecoveryInv', [Next]_vars
    PROVE  Ledger'
<1> USE DEF BudgetInv
<1>1. CASE \/ Restart \/ Activate \/ EditCluster \/ Open \/ Shut \/ ShutBeforeStart
           \/ NothingPending \/ BeginApply \/ NothingToPrepare \/ SpawnGames
           \/ GamesReady \/ GameFault \/ CleanStop \/ Interrupt \/ Lose
           \/ UNCHANGED vars
  <2>1. UNCHANGED <<recovery, run, faults>> /\ (pc' = pc \/ pc' # "forget")
    BY <1>1 DEF Restart, Activate, EditCluster, Open, Shut, ShutBeforeStart,
       NothingPending, BeginApply, NothingToPrepare, SpawnGames, GamesReady,
       GameFault, CleanStop, Interrupt, Lose, vars, Begin, Exit, Goto, durable,
       world, memory, history
  <2> QED
    BY <2>1 DEF Ledger, Unstarted
<1>2. CASE \E s \in Shards : \/ ApplyShard(s)
                             \/ \E whole \in BOOLEAN : GameSave(s, whole)
                             \/ GameRollback(s)
                             \/ GameRegenerate(s)
  <2>1. UNCHANGED <<recovery, run, faults>> /\ pc' # "forget"
    BY <1>2 DEF ApplyShard, GameSave, GameRollback, GameRegenerate, Exit, Gaming,
                memory, history
  <2> QED
    BY <2>1, LedgerUntouched
<1>3. CASE ServerFault \/ PersistFailure \/ SaveRun \/ RecordStop
  <2>1. UNCHANGED recovery /\ pc' # "forget"
    BY <1>3 DEF ServerFault, PersistFailure, SaveRun, RecordStop, Exit, Goto
  <2>2. CASE ServerFault
    <3>1. run'.failure # NoFailure /\ faults' = faults
      BY <2>2 DEF ServerFault, NoFailure, Plain
    <3> QED
      BY <2>1, <3>1, LedgerUntouched
  <2>3. CASE SaveRun \/ RecordStop
    <3>1. run'.failure = run.failure /\ faults' = faults
      BY <2>3 DEF SaveRun, RecordStop, IdleRun, history, FailureForgotten
    <3> QED
      BY <2>1, <3>1, LedgerUntouched
  <2>4. CASE PersistFailure
    <3>1. /\ faults' \in {faults, faults + 1} /\ run'.failure # NoFailure
      BY <2>4 DEF PersistFailure, GamesOpen
    <3>2. faults <= PaidBy(recovery) /\ ~Unstarted
      BY <2>4 DEF PersistFailure, FailureForgotten, GamesOpen, Ledger, Started
    <3>3. PaidBy(recovery) \in Nat /\ faults \in Nat
      BY PaidIsNat DEF RecoveryInv, TypeOK
    <3>4. faults' <= PaidBy(recovery) + 1
      BY <3>1, <3>2, <3>3
    <3> QED
      BY <2>1, <3>1, <3>2, <3>4 DEF Ledger, Unstarted
  <2> QED
    BY <1>3, <2>2, <2>3, <2>4
<1>4. CASE HostStart \/ Initialize \/ StableReset \/ TickOpening
  <2>1. /\ run' = run /\ pc' # "forget"
        /\ (\E st : Renew(st)) \/ UNCHANGED <<recovery, faults>>
    BY <1>4 DEF HostStart, Initialize, StableReset, TickOpening, Exit, Goto, memory
  <2> QED
    BY <2>1, LedgerUntouched, LedgerRenewed
<1>5. CASE ReadCatalogs
  <2>1. CASE pc' # "forget"
    <3>1. UNCHANGED <<recovery, run, faults>>
      BY <1>5, <2>1 DEF ReadCatalogs, Goto
    <3> QED
      BY <2>1, <3>1, LedgerUntouched
  <2>2. CASE pc' = "forget"
    <3>1. /\ recovery' = Decide(recovery, Plain("Unknown"), required, NoRoom)
          /\ faults' = faults
      BY <1>5, <2>2 DEF ReadCatalogs, Write
    <3>2. Refusal(recovery, Plain("Unknown"), required, NoRoom) = "UnknownFailure"
      BY DEF Refusal, Plain, Fatal, ClosedFor
    <3>3. \/ Closed(recovery) /\ recovery' = recovery
          \/ ClosedBy(recovery, recovery')
      BY <3>1, <3>2, RecoveryInvEntry, CloseParts DEF Decide, ClosedReasons
    <3>4. /\ PaidBy(recovery') = PaidBy(recovery)
          /\ Closed(recovery') /\ ~Pending(recovery')
      BY <3>3, OutcomesPay, RecoveryInvEntry
         DEF ClosedBy, RecoveryInv, TypeOK, GoodEntry, Coherent
    <3>5. PaidBy(recovery') \in Nat
      BY PaidIsNat DEF RecoveryInv, TypeOK
    <3> QED
      BY <3>1, <3>4, <3>5, LedgerKept
  <2> QED
    BY <2>1, <2>2
<1>6. CASE ForgetRun
  <2>1. /\ pc = "forget" /\ pc' # "forget" /\ UNCHANGED <<recovery, faults>>
    BY <1>6 DEF ForgetRun, Exit, Goto, history
  <2> QED
    BY <2>1 DEF Ledger, Unstarted
<1> QED
  BY <1>1, <1>2, <1>3, <1>4, <1>5, <1>6, DecideRecoveryKeepsLedger,
     AwaitRetryKeepsLedger, AttemptMoves
     DEF Next, AgentStep, GameStep, OutsideStep

LEMMA NextKeepsForgotten ==
    ASSUME RecoveryInv, LaunchInv, BudgetInv, [Next]_vars
    PROVE  FailureForgotten'
<1> USE DEF BudgetInv, FailureForgotten, Started, Gaming
<1>1. CASE \/ Restart \/ Activate \/ HostStart \/ Initialize \/ ShutBeforeStart
           \/ EditCluster \/ PersistFailure \/ RecordStop \/ Interrupt \/ ServerFault
           \/ Lose \/ ReadCatalogs \/ DecideRecovery
  BY <1>1 DEF Restart, Activate, HostStart, EditCluster, Initialize, ShutBeforeStart,
     PersistFailure, RecordStop, Interrupt, ServerFault, Lose, ReadCatalogs,
     DecideRecovery, Begin, Exit, Goto, memory
<1>2. CASE NothingPending \/ ForgetRun \/ SaveRun
  BY <1>2 DEF NothingPending, Unfinished, ForgetRun, SaveRun, IdleRun, Exit, Goto, durable
<1>3. CASE \/ AwaitRetry \/ BeginApply \/ FinishApply \/ NothingToPrepare \/ Launch
           \/ SpawnGames \/ GamesReady \/ RoomReady \/ StableReset \/ TickOpening
           \/ CleanStop \/ GameFault
  BY <1>3 DEF AwaitRetry, BeginApply, FinishApply, NothingToPrepare, Launch,
     SpawnGames, GamesReady, RoomReady, StableReset, TickOpening, CleanStop,
     GameFault, Exit, Goto, durable, memory
<1>4. CASE \E s \in Shards : \/ ApplyShard(s)
                             \/ \E whole \in BOOLEAN : GameSave(s, whole)
                             \/ GameRollback(s)
                             \/ GameRegenerate(s)
  BY <1>4 DEF ApplyShard, GameSave, GameRollback, GameRegenerate, Exit, memory
<1>5. CASE Open \/ Shut \/ UNCHANGED vars
  BY <1>5 DEF Open, Shut, vars, durable, memory
<1> QED
  BY <1>1, <1>2, <1>3, <1>4, <1>5 DEF Next, AgentStep, GameStep, OutsideStep

LEMMA NextKeepsGamesOpen ==
    ASSUME RecoveryInv, LaunchInv, BudgetInv, [Next]_vars
    PROVE  GamesOpen'
<1> USE DEF BudgetInv, GamesOpen, Started, Gaming
<1>1. CASE pc' \notin Started
  BY <1>1
<1>2. CASE Open \/ Shut \/ UNCHANGED vars \/ GamesReady
           \/ \E s \in Shards : \/ \E whole \in BOOLEAN : GameSave(s, whole)
                                \/ GameRollback(s)
                                \/ GameRegenerate(s)
  BY <1>2 DEF Open, Shut, vars, GamesReady, GameSave, GameRollback, GameRegenerate,
     Goto, durable, memory, Unstarted
<1>3. CASE SpawnGames
  BY <1>3 DEF SpawnGames, Goto, durable, Unstarted, LaunchInv, LaunchMatchesDecision
<1>4. CASE GameFault
  <2>1. /\ pc \in Gaming /\ pc' = "fault" /\ UNCHANGED recovery
        /\ failure' \in Failures
    BY <1>4, ClassifiedAreFailures DEF GameFault, durable
  <2>2. failure' # NoFailure
    BY <2>1 DEF Failures, FailureKinds, Fatal, NoFailure, Plain
  <2> QED
    BY <2>1, <2>2 DEF Unstarted
<1>5. CASE RoomReady /\ pc' = "running"
  <2>1. CanMarkReady(recovery) /\ recovery' = MarkReady(recovery)
    BY <1>5 DEF RoomReady, Goto, Write
  <2>2. /\ recovery'.closed = recovery.closed /\ recovery'.retry = NoRetry
        /\ recovery'.target.phase \in {"none", "Ready"}
    BY <2>1, RecoveryInvEntry, MarkReadyParts
  <2> QED
    BY <1>5, <2>1, <2>2 DEF CanMarkReady, CanResetAfterStable, Closed, HasRetry,
       NoRetry, Unstarted
<1>6. CASE StableReset \/ TickOpening
  <2>1. /\ pc = "running" /\ pc' = "running" /\ CanResetAfterStable(recovery)
        /\ recovery' \in {recovery, Reset(recovery), ResetForOpenWindow(recovery, opening)}
    BY <1>6 DEF StableReset, TickOpening, Renew, ResetAfterStable, OpenedState, memory
  <2>2. GoodEntry(recovery) /\ opening \in Openings
    BY RecoveryInvEntry DEF RecoveryInv, TypeOK
  <2>3. CanResetAfterStable(recovery')
    BY <2>1, <2>2, RenewedWhileRunning
  <2> QED
    BY <2>1, <2>3 DEF CanResetAfterStable, HasRetry, Unstarted
<1>7. ASSUME AgentStep PROVE SpawnGames \/ (RoomReady /\ pc' = "running") \/ pc' \notin Started
  BY <1>7 DEF AgentStep, Initialize, ShutBeforeStart, ReadCatalogs, NothingPending,
     DecideRecovery, ForgetRun, AwaitRetry, BeginApply, FinishApply, NothingToPrepare,
     Launch, SaveRun, RoomReady, PersistFailure, RecordStop, ApplyShard, Exit, Goto
<1>8. CASE \/ Restart \/ Activate \/ HostStart \/ EditCluster \/ CleanStop
           \/ Interrupt \/ ServerFault \/ Lose
  BY <1>8 DEF Restart, Activate, HostStart, EditCluster, CleanStop, Interrupt,
     ServerFault, Lose, Begin, Exit, Goto, memory
<1> QED
  BY <1>1, <1>2, <1>3, <1>4, <1>5, <1>6, <1>7, <1>8 DEF Next, GameStep, OutsideStep

LEMMA BudgetInvHolds == Spec => []BudgetInv
<1>1. Init => BudgetInv
  BY RestartsAssumption DEF Init, BudgetInv, Ledger, FailureForgotten, GamesOpen, Started, Gaming,
     Unstarted, DefaultState, NoRetry, NoTarget, PaidBy
<1>2. RecoveryInv /\ RecoveryInv' /\ LaunchInv /\ BudgetInv /\ [Next]_vars => BudgetInv'
  BY NextKeepsLedger, NextKeepsForgotten, NextKeepsGamesOpen DEF BudgetInv
<1> QED
  BY <1>1, <1>2, InvHolds, LaunchInvHolds, PTL DEF Spec

-----------------------------------------------------------------------------
(* Theorems *)

\* Games are launched on exactly what was decided, whatever was lost, saved or
\* edited before: the room is open, no attempt is half prepared, and the saves on
\* disk are the fixed target's or those the reserved retry recorded.
THEOREM LaunchAsDecided == Spec => []LaunchMatchesDecision
<1>1. LaunchInv => LaunchMatchesDecision
  BY DEF LaunchInv
<1> QED
  BY <1>1, LaunchInvHolds, PTL

\* The preloader discards saves only towards the persisted target of the same
\* session, and never more than MAX_SNAPSHOT_GAP numbers of any shard.
THEOREM DiscardsBounded == Spec => DiscardIsBounded
<1> DEFINE Bounded ==
      pc = "apply" =>
         \A s \in Shards : saves'[s] # saves[s] =>
            /\ recovery.target.phase = "Preparing"
            /\ recovery.target.shards[s] =
                  [session |-> saves'[s].session, id |-> saves'[s].latest]
            /\ saves[s].session = saves'[s].session
            /\ saves[s].latest - saves'[s].latest \in 1 .. MAX_SNAPSHOT_GAP
<1>1. ASSUME RecoveryInv, LaunchInv, Next PROVE Bounded
  <2> USE <1>1
  <2> SUFFICES ASSUME pc = "apply", NEW s \in Shards, saves'[s] # saves[s]
               PROVE  /\ recovery.target.phase = "Preparing"
                      /\ recovery.target.shards[s] =
                            [session |-> saves'[s].session, id |-> saves'[s].latest]
                      /\ saves[s].session = saves'[s].session
                      /\ saves[s].latest - saves'[s].latest \in 1 .. MAX_SNAPSHOT_GAP
    OBVIOUS
  <2> DEFINE target == recovery.target.shards[s]
             save == saves[s]
  <2>1. saves \in [Shards -> SaveState]
    BY DEF RecoveryInv, TypeOK
  <2>2. PICK r \in Shards : ApplyShard(r)
    <3>1. UNCHANGED saves \/ \E r \in Shards : ApplyShard(r)
      BY <1>1 DEF Next, AgentStep, GameStep, OutsideStep, Initialize,
         ShutBeforeStart, ReadCatalogs, NothingPending, DecideRecovery, ForgetRun,
         AwaitRetry, BeginApply, FinishApply, NothingToPrepare, Launch, SaveRun,
         SpawnGames, RoomReady, PersistFailure, RecordStop, GamesReady, GameFault,
         GameSave, GameRollback, GameRegenerate, Restart, Activate, HostStart,
         EditCluster, Open, Shut, StableReset, TickOpening, CleanStop, Interrupt,
         ServerFault, Lose, durable, Gaming
    <3> QED
      BY <3>1
  <2>3. r = s
    BY <2>1, <2>2 DEF ApplyShard
  <2>4. /\ ~NativeRefuses(save, target)
        /\ saves'[s] = Truncate(save, target.id)
        /\ s \in todo
    BY <2>1, <2>2, <2>3 DEF ApplyShard
  <2>5. /\ recovery.target.phase = "Preparing" /\ s \in required
        /\ DOMAIN recovery.target.shards = required
    BY <2>4 DEF LaunchInv, ApplyProgress
  <2>6. save.latest - recovery.target.id <= MAX_SNAPSHOT_GAP
    BY <2>5 DEF LaunchInv, GapKnown, WithinGap, OnDisk
  <2>7. target.id = recovery.target.id /\ target \in Saved
    <3>1. GoodEntry(recovery)
      BY RecoveryInvEntry
    <3>2. recovery.target.shards \in [required -> Saved]
      BY <2>5, <3>1, SavedRoomElim DEF GoodEntry, RecoveryStates, Targets
    <3> QED
      BY <2>5, <3>1, <3>2 DEF GoodEntry, Validate
  <2>8. save \in SaveState /\ save.latest \in Int /\ target.id \in Int
    BY <2>1, <2>7, MaxAssumption DEF SaveState, Saved, Ids
  <2> HIDE DEF save, target
  <2>9. save.latest # target.id /\ target.id <= save.latest
    BY <2>4, <2>8 DEF NativeRefuses, Truncate, save
  <2>10. /\ saves'[s].session = save.session /\ saves'[s].latest = target.id
    BY <2>4, <2>8, <2>9 DEF Truncate, SaveState
  <2>11. save.session = target.session
    BY <2>4 DEF NativeRefuses
  <2>12. target = [session |-> target.session, id |-> target.id]
    BY <2>7 DEF Saved
  <2>13. save.latest - target.id \in 1 .. MAX_SNAPSHOT_GAP
    BY <2>6, <2>7, <2>8, <2>9, GapAssumption
  <2> QED
    BY <2>5, <2>10, <2>11, <2>12, <2>13 DEF save, target
<1>2. RecoveryInv /\ LaunchInv /\ [Next]_vars => [Bounded]_vars
  BY <1>1
<1> QED
  BY <1>2, InvHolds, LaunchInvHolds, PTL DEF Spec, DiscardIsBounded

\* Between two fresh budgets games are launched after at most CURRENT_RESTARTS
\* persisted failures and one rollback, wherever containers are lost.
THEOREM LaunchesBounded == Spec => []BudgetBoundsLaunches
<1>1. RecoveryInv /\ LaunchInv /\ BudgetInv => BudgetBoundsLaunches
  <2> SUFFICES ASSUME RecoveryInv, LaunchInv, BudgetInv, pc \in {"launching", "loading"}
               PROVE  faults <= CURRENT_RESTARTS + 1
    BY DEF BudgetBoundsLaunches
  <2>1. run.failure = NoFailure /\ ~Closed(recovery)
    BY DEF BudgetInv, FailureForgotten, GamesOpen, Started, Gaming, LaunchInv,
           LaunchMatchesDecision
  <2>2. faults <= PaidBy(recovery)
    BY <2>1 DEF BudgetInv, Ledger
  <2>3. /\ PaidBy(recovery) \in Nat /\ PaidBy(recovery) <= CURRENT_RESTARTS + 1
        /\ faults \in Nat
    BY PaidIsNat DEF RecoveryInv, TypeOK
  <2> QED
    BY <2>2, <2>3, RestartsAssumption
<1> QED
  BY <1>1, InvHolds, LaunchInvHolds, BudgetInvHolds, PTL

\* Games that became ready are never torn down because mark_ready refuses the
\* entry that start, or a tick meanwhile, left.
THEOREM ReadyAccepted == Spec => [](pc = "loaded" => CanMarkReady(recovery))
<1>1. RecoveryInv /\ BudgetInv => (pc = "loaded" => CanMarkReady(recovery))
  <2> SUFFICES ASSUME RecoveryInv, BudgetInv, pc = "loaded" PROVE CanMarkReady(recovery)
    OBVIOUS
  <2>1. ~Closed(recovery) /\ ~Unstarted
    BY DEF BudgetInv, GamesOpen, Started, Gaming
  <2>2. recovery.target.phase \in TargetPhases /\ recovery.target.phase # "Failed"
    BY <2>1, RecoveryInvEntry DEF GoodEntry, RecoveryStates, Targets, Coherent
  <2> QED
    BY <2>1, <2>2 DEF CanMarkReady, Unstarted, TargetPhases
<1> QED
  BY <1>1, InvHolds, BudgetInvHolds, PTL

=============================================================================
