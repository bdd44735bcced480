------------------------- MODULE MaintenanceProofs -------------------------
(***************************************************************************)
(* Theorems about Maintenance, for every budget, delay, schedule, clock    *)
(* jump and number of disturbances.                                        *)
(*                                                                         *)
(* The argument has three parts.  The Agent of a running room that is not  *)
(* about to end has games, unless a scheduled stop is all that is left to  *)
(* do: so maintenance never downloads beside an initialized Agent, and     *)
(* every download is reserved in the boot loop.  The durable attempts      *)
(* bound the downloads of the last opening, and a later opening has had    *)
(* none.  And the time left in the countdown, corrected by the jump that   *)
(* the next plan will find, never runs ahead of the time that passed.      *)
(***************************************************************************)
EXTENDS Maintenance, TLAPS

Time == Int
Attempts == 0 .. MOD_ATTEMPTS
Entry == [phase : Phases, due : Time, next : Time, attempts : Attempts,
          manual : BOOLEAN, resume : BOOLEAN, outdated : BOOLEAN]

Types ==
    /\ mods \in Entry
    /\ jumped \in Int /\ jumps \in Nat
    /\ told \in 0 .. MOD_NOTICE_DELAY
    /\ last \in Openings /\ tries \in [Openings -> Nat]

\* What the Agent is doing, step by step of its life.
Shape ==
    /\ game => pc \in {"starting", "running"}
    /\ pc \in {"prepare", "starting"} => mods.phase = "Idle"
    /\ pc # "running" => worker = "none" /\ ~hit
    /\ pc \in {"starting", "running"} /\ ~faulted /\ closing = "none" =>
           game \/ worker = "schedule"
    /\ hit => closing_game /\ worker \notin {"none", "schedule"}
    /\ worker = "schedule" => closing_game
    /\ worker \notin {"start", "update"}

\* Games run over Mods that are up to date or wait for their first attempt.
Sound ==
    /\ mods.phase = "Idle" => mods.attempts = 0
    /\ GamesOverSoundMods

\* The durable entry counts the downloads of the last opening.
Budget ==
    /\ tries[last] <= mods.attempts
    /\ \A o \in Openings : tries[o] <= MOD_ATTEMPTS
    /\ \A o \in Openings : o > last => tries[o] = 0

\* A jump since the last plan has not been corrected yet.
Uncorrected == IF jumped = 0 THEN 0 ELSE 1

Notice ==
    /\ worker \in {"stop_update", "stop_again"} => told >= MOD_NOTICE_DELAY - jumps
    /\ pc = "running" /\ mods.phase = "Stopping" => told >= MOD_NOTICE_DELAY - jumps
    /\ pc = "running" /\ mods.phase = "Announcing" =>
           \/ told = MOD_NOTICE_DELAY
           \/ mods.due + told + jumped >= MOD_NOTICE_DELAY - (jumps - Uncorrected)

MaintenanceInv == Types /\ Shape /\ Sound /\ Budget /\ Notice

SoundPhases == {"Idle", "Pending", "Announcing", "Stopping"}

-----------------------------------------------------------------------------
(* The entry *)

LEMMA Numbers ==
    /\ 0 \in Time /\ 1 \in Time /\ MOD_RETRY_DELAY \in Time /\ MOD_NOTICE_DELAY \in Time
    /\ 0 \in Attempts
BY LimitsAssumption DEF Time, Attempts

LEMMA DefaultIsEntry ==
    Default \in Entry /\ Default.phase = "Idle" /\ Default.attempts = 0
BY Numbers DEF Default, Entry, Phases

LEMMA RequestFacts ==
    ASSUME NEW m \in Entry
    PROVE  /\ Request(m) \in Entry /\ Request(m).phase = "Pending"
           /\ Request(m).attempts = 0 /\ Request(m).manual = FALSE
           /\ \A again \in BOOLEAN :
                 /\ QueueModUpdate(m, again) \in Entry
                 /\ QueueModUpdate(m, again).phase = "Pending"
                 /\ QueueModUpdate(m, again).attempts = 0
<1>2. /\ Request(m) \in Entry /\ Request(m).phase = "Pending"
      /\ Request(m).attempts = 0 /\ Request(m).manual = FALSE
  BY Numbers DEF Request, Entry, Phases
<1>3. ASSUME NEW again \in BOOLEAN
      PROVE  /\ QueueModUpdate(m, again) \in Entry
             /\ QueueModUpdate(m, again).phase = "Pending"
             /\ QueueModUpdate(m, again).attempts = 0
  BY <1>2 DEF QueueModUpdate, Entry
<1> QED
  BY <1>2, <1>3

LEMMA FinishFacts ==
    ASSUME NEW m \in Entry
    PROVE  /\ FinishModUpdate(m, TRUE) \in Entry
           /\ FinishModUpdate(m, TRUE).phase = "Idle"
           /\ FinishModUpdate(m, TRUE).attempts = 0
           /\ FinishModUpdate(m, FALSE) \in Entry
           /\ FinishModUpdate(m, FALSE).phase \in {"Failed", "Retry"}
           /\ FinishModUpdate(m, FALSE).phase = "Failed" => m.attempts >= MOD_ATTEMPTS
           /\ FinishModUpdate(m, FALSE).attempts = m.attempts
<1>2. /\ FinishModUpdate(m, TRUE) \in Entry
      /\ FinishModUpdate(m, TRUE).phase = "Idle"
      /\ FinishModUpdate(m, TRUE).attempts = 0
  <2>1. m.outdated \in BOOLEAN
    BY DEF Entry
  <2>2. FinishModUpdate(m, TRUE) = [Default EXCEPT !.outdated = m.outdated]
    BY DEF FinishModUpdate
  <2> QED
    BY <2>1, <2>2, DefaultIsEntry DEF Entry
<1>3. CASE m.attempts >= MOD_ATTEMPTS
  <2>1. FinishModUpdate(m, FALSE) = [m EXCEPT !.phase = "Failed"]
    BY <1>3 DEF FinishModUpdate
  <2> QED
    BY <1>2, <1>3, <2>1 DEF Entry, Phases
<1>4. CASE ~(m.attempts >= MOD_ATTEMPTS)
  <2>1. FinishModUpdate(m, FALSE) = [m EXCEPT !.phase = "Retry", !.due = MOD_RETRY_DELAY]
    BY <1>4 DEF FinishModUpdate
  <2> QED
    BY <1>2, <2>1, Numbers DEF Entry, Phases
<1> QED
  BY <1>3, <1>4

LEMMA ResumeFacts ==
    ASSUME NEW m \in Entry
    PROVE  /\ ResumeAfterRestart(m) \in Entry
           /\ ResumeAfterRestart(m).attempts = m.attempts
           /\ m.phase # "Updating" => ResumeAfterRestart(m) = m
           /\ m.phase = "Updating" => /\ ResumeAfterRestart(m).phase \in {"Failed", "Retry"}
                                      /\ ResumeAfterRestart(m).phase = "Failed" =>
                                             m.attempts >= MOD_ATTEMPTS
BY FinishFacts DEF ResumeAfterRestart

\* The clock moves the deadline and nothing else; the floor of Clip only delays it.
LEMMA ShiftFacts ==
    ASSUME NEW m \in Entry, NEW d \in Int
    PROVE  /\ Shift(m, d) \in Entry /\ Shift(m, d).phase = m.phase
           /\ Shift(m, d).attempts = m.attempts /\ Shift(m, d).manual = m.manual
           /\ Shift(m, d).due >= m.due + d \/ m.phase # "Announcing"
<1>1. m.due \in Int /\ m.next \in Int
  BY DEF Entry, Time
<1>2. \A t \in Int : Clip(t) \in Int /\ Clip(t) >= t
  BY DEF Clip, MaxJump
<1>3. CASE m.phase \in {"Announcing", "Retry"}
  <2> DEFINE due == Clip(m.due + d)
             next == IF m.phase = "Announcing" THEN Clip(m.next + d) ELSE 0
  <2>1. due \in Int /\ next \in Int /\ due >= m.due + d
    BY <1>1, <1>2
  <2>2. Shift(m, d) = [m EXCEPT !.due = due, !.next = next]
    BY <1>3 DEF Shift
  <2> HIDE DEF due, next
  <2> QED
    BY <2>1, <2>2 DEF Entry, Time
<1>4. CASE m.phase \notin {"Announcing", "Retry"}
  BY <1>4 DEF Shift
<1> QED
  BY <1>3, <1>4

\* Closing takes a countdown back.
LEMMA WithdrawFacts ==
    ASSUME NEW m \in Entry, NEW phases, phases \subseteq {"Announcing", "Stopping"}
    PROVE  /\ Withdraw(m, phases) \in Entry
           /\ Withdraw(m, phases).attempts = m.attempts
           /\ Withdraw(m, phases) = m
                  \/ (m.phase \in phases /\ Withdraw(m, phases).phase = "Pending")
BY Numbers DEF Withdraw, Entry, Phases

\* Observation: a later opening renews, switched off maintenance forgets.
LEMMA ObservedFacts ==
    ASSUME NEW m \in Entry, NEW new \in BOOLEAN, NEW outdated \in BOOLEAN,
           m.phase = "Idle" => m.attempts = 0
    PROVE  LET b == Observed(m, new, outdated) IN
           /\ b \in Entry
           /\ b.attempts = m.attempts \/ (new /\ m.phase = "Failed" /\ b.attempts = 0)
           /\ b.phase \in {m.phase, "Pending", "Idle"}
           /\ b.phase = "Pending" => m.phase \in {"Idle", "Failed", "Pending"}
           /\ b.phase = m.phase /\ m.phase \notin {"Idle", "Pending"} => b.due = m.due
           /\ b.phase = "Idle" => b.attempts = 0
           /\ b.phase = "Idle" /\ m.phase # "Idle" =>
                  ~auto /\ (m.phase = "Failed" \/ (~m.manual /\ m.attempts = 0))
<1> DEFINE renewed == IF new /\ m.phase = "Failed" THEN Request(m) ELSE m
           noticed == IF auto /\ outdated /\ ~renewed.outdated /\ renewed.phase = "Idle"
                      THEN [renewed EXCEPT !.phase = "Pending"] ELSE renewed
           base == IF ~auto /\ ~noticed.manual /\ noticed.attempts = 0
                   THEN Default ELSE noticed
           b == [base EXCEPT !.outdated = outdated]
<1>1. Observed(m, new, outdated) = b
  BY DEF Observed
<1>2. /\ renewed \in Entry
      /\ renewed = m \/ (new /\ m.phase = "Failed" /\ renewed.attempts = 0
                             /\ renewed.phase = "Pending")
  BY RequestFacts
<1> HIDE DEF renewed
<1>3. /\ noticed \in Entry /\ noticed.attempts = renewed.attempts
      /\ noticed.manual = renewed.manual /\ noticed.due = renewed.due
      /\ noticed.phase = renewed.phase \/ (renewed.phase = "Idle" /\ noticed.phase = "Pending")
  BY <1>2 DEF Entry, Phases
<1> HIDE DEF noticed
<1>4. /\ base \in Entry
      /\ base = noticed \/ (base = Default /\ ~auto /\ ~noticed.manual /\ noticed.attempts = 0)
  BY <1>3, DefaultIsEntry
<1> HIDE DEF base
<1>5. /\ b \in Entry /\ b.phase = base.phase /\ b.attempts = base.attempts
      /\ b.due = base.due
  BY <1>4 DEF Entry
<1> HIDE DEF b
<1>6. b.attempts = m.attempts \/ (new /\ m.phase = "Failed" /\ b.attempts = 0)
  BY <1>2, <1>3, <1>4, <1>5, DefaultIsEntry
<1>7. /\ b.phase \in {m.phase, "Pending", "Idle"}
      /\ b.phase = "Pending" => m.phase \in {"Idle", "Failed", "Pending"}
  BY <1>2, <1>3, <1>4, <1>5, DefaultIsEntry
<1>8. b.phase = m.phase /\ m.phase \notin {"Idle", "Pending"} => b.due = m.due
  BY <1>2, <1>3, <1>4, <1>5, DefaultIsEntry
<1>9. b.phase = "Idle" => b.attempts = 0
  BY <1>2, <1>3, <1>4, <1>5, DefaultIsEntry
<1>10. b.phase = "Idle" /\ m.phase # "Idle" =>
           ~auto /\ (m.phase = "Failed" \/ (~m.manual /\ m.attempts = 0))
  BY <1>2, <1>3, <1>4, <1>5, DefaultIsEntry
<1> QED
  BY <1>1, <1>5, <1>6, <1>7, <1>8, <1>9, <1>10

-----------------------------------------------------------------------------
(* Decisions *)

\* Without games an entry that is due reserves an attempt, or is left alone.
WithoutGames(m, s) ==
    \/ s.mods = m /\ s.action \in {"none", "exhausted"}
    \/ /\ s.action = "update" /\ s.mods \in Entry /\ s.mods.phase = "Updating"
       /\ m.attempts < MOD_ATTEMPTS /\ s.mods.attempts = m.attempts + 1
       /\ m.phase # "Idle"

LEMMA ActionWithoutGames ==
    ASSUME NEW m \in Entry
    PROVE  WithoutGames(m, ModAction(m, FALSE, FALSE))
<1> DEFINE new == [m EXCEPT !.phase = "Updating", !.due = 0, !.next = 0, !.attempts = @ + 1]
<1>1. ASSUME m.attempts < MOD_ATTEMPTS
      PROVE  new \in Entry /\ new.phase = "Updating" /\ new.attempts = m.attempts + 1
  <2>1. m.attempts + 1 \in Attempts
    BY <1>1, LimitsAssumption DEF Entry, Attempts
  <2> QED
    BY <2>1, Numbers DEF Entry, Phases
<1>2. ASSUME NEW s, s = Outcome(m, "none") \/ s = Outcome(m, "exhausted")
      PROVE  WithoutGames(m, s)
  BY <1>2 DEF Outcome, WithoutGames
<1>3. ASSUME NEW s, NEW n, s = Outcome(n, "update"), m.attempts < MOD_ATTEMPTS,
             m.phase # "Idle", n = new
      PROVE  WithoutGames(m, s)
  <2>1. n \in Entry /\ n.phase = "Updating" /\ n.attempts = m.attempts + 1
    BY <1>1, <1>3
  <2>2. s.mods = n /\ s.action = "update"
    BY <1>3 DEF Outcome
  <2> HIDE DEF new
  <2> QED
    BY <1>3, <2>1, <2>2 DEF WithoutGames
<1> DEFINE a == ModAction(m, FALSE, FALSE)
<1>4. \/ a = Outcome(m, "none")
      \/ a = Outcome(m, "exhausted")
      \/ a = Outcome(new, "update") /\ m.attempts < MOD_ATTEMPTS /\ m.phase # "Idle"
  BY Zenon DEF ModAction
<1> HIDE DEF new, a
<1>5. WithoutGames(m, a)
  BY <1>2, <1>3, <1>4, Zenon
<1> QED
  BY <1>5 DEF a

\* Beside games it counts down, and asks for the stop when the time is up.
BesideGames(m, s) ==
    /\ s.mods \in Entry /\ s.mods.attempts = m.attempts
    /\ \/ s.mods.phase = m.phase /\ s.mods.due = m.due
          /\ s.action \in {"none", "announce"}
       \/ /\ m.phase = "Announcing" /\ m.due <= 0
          /\ s.mods.phase = "Stopping" /\ s.action = "stop_update"
       \/ s.mods = m /\ m.phase = "Stopping" /\ s.action = "stop_again"
       \/ /\ m.phase \in {"Pending", "Retry"} /\ s.action = "announce"
          /\ s.mods.phase = "Announcing" /\ s.mods.due = MOD_NOTICE_DELAY

LEMMA ActionBesideGames ==
    ASSUME NEW m \in Entry, NEW running, NEW ready, running
    PROVE  BesideGames(m, ModAction(m, running, ready))
<1> DEFINE stop == [m EXCEPT !.phase = "Stopping", !.due = 0, !.next = 0]
           notice == [m EXCEPT !.next = 1]
           begin == [m EXCEPT !.phase = "Announcing", !.due = MOD_NOTICE_DELAY, !.next = 1]
           a == ModAction(m, running, ready)
<1>1. \/ a = Outcome(m, "none")
      \/ a = Outcome(stop, "stop_update") /\ m.phase = "Announcing" /\ m.due <= 0
      \/ a = Outcome(notice, "announce")
      \/ a = Outcome(m, "stop_again") /\ m.phase = "Stopping"
      \/ a = Outcome(begin, "announce")
             /\ m.phase \notin {"Idle", "Updating", "Failed", "Announcing", "Stopping"}
  BY Zenon DEF ModAction
<1>2. m.phase \in Phases
  BY DEF Entry
<1>3. /\ stop \in Entry /\ stop.attempts = m.attempts /\ stop.phase = "Stopping"
      /\ notice \in Entry /\ notice.attempts = m.attempts /\ notice.phase = m.phase
      /\ notice.due = m.due
  BY Numbers DEF Entry, Phases
<1>4. /\ begin \in Entry /\ begin.attempts = m.attempts /\ begin.phase = "Announcing"
      /\ begin.due = MOD_NOTICE_DELAY
  BY Numbers DEF Entry, Phases
<1> HIDE DEF stop, notice, begin, a
<1>5. ASSUME NEW s, s = Outcome(m, "none") PROVE BesideGames(m, s)
  BY <1>5 DEF Outcome, BesideGames
<1>6. ASSUME NEW s, s = Outcome(stop, "stop_update"), m.phase = "Announcing", m.due <= 0
      PROVE  BesideGames(m, s)
  BY <1>3, <1>6 DEF Outcome, BesideGames
<1>7. ASSUME NEW s, s = Outcome(notice, "announce") PROVE BesideGames(m, s)
  BY <1>3, <1>7 DEF Outcome, BesideGames
<1>8. ASSUME NEW s, s = Outcome(m, "stop_again"), m.phase = "Stopping" PROVE BesideGames(m, s)
  BY <1>8 DEF Outcome, BesideGames
<1>9. ASSUME NEW s, s = Outcome(begin, "announce"),
             m.phase \notin {"Idle", "Updating", "Failed", "Announcing", "Stopping"}
      PROVE  BesideGames(m, s)
  BY <1>2, <1>4, <1>9 DEF Outcome, BesideGames, Phases
<1>10. BesideGames(m, a)
  BY <1>1, <1>5, <1>6, <1>7, <1>8, <1>9, Zenon
<1> QED
  BY <1>10 DEF a

\* A plan over a room without games that is busy decides nothing, at boot and while
\* the scheduled stop runs.
Withdrawn(m, n) == n = m \/ (m.phase \in {"Announcing", "Stopping"} /\ n.phase = "Pending")

Undecided(m, s) ==
    /\ s.mods \in Entry /\ s.mods.attempts = m.attempts /\ s.action = "none"
    /\ Withdrawn(m, s.mods)

LEMMA DecideWithoutGames ==
    ASSUME NEW m \in Entry, NEW running, NEW ready, NEW busy, ~running, ~ready, busy
    PROVE  Undecided(m, Decide(m, running, ready, busy))
<1> DEFINE both == Withdraw(m, {"Announcing", "Stopping"})
           one == Withdraw(m, {"Announcing"})
           a == Decide(m, running, ready, busy)
<1>1. /\ both \in Entry /\ both.attempts = m.attempts /\ Withdrawn(m, both)
      /\ one \in Entry /\ one.attempts = m.attempts /\ Withdrawn(m, one)
  BY WithdrawFacts DEF Withdrawn
<1>2. a = Outcome(m, "none") \/ a = Outcome(both, "none") \/ a = Outcome(one, "none")
  BY Zenon DEF Decide, StopsNow
<1> HIDE DEF both, one, a
<1>3. ASSUME NEW s, NEW n \in {m, both, one}, s = Outcome(n, "none") PROVE Undecided(m, s)
  <2>1. n \in Entry /\ n.attempts = m.attempts /\ Withdrawn(m, n)
    BY <1>1 DEF Withdrawn
  <2>2. s.mods = n /\ s.action = "none"
    BY <1>3 DEF Outcome
  <2> QED
    BY <2>1, <2>2 DEF Undecided
<1>4. Undecided(m, a)
  BY <1>2, <1>3, Zenon
<1> QED
  BY <1>4 DEF a

\* A plan over games and sound Mods.
Decided(m, s, busy) ==
    \/ /\ s.mods \in Entry /\ s.mods.attempts = m.attempts /\ Withdrawn(m, s.mods)
       /\ \/ s.action \in {"none", "schedule"}
          \/ s.action = "announce" /\ ~busy
    \/ BesideGames(m, s) /\ ~busy

LEMMA DecideBesideGames ==
    ASSUME NEW m \in Entry, NEW running, NEW ready, NEW busy, running, m.phase # "Failed"
    PROVE  Decided(m, Decide(m, running, ready, busy), busy)
<1> DEFINE both == Withdraw(m, {"Announcing", "Stopping"})
           one == Withdraw(m, {"Announcing"})
           a == Decide(m, running, ready, busy)
<1>1. /\ both \in Entry /\ both.attempts = m.attempts /\ Withdrawn(m, both)
      /\ one \in Entry /\ one.attempts = m.attempts /\ Withdrawn(m, one)
  BY WithdrawFacts DEF Withdrawn
<1>2. \/ a \in {Outcome(m, "none"), Outcome(both, "schedule"), Outcome(both, "none"),
                Outcome(one, "none")}
      \/ a \in {Outcome(one, "announce"), Outcome(m, "announce")} /\ ~busy
      \/ a = ModAction(m, running, ready) /\ ~busy
  BY Zenon DEF Decide
<1> HIDE DEF both, one, a
<1>3. ASSUME NEW s, NEW n \in {m, both, one}, NEW action,
             s = Outcome(n, action),
             action \in {"none", "schedule"} \/ (action = "announce" /\ ~busy)
      PROVE  Decided(m, s, busy)
  <2>1. n \in Entry /\ n.attempts = m.attempts /\ Withdrawn(m, n)
    BY <1>1 DEF Withdrawn
  <2>2. s.mods = n /\ s.action = action
    BY <1>3 DEF Outcome
  <2> QED
    BY <1>3, <2>1, <2>2, Zenon DEF Decided
<1>4. CASE a \in {Outcome(m, "none"), Outcome(both, "schedule"), Outcome(both, "none"),
                  Outcome(one, "none")}
  BY <1>3, <1>4, Zenon DEF a
<1>5. CASE a \in {Outcome(one, "announce"), Outcome(m, "announce")} /\ ~busy
  BY <1>3, <1>5, Zenon DEF a
<1>6. CASE a = ModAction(m, running, ready) /\ ~busy
  BY <1>6, ActionBesideGames, Zenon DEF Decided, a
<1> QED
  BY <1>2, <1>4, <1>5, <1>6, Zenon

-----------------------------------------------------------------------------
(* The schedule and the budget *)

LEMMA OpeningsFacts == Openings \subseteq Nat /\ 0 \in Openings /\ OpeningId \in Openings
<1>1. \A w \in Windows : w[1] \in Nat
  BY WindowsAssumption
<1>2. At(now) # {} => (CHOOSE w \in At(now) : TRUE) \in Windows
  BY DEF At
<1>3. Openings \subseteq Nat /\ 0 \in Openings
  BY <1>1 DEF Openings
<1>4. OpeningId \in Openings
  BY <1>2, Zenon DEF Openings, OpeningId
<1> QED
  BY <1>3, <1>4

LEMMA PlanWritesFacts ==
    ASSUME Types, NEW changed, PlanWrites(changed)
    PROVE  /\ last' \in Openings /\ jumped' = 0
           /\ NewOpening(changed) => last' > last
           /\ last' = last \/ last' > last
BY OpeningsFacts DEF Types, PlanWrites, NewOpening

\* Openings without downloads lie ahead, and attempts are renewed only there.
LEMMA BudgetCarried ==
    ASSUME Types, Budget, mods' \in Entry, last' \in Openings, UNCHANGED tries,
           last' = last \/ last' > last,
           mods'.attempts = mods.attempts \/ (mods'.attempts = 0 /\ last' > last)
    PROVE  Budget'
<1>1. tries \in [Openings -> Nat] /\ Openings \subseteq Nat /\ last \in Openings
  BY OpeningsFacts DEF Types
<1>2. mods'.attempts \in Nat
  BY LimitsAssumption DEF Entry, Attempts
<1>3. tries[last'] <= mods'.attempts
  BY <1>1, <1>2 DEF Budget
<1>4. \A o \in Openings : o > last' => o > last
  BY <1>1
<1> QED
  BY <1>3, <1>4 DEF Budget

LEMMA BudgetSpent ==
    ASSUME Types, Budget, mods' \in Entry, UNCHANGED last, mods.attempts < MOD_ATTEMPTS,
           mods'.attempts = mods.attempts + 1, tries' = [tries EXCEPT ![last] = @ + 1]
    PROVE  Budget' /\ tries' \in [Openings -> Nat]
<1>1. /\ tries \in [Openings -> Nat] /\ Openings \subseteq Nat /\ last \in Openings
      /\ MOD_ATTEMPTS \in Nat /\ mods.attempts \in Nat
  BY OpeningsFacts, LimitsAssumption DEF Types, Entry, Attempts
<1>2. \A o \in Openings : tries'[o] = IF o = last THEN tries[o] + 1 ELSE tries[o]
  BY <1>1
<1>3. tries'[last] <= mods.attempts + 1 /\ tries'[last] <= MOD_ATTEMPTS
  BY <1>1, <1>2 DEF Budget
<1>4. \A o \in Openings : tries'[o] <= MOD_ATTEMPTS
  BY <1>1, <1>2, <1>3 DEF Budget
<1>5. \A o \in Openings : o > last => tries'[o] = 0
  BY <1>1, <1>2 DEF Budget
<1>6. tries' \in [Openings -> Nat]
  BY <1>1
<1> QED
  BY <1>3, <1>4, <1>5, <1>6 DEF Budget

LEMMA BudgetCleared ==
    ASSUME mods' \in Entry, last' \in Openings, tries' = [o \in Openings |-> 0]
    PROVE  Budget' /\ tries' \in [Openings -> Nat]
<1>1. mods'.attempts \in Nat /\ MOD_ATTEMPTS \in Nat
  BY LimitsAssumption DEF Entry, Attempts
<1> QED
  BY <1>1 DEF Budget

-----------------------------------------------------------------------------
(* Steps that leave the entry alone *)

LEMMA QuietKeeps ==
    ASSUME MaintenanceInv, UNCHANGED <<mods, tries, last, told, jumped, jumps>>, Shape',
           game' => game \/ mods.phase = "Idle",
           worker' \in {"stop_update", "stop_again"} => worker' = worker,
           pc' = "running" => pc = "running" \/ mods.phase = "Idle"
    PROVE  MaintenanceInv'
<1>1. Types'
  BY DEF MaintenanceInv, Types
<1>2. Sound'
  BY DEF MaintenanceInv, Sound, GamesOverSoundMods
<1>3. Budget'
  BY DEF MaintenanceInv, Budget
<1>4. Notice'
  BY DEF MaintenanceInv, Notice, Uncorrected
<1> QED
  BY <1>1, <1>2, <1>3, <1>4 DEF MaintenanceInv

LEMMA QuietStepsKeep ==
    ASSUME MaintenanceInv,
           \/ Signal \/ Fault \/ Restart \/ Activate \/ Refuse \/ Launch \/ Initialized
           \/ Submit \/ SetPolicy \/ WorkerFails \/ UNCHANGED vars
    PROVE  MaintenanceInv'
<1> USE DEF clock, policy, history, agent
<1>1. Shape
  BY DEF MaintenanceInv
<1>2. CASE Signal \/ SetPolicy \/ UNCHANGED vars
  <2>1. UNCHANGED <<mods, tries, last, told, jumped, jumps, pc, worker, closing_game, hit,
                    faulted, game>>
    BY <1>2 DEF Signal, SetPolicy, vars
  <2>2. closing' = closing \/ closing = "none"
    BY <1>2 DEF Signal, SetPolicy, vars, Alive
  <2>3. Shape'
    BY <1>1, <2>1, <2>2 DEF Shape
  <2> QED
    BY <2>1, <2>3, QuietKeeps
<1>3. CASE Fault
  <2>1. /\ UNCHANGED <<mods, tries, last, told, jumped, jumps, pc, worker, closing_game,
                       hit, closing>>
        /\ faulted' = TRUE /\ game' = FALSE
    BY <1>3 DEF Fault
  <2>2. Shape'
    BY <1>1, <2>1 DEF Shape
  <2> QED
    BY <2>1, <2>2, QuietKeeps
<1>4. CASE Restart \/ Activate
  <2>1. /\ UNCHANGED <<mods, tries, last, told, jumped, jumps, worker, closing_game, hit,
                       closing, faulted, game>>
        /\ pc = "off" /\ pc' = "boot"
    BY <1>4 DEF Restart, Activate
  <2>2. Shape'
    BY <1>1, <2>1 DEF Shape
  <2> QED
    BY <2>1, <2>2, QuietKeeps
<1>5. CASE Refuse
  <2>1. /\ UNCHANGED <<mods, tries, last, told, jumped, jumps, worker, closing_game, hit,
                       pc, faulted, game>>
        /\ pc = "prepare"
    BY <1>5 DEF Refuse
  <2>2. Shape'
    BY <1>1, <2>1 DEF Shape
  <2> QED
    BY <2>1, <2>2, QuietKeeps
<1>6. CASE Launch
  <2>1. /\ UNCHANGED <<mods, tries, last, told, jumped, jumps, worker, closing_game, hit,
                       closing, faulted>>
        /\ pc = "prepare" /\ pc' = "starting" /\ game' = TRUE
    BY <1>6 DEF Launch
  <2>2. mods.phase = "Idle"
    BY <1>1, <2>1 DEF Shape
  <2>3. Shape'
    BY <1>1, <2>1, <2>2 DEF Shape
  <2> QED
    BY <2>1, <2>2, <2>3, QuietKeeps
<1>7. CASE Initialized
  <2>1. /\ UNCHANGED <<mods, tries, last, told, jumped, jumps, worker, closing_game, hit,
                       closing, faulted, game>>
        /\ pc = "starting" /\ pc' = "running"
    BY <1>7 DEF Initialized
  <2>2. mods.phase = "Idle"
    BY <1>1, <2>1 DEF Shape
  <2>3. Shape'
    BY <1>1, <2>1, <2>2 DEF Shape
  <2> QED
    BY <2>1, <2>2, <2>3, QuietKeeps
<1>8. CASE Submit
  <2>1. /\ UNCHANGED <<mods, tries, last, told, jumped, jumps, pc, closing_game, hit,
                       closing, faulted, game>>
        /\ pc = "running" /\ worker = "none" /\ worker' \in {"stop", "restart"}
    BY <1>8 DEF Submit, Accepts, Running
  <2>2. Shape'
    BY <1>1, <2>1 DEF Shape
  <2> QED
    BY <2>1, <2>2, QuietKeeps
<1>9. CASE WorkerFails
  <2>1. /\ UNCHANGED <<mods, tries, last, told, jumped, jumps, pc, closing_game, closing,
                       faulted>>
        /\ pc = "running" /\ (worker = "stop_update" \/ hit) /\ hit' = FALSE
        /\ worker' = IF closing_game /\ worker # "schedule" THEN "schedule" ELSE "none"
        /\ game' = game \/ (game' = FALSE /\ worker \in Stopping)
    BY <1>9 DEF WorkerFails, Running, Released
  <2>2. ~faulted /\ closing = "none" => game' \/ worker' = "schedule"
    BY <1>1, <2>1 DEF Shape, Stopping
  <2>3. Shape'
    BY <1>1, <2>1, <2>2 DEF Shape
  <2> QED
    BY <2>1, <2>3, QuietKeeps
<1> QED
  BY <1>2, <1>3, <1>4, <1>5, <1>6, <1>7, <1>8, <1>9

-----------------------------------------------------------------------------
(* Steps of a container without games *)

\* Before the Agent is initialized there is no game, no worker and no notice to keep.
LEMMA BootKeeps ==
    ASSUME MaintenanceInv, Types', Budget',
           UNCHANGED <<worker, hit, game>>,
           worker = "none", ~hit, ~game,
           pc' \in {"off"} \union Boots,
           pc' = "prepare" => mods'.phase = "Idle",
           mods'.phase = "Idle" => mods'.attempts = 0
    PROVE  MaintenanceInv'
<1>1. Shape'
  BY DEF Shape, Boots
<1>2. Sound'
  BY DEF Sound, GamesOverSoundMods
<1>3. Notice'
  BY DEF Notice, Boots
<1> QED
  BY <1>1, <1>2, <1>3 DEF MaintenanceInv

LEMMA EndsKeep ==
    ASSUME MaintenanceInv, End \/ Lose
    PROVE  MaintenanceInv'
<1>1. /\ pc' = "off" /\ worker' = "none" /\ hit' = FALSE /\ game' = FALSE
      /\ jumped' = 0 /\ told' = 0 /\ UNCHANGED <<jumps, last, tries>>
  BY DEF End, Lose, Gone
<1>2. Types /\ Budget /\ Sound
  BY DEF MaintenanceInv
<1>3. /\ mods' \in Entry /\ mods'.attempts = mods.attempts
      /\ mods'.phase = "Idle" => mods' = mods
  <2>1. mods' = mods \/ mods' = FinishModUpdate(mods, FALSE)
    BY Zenon DEF End, Lose
  <2> QED
    BY <1>2, <2>1, FinishFacts DEF Types
<1>4. Types'
  BY <1>1, <1>2, <1>3, LimitsAssumption DEF Types
<1>5. Budget'
  BY <1>1, <1>2, <1>3, BudgetCarried DEF Types
<1>6. Shape'
  BY <1>1 DEF Shape
<1>7. Sound'
  BY <1>1, <1>2, <1>3 DEF Sound, GamesOverSoundMods
<1>8. Notice'
  BY <1>1 DEF Notice
<1> QED
  BY <1>4, <1>5, <1>6, <1>7, <1>8 DEF MaintenanceInv

\* The plan at boot renews a failed request in a later opening, and reserves nothing.
BootPlan(m, n) ==
    /\ n \in Entry
    /\ n.attempts = m.attempts \/ (n.attempts = 0 /\ NewOpening(FALSE))
    /\ n.phase = "Idle" => n.attempts = 0
    /\ n.phase = "Idle" /\ m.phase # "Idle" =>
           \/ ~auto /\ ~m.manual /\ m.attempts = 0
           \/ ~auto /\ m.attempts = MOD_ATTEMPTS
           \/ ~auto /\ m.phase = "Failed"

LEMMA PlanAtBoot ==
    ASSUME NEW m \in Entry, m.phase = "Idle" => m.attempts = 0
    PROVE  BootPlan(m, Plan(ResumeAfterRestart(m), FALSE, FALSE, FALSE, TRUE, FALSE).mods)
<1> DEFINE r == ResumeAfterRestart(m)
           b == Observed(r, NewOpening(FALSE), FALSE)
           s == Decide(b, FALSE, FALSE, TRUE)
<1>1. /\ r \in Entry /\ r.attempts = m.attempts
      /\ r = m \/ (m.phase = "Updating" /\ r.phase \in {"Failed", "Retry"}
                   /\ (r.phase = "Failed" => m.attempts >= MOD_ATTEMPTS))
  BY ResumeFacts
<1>2. r.manual = m.manual
  BY DEF ResumeAfterRestart, FinishModUpdate, Entry
<1>3. NewOpening(FALSE) \in BOOLEAN
  BY DEF NewOpening
<1>4. r.phase = "Idle" => r.attempts = 0
  BY <1>1
<1> HIDE DEF r
<1>5. /\ b \in Entry
      /\ b.attempts = r.attempts \/ (NewOpening(FALSE) /\ r.phase = "Failed" /\ b.attempts = 0)
      /\ b.phase = "Idle" => b.attempts = 0
      /\ b.phase = "Idle" /\ r.phase # "Idle" =>
             ~auto /\ (r.phase = "Failed" \/ (~r.manual /\ r.attempts = 0))
  <2>1. ASSUME NEW new \in BOOLEAN, NEW outdated \in BOOLEAN, NEW o,
               o = Observed(r, new, outdated)
        PROVE  /\ o \in Entry
               /\ o.attempts = r.attempts \/ (new /\ r.phase = "Failed" /\ o.attempts = 0)
               /\ o.phase = "Idle" => o.attempts = 0
               /\ o.phase = "Idle" /\ r.phase # "Idle" =>
                      ~auto /\ (r.phase = "Failed" \/ (~r.manual /\ r.attempts = 0))
    BY <1>1, <1>4, <2>1, ObservedFacts
  <2>2. FALSE \in BOOLEAN
    OBVIOUS
  <2> QED
    BY <1>3, <2>1, <2>2, Zenon
<1> HIDE DEF b
<1>6. Undecided(b, s)
  BY <1>5, DecideWithoutGames, Zenon
<1> HIDE DEF s
<1>7. s.mods \in Entry /\ s.mods.attempts = b.attempts /\ (s.mods.phase = "Idle" => s.mods = b)
  BY <1>6 DEF Undecided, Withdrawn
<1>8. m.attempts >= MOD_ATTEMPTS => m.attempts = MOD_ATTEMPTS
  BY LimitsAssumption DEF Entry, Attempts
<1>9. BootPlan(m, s.mods)
  BY <1>1, <1>2, <1>5, <1>7, <1>8, Zenon DEF BootPlan
<1> QED
  BY <1>9, Zenon DEF Plan, s, b, r

LEMMA InitializeKeeps ==
    ASSUME MaintenanceInv, Initialize
    PROVE  MaintenanceInv'
<1> DEFINE p == Plan(ResumeAfterRestart(mods), FALSE, FALSE, FALSE, TRUE, FALSE).mods
<1>1. /\ pc = "boot" /\ UNCHANGED <<worker, hit, game, tries, told>>
  BY DEF Initialize
<1>2. Types /\ Budget /\ Sound /\ Shape
  BY DEF MaintenanceInv
<1>3. worker = "none" /\ ~hit /\ ~game
  BY <1>1, <1>2 DEF Shape
<1>4. CASE UNCHANGED <<clock, policy, pc>>
  <2>1. UNCHANGED <<mods, tries, last, told, jumped, jumps, worker, hit, game, pc>>
    BY <1>1, <1>4 DEF clock, policy
  <2>2. Shape'
    BY <1>1, <1>3, <2>1 DEF Shape
  <2> QED
    BY <1>3, <2>1, <2>2, QuietKeeps
<1>5. CASE ~UNCHANGED <<clock, policy, pc>>
  <2>1. \E queued \in {p, [p EXCEPT !.phase = "Pending"]} :
            /\ mods' = queued /\ PlanWrites(FALSE)
            /\ pc' \in {pc, "loop"} /\ UNCHANGED <<jumps, auto>>
    BY <1>5, Zenon DEF Initialize
  <2>2. BootPlan(mods, p)
    BY <1>2, PlanAtBoot, Zenon DEF Types, Sound
  <2> HIDE DEF p
  <2>3. PICK queued \in {p, [p EXCEPT !.phase = "Pending"]} :
            /\ mods' = queued /\ PlanWrites(FALSE)
            /\ pc' \in {pc, "loop"} /\ UNCHANGED <<jumps, auto>>
    BY <2>1
  <2>4. p \in Entry
    BY <2>2 DEF BootPlan
  <2>5. /\ mods' \in Entry /\ mods'.attempts = p.attempts
        /\ mods'.phase = "Idle" => p.phase = "Idle"
    BY <2>3, <2>4 DEF Entry, Phases
  <2>6. /\ last' \in Openings /\ jumped' = 0 /\ (NewOpening(FALSE) => last' > last)
        /\ last' = last \/ last' > last
    BY <1>2, <2>3, PlanWritesFacts
  <2>7. mods'.attempts = mods.attempts \/ (mods'.attempts = 0 /\ last' > last)
    BY <2>2, <2>5, <2>6, Zenon DEF BootPlan
  <2>8. Budget'
    BY <1>1, <1>2, <2>5, <2>6, <2>7, BudgetCarried
  <2>9. Types'
    BY <1>1, <1>2, <2>3, <2>5, <2>6 DEF Types
  <2>10. mods'.phase = "Idle" => mods'.attempts = 0
    BY <2>2, <2>5 DEF BootPlan
  <2> QED
    BY <1>1, <1>3, <2>3, <2>8, <2>9, <2>10, BootKeeps DEF Boots
<1> QED
  BY <1>4, <1>5

LEMMA LoopKeeps ==
    ASSUME MaintenanceInv, Loop
    PROVE  MaintenanceInv'
<1> DEFINE s == ModAction(mods, FALSE, FALSE)
<1>1. /\ pc = "loop" /\ UNCHANGED <<jumped, jumps, last, worker, hit, game, told>>
  BY DEF Loop, clock
<1>2. Types /\ Budget /\ Sound /\ Shape
  BY DEF MaintenanceInv
<1>3. worker = "none" /\ ~hit /\ ~game
  BY <1>1, <1>2 DEF Shape
<1>4. WithoutGames(mods, s)
  BY <1>2, ActionWithoutGames DEF Types
<1>5. \/ UNCHANGED <<mods, tries>> /\ pc' \in {"loop", "prepare"}
         /\ (pc' = "prepare" => mods.phase = "Idle")
      \/ mods' = s.mods /\ s.action = "update" /\ pc' = "download" /\ Begun
      \/ mods' = s.mods /\ s.action # "update" /\ pc' = "loop" /\ UNCHANGED tries
  BY <1>1, Zenon DEF Loop, LoopDone, LoopCloses
<1> HIDE DEF s
<1>6. \/ UNCHANGED <<mods, tries>> /\ pc' \in {"loop", "prepare"}
         /\ (pc' = "prepare" => mods.phase = "Idle")
      \/ /\ pc' = "download" /\ tries' = [tries EXCEPT ![last] = @ + 1]
         /\ mods' \in Entry /\ mods'.phase = "Updating"
         /\ mods.attempts < MOD_ATTEMPTS /\ mods'.attempts = mods.attempts + 1
  BY <1>4, <1>5 DEF WithoutGames, Begun
<1>7. CASE UNCHANGED <<mods, tries>> /\ pc' \in {"loop", "prepare"}
           /\ (pc' = "prepare" => mods.phase = "Idle")
  <2>1. Types' /\ Budget'
    BY <1>1, <1>2, <1>7 DEF Types, Budget
  <2>2. mods'.phase = "Idle" => mods'.attempts = 0
    BY <1>2, <1>7 DEF Sound
  <2> QED
    BY <1>1, <1>3, <1>7, <2>1, <2>2, BootKeeps DEF Boots
<1>8. CASE /\ pc' = "download" /\ tries' = [tries EXCEPT ![last] = @ + 1]
           /\ mods' \in Entry /\ mods'.phase = "Updating"
           /\ mods.attempts < MOD_ATTEMPTS /\ mods'.attempts = mods.attempts + 1
  <2>1. Budget' /\ tries' \in [Openings -> Nat]
    BY <1>1, <1>2, <1>8, BudgetSpent
  <2>2. Types'
    BY <1>1, <1>2, <1>8, <2>1 DEF Types
  <2> QED
    BY <1>1, <1>3, <1>8, <2>1, <2>2, BootKeeps DEF Boots
<1> QED
  BY <1>6, <1>7, <1>8

LEMMA DownloadKeeps ==
    ASSUME MaintenanceInv, Download
    PROVE  MaintenanceInv'
<1>1. /\ pc = "download" /\ pc' = "loop"
      /\ UNCHANGED <<jumped, jumps, last, worker, hit, game, told>>
  BY DEF Download, clock
<1>2. Types /\ Budget /\ Sound /\ Shape
  BY DEF MaintenanceInv
<1>3. worker = "none" /\ ~hit /\ ~game
  BY <1>1, <1>2 DEF Shape
<1>4. \/ mods' = FinishModUpdate(mods, TRUE) /\ tries' = [o \in Openings |-> 0]
      \/ mods' = FinishModUpdate(mods, FALSE) /\ tries' = tries
  BY Zenon DEF Download
<1>5. \/ /\ mods' \in Entry /\ mods'.attempts = 0 /\ tries' = [o \in Openings |-> 0]
      \/ /\ mods' \in Entry /\ mods'.phase # "Idle" /\ mods'.attempts = mods.attempts
         /\ tries' = tries
  BY <1>2, <1>4, FinishFacts DEF Types
<1>6. Budget' /\ tries' \in [Openings -> Nat] /\ mods' \in Entry
  BY <1>1, <1>2, <1>5, BudgetCarried, BudgetCleared DEF Types
<1>7. Types'
  BY <1>1, <1>2, <1>6 DEF Types
<1>8. mods'.phase = "Idle" => mods'.attempts = 0
  BY <1>5
<1> QED
  BY <1>1, <1>3, <1>6, <1>7, <1>8, BootKeeps DEF Boots

-----------------------------------------------------------------------------
(* Steps of an initialized Agent *)

\* The plan corrects a jump that the two clocks show, and overlooks one of Tolerance.
LEMMA ClockCorrected ==
    ASSUME MaintenanceInv, pc = "running"
    PROVE  LET m == AfterClockChange(mods) IN
           /\ m \in Entry /\ m.phase = mods.phase /\ m.attempts = mods.attempts
           /\ m.manual = mods.manual
           /\ m.phase = "Announcing" =>
                 told = MOD_NOTICE_DELAY \/ m.due + told >= MOD_NOTICE_DELAY - jumps
<1> DEFINE m == AfterClockChange(mods)
<1>1. /\ mods \in Entry /\ jumped \in Int /\ jumps \in Nat /\ told \in Int
      /\ MOD_NOTICE_DELAY \in Int
  BY LimitsAssumption DEF MaintenanceInv, Types
<1>2. mods.phase = "Announcing" =>
          \/ told = MOD_NOTICE_DELAY
          \/ mods.due + told + jumped >=
                 MOD_NOTICE_DELAY - (jumps - IF jumped = 0 THEN 0 ELSE 1)
  BY DEF MaintenanceInv, Notice, Uncorrected
<1>3. mods.due \in Int
  BY <1>1 DEF Entry, Time
<1>4. CASE ClockChanged
  <2>1. m = Shift(mods, jumped)
    BY <1>4 DEF AfterClockChange
  <2>2. /\ m \in Entry /\ m.phase = mods.phase /\ m.attempts = mods.attempts
        /\ m.manual = mods.manual
        /\ m.due >= mods.due + jumped \/ mods.phase # "Announcing"
    BY <1>1, <2>1, ShiftFacts
  <2>3. m.due \in Int
    BY <2>2 DEF Entry, Time
  <2> HIDE DEF m
  <2>4. m.phase = "Announcing" =>
            told = MOD_NOTICE_DELAY \/ m.due + told >= MOD_NOTICE_DELAY - jumps
    BY <1>1, <1>2, <1>3, <2>2, <2>3
  <2> QED
    BY <2>2, <2>4 DEF m
<1>5. CASE ~ClockChanged
  <2>1. m = mods
    BY <1>5 DEF AfterClockChange
  <2>2. jumped >= -1 /\ jumped <= 1
    BY <1>1, <1>5 DEF ClockChanged, Tolerance
  <2>3. mods.phase = "Announcing" =>
            told = MOD_NOTICE_DELAY \/ mods.due + told >= MOD_NOTICE_DELAY - jumps
    BY <1>1, <1>2, <1>3, <2>2
  <2> QED
    BY <1>1, <2>1, <2>3
<1> QED
  BY <1>4, <1>5

\* What a tick makes of the corrected entry m: n is the next one.
TickPlan(m, n, action, busy) ==
    /\ n \in Entry
    /\ n.attempts = m.attempts \/ (n.attempts = 0 /\ m.phase = "Failed")
    /\ n.phase = "Idle" => n.attempts = 0
    /\ action # "update"
    /\ \/ action = "none"
       \/ game /\ action = "schedule"
       \/ game /\ ~busy /\ action = "announce"
       \/ /\ game /\ ~busy /\ action = "stop_update" /\ n.phase = "Stopping"
       \/ game /\ ~busy /\ action = "stop_again" /\ n.phase = "Stopping"
    /\ n.phase = "Stopping" =>
           m.phase = "Stopping" \/ (m.phase = "Announcing" /\ m.due <= 0)
    /\ n.phase = "Announcing" =>
           \/ m.phase = "Announcing" /\ n.due = m.due
           \/ m.phase # "Announcing" /\ n.due = MOD_NOTICE_DELAY /\ ~busy
    /\ game => n.phase \in SoundPhases /\ n.attempts = 0
    /\ n.phase = "Idle" /\ m.phase # "Idle" =>
           ~auto /\ (m.phase = "Failed" \/ (~m.manual /\ m.attempts = 0))

LEMMA PlanOfTick ==
    ASSUME NEW m \in Entry, NEW changed, NEW ready, NEW busy, NEW outdated \in BOOLEAN,
           m.phase = "Idle" => m.attempts = 0,
           game => m.phase \in SoundPhases /\ m.attempts = 0,
           ~game => busy /\ ~ready,
           NEW s, s = Plan(m, changed, game, ready, busy, outdated)
    PROVE  /\ TickPlan(m, s.mods, s.action, busy)
           /\ s.mods.attempts = m.attempts \/ (s.mods.attempts = 0 /\ NewOpening(changed))
<1> DEFINE b == Observed(m, NewOpening(changed), outdated)
<1>1. NewOpening(changed) \in BOOLEAN
  BY Zenon DEF NewOpening
<1>2. /\ b \in Entry
      /\ b.attempts = m.attempts \/ (NewOpening(changed) /\ m.phase = "Failed" /\ b.attempts = 0)
      /\ b.phase \in {m.phase, "Pending", "Idle"}
      /\ b.phase = "Pending" => m.phase \in {"Idle", "Failed", "Pending"}
      /\ b.phase = m.phase /\ m.phase \notin {"Idle", "Pending"} => b.due = m.due
      /\ b.phase = "Idle" => b.attempts = 0
      /\ b.phase = "Idle" /\ m.phase # "Idle" =>
             ~auto /\ (m.phase = "Failed" \/ (~m.manual /\ m.attempts = 0))
  <2>1. ASSUME NEW new \in BOOLEAN, NEW o, o = Observed(m, new, outdated)
        PROVE  /\ o \in Entry
               /\ o.attempts = m.attempts \/ (new /\ m.phase = "Failed" /\ o.attempts = 0)
               /\ o.phase \in {m.phase, "Pending", "Idle"}
               /\ o.phase = "Pending" => m.phase \in {"Idle", "Failed", "Pending"}
               /\ o.phase = m.phase /\ m.phase \notin {"Idle", "Pending"} => o.due = m.due
               /\ o.phase = "Idle" => o.attempts = 0
               /\ o.phase = "Idle" /\ m.phase # "Idle" =>
                      ~auto /\ (m.phase = "Failed" \/ (~m.manual /\ m.attempts = 0))
    BY <2>1, ObservedFacts
  <2> QED
    BY <1>1, <2>1, Zenon
<1>3. s = Decide(b, game, ready, busy)
  BY Zenon DEF Plan
<1> HIDE DEF b
<1>4. CASE ~game
  <2>1. Undecided(b, s)
    BY <1>2, <1>3, <1>4, DecideWithoutGames, Zenon
  <2>2. /\ s.mods \in Entry /\ s.mods.attempts = b.attempts /\ s.action = "none"
        /\ s.mods = b \/ (b.phase \in {"Announcing", "Stopping"} /\ s.mods.phase = "Pending")
    BY <2>1 DEF Undecided, Withdrawn
  <2> QED
    BY <1>2, <1>4, <2>2 DEF TickPlan
<1>5. CASE game
  <2>1. b.phase \in SoundPhases /\ b.attempts = 0 /\ m.attempts = 0 /\ m.phase \in SoundPhases
    BY <1>2, <1>5 DEF SoundPhases
  <2>2. Decided(b, s, busy)
    BY <1>2, <1>3, <1>5, <2>1, DecideBesideGames, Zenon DEF SoundPhases
  <2>3. CASE /\ s.mods \in Entry /\ s.mods.attempts = b.attempts /\ Withdrawn(b, s.mods)
             /\ \/ s.action \in {"none", "schedule"}
                \/ s.action = "announce" /\ ~busy
    BY <1>2, <1>5, <2>1, <2>3 DEF TickPlan, Withdrawn, SoundPhases
  <2>4. CASE BesideGames(b, s) /\ ~busy
    <3>1. /\ s.mods \in Entry /\ s.mods.attempts = b.attempts
          /\ \/ s.mods.phase = b.phase /\ s.mods.due = b.due /\ s.action \in {"none", "announce"}
             \/ /\ b.phase = "Announcing" /\ b.due <= 0
                /\ s.mods.phase = "Stopping" /\ s.action = "stop_update"
             \/ s.mods = b /\ b.phase = "Stopping" /\ s.action = "stop_again"
             \/ /\ b.phase \in {"Pending", "Retry"} /\ s.action = "announce"
                /\ s.mods.phase = "Announcing" /\ s.mods.due = MOD_NOTICE_DELAY
      BY <2>4 DEF BesideGames
    <3> QED
      BY <1>2, <1>5, <2>1, <2>4, <3>1 DEF TickPlan, SoundPhases
  <2> QED
    BY <2>2, <2>3, <2>4 DEF Decided
<1> QED
  BY <1>4, <1>5

\* A tick, in terms of its plan.
LEMMA TickFacts ==
    ASSUME MaintenanceInv, Tick
    PROVE  \E busy, s :
              /\ worker # "none" => busy
              /\ TickPlan(AfterClockChange(mods), s.mods, s.action, busy)
              /\ \/ s.mods.attempts = mods.attempts
                 \/ s.mods.attempts = 0 /\ last' > last
              /\ mods' = s.mods
              /\ last' \in Openings /\ jumped' = 0 /\ (last' = last \/ last' > last)
              /\ told' = IF s.mods.phase = "Announcing" /\ mods.phase # "Announcing"
                         THEN 0 ELSE told
              /\ tries' = tries
              /\ Dispatch(s.action)
<1>1. /\ pc = "running" /\ closing = "none" /\ ~faulted
  BY DEF Tick, Running, Alive
<1>2. Types /\ Shape /\ Sound
  BY DEF MaintenanceInv
<1> DEFINE m == AfterClockChange(mods)
<1>3. PICK busy \in BOOLEAN, ready \in BOOLEAN, outdated \in BOOLEAN :
          /\ worker # "none" => busy
          /\ ready => game
          /\ LET plan == Plan(m, ClockChanged, game, ready, busy, outdated)
             IN /\ mods' = plan.mods
                /\ PlanWrites(ClockChanged)
                /\ told' = IF plan.mods.phase = "Announcing" /\ mods.phase # "Announcing"
                           THEN 0 ELSE told
                /\ tries' = IF plan.action = "update"
                            THEN [tries EXCEPT ![last'] = @ + 1] ELSE tries
                /\ Dispatch(plan.action)
  BY DEF Tick
<1> DEFINE s == Plan(m, ClockChanged, game, ready, busy, outdated)
<1>4. m \in Entry /\ m.phase = mods.phase /\ m.attempts = mods.attempts
  BY <1>1, ClockCorrected
<1>5. game \/ worker = "schedule"
  BY <1>1, <1>2 DEF Shape
<1>6. m.phase = "Idle" => m.attempts = 0
  BY <1>2, <1>4 DEF Sound
<1>7. game => m.phase \in SoundPhases /\ m.attempts = 0
  BY <1>2, <1>4 DEF Sound, GamesOverSoundMods, SoundPhases
<1>8. ~game => busy /\ ~ready
  BY <1>3, <1>5
<1> HIDE DEF m
<1>9. /\ TickPlan(m, s.mods, s.action, busy)
      /\ s.mods.attempts = m.attempts \/ (s.mods.attempts = 0 /\ NewOpening(ClockChanged))
  <2>1. ASSUME NEW changed, NEW p, p = Plan(m, changed, game, ready, busy, outdated)
        PROVE  /\ TickPlan(m, p.mods, p.action, busy)
               /\ p.mods.attempts = m.attempts \/ (p.mods.attempts = 0 /\ NewOpening(changed))
    BY <1>4, <1>6, <1>7, <1>8, <2>1, PlanOfTick
  <2> QED
    BY <2>1, Zenon
<1>10. /\ last' \in Openings /\ jumped' = 0 /\ (last' = last \/ last' > last)
       /\ NewOpening(ClockChanged) => last' > last
  <2>1. ASSUME NEW changed, PlanWrites(changed)
        PROVE  /\ last' \in Openings /\ jumped' = 0 /\ (last' = last \/ last' > last)
               /\ NewOpening(changed) => last' > last
    BY <1>2, <2>1, PlanWritesFacts
  <2> QED
    BY <1>3, <2>1, Zenon
<1>11. s.action # "update"
  BY <1>9 DEF TickPlan
<1>12. /\ worker # "none" => busy
       /\ mods' = s.mods
       /\ told' = IF s.mods.phase = "Announcing" /\ mods.phase # "Announcing"
                  THEN 0 ELSE told
       /\ tries' = tries
       /\ Dispatch(s.action)
  BY <1>3, <1>11, Zenon
<1>13. \/ s.mods.attempts = mods.attempts
       \/ s.mods.attempts = 0 /\ last' > last
  BY <1>4, <1>9, <1>10, Zenon
<1> HIDE DEF s
<1> WITNESS busy, s
<1> QED
  BY <1>9, <1>10, <1>12, <1>13, Zenon DEF m

LEMMA TickKeeps ==
    ASSUME MaintenanceInv, Tick
    PROVE  MaintenanceInv'
<1> DEFINE m == AfterClockChange(mods)
<1>1. /\ pc = "running" /\ closing = "none" /\ ~faulted
      /\ UNCHANGED <<jumps, pc, closing, faulted, game>>
  BY DEF Tick, Running, Alive
<1>2. Types /\ Shape /\ Sound /\ Budget /\ Notice
  BY DEF MaintenanceInv
<1>3. /\ m \in Entry /\ m.phase = mods.phase /\ m.attempts = mods.attempts
      /\ m.phase = "Announcing" =>
            told = MOD_NOTICE_DELAY \/ m.due + told >= MOD_NOTICE_DELAY - jumps
  BY <1>1, ClockCorrected
<1> HIDE DEF m
<1>4. PICK busy, s :
          /\ worker # "none" => busy
          /\ TickPlan(m, s.mods, s.action, busy)
          /\ s.mods.attempts = mods.attempts \/ (s.mods.attempts = 0 /\ last' > last)
          /\ mods' = s.mods
          /\ last' \in Openings /\ jumped' = 0 /\ (last' = last \/ last' > last)
          /\ told' = IF s.mods.phase = "Announcing" /\ mods.phase # "Announcing"
                     THEN 0 ELSE told
          /\ tries' = tries
          /\ Dispatch(s.action)
  BY TickFacts, Zenon DEF m
<1> DEFINE action == s.action
<1>5. TickPlan(m, mods', action, busy) /\ Dispatch(action)
  BY <1>4
<1> HIDE DEF action
<1>6. /\ mods' \in Entry
      /\ mods'.phase = "Idle" => mods'.attempts = 0
      /\ \/ action = "none"
         \/ game /\ action = "schedule"
         \/ game /\ ~busy /\ action = "announce"
         \/ game /\ ~busy /\ action = "stop_update" /\ mods'.phase = "Stopping"
         \/ game /\ ~busy /\ action = "stop_again" /\ mods'.phase = "Stopping"
      /\ game => mods'.phase \in SoundPhases /\ mods'.attempts = 0
  BY <1>5 DEF TickPlan
<1>7. Types'
  <2>1. 0 \in 0 .. MOD_NOTICE_DELAY
    BY LimitsAssumption
  <2> QED
    BY <1>1, <1>2, <1>4, <1>6, <2>1 DEF Types
<1>8. Budget'
  BY <1>2, <1>4, <1>6, BudgetCarried
<1>9. Sound'
  BY <1>1, <1>6 DEF Sound, GamesOverSoundMods, SoundPhases
<1>10. /\ worker' = worker \/ (worker = "none" /\ worker' = action)
       /\ worker' # worker => game
       /\ worker' \in {"none", "start", "update"} => worker' = worker
       /\ hit' => closing_game' /\ worker' \notin {"none", "schedule"}
       /\ worker' = "schedule" => closing_game'
  BY <1>2, <1>4, <1>5, <1>6 DEF Dispatch, Shape
<1>11. Shape'
  BY <1>1, <1>2, <1>10 DEF Shape
<1>12. mods'.phase = "Stopping" => told' = told /\ told >= MOD_NOTICE_DELAY - jumps
  <2>1. mods'.phase = "Stopping" =>
            m.phase = "Stopping" \/ (m.phase = "Announcing" /\ m.due <= 0)
    BY <1>5 DEF TickPlan
  <2>2. mods'.phase = "Stopping" => told' = told
    BY <1>4
  <2>3. told \in Int /\ MOD_NOTICE_DELAY \in Int /\ jumps \in Nat /\ m.due \in Int
    BY <1>2, <1>3, LimitsAssumption DEF Types, Entry, Time
  <2>4. m.phase = "Stopping" => told >= MOD_NOTICE_DELAY - jumps
    BY <1>1, <1>2, <1>3 DEF Notice
  <2>5. m.phase = "Announcing" /\ m.due <= 0 => told >= MOD_NOTICE_DELAY - jumps
    BY <1>3, <2>3
  <2> QED
    BY <2>1, <2>2, <2>4, <2>5
<1>13. mods'.phase = "Announcing" =>
           told' = MOD_NOTICE_DELAY \/ mods'.due + told' >= MOD_NOTICE_DELAY - jumps
  <2>1. mods'.phase = "Announcing" =>
            \/ m.phase = "Announcing" /\ mods'.due = m.due
            \/ m.phase # "Announcing" /\ mods'.due = MOD_NOTICE_DELAY
    BY <1>5 DEF TickPlan
  <2>2. MOD_NOTICE_DELAY \in Int /\ jumps \in Nat
    BY <1>2, LimitsAssumption DEF Types
  <2>3. CASE m.phase = "Announcing"
    BY <1>3, <1>4, <2>1, <2>3
  <2>4. CASE m.phase # "Announcing"
    <3>1. mods'.phase = "Announcing" => told' = 0 /\ mods'.due = MOD_NOTICE_DELAY
      BY <1>3, <1>4, <2>1, <2>4
    <3>2. MOD_NOTICE_DELAY + 0 >= MOD_NOTICE_DELAY - jumps
      BY <2>2
    <3> QED
      BY <3>1, <3>2
  <2> QED
    BY <2>3, <2>4
<1>14. worker' \in {"stop_update", "stop_again"} => told' >= MOD_NOTICE_DELAY - jumps
  <2>1. CASE worker' = worker /\ worker \in {"stop_update", "stop_again"}
    <3>1. busy
      BY <1>4, <2>1
    <3>2. ~(mods'.phase = "Announcing" /\ mods.phase # "Announcing")
      BY <1>3, <1>5, <3>1 DEF TickPlan
    <3>3. told' = told
      BY <1>4, <3>2
    <3> QED
      BY <1>2, <2>1, <3>3 DEF Notice
  <2>2. CASE worker' # worker /\ worker' \in {"stop_update", "stop_again"}
    <3>1. mods'.phase = "Stopping"
      BY <1>6, <1>10, <2>2
    <3> QED
      BY <1>12, <3>1
  <2> QED
    BY <2>1, <2>2
<1>15. Notice'
  <2>1. jumps - 0 = jumps /\ jumps' = jumps /\ jumped' = 0
    BY <1>1, <1>2, <1>4 DEF Types
  <2>2. mods'.phase = "Announcing" =>
           told' = MOD_NOTICE_DELAY \/ mods'.due + told' + 0 >= MOD_NOTICE_DELAY - jumps
    <3>1. mods'.due \in Int /\ told' \in Int
      BY <1>6, <1>7 DEF Entry, Time, Types
    <3> QED
      BY <1>13, <3>1
  <2> QED
    BY <1>1, <1>12, <1>14, <2>1, <2>2 DEF Notice, Uncorrected
<1> QED
  BY <1>7, <1>8, <1>9, <1>11, <1>15 DEF MaintenanceInv

LEMMA WorkerEndsKeeps ==
    ASSUME MaintenanceInv, WorkerEnds
    PROVE  MaintenanceInv'
<1>1. Shape
  BY DEF MaintenanceInv
<1>2. /\ pc = "running" /\ closing = "none" /\ ~faulted /\ worker # "none"
      /\ UNCHANGED <<tries, last, told, jumped, jumps, pc, faulted>>
      /\ worker' = IF closing_game /\ worker # "schedule" THEN "schedule" ELSE "none"
      /\ hit' = FALSE
      /\ closing_game' = (closing_game /\ worker # "schedule")
      /\ game' = (game /\ worker \notin Stopping)
  BY DEF WorkerEnds, Running, Alive, Released, clock, history
<1>3. worker # "update"
  BY <1>1 DEF Shape
<1>4. mods' = mods
  BY <1>3, Zenon DEF WorkerEnds
<1>5. worker # "announce" => closing' # "none"
  BY <1>2, <1>3 DEF WorkerEnds, Leaves, RequestExit, ExitOf
<1>6. closing' = "none" => game' = game /\ worker # "schedule"
  BY <1>1, <1>2, <1>5 DEF Shape, Stopping
<1>7. Shape'
  BY <1>1, <1>2, <1>6 DEF Shape
<1> QED
  BY <1>2, <1>4, <1>7, QuietKeeps

LEMMA UpdateModsKeeps ==
    ASSUME MaintenanceInv, UpdateMods
    PROVE  MaintenanceInv'
<1>1. Types /\ Shape
  BY DEF MaintenanceInv
<1>2. /\ UNCHANGED <<last, told, jumped, jumps, pc, closing_game, hit, closing, faulted, game>>
      /\ tries' = [o \in Openings |-> 0]
      /\ worker' \in {worker, "manual"} /\ (pc = "off" => worker' = worker)
      /\ pc \in {"off", "running"} /\ (pc = "running" => worker = "none")
  BY DEF UpdateMods, Accepts, Inactive, Running, clock
<1>3. mods' \in Entry /\ mods'.phase = "Pending" /\ mods'.attempts = 0
  BY <1>1, RequestFacts, Zenon DEF UpdateMods, Types
<1>4. Budget' /\ tries' \in [Openings -> Nat]
  BY <1>1, <1>2, <1>3, BudgetCleared DEF Types
<1>5. Types'
  BY <1>1, <1>2, <1>3, <1>4 DEF Types
<1>6. Shape'
  BY <1>1, <1>2 DEF Shape
<1>7. Sound'
  BY <1>3 DEF Sound, GamesOverSoundMods
<1>8. worker' \notin {"stop_update", "stop_again"}
  BY <1>1, <1>2 DEF Shape
<1>9. Notice'
  BY <1>3, <1>8 DEF Notice
<1> QED
  BY <1>4, <1>5, <1>6, <1>7, <1>9 DEF MaintenanceInv

LEMMA LaterIsEnough ==
    ASSUME NEW t \in Int, NEW u \in Int, NEW j \in Int, NEW k \in Int, NEW n \in Int,
           u >= t, k >= j
    PROVE  t >= n - j => u >= n - k
OBVIOUS

\* The wall clock moves by d, and jumped by what it did not pass.
LEMMA TimeKeeps ==
    ASSUME MaintenanceInv, NEW d \in Int, mods' = Shift(mods, d), Types',
           UNCHANGED <<last, tries, pc, worker, closing_game, hit, closing, faulted, game>>,
           told' >= told, jumps' >= jumps,
           pc = "running" /\ mods.phase = "Announcing" =>
               \/ told' = MOD_NOTICE_DELAY
               \/ mods'.due + told' + jumped' >= MOD_NOTICE_DELAY - (jumps' - Uncorrected')
    PROVE  MaintenanceInv'
<1>1. Types /\ Shape /\ Sound /\ Budget /\ Notice
  BY DEF MaintenanceInv
<1>2. mods' \in Entry /\ mods'.phase = mods.phase /\ mods'.attempts = mods.attempts
  BY <1>1, ShiftFacts DEF Types
<1>3. Budget'
  BY <1>1, <1>2, BudgetCarried DEF Types
<1>4. Shape'
  BY <1>1, <1>2 DEF Shape
<1>5. Sound'
  BY <1>1, <1>2 DEF Sound, GamesOverSoundMods
<1>6. told >= MOD_NOTICE_DELAY - jumps => told' >= MOD_NOTICE_DELAY - jumps'
  <2>1. /\ told \in Int /\ told' \in Int /\ jumps \in Int /\ jumps' \in Int
        /\ MOD_NOTICE_DELAY \in Int
    BY <1>1, LimitsAssumption DEF Types
  <2> QED
    BY <2>1, LaterIsEnough
<1>7. Notice'
  BY <1>1, <1>2, <1>6 DEF Notice
<1> QED
  BY <1>3, <1>4, <1>5, <1>7 DEF MaintenanceInv

\* The countdown in whole numbers, as Notice states it.
LEMMA Countdown ==
    ASSUME MaintenanceInv, pc = "running", mods.phase = "Announcing", told # MOD_NOTICE_DELAY
    PROVE  /\ mods.due \in Int /\ told \in Int /\ jumped \in Int /\ jumps \in Int
           /\ MOD_NOTICE_DELAY \in Int
           /\ mods.due + told + jumped >=
                  MOD_NOTICE_DELAY - (jumps - IF jumped = 0 THEN 0 ELSE 1)
<1>1. mods \in Entry /\ told \in Int /\ jumped \in Int /\ jumps \in Int /\ MOD_NOTICE_DELAY \in Int
  BY LimitsAssumption DEF MaintenanceInv, Types
<1>2. mods.due \in Int
  BY <1>1 DEF Entry, Time
<1> QED
  BY <1>1, <1>2 DEF MaintenanceInv, Notice, Uncorrected

LEMMA AdvanceKeeps ==
    ASSUME MaintenanceInv, Advance
    PROVE  MaintenanceInv'
<1>1. /\ mods' = Shift(mods, -1)
      /\ UNCHANGED <<last, tries, pc, worker, closing_game, hit, closing, faulted, game,
                     jumped, jumps>>
      /\ told' = IF mods.phase = "Announcing" /\ told < MOD_NOTICE_DELAY
                 THEN told + 1 ELSE told
  BY DEF Advance, Elapse, agent
<1>2. Types
  BY DEF MaintenanceInv
<1>3. /\ told' \in 0 .. MOD_NOTICE_DELAY /\ told' >= told
      /\ mods.phase = "Announcing" => told' = MOD_NOTICE_DELAY \/ told' = told + 1
      /\ jumps' >= jumps
  BY <1>1, <1>2, LimitsAssumption DEF Types
<1>4. /\ mods' \in Entry /\ (mods'.due >= mods.due + -1 \/ mods.phase # "Announcing")
  <2>1. mods \in Entry /\ -1 \in Int
    BY <1>2 DEF Types
  <2>2. ASSUME NEW d \in Int, d = -1
        PROVE  Shift(mods, d).due >= mods.due + -1 \/ mods.phase # "Announcing"
    BY <2>1, <2>2, ShiftFacts
  <2>3. Shift(mods, -1) \in Entry
    BY <2>1, ShiftFacts
  <2> QED
    BY <1>1, <2>1, <2>2, <2>3
<1>5. Types'
  BY <1>1, <1>2, <1>3, <1>4 DEF Types
<1>6. ASSUME pc = "running", mods.phase = "Announcing", told' # MOD_NOTICE_DELAY
      PROVE  mods'.due + told' + jumped' >= MOD_NOTICE_DELAY - (jumps' - Uncorrected')
  <2>1. told' = told + 1 /\ told # MOD_NOTICE_DELAY
    BY <1>1, <1>2, <1>3, <1>6, LimitsAssumption DEF Types
  <2>2. mods'.due \in Int /\ mods'.due >= mods.due - 1
    <3>1. mods'.due \in Int /\ mods.due \in Int
      BY <1>2, <1>4 DEF Entry, Time, Types
    <3> QED
      BY <1>4, <1>6, <3>1
  <2>3. Uncorrected' = IF jumped = 0 THEN 0 ELSE 1
    BY <1>1 DEF Uncorrected
  <2> DEFINE due == mods.due
             next == mods'.due
  <2>4. /\ due \in Int /\ told \in Int /\ jumped \in Int /\ jumps \in Int
        /\ MOD_NOTICE_DELAY \in Int /\ next \in Int /\ next >= due - 1
        /\ due + told + jumped >= MOD_NOTICE_DELAY - (jumps - IF jumped = 0 THEN 0 ELSE 1)
    BY <1>6, <2>1, <2>2, Countdown
  <2> HIDE DEF due, next
  <2>5. next + (told + 1) + jumped >= MOD_NOTICE_DELAY - (jumps - IF jumped = 0 THEN 0 ELSE 1)
    BY <2>4
  <2> QED
    BY <1>1, <2>1, <2>3, <2>5 DEF next
<1> QED
  BY <1>1, <1>3, <1>5, <1>6, TimeKeeps

LEMMA JumpKeeps ==
    ASSUME MaintenanceInv, Jump
    PROVE  MaintenanceInv'
<1>1. PICK d \in Jumps : /\ jumped' = IF Baseline THEN jumped + d ELSE 0
                         /\ mods' = Elapse(mods, d)
  BY DEF Jump
<1>2. d \in Int
  BY BoundsAssumption
<1>3. /\ mods' = Shift(mods, -d) /\ -d \in Int
      /\ UNCHANGED <<last, tries, told, pc, worker, closing_game, hit, closing, faulted, game>>
      /\ jumps' = jumps + 1
  BY <1>1, <1>2 DEF Jump, Elapse, agent, history
<1>4. Types
  BY DEF MaintenanceInv
<1>5. jumped' \in Int /\ jumps' \in Nat /\ jumps' >= jumps /\ told' >= told
  BY <1>1, <1>2, <1>3, <1>4 DEF Types
<1>6. /\ mods' \in Entry /\ (mods'.due >= mods.due + -d \/ mods.phase # "Announcing")
  BY <1>3, <1>4, ShiftFacts DEF Types
<1>7. Types'
  BY <1>3, <1>4, <1>5, <1>6 DEF Types
<1>8. ASSUME pc = "running", mods.phase = "Announcing", told' # MOD_NOTICE_DELAY
      PROVE  mods'.due + told' + jumped' >= MOD_NOTICE_DELAY - (jumps' - Uncorrected')
  <2>1. jumped' = jumped + d
    BY <1>1, <1>8 DEF Baseline
  <2>2. mods'.due \in Int
    BY <1>6 DEF Entry, Time
  <2>3. Uncorrected' \in Int /\ Uncorrected' <= 1
    BY DEF Uncorrected
  <2> DEFINE due == mods.due
             next == mods'.due
             u == Uncorrected'
  <2>4. /\ due \in Int /\ told \in Int /\ jumped \in Int /\ jumps \in Int
        /\ MOD_NOTICE_DELAY \in Int /\ next \in Int /\ next >= due + -d
        /\ u \in Int /\ u <= 1
        /\ due + told + jumped >= MOD_NOTICE_DELAY - (jumps - IF jumped = 0 THEN 0 ELSE 1)
    BY <1>3, <1>6, <1>8, <2>2, <2>3, Countdown
  <2> HIDE DEF due, next, u
  <2>5. next + told + (jumped + d) >= MOD_NOTICE_DELAY - ((jumps + 1) - u)
    BY <1>2, <2>4
  <2> QED
    BY <1>3, <2>1, <2>5 DEF next, u
<1> QED
  BY <1>3, <1>5, <1>7, <1>8, TimeKeeps

-----------------------------------------------------------------------------
(* Theorems *)

LEMMA MaintenanceInit == Init => MaintenanceInv
<1> SUFFICES ASSUME Init PROVE MaintenanceInv
  OBVIOUS
<1>1. /\ mods = Default /\ tries = [o \in Openings |-> 0] /\ last = 0 /\ told = 0
      /\ jumped = 0 /\ jumps = 0 /\ pc = "off" /\ game = FALSE /\ worker = "none"
      /\ hit = FALSE
  BY DEF Init
<1>2. mods \in Entry /\ mods.phase = "Idle" /\ mods.attempts = 0
  BY <1>1, DefaultIsEntry
<1>3. Types
  BY <1>1, <1>2, OpeningsFacts, LimitsAssumption DEF Types
<1>4. Shape
  BY <1>1 DEF Shape
<1>5. Sound
  BY <1>1, <1>2 DEF Sound, GamesOverSoundMods
<1>6. Budget
  BY <1>1, <1>2, OpeningsFacts, LimitsAssumption DEF Budget
<1>7. Notice
  BY <1>1 DEF Notice
<1> QED
  BY <1>3, <1>4, <1>5, <1>6, <1>7 DEF MaintenanceInv

LEMMA MaintenanceKept == MaintenanceInv /\ [Next]_vars => MaintenanceInv'
<1> SUFFICES ASSUME MaintenanceInv, [Next]_vars PROVE MaintenanceInv'
  OBVIOUS
<1>1. CASE BootStep
  BY <1>1, InitializeKeeps, LoopKeeps, DownloadKeeps, QuietStepsKeep DEF BootStep
<1>2. CASE TickStep
  BY <1>2, TickKeeps, WorkerEndsKeeps, QuietStepsKeep DEF TickStep
<1>3. CASE ClientStep
  BY <1>3, UpdateModsKeeps, QuietStepsKeep DEF ClientStep
<1>4. CASE UnitStep
  BY <1>4, EndsKeep, QuietStepsKeep DEF UnitStep
<1>5. CASE Disturbance
  BY <1>5, EndsKeep, JumpKeeps, QuietStepsKeep DEF Disturbance
<1>6. CASE Advance \/ UNCHANGED vars
  BY <1>6, AdvanceKeeps, QuietStepsKeep
<1> QED
  BY <1>1, <1>2, <1>3, <1>4, <1>5, <1>6 DEF Next

LEMMA MaintenanceInductive == Spec => []MaintenanceInv
<1> QED
  BY MaintenanceInit, MaintenanceKept, PTL DEF Spec

\* However containers end, downloads fail and clocks jump, an opening brings at most
\* MOD_ATTEMPTS downloads until one succeeds or the operator asks again: Agent::initialize
\* reserves each attempt in the durable entry, and only a later opening renews it.
THEOREM DownloadBudget == Spec => []BudgetBoundsDownloads
<1>1. MaintenanceInv => BudgetBoundsDownloads
  BY DEF MaintenanceInv, Budget, BudgetBoundsDownloads
<1> QED
  BY <1>1, MaintenanceInductive, PTL

\* Games never run over Mods whose update failed, is unfinished or waits for a retry:
\* initialize launches from an idle entry, and Policy::plan beside games only counts down.
THEOREM SoundModsUnderGames == Spec => []GamesOverSoundMods
<1>1. MaintenanceInv => GamesOverSoundMods
  BY DEF MaintenanceInv, Sound
<1> QED
  BY <1>1, MaintenanceInductive, PTL

\* Maintenance stops games only after its countdown, less the error that clock_changed
\* tolerates for each jump of the wall clock.
THEOREM PlayersAreWarned == Spec => []NoticeBeforeStop
<1>1. MaintenanceInv => NoticeBeforeStop
  <2>1. MaintenanceInv => Tolerance * jumps = jumps
    BY DEF MaintenanceInv, Types, Tolerance
  <2> QED
    BY <2>1 DEF MaintenanceInv, Notice, NoticeBeforeStop
<1> QED
  BY <1>1, MaintenanceInductive, PTL

\* The step property of MaintenanceNotLost.
NotLost ==
    Queued(mods) /\ mods'.phase = "Idle" =>
        \/ pc = "download"
        \/ ~auto /\ ~mods.manual /\ mods.attempts = 0
        \/ ~auto /\ mods.attempts = MOD_ATTEMPTS

LEMMA StepsDoNotLose == MaintenanceInv /\ [Next]_vars => NotLost
<1> SUFFICES ASSUME MaintenanceInv, [Next]_vars PROVE NotLost
  OBVIOUS
<1>1. mods \in Entry /\ Types /\ Sound /\ Shape
  BY DEF MaintenanceInv, Types
<1>2. Queued(mods) => mods.phase \notin {"Idle", "Failed"}
  BY DEF Queued
<1>3. ASSUME mods' = mods PROVE NotLost
  BY <1>2, <1>3 DEF NotLost
<1>4. CASE \/ Signal \/ Fault \/ Restart \/ Activate \/ Refuse \/ Launch \/ Initialized
           \/ Submit \/ SetPolicy \/ WorkerFails \/ Lose \/ UNCHANGED vars
  <2>1. mods' = mods
    BY <1>4 DEF Signal, Fault, Restart, Activate, Refuse, Launch, Initialized, Submit,
                SetPolicy, WorkerFails, Lose, policy, vars
  <2> QED
    BY <1>3, <2>1
<1>5. CASE End
  <2>1. mods' = mods \/ mods' = FinishModUpdate(mods, FALSE)
    BY <1>5, Zenon DEF End
  <2>2. mods' = mods \/ mods'.phase # "Idle"
    BY <1>1, <2>1, FinishFacts
  <2> QED
    BY <1>2, <2>2 DEF NotLost
<1>6. CASE Initialize
  <2> DEFINE p == Plan(ResumeAfterRestart(mods), FALSE, FALSE, FALSE, TRUE, FALSE).mods
  <2>1. mods' \in {mods, p, [p EXCEPT !.phase = "Pending"]}
    BY <1>6, Zenon DEF Initialize, policy
  <2>2. BootPlan(mods, p)
    BY <1>1, PlanAtBoot, Zenon DEF Sound
  <2> HIDE DEF p
  <2>3. p \in Entry
    BY <2>2 DEF BootPlan
  <2>4. [p EXCEPT !.phase = "Pending"].phase = "Pending"
    BY <2>3 DEF Entry
  <2>5. CASE mods' = p
    BY <1>2, <2>2, <2>5, Zenon DEF NotLost, BootPlan
  <2>6. CASE mods' = [p EXCEPT !.phase = "Pending"]
    BY <2>4, <2>6 DEF NotLost
  <2> QED
    BY <1>3, <2>1, <2>5, <2>6
<1>7. CASE Loop
  <2> DEFINE s == ModAction(mods, FALSE, FALSE)
  <2>1. mods' = mods \/ mods' = s.mods
    BY <1>7, Zenon DEF Loop
  <2>2. WithoutGames(mods, s)
    BY <1>1, ActionWithoutGames
  <2> HIDE DEF s
  <2>3. mods' = mods \/ mods'.phase # "Idle"
    BY <2>1, <2>2 DEF WithoutGames
  <2> QED
    BY <1>2, <2>3 DEF NotLost
<1>8. CASE Download
  BY <1>8 DEF Download, NotLost
<1>9. CASE Tick
  <2> DEFINE m == AfterClockChange(mods)
  <2>1. pc = "running"
    BY <1>9 DEF Tick, Running
  <2>2. m.phase = mods.phase /\ m.manual = mods.manual /\ m.attempts = mods.attempts
    BY <2>1, ClockCorrected
  <2> HIDE DEF m
  <2>3. \E busy, action : TickPlan(m, mods', action, busy)
    BY <1>9, TickFacts, Zenon DEF m
  <2>4. mods'.phase = "Idle" /\ m.phase # "Idle" =>
            ~auto /\ (m.phase = "Failed" \/ (~m.manual /\ m.attempts = 0))
    BY <2>3 DEF TickPlan
  <2> QED
    BY <1>2, <2>2, <2>4, Zenon DEF NotLost
<1>10. CASE WorkerEnds
  <2>1. mods' = mods
    BY <1>1, <1>10, Zenon DEF WorkerEnds, Shape
  <2> QED
    BY <1>3, <2>1
<1>11. CASE UpdateMods
  <2>1. mods'.phase = "Pending"
    BY <1>1, <1>11, RequestFacts, Zenon DEF UpdateMods
  <2> QED
    BY <2>1 DEF NotLost
<1>12. CASE Advance \/ Jump
  <2>1. \E d \in Int : mods' = Shift(mods, d)
    <3>1. CASE Advance
      <4>1. -1 \in Int /\ mods' = Shift(mods, -1)
        BY <3>1 DEF Advance, Elapse
      <4> QED
        BY <4>1
    <3>2. CASE Jump
      <4>1. PICK d \in Jumps : mods' = Shift(mods, -d)
        BY <3>2 DEF Jump, Elapse
      <4>2. -d \in Int
        BY BoundsAssumption
      <4> QED
        BY <4>1, <4>2
    <3> QED
      BY <1>12, <3>1, <3>2
  <2>2. mods'.phase = mods.phase
    BY <1>1, <2>1, ShiftFacts
  <2> QED
    BY <1>2, <2>2 DEF NotLost
<1> QED
  BY <1>4, <1>5, <1>6, <1>7, <1>8, <1>9, <1>10, <1>11, <1>12
     DEF Next, BootStep, TickStep, ClientStep, UnitStep, Disturbance

\* A queued update is forgotten only when a download succeeded or, with automatic
\* maintenance switched off, before its first attempt or after its last one: no end of a
\* container, tick, closing or clock jump drops it.
THEOREM UpdatesAreNotLost == Spec => MaintenanceNotLost
<1>1. MaintenanceInv /\ [Next]_vars => [NotLost]_vars
  BY StepsDoNotLose
<1>2. Spec => [][NotLost]_vars
  BY <1>1, MaintenanceInductive, PTL DEF Spec
<1> QED
  BY <1>2 DEF MaintenanceNotLost, NotLost

=============================================================================
