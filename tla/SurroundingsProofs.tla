------------------------- MODULE SurroundingsProofs -------------------------
(***************************************************************************)
(* Theorems about the relay of what games report (Relay), the ports of a   *)
(* host's rooms (Deployment), archives (Archive) and the idle policy       *)
(* (Activity), for every value of the constants.                           *)
(*                                                                         *)
(* Relay: an event shows players in the world that it is of, and every     *)
(* event is in its channel, relayed or dropped, whatever attempt it is of. *)
(* Deployment: a tool that has reserved ports holds the host's lock until  *)
(* its unit is saved, so that what it found free still is; the choice of   *)
(* ports is a fold over the endpoints, and each takes a free port that no  *)
(* other took.                                                             *)
(* Archive: what the worker knows of the store at each of its steps; an    *)
(* import that is about to report is the one in place; and the conversion  *)
(* of a player's directory keeps its player, digit by digit.               *)
(* Activity: a story that the policy may trust is never longer than the    *)
(* world was quiet, but for the jumps of the clock that the next plan sees. *)
(***************************************************************************)
EXTENDS Relay, Deployment, Archive, Activity, Folding

-----------------------------------------------------------------------------
(* The relay *)

DriverRecord == [running : BOOLEAN, gen : Nat, players : SUBSET Players]
Event == [gen : Nat, name : {"presence", "entered", "left"}, players : SUBSET Players]
Counter == [published : Nat, dropped : Nat, relayed : Nat, told : Nat]
Follower == [state : {"none", "wait", "apply", "done"}, fresh : BOOLEAN, copy : DriverRecord]
Metric == [nonce : Nat, gen : Nat, up : BOOLEAN, players : SUBSET Players]
Output == [queue : Nat, writing : BOOLEAN, closed : BOOLEAN, settled : Nat]

RelayTypes ==
    /\ attempt \in Nat
    /\ driver \in [Attempts -> DriverRecord]
    /\ channel \in [Attempts -> Seq(Event)]
    /\ count \in [Attempts -> Counter]
    /\ relay \in [Attempts -> {"none", "run", "done", "aborted"}]
    /\ follow \in [Attempts -> Follower]
    /\ metric \in Metric
    /\ output \in Output
    /\ losses \in Nat
    /\ report \in {"open", "relays", "output", "sdk", "ok", "failed"}

\* An event that shows players shows them in the world that it is of.
Shows(n, e) == e.name # "left" => \A p \in e.players : <<n, e.gen, p>> \in seen
Witnessed == \A n \in Attempts : \A i \in DOMAIN channel[n] : Shows(n, channel[n][i])

Current == PresenceIsCurrent /\ (metric.nonce = 0 => metric.players = {})

\* Only the last attempt's game runs, while its relay does and before the close.
Phases ==
    /\ \A n \in Attempts : driver[n].running => (n = attempt /\ relay[n] = "run" /\ report = "open")
    /\ \A n \in Attempts : relay[n] = "none" => channel[n] = <<>>
    /\ report \in {"output", "sdk", "ok", "failed"} => \A n \in Attempts : relay[n] # "run"
    /\ report \in {"sdk", "ok"} => (OutputDrained /\ \A n \in Attempts : relay[n] # "aborted")

Relayed ==
    \A n \in Attempts :
        /\ count[n].published = Len(channel[n]) + count[n].relayed + count[n].dropped
        /\ relay[n] = "done" => (count[n].told = count[n].dropped /\ channel[n] = <<>>)

Settled ==
    Total("relayed") = output.queue + (IF output.writing THEN 1 ELSE 0) + output.settled + losses

RelayInv == RelayTypes /\ Witnessed /\ Current /\ Phases /\ Relayed /\ Settled

-----------------------------------------------------------------------------

\* There are finitely many attempts.
LEMMA FiniteAttempts == IsFiniteSet(Attempts) /\ 0 \notin Attempts /\ Attempts \subseteq Nat
BY RelayAssumption, FS_Interval DEF Attempts

\* Removing an element of a queue leaves elements of it.
LEMMA QueueTail ==
    ASSUME NEW R, NEW u \in Seq(R), u # <<>>
    PROVE  /\ Tail(u) \in Seq(R) /\ Head(u) \in R /\ Head(u) = u[1] /\ 1 \in DOMAIN u
           /\ Len(u) = Len(Tail(u)) + 1
           /\ \A i \in DOMAIN Tail(u) : i + 1 \in DOMAIN u /\ Tail(u)[i] = u[i + 1]
<1>1. Len(u) \in Nat /\ DOMAIN u = 1 .. Len(u) /\ Len(u) # 0  OBVIOUS
<1>2. Tail(u) \in Seq(R) /\ Head(u) \in R /\ Head(u) = u[1] /\ Len(Tail(u)) = Len(u) - 1
      /\ \A i \in 1 .. Len(Tail(u)) : Tail(u)[i] = u[i + 1]  OBVIOUS
<1>3. DOMAIN Tail(u) = 1 .. Len(Tail(u))  BY <1>2
<1> QED BY <1>1, <1>2, <1>3

\* Counts that change for no attempt have the same total; one that grows by one
\* for one attempt grows the total by one.
LEMMA TotalMoves ==
    ASSUME NEW n \in Attempts, count \in [Attempts -> Counter], count' \in [Attempts -> Counter],
           NEW d \in Nat,
           count'[n].relayed = count[n].relayed + d,
           \A m \in Attempts : m # n => count'[m].relayed = count[m].relayed
    PROVE  Total("relayed")' = Total("relayed") + d
<1> DEFINE w == [m \in Attempts |-> count[m]["relayed"]]
           v == [m \in Attempts |-> count'[m]["relayed"]]
<1>1. \A m \in Attempts : count[m]["relayed"] \in Nat /\ count'[m]["relayed"] \in Nat
  BY DEF Counter
<1>2. PICK a : a = w  OBVIOUS
<1>3. PICK b : b = v  OBVIOUS
<1>4. a \in [Attempts -> Int] /\ b \in [Attempts -> Int]  BY <1>1, <1>2, <1>3
<1>5. b[n] = a[n] + d /\ \A m \in Attempts : m # n => b[m] = a[m]  BY <1>2, <1>3
<1>6. Total("relayed") = SumFunctionOnSet(a, Attempts)
      /\ Total("relayed")' = SumFunctionOnSet(b, Attempts)
  BY <1>2, <1>3 DEF Total, SumFunction
<1> HIDE DEF w, v
<1> DEFINE T == Attempts \ {n}
<1>7. IsFiniteSet(T) /\ \A m \in T : a[m] \in Int /\ a[m] = b[m]
  BY <1>4, <1>5, FiniteAttempts, FS_Subset
<1>8. \A m \in Attempts : a[m] \in Int /\ b[m] \in Int  BY <1>4
<1>9. SumFunctionOnSet(a, Attempts) = a[n] + SumFunctionOnSet(a, T)
      /\ SumFunctionOnSet(b, Attempts) = b[n] + SumFunctionOnSet(b, T)
  BY <1>8, FiniteAttempts, SumRemove
<1>10. SumFunctionOnSet(a, T) \in Int /\ SumFunctionOnSet(a, T) = SumFunctionOnSet(b, T)
  BY <1>7, SumInt, SumCongruent
<1> HIDE DEF T
<1>11. PICK i \in Int, j \in Int : i = a[n] /\ j = SumFunctionOnSet(a, T)  BY <1>8, <1>10
<1>12. SumFunctionOnSet(a, Attempts) = i + j /\ SumFunctionOnSet(b, Attempts) = (i + d) + j
  BY <1>5, <1>9, <1>10, <1>11
<1>13. SumFunctionOnSet(b, Attempts) = SumFunctionOnSet(a, Attempts) + d  BY <1>12
<1> QED BY <1>6, <1>13

\* The total is a natural number.
LEMMA TotalNat ==
    ASSUME count \in [Attempts -> Counter]
    PROVE  Total("relayed") \in Nat
<1> DEFINE w == [m \in Attempts |-> count[m]["relayed"]]
<1>1. \A m \in Attempts : w[m] \in Nat  BY DEF Counter
<1>2. Total("relayed") = SumFunctionOnSet(w, Attempts)  BY DEF Total, SumFunction
<1> HIDE DEF w
<1> QED BY <1>1, <1>2, FiniteAttempts, SumNat

\* The initial state has nothing to account for.
LEMMA RelayStarts == RelayInit => RelayInv
<1> SUFFICES ASSUME RelayInit PROVE RelayInv
  OBVIOUS
<1> USE DEF RelayInit
<1>1. RelayTypes
  BY DEF RelayTypes, NoDriver, DriverRecord, Counter, Follower, Metric, Output
<1>2. Witnessed /\ Current /\ Phases /\ Relayed
  BY DEF Witnessed, Current, PresenceIsCurrent, Phases, Relayed, NoDriver
<1>3. Settled
  <2> DEFINE w == [n \in Attempts |-> count[n]["relayed"]]
  <2>1. \A n \in Attempts : w[n] = 0  OBVIOUS
  <2>2. Total("relayed") = SumFunctionOnSet(w, Attempts)  BY DEF Total, SumFunction
  <2> HIDE DEF w
  <2>3. Total("relayed") = 0  BY <2>1, <2>2, FiniteAttempts, SumZero
  <2> QED BY <2>3 DEF Settled
<1> QED BY <1>1, <1>2, <1>3 DEF RelayInv

-----------------------------------------------------------------------------
(* What the meters show *)

\* A state that is observed moves the meters to its attempt, and keeps only players
\* of the same world (observe_state).
LEMMA StateObserved ==
    ASSUME RelayTypes, Current, NEW n \in Attempts, NEW s \in DriverRecord,
           metric' = ObserveState(n, s), seen' = seen
    PROVE  metric' \in Metric /\ Current'
<1>1. metric \in Metric /\ n \in Nat /\ n # 0  BY FiniteAttempts DEF RelayTypes
<1>2. metric' \in Metric  BY <1>1 DEF ObserveState, Metric, DriverRecord
<1>3. metric'.nonce = n /\ metric'.up = s.running  BY DEF ObserveState
<1>4. metric'.players # {} => /\ s.running /\ metric.nonce = n /\ metric'.gen = metric.gen
                              /\ metric'.players = metric.players
  BY DEF ObserveState
<1>5. PresenceIsCurrent'
  <2>1. \A p \in metric'.players : <<metric'.nonce, metric'.gen, p>> \in seen'
    BY <1>3, <1>4 DEF Current, PresenceIsCurrent
  <2>2. ~metric'.up => metric'.players = {}  BY <1>3, <1>4
  <2> QED BY <2>1, <2>2 DEF PresenceIsCurrent
<1> QED BY <1>1, <1>2, <1>3, <1>5 DEF Current

\* An event that shows players where they were seen keeps the meters current
\* (observe_driver).
LEMMA EventObserved ==
    ASSUME RelayTypes, Current, NEW n \in Attempts, NEW e \in Event, Shows(n, e),
           metric' = ObserveDriver(n, e), seen' = seen
    PROVE  metric' \in Metric /\ Current'
<1>1. metric \in Metric /\ n \in Nat /\ n # 0  BY FiniteAttempts DEF RelayTypes
<1> DEFINE before == IF e.gen > metric.gen THEN {} ELSE metric.players
<1>2. CASE (IF metric.nonce = 0 THEN n ELSE metric.nonce) # n \/ e.gen < metric.gen
  <2>1. metric' = metric  BY <1>2 DEF ObserveDriver
  <2> QED BY <1>1, <2>1 DEF Current, PresenceIsCurrent
<1>3. CASE ~((IF metric.nonce = 0 THEN n ELSE metric.nonce) # n \/ e.gen < metric.gen)
  <2>1. metric' = [nonce |-> n, gen |-> e.gen, up |-> metric.up,
                   players |-> IF metric.up THEN Apply(e, before) ELSE before]
    BY <1>3 DEF ObserveDriver
  <2>2. e.gen \in Nat /\ metric.gen \in Nat /\ e.players \in SUBSET Players
        /\ e.name \in {"presence", "entered", "left"}
        /\ metric.players \in SUBSET Players /\ metric.up \in BOOLEAN
    BY <1>1 DEF Event, Metric
  <2>3. before \in SUBSET Players  BY <2>2
  <2>4. before # {} => (e.gen = metric.gen /\ before = metric.players /\ metric.nonce = n)
    <3>1. CASE e.gen > metric.gen  BY <3>1
    <3>2. CASE ~(e.gen > metric.gen)
      <4>1. e.gen = metric.gen /\ before = metric.players  BY <1>3, <2>2, <3>2
      <4>2. metric.nonce = 0 => metric.players = {}  BY DEF Current
      <4> QED BY <1>3, <4>1, <4>2
    <3> QED BY <3>1, <3>2
  <2>5. \A p \in before : <<n, e.gen, p>> \in seen
    BY <2>4 DEF Current, PresenceIsCurrent
  <2>6. ~metric.up => before = {}  BY <2>4 DEF Current, PresenceIsCurrent
  <2> HIDE DEF before
  <2>7. Apply(e, before) \in SUBSET Players
        /\ \A p \in Apply(e, before) : p \in before \/ (e.name # "left" /\ p \in e.players)
    BY <2>2, <2>3 DEF Apply
  <2>8. \A p \in Apply(e, before) : <<n, e.gen, p>> \in seen  BY <2>5, <2>7 DEF Shows
  <2>9. metric' \in Metric  BY <1>1, <2>1, <2>2, <2>3, <2>7 DEF Metric
  <2>10. metric'.nonce = n /\ metric'.gen = e.gen /\ metric'.up = metric.up
         /\ metric'.players = IF metric.up THEN Apply(e, before) ELSE before
    BY <2>1
  <2>11. PresenceIsCurrent'  BY <2>5, <2>6, <2>8, <2>10 DEF PresenceIsCurrent
  <2> QED BY <1>1, <2>9, <2>10, <2>11 DEF Current
<1> QED BY <1>2, <1>3

-----------------------------------------------------------------------------
(* The steps *)

\* A new attempt.
LEMMA StartAttemptKeeps == RelayInv /\ StartAttempt => RelayInv'
<1> SUFFICES ASSUME RelayInv, StartAttempt PROVE RelayInv'
  OBVIOUS
<1> USE DEF RelayInv
<1> DEFINE n == attempt + 1
<1>1. n \in Attempts /\ attempt' = n /\ report = "open" /\ (attempt > 0 => ~driver[attempt].running)
  BY RelayAssumption DEF StartAttempt, RelayTypes, Attempts
<1>2. driver' = [driver EXCEPT ![n].running = TRUE] /\ relay' = [relay EXCEPT ![n] = "run"]
      /\ follow' = [follow EXCEPT ![n].state = "wait", ![n].fresh = TRUE]
      /\ metric' = ObserveState(n, driver'[n])
      /\ UNCHANGED <<channel, count, output, losses, report, seen>>
  BY DEF StartAttempt
<1> HIDE DEF n
<1>3. driver' \in [Attempts -> DriverRecord]  BY <1>1, <1>2 DEF RelayTypes, DriverRecord
<1>4. driver'[n] \in DriverRecord  BY <1>1, <1>3
<1>5. metric' \in Metric /\ Current'  BY <1>1, <1>2, <1>4, StateObserved
<1>6. follow' \in [Attempts -> Follower]  BY <1>1, <1>2 DEF RelayTypes, Follower
<1>7. RelayTypes'
  BY <1>1, <1>2, <1>3, <1>5, <1>6, FiniteAttempts DEF RelayTypes
<1>8. Witnessed'  BY <1>2 DEF Witnessed, Shows
<1>9. Phases'
  <2>1. \A m \in Attempts : ~driver[m].running
    BY <1>1, FiniteAttempts DEF Phases, RelayTypes, Attempts
  <2>2. \A m \in Attempts : driver'[m].running => m = n
    BY <1>1, <1>2, <2>1 DEF RelayTypes, DriverRecord
  <2>3. relay'[n] = "run" /\ \A m \in Attempts : m # n => relay'[m] = relay[m]
    BY <1>1, <1>2 DEF RelayTypes
  <2> QED BY <1>1, <1>2, <2>2, <2>3 DEF Phases
<1>10. Relayed'
  <2>1. \A m \in Attempts : relay'[m] = "done" => relay[m] = "done"  BY <1>1, <1>2 DEF RelayTypes
  <2> QED BY <1>2, <2>1 DEF Relayed
<1>11. Settled'  BY <1>2 DEF Settled, Total
<1> QED BY <1>5, <1>7, <1>8, <1>9, <1>10, <1>11

\* A record that is published joins the channel, or is counted as dropped.
LEMMA TelemetryRecordKeeps ==
    ASSUME RelayInv, NEW n \in Attempts, TelemetryRecord(n)
    PROVE  RelayInv'
<1> USE DEF RelayInv
<1>1. PICK name \in {"presence", "entered", "left"}, who \in Players :
         LET world == CASE name = "entered" -> driver[n].players \union {who}
                        [] name = "left" -> driver[n].players \ {who}
                        [] OTHER -> driver[n].players
         IN /\ driver' = [driver EXCEPT ![n].players = world]
            /\ seen' = seen \union {<<n, driver[n].gen, p>> : p \in world}
            /\ PublishEvent(n, [gen |-> driver[n].gen, name |-> name,
                                players |-> IF name = "presence" THEN world ELSE {who}])
  BY DEF TelemetryRecord
<1> DEFINE world == CASE name = "entered" -> driver[n].players \union {who}
                      [] name = "left" -> driver[n].players \ {who}
                      [] OTHER -> driver[n].players
           e == [gen |-> driver[n].gen, name |-> name,
                 players |-> IF name = "presence" THEN world ELSE {who}]
           room == Len(channel[n]) < SUBSCRIPTION_LINES
<1>2. driver[n].running /\ UNCHANGED <<attempt, relay, follow, metric, output, losses, report>>
  BY DEF TelemetryRecord
<1>3. driver[n] \in DriverRecord /\ channel[n] \in Seq(Event) /\ count[n] \in Counter
  BY DEF RelayTypes
<1>4. world \in SUBSET Players /\ (name = "entered" => who \in world)
  BY <1>3 DEF DriverRecord
<1>5. driver' = [driver EXCEPT ![n].players = world]
      /\ seen' = seen \union {<<n, driver[n].gen, p>> : p \in world}
      /\ PublishEvent(n, e)
  BY <1>1
<1> HIDE DEF world
<1>6. e \in Event  BY <1>3, <1>4 DEF Event, DriverRecord
<1>7. e.gen = driver[n].gen /\ e.name = name /\ e.players = IF name = "presence" THEN world ELSE {who}
  OBVIOUS
<1>8. \A p \in world : <<n, driver[n].gen, p>> \in seen'  BY <1>5
<1>9. name # "left" => \A p \in e.players : <<n, e.gen, p>> \in seen'  BY <1>4, <1>7, <1>8
<1> HIDE DEF e
<1>10. channel' = [channel EXCEPT ![n] = IF room THEN Append(@, e) ELSE @]
       /\ count' = [count EXCEPT ![n].published = @ + 1,
                                 ![n].dropped = @ + (IF room THEN 0 ELSE 1)]
  BY <1>5 DEF PublishEvent
<1>11. PICK d \in {0, 1} : d = IF room THEN 0 ELSE 1  OBVIOUS
<1>12. count'[n].published = count[n].published + 1 /\ count'[n].dropped = count[n].dropped + d
       /\ count'[n].relayed = count[n].relayed /\ count'[n].told = count[n].told
       /\ \A m \in Attempts : m # n => count'[m] = count[m]
  BY <1>10, <1>11, <1>3 DEF RelayTypes, Counter
<1>13. count' \in [Attempts -> Counter]
  <2>1. count[n].published + 1 \in Nat /\ count[n].dropped + d \in Nat  BY <1>3 DEF Counter
  <2> QED BY <1>10, <1>11, <2>1, <1>3 DEF RelayTypes, Counter
<1>14. channel'[n] = (IF room THEN Append(channel[n], e) ELSE channel[n])
       /\ \A m \in Attempts : m # n => channel'[m] = channel[m]
  BY <1>10 DEF RelayTypes
<1>15. channel' \in [Attempts -> Seq(Event)]
  <2>1. Append(channel[n], e) \in Seq(Event)  BY <1>3, <1>6
  <2> QED BY <1>10, <2>1, <1>3 DEF RelayTypes
<1>16. driver' \in [Attempts -> DriverRecord] /\ \A m \in Attempts : driver'[m].running = driver[m].running
  BY <1>3, <1>4, <1>5 DEF RelayTypes, DriverRecord
<1>17. RelayTypes'  BY <1>2, <1>13, <1>15, <1>16 DEF RelayTypes
<1>18. Witnessed'
  <2> SUFFICES ASSUME NEW m \in Attempts, NEW i \in DOMAIN channel'[m],
                      channel'[m][i].name # "left", NEW p \in channel'[m][i].players
               PROVE  <<m, channel'[m][i].gen, p>> \in seen'
    BY DEF Witnessed, Shows
  <2>1. CASE i \in DOMAIN channel[m] /\ channel'[m][i] = channel[m][i]
    BY <2>1, <1>5 DEF Witnessed, Shows
  <2>2. CASE m = n /\ channel'[m][i] = e
    BY <2>2, <1>7, <1>9
  <2>3. (i \in DOMAIN channel[m] /\ channel'[m][i] = channel[m][i]) \/ (m = n /\ channel'[m][i] = e)
    <3>1. CASE m # n \/ ~room  BY <3>1, <1>14
    <3>2. CASE m = n /\ room
      <4>1. i \in DOMAIN Append(channel[n], e)  BY <3>2, <1>14
      <4>2. i \in 1 .. Len(channel[n]) + 1  BY <4>1, <1>3
      <4>3. channel'[m][i] = Append(channel[n], e)[i]  BY <3>2, <1>14
      <4> QED BY <3>2, <4>2, <4>3, <1>3
    <3> QED BY <3>1, <3>2
  <2> QED BY <2>1, <2>2, <2>3
<1>19. Current'  BY <1>2, <1>5 DEF Current, PresenceIsCurrent
<1>20. relay[n] = "run"  BY <1>2 DEF Phases
<1>21. Phases'
  BY <1>2, <1>14, <1>16, <1>20 DEF Phases, OutputDrained
<1>22. Relayed'
  <2> SUFFICES ASSUME NEW m \in Attempts
               PROVE  /\ count'[m].published = Len(channel'[m]) + count'[m].relayed + count'[m].dropped
                      /\ relay'[m] = "done" => (count'[m].told = count'[m].dropped /\ channel'[m] = <<>>)
    BY DEF Relayed
  <2>1. CASE m # n  BY <2>1, <1>2, <1>12, <1>14 DEF Relayed
  <2>2. CASE m = n
    <3>1. Len(channel'[n]) = Len(channel[n]) + (1 - d)  BY <1>3, <1>11, <1>14
    <3>2. PICK a \in Nat, b \in Nat, c \in Nat, l \in Nat :
             a = count[n].published /\ b = count[n].relayed /\ c = count[n].dropped /\ l = Len(channel[n])
      BY <1>3 DEF Counter
    <3>3. a = l + b + c  BY <3>2 DEF Relayed
    <3>4. a + 1 = (l + (1 - d)) + b + (c + d)  BY <3>3
    <3> QED BY <2>2, <1>2, <1>12, <1>20, <3>1, <3>2, <3>4
  <2> QED BY <2>1, <2>2
<1>23. Settled'
  <2>0. count \in [Attempts -> Counter] /\ count'[n].relayed = count[n].relayed + 0
        /\ \A m \in Attempts : m # n => count'[m].relayed = count[m].relayed
    BY <1>3, <1>12 DEF RelayTypes, Counter
  <2>1. Total("relayed")' = Total("relayed") + 0  BY <1>13, <2>0, TotalMoves
  <2>2. Total("relayed")' = Total("relayed")  BY <2>0, <2>1, TotalNat
  <2> QED BY <1>2, <2>2 DEF Settled
<1> QED BY <1>17, <1>18, <1>19, <1>21, <1>22, <1>23

\* A new generation and an exit change the watched state alone.
LEMMA StateStepsKeep ==
    ASSUME RelayInv, NEW n \in Attempts, NewGeneration(n) \/ ExitDriver(n)
    PROVE  RelayInv'
<1> USE DEF RelayInv
<1>1. UNCHANGED <<attempt, channel, count, relay, metric, output, losses, report, seen>>
      /\ driver[n].running /\ follow' = [follow EXCEPT ![n].fresh = Watched(n)]
  BY DEF NewGeneration, ExitDriver
<1>2. driver[n] \in DriverRecord /\ follow[n] \in Follower  BY DEF RelayTypes
<1>3. Watched(n) \in BOOLEAN  BY DEF Watched
<1>4. follow' \in [Attempts -> Follower]  BY <1>1, <1>2, <1>3 DEF RelayTypes, Follower
<1>5. driver' \in [Attempts -> DriverRecord]
      /\ \A m \in Attempts : driver'[m].running => driver[m].running
  <2>1. driver[n].gen + 1 \in Nat  BY <1>2 DEF DriverRecord
  <2>2. CASE NewGeneration(n)
    <3>1. driver' = [driver EXCEPT ![n].gen = @ + 1, ![n].players = {}]  BY <2>2 DEF NewGeneration
    <3> QED BY <1>2, <2>1, <3>1 DEF RelayTypes, DriverRecord
  <2>3. CASE ExitDriver(n)
    <3>1. driver' = [driver EXCEPT ![n].running = FALSE, ![n].players = {}]  BY <2>3 DEF ExitDriver
    <3> QED BY <1>2, <3>1 DEF RelayTypes, DriverRecord
  <2> QED BY <2>2, <2>3
<1>6. RelayTypes'  BY <1>1, <1>4, <1>5 DEF RelayTypes
<1>7. Witnessed' /\ Current'  BY <1>1 DEF Witnessed, Shows, Current, PresenceIsCurrent
<1>8. Phases'  BY <1>1, <1>5 DEF Phases, OutputDrained
<1>9. Relayed' /\ Settled'  BY <1>1 DEF Relayed, Settled, Total
<1> QED BY <1>6, <1>7, <1>8, <1>9

\* The followers of the watch change the meters by what they read.
LEMMA FollowKeeps ==
    ASSUME RelayInv, NEW n \in Attempts, FollowRead(n) \/ FollowApply(n) \/ StopRefresh(n)
    PROVE  RelayInv'
<1> USE DEF RelayInv
<1>1. UNCHANGED <<attempt, driver, channel, count, relay, output, losses, report, seen>>
  BY DEF FollowRead, FollowApply, StopRefresh
<1>2. driver[n] \in DriverRecord /\ follow[n] \in Follower /\ follow[n].copy \in DriverRecord
      /\ metric \in Metric
  BY DEF RelayTypes, Follower
<1>3. follow' \in [Attempts -> Follower] /\ metric' \in Metric /\ Current'
  <2>1. CASE FollowRead(n)
    <3>1. metric' = metric  BY <2>1 DEF FollowRead
    <3>2. [driver[n] EXCEPT !.players = {}] \in DriverRecord  BY <1>2 DEF DriverRecord
    <3>3. PICK c : c = [driver[n] EXCEPT !.players = {}]  OBVIOUS
    <3>4. \/ follow' = [follow EXCEPT ![n].state = "done", ![n].fresh = FALSE]
          \/ follow' = [follow EXCEPT ![n].state = "apply", ![n].fresh = FALSE, ![n].copy = c]
      BY <2>1, <3>3 DEF FollowRead
    <3>5. follow' \in [Attempts -> Follower]
      <4>1. c \in DriverRecord /\ follow \in [Attempts -> Follower]  BY <3>2, <3>3 DEF RelayTypes
      <4> QED BY ONLY <3>4, <4>1, n \in Attempts DEF Follower
    <3> QED BY <1>1, <1>2, <3>1, <3>5 DEF Current, PresenceIsCurrent
  <2>2. CASE FollowApply(n)
    <3>1. NoDriver \in DriverRecord  BY DEF NoDriver, DriverRecord
    <3>2. follow' \in [Attempts -> Follower]
      BY <1>2, <2>2, <3>1 DEF FollowApply, RelayTypes, Follower
    <3>3. metric' = ObserveState(n, follow[n].copy)  BY <2>2 DEF FollowApply
    <3> QED BY <1>1, <1>2, <3>2, <3>3, StateObserved
  <2>3. CASE StopRefresh(n)
    <3>1. metric' = ObserveState(n, driver[n]) /\ follow' = follow  BY <2>3 DEF StopRefresh
    <3> QED BY <1>1, <1>2, <3>1, StateObserved DEF RelayTypes
  <2> QED BY <2>1, <2>2, <2>3
<1>6. RelayTypes'  BY <1>1, <1>3 DEF RelayTypes
<1>7. Witnessed'  BY <1>1 DEF Witnessed, Shows
<1>8. Phases'  BY <1>1 DEF Phases, OutputDrained
<1>9. Relayed' /\ Settled'  BY <1>1 DEF Relayed, Settled, Total
<1> QED BY <1>3, <1>6, <1>7, <1>8, <1>9

\* A relayed event leaves the channel for the output queue or the losses.
LEMMA RelayEventKeeps ==
    ASSUME RelayInv, NEW n \in Attempts, RelayEvent(n)
    PROVE  RelayInv'
<1> USE DEF RelayInv
<1>1. relay[n] = "run" /\ channel[n] # <<>>
      /\ channel' = [channel EXCEPT ![n] = Tail(@)]
      /\ count' = [count EXCEPT ![n].relayed = @ + 1, ![n].told = count[n].dropped]
      /\ metric' = ObserveDriver(n, Head(channel[n]))
      /\ UNCHANGED <<attempt, driver, relay, follow, report, seen>>
  BY DEF RelayEvent
<1>2. channel[n] \in Seq(Event) /\ count[n] \in Counter /\ output \in Output /\ losses \in Nat
  BY DEF RelayTypes
<1>3. /\ Tail(channel[n]) \in Seq(Event) /\ Head(channel[n]) \in Event
      /\ Head(channel[n]) = channel[n][1] /\ 1 \in DOMAIN channel[n]
      /\ Len(channel[n]) = Len(Tail(channel[n])) + 1
      /\ \A i \in DOMAIN Tail(channel[n]) :
            i + 1 \in DOMAIN channel[n] /\ Tail(channel[n])[i] = channel[n][i + 1]
  BY <1>1, <1>2, QueueTail
<1>4. Shows(n, Head(channel[n]))  BY <1>3 DEF Witnessed
<1>5. metric' \in Metric /\ Current'  BY <1>1, <1>3, <1>4, EventObserved
<1>6. channel'[n] = Tail(channel[n]) /\ (\A m \in Attempts : m # n => channel'[m] = channel[m])
      /\ channel' \in [Attempts -> Seq(Event)]
  BY <1>1, <1>3 DEF RelayTypes
<1>7. count'[n].relayed = count[n].relayed + 1 /\ count'[n].published = count[n].published
      /\ count'[n].dropped = count[n].dropped
      /\ \A m \in Attempts : m # n => count'[m] = count[m]
  BY <1>1, <1>2 DEF RelayTypes, Counter
<1>8. count' \in [Attempts -> Counter]
  <2>1. count[n].relayed + 1 \in Nat /\ count[n].dropped \in Nat  BY <1>2 DEF Counter
  <2> QED BY <1>1, <1>2, <2>1 DEF RelayTypes, Counter
<1>9. output' \in Output /\ losses' \in Nat /\ output'.writing = output.writing
      /\ output'.settled = output.settled /\ output'.queue + losses' = (output.queue + losses) + 1
  <2>1. PICK encodes \in BOOLEAN : SubmitOutput(encodes)  BY DEF RelayEvent
  <2>2. output.queue \in Nat /\ output.queue + 1 \in Nat /\ losses + 1 \in Nat  BY <1>2 DEF Output
  <2>3. CASE losses' = losses + 1 /\ UNCHANGED output
    <3>0. \A a, b \in Nat : a + (b + 1) = (a + b) + 1  OBVIOUS
    <3>1. output.queue + (losses + 1) = (output.queue + losses) + 1  BY ONLY <1>2, <2>2, <3>0
    <3> QED BY <1>2, <2>2, <2>3, <3>1
  <2>4. CASE output' = [output EXCEPT !.queue = @ + 1] /\ UNCHANGED losses
    <3>0. \A a, b \in Nat : (a + 1) + b = (a + b) + 1  OBVIOUS
    <3>1. (output.queue + 1) + losses = (output.queue + losses) + 1  BY ONLY <1>2, <2>2, <3>0
    <3>2. output' \in Output /\ output'.writing = output.writing /\ output'.settled = output.settled
          /\ output'.queue = output.queue + 1
      BY <1>2, <2>2, <2>4 DEF Output
    <3> QED BY <1>2, <2>4, <3>1, <3>2
  <2> QED BY <2>1, <2>3, <2>4 DEF SubmitOutput
<1>10. RelayTypes'  BY <1>1, <1>5, <1>6, <1>8, <1>9 DEF RelayTypes
<1>11. Witnessed'
  <2> SUFFICES ASSUME NEW m \in Attempts, NEW i \in DOMAIN channel'[m],
                      channel'[m][i].name # "left", NEW p \in channel'[m][i].players
               PROVE  <<m, channel'[m][i].gen, p>> \in seen'
    BY DEF Witnessed, Shows
  <2>1. CASE m # n  BY <2>1, <1>1, <1>6 DEF Witnessed, Shows
  <2>2. CASE m = n
    <3>1. i + 1 \in DOMAIN channel[n] /\ channel'[n][i] = channel[n][i + 1]  BY <2>2, <1>3, <1>6
    <3>2. Shows(n, channel[n][i + 1])  BY <3>1 DEF Witnessed
    <3> QED BY <2>2, <3>1, <3>2, <1>1 DEF Shows
  <2> QED BY <2>1, <2>2
<1>12. report \notin {"output", "sdk", "ok", "failed"}  BY <1>1 DEF Phases
<1>13. Phases'  BY <1>1, <1>6, <1>12 DEF Phases
<1>14. Relayed'
  <2> SUFFICES ASSUME NEW m \in Attempts
               PROVE  /\ count'[m].published = Len(channel'[m]) + count'[m].relayed + count'[m].dropped
                      /\ relay'[m] = "done" => (count'[m].told = count'[m].dropped /\ channel'[m] = <<>>)
    BY DEF Relayed
  <2>1. CASE m # n  BY <2>1, <1>1, <1>6, <1>7 DEF Relayed
  <2>2. CASE m = n
    <3>1. /\ count[n].published \in Nat /\ count[n].relayed \in Nat /\ count[n].dropped \in Nat
          /\ Len(Tail(channel[n])) \in Nat
      BY <1>2, <1>3 DEF Counter
    <3>2. PICK a \in Nat, b \in Nat, c \in Nat, l \in Nat :
             a = count[n].published /\ b = count[n].relayed /\ c = count[n].dropped
             /\ l = Len(Tail(channel[n]))
      BY <3>1
    <3>3. a = (l + 1) + b + c  BY <3>2, <1>3 DEF Relayed
    <3>4. a = l + (b + 1) + c  BY <3>3
    <3> QED BY <2>2, <1>1, <1>6, <1>7, <3>2, <3>4
  <2> QED BY <2>1, <2>2
<1>15. Settled'
  <2>0. count \in [Attempts -> Counter] /\ \A m \in Attempts : m # n => count'[m].relayed = count[m].relayed
    BY <1>7 DEF RelayTypes
  <2>1. Total("relayed")' = Total("relayed") + 1  BY <1>7, <1>8, <2>0, TotalMoves
  <2>2. PICK w \in {0, 1} : w = IF output.writing THEN 1 ELSE 0  OBVIOUS
  <2>3. PICK a \in Nat, b \in Nat, c \in Nat, d \in Nat, q \in Nat, r \in Nat :
           a = output.queue /\ b = output.settled /\ c = losses /\ d = Total("relayed")
           /\ q = output'.queue /\ r = losses'
    BY <1>2, <1>9, <2>0, TotalNat DEF Output
  <2>4. d = a + w + b + c /\ q + r = (a + c) + 1  BY <1>9, <2>2, <2>3 DEF Settled
  <2>5. d + 1 = q + w + b + r  BY <2>4
  <2> QED BY <1>9, <2>1, <2>2, <2>3, <2>5 DEF Settled
<1> QED BY <1>5, <1>10, <1>11, <1>13, <1>14, <1>15

\* A relay ends when its channel is empty and closed, and records its drops.
LEMMA RelayEndKeeps ==
    ASSUME RelayInv, NEW n \in Attempts, RelayEnd(n)
    PROVE  RelayInv'
<1> USE DEF RelayInv
<1>1. relay[n] = "run" /\ channel[n] = <<>> /\ ~driver[n].running
      /\ relay' = [relay EXCEPT ![n] = "done"]
      /\ count' = [count EXCEPT ![n].told = count[n].dropped]
      /\ UNCHANGED <<attempt, driver, channel, follow, metric, output, losses, report, seen>>
  BY DEF RelayEnd, LastDrops
<1>2. count[n] \in Counter /\ count[n].dropped \in Nat  BY DEF RelayTypes, Counter
<1>3. relay'[n] = "done" /\ (\A m \in Attempts : m # n => relay'[m] = relay[m])
      /\ relay' \in [Attempts -> {"none", "run", "done", "aborted"}]
  BY <1>1 DEF RelayTypes
<1>4. count' \in [Attempts -> Counter]  BY <1>1, <1>2 DEF RelayTypes, Counter
<1>5. count'[n].told = count[n].dropped
      /\ \A m \in Attempts : /\ count'[m].published = count[m].published
                             /\ count'[m].relayed = count[m].relayed
                             /\ count'[m].dropped = count[m].dropped
                             /\ m # n => count'[m] = count[m]
  BY <1>1, <1>2 DEF RelayTypes, Counter
<1>6. RelayTypes'  BY <1>1, <1>3, <1>4 DEF RelayTypes
<1>7. Witnessed' /\ Current'  BY <1>1 DEF Witnessed, Shows, Current, PresenceIsCurrent
<1>8. report \notin {"output", "sdk", "ok", "failed"}  BY <1>1 DEF Phases
<1>9. Phases'
  <2>1. \A m \in Attempts : driver'[m].running => (m = attempt' /\ relay'[m] = "run" /\ report' = "open")
    BY <1>1, <1>3 DEF Phases
  <2> QED BY <1>1, <1>3, <1>8, <2>1 DEF Phases
<1>10. Relayed'
  <2>1. \A m \in Attempts : count'[m].published = Len(channel'[m]) + count'[m].relayed + count'[m].dropped
    BY <1>1, <1>5 DEF Relayed
  <2>2. \A m \in Attempts : relay'[m] = "done" => (count'[m].told = count'[m].dropped /\ channel'[m] = <<>>)
    BY <1>1, <1>3, <1>5 DEF Relayed
  <2> QED BY <2>1, <2>2 DEF Relayed
<1>11. Settled'
  <2>0. count \in [Attempts -> Counter] /\ count'[n].relayed = count[n].relayed + 0
        /\ \A m \in Attempts : m # n => count'[m].relayed = count[m].relayed
    BY <1>2, <1>5 DEF RelayTypes, Counter
  <2>1. Total("relayed")' = Total("relayed") + 0  BY <1>4, <2>0, TotalMoves
  <2>2. Total("relayed")' = Total("relayed")  BY <2>0, <2>1, TotalNat
  <2> QED BY <1>1, <2>2 DEF Settled
<1> QED BY <1>6, <1>7, <1>9, <1>10, <1>11

\* The output thread moves a record from the queue to the journal.
LEMMA OutputKeeps ==
    ASSUME RelayInv, OutputTake \/ OutputWrite
    PROVE  RelayInv'
<1> USE DEF RelayInv
<1>1. UNCHANGED <<attempt, driver, channel, count, relay, follow, metric, losses, report, seen>>
  BY DEF OutputTake, OutputWrite
<1>2. output \in Output /\ losses \in Nat /\ output.queue \in Nat /\ output.settled \in Nat
  BY DEF RelayTypes, Output
<1>3. output' \in Output
      /\ output'.queue + (IF output'.writing THEN 1 ELSE 0) + output'.settled + losses
         = output.queue + (IF output.writing THEN 1 ELSE 0) + output.settled + losses
  <2>1. CASE OutputTake
    <3>1. output.queue - 1 \in Nat /\ ~output.writing  BY <1>2, <2>1 DEF OutputTake
    <3>2. output' = [output EXCEPT !.queue = @ - 1, !.writing = TRUE]  BY <2>1 DEF OutputTake
    <3>3. output' \in Output /\ output'.queue = output.queue - 1 /\ output'.writing = TRUE
          /\ output'.settled = output.settled
      BY <1>2, <3>1, <3>2 DEF Output
    <3> QED BY <1>2, <3>1, <3>3
  <2>2. CASE OutputWrite
    <3>1. output.settled + 1 \in Nat /\ output.writing  BY <1>2, <2>2 DEF OutputWrite
    <3>2. output' = [output EXCEPT !.writing = FALSE, !.settled = @ + 1]  BY <2>2 DEF OutputWrite
    <3>3. output' \in Output /\ output'.queue = output.queue /\ output'.writing = FALSE
          /\ output'.settled = output.settled + 1
      BY <1>2, <3>1, <3>2 DEF Output
    <3> QED BY <1>2, <3>1, <3>3
  <2> QED BY <2>1, <2>2
<1>4. RelayTypes'  BY <1>1, <1>3 DEF RelayTypes
<1>5. Witnessed' /\ Current'  BY <1>1 DEF Witnessed, Shows, Current, PresenceIsCurrent
<1>6. ~OutputDrained
  BY <1>2 DEF OutputTake, OutputWrite, OutputDrained
<1>7. Phases'  BY <1>1, <1>6 DEF Phases
<1>8. Relayed'  BY <1>1 DEF Relayed
<1>9. Settled'
  <2>1. Total("relayed")' = Total("relayed")  BY <1>1 DEF Total
  <2> QED BY <1>1, <1>3, <2>1 DEF Settled
<1> QED BY <1>4, <1>5, <1>7, <1>8, <1>9

\* The close moves on when games, relays and output have ended.
LEMMA CloseKeeps ==
    ASSUME RelayInv, CloseTelemetry \/ CloseRelays \/ CloseOutput \/ CloseSdk
    PROVE  RelayInv'
<1> USE DEF RelayInv
<1>1. UNCHANGED <<attempt, driver, channel, count, follow, metric, losses, seen>>
  BY DEF CloseTelemetry, CloseRelays, CloseOutput, CloseSdk
<1>2. \A m \in Attempts : ~driver[m].running
  BY FiniteAttempts DEF CloseTelemetry, CloseRelays, CloseOutput, CloseSdk, Phases, Attempts, RelayTypes
<1>3. Witnessed' /\ Current'  BY <1>1 DEF Witnessed, Shows, Current, PresenceIsCurrent
<1>4. CASE CloseRelays
  <2>1. report = "relays" /\ report' = "output" /\ output' = [output EXCEPT !.closed = TRUE]
        /\ relay' = [n \in Attempts |-> IF n \in Relaying THEN "aborted" ELSE relay[n]]
    BY <1>4 DEF CloseRelays
  <2>2. \A n \in Attempts : relay'[n] = IF relay[n] = "run" THEN "aborted" ELSE relay[n]
    BY <2>1 DEF Relaying
  <2>3. relay' \in [Attempts -> {"none", "run", "done", "aborted"}]
    BY <2>1 DEF RelayTypes
  <2>4. output' \in Output /\ output'.queue = output.queue /\ output'.writing = output.writing
        /\ output'.settled = output.settled
    BY <2>1 DEF RelayTypes, Output
  <2>5. RelayTypes'  BY <1>1, <2>1, <2>3, <2>4 DEF RelayTypes
  <2>6. Phases'  BY <1>1, <1>2, <2>1, <2>2 DEF Phases
  <2>7. Relayed'  BY <1>1, <2>2 DEF Relayed
  <2>8. Settled'
    <3>1. Total("relayed")' = Total("relayed")  BY <1>1 DEF Total
    <3> QED BY <1>1, <2>4, <3>1 DEF Settled
  <2> QED BY <1>3, <2>5, <2>6, <2>7, <2>8
<1>5. CASE CloseTelemetry \/ CloseOutput \/ CloseSdk
  <2>1. relay' = relay /\ output' = output
    BY <1>5 DEF CloseTelemetry, CloseOutput, CloseSdk
  <2>2. \/ report' = "relays"
        \/ report = "output" /\ report' = "sdk" /\ OutputDrained /\ (\A n \in Attempts : relay[n] # "aborted")
        \/ report = "output" /\ report' = "failed"
        \/ report = "sdk" /\ report' \in {"ok", "failed"}
    BY <1>5 DEF CloseTelemetry, CloseOutput, CloseSdk
  <2>3. RelayTypes'  BY <1>1, <2>1, <2>2 DEF RelayTypes
  <2>4. Phases'  BY <1>1, <1>2, <2>1, <2>2 DEF Phases, OutputDrained
  <2>5. Relayed' /\ Settled'  BY <1>1, <2>1 DEF Relayed, Settled, Total
  <2> QED BY <1>3, <2>3, <2>4, <2>5
<1> QED BY <1>4, <1>5

\* Every step keeps the invariant.
LEMMA RelayStep == RelayInv /\ [RelayNext]_relayVars => RelayInv'
<1> SUFFICES ASSUME RelayInv, [RelayNext]_relayVars PROVE RelayInv'
  OBVIOUS
<1>1. CASE StartAttempt  BY <1>1, StartAttemptKeeps
<1>2. ASSUME NEW n \in Attempts, AttemptStep(n) PROVE RelayInv'
  BY <1>2, TelemetryRecordKeeps, StateStepsKeep, FollowKeeps, RelayEventKeeps, RelayEndKeeps
     DEF AttemptStep
<1>3. CASE OutputTake \/ OutputWrite  BY <1>3, OutputKeeps
<1>4. CASE CloseTelemetry \/ CloseRelays \/ CloseOutput \/ CloseSdk  BY <1>4, CloseKeeps
<1>5. CASE UNCHANGED relayVars
  BY <1>5 DEF relayVars, RelayInv, RelayTypes, Witnessed, Shows, Current, PresenceIsCurrent,
              Phases, OutputDrained, Relayed, Settled, Total
<1> QED BY <1>1, <1>2, <1>3, <1>4, <1>5 DEF RelayNext

\* Observations are honest: whatever the order in which a shard's events, drops,
\* restarts and watched states reach the meters (observe_state, observe_driver),
\* the players they show were in the world they are about, every published event
\* is relayed, queued or counted as dropped (monitor), and a close that reports
\* success leaves no event and no record behind (close_telemetry).
THEOREM ObservationsHonest == RelaySpec => []ObservationsAreHonest
<1>1. RelayInv => ObservationsAreHonest
  <2> SUFFICES ASSUME RelayInv PROVE ObservationsAreHonest
    OBVIOUS
  <2> USE DEF RelayInv
  <2>1. report = "ok" => (\A n \in Attempts : channel[n] = <<>>) /\ output.queue = 0 /\ ~output.writing
    <3> SUFFICES ASSUME report = "ok"
                 PROVE  (\A n \in Attempts : channel[n] = <<>>) /\ output.queue = 0 /\ ~output.writing
      OBVIOUS
    <3>1. \A n \in Attempts : relay[n] \in {"none", "done"}  BY DEF Phases, RelayTypes
    <3>2. \A n \in Attempts : channel[n] = <<>>  BY <3>1 DEF Phases, Relayed
    <3> QED BY <3>2 DEF Phases, OutputDrained
  <2>2. ObservationsAreCounted  BY <2>1 DEF ObservationsAreCounted, Relayed, Settled
  <2> QED BY <2>2 DEF ObservationsAreHonest, Current
<1> QED BY <1>1, RelayStarts, RelayStep, PTL DEF RelaySpec

-----------------------------------------------------------------------------
(* Ports *)

AllEndpoints == Endpoints(ToSet(ShardNames))
PortMaps == UNION {[D -> Nat] : D \in SUBSET AllEndpoints}
Units == [ports : PortMaps, image : Images \union {0}]
Definitions == [shards : SUBSET ToSet(ShardNames), unit : Units]
ToolStates == [step : {"idle", "loaded", "locked", "inactive", "reserved", "configured"},
               room : DeployedRooms \union {None}, definition : Definitions, allocated : PortMaps]

DeploymentTypes ==
    /\ tool \in [Tools -> ToolStates]
    /\ cluster \in [DeployedRooms -> SUBSET ToSet(ShardNames)]
    /\ quadlet \in [DeployedRooms -> Units]

\* A tool that has reserved ports and has not saved its unit yet.
Holds(t) == tool[t].step \in {"reserved", "configured"}

\* The lock of the host goes with the reservation; what was reserved is for the shards
\* of the definition and nobody else's.
Reservation(t) ==
    /\ tool[t].step # "idle" => tool[t].room \in DeployedRooms
    /\ Holds(t) =>
        /\ hostLock = t
        /\ ValidOptions(AllocatedUnit(t))
        /\ DOMAIN tool[t].allocated = Endpoints(tool[t].definition.shards)
        /\ \A e \in DOMAIN tool[t].allocated : tool[t].allocated[e] \notin Occupied(tool[t].room)
    /\ tool[t].step = "configured" => cluster[tool[t].room] = tool[t].definition.shards
Reservations == \A t \in Tools : Reservation(t)

DeploymentInv == DeploymentTypes /\ Reservations /\ PublishedPortsAreSound

-----------------------------------------------------------------------------
(* The choice of ports *)

\* The least of a set of numbers is one of them.
LEMMA LeastIsOne ==
    ASSUME NEW T, T \subseteq Nat, T # {}
    PROVE  Min(T) \in T
<1>1. \E m \in T : \A k \in T : m <= k  BY LeastNumber
<1> QED BY <1>1 DEF Min

\* The partial allocations: nothing granted is occupied, unless it was refused.
Partial(V) ==
    {v \in [ok : BOOLEAN, ports : PortMaps, taken : SUBSET (Nat \union V), from : Nat] :
        /\ V \subseteq v.taken
        /\ v.ok => \A e \in DOMAIN v.ports : v.ports[e] \notin V}

\* A port map with one more entry is a port map.
LEMMA PortGranted ==
    ASSUME NEW q \in PortMaps, NEW e \in AllEndpoints, NEW n \in Nat,
           NEW w, w = [x \in DOMAIN q \union {e} |-> IF x = e THEN n ELSE q[x]]
    PROVE  w \in PortMaps /\ \A x \in DOMAIN w : w[x] = n \/ (x \in DOMAIN q /\ w[x] = q[x])
<1>1. PICK D \in SUBSET AllEndpoints : q \in [D -> Nat]  BY DEF PortMaps
<1>2. DOMAIN q = D  BY <1>1
<1>3. w \in [D \union {e} -> Nat] /\ D \union {e} \in SUBSET AllEndpoints  BY <1>1, <1>2
<1> QED BY <1>2, <1>3 DEF PortMaps

\* Granting a port that is free keeps a partial allocation sound.
LEMMA GrantSound ==
    ASSUME NEW V, NEW v \in Partial(V), NEW e \in AllEndpoints, NEW n \in Nat
    PROVE  /\ Grant(v, e, n) \in [ok : BOOLEAN, ports : PortMaps, taken : SUBSET (Nat \union V), from : Nat]
           /\ V \subseteq Grant(v, e, n).taken
           /\ v.ok /\ n \notin v.taken =>
                \A x \in DOMAIN Grant(v, e, n).ports : Grant(v, e, n).ports[x] \notin V
<1>1. v \in [ok : BOOLEAN, ports : PortMaps, taken : SUBSET (Nat \union V), from : Nat]
      /\ V \subseteq v.taken /\ (v.ok => \A x \in DOMAIN v.ports : v.ports[x] \notin V)
  BY DEF Partial
<1> DEFINE w == [x \in DOMAIN v.ports \union {e} |-> IF x = e THEN n ELSE v.ports[x]]
           g == Grant(v, e, n)
<1>2. g = [v EXCEPT !.ports = w, !.taken = v.taken \union {n}]  BY DEF Grant
<1>3. v.ports \in PortMaps /\ v.taken \in SUBSET (Nat \union V)  BY <1>1
<1>4. w \in PortMaps /\ \A x \in DOMAIN w : w[x] = n \/ (x \in DOMAIN v.ports /\ w[x] = v.ports[x])
  BY <1>3, PortGranted
<1>5. v.taken \union {n} \in SUBSET (Nat \union V)  BY <1>3
<1> HIDE DEF w, g
<1>6. g.ports = w /\ g.taken = v.taken \union {n}
      /\ g \in [ok : BOOLEAN, ports : PortMaps, taken : SUBSET (Nat \union V), from : Nat]
  BY <1>1, <1>2, <1>4, <1>5
<1>7. V \subseteq g.taken  BY <1>1, <1>6
<1>8. v.ok /\ n \notin v.taken => \A x \in DOMAIN g.ports : g.ports[x] \notin V
  BY <1>1, <1>4, <1>6
<1> QED BY <1>6, <1>7, <1>8 DEF g

\* A port map has a number for every endpoint of its domain.
LEMMA PortsNatural ==
    ASSUME NEW q \in PortMaps
    PROVE  DOMAIN q \subseteq AllEndpoints /\ \A e \in DOMAIN q : q[e] \in Nat
<1>1. PICK D \in SUBSET AllEndpoints : q \in [D -> Nat]  BY DEF PortMaps
<1> QED BY <1>1

\* One more endpoint: the allocation stays sound or is refused.
LEMMA AllocateOneSound ==
    ASSUME DeploymentTypes, NEW r \in DeployedRooms, NEW requested \in PortMaps, NEW V,
           NEW v \in Partial(V), v.ok, NEW e \in AllEndpoints
    PROVE  AllocateOne(r, requested, v, e) \in Partial(V)
<1> DEFINE old == quadlet[r].ports
           asked == IF e \in DOMAIN requested THEN requested[e] ELSE old[e]
           candidates == {p \in Pool : p >= v.from /\ FreePort(r, p, v.taken)}
           R == [ok : BOOLEAN, ports : PortMaps, taken : SUBSET (Nat \union V), from : Nat]
<1>1. old \in PortMaps  BY DEF DeploymentTypes, Units
<1>2. v \in R /\ V \subseteq v.taken /\ \A x \in DOMAIN v.ports : v.ports[x] \notin V
  BY DEF Partial
<1>3. ASSUME NEW w \in R, V \subseteq w.taken,
             w.ok => \A x \in DOMAIN w.ports : w.ports[x] \notin V
      PROVE  w \in Partial(V)
  BY <1>3 DEF Partial
<1>4. CASE e \in DOMAIN requested \union DOMAIN old
  <2>1. asked \in Nat  BY <1>1, <1>4, PortsNatural
  <2>2. AllocateOne(r, requested, v, e)
           = [Grant(v, e, asked) EXCEPT !.ok = FreePort(r, asked, v.taken)]
    BY <1>4 DEF AllocateOne
  <2> HIDE DEF asked, R
  <2> DEFINE g == Grant(v, e, asked)
             f == FreePort(r, asked, v.taken)
             a == [g EXCEPT !.ok = f]
  <2>3. g \in R /\ V \subseteq g.taken
        /\ (v.ok /\ asked \notin v.taken => \A x \in DOMAIN g.ports : g.ports[x] \notin V)
    BY <2>1, GrantSound DEF R
  <2>4. f \in BOOLEAN /\ (f => asked \notin v.taken)  BY DEF FreePort
  <2> HIDE DEF g, f
  <2>5. a \in R /\ a.ok = f /\ a.taken = g.taken /\ a.ports = g.ports
    BY <2>3, <2>4 DEF R
  <2> HIDE DEF a
  <2>6. a \in Partial(V)  BY <1>3, <2>3, <2>4, <2>5
  <2> QED BY <2>2, <2>6 DEF a, g, f
<1>5. CASE e \notin DOMAIN requested \union DOMAIN old /\ candidates = {}
  <2>1. AllocateOne(r, requested, v, e) = [v EXCEPT !.ok = FALSE]
    BY <1>5 DEF AllocateOne
  <2> DEFINE a == [v EXCEPT !.ok = FALSE]
  <2>2. a \in R /\ a.ok = FALSE /\ a.taken = v.taken  BY <1>2
  <2> HIDE DEF a, R
  <2>3. a \in Partial(V)  BY <1>2, <1>3, <2>2
  <2> QED BY <2>1, <2>3 DEF a
<1>6. CASE e \notin DOMAIN requested \union DOMAIN old /\ candidates # {}
  <2> DEFINE n == Min(candidates)
  <2>1. AllocateOne(r, requested, v, e) = [Grant(v, e, n) EXCEPT !.from = n + 1]
    BY <1>6 DEF AllocateOne
  <2>2. candidates \subseteq Nat  BY DEF Pool
  <2>3. \A p \in candidates : p \notin v.taken  BY DEF FreePort
  <2> HIDE DEF candidates, R
  <2>4. n \in candidates  BY <1>6, <2>2, LeastIsOne
  <2> HIDE DEF n
  <2>5. n \in Nat /\ n \notin v.taken /\ n + 1 \in Nat
    <3>1. n \in Nat  BY <2>2, <2>4, Zenon
    <3>2. n \notin v.taken  BY <2>3, <2>4, Zenon
    <3>3. n + 1 \in Nat  BY ONLY <3>1
    <3> QED BY <3>1, <3>2, <3>3
  <2> DEFINE g == Grant(v, e, n)
             a == [g EXCEPT !.from = n + 1]
  <2>6. g \in R /\ V \subseteq g.taken
        /\ (v.ok /\ n \notin v.taken => \A x \in DOMAIN g.ports : g.ports[x] \notin V)
    BY <2>5, GrantSound DEF R
  <2> HIDE DEF g
  <2>7. a \in R /\ a.taken = g.taken /\ a.ports = g.ports
    BY <2>5, <2>6 DEF R
  <2> HIDE DEF a
  <2>8. a \in Partial(V)  BY <1>3, <2>5, <2>6, <2>7
  <2> QED BY <2>1, <2>8 DEF a, g
<1> QED BY <1>4, <1>5, <1>6

\* The order of the endpoints is a finite sequence of them.
LEMMA EndpointsListed ==
    /\ \E n \in Nat : DOMAIN EndpointOrder = 1 .. n
    /\ \A i \in DOMAIN EndpointOrder : EndpointOrder[i] \in AllEndpoints
<1>1. ShardNames \in Seq(ToSet(ShardNames)) /\ Len(ShardNames) \in Nat
  BY DeploymentAssumption
<1>2. DOMAIN EndpointOrder = 1 .. 2 * Len(ShardNames) /\ 2 * Len(ShardNames) \in Nat
  BY <1>1 DEF EndpointOrder
<1>3. ASSUME NEW i \in DOMAIN EndpointOrder PROVE EndpointOrder[i] \in AllEndpoints
  <2>1. (i + 1) \div 2 \in 1 .. Len(ShardNames)
    <3>1. PICK n \in Nat : n = Len(ShardNames)  BY <1>1
    <3>2. i \in 1 .. 2 * n  BY <1>2, <3>1
    <3>3. (i + 1) \div 2 \in 1 .. n  BY <3>2
    <3> QED BY <3>1, <3>3
  <2>2. ShardNames[(i + 1) \div 2] \in ToSet(ShardNames)  BY <1>1, <2>1
  <2> QED BY <2>2, <1>2 DEF EndpointOrder, AllEndpoints, Endpoints
<1> QED BY <1>2, <1>3

\* An allocation that is not refused grants no occupied port.
LEMMA AllocateSound ==
    ASSUME DeploymentTypes, NEW r \in DeployedRooms, NEW requested \in PortMaps, NEW shards
    PROVE  Allocate(r, shards, requested) \in Partial(Occupied(r))
<1> DEFINE V == Partial(Occupied(r))
           S == DOMAIN EndpointOrder
           b == [ok |-> DOMAIN requested \subseteq Endpoints(shards),
                 ports |-> NoPorts, taken |-> Occupied(r), from |-> 1]
           Op(e, v) == IF v.ok /\ e \in Endpoints(shards)
                       THEN AllocateOne(r, requested, v, e) ELSE v
           o == [q \in S \X V |-> Op(EndpointOrder[q[1]], q[2])]
           p == [s \in SUBSET S |-> Max(s)]
           Iter(g) == g = [s \in SUBSET S |-> IF s = {} THEN b
                              ELSE Op(EndpointOrder[Max(s)], g[s \ {Max(s)}])]
<1>0. Allocate(r, shards, requested) = (CHOOSE g : Iter(g))[S]
  BY DEF Allocate, FoldLeft, MapThenFoldSet
<1>1. b \in V
  <2>1. NoPorts \in [{} -> Nat]  BY DEF NoPorts
  <2>2. NoPorts \in PortMaps /\ DOMAIN NoPorts = {}  BY <2>1 DEF PortMaps
  <2>3. Occupied(r) \in SUBSET (Nat \union Occupied(r))  OBVIOUS
  <2> HIDE DEF V
  <2>4. b \in [ok : BOOLEAN, ports : PortMaps, taken : SUBSET (Nat \union Occupied(r)), from : Nat]
    BY <2>2, <2>3
  <2> QED BY <2>2, <2>4 DEF V, Partial
<1>2. \A s \in SUBSET S : s # {} => p[s] \in s
  BY EndpointsListed, GreatestNumber
<1>3. \A i \in S, v \in V : Op(EndpointOrder[i], v) \in V
  BY EndpointsListed, AllocateOneSound
<1>4. IsFiniteSet(S)  BY EndpointsListed, FS_Interval
<1> HIDE DEF V, S, b, Op
<1>5. o \in [S \X V -> V]  BY <1>3
<1>o. \A i \in S, v \in V : o[i, v] = Op(EndpointOrder[i], v)  OBVIOUS
<1>p. \A s \in SUBSET S : p[s] = Max(s)  OBVIOUS
<1> HIDE DEF o, p
<1>6. PICK f : FoldsTo(S, f, V, b, o, p)
  BY <1>1, <1>2, <1>4, <1>5, FoldExists
<1>7. f \in [SUBSET S -> V]  BY <1>6 DEF FoldsTo
<1>8. ASSUME NEW s \in SUBSET S, s # {}
      PROVE  f[s] = Op(EndpointOrder[Max(s)], f[s \ {Max(s)}])
  <2>1. f[s] = o[p[s], f[s \ {p[s]}]]  BY <1>6, <1>8 DEF FoldsTo
  <2>2. p[s] \in S /\ f[s \ {p[s]}] \in V  BY <1>2, <1>7, <1>8
  <2>3. o[p[s], f[s \ {p[s]}]] = Op(EndpointOrder[p[s]], f[s \ {p[s]}])  BY <1>o, <2>2
  <2> QED BY <2>1, <2>3, <1>p, <1>8
<1>9. f[{}] = b  BY <1>6 DEF FoldsTo
<1>10. Iter(f)  BY <1>7, <1>8, <1>9
<1> DEFINE it == CHOOSE g : Iter(g)
<1>11. Iter(it)  BY <1>10
<1> HIDE DEF it
<1>12. \A s \in SUBSET S : it[s] = IF s = {} THEN b
                                ELSE Op(EndpointOrder[Max(s)], it[s \ {Max(s)}])
  BY <1>11
<1> DEFINE P == {s \in SUBSET S : it[s] \in V}
<1>13. {} \in P
  <2>1. it[{}] = b  BY <1>12
  <2> QED BY <2>1, <1>1
<1>14. ASSUME NEW s \in SUBSET S, s # {} PROVE \E x \in s : s \ {x} \in P => s \in P
  <2> DEFINE c == Max(s)
  <2>1. c \in s  BY <1>2, <1>14, <1>p
  <2>2. it[s] = Op(EndpointOrder[c], it[s \ {c}])  BY <1>12, <1>14
  <2> HIDE DEF c
  <2>3. s \ {c} \in P => s \in P  BY <1>3, <2>1, <2>2
  <2> QED BY <2>1, <2>3
<1>15. SUBSET S \subseteq P
  <2> HIDE DEF P
  <2> QED BY <1>4, <1>13, <1>14, SubsetInduction
<1>16. it[S] \in V  BY <1>15
<1> QED BY <1>0, <1>16 DEF it, V

-----------------------------------------------------------------------------
(* The steps *)

\* An empty map publishes nothing.
LEMMA NothingPublished ==
    /\ NoPorts \in PortMaps /\ DOMAIN NoPorts = {} /\ NoUnit \in Units /\ IdleTool \in ToolStates
    /\ PortsOf(NoUnit) = {} /\ ValidOptions(NoUnit)
<1>1. NoPorts \in [{} -> Nat]  BY DEF NoPorts
<1>2. NoPorts \in PortMaps /\ DOMAIN NoPorts = {}  BY <1>1 DEF PortMaps
<1>3. NoUnit \in Units /\ NoUnit.ports = NoPorts  BY <1>2 DEF NoUnit, Units
<1>4. NoDefinition \in Definitions  BY <1>3 DEF NoDefinition, Definitions
<1>5. IdleTool \in ToolStates  BY <1>2, <1>4 DEF IdleTool, ToolStates
<1>6. PortsOf(NoUnit) = {} /\ DOMAIN NoUnit.ports = {}  BY <1>2, <1>3 DEF PortsOf
<1>7. ValidOptions(NoUnit)  BY <1>6 DEF ValidOptions
<1> QED BY <1>2, <1>3, <1>5, <1>6, <1>7

\* Nothing is published at first.
LEMMA DeploymentStarts == DeploymentInit => DeploymentInv
<1> SUFFICES ASSUME DeploymentInit PROVE DeploymentInv
  OBVIOUS
<1>1. DeploymentTypes  BY NothingPublished DEF DeploymentInit, DeploymentTypes
<1>2. \A t \in Tools : tool[t].step = "idle"  BY DEF DeploymentInit, IdleTool
<1>3. Reservations  BY <1>2 DEF Reservations, Reservation, Holds
<1>4. \A r \in DeployedRooms : quadlet[r] = NoUnit /\ cluster[r] = {}  BY DEF DeploymentInit
<1>5. Endpoints({}) = {} /\ DOMAIN NoUnit.ports = {}
  BY NothingPublished DEF Endpoints, NoUnit
<1>6. PublishedPortsAreSound
  BY <1>4, <1>5, NothingPublished DEF PublishedPortsAreSound
<1> QED BY <1>1, <1>3, <1>6 DEF DeploymentInv

\* Only the holder of a reservation changes what is published; what else a tool does
\* leaves the reservations of the others alone.
LEMMA ElsewhereKeeps ==
    ASSUME DeploymentInv, NEW t \in Tools, UNCHANGED <<cluster, quadlet, cut>>,
           tool' \in [Tools -> ToolStates], \A u \in Tools : u # t => tool'[u] = tool[u],
           tool'[t].step \notin {"reserved", "configured"},
           tool'[t].step # "idle" => tool'[t].room \in DeployedRooms,
           hostLock' = hostLock \/ hostLock' = (IF hostLock = t THEN None ELSE hostLock)
    PROVE  DeploymentInv'
<1>1. DeploymentTypes'  BY DEF DeploymentInv, DeploymentTypes
<1>2. PublishedPortsAreSound'  BY DEF DeploymentInv, PublishedPortsAreSound
<1>3. Reservations'
  <2> SUFFICES ASSUME NEW u \in Tools PROVE Reservation(u)'
    BY DEF Reservations
  <2>1. CASE u = t  BY <2>1 DEF Holds, Reservation
  <2>2. CASE u # t
    <3>1. tool'[u] = tool[u]  BY <2>2
    <3>2. ValidOptions(AllocatedUnit(u))' = ValidOptions(AllocatedUnit(u)) /\ Holds(u)' = Holds(u)
      BY <3>1 DEF AllocatedUnit, Holds, ValidOptions, PortsOf
    <3>3. Occupied(tool[u].room)' = Occupied(tool[u].room)
      BY <3>1 DEF Occupied, PortsOf
    <3>4. Reservation(u)  BY DEF DeploymentInv, Reservations
    <3>5. Holds(u) => hostLock' = u  BY <2>2, <3>4 DEF Reservation
    <3> QED BY <3>1, <3>2, <3>3, <3>4, <3>5 DEF Reservation
  <2> QED BY <2>1, <2>2
<1> QED BY <1>1, <1>2, <1>3 DEF DeploymentInv

\* Beginning a save, waiting for locks and giving up.
LEMMA BeginKeeps ==
    ASSUME DeploymentInv, NEW t \in Tools, NEW r \in DeployedRooms,
           NEW shards \in SUBSET ToSet(ShardNames), NEW image \in Images,
           \/ \E fixed \in {NoPorts, FixedPorts(shards)} : Create(t, r, shards, image, fixed)
           \/ \E keep \in BOOLEAN : LoadForEdit(t, r, shards, image, keep)
    PROVE  DeploymentInv'
<1> USE DEF DeploymentInv
<1>1. PICK q \in PortMaps, s \in {"locked", "loaded"} :
         tool' = [tool EXCEPT ![t] =
            [step |-> s, room |-> r, allocated |-> NoPorts,
             definition |-> [shards |-> shards, unit |-> [ports |-> q, image |-> image]]]]
  <2>1. FixedPorts(shards) \in PortMaps
    <3>1. Endpoints(shards) \in SUBSET AllEndpoints  BY DEF Endpoints, AllEndpoints
    <3>2. FixedPorts(shards) \in [Endpoints(shards) -> Nat]  BY DEF FixedPorts
    <3> QED BY <3>1, <3>2 DEF PortMaps
  <2>2. quadlet[r].ports \in PortMaps  BY DEF DeploymentTypes, Units
  <2> QED BY <2>1, <2>2, NothingPublished DEF Create, LoadForEdit
<1> DEFINE c == [step |-> s, room |-> r, allocated |-> NoPorts,
                 definition |-> [shards |-> shards, unit |-> [ports |-> q, image |-> image]]]
<1>2. [ports |-> q, image |-> image] \in Units  BY DEF Units
<1>3. [shards |-> shards, unit |-> [ports |-> q, image |-> image]] \in Definitions
  BY <1>2 DEF Definitions
<1>4. c \in ToolStates  BY <1>3, NothingPublished DEF ToolStates
<1>5. c.step = s /\ c.room = r  OBVIOUS
<1> HIDE DEF c
<1>6. tool' = [tool EXCEPT ![t] = c]  BY <1>1 DEF c
<1>7. tool' \in [Tools -> ToolStates] /\ tool'[t] = c /\ \A u \in Tools : u # t => tool'[u] = tool[u]
  BY <1>4, <1>6 DEF DeploymentTypes
<1>8. UNCHANGED <<cluster, quadlet, cut>> /\ hostLock' = hostLock  BY DEF Create, LoadForEdit
<1>9. tool'[t].step \notin {"reserved", "configured"} /\ tool'[t].room \in DeployedRooms
  BY <1>5, <1>7
<1> QED BY <1>7, <1>8, <1>9, ElsewhereKeeps

\* The locks, and the end of a tool.
LEMMA WaitKeeps ==
    ASSUME DeploymentInv, NEW t \in Tools, LockForEdit(t) \/ RequireInactive(t) \/ GiveUp(t)
    PROVE  DeploymentInv'
<1> USE DEF DeploymentInv
<1>1. UNCHANGED <<cluster, quadlet, cut>>  BY DEF LockForEdit, RequireInactive, GiveUp
<1>2. CASE LockForEdit(t) \/ RequireInactive(t)
  <2>1. PICK s \in {"locked", "inactive"} : tool' = [tool EXCEPT ![t].step = s]
    BY <1>2 DEF LockForEdit, RequireInactive, Become
  <2>2. tool[t] \in ToolStates /\ tool[t].step # "idle"
    BY <1>2 DEF LockForEdit, RequireInactive, DeploymentTypes
  <2>3. tool[t].room \in DeployedRooms  BY <2>2 DEF Reservations, Reservation
  <2>4. tool' \in [Tools -> ToolStates] /\ tool'[t].step = s /\ tool'[t].room = tool[t].room
        /\ \A u \in Tools : u # t => tool'[u] = tool[u]
    BY <2>1, <2>2 DEF DeploymentTypes, ToolStates
  <2>5. hostLock' = hostLock  BY <1>2 DEF LockForEdit, RequireInactive
  <2> QED BY <1>1, <2>3, <2>4, <2>5, ElsewhereKeeps
<1>3. CASE GiveUp(t)
  <2>1. tool' = [tool EXCEPT ![t] = IdleTool]
        /\ hostLock' = IF hostLock = t THEN None ELSE hostLock
    BY <1>3 DEF GiveUp, ReleaseLocks
  <2>2. tool' \in [Tools -> ToolStates] /\ tool'[t].step = "idle"
        /\ \A u \in Tools : u # t => tool'[u] = tool[u]
    BY <2>1, NothingPublished DEF DeploymentTypes, IdleTool
  <2> QED BY <1>1, <2>1, <2>2, ElsewhereKeeps
<1> QED BY <1>2, <1>3

\* A reservation takes the lock of the host, which nobody has, and ports that nobody
\* publishes.
LEMMA ReserveKeeps ==
    ASSUME DeploymentInv, NEW t \in Tools, Reserve(t)
    PROVE  DeploymentInv'
<1> USE DEF DeploymentInv
<1> DEFINE r == tool[t].room
           shards == tool[t].definition.shards
           chosen == Allocate(r, shards, tool[t].definition.unit.ports)
           unit == [tool[t].definition.unit EXCEPT !.ports = chosen.ports]
<1>1. tool[t].step = "inactive" /\ hostLock = None /\ chosen.ok /\ ForCluster(unit, shards)
      /\ hostLock' = t
      /\ tool' = [tool EXCEPT ![t].step = "reserved", ![t].allocated = chosen.ports]
      /\ UNCHANGED <<cluster, quadlet, cut>>
  BY DEF Reserve, HostLockFree
<1>2. tool[t] \in ToolStates /\ r \in DeployedRooms  BY <1>1 DEF DeploymentTypes, Reservations, Reservation
<1>3. tool[t].definition.unit \in Units /\ tool[t].definition.unit.ports \in PortMaps
  BY <1>2 DEF ToolStates, Definitions, Units
<1>4. chosen \in Partial(Occupied(r))  BY <1>2, <1>3, AllocateSound
<1> HIDE DEF chosen, r
<1>5. chosen.ports \in PortMaps /\ \A e \in DOMAIN chosen.ports : chosen.ports[e] \notin Occupied(r)
  BY <1>1, <1>4 DEF Partial
<1>6. unit.ports = chosen.ports  BY <1>3 DEF Units
<1> HIDE DEF shards
<1>7. tool' \in [Tools -> ToolStates] /\ tool'[t].step = "reserved"
      /\ tool'[t].allocated = chosen.ports /\ tool'[t].room = tool[t].room
      /\ tool'[t].definition = tool[t].definition
      /\ \A u \in Tools : u # t => tool'[u] = tool[u]
  BY <1>1, <1>2, <1>5 DEF DeploymentTypes, ToolStates
<1>8. AllocatedUnit(t)' = unit  BY <1>7 DEF AllocatedUnit
<1>9. ValidOptions(unit) /\ DOMAIN chosen.ports = Endpoints(shards)
  BY <1>1, <1>6 DEF ForCluster
<1>10. \A u \in Tools : ~Holds(u)
  BY <1>1, DeploymentAssumption DEF Reservations, Reservation
<1>11. DeploymentTypes'  BY <1>1, <1>7 DEF DeploymentTypes
<1>12. PublishedPortsAreSound'  BY <1>1 DEF PublishedPortsAreSound
<1>13. Reservations'
  <2> SUFFICES ASSUME NEW u \in Tools PROVE Reservation(u)'
    BY DEF Reservations
  <2>1. CASE u = t
    <3>1. Occupied(tool[t].room)' = Occupied(r)  BY <1>1, <1>7 DEF Occupied, r, PortsOf
    <3>2. Endpoints(tool'[t].definition.shards) = Endpoints(shards)  BY <1>7 DEF shards
    <3>3. tool'[t].room \in DeployedRooms  BY <1>2, <1>7 DEF r
    <3>4. ValidOptions(AllocatedUnit(t))'  BY <1>8, <1>9 DEF ValidOptions, PortsOf
    <3> QED BY <2>1, <1>1, <1>5, <1>7, <1>9, <3>1, <3>2, <3>3, <3>4 DEF Reservation
  <2>2. CASE u # t
    <3>1. tool'[u] = tool[u] /\ ~Holds(u)  BY <2>2, <1>7, <1>10
    <3>2. Reservation(u)  BY DEF Reservations
    <3> QED BY <3>1, <3>2, <1>1 DEF Holds, Reservation
  <2> QED BY <2>1, <2>2
<1> QED BY <1>11, <1>12, <1>13

\* The configuration is saved first: the room counts as cut until its unit follows.
LEMMA SaveClusterKeeps ==
    ASSUME DeploymentInv, NEW t \in Tools, SaveCluster(t)
    PROVE  DeploymentInv'
<1> USE DEF DeploymentInv
<1> DEFINE r == tool[t].room
<1>1. tool[t].step = "reserved" /\ cluster' = [cluster EXCEPT ![r] = tool[t].definition.shards]
      /\ cut' = cut \union {r} /\ tool' = [tool EXCEPT ![t].step = "configured"]
      /\ hostLock' = hostLock /\ quadlet' = quadlet
  BY DEF SaveCluster, Become
<1>2. Reservation(t) /\ Holds(t)  BY <1>1 DEF Reservations, Holds
<1>3. tool[t] \in ToolStates /\ r \in DeployedRooms /\ tool[t].definition.shards \in SUBSET ToSet(ShardNames)
  BY <1>1, <1>2 DEF DeploymentTypes, Reservation, ToolStates, Definitions
<1>4. tool' \in [Tools -> ToolStates] /\ tool'[t].step = "configured"
      /\ tool'[t].allocated = tool[t].allocated /\ tool'[t].room = tool[t].room
      /\ tool'[t].definition = tool[t].definition
      /\ \A u \in Tools : u # t => tool'[u] = tool[u]
  BY <1>1, <1>3 DEF DeploymentTypes, ToolStates
<1>5. cluster' \in [DeployedRooms -> SUBSET ToSet(ShardNames)]
      /\ cluster'[r] = tool[t].definition.shards
      /\ \A o \in DeployedRooms : o # r => cluster'[o] = cluster[o]
  BY <1>1, <1>3 DEF DeploymentTypes
<1>6. DeploymentTypes'  BY <1>1, <1>4, <1>5 DEF DeploymentTypes
<1>7. PublishedPortsAreSound'
  <2>1. \A o \in DeployedRooms : o \notin cut' => o \notin cut /\ cluster'[o] = cluster[o]
    BY <1>1, <1>5
  <2> QED BY <1>1, <2>1 DEF PublishedPortsAreSound
<1>8. \A u \in Tools : u # t => ~Holds(u)
  BY <1>2 DEF Reservations, Reservation
<1>9. Reservations'
  <2> SUFFICES ASSUME NEW u \in Tools PROVE Reservation(u)'
    BY DEF Reservations
  <2>1. CASE u = t
    <3>1. Occupied(tool[t].room)' = Occupied(tool[t].room)  BY <1>1, <1>4 DEF Occupied, PortsOf
    <3>2. ValidOptions(AllocatedUnit(t))' = ValidOptions(AllocatedUnit(t))
      BY <1>4 DEF AllocatedUnit, ValidOptions, PortsOf
    <3> QED BY <2>1, <1>1, <1>2, <1>3, <1>4, <1>5, <3>1, <3>2 DEF Reservation
  <2>2. CASE u # t
    <3>1. tool'[u] = tool[u] /\ ~Holds(u) /\ Reservation(u)  BY <2>2, <1>4, <1>8 DEF Reservations
    <3> QED BY <3>1 DEF Holds, Reservation
  <2> QED BY <2>1, <2>2
<1> QED BY <1>6, <1>7, <1>9

\* The unit that is saved publishes what was reserved for the shards that were saved.
LEMMA SaveUnitKeeps ==
    ASSUME DeploymentInv, NEW t \in Tools, SaveUnit(t)
    PROVE  DeploymentInv'
<1> USE DEF DeploymentInv
<1> DEFINE r == tool[t].room
           unit == AllocatedUnit(t)
<1>1. tool[t].step = "configured" /\ quadlet' = [quadlet EXCEPT ![r] = unit]
      /\ cut' = cut \ {r} /\ tool' = [tool EXCEPT ![t] = IdleTool]
      /\ hostLock' = (IF hostLock = t THEN None ELSE hostLock) /\ cluster' = cluster
  BY DEF SaveUnit, ReleaseLocks
<1>2. Reservation(t) /\ Holds(t)  BY <1>1 DEF Reservations, Holds
<1>3. tool[t] \in ToolStates /\ r \in DeployedRooms
  BY <1>1, <1>2 DEF DeploymentTypes, Reservation
<1>4. tool[t].allocated \in PortMaps /\ tool[t].definition.unit \in Units
  BY <1>3 DEF ToolStates, Definitions
<1>5. unit \in Units /\ unit.ports = tool[t].allocated
  BY <1>4 DEF AllocatedUnit, Units
<1>6. /\ ValidOptions(unit) /\ DOMAIN unit.ports = Endpoints(cluster[r])
      /\ PortsOf(unit) \cap Occupied(r) = {}
  BY <1>1, <1>2, <1>5 DEF Reservation, PortsOf
<1> HIDE DEF unit, r
<1>7. quadlet' \in [DeployedRooms -> Units] /\ quadlet'[r] = unit
      /\ \A o \in DeployedRooms : o # r => quadlet'[o] = quadlet[o]
  BY <1>1, <1>3, <1>5 DEF DeploymentTypes
<1>8. tool' \in [Tools -> ToolStates] /\ tool'[t] = IdleTool
      /\ \A u \in Tools : u # t => tool'[u] = tool[u]
  BY <1>1, NothingPublished DEF DeploymentTypes
<1>9. DeploymentTypes'  BY <1>1, <1>7, <1>8 DEF DeploymentTypes
<1>10. PublishedPortsAreSound'
  <2>1. PortsOf(unit) \cap UnrelatedPorts = {}
        /\ \A o \in DeployedRooms : o # r => PortsOf(unit) \cap PortsOf(quadlet[o]) = {}
    BY <1>6 DEF Occupied
  <2>2. ASSUME NEW o \in DeployedRooms
        PROVE  /\ ValidOptions(quadlet'[o]) /\ PortsOf(quadlet'[o]) \cap UnrelatedPorts = {}
               /\ o \notin cut' => DOMAIN quadlet'[o].ports = Endpoints(cluster'[o])
    <3>1. CASE o = r  BY <3>1, <2>1, <1>1, <1>6, <1>7
    <3>2. CASE o # r  BY <3>2, <1>1, <1>7 DEF PublishedPortsAreSound
    <3> QED BY <3>1, <3>2
  <2>3. ASSUME NEW o \in DeployedRooms, NEW w \in DeployedRooms, o # w
        PROVE  PortsOf(quadlet'[o]) \cap PortsOf(quadlet'[w]) = {}
    <3>1. CASE o = r  BY <3>1, <2>1, <2>3, <1>7
    <3>2. CASE w = r  BY <3>2, <2>1, <2>3, <1>7
    <3>3. CASE o # r /\ w # r  BY <3>3, <2>3, <1>7 DEF PublishedPortsAreSound
    <3> QED BY <3>1, <3>2, <3>3
  <2> QED BY <2>2, <2>3 DEF PublishedPortsAreSound
<1>11. \A u \in Tools : u # t => ~Holds(u)
  BY <1>2 DEF Reservations, Reservation
<1>12. Reservations'
  <2> SUFFICES ASSUME NEW u \in Tools PROVE Reservation(u)'
    BY DEF Reservations
  <2>1. CASE u = t
    <3>1. tool'[u].step = "idle"  BY <2>1, <1>8 DEF IdleTool
    <3> QED BY <3>1 DEF Reservation, Holds
  <2>2. CASE u # t
    <3>1. tool'[u] = tool[u] /\ ~Holds(u) /\ Reservation(u)  BY <2>2, <1>8, <1>11 DEF Reservations
    <3> QED BY <3>1 DEF Holds, Reservation
  <2> QED BY <2>1, <2>2
<1> QED BY <1>9, <1>10, <1>12

\* Services that start and stop change nothing that is reserved or published.
LEMMA NothingKeeps ==
    ASSUME DeploymentInv, UNCHANGED <<tool, hostLock, cluster, quadlet, cut>>
    PROVE  DeploymentInv'
<1>1. DeploymentTypes'  BY DEF DeploymentInv, DeploymentTypes
<1>2. PublishedPortsAreSound'  BY DEF DeploymentInv, PublishedPortsAreSound
<1>3. ASSUME NEW t \in Tools PROVE Reservation(t)'
  <2>1. ValidOptions(AllocatedUnit(t))' = ValidOptions(AllocatedUnit(t)) /\ Holds(t)' = Holds(t)
    BY DEF AllocatedUnit, Holds, ValidOptions, PortsOf
  <2>2. Occupied(tool[t].room)' = Occupied(tool[t].room)
    BY DEF Occupied, PortsOf
  <2>3. Reservation(t)  BY DEF DeploymentInv, Reservations
  <2> QED BY <2>1, <2>2, <2>3 DEF Reservation
<1> QED BY <1>1, <1>2, <1>3 DEF DeploymentInv, Reservations

\* Every step keeps the invariant.
LEMMA DeploymentStep == DeploymentInv /\ [DeploymentNext]_deploymentVars => DeploymentInv'
<1> SUFFICES ASSUME DeploymentInv, [DeploymentNext]_deploymentVars PROVE DeploymentInv'
  OBVIOUS
<1>1. CASE DeploymentNext
  <2>1. ASSUME NEW t \in Tools, NEW r \in DeployedRooms,
               NEW shards \in SUBSET ToSet(ShardNames) \ {{}}, NEW image \in Images,
               \/ \E fixed \in {NoPorts, FixedPorts(shards)} : Create(t, r, shards, image, fixed)
               \/ \E keep \in BOOLEAN : LoadForEdit(t, r, shards, image, keep)
        PROVE  DeploymentInv'
    <3>1. shards \in SUBSET ToSet(ShardNames)  OBVIOUS
    <3> QED BY <2>1, <3>1, BeginKeeps
  <2>2. ASSUME NEW t \in Tools,
               \/ LockForEdit(t) \/ RequireInactive(t) \/ Reserve(t)
               \/ SaveCluster(t) \/ SaveUnit(t) \/ GiveUp(t)
        PROVE  DeploymentInv'
    BY <2>2, WaitKeeps, ReserveKeeps, SaveClusterKeeps, SaveUnitKeeps
  <2>3. ASSUME NEW r \in DeployedRooms, ServiceUp(r) \/ ServiceDown(r)
        PROVE  DeploymentInv'
    <3>1. UNCHANGED <<tool, hostLock, cluster, quadlet, cut>>  BY <2>3 DEF ServiceUp, ServiceDown
    <3> QED BY <3>1, NothingKeeps
  <2> QED BY <1>1, <2>1, <2>2, <2>3 DEF DeploymentNext
<1>2. CASE UNCHANGED deploymentVars
  BY <1>2, NothingKeeps DEF deploymentVars
<1> QED BY <1>1, <1>2

\* However the tools of a host interleave, fail or die between the configuration and
\* the Quadlet, no host port is published twice, and a Quadlet publishes exactly the
\* ports of the shards its room is configured with unless its save was cut short
\* (PortAllocation::reserve, save_locked).
THEOREM PublishedSound == DeploymentSpec => []PublishedPortsAreSound
<1>1. DeploymentInv => PublishedPortsAreSound  BY DEF DeploymentInv
<1> QED BY <1>1, DeploymentStarts, DeploymentStep, PTL DEF DeploymentSpec

-----------------------------------------------------------------------------
(* Archives *)

-----------------------------------------------------------------------------
(* The digits of a player *)

Bit == 0 .. 1
IdDigit == 0 .. 63

\* What the recursion of Value does: one bit more doubles what was there.
LEMMA ValueUnfolds ==
    ASSUME NEW bits \in Seq(Bit)
    PROVE  \E v : /\ Value(bits) = v[1 .. Len(bits)] /\ v[{}] = 0
                  /\ \A s \in SUBSET (1 .. Len(bits)) : v[s] \in Nat
                  /\ \A s \in SUBSET (1 .. Len(bits)) : s # {} =>
                         v[s] = 2 * v[s \ {Max(s)}] + bits[Max(s)]
<1> DEFINE S == DOMAIN bits
           Op(x, v) == 2 * v + x
           o == [q \in S \X Nat |-> Op(bits[q[1]], q[2])]
           p == [s \in SUBSET S |-> Max(s)]
           Iter(g) == g = [s \in SUBSET S |-> IF s = {} THEN 0
                              ELSE Op(bits[Max(s)], g[s \ {Max(s)}])]
<1>0. Value(bits) = (CHOOSE g : Iter(g))[S]
  BY DEF Value, FoldLeft, MapThenFoldSet
<1>1. S = 1 .. Len(bits) /\ Len(bits) \in Nat  OBVIOUS
<1>2. \A s \in SUBSET S : s # {} => p[s] \in s
  BY <1>1, GreatestNumber
<1>3. \A i \in S, v \in Nat : Op(bits[i], v) \in Nat
  BY DEF Bit
<1>4. IsFiniteSet(S)  BY <1>1, FS_Interval
<1> HIDE DEF S, Op
<1>5. o \in [S \X Nat -> Nat]  BY <1>3
<1>o. \A i \in S, v \in Nat : o[i, v] = Op(bits[i], v)  OBVIOUS
<1>p. \A s \in SUBSET S : p[s] = Max(s)  OBVIOUS
<1> HIDE DEF o, p
<1>6. PICK f : FoldsTo(S, f, Nat, 0, o, p)
  BY <1>2, <1>4, <1>5, FoldExists
<1>7. f \in [SUBSET S -> Nat]  BY <1>6 DEF FoldsTo
<1>8. ASSUME NEW s \in SUBSET S, s # {}
      PROVE  f[s] = Op(bits[Max(s)], f[s \ {Max(s)}])
  <2>1. f[s] = o[p[s], f[s \ {p[s]}]]  BY <1>6, <1>8 DEF FoldsTo
  <2>2. p[s] \in S /\ f[s \ {p[s]}] \in Nat  BY <1>2, <1>7, <1>8
  <2>3. o[p[s], f[s \ {p[s]}]] = Op(bits[p[s]], f[s \ {p[s]}])  BY <1>o, <2>2
  <2> QED BY <2>1, <2>3, <1>p, <1>8
<1>9. f[{}] = 0  BY <1>6 DEF FoldsTo
<1>10. Iter(f)  BY <1>7, <1>8, <1>9
<1> DEFINE it == CHOOSE g : Iter(g)
<1>11. Iter(it)  BY <1>10
<1> HIDE DEF it
<1>12. \A s \in SUBSET S : it[s] = IF s = {} THEN 0
                                ELSE Op(bits[Max(s)], it[s \ {Max(s)}])
  BY <1>11
<1> DEFINE P == {s \in SUBSET S : it[s] \in Nat}
<1>13. {} \in P
  <2>1. it[{}] = 0  BY <1>12
  <2> QED BY <2>1
<1>14. ASSUME NEW s \in SUBSET S, s # {} PROVE \E x \in s : s \ {x} \in P => s \in P
  <2> DEFINE c == Max(s)
  <2>1. c \in s  BY <1>2, <1>14, <1>p
  <2>2. it[s] = Op(bits[c], it[s \ {c}])  BY <1>12, <1>14
  <2> HIDE DEF c
  <2>3. s \ {c} \in P => s \in P  BY <1>3, <2>1, <2>2
  <2> QED BY <2>1, <2>3
<1>15. SUBSET S \subseteq P
  <2> HIDE DEF P
  <2> QED BY <1>4, <1>13, <1>14, SubsetInduction
<1>16. Value(bits) = it[S] /\ it[{}] = 0 /\ \A s \in SUBSET S : it[s] \in Nat
  BY <1>0, <1>12, <1>15 DEF it
<1>17. \A s \in SUBSET S : s # {} => it[s] = 2 * it[s \ {Max(s)}] + bits[Max(s)]
  BY <1>12 DEF Op
<1> QED BY <1>1, <1>16, <1>17

\* The greatest number of an interval is its last one.
LEMMA GreatestOfInterval ==
    ASSUME NEW n \in Nat, n > 0
    PROVE  Max(1 .. n) = n /\ (1 .. n) \ {n} = 1 .. n - 1
<1>1. Max(1 .. n) \in 1 .. n
  <2>1. 1 \in 1 .. n  OBVIOUS
  <2>2. 1 .. n \in SUBSET (1 .. n) /\ 1 .. n # {}  BY <2>1
  <2> QED BY <2>2, GreatestNumber
<1>2. \E x \in 1 .. n : \A y \in 1 .. n : x >= y
  <2> WITNESS n \in 1 .. n
  <2> QED OBVIOUS
<1>3. Max(1 .. n) >= n  BY <1>2 DEF Max
<1> QED BY <1>1, <1>3

\* The value of up to six bits.
LEMMA ValueOfBits ==
    ASSUME NEW bits \in Seq(Bit)
    PROVE  /\ Len(bits) = 5 => Value(bits) = 16 * bits[1] + 8 * bits[2] + 4 * bits[3]
                                              + 2 * bits[4] + bits[5]
           /\ Len(bits) = 6 => Value(bits) = 32 * bits[1] + 16 * bits[2] + 8 * bits[3]
                                              + 4 * bits[4] + 2 * bits[5] + bits[6]
<1> DEFINE n == Len(bits)
<1>0. n \in Nat  OBVIOUS
<1>1. PICK v : /\ Value(bits) = v[1 .. n] /\ v[{}] = 0
               /\ \A s \in SUBSET (1 .. n) : v[s] \in Nat
               /\ \A s \in SUBSET (1 .. n) : s # {} =>
                         v[s] = 2 * v[s \ {Max(s)}] + bits[Max(s)]
  BY ValueUnfolds
<1> HIDE DEF n
<1>2. ASSUME NEW k \in 1 .. n PROVE v[1 .. k] = 2 * v[1 .. k - 1] + bits[k] /\ v[1 .. k - 1] \in Nat
  <2>1. 1 .. k \in SUBSET (1 .. n) /\ 1 .. k # {} /\ k \in Nat /\ k > 0 /\ 1 .. k - 1 \in SUBSET (1 .. n)
    BY <1>0
  <2>2. Max(1 .. k) = k /\ (1 .. k) \ {k} = 1 .. k - 1  BY <2>1, GreatestOfInterval
  <2> QED BY <1>1, <2>1, <2>2
<1> DEFINE w == [k \in 0 .. n |-> v[1 .. k]]
<1>3. w[0] = 0
  <2>1. 1 .. 0 = {} OBVIOUS
  <2> QED BY <1>0, <1>1, <2>1
<1>4. ASSUME NEW k \in 1 .. n, NEW j \in 0 .. n, j = k - 1 PROVE w[k] = 2 * w[j] + bits[k]
  BY <1>0, <1>2, <1>4
<1>5. \A i \in 1 .. n : bits[i] \in Int
  BY DEF n, Bit
<1>6. Value(bits) = w[n]  BY <1>0, <1>1
<1> HIDE DEF w
<1>7. n >= 5 => \E a, b, c, d, e \in Int :
          /\ bits[1] = a /\ bits[2] = b /\ bits[3] = c /\ bits[4] = d /\ bits[5] = e
          /\ w[5] = 2 * (2 * (2 * (2 * (2 * 0 + a) + b) + c) + d) + e
  <2> SUFFICES ASSUME n >= 5
               PROVE  /\ bits[1] \in Int /\ bits[2] \in Int /\ bits[3] \in Int /\ bits[4] \in Int
                      /\ bits[5] \in Int
                      /\ w[5] = 2 * (2 * (2 * (2 * (2 * 0 + bits[1]) + bits[2]) + bits[3])
                                      + bits[4]) + bits[5]
    OBVIOUS
  <2>0. 1 \in 1 .. n /\ 2 \in 1 .. n /\ 3 \in 1 .. n /\ 4 \in 1 .. n /\ 5 \in 1 .. n
        /\ 0 \in 0 .. n /\ 1 \in 0 .. n /\ 2 \in 0 .. n /\ 3 \in 0 .. n /\ 4 \in 0 .. n
    BY <1>0
  <2>1. w[1] = 2 * w[0] + bits[1]  BY <1>4, <2>0
  <2>2. w[2] = 2 * w[1] + bits[2]  BY <1>4, <2>0
  <2>3. w[3] = 2 * w[2] + bits[3]  BY <1>4, <2>0
  <2>4. w[4] = 2 * w[3] + bits[4]  BY <1>4, <2>0
  <2>5. w[5] = 2 * w[4] + bits[5]  BY <1>4, <2>0
  <2>6. bits[1] \in Int /\ bits[2] \in Int /\ bits[3] \in Int /\ bits[4] \in Int /\ bits[5] \in Int
    BY <1>5, <2>0
  <2> QED BY <1>3, <2>1, <2>2, <2>3, <2>4, <2>5, <2>6
<1>8. n = 5 => Value(bits) = 16 * bits[1] + 8 * bits[2] + 4 * bits[3] + 2 * bits[4] + bits[5]
  <2> SUFFICES ASSUME n = 5
               PROVE  Value(bits) = 16 * bits[1] + 8 * bits[2] + 4 * bits[3] + 2 * bits[4] + bits[5]
    OBVIOUS
  <2>1. PICK a, b, c, d, e \in Int :
          /\ bits[1] = a /\ bits[2] = b /\ bits[3] = c /\ bits[4] = d /\ bits[5] = e
          /\ w[5] = 2 * (2 * (2 * (2 * (2 * 0 + a) + b) + c) + d) + e
    BY <1>7
  <2>2. 2 * (2 * (2 * (2 * (2 * 0 + a) + b) + c) + d) + e = 16 * a + 8 * b + 4 * c + 2 * d + e
    OBVIOUS
  <2>3. Value(bits) = 16 * a + 8 * b + 4 * c + 2 * d + e  BY <1>6, <2>1, <2>2
  <2> QED BY <2>1, <2>3
<1>9. n = 6 => Value(bits) = 32 * bits[1] + 16 * bits[2] + 8 * bits[3] + 4 * bits[4]
                                + 2 * bits[5] + bits[6]
  <2> SUFFICES ASSUME n = 6 PROVE Value(bits) = 32 * bits[1] + 16 * bits[2] + 8 * bits[3]
                                     + 4 * bits[4] + 2 * bits[5] + bits[6]
    OBVIOUS
  <2>1. PICK a, b, c, d, e \in Int :
          /\ bits[1] = a /\ bits[2] = b /\ bits[3] = c /\ bits[4] = d /\ bits[5] = e
          /\ w[5] = 2 * (2 * (2 * (2 * (2 * 0 + a) + b) + c) + d) + e
    BY <1>7
  <2>2. PICK f \in Int : bits[6] = f  BY <1>5
  <2>3. w[6] = 2 * w[5] + f  BY <1>4, <2>2
  <2>4. 2 * (2 * (2 * (2 * (2 * (2 * 0 + a) + b) + c) + d) + e) + f
           = 32 * a + 16 * b + 8 * c + 4 * d + 2 * e + f
    OBVIOUS
  <2>5. Value(bits) = 32 * a + 16 * b + 8 * c + 4 * d + 2 * e + f  BY <1>6, <2>1, <2>3, <2>4
  <2> QED BY <2>1, <2>2, <2>5
<1> QED BY <1>8, <1>9 DEF n

\* A function on an initial interval is a sequence.
LEMMA Listed ==
    ASSUME NEW R, NEW n \in Nat, NEW f \in [1 .. n -> R]
    PROVE  f \in Seq(R) /\ Len(f) = n
<1>1. f \in Seq(R)  OBVIOUS
<1>2. DOMAIN f = 1 .. n  OBVIOUS
<1> QED BY <1>1, <1>2

\* Every element of a sequence is one of its set, and of any larger one.
LEMMA Elements ==
    ASSUME NEW R, NEW u \in Seq(R)
    PROVE  /\ \A i \in 1 .. Len(u) : u[i] \in R
           /\ \A Q : R \subseteq Q => u \in Seq(Q)
<1>1. \A i \in 1 .. Len(u) : u[i] \in R  OBVIOUS
<1>2. ASSUME NEW Q, R \subseteq Q PROVE u \in Seq(Q)
  <2>1. u \in [1 .. Len(u) -> Q] /\ Len(u) \in Nat  BY <1>1, <1>2
  <2> QED BY <2>1, Listed
<1> QED BY <1>1, <1>2

\* A stretch of a sequence.
LEMMA Stretch ==
    ASSUME NEW R, NEW u \in Seq(R), NEW i \in Nat, NEW n \in Nat, i + n <= Len(u)
    PROVE  /\ SubSeq(u, i + 1, i + n) \in Seq(R) /\ Len(SubSeq(u, i + 1, i + n)) = n
           /\ \A j \in 1 .. n : SubSeq(u, i + 1, i + n)[j] = u[i + j] /\ u[i + j] \in R
<1>1. SubSeq(u, i + 1, i + n) = [j \in 1 .. n |-> u[i + j]]
  <2>1. SubSeq(u, i + 1, i + n) = [j \in 1 .. (1 + (i + n) - (i + 1)) |-> u[(i + 1) + j - 1]]
    BY DEF SubSeq
  <2>2. 1 + (i + n) - (i + 1) = n  OBVIOUS
  <2>3. \A j \in 1 .. n : (i + 1) + j - 1 = i + j  OBVIOUS
  <2> QED BY <2>1, <2>2, <2>3
<1>2. \A j \in 1 .. n : u[i + j] \in R
  <2>1. \A j \in 1 .. n : i + j \in 1 .. Len(u)  OBVIOUS
  <2> QED BY <2>1
<1>3. [j \in 1 .. n |-> u[i + j]] \in [1 .. n -> R]  BY <1>2
<1> QED BY <1>1, <1>2, <1>3, Listed

\* The bits of digits, and which of them are the ones of one digit.
LEMMA BitsOfPath ==
    ASSUME NEW digits \in Seq(Nat)
    PROVE  /\ BitsOf(digits, 5) \in Seq(Bit) /\ Len(BitsOf(digits, 5)) = 5 * Len(digits)
           /\ \A k \in 1 .. Len(digits), j \in 1 .. 5 :
                  BitsOf(digits, 5)[5 * (k - 1) + j] = (digits[k] \div Powers[6 - j]) % 2
<1> DEFINE n == Len(digits)
<1>0. n \in Nat /\ n * 5 \in Nat /\ n * 5 = 5 * n  OBVIOUS
<1>1. \A i \in 1 .. n * 5 :
          /\ (i - 1) \div 5 + 1 \in 1 .. n
          /\ 5 - ((i - 1) % 5) \in 1 .. 6
  BY <1>0
<1>2. \A p \in 1 .. 6 : Powers[p] \in Nat \ {0}  BY DEF Powers
<1>3. \A a \in Nat, b \in Nat \ {0} : (a \div b) % 2 \in Bit  BY DEF Bit
<1>4. \A k \in 1 .. n : digits[k] \in Nat  OBVIOUS
<1> HIDE DEF n
<1>5. \A i \in 1 .. n * 5 : (digits[((i - 1) \div 5) + 1] \div Powers[5 - ((i - 1) % 5)]) % 2 \in Bit
  BY <1>1, <1>2, <1>3, <1>4
<1>6. BitsOf(digits, 5) = [i \in 1 .. n * 5 |->
          (digits[((i - 1) \div 5) + 1] \div Powers[5 - ((i - 1) % 5)]) % 2]
  BY DEF BitsOf, n
<1>7. BitsOf(digits, 5) \in Seq(Bit) /\ Len(BitsOf(digits, 5)) = 5 * n
  <2>1. BitsOf(digits, 5) \in [1 .. n * 5 -> Bit]  BY <1>5, <1>6
  <2> QED BY <1>0, <2>1, Listed
<1>8. ASSUME NEW k \in 1 .. n, NEW j \in 1 .. 5
      PROVE  BitsOf(digits, 5)[5 * (k - 1) + j] = (digits[k] \div Powers[6 - j]) % 2
  <2>1. PICK i \in Nat : i = 5 * (k - 1) + j  BY <1>0
  <2>2. i \in 1 .. n * 5 /\ (i - 1) \div 5 + 1 = k /\ 5 - ((i - 1) % 5) = 6 - j
    BY <1>0, <2>1
  <2>3. BitsOf(digits, 5)[i] = (digits[k] \div Powers[6 - j]) % 2  BY <1>6, <2>2
  <2> QED BY <2>1, <2>3
<1> QED BY <1>7, <1>8 DEF n

\* The same for the digits of an ID.
LEMMA BitsOfId ==
    ASSUME NEW digits \in Seq(Nat)
    PROVE  /\ BitsOf(digits, 6) \in Seq(Bit) /\ Len(BitsOf(digits, 6)) = 6 * Len(digits)
           /\ \A k \in 1 .. Len(digits), j \in 1 .. 6 :
                  BitsOf(digits, 6)[6 * (k - 1) + j] = (digits[k] \div Powers[7 - j]) % 2
<1> DEFINE n == Len(digits)
<1>0. n \in Nat /\ n * 6 \in Nat /\ n * 6 = 6 * n  OBVIOUS
<1>1. \A i \in 1 .. n * 6 :
          /\ (i - 1) \div 6 + 1 \in 1 .. n
          /\ 6 - ((i - 1) % 6) \in 1 .. 6
  BY <1>0
<1>2. \A p \in 1 .. 6 : Powers[p] \in Nat \ {0}  BY DEF Powers
<1>3. \A a \in Nat, b \in Nat \ {0} : (a \div b) % 2 \in Bit  BY DEF Bit
<1>4. \A k \in 1 .. n : digits[k] \in Nat  OBVIOUS
<1> HIDE DEF n
<1>5. \A i \in 1 .. n * 6 : (digits[((i - 1) \div 6) + 1] \div Powers[6 - ((i - 1) % 6)]) % 2 \in Bit
  BY <1>1, <1>2, <1>3, <1>4
<1>6. BitsOf(digits, 6) = [i \in 1 .. n * 6 |->
          (digits[((i - 1) \div 6) + 1] \div Powers[6 - ((i - 1) % 6)]) % 2]
  BY DEF BitsOf, n
<1>7. BitsOf(digits, 6) \in Seq(Bit) /\ Len(BitsOf(digits, 6)) = 6 * n
  <2>1. BitsOf(digits, 6) \in [1 .. n * 6 -> Bit]  BY <1>5, <1>6
  <2> QED BY <1>0, <2>1, Listed
<1>8. ASSUME NEW k \in 1 .. n, NEW j \in 1 .. 6
      PROVE  BitsOf(digits, 6)[6 * (k - 1) + j] = (digits[k] \div Powers[7 - j]) % 2
  <2>1. PICK i \in Nat : i = 6 * (k - 1) + j  BY <1>0
  <2>2. i \in 1 .. n * 6 /\ (i - 1) \div 6 + 1 = k /\ 6 - ((i - 1) % 6) = 7 - j
    BY <1>0, <2>1
  <2>3. BitsOf(digits, 6)[i] = (digits[k] \div Powers[7 - j]) % 2  BY <1>6, <2>2
  <2> QED BY <2>1, <2>3
<1> QED BY <1>7, <1>8 DEF n

\* Twelve digits of a path hold sixty bits, five each.
LEMMA PathDigits ==
    ASSUME NEW bits \in Seq(Bit), Len(bits) = 60
    PROVE  /\ DigitsOf(bits, 5) \in Seq(Nat) /\ Len(DigitsOf(bits, 5)) = 12
           /\ \A k \in 1 .. 12 : LET i == 5 * (k - 1) IN
                  DigitsOf(bits, 5)[k] = 16 * bits[i + 1] + 8 * bits[i + 2] + 4 * bits[i + 3]
                                             + 2 * bits[i + 4] + bits[i + 5]
<1> DEFINE At(k) == Value(SubSeq(bits, (k - 1) * 5 + 1, k * 5))
<1>1. DigitsOf(bits, 5) = [k \in 1 .. 12 |-> At(k)]
  <2>1. 60 \div 5 = 12  OBVIOUS
  <2> QED BY <2>1 DEF DigitsOf
<1> HIDE DEF At
<1>2. ASSUME NEW k \in 1 .. 12
      PROVE  /\ DigitsOf(bits, 5)[k] = 16 * bits[5 * (k - 1) + 1] + 8 * bits[5 * (k - 1) + 2]
                     + 4 * bits[5 * (k - 1) + 3] + 2 * bits[5 * (k - 1) + 4] + bits[5 * (k - 1) + 5]
             /\ DigitsOf(bits, 5)[k] \in Nat
  <2>1. PICK i \in 0 .. 55 : i = 5 * (k - 1)  OBVIOUS
  <2>2. (k - 1) * 5 + 1 = i + 1 /\ k * 5 = i + 5  BY <2>1
  <2> DEFINE s == SubSeq(bits, i + 1, i + 5)
  <2>3. s \in Seq(Bit) /\ Len(s) = 5 /\ \A j \in 1 .. 5 : s[j] = bits[i + j] /\ s[j] \in Bit
    <3>1. PICK n \in Nat : n = 5  OBVIOUS
    <3>2. i \in Nat /\ i + n <= Len(bits) /\ s = SubSeq(bits, i + 1, i + n)  BY <3>1
    <3> HIDE DEF s
    <3>3. s \in Seq(Bit) /\ Len(s) = n /\ \A j \in 1 .. n : s[j] = bits[i + j] /\ bits[i + j] \in Bit
      BY ONLY <3>2, bits \in Seq(Bit), n \in Nat, Stretch
    <3> QED BY <3>1, <3>3
  <2>4. DigitsOf(bits, 5)[k] = Value(s)
    <3>1. DigitsOf(bits, 5)[k] = At(k)  BY <1>1
    <3>2. At(k) = Value(s)  BY <2>2, Zenon DEF At
    <3> QED BY <3>1, <3>2
  <2> HIDE DEF s
  <2>5. Value(s) = 16 * s[1] + 8 * s[2] + 4 * s[3] + 2 * s[4] + s[5]  BY <2>3, ValueOfBits
  <2>6. s[1] = bits[i + 1] /\ s[2] = bits[i + 2] /\ s[3] = bits[i + 3] /\ s[4] = bits[i + 4]
        /\ s[5] = bits[i + 5]
    BY <2>3
  <2>7. \A j \in 1 .. 5 : s[j] \in 0 .. 1  BY <2>3 DEF Bit
  <2>8. 16 * s[1] + 8 * s[2] + 4 * s[3] + 2 * s[4] + s[5] \in Nat
    <3>1. \A a, b, c, d, e \in 0 .. 1 : 16 * a + 8 * b + 4 * c + 2 * d + e \in Nat
      OBVIOUS
    <3>2. s[1] \in 0 .. 1 /\ s[2] \in 0 .. 1 /\ s[3] \in 0 .. 1 /\ s[4] \in 0 .. 1 /\ s[5] \in 0 .. 1
      BY <2>7
    <3> QED BY ONLY <3>1, <3>2, Zenon
  <2> QED BY <2>1, <2>4, <2>5, <2>6, <2>8
<1>3. DigitsOf(bits, 5) \in Seq(Nat) /\ Len(DigitsOf(bits, 5)) = 12
  <2>1. \A k \in 1 .. 12 : DigitsOf(bits, 5)[k] \in Nat  BY <1>2
  <2>2. DigitsOf(bits, 5) \in [1 .. 12 -> Nat]  BY <1>1, <2>1
  <2>3. PICK n \in Nat : n = 12  OBVIOUS
  <2>4. DigitsOf(bits, 5) \in [1 .. n -> Nat]  BY <2>2, <2>3
  <2>5. DigitsOf(bits, 5) \in Seq(Nat) /\ Len(DigitsOf(bits, 5)) = n  BY <2>4, Listed
  <2> QED BY <2>3, <2>5
<1> QED BY <1>2, <1>3

\* Ten digits of an ID hold them six each.
LEMMA IdDigits ==
    ASSUME NEW bits \in Seq(Bit), Len(bits) = 60
    PROVE  /\ DigitsOf(bits, 6) \in Seq(Nat) /\ Len(DigitsOf(bits, 6)) = 10
           /\ \A k \in 1 .. 10 : LET i == 6 * (k - 1) IN
                  DigitsOf(bits, 6)[k] = 32 * bits[i + 1] + 16 * bits[i + 2] + 8 * bits[i + 3]
                                             + 4 * bits[i + 4] + 2 * bits[i + 5] + bits[i + 6]
<1> DEFINE At(k) == Value(SubSeq(bits, (k - 1) * 6 + 1, k * 6))
<1>1. DigitsOf(bits, 6) = [k \in 1 .. 10 |-> At(k)]
  <2>1. 60 \div 6 = 10  OBVIOUS
  <2> QED BY <2>1 DEF DigitsOf
<1> HIDE DEF At
<1>2. ASSUME NEW k \in 1 .. 10
      PROVE  /\ DigitsOf(bits, 6)[k] = 32 * bits[6 * (k - 1) + 1] + 16 * bits[6 * (k - 1) + 2]
                     + 8 * bits[6 * (k - 1) + 3] + 4 * bits[6 * (k - 1) + 4]
                     + 2 * bits[6 * (k - 1) + 5] + bits[6 * (k - 1) + 6]
             /\ DigitsOf(bits, 6)[k] \in Nat
  <2>1. PICK i \in 0 .. 54 : i = 6 * (k - 1)  OBVIOUS
  <2>2. (k - 1) * 6 + 1 = i + 1 /\ k * 6 = i + 6  BY <2>1
  <2> DEFINE s == SubSeq(bits, i + 1, i + 6)
  <2>3. s \in Seq(Bit) /\ Len(s) = 6 /\ \A j \in 1 .. 6 : s[j] = bits[i + j] /\ s[j] \in Bit
    <3>1. PICK n \in Nat : n = 6  OBVIOUS
    <3>2. i \in Nat /\ i + n <= Len(bits) /\ s = SubSeq(bits, i + 1, i + n)  BY <3>1
    <3> HIDE DEF s
    <3>3. s \in Seq(Bit) /\ Len(s) = n /\ \A j \in 1 .. n : s[j] = bits[i + j] /\ bits[i + j] \in Bit
      BY ONLY <3>2, bits \in Seq(Bit), n \in Nat, Stretch
    <3> QED BY <3>1, <3>3
  <2>4. DigitsOf(bits, 6)[k] = Value(s)
    <3>1. DigitsOf(bits, 6)[k] = At(k)  BY <1>1
    <3>2. At(k) = Value(s)  BY <2>2, Zenon DEF At
    <3> QED BY <3>1, <3>2
  <2> HIDE DEF s
  <2>5. Value(s) = 32 * s[1] + 16 * s[2] + 8 * s[3] + 4 * s[4] + 2 * s[5] + s[6]
    BY <2>3, ValueOfBits
  <2>6. s[1] = bits[i + 1] /\ s[2] = bits[i + 2] /\ s[3] = bits[i + 3] /\ s[4] = bits[i + 4]
        /\ s[5] = bits[i + 5] /\ s[6] = bits[i + 6]
    BY <2>3
  <2>7. \A j \in 1 .. 6 : s[j] \in 0 .. 1  BY <2>3 DEF Bit
  <2>8. 32 * s[1] + 16 * s[2] + 8 * s[3] + 4 * s[4] + 2 * s[5] + s[6] \in Nat
    <3>1. \A a, b, c, d, e, f \in 0 .. 1 : 32 * a + 16 * b + 8 * c + 4 * d + 2 * e + f \in Nat
      OBVIOUS
    <3>2. s[1] \in 0 .. 1 /\ s[2] \in 0 .. 1 /\ s[3] \in 0 .. 1 /\ s[4] \in 0 .. 1 /\ s[5] \in 0 .. 1 /\ s[6] \in 0 .. 1
      BY <2>7
    <3> QED BY ONLY <3>1, <3>2, Zenon
  <2> QED BY <2>1, <2>4, <2>5, <2>6, <2>8
<1>3. DigitsOf(bits, 6) \in Seq(Nat) /\ Len(DigitsOf(bits, 6)) = 10
  <2>1. \A k \in 1 .. 10 : DigitsOf(bits, 6)[k] \in Nat  BY <1>2
  <2>2. DigitsOf(bits, 6) \in [1 .. 10 -> Nat]  BY <1>1, <2>1
  <2>3. PICK n \in Nat : n = 10  OBVIOUS
  <2>4. DigitsOf(bits, 6) \in [1 .. n -> Nat]  BY <2>2, <2>3
  <2>5. DigitsOf(bits, 6) \in Seq(Nat) /\ Len(DigitsOf(bits, 6)) = n  BY <2>4, Listed
  <2> QED BY <2>3, <2>5
<1> QED BY <1>2, <1>3

\* A digit is worth what its bits are worth.
LEMMA DigitFromBits ==
    \A u \in IdDigit : u = 32 * ((u \div 32) % 2) + 16 * ((u \div 16) % 2) + 8 * ((u \div 8) % 2)
                               + 4 * ((u \div 4) % 2) + 2 * ((u \div 2) % 2) + ((u \div 1) % 2)
BY DEF IdDigit

\* Sixty bits written as digits of a path are read back from them.
LEMMA PathReadBack ==
    ASSUME NEW bits \in Seq(Bit), Len(bits) = 60
    PROVE  BitsOf(DigitsOf(bits, 5), 5) = bits
<1> DEFINE code == DigitsOf(bits, 5)
           back == BitsOf(code, 5)
<1>1. code \in Seq(Nat) /\ Len(code) = 12  BY PathDigits
<1>2. \A k \in 1 .. 12 : code[k] = 16 * bits[5 * (k - 1) + 1] + 8 * bits[5 * (k - 1) + 2]
          + 4 * bits[5 * (k - 1) + 3] + 2 * bits[5 * (k - 1) + 4] + bits[5 * (k - 1) + 5]
  BY PathDigits
<1> HIDE DEF code
<1> HIDE DEF back
<1>a. /\ back \in Seq(Bit) /\ Len(back) = 5 * Len(code)
      /\ \A k \in 1 .. Len(code), j \in 1 .. 5 :
             back[5 * (k - 1) + j] = (code[k] \div Powers[6 - j]) % 2
  BY <1>1, BitsOfPath, Zenon DEF back
<1>3. back \in Seq(Bit) /\ Len(back) = 60
  <2>1. 5 * 12 = 60  OBVIOUS
  <2> QED BY <1>1, <1>a, <2>1, Zenon
<1>4. \A k \in 1 .. 12, j \in 1 .. 5 : back[5 * (k - 1) + j] = (code[k] \div Powers[6 - j]) % 2
  BY <1>1, <1>a, Zenon
<1>5. \A i \in 1 .. 60 : bits[i] \in Bit
  BY Elements, Zenon
<1>6. ASSUME NEW k \in 1 .. 12, NEW j \in 1 .. 5
      PROVE  back[5 * (k - 1) + j] = bits[5 * (k - 1) + j]
  <2>1. PICK i \in 0 .. 55 : i = 5 * (k - 1)  OBVIOUS
  <2>2. PICK a, b, c, d, e \in Bit : /\ bits[i + 1] = a /\ bits[i + 2] = b /\ bits[i + 3] = c
                                     /\ bits[i + 4] = d /\ bits[i + 5] = e
    <3>1. i + 1 \in 1 .. 60 /\ i + 2 \in 1 .. 60 /\ i + 3 \in 1 .. 60 /\ i + 4 \in 1 .. 60
          /\ i + 5 \in 1 .. 60
      OBVIOUS
    <3>2. bits[i + 1] \in Bit /\ bits[i + 2] \in Bit /\ bits[i + 3] \in Bit /\ bits[i + 4] \in Bit
          /\ bits[i + 5] \in Bit
      BY <1>5, <3>1, Zenon
    <3> QED BY <3>2, Zenon
  <2>3. PICK u \in Nat : u = code[k]  BY <1>1, Elements, Zenon
  <2>4. u = 16 * a + 8 * b + 4 * c + 2 * d + e  BY <1>2, <2>1, <2>2, <2>3
  <2>5. /\ (u \div 16) % 2 = a /\ (u \div 8) % 2 = b /\ (u \div 4) % 2 = c
        /\ (u \div 2) % 2 = d /\ (u \div 1) % 2 = e
    BY ONLY <2>4, u \in Nat, a \in Bit, b \in Bit, c \in Bit, d \in Bit, e \in Bit DEF Bit
  <2>6. back[i + j] = (u \div Powers[6 - j]) % 2  BY <1>4, <2>1, <2>3
  <2>7. CASE j = 1  BY <2>1, <2>2, <2>5, <2>6, <2>7 DEF Powers
  <2>8. CASE j = 2  BY <2>1, <2>2, <2>5, <2>6, <2>8 DEF Powers
  <2>9. CASE j = 3  BY <2>1, <2>2, <2>5, <2>6, <2>9 DEF Powers
  <2>10. CASE j = 4  BY <2>1, <2>2, <2>5, <2>6, <2>10 DEF Powers
  <2>11. CASE j = 5  BY <2>1, <2>2, <2>5, <2>6, <2>11 DEF Powers
  <2> QED BY <2>7, <2>8, <2>9, <2>10, <2>11
<1>7. ASSUME NEW m \in 1 .. 60 PROVE back[m] = bits[m]
  <2>1. PICK k \in 1 .. 12, j \in 1 .. 5 : m = 5 * (k - 1) + j
    <3>1. (m - 1) \div 5 + 1 \in 1 .. 12 /\ ((m - 1) % 5) + 1 \in 1 .. 5
          /\ m = 5 * ((m - 1) \div 5 + 1 - 1) + (((m - 1) % 5) + 1)
      OBVIOUS
    <3> QED BY <3>1
  <2> QED BY <1>6, <2>1
<1>8. back = bits
  <2>1. DOMAIN back = 1 .. 60 /\ DOMAIN bits = 1 .. 60  BY <1>3
  <2>2. back = [i \in 1 .. 60 |-> back[i]] /\ bits = [i \in 1 .. 60 |-> bits[i]]  BY <1>3, <2>1
  <2> QED BY <1>7, <2>2
<1> QED BY <1>8 DEF back, code

\* Ten digits of an ID are read back from their bits.
LEMMA IdReadBack ==
    ASSUME NEW u \in Seq(IdDigit), Len(u) = 10
    PROVE  /\ BitsOf(u, 6) \in Seq(Bit) /\ Len(BitsOf(u, 6)) = 60
           /\ DigitsOf(BitsOf(u, 6), 6) = u
<1> DEFINE bits == BitsOf(u, 6)
           back == DigitsOf(bits, 6)
<1>0. u \in Seq(Nat)
  <2>1. IdDigit \subseteq Nat  BY DEF IdDigit
  <2> QED BY <2>1, Elements
<1> HIDE DEF bits
<1>a. /\ bits \in Seq(Bit) /\ Len(bits) = 6 * Len(u)
      /\ \A k \in 1 .. Len(u), j \in 1 .. 6 : bits[6 * (k - 1) + j] = (u[k] \div Powers[7 - j]) % 2
  BY <1>0, BitsOfId, Zenon DEF bits
<1>1. bits \in Seq(Bit) /\ Len(bits) = 60
  <2>1. 6 * 10 = 60  OBVIOUS
  <2> QED BY <1>a, <2>1, Zenon
<1>2. \A k \in 1 .. 10, j \in 1 .. 6 : bits[6 * (k - 1) + j] = (u[k] \div Powers[7 - j]) % 2
  BY <1>a, Zenon
<1>3. back \in Seq(Nat) /\ Len(back) = 10  BY <1>1, IdDigits
<1>4. \A k \in 1 .. 10 : back[k] = 32 * bits[6 * (k - 1) + 1] + 16 * bits[6 * (k - 1) + 2]
                     + 8 * bits[6 * (k - 1) + 3] + 4 * bits[6 * (k - 1) + 4]
                     + 2 * bits[6 * (k - 1) + 5] + bits[6 * (k - 1) + 6]
  BY <1>1, IdDigits
<1> HIDE DEF back
<1>5. ASSUME NEW k \in 1 .. 10 PROVE back[k] = u[k]
  <2>1. PICK i \in 0 .. 54 : i = 6 * (k - 1)  OBVIOUS
  <2>2. PICK v \in IdDigit : v = u[k]  BY Elements, Zenon
  <2>3. Powers[1] = 1 /\ Powers[2] = 2 /\ Powers[3] = 4 /\ Powers[4] = 8 /\ Powers[5] = 16
        /\ Powers[6] = 32
    BY DEF Powers
  <2>4. \A j \in 1 .. 6 : bits[i + j] = (v \div Powers[7 - j]) % 2  BY <1>2, <2>1, <2>2
  <2>a. 7 - 1 = 6 /\ 7 - 2 = 5 /\ 7 - 3 = 4 /\ 7 - 4 = 3 /\ 7 - 5 = 2 /\ 7 - 6 = 1
        /\ 1 \in 1 .. 6 /\ 2 \in 1 .. 6 /\ 3 \in 1 .. 6 /\ 4 \in 1 .. 6 /\ 5 \in 1 .. 6 /\ 6 \in 1 .. 6
    OBVIOUS
  <2>5. bits[i + 1] = (v \div 32) % 2 /\ bits[i + 2] = (v \div 16) % 2 /\ bits[i + 3] = (v \div 8) % 2
        /\ bits[i + 4] = (v \div 4) % 2 /\ bits[i + 5] = (v \div 2) % 2 /\ bits[i + 6] = (v \div 1) % 2
    <3>1. bits[i + 1] = (v \div Powers[6]) % 2  BY <2>4, <2>a, Zenon
    <3>2. bits[i + 2] = (v \div Powers[5]) % 2  BY <2>4, <2>a, Zenon
    <3>3. bits[i + 3] = (v \div Powers[4]) % 2  BY <2>4, <2>a, Zenon
    <3>4. bits[i + 4] = (v \div Powers[3]) % 2  BY <2>4, <2>a, Zenon
    <3>5. bits[i + 5] = (v \div Powers[2]) % 2  BY <2>4, <2>a, Zenon
    <3>6. bits[i + 6] = (v \div Powers[1]) % 2  BY <2>4, <2>a, Zenon
    <3> QED BY <2>3, <3>1, <3>2, <3>3, <3>4, <3>5, <3>6, Zenon
  <2>6. back[k] = 32 * bits[i + 1] + 16 * bits[i + 2] + 8 * bits[i + 3] + 4 * bits[i + 4]
                     + 2 * bits[i + 5] + bits[i + 6]
    BY <1>4, <2>1
  <2>7. v = 32 * ((v \div 32) % 2) + 16 * ((v \div 16) % 2) + 8 * ((v \div 8) % 2)
                                  + 4 * ((v \div 4) % 2) + 2 * ((v \div 2) % 2) + ((v \div 1) % 2)
    BY DigitFromBits, Zenon
  <2> QED BY ONLY <2>2, <2>5, <2>6, <2>7, Zenon
<1>6. back = u
  <2>1. DOMAIN back = 1 .. 10 /\ DOMAIN u = 1 .. 10  BY <1>3
  <2>2. back = [i \in 1 .. 10 |-> back[i]] /\ u = [i \in 1 .. 10 |-> u[i]]  BY <1>3, <2>1
  <2> QED BY <1>5, <2>2
<1> QED BY <1>1, <1>6 DEF back, bits

\* An ID with "KU" in front of it.
LEMMA PrefixedId ==
    ASSUME NEW id \in KleiIds
    PROVE  /\ KU \o id \in Seq(IdDigit) /\ Len(KU \o id) = 10
           /\ (KU \o id)[1] = 20 /\ (KU \o id)[2] = 30 /\ SubSeq(KU \o id, 3, 10) = id
<1>1. id \in Seq(IdDigit) /\ Len(id) = 8  BY ArchiveAssumption DEF IdDigit
<1>2. KU \in Seq(IdDigit) /\ Len(KU) = 2 /\ KU[1] = 20 /\ KU[2] = 30
  <2>1. 20 \in IdDigit /\ 30 \in IdDigit  BY DEF IdDigit
  <2> QED BY <2>1 DEF KU
<1> HIDE DEF KU
<1> DEFINE u == KU \o id
<1> HIDE DEF u
<1>a. /\ u \in Seq(IdDigit) /\ Len(u) = Len(KU) + Len(id)
      /\ \A i \in 1 .. Len(KU) + Len(id) :
             u[i] = IF i <= Len(KU) THEN KU[i] ELSE id[i - Len(KU)]
  BY ONLY <1>1, <1>2, ConcatProperties, Zenon DEF u
<1>3. u \in Seq(IdDigit) /\ Len(u) = 10 /\ u[1] = 20 /\ u[2] = 30
  BY <1>1, <1>2, <1>a
<1>4. \A j \in 1 .. 8 : u[2 + j] = id[j]
  <2> TAKE j \in 1 .. 8
  <2>1. 2 + j \in 1 .. 2 + 8 /\ ~(2 + j <= 2) /\ (2 + j) - 2 = j  OBVIOUS
  <2>2. u[2 + j] = IF 2 + j <= 2 THEN KU[2 + j] ELSE id[(2 + j) - 2]  BY <1>1, <1>2, <1>a, <2>1, Zenon
  <2> QED BY <2>1, <2>2, Zenon
<1>5. SubSeq(u, 3, 10) = id
  <2>1. PICK n \in Nat, i \in Nat : n = 8 /\ i = 2  OBVIOUS
  <2>2. i + n <= Len(u) /\ i + 1 = 3 /\ i + n = 10  BY <1>3, <2>1
  <2>a. PICK v : v = SubSeq(u, i + 1, i + n)  OBVIOUS
  <2>3. v \in Seq(IdDigit) /\ Len(v) = n /\ \A j \in 1 .. n : v[j] = u[i + j] /\ u[i + j] \in IdDigit
    <3>1. i + n <= Len(u) /\ u \in Seq(IdDigit)  BY <1>3, <2>2
    <3> QED BY ONLY <3>1, <2>a, n \in Nat, i \in Nat, Stretch
  <2>4. v = SubSeq(u, 3, 10)  BY <2>2, <2>a, Zenon
  <2>5. \A j \in 1 .. 8 : v[j] = id[j]  BY <1>4, <2>1, <2>3
  <2>6. v = [j \in 1 .. 8 |-> v[j]] /\ id = [j \in 1 .. 8 |-> id[j]]  BY <1>1, <2>1, <2>3
  <2>7. v = id  BY <2>5, <2>6
  <2> QED BY <2>4, <2>7
<1> QED BY <1>3, <1>5 DEF u

\* An encoded ID has twelve digits, begins with "A7", and decodes to the ID.
LEMMA RoundTrip ==
    ASSUME NEW id \in KleiIds
    PROVE  LET code == encode_klei_id(id)
           IN  /\ code \in Seq(Nat) /\ Len(code) = 12 /\ SubSeq(code, 1, 2) = A7
               /\ SubSeq(decode_klei_id(code), 3, 10) = id
<1> DEFINE u == KU \o id
           bits == BitsOf(u, 6)
           code == DigitsOf(bits, 5)
<1>1. u \in Seq(IdDigit) /\ Len(u) = 10 /\ u[1] = 20 /\ u[2] = 30 /\ SubSeq(u, 3, 10) = id
  BY PrefixedId
<1> HIDE DEF u
<1>2. bits \in Seq(Bit) /\ Len(bits) = 60 /\ DigitsOf(bits, 6) = u  BY <1>1, IdReadBack
<1>3. u \in Seq(Nat)
  <2>1. IdDigit \subseteq Nat  BY DEF IdDigit
  <2> QED BY <1>1, <2>1, Elements
<1> HIDE DEF bits
<1>4. \A k \in 1 .. Len(u), j \in 1 .. 6 : bits[6 * (k - 1) + j] = (u[k] \div Powers[7 - j]) % 2
  BY <1>3, BitsOfId, Zenon DEF bits
<1>5. code \in Seq(Nat) /\ Len(code) = 12  BY <1>2, PathDigits, Zenon
<1>6. \A k \in 1 .. 12 : code[k] = 16 * bits[5 * (k - 1) + 1] + 8 * bits[5 * (k - 1) + 2]
          + 4 * bits[5 * (k - 1) + 3] + 2 * bits[5 * (k - 1) + 4] + bits[5 * (k - 1) + 5]
  BY <1>2, PathDigits
<1>7. BitsOf(code, 5) = bits  BY <1>2, PathReadBack, Zenon
<1> HIDE DEF code
<1>8. encode_klei_id(id) = code  BY DEF encode_klei_id, code, bits, u, ID_BITS, PATH_BITS
<1>9. decode_klei_id(code) = u  BY <1>2, <1>7 DEF decode_klei_id, ID_BITS, PATH_BITS
<1>10. Powers[1] = 1 /\ Powers[2] = 2 /\ Powers[3] = 4 /\ Powers[4] = 8 /\ Powers[5] = 16
       /\ Powers[6] = 32
  BY DEF Powers
<1>11. bits[1] = 0 /\ bits[2] = 1 /\ bits[3] = 0 /\ bits[4] = 1 /\ bits[5] = 0 /\ bits[6] = 0
  <2>1. \A j \in 1 .. 6 : bits[j] = (20 \div Powers[7 - j]) % 2
    <3>1. 1 \in 1 .. Len(u)  BY <1>1
    <3>2. \A j \in 1 .. 6 : bits[6 * (1 - 1) + j] = (20 \div Powers[7 - j]) % 2
      BY <1>1, <1>4, <3>1, Zenon
    <3>3. \A j \in 1 .. 6 : 6 * (1 - 1) + j = j  OBVIOUS
    <3> QED BY <3>2, <3>3, Zenon
  <2> QED BY <1>10, <2>1
<1>12. bits[7] = 0 /\ bits[8] = 1 /\ bits[9] = 1 /\ bits[10] = 1
  <2>1. \A j \in 1 .. 6 : bits[6 + j] = (30 \div Powers[7 - j]) % 2
    <3>1. 2 \in 1 .. Len(u)  BY <1>1
    <3>2. \A j \in 1 .. 6 : bits[6 * (2 - 1) + j] = (30 \div Powers[7 - j]) % 2
      BY <1>1, <1>4, <3>1, Zenon
    <3>3. \A j \in 1 .. 6 : 6 * (2 - 1) + j = 6 + j  OBVIOUS
    <3> QED BY <3>2, <3>3, Zenon
  <2> QED BY <1>10, <2>1
<1>13. code[1] = 10
  <2>1. code[1] = 16 * bits[1] + 8 * bits[2] + 4 * bits[3] + 2 * bits[4] + bits[5]  BY <1>6
  <2> QED BY <1>11, <2>1
<1>14. code[2] = 7
  <2>1. code[2] = 16 * bits[6] + 8 * bits[7] + 4 * bits[8] + 2 * bits[9] + bits[10]  BY <1>6
  <2> QED BY <1>11, <1>12, <2>1
<1>15. SubSeq(code, 1, 2) = A7
  <2>1. PICK n \in Nat, i \in Nat : n = 2 /\ i = 0  OBVIOUS
  <2>2. i + n <= Len(code) /\ i + 1 = 1 /\ i + n = 2 /\ code \in Seq(Nat)  BY <1>5, <2>1
  <2>3. PICK v : v = SubSeq(code, i + 1, i + n)  OBVIOUS
  <2>4. v \in Seq(Nat) /\ Len(v) = n /\ \A j \in 1 .. n : v[j] = code[i + j] /\ code[i + j] \in Nat
    BY ONLY <2>2, <2>3, n \in Nat, i \in Nat, Stretch
  <2>5. v[1] = code[1] /\ v[2] = code[2] /\ Len(v) = 2  BY <2>1, <2>4
  <2>6. v = <<10, 7>>  BY <1>13, <1>14, <2>4, <2>5
  <2> QED BY <2>2, <2>3, <2>6, Zenon DEF A7
<1> QED BY <1>1, <1>5, <1>8, <1>9, <1>15

-----------------------------------------------------------------------------
(* Player directories *)

\* The image of a finite set is finite, and as large when no two elements meet.
LEMMA ImageSize ==
    ASSUME NEW S, IsFiniteSet(S), NEW f, f = [x \in S |-> f[x]]
    PROVE  /\ IsFiniteSet({f[x] : x \in S})
           /\ (\A x, y \in S : f[x] = f[y] => x = y) => Cardinality({f[x] : x \in S}) = Cardinality(S)
<1> DEFINE T == {f[x] : x \in S}
<1>1. f \in [S -> T]  OBVIOUS
<1>2. f \in Surjection(S, T)  BY <1>1 DEF Surjection
<1>3. ASSUME \A x, y \in S : f[x] = f[y] => x = y PROVE f \in Injection(S, T)
  <2>1. DOMAIN f = S  BY <1>1
  <2>2. IsInjective(f)  BY <1>3, <2>1 DEF IsInjective
  <2> QED BY <1>1, <2>2 DEF Injection
<1> HIDE DEF T
<1>4. IsFiniteSet(T) /\ (Cardinality(T) = Cardinality(S) <=> f \in Injection(S, T))
  BY <1>2, FS_Surjection
<1> QED BY <1>3, <1>4 DEF T

\* There are finitely many directories to begin with.
LEMMA DirectoriesFinite == IsFiniteSet(Directories)
<1> DEFINE A == {Directory("id", i) : i \in KleiIds}
           B == {Directory("id_", i) : i \in KleiIds}
           C == {Directory("path", encode_klei_id(i)) : i \in KleiIds}
           D == {Directory("path", <<0>>), Directory("path", A7)}
<1>1. IsFiniteSet(A)
  <2>0. PICK f : f = [i \in KleiIds |-> Directory("id", i)]  OBVIOUS
  <2>1. f = [x \in KleiIds |-> f[x]] /\ A = {f[i] : i \in KleiIds}  BY <2>0
  <2> HIDE DEF A
  <2> QED BY <2>1, ImageSize, ArchiveAssumption
<1>2. IsFiniteSet(B)
  <2>0. PICK f : f = [i \in KleiIds |-> Directory("id_", i)]  OBVIOUS
  <2>1. f = [x \in KleiIds |-> f[x]] /\ B = {f[i] : i \in KleiIds}  BY <2>0
  <2> HIDE DEF B
  <2> QED BY <2>1, ImageSize, ArchiveAssumption
<1>3. IsFiniteSet(C)
  <2>0. PICK f : f = [i \in KleiIds |-> Directory("path", encode_klei_id(i))]  OBVIOUS
  <2>1. f = [x \in KleiIds |-> f[x]] /\ C = {f[i] : i \in KleiIds}  BY <2>0
  <2> HIDE DEF C
  <2> QED BY <2>1, ImageSize, ArchiveAssumption
<1>4. IsFiniteSet(D)
  <2>1. IsFiniteSet({Directory("path", <<0>>)})  BY FS_Singleton
  <2>2. D = {Directory("path", <<0>>)} \union {Directory("path", A7)}  OBVIOUS
  <2> HIDE DEF D
  <2> QED BY <2>1, <2>2, FS_AddElement
<1> HIDE DEF A, B, C, D
<1>5. IsFiniteSet(A \union B)  BY <1>1, <1>2, FS_Union
<1>6. IsFiniteSet((A \union B) \union C)  BY <1>3, <1>5, FS_Union
<1>7. IsFiniteSet(((A \union B) \union C) \union D)  BY <1>4, <1>6, FS_Union
<1>8. Directories = ((A \union B) \union C) \union D  BY DEF Directories, A, B, C, D
<1> QED BY <1>7, <1>8

\* The directory that a client export gives a player is the player's.
LEMMA ExportedPlayer ==
    ASSUME NEW d \in Directories, NEW encoded \in BOOLEAN
    PROVE  PlayerOf(Renamed(d, encoded, TRUE)) = PlayerOf(d)
<1>1. CASE ~encoded /\ d.form \in {"id", "id_"}
  <2>1. PICK i \in KleiIds : d.digits = i
    <3>1. d \notin {Directory("path", encode_klei_id(i)) : i \in KleiIds}
          /\ d # Directory("path", <<0>>) /\ d # Directory("path", A7)
      BY <1>1 DEF Directory
    <3>2. d \in {Directory("id", i) : i \in KleiIds} \union {Directory("id_", i) : i \in KleiIds}
      BY <3>1 DEF Directories
    <3> QED BY <3>2 DEF Directory
  <2>2. PICK code : code = encode_klei_id(i)  OBVIOUS
  <2>3. Renamed(d, encoded, TRUE) = Directory("path", code)  BY <1>1, <2>1, <2>2 DEF Renamed
  <2>4. Len(code) = 12 /\ SubSeq(code, 1, 2) = A7 /\ SubSeq(decode_klei_id(code), 3, 10) = i
    BY <2>2, RoundTrip
  <2> DEFINE e == Directory("path", code)
  <2>5. e.form = "path" /\ e.digits = code  BY DEF Directory
  <2> HIDE DEF e
  <2>6. IsEncoded(e) /\ Len(e.digits) = 12
    <3>1. 12 > 1  OBVIOUS
    <3> QED BY <2>4, <2>5, <3>1, Zenon DEF IsEncoded
  <2>7. PlayerOf(e) = i  BY <2>4, <2>5, <2>6 DEF PlayerOf
  <2>8. PlayerOf(d) = i
    <3>1. d.form # "path" /\ ~IsEncoded(d)  BY <1>1 DEF IsEncoded
    <3> QED BY <2>1, <3>1 DEF PlayerOf
  <2> QED BY <2>3, <2>7, <2>8 DEF e
<1>2. CASE ~(~encoded /\ d.form \in {"id", "id_"})
  <2>1. Renamed(d, encoded, TRUE) = d  BY <1>2 DEF Renamed
  <2> QED BY <2>1
<1> QED BY <1>1, <1>2

\* And so is the one that the import of a client export gives him.
LEMMA ImportedPlayer ==
    ASSUME NEW d, IsEncoded(d) => Len(d.digits) = 12
    PROVE  PlayerOf(Renamed(d, TRUE, FALSE)) = PlayerOf(d)
<1>1. CASE IsEncoded(d)
  <2>1. PICK i : i = SubSeq(decode_klei_id(d.digits), 3, 10)  OBVIOUS
  <2>2. Renamed(d, TRUE, FALSE) = Directory("id_", i)  BY <1>1, <2>1 DEF Renamed
  <2>3. PlayerOf(d) = i  BY <1>1, <2>1 DEF PlayerOf, IsEncoded
  <2>4. PICK e : e = Directory("id_", i)  OBVIOUS
  <2>5. e.form = "id_" /\ e.digits = i  BY <2>4 DEF Directory
  <2>6. e.form # "path" /\ ~IsEncoded(e)  BY <2>5 DEF IsEncoded
  <2>7. PlayerOf(e) = i  BY <2>5, <2>6 DEF PlayerOf
  <2> QED BY <2>2, <2>3, <2>4, <2>7
<1>2. CASE ~IsEncoded(d)
  <2>1. Renamed(d, TRUE, FALSE) = d  BY <1>2 DEF Renamed
  <2> QED BY <2>1
<1> QED BY <1>1, <1>2

\* Directories that do not meet keep their number and their players.
LEMMA RenamedApart ==
    ASSUME NEW D, IsFiniteSet(D), NEW encoded, NEW target, ~Collide(D, encoded, target),
           \A d \in D : PlayerOf(Renamed(d, encoded, target)) = PlayerOf(d)
    PROVE  LET R == {Renamed(d, encoded, target) : d \in D}
           IN  /\ IsFiniteSet(R) /\ Cardinality(R) = Cardinality(D)
               /\ {PlayerOf(d) : d \in R} = {PlayerOf(d) : d \in D}
<1> DEFINE f == [d \in D |-> Renamed(d, encoded, target)]
           R == {Renamed(d, encoded, target) : d \in D}
<1>1. f = [x \in D |-> f[x]] /\ R = {f[d] : d \in D}  OBVIOUS
<1>2. \A x, y \in D : f[x] = f[y] => x = y  BY DEF Collide
<1>3. {PlayerOf(d) : d \in R} = {PlayerOf(d) : d \in D}  OBVIOUS
<1>4. IsFiniteSet(R) /\ Cardinality(R) = Cardinality(D)
  <2> HIDE DEF f, R
  <2> QED BY <1>1, <1>2, ImageSize
<1> QED BY <1>3, <1>4

-----------------------------------------------------------------------------
(* The inductive invariant *)

UploadSteps == {"create", "part", "send", "complete", "abort", "ended"}
Uploads == [step : UploadSteps, owned : BOOLEAN, sent : Nat, cancelled : BOOLEAN, late : BOOLEAN,
            result : {"none", "ok", "error", "abort failed"}]
Stores == [state : {"none", "open", "complete", "aborted"}, parts : Nat]
ImportSteps == {"queued", "check", "write", "synced", "ended"}
Imports == [step : ImportSteps, written : SUBSET ImportFiles]
Destinations == [owner : Importers \union {Nothing}, files : SUBSET ImportFiles]

ArchiveTypes ==
    /\ upload \in Uploads /\ store \in Stores
    /\ importer \in [Importers -> Imports]
    /\ published \in Destinations /\ told \subseteq Importers

\* What the worker knows of the store at each of its steps.
UploadKnows ==
    /\ upload.step \in {"create", "part", "send", "complete"} => store.parts = upload.sent
    /\ upload.step = "create" => store.state = "none" /\ ~upload.owned /\ store.parts = 0
    /\ ~upload.owned => upload.step \in {"create", "ended"} /\ store.parts = 0
    /\ upload.step \in {"part", "send", "complete"} => store.state = "open"
    /\ upload.step = "complete" => upload.sent = Parts /\ (upload.cancelled => upload.late)
    /\ upload.step # "ended" => upload.result = "none"

\* An import that is about to report is the one that the destination holds.
ImportsKnow ==
    /\ published.owner \notin Importers => published = NoDestination
    /\ \A i \in Importers : importer[i].step = "synced" => published.owner = i

\* A shard as it is written to an archive: finitely many players, encoded or not.
Shard(s) ==
    /\ s = [name |-> s.name, master |-> s.master, encoded |-> s.encoded, players |-> s.players]
    /\ IsFiniteSet(s.players)

\* The shards of each side of a transfer.
Sides ==
    /\ \A s \in transfer.native : Shard(s) /\ s.encoded \in BOOLEAN /\ s.players \subseteq Directories
    /\ \A s \in transfer.client : Shard(s) /\ s.encoded = TRUE
    /\ transfer.client = {} => transfer.imported = {}
    /\ transfer = [native |-> transfer.native, client |-> transfer.client,
                   imported |-> transfer.imported, refused |-> transfer.refused]

ArchiveInv == ArchiveTypes /\ UploadKnows /\ ImportsKnow /\ Sides /\ ArchivesAreWhole

\* A shard that holds the same players as another, apart.
Keeps(s, r) ==
    /\ Cardinality(r.players) = Cardinality(s.players)
    /\ {PlayerOf(d) : d \in r.players} = {PlayerOf(d) : d \in s.players}

\* What TransfersKeepPlayers says, without its local operators.
LEMMA TransfersSpelled ==
    TransfersKeepPlayers <=>
        /\ transfer.client # {} => \A s \in transfer.native : \E r \in transfer.client :
               r.name = ClientName(s) /\ Keeps(s, r)
        /\ transfer.imported # {} => \A s \in transfer.client : \E r \in transfer.imported :
               r.name = NativeName(s) /\ Keeps(s, r)
BY DEF TransfersKeepPlayers, Keeps

\* The same after a step.
LEMMA TransfersSpelledNext ==
    TransfersKeepPlayers' <=>
        /\ transfer'.client # {} => \A s \in transfer'.native : \E r \in transfer'.client :
               r.name = ClientName(s) /\ Keeps(s, r)
        /\ transfer'.imported # {} => \A s \in transfer'.client : \E r \in transfer'.imported :
               r.name = NativeName(s) /\ Keeps(s, r)
BY DEF TransfersKeepPlayers, Keeps, PlayerOf, ClientName, NativeName, IsEncoded, decode_klei_id,
       DigitsOf, BitsOf

\* The conversion of one shard.
LEMMA ConvertedShard ==
    ASSUME NEW s, Shard(s), NEW target,
           ~Collide(s.players, s.encoded, target),
           \A d \in s.players : PlayerOf(Renamed(d, s.encoded, target)) = PlayerOf(d),
           NEW r, r.players = {Renamed(d, s.encoded, target) : d \in s.players},
           r = [name |-> r.name, master |-> r.master, encoded |-> r.encoded, players |-> r.players]
    PROVE  Shard(r) /\ Keeps(s, r)
<1>1. IsFiniteSet(r.players) /\ Keeps(s, r)
  BY RenamedApart DEF Shard, Keeps
<1> QED BY <1>1, Zenon DEF Shard

\* Nothing has happened yet.
LEMMA ArchiveStarts == ArchiveInit => ArchiveInv
<1> SUFFICES ASSUME ArchiveInit PROVE ArchiveInv
  OBVIOUS
<1>1. upload = [step |-> "create", owned |-> FALSE, sent |-> 0, cancelled |-> FALSE,
                 late |-> FALSE, result |-> "none"]
      /\ store = [state |-> "none", parts |-> 0]
      /\ importer = [i \in Importers |-> [step |-> "queued", written |-> {}]]
      /\ told = {} /\ published = NoDestination
  BY DEF ArchiveInit
<1>2. ArchiveTypes
  <2>1. upload \in Uploads  BY <1>1 DEF Uploads, UploadSteps
  <2>2. store \in Stores  BY <1>1 DEF Stores
  <2>3. importer \in [Importers -> Imports]  BY <1>1 DEF Imports, ImportSteps
  <2>4. published \in Destinations /\ told \subseteq Importers
    BY <1>1 DEF Destinations, NoDestination
  <2> QED BY <2>1, <2>2, <2>3, <2>4 DEF ArchiveTypes
<1>3. UploadKnows  BY <1>1 DEF UploadKnows
<1>4. ImportsKnow  BY <1>1 DEF ImportsKnow
<1>5. UploadIsHonest  BY <1>1 DEF UploadIsHonest
<1>6. ImportsAreWhole  BY <1>1 DEF ImportsAreWhole
<1>7. Sides /\ transfer.client = {} /\ transfer.imported = {}
  <2>1. CASE task = "transfer"
    <3>1. PICK master \in SUBSET Directories, other \in SUBSET Directories, first \in BOOLEAN,
               second \in BOOLEAN, alone \in BOOLEAN :
              transfer = [NoTransfer EXCEPT !.native =
                    {[name |-> "world", master |-> TRUE, encoded |-> first, players |-> master]}
                    \union IF alone THEN {}
                           ELSE {[name |-> "under", master |-> FALSE, encoded |-> second,
                                  players |-> other]}]
      BY <2>1 DEF ArchiveInit
    <3>2. PICK a, b : /\ a = [name |-> "world", master |-> TRUE, encoded |-> first, players |-> master]
                      /\ b = [name |-> "under", master |-> FALSE, encoded |-> second, players |-> other]
      OBVIOUS
    <3>3. IsFiniteSet(master) /\ IsFiniteSet(other)  BY DirectoriesFinite, FS_Subset
    <3>4. a.name = "world" /\ a.master = TRUE /\ a.encoded = first /\ a.players = master
      BY ONLY <3>2
    <3>5. b.name = "under" /\ b.master = FALSE /\ b.encoded = second /\ b.players = other
      BY ONLY <3>2
    <3>6. Shard(a) /\ Shard(b)
      <4>1. a = [name |-> a.name, master |-> a.master, encoded |-> a.encoded, players |-> a.players]
        BY ONLY <3>2, <3>4
      <4>2. b = [name |-> b.name, master |-> b.master, encoded |-> b.encoded, players |-> b.players]
        BY ONLY <3>2, <3>5
      <4> QED BY <3>3, <3>4, <3>5, <4>1, <4>2 DEF Shard
    <3>7. PICK N : N = {a} \union IF alone THEN {} ELSE {b}  OBVIOUS
    <3>8. transfer = [native |-> N, client |-> {}, imported |-> {}, refused |-> FALSE]
      BY <3>1, <3>2, <3>7 DEF NoTransfer
    <3>9. transfer.native = N /\ transfer.client = {} /\ transfer.imported = {}
          /\ transfer = [native |-> transfer.native, client |-> transfer.client,
                         imported |-> transfer.imported, refused |-> transfer.refused]
      BY ONLY <3>8
    <3>10. \A s \in N : s = a \/ s = b  BY <3>7
    <3>11. \A s \in N : Shard(s) /\ s.encoded \in BOOLEAN /\ s.players \subseteq Directories
      BY <3>4, <3>5, <3>6, <3>10
    <3> QED BY <3>9, <3>11 DEF Sides
  <2>2. CASE task # "transfer"
    <3>1. transfer = NoTransfer  BY <2>2 DEF ArchiveInit
    <3>2. transfer.native = {} /\ transfer.client = {} /\ transfer.imported = {}
          /\ transfer = [native |-> transfer.native, client |-> transfer.client,
                         imported |-> transfer.imported, refused |-> transfer.refused]
      BY ONLY <3>1 DEF NoTransfer
    <3> QED BY <3>2 DEF Sides
  <2> QED BY <2>1, <2>2
<1>8. TransfersKeepPlayers  BY <1>7, TransfersSpelled
<1> QED BY <1>2, <1>3, <1>4, <1>5, <1>6, <1>7, <1>8 DEF ArchiveInv, ArchivesAreWhole

\* Both sides of a transfer stay as they are while nothing is transferred.
LEMMA TransferUntouched ==
    ASSUME ArchiveInv, transfer' = transfer
    PROVE  Sides' /\ TransfersKeepPlayers'
<1>1. Sides'  BY DEF ArchiveInv, Sides, Shard
<1>2. TransfersKeepPlayers  BY DEF ArchiveInv, ArchivesAreWhole
<1>3. TransfersKeepPlayers'  BY <1>2, TransfersSpelled, TransfersSpelledNext
<1> QED BY <1>1, <1>3

\* The export of a room for clients.
LEMMA ExportKeeps ==
    ASSUME ArchiveInv, ExportToClient
    PROVE  Sides' /\ TransfersKeepPlayers'
<1>0. Sides /\ TransfersKeepPlayers /\ transfer.client = {} /\ transfer.imported = {}
  BY DEF ArchiveInv, ArchivesAreWhole, ExportToClient, Sides
<1>1. transfer = [native |-> transfer.native, client |-> transfer.client,
                  imported |-> transfer.imported, refused |-> transfer.refused]
  BY <1>0 DEF Sides
<1>2. CASE transfer' = [transfer EXCEPT !.refused = TRUE]
  <2>1. transfer'.native = transfer.native /\ transfer'.client = transfer.client
        /\ transfer'.imported = transfer.imported
        /\ transfer' = [native |-> transfer'.native, client |-> transfer'.client,
                        imported |-> transfer'.imported, refused |-> transfer'.refused]
    BY ONLY <1>1, <1>2
  <2>2. Sides'  BY <1>0, <2>1 DEF Sides, Shard
  <2>3. TransfersKeepPlayers'  BY <1>0, <2>1, TransfersSpelledNext
  <2> QED BY <2>2, <2>3
<1>3. CASE /\ \A s \in transfer.native : ~Collide(s.players, s.encoded, TRUE)
           /\ transfer' = [transfer EXCEPT !.client = Convert(transfer.native, TRUE)]
  <2>1. PICK C : C = Convert(transfer.native, TRUE)  OBVIOUS
  <2>2. transfer'.native = transfer.native /\ transfer'.client = C
        /\ transfer'.imported = transfer.imported
        /\ transfer' = [native |-> transfer'.native, client |-> transfer'.client,
                        imported |-> transfer'.imported, refused |-> transfer'.refused]
    <3>1. transfer' = [transfer EXCEPT !.client = C]  BY <1>3, <2>1
    <3> QED BY ONLY <1>1, <3>1
  <2> DEFINE Of(s) == [s EXCEPT !.name = ClientName(s), !.encoded = TRUE,
                          !.players = {Renamed(d, s.encoded, TRUE) : d \in s.players}]
  <2>3. C = {Of(s) : s \in transfer.native}  BY <2>1 DEF Convert
  <2>4. ASSUME NEW s \in transfer.native
        PROVE  Shard(Of(s)) /\ Of(s).name = ClientName(s) /\ Of(s).encoded = TRUE /\ Keeps(s, Of(s))
    <3>1. Shard(s) /\ s.encoded \in BOOLEAN /\ s.players \subseteq Directories  BY <1>0 DEF Sides
    <3>2. \A d \in s.players : PlayerOf(Renamed(d, s.encoded, TRUE)) = PlayerOf(d)
      BY <3>1, ExportedPlayer
    <3>3. ~Collide(s.players, s.encoded, TRUE)  BY <1>3
    <3>4. PICK r : r = Of(s)  OBVIOUS
    <3>5. Shard(r) /\ r.name = ClientName(s) /\ r.encoded = TRUE /\ Keeps(s, r)
      <4>1. PICK R : R = {Renamed(d, s.encoded, TRUE) : d \in s.players}  OBVIOUS
      <4>2. r = [s EXCEPT !.name = ClientName(s), !.encoded = TRUE, !.players = R]  BY <3>4, <4>1
      <4> HIDE DEF Of
      <4>3. s = [name |-> s.name, master |-> s.master, encoded |-> s.encoded, players |-> s.players]
        BY <3>1 DEF Shard
      <4>4. r.name = ClientName(s) /\ r.encoded = TRUE /\ r.players = R
            /\ r = [name |-> r.name, master |-> r.master, encoded |-> r.encoded, players |-> r.players]
        BY ONLY <4>2, <4>3
      <4>5. Shard(r) /\ Keeps(s, r)  BY <3>1, <3>2, <3>3, <4>1, <4>4, ConvertedShard
      <4> QED BY <4>4, <4>5
    <3> HIDE DEF Of
    <3> QED BY <3>4, <3>5
  <2> HIDE DEF Of
  <2>5. \A r \in C : Shard(r) /\ r.encoded = TRUE  BY <2>3, <2>4
  <2>6. Sides'  BY <1>0, <2>2, <2>5 DEF Sides, Shard
  <2>7. \A s \in transfer.native : \E r \in C : r.name = ClientName(s) /\ Keeps(s, r)
    BY <2>3, <2>4
  <2>8. TransfersKeepPlayers'  BY <1>0, <2>2, <2>7, TransfersSpelledNext
  <2> QED BY <2>6, <2>8
<1> QED BY <1>2, <1>3 DEF ExportToClient

\* The import of that export.
LEMMA ImportKeeps ==
    ASSUME ArchiveInv, ImportFromClient
    PROVE  Sides' /\ TransfersKeepPlayers'
<1>0. Sides /\ TransfersKeepPlayers /\ transfer.client # {}
  BY DEF ArchiveInv, ArchivesAreWhole, ImportFromClient
<1>1. transfer = [native |-> transfer.native, client |-> transfer.client,
                  imported |-> transfer.imported, refused |-> transfer.refused]
  BY <1>0 DEF Sides
<1>2. CASE transfer' = [transfer EXCEPT !.refused = TRUE]
  <2>1. transfer'.native = transfer.native /\ transfer'.client = transfer.client
        /\ transfer'.imported = transfer.imported
        /\ transfer' = [native |-> transfer'.native, client |-> transfer'.client,
                        imported |-> transfer'.imported, refused |-> transfer'.refused]
    BY ONLY <1>1, <1>2
  <2>2. Sides'  BY <1>0, <2>1 DEF Sides, Shard
  <2>3. TransfersKeepPlayers'  BY <1>0, <2>1, TransfersSpelled, TransfersSpelledNext
  <2> QED BY <2>2, <2>3
<1>3. CASE /\ \A s \in transfer.client : /\ ~Undecodable(s.players, s.encoded, FALSE)
                                         /\ ~Collide(s.players, s.encoded, FALSE)
           /\ transfer' = [transfer EXCEPT !.imported = Convert(transfer.client, FALSE)]
  <2>1. PICK C : C = Convert(transfer.client, FALSE)  OBVIOUS
  <2>2. transfer'.native = transfer.native /\ transfer'.client = transfer.client
        /\ transfer'.imported = C
        /\ transfer' = [native |-> transfer'.native, client |-> transfer'.client,
                        imported |-> transfer'.imported, refused |-> transfer'.refused]
    <3>1. transfer' = [transfer EXCEPT !.imported = C]  BY <1>3, <2>1
    <3> QED BY ONLY <1>1, <3>1
  <2> DEFINE Of(s) == [s EXCEPT !.name = NativeName(s), !.encoded = FALSE,
                          !.players = {Renamed(d, s.encoded, FALSE) : d \in s.players}]
  <2>3. C = {Of(s) : s \in transfer.client}  BY <2>1 DEF Convert
  <2>4. ASSUME NEW s \in transfer.client
        PROVE  Of(s).name = NativeName(s) /\ Keeps(s, Of(s))
    <3>1. Shard(s) /\ s.encoded = TRUE  BY <1>0 DEF Sides
    <3>2. \A d \in s.players : IsEncoded(d) => Len(d.digits) = 12
      BY <1>3, <3>1 DEF Undecodable
    <3>3. \A d \in s.players : PlayerOf(Renamed(d, s.encoded, FALSE)) = PlayerOf(d)
      BY <3>1, <3>2, ImportedPlayer
    <3>4. ~Collide(s.players, s.encoded, FALSE)  BY <1>3
    <3>5. PICK r : r = Of(s)  OBVIOUS
    <3>6. r.name = NativeName(s) /\ Keeps(s, r)
      <4>1. PICK R : R = {Renamed(d, s.encoded, FALSE) : d \in s.players}  OBVIOUS
      <4>2. r = [s EXCEPT !.name = NativeName(s), !.encoded = FALSE, !.players = R]  BY <3>5, <4>1
      <4> HIDE DEF Of
      <4>3. s = [name |-> s.name, master |-> s.master, encoded |-> s.encoded, players |-> s.players]
        BY <3>1 DEF Shard
      <4>4. r.name = NativeName(s) /\ r.encoded = FALSE /\ r.players = R
            /\ r = [name |-> r.name, master |-> r.master, encoded |-> r.encoded, players |-> r.players]
        BY ONLY <4>2, <4>3
      <4> QED BY <3>1, <3>3, <3>4, <4>1, <4>4, ConvertedShard
    <3> HIDE DEF Of
    <3> QED BY <3>5, <3>6
  <2> HIDE DEF Of
  <2>6. Sides'  BY <1>0, <2>2 DEF Sides, Shard
  <2>7. \A s \in transfer.client : \E r \in C : r.name = NativeName(s) /\ Keeps(s, r)
    BY <2>3, <2>4
  <2>8. TransfersKeepPlayers'  BY <1>0, <2>2, <2>7, TransfersSpelled, TransfersSpelledNext
  <2> QED BY <2>6, <2>8
<1> QED BY <1>2, <1>3 DEF ImportFromClient

UploadInv == upload \in Uploads /\ store \in Stores /\ UploadKnows /\ UploadIsHonest
ImportInv ==
    /\ importer \in [Importers -> Imports] /\ published \in Destinations /\ told \subseteq Importers
    /\ ImportsKnow /\ ImportsAreWhole

\* The parts of the invariant, by the task they are about.
LEMMA ArchiveInvParts ==
    ArchiveInv <=> UploadInv /\ ImportInv /\ Sides /\ TransfersKeepPlayers
BY DEF ArchiveInv, UploadInv, ImportInv, ArchiveTypes, ArchivesAreWhole

\* No step of an upload lets its worker and the store disagree.
LEMMA UploadStepKeeps ==
    ASSUME UploadInv,
           \/ CancelUpload \/ CreateMultipart \/ CheckCancelled
           \/ SendPart \/ CompleteMultipart \/ AbortMultipart
    PROVE  UploadInv'
<1> USE ArchiveAssumption DEF UploadInv, Uploads, UploadSteps, Stores, UploadKnows, UploadIsHonest,
                              Uploading, EndUpload
<1>1. CASE CancelUpload
  <2>1. PICK b \in BOOLEAN : b = (upload.step \in {"complete", "abort"})
    <3>1. CASE upload.step \in {"complete", "abort"}
      <4>1. TRUE = (upload.step \in {"complete", "abort"})  BY ONLY <3>1
      <4> QED BY ONLY <4>1
    <3>2. CASE upload.step \notin {"complete", "abort"}
      <4>1. FALSE = (upload.step \in {"complete", "abort"})  BY ONLY <3>2
      <4> QED BY ONLY <4>1
    <3> QED BY <3>1, <3>2
  <2>2. upload' = [upload EXCEPT !.cancelled = TRUE, !.late = b] /\ store' = store
        /\ upload.step # "ended"
    BY <1>1, <2>1 DEF CancelUpload
  <2>3. upload' \in Uploads /\ upload'.step = upload.step /\ upload'.sent = upload.sent
        /\ upload'.cancelled /\ upload'.late = b /\ upload'.result = upload.result
        /\ upload'.owned = upload.owned
    BY <2>2
  <2>4. UploadKnows'  BY <2>1, <2>2, <2>3
  <2>5. ~upload'.late => store.state # "complete"  BY <2>1, <2>2, <2>3
  <2>6. UploadIsHonest'  BY <2>2, <2>3, <2>5
  <2> QED BY <2>2, <2>3, <2>4, <2>6
<1>2. CASE CreateMultipart
  <2>0. /\ upload.step = "create" /\ upload.result = "none" /\ ~upload.owned
        /\ store.state = "none" /\ store.parts = 0 /\ upload.sent = 0
    BY <1>2 DEF CreateMultipart
  <2>1. CASE /\ store' = [store EXCEPT !.state = "open"]
             /\ upload' = [upload EXCEPT !.step = "part", !.owned = TRUE]
    <3>1. store' \in Stores /\ store'.state = "open" /\ store'.parts = 0  BY <2>0, <2>1
    <3>2. upload' \in Uploads /\ upload'.step = "part" /\ upload'.owned /\ upload'.sent = 0
          /\ upload'.result = "none"
      BY <2>0, <2>1
    <3> QED BY <3>1, <3>2
  <2>2. CASE store' \in {store, [store EXCEPT !.state = "open"]} /\ EndUpload("error")
    <3>1. store' \in Stores /\ store'.state \in {"none", "open"} /\ store'.parts = 0  BY <2>0, <2>2
    <3>2. upload' \in Uploads /\ upload'.step = "ended" /\ ~upload'.owned /\ upload'.result = "error"
      BY <2>0, <2>2
    <3> QED BY <3>1, <3>2
  <2> QED BY <1>2, <2>1, <2>2 DEF CreateMultipart
<1>3. CASE CheckCancelled  BY <1>3 DEF CheckCancelled, CancelSeen
<1>4. CASE SendPart
  <2>0. store.state = "open" /\ upload.result = "none" /\ upload.owned /\ upload.step = "send"
    BY <1>4 DEF SendPart
  <2>1. PICK k \in Nat : k = upload.sent /\ k = store.parts  BY <2>0
  <2>2. PICK n \in Nat : n = k + 1  BY ONLY k \in Nat
  <2>3. CASE store' = [store EXCEPT !.parts = @ + 1]
             /\ upload' = [upload EXCEPT !.sent = @ + 1, !.step = "part"]
    <3>1. store' = [store EXCEPT !.parts = n] /\ upload' = [upload EXCEPT !.sent = n, !.step = "part"]
      BY ONLY <2>1, <2>2, <2>3
    <3>2. store' \in Stores /\ upload' \in Uploads /\ store'.state = store.state /\ store'.parts = n
          /\ upload'.sent = n /\ upload'.step = "part" /\ upload'.result = upload.result
          /\ upload'.cancelled = upload.cancelled /\ upload'.late = upload.late
          /\ upload'.owned = upload.owned
      BY <3>1
    <3> QED BY <2>0, <3>2
  <2>4. CASE store' = [store EXCEPT !.parts = @ + 1] /\ upload' = [upload EXCEPT !.step = "abort"]
    <3>1. store' = [store EXCEPT !.parts = n]  BY ONLY <2>1, <2>2, <2>4
    <3>2. store' \in Stores /\ upload' \in Uploads /\ store'.state = store.state
          /\ upload'.step = "abort" /\ upload'.result = upload.result
          /\ upload'.cancelled = upload.cancelled /\ upload'.late = upload.late
          /\ upload'.owned = upload.owned
      BY <2>4, <3>1
    <3> QED BY <2>0, <3>2
  <2>5. CASE store' = store /\ upload' = [upload EXCEPT !.step = "abort"]
    BY <2>0, <2>5
  <2> QED BY <1>4, <2>3, <2>4, <2>5 DEF SendPart
<1>5. CASE CompleteMultipart  BY <1>5 DEF CompleteMultipart
<1>6. CASE AbortMultipart  BY <1>6 DEF AbortMultipart
<1> QED BY <1>1, <1>2, <1>3, <1>4, <1>5, <1>6

\* No step of an import replaces what is published or publishes a part of it.
LEMMA ImportStepKeeps ==
    ASSUME ImportInv, NEW i \in Importers, ImportStep(i)
    PROVE  ImportInv'
<1> USE ArchiveAssumption DEF ImportInv, Imports, ImportSteps, Destinations, ImportsKnow,
                              ImportsAreWhole, Importing, Proceed, EndImport, NoDestination
<1>1. CASE TakePermit(i)  BY <1>1 DEF TakePermit
<1>2. CASE CheckDestination(i)
  <2>1. UNCHANGED <<published, told>>  BY <1>2 DEF CheckDestination
  <2>2. CASE importer' = [importer EXCEPT ![i].step = "write"]
    <3>1. importer' \in [Importers -> Imports]  BY <2>2
    <3>2. \A j \in Importers : importer'[j].step = "synced" => importer[j].step = "synced"  BY <2>2
    <3> QED BY <2>1, <3>1, <3>2
  <2>3. CASE importer' = [importer EXCEPT ![i] = [step |-> "ended", written |-> {}]]
    <3>1. importer' \in [Importers -> Imports]  BY <2>3
    <3>2. \A j \in Importers : importer'[j].step = "synced" => importer[j].step = "synced"  BY <2>3
    <3> QED BY <2>1, <3>1, <3>2
  <2> QED BY <1>2, <2>2, <2>3 DEF CheckDestination
<1>3. CASE WriteImported(i)  BY <1>3 DEF WriteImported
<1>4. CASE PublishImport(i)
  <2>0. told' = told /\ importer[i].written = ImportFiles  BY <1>4 DEF PublishImport
  <2>1. CASE /\ published = NoDestination
             /\ published' = [owner |-> i, files |-> importer[i].written]
             /\ importer' = [importer EXCEPT ![i].step = "synced"]
    <3>1. importer' \in [Importers -> Imports]  BY <2>1
    <3>2. published.owner = Nothing  BY <2>1
    <3>3. \A j \in Importers : importer'[j].step = "synced" => j = i  BY <2>1, <3>2
    <3>4. published' \in Destinations /\ published'.owner = i /\ published'.files = ImportFiles
      BY <2>0, <2>1
    <3>5. told = {}  BY <3>2
    <3> QED BY <2>0, <3>1, <3>3, <3>4, <3>5
  <2>2. CASE published' = published /\ importer' = [importer EXCEPT ![i] = [step |-> "ended", written |-> {}]]
    <3>1. importer' \in [Importers -> Imports]  BY <2>2
    <3>2. \A j \in Importers : importer'[j].step = "synced" => importer[j].step = "synced"  BY <2>2
    <3> QED BY <2>0, <2>2, <3>1, <3>2
  <2> QED BY <1>4, <2>1, <2>2 DEF PublishImport, CanPublish
<1>5. CASE ReportImport(i)  BY <1>5 DEF ReportImport
<1>6. CASE FailImport(i)  BY <1>6 DEF FailImport
<1> QED BY <1>1, <1>2, <1>3, <1>4, <1>5, <1>6 DEF ImportStep

\* Every step keeps the invariant.
LEMMA ArchiveStep == ArchiveInv /\ [ArchiveNext]_archiveVars => ArchiveInv'
<1> SUFFICES ASSUME ArchiveInv, [ArchiveNext]_archiveVars PROVE ArchiveInv'
  OBVIOUS
<1>0. UploadInv /\ ImportInv /\ Sides /\ TransfersKeepPlayers  BY ArchiveInvParts
<1>1. ASSUME UNCHANGED uploadVars PROVE UploadInv'
  BY <1>0, <1>1 DEF UploadInv, UploadKnows, UploadIsHonest, uploadVars
<1>2. ASSUME UNCHANGED importVars PROVE ImportInv'
  BY <1>0, <1>2 DEF ImportInv, ImportsKnow, ImportsAreWhole, importVars
<1>3. ASSUME UNCHANGED transfer PROVE Sides' /\ TransfersKeepPlayers'
  BY <1>3, TransferUntouched
<1>4. CASE ExportToClient
  <2>1. UNCHANGED uploadVars /\ UNCHANGED importVars  BY <1>4 DEF ExportToClient
  <2> QED BY <1>1, <1>2, <1>4, <2>1, ExportKeeps, ArchiveInvParts DEF ArchiveInv, ArchiveTypes, UploadInv, ImportInv, ArchivesAreWhole
<1>5. CASE ImportFromClient
  <2>1. UNCHANGED uploadVars /\ UNCHANGED importVars  BY <1>5 DEF ImportFromClient
  <2> QED BY <1>1, <1>2, <1>5, <2>1, ImportKeeps DEF ArchiveInv, ArchiveTypes, UploadInv, ImportInv, ArchivesAreWhole
<1>6. CASE CancelUpload \/ CreateMultipart \/ CheckCancelled
           \/ SendPart \/ CompleteMultipart \/ AbortMultipart
  <2>1. UNCHANGED importVars /\ UNCHANGED transfer
    BY <1>6 DEF CancelUpload, CreateMultipart, CheckCancelled, SendPart, CompleteMultipart,
                AbortMultipart
  <2>2. UploadInv'  BY <1>0, <1>6, UploadStepKeeps
  <2> QED BY <1>2, <1>3, <2>1, <2>2 DEF ArchiveInv, ArchiveTypes, UploadInv, ImportInv, ArchivesAreWhole
<1>7. CASE \E i \in Importers : ImportStep(i)
  <2>1. PICK i \in Importers : ImportStep(i)  BY <1>7
  <2>2. UNCHANGED uploadVars /\ UNCHANGED transfer
    BY <2>1 DEF ImportStep, TakePermit, CheckDestination, WriteImported, PublishImport,
                ReportImport, FailImport
  <2>3. ImportInv'  BY <1>0, <2>1, ImportStepKeeps
  <2> QED BY <1>1, <1>3, <2>2, <2>3 DEF ArchiveInv, ArchiveTypes, UploadInv, ImportInv, ArchivesAreWhole
<1>8. CASE UNCHANGED archiveVars
  <2>1. UNCHANGED uploadVars /\ UNCHANGED importVars /\ UNCHANGED transfer
    BY <1>8 DEF archiveVars
  <2> QED BY <1>1, <1>2, <1>3, <2>1 DEF ArchiveInv, ArchiveTypes, UploadInv, ImportInv, ArchivesAreWhole
<1> QED BY <1>4, <1>5, <1>6, <1>7, <1>8 DEF ArchiveNext

\* For any number of parts, imports and players: an upload is reported as done only
\* when the object is complete, a destination holds a whole import from the moment it
\* exists, and a transfer to a client and back merges, loses and swaps no player
\* (upload, write_new_directory, normalize).
THEOREM ArchivesWhole == ArchiveSpec => []ArchivesAreWhole
<1>1. ArchiveInv => ArchivesAreWhole  BY DEF ArchiveInv
<1> QED BY <1>1, ArchiveStarts, ArchiveStep, PTL DEF ArchiveSpec

-----------------------------------------------------------------------------
(* The idle policy *)

Ages == 0 .. Cap
Probes == [taken : {TRUE}, valid : {TRUE}, empty : BOOLEAN, noted : BOOLEAN, idle : Ages]
Records == [known : BOOLEAN, last : Int, clean : BOOLEAN, interrupted : BOOLEAN]

ActivityTypes ==
    /\ visitor \in BOOLEAN /\ tier \in Tiers /\ moved \in BOOLEAN /\ fresh \in BOOLEAN
    /\ lua \in [noted : BOOLEAN, idle : Ages, reliable : BOOLEAN]
    /\ activity \in Records /\ activity.last <= Cap
    /\ running \in BOOLEAN /\ busy \in BOOLEAN /\ unseen \in BOOLEAN /\ ticked \in BOOLEAN
    /\ due \in BOOLEAN /\ wipe \in {"none", "planned", "checked"}
    /\ skew \in Int /\ quiet \in Ages /\ wipes \in Nat
    /\ probe \in {NoProbe, Crossed} \union Probes

\* The policy takes the world for quiet no longer than it is, but for the jumps of the
\* clock that the next plan will see.
Behind == quiet < Cap => activity.last <= quiet + skew

\* What the policy knows is about this world, and is not interrupted.
Trusted == ~unseen /\ activity.known /\ ~activity.interrupted /\ ~moved

Noted == lua.noted => lua.idle <= quiet

\* A trusted story is behind when the game was stopped cleanly, since the last tick,
\* and while the observation that it names has noted nothing.
Story ==
    Trusted /\ (activity.clean \/ ticked \/ (running /\ ~fresh /\ ~lua.noted)) => Behind

Observed ==
    probe.taken /\ probe.valid =>
        /\ probe.noted => probe.idle <= quiet
        /\ ~probe.noted /\ Trusted /\ (activity.clean \/ ~fresh) => Behind

Exclusive ==
    /\ wipe # "none" => busy /\ ~probe.taken
    /\ game = "stopping" => ticked
    /\ ~running => skew = 0

Decided == wipe # "none" /\ ~unseen /\ ~moved => due

ActivityInv == ActivityTypes /\ Noted /\ Story /\ Observed /\ Exclusive /\ Decided

-----------------------------------------------------------------------------

\* Ages are numbers up to a cap; a retention is shorter.
LEMMA AgesBounded ==
    /\ Cap \in Nat /\ Ages \subseteq Nat /\ Ages \subseteq Int /\ 0 \in Ages
    /\ \A t \in Tiers : Retention[t] \in Nat /\ Retention[t] >= 1
    /\ \A a \in Ages : Older(a) \in Ages /\ Older(a) <= a + 1 /\ (a < Cap => Older(a) = a + 1)
                       /\ (~(a < Cap) => Older(a) = Cap)
    /\ \A a \in Int : a <= Cap => Older(a) \in Int /\ Older(a) <= Cap /\ Older(a) <= a + 1
BY RetentionAssumption DEF Cap, Ages, Older

\* The shapes of a probe.
LEMMA ProbeShapes ==
    /\ NoProbe.taken = FALSE /\ Crossed.taken = TRUE /\ Crossed.valid = FALSE
    /\ \A q \in Probes : q.taken /\ q.valid /\ q.empty \in BOOLEAN /\ q.noted \in BOOLEAN /\ q.idle \in Ages
BY DEF NoProbe, Crossed, Probes

\* A tick that is crossed has observed nothing.
LEMMA Crossing ==
    ASSUME ActivityTypes, Cross
    PROVE  probe' \in {NoProbe, Crossed} /\ ~(probe'.taken /\ probe'.valid)
           /\ (~probe.taken => ~probe'.taken)
<1>1. probe \in {NoProbe, Crossed} \union Probes  BY DEF ActivityTypes
<1>2. CASE probe.taken  BY <1>2, ProbeShapes DEF Cross
<1>3. CASE ~probe.taken
  <2>1. probe = NoProbe  BY <1>1, <1>3, ProbeShapes
  <2> QED BY <1>3, <2>1, ProbeShapes DEF Cross
<1> QED BY <1>2, <1>3

\* A new room knows nothing.
LEMMA ActivityStarts == ActivityInit => ActivityInv
<1> SUFFICES ASSUME ActivityInit PROVE ActivityInv
  OBVIOUS
<1>1. NoActivity \in Records /\ NoActivity.last = 0 /\ ~NoActivity.known
  BY DEF NoActivity, Records
<1>2. Installed \in [noted : BOOLEAN, idle : Ages, reliable : BOOLEAN] /\ ~Installed.noted
  BY AgesBounded DEF Installed
<1>3. ActivityTypes
  <2>1. activity \in Records /\ activity.last <= Cap  BY <1>1, AgesBounded DEF ActivityInit
  <2>2. skew \in Int /\ quiet \in Ages /\ wipes \in Nat  BY AgesBounded DEF ActivityInit
  <2> QED BY <1>2, <2>1, <2>2 DEF ActivityInit, ActivityTypes
<1> QED BY <1>1, <1>2, <1>3, ProbeShapes DEF ActivityInit, ActivityInv, Noted, Story, Trusted, Observed, Exclusive, Decided

-----------------------------------------------------------------------------
(* The steps *)

\* Visitors come and go: the game notes it, or its observation is worth nothing.
LEMMA VisitKeeps ==
    ASSUME ActivityInv, Join \/ Leave
    PROVE  ActivityInv'
<1> USE DEF ActivityInv
<1>1. UNCHANGED <<tier, game, policyVars, controllerVars, pastVars>> /\ visitor' \in BOOLEAN /\ Note
  BY DEF Join, Leave
<1>2. UNCHANGED <<tier, game, activity, moved, fresh, running, busy, skew, probe, wipe, quiet, due,
                  unseen, ticked, wipes>>
  BY <1>1 DEF policyVars, controllerVars, pastVars
<1>3. lua' \in [noted : BOOLEAN, idle : Ages, reliable : BOOLEAN]
      /\ (lua.noted => lua'.noted) /\ (lua'.noted => lua'.idle <= quiet)
  <2>1. lua \in [noted : BOOLEAN, idle : Ages, reliable : BOOLEAN] /\ quiet \in Ages
    BY DEF ActivityTypes
  <2>2. CASE lua' = [lua EXCEPT !.noted = TRUE, !.idle = 0]
    <3>1. 0 <= quiet  BY <2>1, AgesBounded
    <3> QED BY <2>1, <2>2, <3>1, AgesBounded
  <2>3. CASE lua' = [lua EXCEPT !.reliable = FALSE]
    <3>1. lua'.noted = lua.noted /\ lua'.idle = lua.idle
          /\ lua' \in [noted : BOOLEAN, idle : Ages, reliable : BOOLEAN]
      BY <2>1, <2>3
    <3> QED BY <3>1 DEF Noted
  <2> QED BY <1>1, <2>2, <2>3 DEF Note
<1>4. ActivityTypes'  BY <1>1, <1>2, <1>3 DEF ActivityTypes
<1>5. Noted'  BY <1>2, <1>3 DEF Noted
<1>6. Story' /\ Observed'  BY <1>2, <1>3 DEF Story, Observed, Trusted, Behind
<1>7. Exclusive' /\ Decided'  BY <1>2 DEF Exclusive, Decided
<1> QED BY <1>4, <1>5, <1>6, <1>7

\* The same world is observed anew, or there is another world.
LEMMA ReloadKeeps ==
    ASSUME ActivityInv, Reload
    PROVE  ActivityInv'
<1> USE DEF ActivityInv
<1>1. lua' = Installed /\ fresh' = TRUE /\ Cross /\ visitor' = FALSE
      /\ UNCHANGED <<game, activity, running, busy, skew, wipe, unseen, ticked>>
  BY DEF Reload
<1>2. Installed \in [noted : BOOLEAN, idle : Ages, reliable : BOOLEAN] /\ ~Installed.noted
  BY AgesBounded DEF Installed
<1>3. probe' \in {NoProbe, Crossed} /\ ~(probe'.taken /\ probe'.valid) /\ (~probe.taken => ~probe'.taken)
  BY <1>1, Crossing
<1>4. \/ UNCHANGED <<moved, quiet, tier, due, wipes>>
      \/ wipes' = wipes + 1 /\ due' = FALSE /\ moved' = TRUE /\ quiet' = 0 /\ tier' \in Tiers
  BY DEF Reload
<1>5. ActivityTypes'
  <2>1. moved' \in BOOLEAN /\ due' \in BOOLEAN /\ tier' \in Tiers  BY <1>4 DEF ActivityTypes
  <2>2. quiet' \in Ages /\ wipes' \in Nat  BY <1>4, AgesBounded DEF ActivityTypes
  <2> QED BY <1>1, <1>2, <1>3, <2>1, <2>2 DEF ActivityTypes
<1>6. Noted'  BY <1>1, <1>2 DEF Noted
<1>7. Story'  BY <1>1, <1>4 DEF Story, Trusted, Behind
<1>8. Observed'  BY <1>3 DEF Observed
<1>9. Exclusive'  BY <1>1, <1>3 DEF Exclusive
<1>10. Decided'  BY <1>1, <1>4 DEF Decided
<1> QED BY <1>5, <1>6, <1>7, <1>8, <1>9, <1>10

\* What the game answers: its observation, or a new one.
LEMMA Answers ==
    ASSUME ActivityTypes, Noted
    PROVE  /\ Answered \in [noted : BOOLEAN, idle : Ages, reliable : BOOLEAN]
           /\ Answered.noted => (lua.noted /\ Answered.idle <= quiet)
           /\ FreshAfter \in BOOLEAN
           /\ ~FreshAfter => (~fresh /\ Answered = lua)
<1>1. lua \in [noted : BOOLEAN, idle : Ages, reliable : BOOLEAN] /\ fresh \in BOOLEAN
  BY DEF ActivityTypes
<1>2. Installed \in [noted : BOOLEAN, idle : Ages, reliable : BOOLEAN] /\ ~Installed.noted
  BY AgesBounded DEF Installed
<1>3. CASE lua.reliable
  <2>1. Answered = lua  BY <1>3 DEF Answered
  <2>2. FreshAfter = fresh  BY <1>1, <1>3 DEF FreshAfter
  <2> QED BY <1>1, <2>1, <2>2 DEF Noted
<1>4. CASE ~lua.reliable
  <2>1. Answered = Installed  BY <1>4 DEF Answered
  <2>2. FreshAfter = TRUE  BY <1>1, <1>4 DEF FreshAfter
  <2> QED BY <1>2, <2>1, <2>2
<1> QED BY <1>3, <1>4

\* A tick asks the game.
LEMMA BeginTickKeeps ==
    ASSUME ActivityInv, BeginTick
    PROVE  ActivityInv'
<1> USE DEF ActivityInv
<1>1. running /\ ~busy
      /\ UNCHANGED <<visitor, tier, game, activity, moved, running, busy, skew, wipe, quiet, due,
                     unseen, ticked, wipes>>
  BY DEF BeginTick, pastVars
<1>2. wipe = "none"  BY <1>1 DEF Exclusive
<1>3. CASE probe' = Probed /\ lua' = Answered /\ fresh' = FreshAfter
  <2>1. /\ lua' \in [noted : BOOLEAN, idle : Ages, reliable : BOOLEAN]
        /\ lua'.noted => (lua.noted /\ lua'.idle <= quiet)
        /\ fresh' \in BOOLEAN
        /\ ~fresh' => (~fresh /\ lua' = lua)
    BY <1>3, Answers
  <2>2. probe'.noted = lua'.noted /\ probe'.idle = lua'.idle  BY <1>3 DEF Probed
  <2>3. probe' \in Probes
    BY <1>3, <2>1 DEF Probed, Probes, ActivityTypes
  <2>4. ActivityTypes'  BY <1>1, <2>1, <2>3 DEF ActivityTypes
  <2>5. Noted'  BY <1>1, <2>1 DEF Noted
  <2>6. Trusted' = Trusted /\ Behind' = Behind  BY <1>1 DEF Trusted, Behind
  <2>7. Story'  BY <1>1, <2>1, <2>6 DEF Story
  <2>8. Observed'
    <3>1. probe'.noted => probe'.idle <= quiet'  BY <1>1, <2>1, <2>2
    <3>2. ~probe'.noted /\ Trusted' /\ (activity'.clean \/ ~fresh') => Behind'
      BY <1>1, <2>1, <2>2, <2>6 DEF Story
    <3> QED BY <3>1, <3>2 DEF Observed
  <2>9. Exclusive' /\ Decided'  BY <1>1, <1>2 DEF Exclusive, Decided
  <2> QED BY <2>4, <2>5, <2>7, <2>8, <2>9
<1>4. CASE probe' = Crossed /\ UNCHANGED <<lua, fresh>>
  <2>1. ActivityTypes'  BY <1>1, <1>4 DEF ActivityTypes
  <2>2. Noted' /\ Story'  BY <1>1, <1>4 DEF Noted, Story, Trusted, Behind
  <2>3. Observed'  BY <1>4, ProbeShapes DEF Observed
  <2>4. Exclusive' /\ Decided'  BY <1>1, <1>2 DEF Exclusive, Decided
  <2> QED BY <2>1, <2>2, <2>3, <2>4
<1> QED BY <1>3, <1>4 DEF BeginTick

\* What a tick concludes is never longer ago than somebody was there.
LEMMA ConclusionSound ==
    ASSUME ActivityInv, probe.taken, probe.valid
    PROVE  /\ LastActive(AfterClock(activity), probe) \in Int
           /\ LastActive(AfterClock(activity), probe) <= Cap
           /\ ~unseen => LastActive(AfterClock(activity), probe) <= quiet
<1> USE DEF ActivityInv
<1> DEFINE a == AfterClock(activity)
           base == IF Continuous(a) THEN Earlier(a.last, 0) ELSE 0
<1>1. probe \in Probes  BY ProbeShapes DEF ActivityTypes
<1>2. probe.empty \in BOOLEAN /\ probe.noted \in BOOLEAN /\ probe.idle \in Ages /\ quiet \in Ages
      /\ activity \in Records /\ activity.last \in Int /\ activity.last <= Cap /\ skew \in Int
  BY <1>1, ProbeShapes DEF ActivityTypes, Records
<1>3. base \in Int /\ base <= Cap /\ base >= 0 /\ (~unseen /\ ~probe.noted => base <= quiet)
  <2>1. CASE ~Continuous(a)  BY <2>1, <1>2, AgesBounded
  <2>2. CASE Continuous(a)
    <3>1. a.known /\ ~a.interrupted /\ ~moved /\ (a.clean \/ ~fresh)  BY <2>2 DEF Continuous
    <3>2. skew = 0
      <4>1. SUFFICES ASSUME skew # 0 PROVE FALSE
        OBVIOUS
      <4>2. a = [activity EXCEPT !.interrupted = @ \/ activity.known, !.clean = FALSE]
        BY <4>1 DEF AfterClock
      <4>3. a.known = activity.known /\ a.interrupted = (activity.interrupted \/ activity.known)
        BY <1>2, <4>2 DEF Records
      <4> QED BY <3>1, <4>3
    <3>3. a = activity  BY <3>2 DEF AfterClock
    <3>4. ~unseen => Trusted /\ (activity.clean \/ ~fresh)  BY <3>1, <3>3 DEF Trusted
    <3>5. ~unseen /\ ~probe.noted => Behind  BY <3>4 DEF Observed
    <3>6. base = Earlier(activity.last, 0)  BY <2>2, <3>3
    <3> HIDE DEF base
    <3>7. base \in Int /\ base <= Cap /\ base >= 0  BY <1>2, <3>6, AgesBounded DEF Earlier
    <3>8. ASSUME ~unseen, ~probe.noted PROVE base <= quiet
      <4>1. quiet < Cap => activity.last <= quiet + 0  BY <3>2, <3>5, <3>8 DEF Behind
      <4>2. quiet \in Nat /\ quiet <= Cap /\ Cap \in Nat  BY <1>2, AgesBounded DEF Ages
      <4> QED BY <1>2, <3>6, <4>1, <4>2 DEF Earlier
    <3> QED BY <3>7, <3>8
  <2> QED BY <2>1, <2>2
<1>4. LastActive(a, probe) = IF ~probe.empty THEN 0
                             ELSE IF probe.noted THEN Later(base, probe.idle) ELSE base
  BY DEF LastActive
<1> HIDE DEF a, base
<1>5. probe.noted => probe.idle <= quiet  BY DEF Observed
<1>6. quiet \in Nat /\ quiet <= Cap /\ Cap \in Nat /\ probe.idle \in Nat  BY <1>2, AgesBounded DEF Ages
<1> DEFINE l == LastActive(a, probe)
<1>7. ~probe.empty => l \in Int /\ l <= Cap /\ l <= quiet  BY <1>4, <1>6
<1>8. probe.empty /\ probe.noted => l \in Int /\ l <= Cap /\ l <= quiet
  BY <1>3, <1>4, <1>5, <1>6 DEF Later
<1>9. probe.empty /\ ~probe.noted => l \in Int /\ l <= Cap /\ (~unseen => l <= quiet)
  BY <1>3, <1>4, <1>6
<1> QED BY <1>7, <1>8, <1>9, <1>2 DEF a

\* A tick that has observed.
LEMMA PlanObservedKeeps ==
    ASSUME ActivityInv, PlanObserved
    PROVE  ActivityInv'
<1> USE DEF ActivityInv
<1> DEFINE l == LastActive(AfterClock(activity), probe)
           a == [known |-> TRUE, last |-> l, clean |-> FALSE, interrupted |-> FALSE]
<1>1. running /\ probe.taken /\ probe.valid /\ moved' = FALSE /\ fresh' = FALSE /\ probe' = NoProbe
      /\ skew' = 0 /\ ticked' = TRUE
      /\ UNCHANGED <<visitor, tier, game, lua, running, quiet, unseen, wipes>>
      /\ \/ Expired(a, probe) /\ Regenerate(a)
         \/ activity' = a /\ UNCHANGED <<wipe, busy, due>>
  BY DEF PlanObserved, worldVars
<1>2. l \in Int /\ l <= Cap /\ (~unseen => l <= quiet)  BY <1>1, ConclusionSound
<1>3. wipe = "none"  BY <1>1 DEF Exclusive
<1>4. quiet \in Nat /\ quiet \in Ages /\ Retention[tier] \in Nat /\ Cap \in Nat /\ 0 <= Cap
  BY AgesBounded DEF ActivityTypes
<1> HIDE DEF l
<1>5. a \in Records /\ a.last = l  BY <1>2 DEF Records
<1>6. activity' \in Records /\ activity'.last <= Cap /\ (~unseen => activity'.last <= quiet)
  <2>1. CASE activity' = a  BY <1>2, <1>5, <2>1
  <2>2. CASE activity' = [a EXCEPT !.last = 0]
    <3>1. activity' \in Records /\ activity'.last = 0
      <4> HIDE DEF a
      <4> QED BY ONLY <1>5, <2>2 DEF Records
    <3> QED BY <1>4, <3>1
  <2> QED BY <1>1, <2>1, <2>2 DEF Regenerate
<1>7. wipe' \in {"none", "planned", "checked"} /\ busy' \in BOOLEAN /\ due' \in BOOLEAN
      /\ (wipe' # "none" => busy' /\ (~unseen => due'))
  <2>1. CASE UNCHANGED <<wipe, busy, due>>  BY <1>3, <2>1 DEF ActivityTypes
  <2>2. CASE Expired(a, probe) /\ Regenerate(a)
    <3>1. wipe' = "planned" /\ busy' = TRUE /\ due' = (quiet > Retention[tier])
      BY <2>2 DEF Regenerate
    <3>2. l > Retention[tier]  BY <2>2, <1>5 DEF Expired
    <3>3. ~unseen => quiet > Retention[tier]  BY <1>2, <1>4, <3>2
    <3>4. (quiet > Retention[tier]) \in BOOLEAN  OBVIOUS
    <3> QED BY <3>1, <3>3, <3>4
  <2> QED BY <1>1, <2>1, <2>2
<1>8. skew' \in Int  BY <1>1
<1>9. ActivityTypes'  BY <1>1, <1>6, <1>7, <1>8 DEF ActivityTypes
<1>10. Noted'  BY <1>1 DEF Noted
<1>11. Story'
  <2>1. ~unseen => activity'.last <= quiet + 0  BY <1>4, <1>6 DEF Records
  <2> QED BY <1>1, <2>1 DEF Story, Trusted, Behind
<1>12. Observed'  BY <1>1, ProbeShapes DEF Observed
<1>13. Exclusive'  BY <1>1, <1>7, ProbeShapes DEF Exclusive
<1>14. Decided'  BY <1>1, <1>7 DEF Decided
<1> QED BY <1>9, <1>10, <1>11, <1>12, <1>13, <1>14

\* A tick that has not: what was not closed cleanly is interrupted.
LEMMA PlanUnobservedKeeps ==
    ASSUME ActivityInv, PlanUnobserved
    PROVE  ActivityInv'
<1> USE DEF ActivityInv
<1>1. running /\ activity' = Unobserved(AfterClock(activity)) /\ probe' = NoProbe /\ skew' = 0 /\ ticked' = TRUE
      /\ UNCHANGED <<visitor, tier, game, lua, moved, fresh, running, busy, wipe, quiet, due, unseen, wipes>>
  BY DEF PlanUnobserved, worldVars
<1>2. activity \in Records /\ activity.last <= Cap /\ activity.known \in BOOLEAN
      /\ activity.interrupted \in BOOLEAN /\ activity.clean \in BOOLEAN
  BY DEF ActivityTypes, Records
<1> DEFINE a == AfterClock(activity)
<1>3. a \in Records /\ a.last = activity.last /\ a.known = activity.known
      /\ (~(skew = 0) /\ a.known => a.interrupted) /\ (skew = 0 => a = activity)
  BY <1>2 DEF AfterClock, Records
<1> HIDE DEF a
<1>4. activity' = Unobserved(a)  BY <1>1 DEF a
<1>5. activity' \in Records /\ activity'.last = a.last /\ activity'.known = a.known
      /\ (activity'.interrupted \/ (activity' = a /\ (~a.known \/ a.clean \/ game = "stopping")))
  BY <1>3, <1>4 DEF Unobserved, Records
<1>6. ActivityTypes'
  <2>1. activity' \in Records /\ activity'.last <= Cap  BY <1>2, <1>3, <1>5
  <2> QED BY <1>1, <2>1 DEF ActivityTypes
<1>7. Noted'  BY <1>1 DEF Noted
<1>8. Story'
  <2> SUFFICES ASSUME Trusted' PROVE Behind'
    BY DEF Story
  <2>1. activity' = a /\ a.known /\ ~a.interrupted /\ (a.clean \/ game = "stopping")
    BY <1>5 DEF Trusted
  <2>2. skew = 0 /\ a = activity  BY <1>3, <2>1
  <2>3. Trusted /\ (activity.clean \/ ticked)  BY <1>1, <2>1, <2>2 DEF Trusted, Exclusive
  <2>4. Behind  BY <2>3 DEF Story
  <2> QED BY <1>1, <2>1, <2>2, <2>4 DEF Behind
<1>9. Observed'  BY <1>1, ProbeShapes DEF Observed
<1>10. Exclusive'  BY <1>1, ProbeShapes DEF Exclusive
<1>11. Decided'  BY <1>1 DEF Decided
<1> QED BY <1>6, <1>7, <1>8, <1>9, <1>10, <1>11

\* The decision on its way is dropped for a visitor or another world.
LEMMA CheckEmptyKeeps ==
    ASSUME ActivityInv, CheckEmpty
    PROVE  ActivityInv'
<1> USE DEF ActivityInv
<1>1. wipe = "planned" /\ lua' = Answered /\ fresh' = FreshAfter
      /\ UNCHANGED <<activity, running, skew, probe, unseen, ticked, visitor, tier, game, moved, quiet, wipes>>
      /\ \/ wipe' = "none" /\ busy' = FALSE /\ due' = FALSE
         \/ wipe' = "checked" /\ UNCHANGED <<busy, due>>
  BY DEF CheckEmpty, Abort
<1>2. /\ lua' \in [noted : BOOLEAN, idle : Ages, reliable : BOOLEAN]
      /\ lua'.noted => (lua.noted /\ lua'.idle <= quiet)
      /\ fresh' \in BOOLEAN
      /\ ~fresh' => (~fresh /\ lua' = lua)
  BY <1>1, Answers
<1>3. ~probe.taken /\ busy  BY <1>1 DEF Exclusive
<1>4. ActivityTypes'  BY <1>1, <1>2 DEF ActivityTypes
<1>5. Noted'  BY <1>1, <1>2 DEF Noted
<1>6. Story'
  <2>1. Trusted' = Trusted /\ Behind' = Behind  BY <1>1 DEF Trusted, Behind
  <2> QED BY <1>1, <1>2, <2>1 DEF Story
<1>7. Observed'  BY <1>1, <1>3 DEF Observed
<1>8. Exclusive' /\ Decided'  BY <1>1, <1>3 DEF Exclusive, Decided
<1> QED BY <1>4, <1>5, <1>6, <1>7, <1>8

\* The call makes a new world, or is refused.
LEMMA CallRegenerateKeeps ==
    ASSUME ActivityInv, CallRegenerate
    PROVE  ActivityInv'
<1> USE DEF ActivityInv
<1>1. wipe = "checked" /\ UNCHANGED <<activity, running, skew, probe, unseen, ticked, game>>
      /\ wipe' = "none" /\ busy' = FALSE /\ due' = FALSE
      /\ \/ UNCHANGED <<lua, fresh, visitor, tier, moved, quiet, wipes>>
         \/ wipes' = wipes + 1 /\ moved' = TRUE /\ fresh' = TRUE /\ lua' = Installed
            /\ visitor' = FALSE /\ quiet' = 0 /\ tier' \in Tiers
  BY DEF CallRegenerate, Abort
<1>2. Installed \in [noted : BOOLEAN, idle : Ages, reliable : BOOLEAN] /\ ~Installed.noted
  BY AgesBounded DEF Installed
<1>3. ~probe.taken  BY <1>1 DEF Exclusive
<1>4. ActivityTypes'
  <2>1. moved' \in BOOLEAN /\ fresh' \in BOOLEAN /\ visitor' \in BOOLEAN /\ tier' \in Tiers
        /\ lua' \in [noted : BOOLEAN, idle : Ages, reliable : BOOLEAN]
    BY <1>1, <1>2 DEF ActivityTypes
  <2>2. quiet' \in Ages /\ wipes' \in Nat  BY <1>1, AgesBounded DEF ActivityTypes
  <2> QED BY <1>1, <2>1, <2>2 DEF ActivityTypes
<1>5. Noted'  BY <1>1, <1>2 DEF Noted
<1>6. Story'  BY <1>1 DEF Story, Trusted, Behind
<1>7. Observed'  BY <1>1, <1>3 DEF Observed
<1>8. Exclusive' /\ Decided'  BY <1>1, <1>3 DEF Exclusive, Decided
<1> QED BY <1>4, <1>5, <1>6, <1>7, <1>8

\* The Agent starts: what was not closed cleanly is interrupted.
LEMMA BootKeeps ==
    ASSUME ActivityInv, Boot
    PROVE  ActivityInv'
<1> USE DEF ActivityInv
<1>1. ~running /\ running' = TRUE /\ busy' = TRUE /\ skew' = 0 /\ ticked' = TRUE
      /\ activity' = (IF activity.known /\ ~activity.clean
                      THEN [activity EXCEPT !.interrupted = TRUE] ELSE activity)
      /\ UNCHANGED <<visitor, tier, game, lua, moved, fresh, probe, wipe, quiet, due, unseen, wipes>>
  BY DEF Boot, worldVars
<1>2. activity \in Records /\ activity.last <= Cap /\ skew = 0
  BY <1>1 DEF ActivityTypes, Exclusive
<1>3. activity' \in Records /\ activity'.last = activity.last
      /\ (activity'.interrupted \/ (activity' = activity /\ (~activity.known \/ activity.clean)))
  BY <1>1, <1>2 DEF Records
<1>4. ActivityTypes'
  <2>1. activity'.last <= Cap /\ skew' \in Int  BY <1>1, <1>2, <1>3
  <2> QED BY <1>1, <1>3, <2>1 DEF ActivityTypes
<1>5. Noted'  BY <1>1 DEF Noted
<1>6. Trusted' => Trusted /\ activity.clean /\ activity' = activity  BY <1>1, <1>3 DEF Trusted
<1>7. Story' /\ Observed'
  <2>1. Trusted' => Behind'  BY <1>1, <1>2, <1>6 DEF Story, Behind
  <2>2. Story'  BY <2>1 DEF Story
  <2>3. Observed'  BY <1>1, <2>1 DEF Observed
  <2> QED BY <2>2, <2>3
<1>8. Exclusive' /\ Decided'  BY <1>1 DEF Exclusive, Decided
<1> QED BY <1>4, <1>5, <1>7, <1>8

\* Operations hold the permit and cross a tick that is under way.
LEMMA OperationKeeps ==
    ASSUME ActivityInv, BeginOperation \/ EndOperation \/ Start \/ Stop
    PROVE  ActivityInv'
<1> USE DEF ActivityInv
<1>1. UNCHANGED <<visitor, tier, lua, activity, moved, running, skew, wipe, quiet, due, unseen, ticked, wipes>>
  BY DEF BeginOperation, EndOperation, Start, Stop, worldVars, policyVars, pastVars
<1>2. /\ fresh' \in BOOLEAN /\ busy' \in BOOLEAN /\ (~fresh' => ~fresh)
      /\ wipe # "none" => busy'
      /\ game' = "stopping" => ticked
  <2>1. CASE BeginOperation
    <3>1. fresh' = fresh /\ busy' = TRUE /\ game' = game
      BY <2>1 DEF BeginOperation, worldVars, policyVars
    <3> QED BY <3>1 DEF ActivityTypes, Exclusive
  <2>2. CASE EndOperation
    <3>1. fresh' = fresh /\ busy' = FALSE /\ game' = game /\ wipe = "none"
      BY <2>2 DEF EndOperation, worldVars, policyVars
    <3> QED BY <3>1 DEF ActivityTypes, Exclusive
  <2>3. CASE Start
    <3>1. fresh' = TRUE /\ busy' = busy /\ game' = "up"  BY <2>3 DEF Start
    <3> QED BY <3>1 DEF ActivityTypes, Exclusive
  <2>4. CASE Stop
    <3>1. fresh' = fresh /\ busy' = busy /\ ticked  BY <2>4 DEF Stop, policyVars
    <3> QED BY <3>1 DEF ActivityTypes, Exclusive
  <2> QED BY <2>1, <2>2, <2>3, <2>4
<1>3. \/ fresh' = fresh /\ probe' = probe
      \/ probe' \in {NoProbe, Crossed} /\ ~(probe'.taken /\ probe'.valid) /\ (~probe.taken => ~probe'.taken)
  <2>1. CASE EndOperation  BY <2>1 DEF EndOperation, policyVars
  <2>2. CASE BeginOperation \/ Start \/ Stop
    <3>1. Cross  BY <2>2 DEF BeginOperation, Start, Stop
    <3> QED BY <3>1, Crossing
  <2> QED BY <2>1, <2>2
<1>4. ActivityTypes'
  <2>1. probe' \in {NoProbe, Crossed} \union Probes  BY <1>3 DEF ActivityTypes
  <2> QED BY <1>1, <1>2, <2>1 DEF ActivityTypes
<1>5. Noted'  BY <1>1 DEF Noted
<1>6. Trusted' = Trusted /\ Behind' = Behind  BY <1>1 DEF Trusted, Behind
<1>7. Story'  BY <1>1, <1>2, <1>6 DEF Story
<1>8. Observed'  BY <1>1, <1>3, <1>6 DEF Observed
<1>9. Exclusive'  BY <1>1, <1>2, <1>3 DEF Exclusive
<1>10. Decided'  BY <1>1 DEF Decided
<1> QED BY <1>4, <1>5, <1>7, <1>8, <1>9, <1>10

\* A clean stop keeps the story, whose last tick was since anybody stayed.
LEMMA StoppedKeeps ==
    ASSUME ActivityInv, Stopped
    PROVE  ActivityInv'
<1> USE DEF ActivityInv
<1>1. game = "stopping" /\ game' = "down" /\ visitor' = FALSE /\ lua' = Installed /\ Cross
      /\ activity' = [activity EXCEPT !.clean = @ \/ (activity.known /\ ~activity.interrupted)]
      /\ UNCHANGED <<tier, moved, fresh, running, busy, skew, wipe, quiet, due, unseen, ticked, wipes>>
  BY DEF Stopped, pastVars
<1>2. activity \in Records /\ activity.last <= Cap  BY DEF ActivityTypes
<1>3. activity' \in Records /\ activity'.last = activity.last /\ activity'.known = activity.known
      /\ activity'.interrupted = activity.interrupted
  BY <1>1, <1>2 DEF Records
<1>4. Installed \in [noted : BOOLEAN, idle : Ages, reliable : BOOLEAN] /\ ~Installed.noted
  BY AgesBounded DEF Installed
<1>5. probe' \in {NoProbe, Crossed} /\ ~(probe'.taken /\ probe'.valid) /\ (~probe.taken => ~probe'.taken)
  BY <1>1, Crossing
<1>6. ActivityTypes'
  <2>1. activity'.last <= Cap  BY <1>2, <1>3
  <2> QED BY <1>1, <1>3, <1>4, <1>5, <2>1 DEF ActivityTypes
<1>7. Noted'  BY <1>1, <1>4 DEF Noted
<1>8. Story'
  <2>1. Trusted' = Trusted /\ Behind' = Behind  BY <1>1, <1>3 DEF Trusted, Behind
  <2>2. ticked  BY <1>1 DEF Exclusive
  <2> QED BY <2>1, <2>2 DEF Story
<1>9. Observed'  BY <1>5 DEF Observed
<1>10. Exclusive' /\ Decided'  BY <1>1, <1>5 DEF Exclusive, Decided
<1> QED BY <1>6, <1>7, <1>8, <1>9, <1>10

\* The container ends: a jump that nobody has seen yet stays unseen.
LEMMA GoneKeeps ==
    ASSUME ActivityInv, Gone
    PROVE  ActivityInv'
<1> USE DEF ActivityInv
<1>1. running' = FALSE /\ busy' = FALSE /\ probe' = NoProbe /\ wipe' = "none"
      /\ game' = "down" /\ visitor' = FALSE /\ lua' = Installed
      /\ unseen' = (unseen \/ skew # 0) /\ skew' = 0 /\ due' = FALSE
      /\ UNCHANGED <<tier, activity, moved, fresh, quiet, ticked, wipes>>
  BY DEF Gone, policyVars
<1>2. Installed \in [noted : BOOLEAN, idle : Ages, reliable : BOOLEAN] /\ ~Installed.noted
  BY AgesBounded DEF Installed
<1>3. unseen' \in BOOLEAN /\ (~unseen' => ~unseen /\ skew = 0)  BY <1>1 DEF ActivityTypes
<1>4. ActivityTypes'
  <2>1. skew' \in Int  BY <1>1
  <2> QED BY <1>1, <1>2, <1>3, <2>1 DEF ActivityTypes
<1>5. Noted'  BY <1>1, <1>2 DEF Noted
<1>6. Trusted' => Trusted /\ skew = 0  BY <1>1, <1>3 DEF Trusted
<1>7. Story'
  <2>1. skew = 0 => Behind' = Behind  BY <1>1 DEF Behind
  <2> QED BY <1>1, <1>6, <2>1 DEF Story
<1>8. Observed' /\ Exclusive' /\ Decided'  BY <1>1, ProbeShapes DEF Observed, Exclusive, Decided
<1> QED BY <1>4, <1>5, <1>7, <1>8

\* Time passes: the ages grow together, and a visitor is noted.
LEMMA PassKeeps ==
    ASSUME ActivityInv, Pass
    PROVE  ActivityInv'
<1> USE DEF ActivityInv
<1>1. ~probe.taken /\ wipe = "none" /\ game # "stopping"
      /\ quiet' = (IF visitor THEN 0 ELSE Older(quiet))
      /\ unseen' = (unseen \/ (visitor /\ activity.clean))
      /\ activity' = [activity EXCEPT !.last = Older(@)]
      /\ lua' = [lua EXCEPT !.noted = @ \/ visitor,
                            !.idle = IF visitor \/ ~lua.noted THEN 0 ELSE Older(@)]
      /\ tier' \in Tiers /\ ticked' = FALSE
      /\ UNCHANGED <<visitor, game, moved, fresh, running, busy, skew, probe, wipe, due, wipes>>
  BY DEF Pass, controllerVars
<1>2. lua \in [noted : BOOLEAN, idle : Ages, reliable : BOOLEAN] /\ activity \in Records
      /\ activity.last \in Int /\ activity.last <= Cap /\ quiet \in Ages /\ skew \in Int
      /\ activity.clean \in BOOLEAN /\ visitor \in BOOLEAN /\ unseen \in BOOLEAN
      /\ lua.idle \in Ages /\ lua.noted \in BOOLEAN
  BY DEF ActivityTypes, Records
<1>3. PICK i \in Ages : i = IF visitor \/ ~lua.noted THEN 0 ELSE Older(lua.idle)
  BY <1>2, AgesBounded
<1>4. lua' \in [noted : BOOLEAN, idle : Ages, reliable : BOOLEAN] /\ lua'.idle = i
      /\ lua'.noted = (lua.noted \/ visitor)
  BY <1>1, <1>2, <1>3
<1>5. PICK l \in Int : l = Older(activity.last) /\ l <= Cap /\ l <= activity.last + 1
  BY <1>2, AgesBounded
<1>6. activity' = [activity EXCEPT !.last = l]  BY <1>1, <1>5
<1>7. activity' \in Records /\ activity'.last = l /\ activity'.known = activity.known
      /\ activity'.clean = activity.clean /\ activity'.interrupted = activity.interrupted
  BY <1>2, <1>6 DEF Records
<1>8. quiet' \in Ages  BY <1>1, <1>2, AgesBounded
<1>9. unseen' \in BOOLEAN /\ (~unseen' => ~unseen /\ ~(visitor /\ activity.clean))
  BY <1>1, <1>2
<1>10. ActivityTypes'
  <2>1. activity'.last <= Cap  BY <1>5, <1>7
  <2> QED BY <1>1, <1>4, <1>7, <1>8, <1>9, <2>1 DEF ActivityTypes
<1>11. Noted'
  <2>1. CASE visitor \/ ~lua.noted
    <3>1. i = 0 /\ quiet' \in Nat  BY <1>3, <1>8, <2>1, AgesBounded
    <3> QED BY <1>4, <3>1 DEF Noted
  <2>2. CASE ~visitor /\ lua.noted
    <3>1. i = Older(lua.idle) /\ quiet' = Older(quiet) /\ lua.idle <= quiet
      BY <1>1, <1>3, <2>2 DEF Noted
    <3>2. Older(lua.idle) <= Older(quiet)
      <4>1. lua.idle \in Nat /\ quiet \in Nat /\ Cap \in Nat /\ quiet <= Cap  BY <1>2, AgesBounded DEF Ages
      <4> QED BY <3>1, <4>1 DEF Older
    <3> QED BY <1>4, <3>1, <3>2 DEF Noted
  <2> QED BY <2>1, <2>2
<1>12. ASSUME Behind, ~visitor PROVE Behind'
  <2>1. SUFFICES ASSUME quiet' < Cap PROVE l <= quiet' + skew
    BY <1>1, <1>7 DEF Behind
  <2>2. quiet' = Older(quiet)  BY <1>1, <1>12
  <2>3. quiet < Cap /\ quiet' = quiet + 1
    <3>1. quiet \in Int /\ Cap \in Nat  BY <1>2, AgesBounded
    <3> QED BY <1>2, <2>1, <2>2, <3>1, AgesBounded
  <2>4. activity.last <= quiet + skew  BY <1>12, <2>3 DEF Behind
  <2>5. quiet \in Int /\ skew \in Int /\ activity.last \in Int  BY <1>2, AgesBounded
  <2> QED BY <1>5, <2>3, <2>4, <2>5
<1>13. Story'
  <2> SUFFICES ASSUME Trusted', activity'.clean \/ ticked' \/ (running' /\ ~fresh' /\ ~lua'.noted)
               PROVE  Behind'
    BY DEF Story
  <2>1. Trusted /\ ~(visitor /\ activity.clean)  BY <1>1, <1>7, <1>9 DEF Trusted
  <2>2. CASE activity'.clean
    <3>1. activity.clean /\ ~visitor  BY <1>7, <2>1, <2>2
    <3>2. Behind  BY <2>1, <3>1 DEF Story
    <3> QED BY <1>12, <3>1, <3>2
  <2>3. CASE running' /\ ~fresh' /\ ~lua'.noted
    <3>1. running /\ ~fresh /\ ~lua.noted /\ ~visitor  BY <1>1, <1>4, <2>3
    <3>2. Behind  BY <2>1, <3>1 DEF Story
    <3> QED BY <1>12, <3>1, <3>2
  <2> QED BY <1>1, <2>2, <2>3
<1>14. Observed' /\ Exclusive' /\ Decided'  BY <1>1 DEF Observed, Exclusive, Decided
<1> QED BY <1>10, <1>11, <1>13, <1>14

\* The wall clock jumps: the next plan sees it, or nobody does.
LEMMA WallJumpKeeps ==
    ASSUME ActivityInv, WallJump
    PROVE  ActivityInv'
<1> USE DEF ActivityInv
<1>1. PICK j \in WallJumps : activity' = [activity EXCEPT !.last = Later(@ + j, Cap)]
                             /\ skew' = IF running THEN skew + j ELSE skew
  BY DEF WallJump
<1>2. unseen' = (unseen \/ ~running)
      /\ UNCHANGED <<visitor, tier, game, lua, moved, fresh, running, busy, probe, wipe, quiet, due,
                     ticked, wipes>>
  BY DEF WallJump, worldVars
<1>3. activity \in Records /\ activity.last \in Int /\ skew \in Int /\ j \in Int /\ Cap \in Int
      /\ quiet \in Int /\ running \in BOOLEAN /\ unseen \in BOOLEAN
  BY WallAssumption, AgesBounded DEF ActivityTypes, Records
<1>4. PICK l \in Int : l = Later(activity.last + j, Cap) /\ l <= Cap /\ l <= activity.last + j
  BY <1>3 DEF Later
<1>5. activity' = [activity EXCEPT !.last = l]  BY <1>1, <1>4
<1>6. activity' \in Records /\ activity'.last = l /\ activity'.known = activity.known
      /\ activity'.clean = activity.clean /\ activity'.interrupted = activity.interrupted
  BY <1>3, <1>5 DEF Records
<1>7. ActivityTypes'
  <2>1. activity'.last <= Cap  BY <1>4, <1>6
  <2>2. skew' \in Int  BY <1>1, <1>3
  <2>3. unseen' \in BOOLEAN  BY <1>2, <1>3
  <2> QED BY <1>2, <1>6, <2>1, <2>2, <2>3 DEF ActivityTypes
<1>8. Noted'  BY <1>2 DEF Noted
<1>9. Trusted' => Trusted /\ running  BY <1>2, <1>6 DEF Trusted
<1>10. running /\ Behind => Behind'
  <2>1. SUFFICES ASSUME running, Behind, quiet < Cap PROVE l <= quiet + (skew + j)
    BY <1>1, <1>2, <1>6 DEF Behind
  <2>2. activity.last <= quiet + skew  BY <2>1 DEF Behind
  <2> QED BY <1>3, <1>4, <2>2
<1>11. Story'  BY <1>2, <1>6, <1>9, <1>10 DEF Story
<1>12. Observed'  BY <1>2, <1>6, <1>9, <1>10 DEF Observed
<1>13. Exclusive' /\ Decided'
  BY <1>1, <1>2 DEF Exclusive, Decided
<1> QED BY <1>7, <1>8, <1>11, <1>12, <1>13

\* Every step keeps the invariant.
LEMMA ActivityStep == ActivityInv /\ [ActivityNext]_activityVars => ActivityInv'
<1> SUFFICES ASSUME ActivityInv, [ActivityNext]_activityVars PROVE ActivityInv'
  OBVIOUS
<1>1. CASE ActivityNext
  BY <1>1, VisitKeeps, ReloadKeeps, BeginTickKeeps, PlanObservedKeeps, PlanUnobservedKeeps,
     CheckEmptyKeeps, CallRegenerateKeeps, BootKeeps, OperationKeeps, StoppedKeeps, GoneKeeps,
     PassKeeps, WallJumpKeeps DEF ActivityNext
<1>2. CASE UNCHANGED activityVars
  <2>1. UNCHANGED <<visitor, tier, game, lua, activity, moved, fresh, running, busy, skew, probe, wipe,
                    quiet, due, unseen, ticked, wipes>>
    BY <1>2 DEF activityVars, worldVars, policyVars, controllerVars, pastVars
  <2> QED BY <2>1 DEF ActivityInv, ActivityTypes, Noted, Story, Observed, Exclusive, Decided,
                      Trusted, Behind
<1> QED BY <1>1, <1>2

\* The one step that destroys a world has a decision that was right.
LEMMA WipeIsDue ==
    ASSUME ActivityInv, ActivityNext, wipe = "checked", wipe' = "none", wipes' > wipes
    PROVE  unseen \/ (due /\ ~visitor)
<1>1. wipes \in Nat /\ wipes' # wipes  BY DEF ActivityInv, ActivityTypes
<1>2. CASE CallRegenerate
  <2>1. CASE Accepted
    <3>1. ~moved /\ ~visitor  BY <2>1 DEF Accepted
    <3> QED BY <3>1 DEF ActivityInv, Decided
  <2>2. CASE ~Accepted
    <3>1. wipes' = wipes  BY <1>2, <2>2 DEF CallRegenerate, Abort
    <3> QED BY <1>1, <3>1
  <2> QED BY <2>1, <2>2
<1>3. CASE Reload
  <2>1. wipe' = wipe  BY <1>3 DEF Reload
  <2> QED BY <2>1
<1>4. CASE ~(CallRegenerate \/ Reload)
  <2>1. wipes' = wipes
    BY <1>4 DEF ActivityNext, Join, Leave, BeginTick, PlanObserved, PlanUnobserved, CheckEmpty, Abort,
                Boot, BeginOperation, EndOperation, Start, Stop, Stopped, Gone, Pass, WallJump, pastVars
  <2> QED BY <1>1, <2>1
<1> QED BY <1>2, <1>3, <1>4

\* Whatever restarts, reloads, broken observations and clock jumps the policy lives
\* through, a world is destroyed only after it was quiet for its whole retention and
\* with nobody in it, unless a visit or a jump happened that no tick could see
\* (observe_activity, clock_changed, resume_after_restart, plan, regenerate).
THEOREM WipesDue == ActivitySpec => WipesAreDue
<1>1. ActivityInv /\ [ActivityNext]_activityVars
      => [wipe = "checked" /\ wipe' = "none" /\ wipes' > wipes => unseen \/ (due /\ ~visitor)]_activityVars
  BY WipeIsDue
<1> QED BY <1>1, ActivityStarts, ActivityStep, PTL DEF ActivitySpec, WipesAreDue

=============================================================================
