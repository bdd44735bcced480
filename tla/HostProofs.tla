----------------------------- MODULE HostProofs -----------------------------
(***************************************************************************)
(* Theorems about what surrounds a room's Agent, for every value of the    *)
(* constants: its local RPC (Rpc), the room's files (Files) and the tools  *)
(* of the host (Host).                                                     *)
(*                                                                         *)
(* Rpc: a call is in one place at a time (on the wire, with its handler    *)
(* and the Agent, or answered), so that a refusal can only be given, and   *)
(* arrive, for a call that the Agent never saw; and a read accounts for    *)
(* every number between its old and its new position, as a record, as a    *)
(* slot that could not be encoded or as overwritten.                       *)
(* Files: the lock leaves one process at work, so the temporary file it    *)
(* renames is its own and was synced; its job is the newest, so that what  *)
(* it replaced so far is a prefix newer than everything else; and what it  *)
(* will write into the state contains what was acknowledged.               *)
(* Host, restart: when the job is submitted, an Agent that is up belongs   *)
(* to a service that now stops; the service leaves that state only after   *)
(* its Agent ended, so an Agent seen after wait_idle was started later.    *)
(* Host, update_mods: the maintenance it queued leaves "pending" for       *)
(* "idle" only by an update that finishes.                                 *)
(***************************************************************************)
EXTENDS Rpc, Files, Host, TLAPS, SequenceTheorems, FiniteSetTheorems

-----------------------------------------------------------------------------
(* The local RPC *)

Answers == {"none", "waiting", "Value", "Busy", "NotReady", "Timeout", "Unknown"}
Values == {"Value", "Busy", "NotReady", "Unknown"}
Queued == ToSet(dispatch)

CallTypes ==
    /\ server \in {"serving", "closing", "flushing", "down"}
    /\ wire \subseteq Callers /\ handler \subseteq Callers
    /\ DOMAIN replies \subseteq Callers
    /\ dispatch \in Seq(Callers)
    /\ answer \in [Callers -> Answers]

\* A call that was not made, or was refused, is nowhere on its way to the Agent.
RefusedIsNowhere ==
    \A c \in Callers : answer[c] \in Refusals \union {"none"} =>
        c \notin wire \union Queued \union ran
UnsentIsNowhere ==
    \A c \in Callers : answer[c] = "none" => c \notin handler \union DOMAIN replies

\* A call on the wire was not handled.
WireIsUnhandled ==
    \A c \in wire : c \notin Queued \union ran \union handler \union DOMAIN replies

\* An answer in flight is true.
RepliesAreTrue ==
    \A c \in DOMAIN replies :
        /\ replies[c] \in Values
        /\ replies[c] \in Refusals => c \notin wire \union Queued \union ran
        /\ replies[c] = "Value" => c \in ran

CallInv ==
    /\ CallTypes
    /\ RefusedIsNowhere /\ UnsentIsNowhere /\ WireIsUnhandled /\ RepliesAreTrue
    /\ \A c \in Callers : answer[c] = "Value" => c \in ran

-----------------------------------------------------------------------------
(* The queue *)

LEMMA QueueAppend ==
    ASSUME NEW S, NEW q \in Seq(S), NEW c \in S
    PROVE  Append(q, c) \in Seq(S) /\ ToSet(Append(q, c)) = ToSet(q) \union {c}
<1>1. /\ Append(q, c) \in Seq(S) /\ Len(Append(q, c)) = Len(q) + 1
      /\ \A i \in 1 .. Len(q) : Append(q, c)[i] = q[i]
      /\ Append(q, c)[Len(q) + 1] = c
  BY AppendProperties
<1>2. /\ DOMAIN q = 1 .. Len(q) /\ DOMAIN Append(q, c) = 1 .. Len(q) + 1 /\ Len(q) \in Nat
  BY <1>1, LenProperties
<1>3. \A i \in 1 .. Len(q) + 1 : i \in 1 .. Len(q) \/ i = Len(q) + 1
  BY <1>2
<1>4. ToSet(Append(q, c)) \subseteq ToSet(q) \union {c}
  BY <1>1, <1>2, <1>3 DEF ToSet
<1>5. 1 .. Len(q) \subseteq 1 .. Len(q) + 1 /\ Len(q) + 1 \in 1 .. Len(q) + 1
  BY <1>2
<1>6. ToSet(q) \union {c} \subseteq ToSet(Append(q, c))
  BY <1>1, <1>2, <1>5 DEF ToSet
<1> QED
  BY <1>1, <1>4, <1>6

LEMMA QueueTail ==
    ASSUME NEW S, NEW q \in Seq(S), q # <<>>
    PROVE  /\ Tail(q) \in Seq(S) /\ Head(q) \in ToSet(q)
           /\ ToSet(Tail(q)) \subseteq ToSet(q)
<1>1. /\ Tail(q) \in Seq(S) /\ Len(Tail(q)) = Len(q) - 1 /\ Len(q) \in Nat \ {0}
      /\ \A i \in 1 .. Len(Tail(q)) : Tail(q)[i] = q[i + 1]
      /\ Head(q) = q[1]
  BY HeadTailProperties, EmptySeq
<1>2. DOMAIN q = 1 .. Len(q) /\ DOMAIN Tail(q) = 1 .. Len(q) - 1
  BY <1>1, LenProperties
<1>3. 1 \in 1 .. Len(q) /\ \A i \in 1 .. Len(q) - 1 : i + 1 \in 1 .. Len(q)
  BY <1>1
<1> QED
  BY <1>1, <1>2, <1>3 DEF ToSet

LEMMA QueueRemove ==
    ASSUME NEW S, NEW q \in Seq(S), NEW i \in DOMAIN q
    PROVE  RemoveAt(q, i) \in Seq(S) /\ ToSet(RemoveAt(q, i)) \subseteq ToSet(q)
<1> DEFINE n == Len(q)
           a == SubSeq(q, 1, i - 1)
           b == SubSeq(q, i + 1, n)
<1>1. n \in Nat /\ DOMAIN q = 1 .. n /\ q \in [1 .. n -> S] /\ i \in 1 .. n
  BY LenProperties
<1>2. \A j \in 1 .. n : q[j] \in ToSet(q)
  BY <1>1 DEF ToSet
<1>3. /\ \A j \in 1 .. i - 1 : j \in 1 .. n
      /\ \A j \in i + 1 .. n : j \in 1 .. n
  BY <1>1
<1>4. a \in Seq(ToSet(q)) /\ b \in Seq(ToSet(q))
  BY <1>1, <1>2, <1>3, SubSeqProperties
<1>5. a \o b \in Seq(ToSet(q))
  BY <1>4, ConcatProperties
<1>6. ToSet(a \o b) \subseteq ToSet(q)
  <2> DEFINE r == a \o b
  <2> HIDE DEF r
  <2>1. DOMAIN r = 1 .. Len(r) /\ \A j \in 1 .. Len(r) : r[j] \in ToSet(q)
    BY <1>5, LenProperties, ElementOfSeq DEF r
  <2>2. ToSet(r) \subseteq ToSet(q)
    BY <2>1 DEF ToSet
  <2> QED
    BY <2>2 DEF r
<1>7. ToSet(q) \subseteq S
  BY <1>1 DEF ToSet
<1> QED
  BY <1>5, <1>6, <1>7, SeqMonotonic DEF RemoveAt

-----------------------------------------------------------------------------
(* Calls *)

LEMMA CallInitEstablishesInv == RpcInit => CallInv
<1> SUFFICES ASSUME RpcInit PROVE CallInv
  OBVIOUS
<1>1. DOMAIN replies = {} /\ Queued = {} /\ dispatch \in Seq(Callers)
  BY EmptySeq DEF RpcInit, Queued, ToSet
<1> QED
  BY <1>1 DEF RpcInit, CallInv, CallTypes, RefusedIsNowhere, UnsentIsNowhere,
     WireIsUnhandled, RepliesAreTrue, Answers, Refusals

\* The client's side.
LEMMA ClientKeepsCallInv ==
    ASSUME CallInv, NEW c \in Callers, Call(c) \/ CallTimeout(c) \/ Receive(c)
    PROVE  CallInv'
<1>1. UNCHANGED <<server, dispatch, ran>> /\ Queued' = Queued
  BY DEF Call, CallTimeout, Receive, Queued
<1>2. answer \in [Callers -> Answers]
  BY DEF CallInv, CallTypes
<1>3. CASE Call(c)
  <2>1. /\ answer[c] = "none" /\ UNCHANGED <<handler, replies>>
        /\ \/ wire' = wire \union {c} /\ answer' = [answer EXCEPT ![c] = "waiting"]
           \/ wire' = wire /\ answer' = [answer EXCEPT ![c] = "Busy"]
           \/ wire' = wire /\ answer' = [answer EXCEPT ![c] = "Unknown"]
    BY <1>3 DEF Call
  <2>2. c \notin wire \union Queued \union ran \union handler \union DOMAIN replies
    BY <2>1 DEF CallInv, RefusedIsNowhere, UnsentIsNowhere
  <2>3. CallTypes'
    BY <1>1, <1>2, <2>1 DEF CallInv, CallTypes, Answers
  <2>4. RefusedIsNowhere' /\ UnsentIsNowhere'
    BY <1>1, <1>2, <2>1, <2>2 DEF CallInv, RefusedIsNowhere, UnsentIsNowhere, Refusals
  <2>5. WireIsUnhandled' /\ RepliesAreTrue'
    BY <1>1, <2>1, <2>2 DEF CallInv, WireIsUnhandled, RepliesAreTrue
  <2>6. \A d \in Callers : answer'[d] = "Value" => d \in ran'
    BY <1>1, <1>2, <2>1 DEF CallInv
  <2> QED
    BY <2>3, <2>4, <2>5, <2>6 DEF CallInv
<1>4. CASE CallTimeout(c)
  <2>1. /\ answer' = [answer EXCEPT ![c] = "Unknown"] /\ handler' \subseteq handler
        /\ UNCHANGED <<wire, replies>>
    BY <1>4 DEF CallTimeout, WaitEnded
  <2>2. CallTypes'
    BY <1>1, <1>2, <2>1 DEF CallInv, CallTypes, Answers
  <2>3. RefusedIsNowhere' /\ UnsentIsNowhere'
    BY <1>1, <1>2, <2>1 DEF CallInv, RefusedIsNowhere, UnsentIsNowhere, Refusals
  <2>4. WireIsUnhandled' /\ RepliesAreTrue'
    BY <1>1, <2>1 DEF CallInv, WireIsUnhandled, RepliesAreTrue
  <2>5. \A d \in Callers : answer'[d] = "Value" => d \in ran'
    BY <1>1, <1>2, <2>1 DEF CallInv
  <2> QED
    BY <2>2, <2>3, <2>4, <2>5 DEF CallInv
<1>5. CASE Receive(c)
  <2>1. /\ c \in DOMAIN replies /\ UNCHANGED <<wire, handler>>
        /\ DOMAIN replies' = DOMAIN replies \ {c}
        /\ \A d \in DOMAIN replies' : replies'[d] = replies[d]
        /\ answer' = answer \/ answer' = [answer EXCEPT ![c] = replies[c]]
    BY <1>5 DEF Receive
  <2>2. /\ replies[c] \in Values
        /\ replies[c] \in Refusals => c \notin wire \union Queued \union ran
        /\ replies[c] = "Value" => c \in ran
    BY <2>1 DEF CallInv, RepliesAreTrue
  <2>3. answer' \in [Callers -> Answers]
    BY <1>2, <2>1, <2>2 DEF Answers, Values
  <2>4. CallTypes'
    BY <1>1, <2>1, <2>3 DEF CallInv, CallTypes
  <2>5. RefusedIsNowhere' /\ UnsentIsNowhere'
    BY <1>1, <1>2, <2>1, <2>2 DEF CallInv, RefusedIsNowhere, UnsentIsNowhere, Values
  <2>6. WireIsUnhandled' /\ RepliesAreTrue'
    BY <1>1, <2>1 DEF CallInv, WireIsUnhandled, RepliesAreTrue
  <2>7. \A d \in Callers : answer'[d] = "Value" => d \in ran'
    BY <1>1, <1>2, <2>1, <2>2 DEF CallInv
  <2> QED
    BY <2>4, <2>5, <2>6, <2>7 DEF CallInv
<1> QED
  BY <1>3, <1>4, <1>5

\* A reply to one call, and what else the server did with it.
LEMMA ReplyKeepsCallInv ==
    ASSUME CallInv, NEW c \in Callers, NEW value \in Values, Reply(c, value),
           UNCHANGED <<server, answer, ran>>, dispatch' \in Seq(Callers),
           Queued' \subseteq Queued, wire' \subseteq wire, handler' \subseteq handler,
           answer[c] # "none", c \notin wire',
           value \in Refusals => c \notin wire' \union Queued \union ran,
           value = "Value" => c \in ran
    PROVE  CallInv'
<1>1. /\ DOMAIN replies' = DOMAIN replies \union {c}
      /\ \A d \in DOMAIN replies' : replies'[d] = IF d = c THEN value ELSE replies[d]
  BY DEF Reply
<1>2. CallTypes'
  BY <1>1 DEF CallInv, CallTypes
<1>3. RefusedIsNowhere' /\ UnsentIsNowhere'
  BY <1>1 DEF CallInv, RefusedIsNowhere, UnsentIsNowhere
<1>4. WireIsUnhandled'
  BY <1>1 DEF CallInv, WireIsUnhandled
<1>5. RepliesAreTrue'
  BY <1>1 DEF CallInv, RepliesAreTrue
<1> QED
  BY <1>2, <1>3, <1>4, <1>5 DEF CallInv

LEMMA HandleCallKeepsCallInv ==
    ASSUME CallInv, NEW c \in Callers, HandleCall(c)
    PROVE  CallInv'
<1>1. /\ c \in wire /\ wire' = wire \ {c} /\ UNCHANGED <<server, answer, ran>>
      /\ \/ Reply(c, "NotReady") /\ UNCHANGED <<handler, dispatch>>
         \/ Reply(c, "Busy") /\ UNCHANGED <<handler, dispatch>>
         \/ /\ dispatch' = Append(dispatch, c) /\ UNCHANGED replies
            /\ handler' \in {handler, handler \union {c}}
  BY DEF HandleCall
<1>2. /\ c \notin Queued \union ran \union handler \union DOMAIN replies
      /\ answer[c] \notin Refusals \union {"none"}
      /\ dispatch \in Seq(Callers)
  BY <1>1 DEF CallInv, CallTypes, WireIsUnhandled, RefusedIsNowhere
<1>3. CASE UNCHANGED <<handler, dispatch>> /\ (Reply(c, "NotReady") \/ Reply(c, "Busy"))
  BY <1>1, <1>2, <1>3, ReplyKeepsCallInv DEF Queued, Values
<1>4. CASE /\ dispatch' = Append(dispatch, c) /\ UNCHANGED replies
           /\ handler' \in {handler, handler \union {c}}
  <2>1. dispatch' \in Seq(Callers) /\ Queued' = Queued \union {c}
    BY <1>2, <1>4, QueueAppend DEF Queued
  <2>2. CallTypes'
    BY <1>1, <1>4, <2>1 DEF CallInv, CallTypes
  <2>3. RefusedIsNowhere' /\ UnsentIsNowhere'
    BY <1>1, <1>2, <1>4, <2>1 DEF CallInv, RefusedIsNowhere, UnsentIsNowhere
  <2>4. WireIsUnhandled' /\ RepliesAreTrue'
    BY <1>1, <1>2, <1>4, <2>1 DEF CallInv, WireIsUnhandled, RepliesAreTrue
  <2> QED
    BY <1>1, <2>2, <2>3, <2>4 DEF CallInv
<1> QED
  BY <1>1, <1>3, <1>4

LEMMA AgentKeepsCallInv ==
    ASSUME CallInv,
           TakeRequest \/ \E c \in Callers : AnswerRequest(c) \/ AbandonRequest(c)
    PROVE  CallInv'
<1>1. dispatch \in Seq(Callers) /\ handler \subseteq Callers
  BY DEF CallInv, CallTypes
<1>2. CASE TakeRequest
  <2> DEFINE c == Head(dispatch)
  <2>1. /\ dispatch # <<>> /\ dispatch' = Tail(dispatch) /\ ran' = ran \union {c}
        /\ UNCHANGED <<server, wire, handler, replies, answer>>
    BY <1>2 DEF TakeRequest
  <2>2. dispatch' \in Seq(Callers) /\ Queued' \subseteq Queued /\ c \in Queued
    BY <1>1, <2>1, QueueTail DEF Queued
  <2> HIDE DEF c
  <2>3. CallTypes'
    BY <2>1, <2>2 DEF CallInv, CallTypes
  <2>4. RefusedIsNowhere' /\ UnsentIsNowhere' /\ WireIsUnhandled' /\ RepliesAreTrue'
    BY <2>1, <2>2 DEF CallInv, RefusedIsNowhere, UnsentIsNowhere, WireIsUnhandled,
                      RepliesAreTrue
  <2> QED
    BY <2>1, <2>3, <2>4 DEF CallInv
<1>3. ASSUME NEW c \in Callers, AnswerRequest(c) \/ AbandonRequest(c) PROVE CallInv'
  <2>1. c \in handler /\ c \notin wire /\ answer[c] # "none"
    BY <1>3 DEF AnswerRequest, AbandonRequest, CallInv, WireIsUnhandled, UnsentIsNowhere
  <2>2. CASE AnswerRequest(c)
    BY <1>1, <2>1, <2>2, ReplyKeepsCallInv DEF AnswerRequest, Queued, Values, Refusals
  <2>3. CASE AbandonRequest(c)
    <3>1. dispatch' \in Seq(Callers) /\ Queued' \subseteq Queued
      BY <1>1, <2>3, QueueRemove DEF AbandonRequest, Queued
    <3> QED
      BY <2>1, <2>3, <3>1, ReplyKeepsCallInv DEF AbandonRequest, Values, Refusals
  <2> QED
    BY <1>3, <2>2, <2>3
<1> QED
  BY <1>2, <1>3

LEMMA CallInvKept ==
    ASSUME CallInv, [RpcNext]_rpcVars
    PROVE  CallInv'
<1>1. CASE UNCHANGED <<callVars, server>> \/ UNCHANGED rpcVars
           \/ (UNCHANGED callVars /\ server' \in {"closing", "flushing"})
  <2>1. /\ UNCHANGED <<wire, handler, replies, dispatch, answer, ran>>
        /\ server' \in {server, "closing", "flushing"}
    BY <1>1 DEF callVars, rpcVars
  <2> QED
    BY <2>1 DEF CallInv, CallTypes, RefusedIsNowhere, UnsentIsNowhere, WireIsUnhandled,
       RepliesAreTrue, Queued
<1>2. CASE Disconnect
  <2>1. /\ wire' = {} /\ handler' = {} /\ DOMAIN replies' = {} /\ server' = "down"
        /\ answer' = [c \in Callers |-> IF answer[c] = "waiting" THEN "Unknown" ELSE answer[c]]
        /\ UNCHANGED <<dispatch, ran>>
    <3>1. DOMAIN <<>> = {}
      BY EmptySeq
    <3>2. DOMAIN replies' = {}
      BY <1>2, <3>1, Zenon DEF Disconnect
    <3>3. wire' = {} /\ handler' = {} /\ server' = "down" /\ UNCHANGED <<dispatch, ran>>
      BY <1>2 DEF Disconnect
    <3>4. answer' = [c \in Callers |-> IF answer[c] = "waiting" THEN "Unknown" ELSE answer[c]]
      BY <1>2 DEF Disconnect
    <3> QED
      BY <3>2, <3>3, <3>4
  <2>2. CallTypes'
    BY <2>1 DEF CallInv, CallTypes, Answers
  <2>3. RefusedIsNowhere' /\ UnsentIsNowhere' /\ WireIsUnhandled' /\ RepliesAreTrue'
    BY <2>1 DEF CallInv, RefusedIsNowhere, UnsentIsNowhere, WireIsUnhandled,
                RepliesAreTrue, Queued, Refusals
  <2>4. \A c \in Callers : answer'[c] = "Value" => c \in ran'
    BY <2>1 DEF CallInv
  <2> QED
    BY <2>2, <2>3, <2>4 DEF CallInv
<1>3. ASSUME NEW s \in Subscribers, SubscriptionStep(s) PROVE CallInv'
  BY <1>1, <1>3 DEF SubscriptionStep, Subscribe, BeginNext, FinishNext, CloseSubscription,
     ReleaseSubscription
<1>4. CASE Publish \/ BeginServerClose \/ Drain
  BY <1>1, <1>4 DEF Publish, BeginServerClose, Drain
<1> QED
  BY <1>1, <1>2, <1>3, <1>4, ClientKeepsCallInv, HandleCallKeepsCallInv, AgentKeepsCallInv
     DEF RpcNext, CallStep, ServerStep

-----------------------------------------------------------------------------
(* The stream *)

Subscription == [state : {"none", "open", "closing", "closed"}, pos : Nat, from : Nat,
                 reading : BOOLEAN, got : Nat, told : Nat, ended : BOOLEAN]

\* Everything up to a subscriber's position is accounted for, and an announced end
\* stays the end: the hub is closed.
Accounted(r) ==
    /\ r.from + r.got + r.told = r.pos /\ r.pos <= sent
    /\ r.ended => r.pos = sent /\ ~HubOpen

StreamInv ==
    /\ ring \in Seq(BOOLEAN) /\ sent \in Nat /\ Len(ring) <= sent
    /\ sub \in [Subscribers -> Subscription]
    /\ \A s \in Subscribers : Accounted(sub[s])

\* A slot of the ring holds a record or a loss.
LEMMA EverySlotCounts ==
    ASSUME NEW slots \in Seq(BOOLEAN)
    PROVE  /\ Records(slots) \in Nat /\ Losses(slots) \in Nat
           /\ Records(slots) + Losses(slots) = Len(slots)
<1> DEFINE n == Len(slots)
           R == {i \in DOMAIN slots : slots[i]}
           L == {i \in DOMAIN slots : ~slots[i]}
<1>1. n \in Nat /\ DOMAIN slots = 1 .. n
  BY LenProperties
<1>2. IsFiniteSet(1 .. n) /\ Cardinality(1 .. n) = n
  <2>1. IsFiniteSet(1 .. n) /\ Cardinality(1 .. n) = IF 1 > n THEN 0 ELSE n - 1 + 1
    BY <1>1, FS_Interval
  <2> QED
    BY <1>1, <2>1
<1>3. R \subseteq 1 .. n /\ L \subseteq 1 .. n /\ R \union L = 1 .. n /\ R \cap L = {}
  BY <1>1
<1>4. IsFiniteSet(R) /\ IsFiniteSet(L)
  BY <1>2, <1>3, FS_Subset
<1>5. Cardinality(R) \in Nat /\ Cardinality(L) \in Nat
  BY <1>4, FS_CardinalityType
<1>6. Cardinality(R \union L) = Cardinality(R) + Cardinality(L) - Cardinality(R \cap L)
  BY <1>4, FS_Union
<1>7. Cardinality(R \cap L) = 0
  BY <1>3, FS_EmptySet
<1>8. Cardinality(1 .. n) = Cardinality(R) + Cardinality(L) - 0
  BY <1>3, <1>6, <1>7
<1> QED
  BY <1>2, <1>5, <1>8 DEF Records, Losses

\* What one read tells: it moves the position by the records it returns and the
\* losses it reports, and never beyond what was sent.
LEMMA BatchAccounts ==
    ASSUME StreamInv, NEW s \in Subscribers
    PROVE  /\ Batch(s) \in Subscription
           /\ Batch(s).from + Batch(s).got + Batch(s).told = Batch(s).pos
           /\ Batch(s).pos <= sent
<1> DEFINE r == sub[s]
           oldest == sent - Len(ring)
           lagged == r.pos < oldest
           start == IF lagged THEN oldest ELSE r.pos
           room == IF lagged THEN BatchLimit - 1 ELSE BatchLimit
           end == IF start + room < sent THEN start + room ELSE sent
           slots == SubSeq(ring, start - oldest + 1, end - oldest)
           n == Len(ring)
<1>1. /\ r \in Subscription /\ r.pos \in Nat /\ r.from \in Nat /\ r.got \in Nat
      /\ r.told \in Nat
  BY DEF StreamInv, Subscription
<1>2. r.from + r.got + r.told = r.pos /\ r.pos <= sent
  BY DEF StreamInv, Accounted
<1>3. ring \in Seq(BOOLEAN) /\ n \in Nat /\ sent \in Nat /\ n <= sent
  BY LenProperties DEF StreamInv
<1>4. BatchLimit \in Nat \ {0}
  BY StreamAssumption
<1> DEFINE pos == r.pos
<1> HIDE DEF r, n, pos
<1>5. oldest \in Nat /\ oldest <= sent
  BY <1>3 DEF n
<1>6. pos \in Nat /\ pos <= sent
  BY <1>1, <1>2 DEF pos
<1>7. /\ start \in Nat /\ oldest <= start /\ pos <= start /\ start <= sent
      /\ room \in Nat
  BY <1>4, <1>5, <1>6 DEF pos
<1> HIDE DEF start, room
<1>8. end \in Nat /\ start <= end /\ end <= sent
  BY <1>3, <1>7
<1> HIDE DEF end
<1>9. slots \in Seq(BOOLEAN) /\ Len(slots) = end - start
  <2> DEFINE a == start - oldest + 1
             b == end - oldest
  <2>1. a \in Int /\ b \in Int /\ a >= 1 /\ b <= Len(ring) /\ b - a + 1 = end - start
        /\ a <= b + 1
    BY <1>3, <1>5, <1>7, <1>8 DEF n
  <2> HIDE DEF a, b
  <2>2. \A i \in a .. b : i \in 1 .. Len(ring)
    BY <1>3, <2>1 DEF n
  <2>3. \A i \in a .. b : ring[i] \in BOOLEAN
    BY <1>3, <2>2, ElementOfSeq
  <2>4. /\ SubSeq(ring, a, b) \in Seq(BOOLEAN)
        /\ Len(SubSeq(ring, a, b)) = IF a <= b THEN b - a + 1 ELSE 0
    BY <1>3, <2>1, <2>3, SubSeqProperties
  <2>5. (IF a <= b THEN b - a + 1 ELSE 0) = end - start
    BY <2>1, <1>7, <1>8
  <2> QED
    BY <2>4, <2>5 DEF a, b
<1> HIDE DEF slots, oldest
<1>10. /\ Records(slots) \in Nat /\ Losses(slots) \in Nat
       /\ Records(slots) + Losses(slots) = end - start
  BY <1>9, EverySlotCounts
<1> DEFINE got == r.got + Records(slots)
           told == r.told + (start - r.pos) + Losses(slots)
<1>11. Batch(s) = [r EXCEPT !.pos = end, !.reading = FALSE, !.got = got, !.told = told]
  BY Zenon DEF Batch, Oldest, r, slots, end, start, room, oldest
<1>12. got \in Nat /\ told \in Nat /\ r.from + got + told = end
  <2> DEFINE f == r.from
             g == r.got
             t == r.told
             m == Records(slots)
             l == Losses(slots)
  <2>1. f \in Nat /\ g \in Nat /\ t \in Nat /\ f + g + t = pos
    BY <1>1, <1>2 DEF pos
  <2>2. m \in Nat /\ l \in Nat /\ m + l = end - start
    BY <1>10
  <2>3. got = g + m /\ told = t + (start - pos) + l
    BY DEF pos
  <2> HIDE DEF f, g, t, m, l, got, told
  <2>4. got \in Nat /\ told \in Nat /\ f + got + told = end
    BY <1>6, <1>7, <1>8, <2>1, <2>2, <2>3
  <2> QED
    BY <2>4 DEF f
<1> HIDE DEF got, told
<1>13. /\ Batch(s) \in Subscription /\ Batch(s).from = r.from /\ Batch(s).got = got
       /\ Batch(s).told = told /\ Batch(s).pos = end
  BY <1>1, <1>8, <1>11, <1>12 DEF Subscription
<1> QED
  BY <1>8, <1>12, <1>13

LEMMA StreamInitEstablishesInv == RpcInit => StreamInv
<1> SUFFICES ASSUME RpcInit PROVE StreamInv
  OBVIOUS
<1>1. ring \in Seq(BOOLEAN) /\ sent = 0 /\ Len(ring) = 0
  BY EmptySeq DEF RpcInit
<1>2. Unsubscribed \in Subscription
  BY DEF Unsubscribed, Subscription
<1>3. sub \in [Subscribers -> Subscription]
  BY <1>2 DEF RpcInit
<1>4. \A s \in Subscribers : Accounted(sub[s])
  BY <1>1 DEF RpcInit, Accounted, Unsubscribed
<1> QED
  BY <1>1, <1>3, <1>4 DEF StreamInv

\* A step that replaces at most one subscription by an accounted one.
LEMMA OneSubscription ==
    ASSUME StreamInv, NEW s \in Subscribers, NEW new \in Subscription, Accounted(new),
           sub' = [sub EXCEPT ![s] = new], UNCHANGED <<server, ring, sent>>
    PROVE  StreamInv'
<1>1. sub' \in [Subscribers -> Subscription]
  BY DEF StreamInv
<1>2. ASSUME NEW t \in Subscribers PROVE Accounted(sub[t])'
  <2>1. sub'[t] = IF t = s THEN new ELSE sub[t]
    BY DEF StreamInv
  <2>2. Accounted(sub'[t])
    BY <2>1 DEF StreamInv
  <2> QED
    BY <2>2 DEF Accounted, HubOpen
<1> QED
  BY <1>1, <1>2 DEF StreamInv

LEMMA SubscriptionStepKeepsStream ==
    ASSUME StreamInv, NEW s \in Subscribers, SubscriptionStep(s)
    PROVE  StreamInv'
<1> DEFINE r == sub[s]
<1>1. r \in Subscription /\ Accounted(r)
  BY DEF StreamInv
<1>2. UNCHANGED <<server, ring, sent>>
  BY DEF SubscriptionStep, Subscribe, BeginNext, FinishNext, CloseSubscription,
         ReleaseSubscription
<1>3. sent \in Nat /\ sub \in [Subscribers -> Subscription]
  BY DEF StreamInv
<1>4. CASE Subscribe(s)
  <2> DEFINE new == [Unsubscribed EXCEPT !.state = "open", !.pos = sent, !.from = sent]
  <2>1. sub' = [sub EXCEPT ![s] = new]
    BY <1>4 DEF Subscribe
  <2>2. /\ new \in Subscription /\ new.from = sent /\ new.pos = sent /\ new.got = 0
        /\ new.told = 0 /\ new.ended = FALSE
    BY <1>3 DEF Unsubscribed, Subscription
  <2> HIDE DEF new
  <2>3. Accounted(new)
    BY <1>3, <2>2 DEF Accounted
  <2> QED
    BY <1>2, <2>1, <2>2, <2>3, OneSubscription
<1>5. ASSUME NEW new, new \in Subscription, new.pos = r.pos, new.from = r.from,
             new.got = r.got, new.told = r.told, new.ended = r.ended,
             sub' = [sub EXCEPT ![s] = new]
      PROVE  StreamInv'
  <2>1. Accounted(new)
    BY <1>1, <1>5 DEF Accounted
  <2> QED
    BY <1>2, <1>5, <2>1, OneSubscription
<1>6. CASE BeginNext(s)
  <2> DEFINE new == [r EXCEPT !.reading = TRUE]
  <2>1. sub' = [sub EXCEPT ![s] = new]
    BY <1>6 DEF BeginNext
  <2>2. /\ new \in Subscription /\ new.pos = r.pos /\ new.from = r.from
        /\ new.got = r.got /\ new.told = r.told /\ new.ended = r.ended
    BY <1>1 DEF Subscription
  <2> QED
    BY <1>5, <2>1, <2>2
<1>7. CASE CloseSubscription(s)
  <2> DEFINE new == [r EXCEPT !.state = "closing"]
  <2>1. sub' = [sub EXCEPT ![s] = new]
    BY <1>7 DEF CloseSubscription
  <2>2. /\ new \in Subscription /\ new.pos = r.pos /\ new.from = r.from
        /\ new.got = r.got /\ new.told = r.told /\ new.ended = r.ended
    BY <1>1 DEF Subscription
  <2> QED
    BY <1>5, <2>1, <2>2
<1>8. CASE ReleaseSubscription(s)
  <2> DEFINE new == [r EXCEPT !.state = "closed"]
  <2>1. sub' = [sub EXCEPT ![s] = new]
    BY <1>8 DEF ReleaseSubscription
  <2>2. /\ new \in Subscription /\ new.pos = r.pos /\ new.from = r.from
        /\ new.got = r.got /\ new.told = r.told /\ new.ended = r.ended
    BY <1>1 DEF Subscription
  <2> QED
    BY <1>5, <2>1, <2>2
<1>9. CASE FinishNext(s) /\ sub[s].state = "closing"
  <2> DEFINE new == [r EXCEPT !.reading = FALSE]
  <2>1. sub' = [sub EXCEPT ![s] = new]
    BY <1>9 DEF FinishNext
  <2>2. /\ new \in Subscription /\ new.pos = r.pos /\ new.from = r.from
        /\ new.got = r.got /\ new.told = r.told /\ new.ended = r.ended
    BY <1>1 DEF Subscription
  <2> QED
    BY <1>5, <2>1, <2>2
<1>10. CASE FinishNext(s) /\ sub[s].state # "closing"
  <2> DEFINE b == Batch(s)
             new == [b EXCEPT !.ended = Ended(b.pos)]
  <2>1. sub' = [sub EXCEPT ![s] = new]
    BY <1>10 DEF FinishNext
  <2>2. b \in Subscription /\ b.from + b.got + b.told = b.pos /\ b.pos <= sent
    BY BatchAccounts
  <2> HIDE DEF b
  <2>3. Ended(b.pos) \in BOOLEAN
    BY DEF Ended
  <2>4. /\ new \in Subscription /\ new.pos = b.pos /\ new.from = b.from
        /\ new.got = b.got /\ new.told = b.told /\ new.ended = Ended(b.pos)
    BY <2>2, <2>3 DEF Subscription
  <2> HIDE DEF new
  <2>5. Accounted(new)
    BY <2>2, <2>4 DEF Accounted, Ended
  <2> QED
    BY <1>2, <2>1, <2>4, <2>5, OneSubscription
<1> QED
  BY <1>4, <1>6, <1>7, <1>8, <1>9, <1>10 DEF SubscriptionStep

LEMMA StreamInvKept ==
    ASSUME StreamInv, [RpcNext]_rpcVars
    PROVE  StreamInv'
<1>1. sent \in Nat /\ ring \in Seq(BOOLEAN) /\ sub \in [Subscribers -> Subscription]
  BY DEF StreamInv
<1>2. CASE UNCHANGED streamVars /\ (HubOpen' => HubOpen)
  <2>1. UNCHANGED <<ring, sent, sub>>
    BY <1>2 DEF streamVars
  <2>2. ASSUME NEW s \in Subscribers PROVE Accounted(sub[s])'
    <3>1. Accounted(sub[s])
      BY DEF StreamInv
    <3> QED
      BY <1>2, <2>1, <3>1 DEF Accounted
  <2> QED
    BY <2>1, <2>2 DEF StreamInv
<1>3. CASE Publish
  <2>1. /\ HubOpen /\ sent' = sent + 1 /\ UNCHANGED <<server, sub>>
        /\ \E encoded \in BOOLEAN :
              ring' = IF Len(Append(ring, encoded)) > STREAM_ITEMS
                      THEN Tail(Append(ring, encoded)) ELSE Append(ring, encoded)
    BY <1>3 DEF Publish
  <2>2. PICK encoded \in BOOLEAN :
              ring' \in {Tail(Append(ring, encoded)), Append(ring, encoded)}
    BY <2>1
  <2> DEFINE full == Append(ring, encoded)
  <2>3. full \in Seq(BOOLEAN) /\ Len(full) = Len(ring) + 1 /\ Len(ring) \in Nat
    BY <1>1, AppendProperties, LenProperties
  <2> HIDE DEF full
  <2>4. full # <<>>
    BY <2>3, EmptySeq
  <2>5. Tail(full) \in Seq(BOOLEAN) /\ Len(Tail(full)) = Len(full) - 1
    BY <2>3, <2>4, HeadTailProperties
  <2>6. ring' \in Seq(BOOLEAN) /\ Len(ring') <= Len(ring) + 1
    <3>1. CASE ring' = full
      BY <2>3, <3>1
    <3>2. CASE ring' = Tail(full)
      BY <2>3, <2>5, <3>2
    <3> QED
      BY <2>2, <3>1, <3>2 DEF full
  <2>7. Len(ring') <= sent' /\ sent' \in Nat
    <3>1. Len(ring) <= sent /\ Len(ring') \in Nat
      BY <2>6, LenProperties DEF StreamInv
    <3> QED
      BY <1>1, <2>1, <2>3, <2>6, <3>1
  <2>8. ASSUME NEW s \in Subscribers PROVE Accounted(sub[s])'
    <3>1. /\ sub[s].from + sub[s].got + sub[s].told = sub[s].pos /\ sub[s].pos <= sent
          /\ ~sub[s].ended
      BY <2>1 DEF StreamInv, Accounted
    <3>2. sub[s].pos \in Nat
      BY <1>1 DEF Subscription
    <3>3. sub[s].pos <= sent + 1
      BY <1>1, <3>1, <3>2
    <3> QED
      BY <2>1, <3>1, <3>3 DEF Accounted
  <2> QED
    BY <1>1, <2>1, <2>6, <2>7, <2>8 DEF StreamInv
<1>4. CASE Disconnect
  <2>1. /\ sub' = [s \in Subscribers |-> [sub[s] EXCEPT !.state = "closed", !.reading = FALSE]]
        /\ server' = "down" /\ UNCHANGED <<ring, sent>>
    BY <1>4 DEF Disconnect
  <2>2. ASSUME NEW s \in Subscribers
        PROVE  sub'[s] \in Subscription /\ Accounted(sub[s])'
    <3> DEFINE r == sub[s]
               new == [r EXCEPT !.state = "closed", !.reading = FALSE]
    <3>1. r \in Subscription /\ Accounted(r)
      BY DEF StreamInv
    <3>2. sub'[s] = new
      BY <2>1
    <3>3. /\ new \in Subscription /\ new.pos = r.pos /\ new.from = r.from
          /\ new.got = r.got /\ new.told = r.told /\ new.ended = r.ended
      BY <3>1 DEF Subscription
    <3> HIDE DEF new
    <3> QED
      BY <2>1, <3>1, <3>2, <3>3 DEF Accounted, HubOpen
  <2>3. sub' \in [Subscribers -> Subscription]
    BY <2>1, <2>2
  <2> QED
    BY <1>1, <2>1, <2>2, <2>3 DEF StreamInv
<1>5. CASE BeginServerClose \/ Drain \/ TakeRequest
  BY <1>2, <1>5 DEF BeginServerClose, Drain, TakeRequest, HubOpen
<1>6. ASSUME NEW c \in Callers, CallStep(c) PROVE StreamInv'
  BY <1>2, <1>6 DEF CallStep, Call, CallTimeout, Receive, HandleCall, AnswerRequest,
     AbandonRequest, HubOpen
<1>7. CASE UNCHANGED rpcVars
  BY <1>2, <1>7 DEF rpcVars, HubOpen
<1> QED
  BY <1>3, <1>4, <1>5, <1>6, <1>7, SubscriptionStepKeepsStream DEF RpcNext, ServerStep

-----------------------------------------------------------------------------

\* What the endpoint tells (call, RoomServer, SubscriptionServer.next): the Agent
\* never takes an operation whose caller was told that nothing happened, a value is
\* reported only for an operation that was taken, and a subscriber is told of every
\* record that it missed and of the end only after the last one.
THEOREM RpcAnswers == RpcSpec => []AnswersAreTrue
<1>1. RpcInit => CallInv /\ StreamInv
  BY CallInitEstablishesInv, StreamInitEstablishesInv
<1>2. CallInv /\ StreamInv /\ [RpcNext]_rpcVars => (CallInv /\ StreamInv)'
  BY CallInvKept, StreamInvKept
<1>3. CallInv /\ StreamInv => AnswersAreTrue
  BY DEF CallInv, StreamInv, RefusedIsNowhere, Accounted, AnswersAreTrue,
         RefusedNeverRuns, LossIsTold, Queued
<1> QED
  BY <1>1, <1>2, <1>3, PTL DEF RpcSpec

-----------------------------------------------------------------------------
(* The room's files *)

Steps == {"out", "ready", "clean", "write", "sync", "rename", "publish", "unlink"}
Working(o) == owner[o].step \notin {"out", "ready"}

FilesTypes ==
    /\ owner \in [Owners -> [step : Steps, rest : Seq(AllFiles), job : 0 .. MaxJobs]]
    /\ lock \in Owners \union {Nobody}
    /\ jobs \in 0 .. MaxJobs
    /\ live \in [AllFiles -> 0 .. jobs] /\ disk \in [AllFiles -> 0 .. jobs]
    /\ fields \in [0 .. MaxJobs -> [Owners -> 0 .. MaxJobs]]
    /\ acked \in [config : 0 .. jobs, state : [Owners -> 0 .. jobs]]
    /\ tmp \in [job : 0 .. MaxJobs, synced : BOOLEAN]
    /\ legacy \in BOOLEAN /\ failures \in 0 .. MaxFailures

\* Who is not outside holds the lock.
LockHeld == \A o \in Owners : owner[o].step # "out" <=> lock = o

\* The job at work is the newest, and what it renames it wrote and synced.
JobKnown ==
    \A o \in Owners :
        /\ Working(o) => owner[o].job = jobs
        /\ owner[o].step \in {"sync", "rename"} => tmp.job = jobs
        /\ owner[o].step = "rename" => tmp.synced

\* The files a process has left are the state, or a suffix of the configuration
\* whose files before it carry this job.
ConfigAt(o, k) ==
    /\ owner[o].rest = SubSeq(Configuration, k, Len(Configuration))
    /\ \A i \in 1 .. k - 1 : live[Configuration[i]] = jobs
    /\ owner[o].step = "publish" => live[Configuration[k]] = jobs

StateAt(o) ==
    /\ owner[o].rest = <<StateFile>>
    /\ owner[o].step # "unlink"
    /\ fields[jobs][o] = jobs
    /\ \A p \in Owners : fields[jobs][p] >= acked.state[p]
    /\ owner[o].step = "publish" => live[StateFile] = jobs

JobProgress ==
    \A o \in Owners : Working(o) => StateAt(o) \/ \E k \in 1 .. Len(Configuration) : ConfigAt(o, k)

\* What a reader, or a start after a power loss, may rely on.
Prefix(view) ==
    \A i, j \in DOMAIN Configuration : i < j => view[Configuration[i]] >= view[Configuration[j]]
Survives(view) ==
    /\ \A f \in ConfigFiles : view[f] >= acked.config
    /\ \A o \in Owners : fields[view[StateFile]][o] >= acked.state[o]
Reliable(view) == Prefix(view) /\ Survives(view)

\* The inductive invariant.
FilesInv ==
    /\ FilesTypes
    /\ LockHeld
    /\ JobKnown
    /\ JobProgress
    /\ torn = {}
    /\ Reliable(live) /\ Reliable(disk)

-----------------------------------------------------------------------------
(* The configuration and its suffixes *)

Size == Len(Configuration)

LEMMA ConfigurationFacts ==
    /\ Configuration \in Seq(ConfigFiles) /\ Size \in Nat \ {0}
    /\ DOMAIN Configuration = 1 .. Size
    /\ \A i, j \in 1 .. Size : Configuration[i] = Configuration[j] => i = j
    /\ \A i \in 1 .. Size : Configuration[i] \in ConfigFiles
    /\ \A f \in ConfigFiles : \E i \in 1 .. Size : f = Configuration[i]
    /\ ConfigFiles \subseteq AllFiles /\ StateFile \in AllFiles
    /\ StateFile \notin ConfigFiles
<1>1. Changed \in Seq(ConfigFiles) /\ Removed \in Seq(ConfigFiles)
  BY FilesAssumption, SeqMonotonic DEF ConfigFiles
<1>2. /\ Configuration \in Seq(ConfigFiles)
      /\ Size = Len(Changed) + Len(Removed)
      /\ \A i \in 1 .. Size : Configuration[i] =
            IF i <= Len(Changed) THEN Changed[i] ELSE Removed[i - Len(Changed)]
  BY <1>1, ConcatProperties DEF Configuration, Size
<1>3. /\ Len(Changed) \in Nat /\ DOMAIN Changed = 1 .. Len(Changed)
      /\ Len(Removed) \in Nat /\ DOMAIN Removed = 1 .. Len(Removed)
  BY <1>1, LenProperties
<1>4. /\ Size \in Nat \ {0} /\ DOMAIN Configuration = 1 .. Size
      /\ \A i \in 1 .. Size : Configuration[i] \in ConfigFiles
  BY <1>2, FilesAssumption, LenProperties, EmptySeq, ElementOfSeq DEF Size
<1>5. ASSUME NEW f \in ConfigFiles PROVE \E i \in 1 .. Size : f = Configuration[i]
  <2>1. CASE f \in ToSet(Changed)
    <3>1. PICK i \in 1 .. Len(Changed) : f = Changed[i]
      BY <1>3, <2>1 DEF ToSet
    <3>2. i \in 1 .. Size /\ i <= Len(Changed)
      BY <1>2, <1>3
    <3> QED
      BY <1>2, <3>1, <3>2
  <2>2. CASE f \in ToSet(Removed)
    <3>1. PICK i \in 1 .. Len(Removed) : f = Removed[i]
      BY <1>3, <2>2 DEF ToSet
    <3> DEFINE j == i + Len(Changed)
    <3>2. j \in 1 .. Size /\ ~(j <= Len(Changed)) /\ j - Len(Changed) = i
      BY <1>2, <1>3
    <3> HIDE DEF j
    <3> QED
      BY <1>2, <3>1, <3>2
  <2> QED
    BY <2>1, <2>2 DEF ConfigFiles
<1>6. \A i, j \in 1 .. Size : Configuration[i] = Configuration[j] => i = j
  BY <1>4, FilesAssumption DEF IsInjective
<1> QED
  BY <1>2, <1>4, <1>5, <1>6, FilesAssumption DEF AllFiles

LEMMA SuffixFacts ==
    ASSUME NEW k \in 1 .. Size
    PROVE  LET rest == SubSeq(Configuration, k, Size)
           IN  /\ rest \in Seq(AllFiles)
               /\ Head(rest) = Configuration[k]
               /\ Tail(rest) = SubSeq(Configuration, k + 1, Size)
               /\ Tail(rest) = <<>> <=> k = Size
<1>1. /\ Configuration \in Seq(ConfigFiles) /\ Size \in Nat \ {0}
      /\ \A i \in 1 .. Size : Configuration[i] \in AllFiles
  BY ConfigurationFacts
<1> DEFINE rest == SubSeq(Configuration, k, Size)
<1>2. Size \in k .. Len(Configuration) /\ k \in 1 .. Len(Configuration)
  BY <1>1 DEF Size
<1>3. Head(rest) = Configuration[k] /\ Tail(rest) = SubSeq(Configuration, k + 1, Size)
  BY <1>1, <1>2, HeadTailOfSubSeq
<1>4. rest \in Seq(AllFiles)
  BY <1>1, SubSeqProperties
<1>5. CASE k = Size
  <2> DEFINE next == k + 1
  <2>0. next \in Int /\ Size \in Int /\ Size < next
    BY <1>1, <1>5
  <2> HIDE DEF next
  <2>1. SubSeq(Configuration, next, Size) = <<>>
    BY <2>0, SubSeqEmpty
  <2>2. Tail(rest) = <<>>
    BY <1>3, <2>1, Zenon DEF next
  <2> QED
    BY <1>3, <1>4, <1>5, <2>2
<1>6. CASE k # Size
  <2>1. Len(SubSeq(Configuration, k + 1, Size)) = Size - k
    BY <1>1, <1>6, SubSeqProperties
  <2>2. Tail(rest) # <<>>
    <3>1. Size - k # 0
      BY <1>1, <1>6
    <3>2. Len(Tail(rest)) = Size - k
      BY <1>3, <2>1, Zenon
    <3> HIDE DEF rest
    <3> QED
      BY <3>1, <3>2, EmptySeq
  <2> QED
    BY <1>3, <1>4, <1>6, <2>2
<1> QED
  BY <1>5, <1>6

LEMMA TailOfOne == Tail(<<StateFile>>) = <<>>
<1> DEFINE one == <<StateFile>>
<1>1. one \in Seq(AllFiles) /\ Len(one) = 1 /\ one # <<>>
  BY DEF AllFiles
<1> HIDE DEF one
<1>2. Tail(one) \in Seq(AllFiles) /\ Len(Tail(one)) = 0
  BY <1>1, HeadTailProperties
<1>3. Tail(one) = <<>>
  BY <1>2, EmptySeq
<1> QED
  BY <1>3 DEF one

\* One more file of the newest job leaves no file newer than one before it.
LEMMA ReplaceKeepsOrder ==
    ASSUME NEW J \in Nat, NEW view \in [AllFiles -> 0 .. J], Prefix(view),
           NEW k \in 1 .. Size, \A i \in 1 .. k - 1 : view[Configuration[i]] = J
    PROVE  Prefix([view EXCEPT ![Configuration[k]] = J])
<1> DEFINE new == [view EXCEPT ![Configuration[k]] = J]
<1> SUFFICES ASSUME NEW i \in 1 .. Size, NEW j \in 1 .. Size, i < j
             PROVE  new[Configuration[i]] >= new[Configuration[j]]
  BY ConfigurationFacts DEF Prefix
<1>1. /\ Configuration[i] \in AllFiles /\ Configuration[j] \in AllFiles
      /\ Configuration[k] \in AllFiles /\ Size \in Nat
      /\ Configuration[i] = Configuration[k] <=> i = k
      /\ Configuration[j] = Configuration[k] <=> j = k
  BY ConfigurationFacts
<1>2. /\ view[Configuration[i]] \in 0 .. J /\ view[Configuration[j]] \in 0 .. J
      /\ view[Configuration[i]] >= view[Configuration[j]]
  BY <1>1, ConfigurationFacts DEF Prefix
<1>3. /\ new[Configuration[i]] = IF i = k THEN J ELSE view[Configuration[i]]
      /\ new[Configuration[j]] = IF j = k THEN J ELSE view[Configuration[j]]
  BY <1>1
<1> HIDE DEF new
<1>4. CASE i >= k
  BY <1>1, <1>2, <1>3, <1>4
<1>5. CASE i < k
  <2>1. i \in 1 .. k - 1
    BY <1>1, <1>5
  <2>2. new[Configuration[i]] = J
    BY <1>3, <2>1
  <2> QED
    BY <1>2, <1>3, <2>2
<1> QED
  BY <1>1, <1>4, <1>5

-----------------------------------------------------------------------------
(* One process at work *)

OwnerStates == [step : Steps, rest : Seq(AllFiles), job : 0 .. MaxJobs]

LEMMA IdleIsState ==
    /\ Idle \in OwnerStates /\ Idle.step = "out"
    /\ [Idle EXCEPT !.step = "ready"] \in OwnerStates
    /\ [Idle EXCEPT !.step = "ready"].step = "ready"
<1>1. <<>> \in Seq(AllFiles) /\ 0 \in 0 .. MaxJobs
  BY EmptySeq, FilesAssumption
<1> QED
  BY <1>1 DEF Idle, OwnerStates, Steps

LEMMA OthersAreOut ==
    ASSUME FilesInv, NEW o \in Owners, owner[o].step # "out" \/ lock = Nobody
    PROVE  \A p \in Owners : p # o => owner[p].step = "out"
  BY FilesAssumption DEF FilesInv, LockHeld

\* Only the process that moved has to be looked at.
LEMMA OneMoved ==
    ASSUME FilesInv, NEW o \in Owners, owner[o].step # "out" \/ lock = Nobody,
           NEW x \in OwnerStates, owner' = [owner EXCEPT ![o] = x]
    PROVE  /\ owner' \in [Owners -> OwnerStates]
           /\ owner'[o] = x
           /\ \A p \in Owners : p # o => owner'[p].step = "out"
<1>1. owner \in [Owners -> OwnerStates]
  BY DEF FilesInv, FilesTypes, OwnerStates
<1> QED
  BY <1>1, OthersAreOut

LEMMA LockFollows ==
    ASSUME FilesInv, NEW o \in Owners, owner[o].step # "out" \/ lock = Nobody,
           \A p \in Owners : p # o => owner'[p].step = "out",
           \/ owner'[o].step # "out" /\ lock' = o
           \/ owner'[o].step # "out" /\ owner[o].step # "out" /\ lock' = lock
           \/ /\ owner'[o].step = "out"
              /\ lock' = IF lock = o THEN Nobody ELSE lock
    PROVE  LockHeld' /\ lock' \in Owners \union {Nobody}
<1>1. lock \in {o, Nobody} /\ (owner[o].step # "out" => lock = o)
  BY DEF FilesInv, FilesTypes, LockHeld
<1> QED
  BY <1>1, FilesAssumption DEF LockHeld

\* A process that no longer works, and files as they were.
LEMMA NoWorkKeepsInv ==
    ASSUME FilesInv, LockHeld', lock' \in Owners \union {Nobody},
           owner' \in [Owners -> OwnerStates],
           \A p \in Owners : owner'[p].step \in {"out", "ready"},
           UNCHANGED <<live, disk, tmp, torn, jobs, fields, acked>>,
           legacy' \in BOOLEAN, failures' \in 0 .. MaxFailures
    PROVE  FilesInv'
<1>1. FilesTypes'
  BY DEF FilesInv, FilesTypes, OwnerStates
<1>2. JobKnown' /\ JobProgress'
  BY DEF JobKnown, JobProgress, Working
<1>3. Reliable(live)' /\ Reliable(disk)' /\ torn' = {}
  BY DEF FilesInv, Reliable, Prefix, Survives
<1> QED
  BY <1>1, <1>2, <1>3 DEF FilesInv

\* try_acquire, the release and every way a job ends early.
LEMMA EndsKeepInv ==
    ASSUME FilesInv, NEW o \in Owners,
           TryAcquire(o) \/ Release(o) \/ Fails(o) \/ Crash(o)
    PROVE  FilesInv'
<1>1. \E y \in {Idle, [Idle EXCEPT !.step = "ready"]} : owner' = [owner EXCEPT ![o] = y]
  BY DEF TryAcquire, Release, Fails, Crash
<1>2. PICK y \in {Idle, [Idle EXCEPT !.step = "ready"]} : owner' = [owner EXCEPT ![o] = y]
  BY <1>1
<1>3. y \in OwnerStates /\ y.step \in {"out", "ready"}
  BY <1>2, IdleIsState
<1>4. owner[o].step # "out" \/ lock = Nobody
  BY DEF TryAcquire, Release, Fails, Crash, LockFree
<1>5. /\ owner' \in [Owners -> OwnerStates] /\ owner'[o] = y
      /\ \A p \in Owners : p # o => owner'[p].step = "out"
  BY <1>2, <1>3, <1>4, OneMoved
<1>6. /\ \/ owner'[o].step # "out" /\ lock' = o
         \/ owner'[o].step # "out" /\ owner[o].step # "out" /\ lock' = lock
         \/ owner'[o].step = "out" /\ lock' = IF lock = o THEN Nobody ELSE lock
      /\ UNCHANGED <<live, disk, tmp, torn, jobs, fields, acked>>
      /\ legacy' \in {legacy, FALSE} /\ failures' \in {failures, failures + 1}
      /\ failures' # failures => failures < MaxFailures
  <2>1. owner \in [Owners -> OwnerStates]
    BY DEF FilesInv, FilesTypes, OwnerStates
  <2>2. CASE TryAcquire(o)
    BY <2>1, <2>2, IdleIsState DEF TryAcquire, historyVars
  <2>3. CASE Release(o)
    BY <2>1, <2>3, IdleIsState DEF Release, diskVars, historyVars
  <2>4. CASE Fails(o)
    BY <2>1, <2>4, IdleIsState DEF Fails, diskVars, historyVars
  <2>5. CASE Crash(o)
    BY <2>1, <2>5, IdleIsState DEF Crash, diskVars, historyVars
  <2> QED
    BY <2>2, <2>3, <2>4, <2>5
<1>7. LockHeld' /\ lock' \in Owners \union {Nobody}
  BY <1>4, <1>5, <1>6, LockFollows
<1>8. \A p \in Owners : owner'[p].step \in {"out", "ready"}
  BY <1>3, <1>5
<1>9. failures \in 0 .. MaxFailures /\ legacy \in BOOLEAN
  BY DEF FilesInv, FilesTypes
<1>10. failures' \in 0 .. MaxFailures
  BY <1>6, <1>9, FilesAssumption
<1>11. legacy' \in BOOLEAN
  BY <1>6, <1>9, Zenon
<1> QED
  BY <1>5, <1>6, <1>7, <1>8, <1>10, <1>11, NoWorkKeepsInv

LEMMA PowerLossKeepsInv ==
    ASSUME FilesInv, PowerLoss
    PROVE  FilesInv'
<1>1. /\ owner' = [o \in Owners |-> Idle] /\ lock' = Nobody
      /\ live' \in {live, disk} /\ disk' = live' /\ tmp' \in {tmp, NoTemporary}
      /\ failures < MaxFailures /\ failures' = failures + 1
      /\ UNCHANGED <<torn, legacy, jobs, fields, acked>>
  BY DEF PowerLoss, historyVars
<1>2. owner' \in [Owners -> OwnerStates] /\ \A o \in Owners : owner'[o].step = "out"
  BY <1>1, IdleIsState
<1>3. LockHeld' /\ JobKnown' /\ JobProgress'
  BY <1>1, <1>2, FilesAssumption DEF LockHeld, JobKnown, JobProgress, Working
<1>4. Reliable(live)' /\ Reliable(disk)'
  BY <1>1 DEF FilesInv, Reliable, Prefix, Survives
<1>5. failures' \in 0 .. MaxFailures
  BY <1>1, FilesAssumption DEF FilesInv, FilesTypes
<1>6. NoTemporary \in [job : 0 .. MaxJobs, synced : BOOLEAN]
  BY FilesAssumption DEF NoTemporary
<1>7. FilesTypes'
  BY <1>1, <1>2, <1>5, <1>6 DEF FilesInv, FilesTypes, OwnerStates
<1> QED
  BY <1>1, <1>3, <1>4, <1>7 DEF FilesInv

-----------------------------------------------------------------------------
(* Jobs *)

LEMMA FirstStepCases ==
    \A rest : FirstStep(rest) \in {"clean", "unlink"}
  BY DEF FirstStep

\* A new job touches no file; its number is newer than every file.
LEMMA WriteFilesKeepsInv ==
    ASSUME FilesInv, NEW o \in Owners, WriteFiles(o)
    PROVE  FilesInv'
<1>1. /\ owner[o].step = "ready" /\ jobs < MaxJobs /\ jobs' = jobs + 1
      /\ UNCHANGED <<lock, live, disk, tmp, torn, legacy, fields, acked, failures>>
  BY DEF WriteFiles, Ready, diskVars
<1>2. jobs \in 0 .. MaxJobs /\ jobs' \in 0 .. MaxJobs /\ 0 .. jobs \subseteq 0 .. jobs'
  BY <1>1, FilesAssumption DEF FilesInv, FilesTypes
<1>3. /\ live' \in [AllFiles -> 0 .. jobs'] /\ disk' \in [AllFiles -> 0 .. jobs']
      /\ acked' \in [config : 0 .. jobs', state : [Owners -> 0 .. jobs']]
  BY <1>1, <1>2 DEF FilesInv, FilesTypes
<1>4. Reliable(live)' /\ Reliable(disk)' /\ torn' = {}
  BY <1>1 DEF FilesInv, Reliable, Prefix, Survives
<1>5. ASSUME owner' \in [Owners -> OwnerStates],
             \A p \in Owners : owner'[p].step = "out" <=> owner[p].step = "out",
             JobKnown', JobProgress'
      PROVE  FilesInv'
  <2>1. LockHeld'
    BY <1>1, <1>5 DEF FilesInv, LockHeld
  <2>2. FilesTypes'
    BY <1>1, <1>2, <1>3, <1>5 DEF FilesInv, FilesTypes, OwnerStates
  <2> QED
    BY <1>4, <1>5, <2>1, <2>2 DEF FilesInv
<1>6. \A p \in Owners : p # o => owner[p].step = "out"
  BY <1>1, OthersAreOut
<1>7. CASE UNCHANGED owner
  <2>1. JobKnown' /\ JobProgress'
    BY <1>1, <1>6, <1>7 DEF JobKnown, JobProgress, Working
  <2> QED
    BY <1>5, <1>7, <2>1 DEF FilesInv, FilesTypes, OwnerStates
<1>8. CASE owner' # owner
  <2> DEFINE x == [step |-> FirstStep(Configuration), job |-> jobs', rest |-> Configuration]
  <2>1. owner' = [owner EXCEPT ![o] = x]
    BY <1>1, <1>8 DEF WriteFiles
  <2>2. Configuration \in Seq(AllFiles)
    BY ConfigurationFacts, SeqMonotonic
  <2>3. x \in OwnerStates
    BY <1>2, <2>2, FirstStepCases DEF OwnerStates, Steps
  <2>4. /\ owner' \in [Owners -> OwnerStates] /\ owner'[o] = x
        /\ \A p \in Owners : p # o => owner'[p].step = "out"
    BY <1>1, <2>1, <2>3, OneMoved
  <2>5. x.step \in {"clean", "unlink"} /\ x.job = jobs' /\ x.rest = Configuration
    BY FirstStepCases
  <2> HIDE DEF x
  <2>6. JobKnown'
    BY <2>4, <2>5 DEF JobKnown, Working
  <2>7. 1 \in 1 .. Size /\ \A i \in 1 .. 1 - 1 : FALSE
    BY ConfigurationFacts
  <2>8. Configuration = SubSeq(Configuration, 1, Size)
    BY ConfigurationFacts, SubSeqFull DEF Size
  <2>9. ConfigAt(o, 1)'
    BY <2>4, <2>5, <2>7, <2>8 DEF ConfigAt, Size
  <2>10. JobProgress'
    BY <2>4, <2>7, <2>9 DEF JobProgress, Working, Size
  <2> QED
    BY <1>1, <1>5, <1>6, <2>4, <2>5, <2>6, <2>10
<1> QED
  BY <1>7, <1>8

\* The state to be written is the one on disk with one field renewed.
LEMMA UpdateStateKeepsInv ==
    ASSUME FilesInv, NEW o \in Owners, UpdateState(o)
    PROVE  FilesInv'
<1> DEFINE x == [step |-> "clean", job |-> jobs', rest |-> <<StateFile>>]
           old == fields[live[StateFile]]
           new == [old EXCEPT ![o] = jobs']
<1>1. /\ owner[o].step = "ready" /\ jobs < MaxJobs /\ jobs' = jobs + 1
      /\ owner' = [owner EXCEPT ![o] = x]
      /\ fields' = [fields EXCEPT ![jobs'] = new]
      /\ UNCHANGED <<lock, live, disk, tmp, torn, legacy, acked, failures>>
  BY DEF UpdateState, Ready, StateRead, diskVars
<1>2. /\ jobs \in 0 .. MaxJobs /\ jobs' \in 0 .. MaxJobs
      /\ 0 .. jobs \subseteq 0 .. jobs' /\ jobs' \notin 0 .. jobs
      /\ 0 .. jobs \subseteq 0 .. MaxJobs
  <2>1. jobs \in 0 .. MaxJobs /\ jobs < MaxJobs /\ jobs' = jobs + 1 /\ MaxJobs \in Nat
    BY <1>1, FilesAssumption DEF FilesInv, FilesTypes
  <2> QED
    BY <2>1
<1>3. /\ live \in [AllFiles -> 0 .. jobs] /\ disk \in [AllFiles -> 0 .. jobs]
      /\ fields \in [0 .. MaxJobs -> [Owners -> 0 .. MaxJobs]]
      /\ acked \in [config : 0 .. jobs, state : [Owners -> 0 .. jobs]]
      /\ StateFile \in AllFiles
  BY ConfigurationFacts DEF FilesInv, FilesTypes
<1>4. old \in [Owners -> 0 .. MaxJobs] /\ new \in [Owners -> 0 .. MaxJobs]
  BY <1>2, <1>3
<1>5. fields' \in [0 .. MaxJobs -> [Owners -> 0 .. MaxJobs]]
  BY <1>1, <1>2, <1>3, <1>4
<1>6. fields'[jobs'] = new /\ \A j \in 0 .. jobs : fields'[j] = fields[j]
  BY <1>1, <1>2, <1>3
<1>7. new[o] = jobs' /\ \A p \in Owners : p # o => new[p] = old[p]
  BY <1>4
<1>8. \A p \in Owners : new[p] >= acked.state[p]
  <2> TAKE p \in Owners
  <2>1. CASE p = o
    <3>1. acked.state[o] \in 0 .. jobs
      BY <1>3
    <3> HIDE DEF new
    <3> QED
      BY <1>1, <1>2, <1>7, <2>1, <3>1
  <2>2. CASE p # o
    BY <1>7, <2>2 DEF FilesInv, Reliable, Survives
  <2> QED
    BY <2>1, <2>2
<1> HIDE DEF new, old
<1>9. <<StateFile>> \in Seq(AllFiles)
  BY <1>3
<1>10. x \in OwnerStates
  BY <1>2, <1>9 DEF OwnerStates, Steps
<1>11. /\ owner' \in [Owners -> OwnerStates] /\ owner'[o] = x
       /\ \A p \in Owners : p # o => owner'[p].step = "out"
  BY <1>1, <1>10, OneMoved
<1>12. x.step = "clean" /\ x.job = jobs' /\ x.rest = <<StateFile>>
  OBVIOUS
<1> HIDE DEF x
<1>13. LockHeld' /\ lock' \in Owners \union {Nobody}
  BY <1>1, <1>11, <1>12, LockFollows
<1>14. JobKnown'
  BY <1>11, <1>12 DEF JobKnown, Working
<1>15. StateAt(o)'
  BY <1>1, <1>6, <1>7, <1>8, <1>11, <1>12 DEF StateAt
<1>16. JobProgress'
  BY <1>11, <1>15 DEF JobProgress, Working
<1>17. Reliable(live)' /\ Reliable(disk)' /\ torn' = {}
  <2>1. live[StateFile] \in 0 .. jobs /\ disk[StateFile] \in 0 .. jobs
    BY <1>3
  <2> QED
    BY <1>1, <1>6, <2>1 DEF FilesInv, Reliable, Prefix, Survives
<1>18. /\ live' \in [AllFiles -> 0 .. jobs'] /\ disk' \in [AllFiles -> 0 .. jobs']
       /\ acked' \in [config : 0 .. jobs', state : [Owners -> 0 .. jobs']]
  BY <1>1, <1>2, <1>3
<1>19. FilesTypes'
  BY <1>1, <1>2, <1>5, <1>11, <1>13, <1>18 DEF FilesInv, FilesTypes, OwnerStates
<1> QED
  BY <1>13, <1>14, <1>16, <1>17, <1>19 DEF FilesInv

-----------------------------------------------------------------------------
(* Directory::replace *)

\* A step of the process at work that writes nothing readers see.
LEMMA QuietStepKeepsInv ==
    ASSUME FilesInv, NEW o \in Owners, Working(o),
           NEW next \in {"write", "sync", "rename"}, Step(o, next),
           owner[o].step # "unlink",
           tmp' \in [job : 0 .. MaxJobs, synced : BOOLEAN],
           next \in {"sync", "rename"} => tmp'.job = jobs,
           next = "rename" => tmp'.synced,
           UNCHANGED <<lock, live, disk, torn, legacy, jobs, fields, acked, failures>>
    PROVE  FilesInv'
<1> DEFINE x == [owner[o] EXCEPT !.step = next]
<1>1. owner[o] \in OwnerStates
  BY DEF FilesInv, FilesTypes, OwnerStates
<1>2. /\ x \in OwnerStates /\ x.step = next
      /\ x.rest = owner[o].rest /\ x.job = owner[o].job
  BY <1>1 DEF OwnerStates, Steps
<1>3. owner' = [owner EXCEPT ![o] = x]
  BY Zenon DEF Step
<1> HIDE DEF x
<1>4. /\ owner' \in [Owners -> OwnerStates] /\ owner'[o] = x
      /\ \A p \in Owners : p # o => owner'[p].step = "out"
  BY <1>2, <1>3, OneMoved DEF Working
<1>5. LockHeld' /\ lock' \in Owners \union {Nobody}
  BY <1>2, <1>4, LockFollows DEF Working
<1>6. JobKnown'
  BY <1>2, <1>4 DEF FilesInv, JobKnown, Working
<1>7. JobProgress'
  <2>1. CASE StateAt(o)
    <3>1. StateAt(o)'
      BY <1>2, <1>4, <2>1 DEF StateAt
    <3> QED
      BY <1>4, <3>1 DEF JobProgress, Working
  <2>2. CASE \E k \in 1 .. Len(Configuration) : ConfigAt(o, k)
    <3>1. PICK k \in 1 .. Len(Configuration) : ConfigAt(o, k)
      BY <2>2
    <3>2. ConfigAt(o, k)'
      BY <1>2, <1>4, <3>1 DEF ConfigAt
    <3> QED
      BY <1>4, <3>2 DEF JobProgress, Working
  <2> QED
    BY <2>1, <2>2 DEF FilesInv, JobProgress
<1>8. Reliable(live)' /\ Reliable(disk)' /\ torn' = {}
  BY DEF FilesInv, Reliable, Prefix, Survives
<1>9. FilesTypes'
  BY <1>4, <1>5 DEF FilesInv, FilesTypes, OwnerStates
<1> QED
  BY <1>5, <1>6, <1>7, <1>8, <1>9 DEF FilesInv

LEMMA TemporaryKeepsInv ==
    ASSUME FilesInv, NEW o \in Owners,
           RemoveTemporary(o) \/ WriteTemporary(o) \/ SyncTemporary(o)
    PROVE  FilesInv'
<1>1. /\ owner \in [Owners -> OwnerStates] /\ tmp \in [job : 0 .. MaxJobs, synced : BOOLEAN]
      /\ jobs \in 0 .. MaxJobs
  BY DEF FilesInv, FilesTypes, OwnerStates
<1>2. CASE RemoveTemporary(o)
  <2>1. tmp' \in [job : 0 .. MaxJobs, synced : BOOLEAN]
    BY <1>2, FilesAssumption DEF RemoveTemporary, NoTemporary
  <2> QED
    BY <1>2, <2>1, QuietStepKeepsInv DEF RemoveTemporary, Working, historyVars
<1>3. CASE WriteTemporary(o)
  <2>1. owner[o].job = jobs
    BY <1>3 DEF WriteTemporary, FilesInv, JobKnown, Working
  <2>2. tmp' \in [job : 0 .. MaxJobs, synced : BOOLEAN] /\ tmp'.job = jobs
    BY <1>1, <1>3, <2>1 DEF WriteTemporary
  <2> QED
    BY <1>3, <2>2, QuietStepKeepsInv DEF WriteTemporary, Working, historyVars
<1>4. CASE SyncTemporary(o)
  <2>1. tmp.job = jobs
    BY <1>4 DEF SyncTemporary, FilesInv, JobKnown
  <2>2. tmp' \in [job : 0 .. MaxJobs, synced : BOOLEAN] /\ tmp'.job = jobs /\ tmp'.synced
    BY <1>1, <1>4, <2>1 DEF SyncTemporary
  <2> QED
    BY <1>4, <2>2, QuietStepKeepsInv DEF SyncTemporary, Working, historyVars
<1> QED
  BY <1>2, <1>3, <1>4

\* The file at hand becomes the newest.
LEMMA ReplaceKeepsInv ==
    ASSUME FilesInv, NEW o \in Owners, RenameTemporary(o) \/ Unlink(o)
    PROVE  FilesInv'
<1> DEFINE file == Head(owner[o].rest)
           x == [owner[o] EXCEPT !.step = "publish"]
<1>1. owner[o] \in OwnerStates /\ owner[o].job = jobs /\ Working(o)
  BY DEF FilesInv, FilesTypes, OwnerStates, JobKnown, RenameTemporary, Unlink, Working
<1>2. /\ owner' = [owner EXCEPT ![o] = x]
      /\ live' = [live EXCEPT ![file] = jobs]
      /\ torn' = {} /\ tmp' \in {tmp, NoTemporary}
      /\ UNCHANGED <<lock, disk, legacy, jobs, fields, acked, failures>>
  <2>1. owner' = [owner EXCEPT ![o] = x]
    BY Zenon DEF Step, RenameTemporary, Unlink
  <2>2. CASE RenameTemporary(o)
    <3>1. tmp.job = jobs /\ tmp.synced /\ torn = {}
      BY <2>2 DEF RenameTemporary, FilesInv, JobKnown
    <3> QED
      BY <2>1, <2>2, <3>1 DEF RenameTemporary, historyVars
  <2>3. CASE Unlink(o)
    BY <1>1, <2>1, <2>3 DEF Unlink, historyVars, FilesInv
  <2> QED
    BY <2>2, <2>3
<1>3. /\ x \in OwnerStates /\ x.step = "publish"
      /\ x.rest = owner[o].rest /\ x.job = owner[o].job
  BY <1>1 DEF OwnerStates, Steps
<1> HIDE DEF x
<1>4. /\ owner' \in [Owners -> OwnerStates] /\ owner'[o] = x
      /\ \A p \in Owners : p # o => owner'[p].step = "out"
  BY <1>1, <1>2, <1>3, OneMoved DEF Working
<1>5. LockHeld' /\ lock' \in Owners \union {Nobody}
  BY <1>1, <1>2, <1>3, <1>4, LockFollows DEF Working
<1>6. JobKnown'
  BY <1>1, <1>2, <1>3, <1>4 DEF JobKnown, Working
<1>7. /\ jobs \in Nat /\ live \in [AllFiles -> 0 .. jobs]
      /\ acked.config \in 0 .. jobs /\ Prefix(live) /\ Survives(live)
  BY FilesAssumption DEF FilesInv, FilesTypes, Reliable
<1>8. /\ live' \in [AllFiles -> 0 .. jobs] /\ Reliable(live') /\ JobProgress'
  <2>1. CASE StateAt(o)
    <3>1. file = StateFile
      BY <2>1 DEF StateAt
    <3>2. /\ live' \in [AllFiles -> 0 .. jobs] /\ live'[StateFile] = jobs
          /\ \A f \in ConfigFiles : live'[f] = live[f]
      BY <1>2, <1>7, <3>1, ConfigurationFacts
    <3>3. Prefix(live')
      BY <1>7, <3>2, ConfigurationFacts DEF Prefix
    <3>4. Survives(live')
      BY <1>7, <2>1, <3>2 DEF Survives, StateAt
    <3>5. StateAt(o)'
      BY <1>2, <1>3, <1>4, <2>1, <3>2 DEF StateAt
    <3> QED
      BY <1>4, <3>2, <3>3, <3>4, <3>5 DEF JobProgress, Working, Reliable
  <2>2. CASE \E k \in 1 .. Size : ConfigAt(o, k)
    <3>1. PICK k \in 1 .. Size : ConfigAt(o, k)
      BY <2>2
    <3>2. file = Configuration[k]
      BY <3>1, SuffixFacts DEF ConfigAt, Size
    <3>3. /\ file \in ConfigFiles /\ file \in AllFiles /\ file # StateFile
          /\ StateFile \in AllFiles /\ Size \in Nat
          /\ \A i \in 1 .. k - 1 : Configuration[i] \in AllFiles /\ Configuration[i] # file
      BY <3>2, ConfigurationFacts
    <3> HIDE DEF file
    <3>4. /\ live' \in [AllFiles -> 0 .. jobs] /\ live'[file] = jobs
          /\ \A f \in AllFiles : f # file => live'[f] = live[f]
      BY <1>2, <1>7, <3>3
    <3>5. Prefix(live')
      BY <1>2, <1>7, <3>1, <3>2, ReplaceKeepsOrder DEF ConfigAt
    <3>6. Survives(live')
      <4>1. ASSUME NEW f \in ConfigFiles PROVE live'[f] >= acked.config
        <5>1. CASE f = file
          BY <1>7, <3>4, <5>1
        <5>2. CASE f # file
          <6>1. live'[f] = live[f]
            BY <3>4, <5>2, ConfigurationFacts
          <6> QED
            BY <1>7, <6>1 DEF Survives
        <5> QED
          BY <5>1, <5>2
      <4>2. live'[StateFile] = live[StateFile]
        BY <3>3, <3>4
      <4> QED
        BY <1>7, <4>1, <4>2 DEF Survives
    <3>7. ConfigAt(o, k)'
      BY <1>2, <1>3, <1>4, <3>1, <3>2, <3>3, <3>4 DEF ConfigAt
    <3> QED
      BY <1>4, <3>1, <3>4, <3>5, <3>6, <3>7 DEF JobProgress, Working, Reliable, Size
  <2> QED
    BY <1>1, <2>1, <2>2 DEF FilesInv, JobProgress, Size
<1>9. NoTemporary \in [job : 0 .. MaxJobs, synced : BOOLEAN]
  BY FilesAssumption DEF NoTemporary
<1>10. FilesTypes'
  BY <1>2, <1>4, <1>5, <1>8, <1>9 DEF FilesInv, FilesTypes, OwnerStates
<1>11. Reliable(live)' /\ Reliable(disk)'
  BY <1>2, <1>8 DEF FilesInv, Reliable, Prefix, Survives
<1> QED
  BY <1>2, <1>5, <1>6, <1>8, <1>10, <1>11 DEF FilesInv

\* The directory's sync makes what readers see durable; the last one acknowledges.
LEMMA SyncDirectoryKeepsInv ==
    ASSUME FilesInv, NEW o \in Owners, SyncDirectory(o)
    PROVE  FilesInv'
<1> DEFINE rest == owner[o].rest
<1>1. /\ owner[o].step = "publish" /\ disk' = live
      /\ UNCHANGED <<lock, live, tmp, torn, legacy, jobs, fields, failures>>
  BY DEF SyncDirectory
<1>2. /\ owner[o] \in OwnerStates /\ owner[o].job = jobs /\ Working(o)
      /\ jobs \in Nat /\ live \in [AllFiles -> 0 .. jobs]
      /\ acked \in [config : 0 .. jobs, state : [Owners -> 0 .. jobs]]
      /\ Prefix(live) /\ Survives(live)
  <2>1. owner[o] \in OwnerStates /\ Prefix(live) /\ Survives(live)
    BY DEF FilesInv, FilesTypes, OwnerStates, Reliable
  <2>2. owner[o].job = jobs /\ Working(o)
    BY <1>1 DEF FilesInv, JobKnown, Working
  <2>3. /\ jobs \in 0 .. MaxJobs /\ live \in [AllFiles -> 0 .. jobs]
        /\ acked \in [config : 0 .. jobs, state : [Owners -> 0 .. jobs]]
    BY Zenon DEF FilesInv, FilesTypes
  <2>4. jobs \in Nat
    BY <2>3
  <2> QED
    BY <2>1, <2>2, <2>3, <2>4, Zenon
<1>3. ASSUME owner' \in [Owners -> OwnerStates],
             \A p \in Owners : p # o => owner'[p].step = "out",
             owner'[o].step # "out", JobKnown', JobProgress', Survives(live)',
             acked' \in [config : 0 .. jobs, state : [Owners -> 0 .. jobs]]
      PROVE  FilesInv'
  <2>1. LockHeld' /\ lock' \in Owners \union {Nobody}
    BY <1>1, <1>3, LockFollows
  <2>2. Reliable(live)' /\ Reliable(disk)'
    BY <1>1, <1>2, <1>3 DEF Reliable, Prefix, Survives
  <2>3. FilesTypes'
    BY <1>1, <1>2, <1>3, <2>1 DEF FilesInv, FilesTypes, OwnerStates
  <2> QED
    BY <1>1, <1>3, <2>1, <2>2, <2>3 DEF FilesInv
<1>4. CASE Tail(rest) # <<>>
  <2> DEFINE x == [owner[o] EXCEPT !.rest = Tail(rest), !.step = FirstStep(Tail(rest))]
  <2>1. UNCHANGED acked /\ owner' = [owner EXCEPT ![o] = x]
    BY <1>4, Zenon DEF SyncDirectory
  <2>2. PICK k \in 1 .. Size : ConfigAt(o, k)
    <3>1. ~StateAt(o)
      BY <1>4, TailOfOne DEF StateAt
    <3> QED
      BY <1>2, <3>1 DEF FilesInv, JobProgress, Size
  <2>3. /\ Tail(rest) = SubSeq(Configuration, k + 1, Size) /\ k # Size
    BY <1>4, <2>2, SuffixFacts DEF ConfigAt, Size
  <2>4. Size \in Nat /\ k + 1 \in 1 .. Size
    BY <2>3, ConfigurationFacts
  <2>5. Tail(rest) \in Seq(AllFiles)
    BY <2>3, <2>4, SuffixFacts
  <2>6. /\ x \in OwnerStates /\ x.rest = Tail(rest) /\ x.job = jobs
        /\ x.step \in {"clean", "unlink"}
    BY <1>2, <2>5, FirstStepCases DEF OwnerStates, Steps
  <2> HIDE DEF x
  <2>7. /\ owner' \in [Owners -> OwnerStates] /\ owner'[o] = x
        /\ \A p \in Owners : p # o => owner'[p].step = "out"
    BY <1>1, <2>1, <2>6, OneMoved
  <2>8. JobKnown'
    BY <1>1, <2>6, <2>7 DEF JobKnown, Working
  <2>9. \A i \in 1 .. (k + 1) - 1 : live'[Configuration[i]] = jobs'
    <3>1. \A i \in 1 .. (k + 1) - 1 : i = k \/ i \in 1 .. k - 1
      BY <2>4
    <3> QED
      BY <1>1, <2>2, <3>1 DEF ConfigAt
  <2>10. ConfigAt(o, k + 1)'
    BY <2>3, <2>6, <2>7, <2>9 DEF ConfigAt, Size
  <2>11. JobProgress'
    BY <2>4, <2>7, <2>10 DEF JobProgress, Working, Size
  <2>12. Survives(live)'
    BY <1>1, <1>2, <2>1 DEF Survives
  <2> QED
    BY <1>2, <1>3, <2>1, <2>6, <2>7, <2>8, <2>11, <2>12
<1>5. CASE Tail(rest) = <<>>
  <2> DEFINE x == [Idle EXCEPT !.step = "ready"]
  <2>1. acked' = Acknowledge(o, Head(rest)) /\ owner' = [owner EXCEPT ![o] = x]
    BY <1>5 DEF SyncDirectory
  <2>2. /\ owner' \in [Owners -> OwnerStates] /\ owner'[o] = x
        /\ \A p \in Owners : p # o => owner'[p].step = "out"
    BY <1>1, <2>1, IdleIsState, OneMoved
  <2>3. x.step = "ready"
    BY IdleIsState
  <2> HIDE DEF x
  <2>4. JobKnown' /\ JobProgress'
    BY <2>2, <2>3 DEF JobKnown, JobProgress, Working
  <2>5. /\ acked' \in [config : 0 .. jobs, state : [Owners -> 0 .. jobs]]
        /\ Survives(live)'
    <3>1. CASE StateAt(o)
      <4> DEFINE state == [acked.state EXCEPT ![o] = jobs]
      <4>1. acked' = [acked EXCEPT !.state = state]
        <5>1. Head(rest) = StateFile
          BY <3>1 DEF StateAt
        <5> QED
          BY <1>2, <2>1, <5>1, Zenon DEF Acknowledge
      <4>2. /\ state \in [Owners -> 0 .. jobs] /\ state[o] = jobs
            /\ \A p \in Owners : p # o => state[p] = acked.state[p]
        BY <1>2
      <4> HIDE DEF state
      <4>3. /\ acked' \in [config : 0 .. jobs, state : [Owners -> 0 .. jobs]]
            /\ acked'.config = acked.config /\ acked'.state = state
        BY <1>2, <4>1, <4>2
      <4>4. ASSUME NEW p \in Owners PROVE fields[jobs][p] >= state[p]
        <5>1. CASE p = o
          BY <1>2, <3>1, <4>2, <5>1 DEF StateAt
        <5>2. CASE p # o
          BY <3>1, <4>2, <5>2 DEF StateAt
        <5> QED
          BY <5>1, <5>2
      <4>5. live[StateFile] = jobs
        BY <1>1, <3>1 DEF StateAt
      <4> QED
        BY <1>1, <1>2, <4>3, <4>4, <4>5 DEF Survives
    <3>2. CASE \E k \in 1 .. Size : ConfigAt(o, k)
      <4>1. PICK k \in 1 .. Size : ConfigAt(o, k)
        BY <3>2
      <4>2. Head(rest) = Configuration[k] /\ k = Size
        BY <1>5, <4>1, SuffixFacts DEF ConfigAt, Size
      <4>3. Head(rest) # StateFile
        BY <4>2, ConfigurationFacts
      <4>4. acked' = [acked EXCEPT !.config = jobs]
        BY <1>2, <2>1, <4>3 DEF Acknowledge
      <4>5. /\ acked' \in [config : 0 .. jobs, state : [Owners -> 0 .. jobs]]
            /\ acked'.config = jobs /\ acked'.state = acked.state
        BY <1>2, <4>4
      <4>6. \A i \in 1 .. Size : live[Configuration[i]] = jobs
        <5>1. \A i \in 1 .. Size : i = k \/ i \in 1 .. k - 1
          BY <4>2, ConfigurationFacts
        <5> QED
          BY <1>1, <4>1, <5>1 DEF ConfigAt
      <4>7. \A f \in ConfigFiles : live[f] = jobs
        BY <4>6, ConfigurationFacts
      <4>8. \A f \in ConfigFiles : live[f] >= acked'.config
        BY <1>2, <4>5, <4>7
      <4> QED
        BY <1>1, <1>2, <4>5, <4>8 DEF Survives
    <3> QED
      BY <1>2, <3>1, <3>2 DEF FilesInv, JobProgress, Size
  <2> QED
    BY <1>3, <2>2, <2>3, <2>4, <2>5
<1> QED
  BY <1>4, <1>5

-----------------------------------------------------------------------------
(* Theorems *)

LEMMA FilesInitEstablishesInv == FilesInit => FilesInv
<1> SUFFICES ASSUME FilesInit PROVE FilesInv
  OBVIOUS
<1>1. owner \in [Owners -> OwnerStates] /\ \A o \in Owners : owner[o].step = "out"
  BY IdleIsState DEF FilesInit
<1>2. LockHeld /\ JobKnown /\ JobProgress
  BY <1>1, FilesAssumption DEF FilesInit, LockHeld, JobKnown, JobProgress, Working
<1>3. FilesTypes
  BY <1>1, FilesAssumption DEF FilesInit, FilesTypes, OwnerStates, NoTemporary
<1>4. Prefix(live) /\ Prefix(disk)
  BY ConfigurationFacts DEF FilesInit, Prefix
<1>5. Survives(live) /\ Survives(disk)
  BY ConfigurationFacts, FilesAssumption DEF FilesInit, Survives
<1> QED
  BY <1>2, <1>3, <1>4, <1>5 DEF FilesInit, FilesInv, Reliable

LEMMA FilesNextKeepsInv == FilesInv /\ [FilesNext]_filesVars => FilesInv'
<1> SUFFICES ASSUME FilesInv, [FilesNext]_filesVars PROVE FilesInv'
  OBVIOUS
<1>1. CASE UNCHANGED filesVars
  <2>1. UNCHANGED <<owner, lock, live, disk, tmp, torn, legacy, jobs, fields, acked, failures>>
    BY <1>1 DEF filesVars, diskVars, historyVars
  <2>2. FilesTypes' /\ LockHeld' /\ JobKnown'
    BY <2>1 DEF FilesInv, FilesTypes, LockHeld, JobKnown, Working
  <2>3. JobProgress'
    BY <2>1, Zenon DEF FilesInv, JobProgress, StateAt, ConfigAt, Working
  <2>4. Reliable(live)' /\ Reliable(disk)'
    BY <2>1 DEF FilesInv, Reliable, Prefix, Survives
  <2> QED
    BY <2>1, <2>2, <2>3, <2>4 DEF FilesInv
<1>2. CASE FilesNext
  BY <1>2, PowerLossKeepsInv, EndsKeepInv, WriteFilesKeepsInv, UpdateStateKeepsInv,
     TemporaryKeepsInv, ReplaceKeepsInv, SyncDirectoryKeepsInv DEF FilesNext, OwnerStep
<1> QED
  BY <1>1, <1>2

LEMMA FilesInvHolds == FilesSpec => []FilesInv
  BY FilesInitEstablishesInv, FilesNextKeepsInv, PTL DEF FilesSpec

\* Whatever fails, crashes or loses power while files are replaced one by one, for any
\* configuration and any number of processes: every file is whole, a configuration is a
\* prefix of the newest job, and nothing that was acknowledged is lost or undone
\* (write_files, update_state, Directory::replace).
THEOREM FilesDurable == FilesSpec => []FilesAreDurable
<1>1. FilesInv => FilesAreDurable
  BY DEF FilesInv, FilesAreDurable, FilesAreWhole, AcknowledgedSurvives, Reliable, Prefix,
         Survives
<1> QED
  BY <1>1, FilesInvHolds, PTL

\* Never are two processes inside the room's files at once (RoomLock::try_acquire).
THEOREM OneInside ==
    FilesSpec => [](\A o, p \in Owners : owner[o].step # "out" /\ owner[p].step # "out" => o = p)
<1>1. FilesInv => \A o, p \in Owners : owner[o].step # "out" /\ owner[p].step # "out" => o = p
  BY DEF FilesInv, LockHeld
<1> QED
  BY <1>1, FilesInvHolds, PTL

-----------------------------------------------------------------------------
(* The tools of the host *)

Operations == Transitions \union Writes \union ModUpdates \union {"wait_ready", "none"}
Client == [operation : Operations, step : ClientSteps,
           seen : {"inactive", "failed", "running"}, base : Nat]
Unit == [active : {"inactive", "failed", "activating", "active", "deactivating"},
         job : {"none", "start", "stop", "restart"}]

HostTypes ==
    /\ unit \in Unit
    /\ agent \in {"off", "boot", "up"}
    /\ guard \in Clients \union {Agent, Free}
    /\ durable \in [closed : BOOLEAN, mods : {"idle", "pending", "failed"}]
    /\ client \in [Clients -> Client]
    /\ boots \in Nat /\ updates \in Nat

\* A container exists only in a service that is active or on its way down.
AgentHasUnit == agent # "off" => unit.active \in {"active", "deactivating"}

\* What a tool relies on while it waits, over the unit's state u, the Agent a, the
\* boots b, the state m of Mod maintenance and the updates n: after a restart was
\* submitted, the old container is on its way down or gone, and after an update was
\* queued, maintenance is idle only when an update finished.
RestartAwaited(r, u, a, b) ==
    r.operation = "restart" =>
        /\ r.step = "waiting" => r.base < b \/ a = "off" \/ u = "deactivating"
        /\ r.step \in {"poll", "detail"} => r.base < b \/ a = "off"

UpdateAwaited(r, m, n) ==
    r.operation \in ModUpdates /\ r.step \in {"reset", "submit", "waiting", "poll", "detail"}
        => (m = "idle" => r.base < n)

Bounded(r, b, n) ==
    /\ r.operation \in ModUpdates => r.base <= n
    /\ r.operation \notin ModUpdates => r.base <= b

Awaited(r, u, a, b, m, n) ==
    RestartAwaited(r, u, a, b) /\ UpdateAwaited(r, m, n) /\ Bounded(r, b, n)

\* The lock: the Agent has it while it is up, a tool between its two questions.
LockIsHeld ==
    /\ agent = "up" <=> guard = Agent
    /\ \A c \in Clients : client[c].step = "locked" <=> guard = c

HostInv ==
    /\ HostTypes /\ AgentHasUnit /\ LockIsHeld
    /\ \A c \in Clients : Awaited(client[c], unit.active, agent, boots, durable.mods, updates)
    /\ HostAnswersAreHonest

-----------------------------------------------------------------------------

\* What every step of the room, the service or another tool leaves to a waiting one.
Progress ==
    /\ boots' \in Nat /\ boots <= boots' /\ updates' \in Nat /\ updates <= updates'
    /\ agent = "off" => agent' = "off" \/ boots < boots'
    /\ unit.active = "deactivating" => unit'.active = "deactivating" \/ agent' = "off"
    /\ durable'.mods = "idle" => durable.mods = "idle" \/ updates < updates'

LEMMA AwaitedKept ==
    ASSUME HostTypes, Progress, NEW r \in Client,
           Awaited(r, unit.active, agent, boots, durable.mods, updates)
    PROVE  Awaited(r, unit'.active, agent', boots', durable'.mods, updates')
<1>1. r.base \in Nat /\ boots \in Nat /\ updates \in Nat
  BY DEF HostTypes, Client
<1>2. RestartAwaited(r, unit'.active, agent', boots')
  <2>1. r.base < boots => r.base < boots'
    BY <1>1 DEF Progress
  <2>2. r.operation = "restart" => (boots < boots' => r.base < boots')
    BY <1>1 DEF Progress, Awaited, Bounded, ModUpdates
  <2> QED
    BY <2>1, <2>2 DEF Progress, Awaited, RestartAwaited
<1>3. UpdateAwaited(r, durable'.mods, updates')
  <2>1. r.base < updates => r.base < updates'
    BY <1>1 DEF Progress
  <2>2. r.operation \in ModUpdates => (updates < updates' => r.base < updates')
    BY <1>1 DEF Progress, Awaited, Bounded
  <2> QED
    BY <2>1, <2>2 DEF Progress, Awaited, UpdateAwaited
<1>4. Bounded(r, boots', updates')
  BY <1>1 DEF Progress, Awaited, Bounded
<1> QED
  BY <1>2, <1>3, <1>4 DEF Awaited

\* Steps that leave the tools where they are.
LEMMA RoomStepKeeps ==
    ASSUME HostInv, Progress, UNCHANGED <<client, answers>>, AgentHasUnit',
           unit' \in Unit, agent' \in {"off", "boot", "up"},
           guard' \in Clients \union {Agent, Free},
           durable' \in [closed : BOOLEAN, mods : {"idle", "pending", "failed"}],
           LockIsHeld'
    PROVE  HostInv'
<1>1. HostTypes'
  BY DEF HostInv, HostTypes, Progress
<1>2. ASSUME NEW c \in Clients
      PROVE  Awaited(client'[c], unit'.active, agent', boots', durable'.mods, updates')
  <2>1. client[c] \in Client
    BY DEF HostInv, HostTypes
  <2>2. Awaited(client[c], unit.active, agent, boots, durable.mods, updates) /\ HostTypes
    BY DEF HostInv
  <2>3. Awaited(client[c], unit'.active, agent', boots', durable'.mods, updates')
    BY <2>1, <2>2, AwaitedKept
  <2> QED
    BY <2>3
<1>3. HostAnswersAreHonest'
  BY DEF HostInv, HostAnswersAreHonest
<1> QED
  BY <1>1, <1>2, <1>3 DEF HostInv

\* Steps of one tool.
LEMMA ToolStepKeeps ==
    ASSUME HostInv, Progress, NEW c \in Clients, NEW new \in Client,
           client' = [client EXCEPT ![c] = new], UNCHANGED agent, AgentHasUnit',
           unit' \in Unit,
           durable' \in [closed : BOOLEAN, mods : {"idle", "pending", "failed"}],
           guard' = guard \/ (guard' = Free /\ guard = c) \/ (guard' = c /\ guard = Free),
           guard' = c <=> new.step = "locked",
           Awaited(new, unit'.active, agent', boots', durable'.mods, updates'),
           HostAnswersAreHonest'
    PROVE  HostInv'
<1>1. client \in [Clients -> Client] /\ guard \in Clients \union {Agent, Free}
  BY DEF HostInv, HostTypes
<1>2. client' \in [Clients -> Client] /\ guard' \in Clients \union {Agent, Free}
  BY <1>1
<1>3. HostTypes'
  BY <1>2 DEF HostInv, HostTypes, Progress
<1>4. LockIsHeld'
  BY <1>1, HostAssumption DEF HostInv, LockIsHeld
<1>5. ASSUME NEW d \in Clients
      PROVE  Awaited(client'[d], unit'.active, agent', boots', durable'.mods, updates')
  <2>1. client[d] \in Client /\ HostTypes
        /\ Awaited(client[d], unit.active, agent, boots, durable.mods, updates)
    BY DEF HostInv, HostTypes
  <2>2. Awaited(client[d], unit'.active, agent', boots', durable'.mods, updates')
    BY <2>1, AwaitedKept
  <2>3. client'[d] = IF d = c THEN new ELSE client[d]
    BY <1>1
  <2> QED
    BY <2>2, <2>3
<1> QED
  BY <1>3, <1>4, <1>5 DEF HostInv

-----------------------------------------------------------------------------
(* The service and the Agent *)

LEMMA UnitKeeps ==
    ASSUME HostInv, UnitStarts \/ UnitFails \/ UnitStopped \/ ScheduleTurns
    PROVE  HostInv'
<1>1. /\ unit \in Unit /\ agent \in {"off", "boot", "up"} /\ boots \in Nat
      /\ updates \in Nat /\ guard \in Clients \union {Agent, Free}
      /\ durable \in [closed : BOOLEAN, mods : {"idle", "pending", "failed"}]
  BY DEF HostInv, HostTypes
<1>2. /\ AgentHasUnit /\ LockIsHeld
  BY DEF HostInv
<1>3. CASE UnitStarts
  <2>1. /\ unit.active = "activating" /\ agent = "off"
        /\ unit' = [active |-> "active", job |-> "none"] /\ agent' = "boot"
        /\ boots' = boots + 1 /\ UNCHANGED <<guard, durable, client, updates, answers>>
    BY <1>3 DEF UnitStarts
  <2>2. unit' \in Unit /\ unit'.active = "active"
    BY <2>1 DEF Unit
  <2>3. Progress
    BY <1>1, <2>1 DEF Progress
  <2>4. LockIsHeld' /\ AgentHasUnit'
    BY <1>2, <2>1, <2>2 DEF LockIsHeld, AgentHasUnit
  <2> QED
    BY <1>1, <2>1, <2>2, <2>3, <2>4, RoomStepKeeps
<1>4. CASE UnitFails \/ UnitStopped
  <2>1. agent = "off" /\ UNCHANGED <<agent, guard, durable, client, boots, updates, answers>>
    BY <1>4 DEF UnitFails, UnitStopped, roomVars
  <2>2. unit' \in Unit
    BY <1>4 DEF UnitFails, UnitStopped, Unit
  <2>3. Progress
    BY <1>1, <2>1 DEF Progress
  <2>4. LockIsHeld' /\ AgentHasUnit'
    BY <1>2, <2>1 DEF LockIsHeld, AgentHasUnit
  <2> QED
    BY <1>1, <2>1, <2>2, <2>3, <2>4, RoomStepKeeps
<1>5. CASE ScheduleTurns
  <2>1. UNCHANGED <<unit, agent, guard, durable, client, boots, updates, answers>>
    BY <1>5 DEF ScheduleTurns
  <2>2. Progress
    BY <1>1, <2>1 DEF Progress
  <2>3. LockIsHeld' /\ AgentHasUnit'
    BY <1>2, <2>1 DEF LockIsHeld, AgentHasUnit
  <2> QED
    BY <1>1, <2>1, <2>2, <2>3, RoomStepKeeps
<1> QED
  BY <1>3, <1>4, <1>5

\* An exit gives the lock back and never moves a service that is on its way down.
LEMMA LeavingKeeps ==
    ASSUME HostInv, NEW clean \in BOOLEAN, AgentLeaves(clean),
           UNCHANGED <<durable, client, boots, updates, answers>>
    PROVE  HostInv'
<1>1. /\ unit \in Unit /\ boots \in Nat /\ updates \in Nat
      /\ guard \in Clients \union {Agent, Free}
      /\ durable \in [closed : BOOLEAN, mods : {"idle", "pending", "failed"}]
  BY DEF HostInv, HostTypes
<1>2. agent' = "off" /\ guard' = IF guard = Agent THEN Free ELSE guard
  BY DEF AgentLeaves
<1>3. unit' \in Unit /\ (unit.active = "deactivating" => unit' = unit)
  BY <1>1 DEF AgentLeaves, AfterExit, Unit
<1>4. Progress
  BY <1>1, <1>2, <1>3 DEF Progress
<1>5. AgentHasUnit'
  BY <1>2 DEF AgentHasUnit
<1>6. LockIsHeld'
  BY <1>1, <1>2, HostAssumption DEF HostInv, LockIsHeld
<1>7. guard' \in Clients \union {Agent, Free}
  BY <1>1, <1>2
<1> QED
  BY <1>1, <1>2, <1>3, <1>4, <1>5, <1>6, <1>7, RoomStepKeeps

LEMMA AgentKeeps ==
    ASSUME HostInv, AgentStep
    PROVE  HostInv'
<1>1. /\ unit \in Unit /\ agent \in {"off", "boot", "up"} /\ boots \in Nat
      /\ updates \in Nat /\ guard \in Clients \union {Agent, Free}
      /\ durable \in [closed : BOOLEAN, mods : {"idle", "pending", "failed"}]
  BY DEF HostInv, HostTypes
<1>2. /\ AgentHasUnit /\ LockIsHeld
  BY DEF HostInv
<1>3. CASE AgentBoots /\ guard = Free
  <2>1. /\ agent = "boot" /\ agent' = "up" /\ guard' = Agent
        /\ UNCHANGED <<unit, durable, client, boots, updates, answers>>
    BY <1>3 DEF AgentBoots
  <2>2. Progress
    BY <1>1, <2>1 DEF Progress
  <2>3. LockIsHeld' /\ AgentHasUnit'
    BY <1>2, <1>3, <2>1, HostAssumption DEF LockIsHeld, AgentHasUnit
  <2> QED
    BY <1>1, <2>1, <2>2, <2>3, RoomStepKeeps
<1>4. CASE (AgentBoots /\ guard # Free) \/ AgentTurnedAway \/ \E clean \in BOOLEAN : AgentEnds(clean)
  <2>1. UNCHANGED <<durable, client, boots, updates, answers>>
    BY <1>4 DEF AgentBoots, AgentTurnedAway, AgentEnds
  <2>2. \E clean \in BOOLEAN : AgentLeaves(clean)
    BY <1>4 DEF AgentBoots, AgentTurnedAway, AgentEnds
  <2> QED
    BY <2>1, <2>2, LeavingKeeps
<1>5. CASE AgentMaintains
  <2>1. /\ durable.mods = "pending" /\ UNCHANGED <<unit, agent, guard, client, boots, answers>>
        /\ \/ durable' = [durable EXCEPT !.mods = "idle"] /\ updates' = updates + 1
           \/ durable' = [durable EXCEPT !.mods = "failed"] /\ updates' = updates
    BY <1>5 DEF AgentMaintains
  <2>2. durable' \in [closed : BOOLEAN, mods : {"idle", "pending", "failed"}]
    BY <1>1, <2>1
  <2>3. durable'.mods = "idle" => updates' = updates + 1
    BY <1>1, <2>1
  <2>4. updates' \in Nat /\ updates <= updates'
    BY <1>1, <2>1
  <2>5. Progress
    BY <1>1, <2>1, <2>3, <2>4 DEF Progress
  <2>6. LockIsHeld' /\ AgentHasUnit'
    BY <1>2, <2>1 DEF LockIsHeld, AgentHasUnit
  <2> QED
    BY <1>1, <2>1, <2>2, <2>5, <2>6, RoomStepKeeps
<1>6. CASE GamesReady \/ GamesStop \/ RecoveryCloses
  <2>1. UNCHANGED <<unit, agent, guard, client, boots, updates, answers>>
    BY <1>6 DEF GamesReady, GamesStop, RecoveryCloses
  <2>2. /\ durable' \in [closed : BOOLEAN, mods : {"idle", "pending", "failed"}]
        /\ durable'.mods = durable.mods
    BY <1>1, <1>6 DEF GamesReady, GamesStop, RecoveryCloses
  <2>3. Progress
    BY <1>1, <2>1, <2>2 DEF Progress
  <2>4. LockIsHeld' /\ AgentHasUnit'
    BY <1>2, <2>1 DEF LockIsHeld, AgentHasUnit
  <2> QED
    BY <1>1, <2>1, <2>2, <2>3, <2>4, RoomStepKeeps
<1> QED
  BY <1>3, <1>4, <1>5, <1>6 DEF AgentStep

-----------------------------------------------------------------------------
(* The tools *)

\* A job never moves a container out of a service that is active or going down, and
\* a restart sends an active one down.
LEMMA SubmittedUnit ==
    ASSUME NEW u \in Unit, NEW job \in Transitions
    PROVE  /\ Submitted(u, job) \in Unit
           /\ u.active \in {"active", "deactivating"} =>
                  Submitted(u, job).active \in {"active", "deactivating"}
           /\ u.active = "deactivating" => Submitted(u, job).active = "deactivating"
           /\ job = "restart" /\ u.active = "active" =>
                  Submitted(u, job).active = "deactivating"
<1> DEFINE w == Submitted(u, job)
<1>1. CASE job = "stop"
  <2>1. w \in {[u EXCEPT !.job = "none"], [active |-> "deactivating", job |-> "stop"]}
    BY <1>1 DEF Submitted
  <2>2. u.active \in {"active", "deactivating"} => w = [active |-> "deactivating", job |-> "stop"]
    BY <1>1 DEF Submitted
  <2> QED
    BY <1>1, <2>1, <2>2 DEF Unit
<1>2. CASE job = "start"
  <2>1. w \in {u, [u EXCEPT !.job = IF @ = "restart" THEN @ ELSE "start"],
               [active |-> "activating", job |-> "start"]}
    BY <1>2 DEF Submitted
  <2>2. /\ u.active = "active" => w = u
        /\ u.active = "deactivating" => w = [u EXCEPT !.job = IF @ = "restart" THEN @ ELSE "start"]
    BY <1>2 DEF Submitted
  <2> QED
    BY <1>2, <2>1, <2>2 DEF Unit
<1>3. CASE job = "restart"
  <2>1. w \in {[active |-> "deactivating", job |-> "restart"],
               [active |-> "activating", job |-> "start"]}
    BY <1>3 DEF Submitted
  <2>2. u.active \in {"active", "deactivating"} =>
            w = [active |-> "deactivating", job |-> "restart"]
    BY <1>3 DEF Submitted
  <2> QED
    BY <1>3, <2>1, <2>2 DEF Unit
<1> QED
  BY <1>1, <1>2, <1>3 DEF Transitions

\* Steps of a tool that change nothing but its own record and the lock.
LEMMA QuietToolStep ==
    ASSUME HostInv, NEW c \in Clients, NEW new \in Client,
           client' = [client EXCEPT ![c] = new],
           UNCHANGED <<unit, agent, durable, boots, updates>>, HostAnswersAreHonest',
           guard' = guard \/ (guard' = Free /\ guard = c) \/ (guard' = c /\ guard = Free),
           guard' = c <=> new.step = "locked",
           Awaited(new, unit.active, agent, boots, durable.mods, updates)
    PROVE  HostInv'
<1>1. HostTypes /\ AgentHasUnit
  BY DEF HostInv
<1>2. Progress
  BY <1>1 DEF HostTypes, Progress
<1>3. /\ AgentHasUnit' /\ unit' \in Unit
      /\ durable' \in [closed : BOOLEAN, mods : {"idle", "pending", "failed"}]
  BY <1>1 DEF AgentHasUnit, HostTypes
<1>4. Awaited(new, unit'.active, agent', boots', durable'.mods, updates')
  OBVIOUS
<1> QED
  BY <1>2, <1>3, <1>4, ToolStepKeeps

\* An idle tool, and one that has only asked or holds the lock, relies on nothing.
LEMMA EarlyIsAwaited ==
    ASSUME NEW r \in Client, NEW u, NEW a, NEW b \in Nat, NEW m, NEW n \in Nat, r.base = 0,
           r.step \in {"idle", "asked", "locked", "call"}
               \/ (r.step \in {"submit", "reset"} /\ r.operation \notin ModUpdates)
               \/ r.operation = "wait_ready"
    PROVE  Awaited(r, u, a, b, m, n)
<1>1. RestartAwaited(r, u, a, b) /\ UpdateAwaited(r, m, n)
  BY DEF RestartAwaited, UpdateAwaited, ModUpdates
<1>2. Bounded(r, b, n)
  BY DEF Bounded
<1> QED
  BY <1>1, <1>2 DEF Awaited

LEMMA IdleIsAwaited ==
    ASSUME NEW u, NEW a, NEW b \in Nat, NEW m, NEW n \in Nat
    PROVE  IdleClient \in Client /\ IdleClient.step = "idle" /\ Awaited(IdleClient, u, a, b, m, n)
<1>1. IdleClient \in Client /\ IdleClient.step = "idle" /\ IdleClient.base = 0
  BY DEF IdleClient, Client, Operations, ClientSteps
<1> QED
  BY <1>1, EarlyIsAwaited

\* Moving on to a step of the same kind keeps what a tool relies on.
LEMMA MovedIsAwaited ==
    ASSUME NEW r \in Client, NEW new \in Client, NEW u, NEW a, NEW b, NEW m, NEW n,
           Awaited(r, u, a, b, m, n), new.operation = r.operation, new.base = r.base,
           \/ new.step = r.step
           \/ new.step \in {"idle", "asked", "locked", "call"}
           \/ new.step \in {"poll", "detail"} /\ r.step \in {"poll", "detail"}
           \/ new.step = "submit" /\ r.step = "reset"
    PROVE  Awaited(new, u, a, b, m, n)
<1>1. RestartAwaited(new, u, a, b) /\ UpdateAwaited(new, m, n)
  BY DEF RestartAwaited, UpdateAwaited, Awaited
<1>2. Bounded(new, b, n)
  BY DEF Bounded, Awaited
<1> QED
  BY <1>1, <1>2 DEF Awaited

LEMMA ToolFacts ==
    ASSUME HostInv, NEW c \in Clients
    PROVE  /\ client[c] \in Client
           /\ Awaited(client[c], unit.active, agent, boots, durable.mods, updates)
           /\ client[c].step = "locked" <=> guard = c
           /\ boots \in Nat /\ updates \in Nat /\ unit \in Unit
           /\ durable \in [closed : BOOLEAN, mods : {"idle", "pending", "failed"}]
           /\ guard \in Clients \union {Agent, Free}
           /\ AgentHasUnit /\ agent \in {"off", "boot", "up"}
BY DEF HostInv, HostTypes, LockIsHeld

LEMMA AskingKeeps ==
    ASSUME HostInv, NEW c \in Clients,
           \/ \E operation \in Transitions \union Writes \union ModUpdates \union {"wait_ready"} :
                  Begin(c, operation)
           \/ TakeLock(c) \/ Abandon(c) \/ PollUnit(c)
    PROVE  HostInv'
<1> DEFINE r == client[c]
<1>1. /\ r \in Client /\ r.operation \in Operations /\ r.base \in Nat
      /\ Awaited(r, unit.active, agent, boots, durable.mods, updates)
      /\ r.step = "locked" <=> guard = c
      /\ boots \in Nat /\ updates \in Nat
      /\ guard \in Clients \union {Agent, Free}
      /\ unit \in Unit /\ unit.active \in {"inactive", "failed", "activating", "active", "deactivating"}
  BY ToolFacts DEF Client, Unit
<1>2. /\ UNCHANGED <<unit, agent, durable, boots, updates, answers>>
  BY DEF Begin, TakeLock, Abandon, PollUnit, roomVars
<1>3. HostAnswersAreHonest'
  BY <1>2 DEF HostInv, HostAnswersAreHonest
<1>4. ASSUME NEW operation \in Transitions \union Writes \union ModUpdates \union {"wait_ready"},
             Begin(c, operation)
      PROVE  HostInv'
  <2> DEFINE seen == IF unit.active = "failed" THEN "failed" ELSE "inactive"
             step == CASE operation = "stop" -> "submit"
                       [] operation = "wait_ready" -> "poll"
                       [] operation \in {"start", "restart"} /\ Running(unit) -> "submit"
                       [] operation \in Writes \union ModUpdates /\ Running(unit) -> "call"
                       [] OTHER -> "asked"
             new == [operation |-> operation, base |-> 0, seen |-> seen, step |-> step]
  <2>1. client' = [client EXCEPT ![c] = new] /\ r.step = "idle" /\ guard' = guard
    BY <1>4, Zenon DEF Begin
  <2>2. /\ step \in {"submit", "poll", "call", "asked"} /\ seen \in {"inactive", "failed"}
        /\ step = "poll" => operation = "wait_ready"
        /\ step = "submit" => operation \notin ModUpdates
    BY DEF Transitions, ModUpdates
  <2> HIDE DEF seen, step
  <2>3. /\ new \in Client /\ new.base = 0 /\ new.step = step /\ new.operation = operation
    BY <2>2 DEF Client, Operations, ClientSteps
  <2> HIDE DEF new
  <2>4. Awaited(new, unit.active, agent, boots, durable.mods, updates)
    BY <1>1, <2>2, <2>3, EarlyIsAwaited
  <2>5. guard' = c <=> new.step = "locked"
    BY <1>1, <2>1, <2>2, <2>3
  <2> QED
    BY <1>2, <1>3, <2>1, <2>3, <2>4, <2>5, QuietToolStep
<1>5. CASE TakeLock(c)
  <2> DEFINE new == [r EXCEPT !.step = "locked"]
  <2>1. client' = [client EXCEPT ![c] = new] /\ guard = Free /\ guard' = c
    BY <1>5 DEF TakeLock, Goto
  <2>2. new \in Client /\ new.operation = r.operation /\ new.base = r.base /\ new.step = "locked"
    BY <1>1 DEF Client, ClientSteps
  <2> HIDE DEF new
  <2>3. Awaited(new, unit.active, agent, boots, durable.mods, updates)
    BY <1>1, <2>2, MovedIsAwaited
  <2> QED
    BY <1>2, <1>3, <2>1, <2>2, <2>3, QuietToolStep
<1>6. CASE Abandon(c)
  <2>1. client' = [client EXCEPT ![c] = IdleClient] /\ guard' = IF guard = c THEN Free ELSE guard
    BY <1>6 DEF Abandon
  <2>2. /\ IdleClient \in Client /\ IdleClient.step = "idle"
        /\ Awaited(IdleClient, unit.active, agent, boots, durable.mods, updates)
    BY <1>1, IdleIsAwaited
  <2>3. guard' # c
    BY <2>1, HostAssumption
  <2> QED
    BY <1>2, <1>3, <2>1, <2>2, <2>3, QuietToolStep
<1>7. CASE PollUnit(c)
  <2> DEFINE seen == IF Running(unit) THEN "running" ELSE unit.active
             new == [r EXCEPT !.step = "detail", !.seen = seen]
  <2>1. client' = [client EXCEPT ![c] = new] /\ r.step = "poll" /\ guard' = guard
    BY <1>7, <1>2 DEF PollUnit
  <2>2. seen \in {"inactive", "failed", "running"}
    BY <1>1 DEF Running
  <2> HIDE DEF seen
  <2>3. new \in Client /\ new.operation = r.operation /\ new.base = r.base /\ new.step = "detail"
    BY <1>1, <2>2 DEF Client, ClientSteps
  <2> HIDE DEF new
  <2>4. Awaited(new, unit.active, agent, boots, durable.mods, updates)
    BY <1>1, <2>1, <2>3, MovedIsAwaited
  <2> QED
    BY <1>1, <1>2, <1>3, <2>1, <2>3, <2>4, QuietToolStep
<1> QED
  BY <1>4, <1>5, <1>6, <1>7

LEMMA OfflineKeeps ==
    ASSUME HostInv, NEW c \in Clients, Offline(c)
    PROVE  HostInv'
<1> DEFINE r == client[c]
           Saved == [closed : BOOLEAN, mods : {"idle", "pending", "failed"}]
<1>1. /\ r \in Client /\ r.operation \in Operations /\ r.base \in Nat
      /\ Awaited(r, unit.active, agent, boots, durable.mods, updates)
      /\ boots \in Nat /\ updates \in Nat /\ durable \in Saved /\ unit \in Unit /\ AgentHasUnit
      /\ guard = c /\ r.step = "locked"
  BY ToolFacts DEF Client, Offline
<1>2. guard' = Free /\ Free # c /\ UNCHANGED <<unit, agent, boots, updates, answers>>
  BY HostAssumption DEF Offline
<1>3. HostAnswersAreHonest' /\ AgentHasUnit' /\ unit' \in Unit
  BY <1>1, <1>2 DEF HostInv, HostAnswersAreHonest, AgentHasUnit
<1>4. AfterLock(c) \in {"reset", "submit"}
  BY DEF AfterLock
<1>5. ASSUME durable' \in Saved,
             durable'.mods = durable.mods \/ durable'.mods = "pending",
             NEW new \in Client, client' = [client EXCEPT ![c] = new], new.step # "locked",
             Awaited(new, unit.active, agent, boots, durable'.mods, updates)
      PROVE  HostInv'
  <2>1. Progress
    BY <1>1, <1>2, <1>5 DEF Progress
  <2>2. Awaited(new, unit'.active, agent', boots', durable'.mods, updates')
    BY <1>2, <1>5
  <2> QED
    BY <1>1, <1>2, <1>3, <1>5, <2>1, <2>2, ToolStepKeeps
<1>6. CASE /\ r.operation \in {"start", "restart"}
           /\ durable' = [durable EXCEPT !.closed = @ /\ ~allDay]
           /\ client' = [client EXCEPT ![c].step = AfterLock(c), ![c].seen = "inactive"]
  <2> DEFINE new == [r EXCEPT !.step = AfterLock(c), !.seen = "inactive"]
  <2>1. client' = [client EXCEPT ![c] = new]
    BY <1>6
  <2>2. durable' \in Saved /\ durable'.mods = durable.mods
    BY <1>1, <1>6
  <2>3. /\ new \in Client /\ new.operation = r.operation /\ new.base = r.base
        /\ new.step \in {"reset", "submit"}
    BY <1>1, <1>4 DEF Client, ClientSteps
  <2> HIDE DEF new
  <2>4. Awaited(new, unit.active, agent, boots, durable.mods, updates)
    <3>1. r.operation \notin ModUpdates
      BY <1>6 DEF ModUpdates
    <3>2. Bounded(new, boots, updates)
      BY <1>1, <2>3 DEF Awaited, Bounded
    <3> QED
      BY <2>3, <3>1, <3>2 DEF Awaited, RestartAwaited, UpdateAwaited
  <2> QED
    BY <1>5, <2>1, <2>2, <2>3, <2>4
<1>7. CASE /\ r.operation \in ModUpdates
           /\ durable' = [durable EXCEPT !.mods = "pending"]
           /\ client' = [client EXCEPT ![c].step = AfterLock(c), ![c].seen = "inactive",
                                       ![c].base = updates]
  <2> DEFINE new == [r EXCEPT !.step = AfterLock(c), !.seen = "inactive", !.base = updates]
  <2>1. client' = [client EXCEPT ![c] = new]
    BY <1>7
  <2>2. durable' \in Saved /\ durable'.mods = "pending"
    BY <1>1, <1>7
  <2>3. /\ new \in Client /\ new.operation = r.operation /\ new.base = updates
        /\ new.step \in {"reset", "submit"}
    BY <1>1, <1>4 DEF Client, ClientSteps
  <2> HIDE DEF new
  <2>4. Awaited(new, unit.active, agent, boots, "pending", updates)
    BY <1>1, <1>7, <2>3 DEF Awaited, RestartAwaited, UpdateAwaited, Bounded, ModUpdates
  <2> QED
    BY <1>5, <2>1, <2>2, <2>3, <2>4
<1>8. CASE UNCHANGED durable /\ client' = [client EXCEPT ![c] = IdleClient]
  <2>1. /\ IdleClient \in Client /\ IdleClient.step = "idle"
        /\ Awaited(IdleClient, unit.active, agent, boots, durable.mods, updates)
    BY <1>1, IdleIsAwaited
  <2> QED
    BY <1>1, <1>5, <1>8, <2>1
<1> QED
  BY <1>6, <1>7, <1>8 DEF Offline

LEMMA CallAgentKeeps ==
    ASSUME HostInv, NEW c \in Clients, CallAgent(c)
    PROVE  HostInv'
<1> DEFINE r == client[c]
           Saved == [closed : BOOLEAN, mods : {"idle", "pending", "failed"}]
<1>1. /\ r \in Client /\ r.operation \in Operations /\ r.base \in Nat
      /\ boots \in Nat /\ updates \in Nat /\ durable \in Saved /\ unit \in Unit /\ AgentHasUnit
      /\ guard # c
  BY ToolFacts DEF Client, CallAgent
<1>2. UNCHANGED <<guard, unit, agent, boots, updates, answers>>
  BY DEF CallAgent
<1>3. HostAnswersAreHonest' /\ AgentHasUnit' /\ unit' \in Unit
  BY <1>1, <1>2 DEF HostInv, HostAnswersAreHonest, AgentHasUnit
<1>4. CASE /\ r.operation \in ModUpdates
           /\ durable' = [durable EXCEPT !.mods = "pending"]
           /\ client' = [client EXCEPT ![c].step = "poll", ![c].base = updates]
  <2> DEFINE new == [r EXCEPT !.step = "poll", !.base = updates]
  <2>1. client' = [client EXCEPT ![c] = new]
    BY <1>4
  <2>2. durable' \in Saved /\ durable'.mods = "pending"
    BY <1>1, <1>4
  <2>3. /\ new \in Client /\ new.operation = r.operation /\ new.base = updates
        /\ new.step = "poll"
    BY <1>1 DEF Client, ClientSteps
  <2> HIDE DEF new
  <2>4. Awaited(new, unit'.active, agent', boots', durable'.mods, updates')
    BY <1>1, <1>2, <1>4, <2>2, <2>3 DEF Awaited, RestartAwaited, UpdateAwaited, Bounded, ModUpdates
  <2>5. Progress
    BY <1>1, <1>2, <2>2 DEF Progress
  <2> QED
    BY <1>1, <1>2, <1>3, <2>1, <2>2, <2>3, <2>4, <2>5, ToolStepKeeps
<1>5. CASE UNCHANGED durable /\ client' = [client EXCEPT ![c] = IdleClient]
  <2>1. /\ IdleClient \in Client /\ IdleClient.step = "idle"
        /\ Awaited(IdleClient, unit.active, agent, boots, durable.mods, updates)
    BY <1>1, IdleIsAwaited
  <2> QED
    BY <1>1, <1>2, <1>3, <1>5, <2>1, QuietToolStep
<1> QED
  BY <1>4, <1>5 DEF CallAgent

LEMMA JobKeeps ==
    ASSUME HostInv, NEW c \in Clients, ResetFailed(c) \/ Submit(c)
    PROVE  HostInv'
<1> DEFINE r == client[c]
           Saved == [closed : BOOLEAN, mods : {"idle", "pending", "failed"}]
<1>1. /\ r \in Client /\ r.operation \in Operations /\ r.base \in Nat
      /\ Awaited(r, unit.active, agent, boots, durable.mods, updates)
      /\ boots \in Nat /\ updates \in Nat /\ durable \in Saved /\ unit \in Unit /\ AgentHasUnit
      /\ guard # c /\ agent \in {"off", "boot", "up"}
      /\ unit.active \in {"inactive", "failed", "activating", "active", "deactivating"}
  BY ToolFacts DEF Client, ResetFailed, Submit, Unit
<1>2. UNCHANGED <<guard, agent, boots, durable, updates, answers>>
  BY DEF ResetFailed, Submit, roomVars
<1>3. HostAnswersAreHonest'
  BY <1>2 DEF HostInv, HostAnswersAreHonest
<1>4. ASSUME unit' \in Unit,
             unit.active \in {"active", "deactivating"} => unit'.active \in {"active", "deactivating"},
             unit.active = "deactivating" => unit'.active = "deactivating",
             NEW new \in Client, client' = [client EXCEPT ![c] = new], new.step # "locked",
             Awaited(new, unit'.active, agent, boots, durable.mods, updates)
      PROVE  HostInv'
  <2>1. Progress
    BY <1>1, <1>2, <1>4 DEF Progress
  <2>2. AgentHasUnit'
    BY <1>1, <1>2, <1>4 DEF AgentHasUnit
  <2>3. Awaited(new, unit'.active, agent', boots', durable'.mods, updates')
    BY <1>2, <1>4
  <2>4. durable' \in Saved
    BY <1>1, <1>2
  <2> QED
    BY <1>1, <1>2, <1>3, <1>4, <2>1, <2>2, <2>3, <2>4, ToolStepKeeps
<1>5. CASE ResetFailed(c)
  <2> DEFINE new == [r EXCEPT !.step = "submit"]
  <2>1. client' = [client EXCEPT ![c] = new] /\ r.step = "reset"
    BY <1>5 DEF ResetFailed, Goto
  <2>2. unit' = IF unit.active = "failed" THEN [unit EXCEPT !.active = "inactive"] ELSE unit
    BY <1>5 DEF ResetFailed
  <2>3. /\ unit' \in Unit
        /\ unit.active \in {"active", "deactivating"} => unit' = unit
    BY <1>1, <2>2 DEF Unit
  <2>4. new \in Client /\ new.operation = r.operation /\ new.base = r.base /\ new.step = "submit"
    BY <1>1 DEF Client, ClientSteps
  <2> HIDE DEF new
  <2>5. Awaited(new, unit'.active, agent, boots, durable.mods, updates)
    BY <1>1, <2>1, <2>4 DEF Awaited, RestartAwaited, UpdateAwaited, Bounded
  <2> QED
    BY <1>4, <2>1, <2>3, <2>4, <2>5
<1>6. CASE Submit(c)
  <2>1. /\ r.step = "submit" /\ unit' = Submitted(unit, JobOf(r.operation))
        /\ JobOf(r.operation) \in Transitions
        /\ r.operation = "restart" => JobOf(r.operation) = "restart"
    BY <1>6 DEF Submit, JobOf, Transitions
  <2>2. /\ unit' \in Unit
        /\ unit.active \in {"active", "deactivating"} =>
               unit'.active \in {"active", "deactivating"}
        /\ unit.active = "deactivating" => unit'.active = "deactivating"
        /\ r.operation = "restart" /\ unit.active = "active" => unit'.active = "deactivating"
    BY <1>1, <2>1, SubmittedUnit
  <2>3. r.operation = "restart" => agent = "off" \/ unit'.active = "deactivating"
    BY <1>1, <2>2 DEF AgentHasUnit
  <2> DEFINE step == IF r.operation \in Transitions THEN "waiting" ELSE "poll"
             base == IF r.operation \in Transitions THEN boots ELSE r.base
             new == [r EXCEPT !.step = step, !.base = base]
  <2>4. CASE client' = [client EXCEPT ![c] = new]
    <3>1. step \in {"waiting", "poll"} /\ base \in Nat
          /\ (r.operation \in Transitions => base = boots /\ step = "waiting")
          /\ (r.operation \notin Transitions => base = r.base /\ step = "poll")
      BY <1>1
    <3> HIDE DEF step, base
    <3>2. /\ new \in Client /\ new.operation = r.operation /\ new.base = base /\ new.step = step
      BY <1>1, <3>1 DEF Client, ClientSteps
    <3> HIDE DEF new
    <3>3. RestartAwaited(new, unit'.active, agent, boots)
      BY <2>3, <3>1, <3>2 DEF RestartAwaited, Transitions
    <3>4. UpdateAwaited(new, durable.mods, updates) /\ Bounded(new, boots, updates)
      BY <1>1, <2>1, <3>1, <3>2 DEF Awaited, UpdateAwaited, Bounded, Transitions, ModUpdates
    <3> QED
      BY <1>4, <2>2, <2>4, <3>1, <3>2, <3>3, <3>4 DEF Awaited
  <2>5. CASE client' = [client EXCEPT ![c] = IdleClient]
    <3>1. /\ IdleClient \in Client /\ IdleClient.step = "idle"
          /\ Awaited(IdleClient, unit'.active, agent, boots, durable.mods, updates)
      BY <1>1, IdleIsAwaited
    <3> QED
      BY <1>4, <2>2, <2>5, <3>1
  <2>6. \/ client' = [client EXCEPT ![c] = new]
        \/ client' = [client EXCEPT ![c] = IdleClient]
    BY <1>6 DEF Submit
  <2> QED
    BY <2>4, <2>5, <2>6
<1> QED
  BY <1>5, <1>6

\* A verdict is given only for what the tool relies on.
LEMMA VerdictIsHonest ==
    ASSUME NEW c \in Clients, NEW verdict,
           Awaited(client[c], unit.active, agent, boots, durable.mods, updates),
           client[c].step = "detail",
           \/ verdict = StoppedVerdict(c)
           \/ verdict = RunningVerdict(c) /\ agent = "up"
    PROVE  /\ client[c].operation = "restart" /\ verdict = "ready" => client[c].base < boots
           /\ verdict = "updated" => client[c].base < updates
<1>1. verdict = "ready" => agent = "up"
  BY DEF StoppedVerdict
<1>2. verdict = "updated" => client[c].operation \in ModUpdates /\ durable.mods = "idle"
  BY DEF StoppedVerdict, RunningVerdict, ModUpdates
<1> QED
  BY <1>1, <1>2 DEF Awaited, RestartAwaited, UpdateAwaited

LEMMA WaitingKeeps ==
    ASSUME HostInv, NEW c \in Clients, WaitIdle(c) \/ PollDetail(c)
    PROVE  HostInv'
<1> DEFINE r == client[c]
<1>1. /\ r \in Client /\ r.operation \in Operations /\ r.base \in Nat
      /\ Awaited(r, unit.active, agent, boots, durable.mods, updates)
      /\ boots \in Nat /\ updates \in Nat /\ guard # c
  BY ToolFacts DEF Client, WaitIdle, PollDetail
<1>2. UNCHANGED <<unit, guard, agent, durable, boots, updates>>
  BY DEF WaitIdle, PollDetail, roomVars
<1>3. ASSUME NEW verdict, Answer(c, verdict),
             r.operation = "restart" /\ verdict = "ready" => r.base < boots,
             verdict = "updated" => r.base < updates
      PROVE  HostInv'
  <2>1. client' = [client EXCEPT ![c] = IdleClient]
    BY <1>3 DEF Answer
  <2> DEFINE a == [operation |-> r.operation, verdict |-> verdict, base |-> r.base,
                   boots |-> boots, updates |-> updates]
  <2>2. answers' = {a}
    BY <1>3 DEF Answer
  <2>3. /\ a.operation = r.operation /\ a.verdict = verdict /\ a.base = r.base
        /\ a.boots = boots /\ a.updates = updates
    OBVIOUS
  <2> HIDE DEF a
  <2>4. HostAnswersAreHonest'
    BY <1>1, <1>3, <2>2, <2>3 DEF HostAnswersAreHonest
  <2>5. /\ IdleClient \in Client /\ IdleClient.step = "idle"
        /\ Awaited(IdleClient, unit.active, agent, boots, durable.mods, updates)
    BY <1>1, IdleIsAwaited
  <2> QED
    BY <1>1, <1>2, <2>1, <2>4, <2>5, QuietToolStep
<1>4. ASSUME UNCHANGED answers PROVE HostAnswersAreHonest'
  BY <1>4 DEF HostInv, HostAnswersAreHonest
<1>5. CASE WaitIdle(c) /\ r.operation = "stop"
  BY <1>3, <1>5 DEF WaitIdle
<1>6. CASE WaitIdle(c) /\ r.operation # "stop"
  <2> DEFINE new == [r EXCEPT !.step = "poll"]
  <2>1. /\ client' = [client EXCEPT ![c] = new] /\ UNCHANGED answers
        /\ r.step = "waiting" /\ unit.active # "deactivating"
    BY <1>6 DEF WaitIdle, Goto, Settled
  <2>2. new \in Client /\ new.operation = r.operation /\ new.base = r.base /\ new.step = "poll"
    BY <1>1 DEF Client, ClientSteps
  <2> HIDE DEF new
  <2>3. Awaited(new, unit.active, agent, boots, durable.mods, updates)
    BY <1>1, <2>1, <2>2 DEF Awaited, RestartAwaited, UpdateAwaited, Bounded
  <2> QED
    BY <1>1, <1>2, <1>4, <2>1, <2>2, <2>3, QuietToolStep
<1>7. CASE PollDetail(c)
  <2>1. CASE PollAgain(c)
    <3> DEFINE new == [r EXCEPT !.step = "poll", !.seen = "inactive"]
    <3>1. client' = [client EXCEPT ![c] = new] /\ UNCHANGED answers /\ r.step = "detail"
      BY <1>7, <2>1 DEF PollDetail, PollAgain
    <3>2. new \in Client /\ new.operation = r.operation /\ new.base = r.base /\ new.step = "poll"
      BY <1>1 DEF Client, ClientSteps
    <3> HIDE DEF new
    <3>3. Awaited(new, unit.active, agent, boots, durable.mods, updates)
      BY <1>1, <3>1, <3>2, MovedIsAwaited
    <3> QED
      BY <1>1, <1>2, <1>4, <3>1, <3>2, <3>3, QuietToolStep
  <2>2. CASE ~PollAgain(c)
    <3>1. PICK verdict : /\ Answer(c, verdict) /\ r.step = "detail"
                         /\ \/ verdict = StoppedVerdict(c)
                            \/ verdict = RunningVerdict(c) /\ agent = "up"
      BY <1>7, <2>2, Zenon DEF PollDetail
    <3> QED
      BY <1>1, <1>3, <3>1, VerdictIsHonest
  <2> QED
    BY <2>1, <2>2
<1> QED
  BY <1>5, <1>6, <1>7

-----------------------------------------------------------------------------

LEMMA HostInitEstablishesInv == HostInit => HostInv
<1> SUFFICES ASSUME HostInit PROVE HostInv
  OBVIOUS
<1>1. boots = 0 /\ updates = 0 /\ agent = "off" /\ guard = Free /\ answers = {}
  BY DEF HostInit
<1>2. unit \in Unit /\ durable \in [closed : BOOLEAN, mods : {"idle", "pending", "failed"}]
  BY DEF HostInit, Unit
<1>3. \A c \in Clients : client[c] = IdleClient
  BY DEF HostInit
<1>4. /\ IdleClient \in Client /\ IdleClient.step = "idle"
      /\ Awaited(IdleClient, unit.active, agent, boots, durable.mods, updates)
  BY <1>1, IdleIsAwaited
<1>5. client \in [Clients -> Client]
  BY <1>4 DEF HostInit
<1>6. HostTypes
  BY <1>1, <1>2, <1>5 DEF HostTypes
<1>7. LockIsHeld
  BY <1>1, <1>3, <1>4, HostAssumption DEF LockIsHeld
<1> QED
  BY <1>1, <1>3, <1>4, <1>6, <1>7 DEF HostInv, AgentHasUnit, HostAnswersAreHonest

LEMMA HostInvKept ==
    ASSUME HostInv, [HostNext]_hostVars
    PROVE  HostInv'
<1>1. CASE UNCHANGED hostVars
  <2>1. UNCHANGED <<unit, agent, guard, durable, client, boots, updates, answers>>
    BY <1>1 DEF hostVars, roomVars
  <2>2. HostTypes' /\ AgentHasUnit' /\ LockIsHeld' /\ HostAnswersAreHonest'
    BY <2>1 DEF HostInv, HostTypes, AgentHasUnit, LockIsHeld, HostAnswersAreHonest
  <2>3. \A c \in Clients : Awaited(client'[c], unit'.active, agent', boots', durable'.mods, updates')
    BY <2>1 DEF HostInv
  <2> QED
    BY <2>2, <2>3 DEF HostInv
<1>2. ASSUME NEW c \in Clients, ClientStep(c) PROVE HostInv'
  BY <1>2, AskingKeeps, OfflineKeeps, CallAgentKeeps, JobKeeps, WaitingKeeps DEF ClientStep
<1> QED
  BY <1>1, <1>2, UnitKeeps, AgentKeeps DEF HostNext

LEMMA HostInvariance == HostSpec => []HostInv
<1>1. HostInit => HostInv
  BY HostInitEstablishesInv
<1>2. HostInv /\ [HostNext]_hostVars => HostInv'
  BY HostInvKept
<1> QED
  BY <1>1, <1>2, PTL DEF HostSpec

\* What a tool is told (transition, wait_idle, wait_ready, update_mods): a restart
\* answered "ready" saw a container that was started after it was submitted, and an
\* update answered "updated" saw one finish after it was queued, for any number of
\* tools and whatever the service does in between.
THEOREM HostAnswers == HostSpec => []HostAnswersAreHonest
<1>1. HostInv => HostAnswersAreHonest
  BY DEF HostInv
<1> QED
  BY <1>1, HostInvariance, PTL

\* A tool that changes the files of a stopped room (RoomLock::try_acquire, then
\* require_inactive) does so alone: it has the lock, no other tool is between its
\* two questions, and no Agent is up.
OfflineAlone ==
    \A c \in Clients : client[c].step = "locked" =>
        /\ agent # "up"
        /\ \A d \in Clients : client[d].step = "locked" => d = c

THEOREM OfflineExclusion == HostSpec => []OfflineAlone
<1>1. HostInv => OfflineAlone
  BY HostAssumption DEF HostInv, LockIsHeld, OfflineAlone
<1> QED
  BY <1>1, HostInvariance, PTL

=============================================================================
