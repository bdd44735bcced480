-------------------------------- MODULE Rpc --------------------------------
(***************************************************************************)
(* The local RPC endpoint (rpc.rs) between clients, the Agent's request    *)
(* queue and one event stream of the hub.  capnp-rpc delivers messages in  *)
(* order on a connection and drops what is in flight when it ends.         *)
(*                                                                         *)
(* Server:  server   "serving", "closing" (no new call, hub closed),       *)
(*                   "flushing" (disconnecting), "down"                    *)
(* Calls:   wire     calls sent and not yet handled; handler: calls whose  *)
(*                   handler waits for the Agent; replies: answers in      *)
(*                   flight; dispatch: the Agent's queue                   *)
(*          answer   what the caller was told                              *)
(* Stream:  ring     the retained tail of the stream; sent: its length     *)
(*          sub      per subscriber: state, position, pending read,        *)
(*                   records got, losses told, end told                    *)
(* History: ran      operations the Agent has taken                        *)
(***************************************************************************)
EXTENDS Naturals, Sequences, FiniteSets, SequencesExt

CONSTANTS
    Callers, Subscribers,
    STREAM_ITEMS,           \* retained by a stream
    MAX_SUBSCRIPTIONS,
    DISPATCH_ITEMS,         \* the Agent's request queue
    BatchLimit,             \* records of one read
    MaxPublished            \* bound: records published

ASSUME StreamAssumption == /\ STREAM_ITEMS \in Nat \ {0} /\ BatchLimit \in Nat \ {0}
                           /\ MaxPublished \in Nat /\ DISPATCH_ITEMS \in Nat

VARIABLES server, wire, handler, replies, dispatch, answer, ran, ring, sent, sub

callVars == <<wire, handler, replies, dispatch, answer, ran>>
streamVars == <<ring, sent, sub>>
rpcVars == <<server, callVars, streamVars>>

Unsubscribed == [state |-> "none", pos |-> 0, from |-> 0, reading |-> FALSE,
                 got |-> 0, told |-> 0, ended |-> FALSE]

RpcTypeOK ==
    /\ server \in {"serving", "closing", "flushing", "down"}
    /\ wire \subseteq Callers /\ handler \subseteq Callers /\ ran \subseteq Callers
    /\ DOMAIN replies \subseteq Callers
    /\ Len(dispatch) <= DISPATCH_ITEMS
    /\ answer \in [Callers -> {"none", "waiting", "Value", "Busy", "NotReady", "Timeout",
                               "Unknown"}]
    /\ Len(ring) <= STREAM_ITEMS /\ sent \in 0 .. MaxPublished
    /\ \A s \in Subscribers : sub[s].state \in {"none", "open", "closing", "closed"}

RpcInit ==
    /\ server = "serving"
    /\ wire = {} /\ handler = {} /\ replies = <<>> /\ dispatch = <<>> /\ ran = {}
    /\ answer = [c \in Callers |-> "none"]
    /\ ring = <<>> /\ sent = 0
    /\ sub = [s \in Subscribers |-> Unsubscribed]

-----------------------------------------------------------------------------
(* Client::call for a mutation *)

Connected == server # "down"

\* A full client queue or a connection that is already gone refuses at once.
Call(c) ==
    /\ answer[c] = "none"
    /\ \/ /\ Connected /\ wire' = wire \union {c}
          /\ answer' = [answer EXCEPT ![c] = "waiting"]
       \/ answer' = [answer EXCEPT ![c] = "Busy"] /\ wire' = wire
       \/ ~Connected /\ answer' = [answer EXCEPT ![c] = "Unknown"] /\ wire' = wire
    /\ UNCHANGED <<server, handler, replies, dispatch, ran, streamVars>>

\* Mutant: the wait of a mutation ends like the wait of a query.
WaitEndedTimeout == "Timeout"

\* A mutation whose answer did not arrive may have happened.
WaitEnded == "Unknown"

\* reply_or_cancel: dropping the promise cancels the handler, not the operation.
CallTimeout(c) ==
    /\ answer[c] = "waiting"
    /\ answer' = [answer EXCEPT ![c] = WaitEnded]
    /\ handler' = handler \ {c}
    /\ UNCHANGED <<server, wire, replies, dispatch, ran, streamVars>>

Receive(c) ==
    /\ c \in DOMAIN replies /\ Connected
    /\ replies' = [d \in DOMAIN replies \ {c} |-> replies[d]]
    /\ answer' = IF answer[c] = "waiting" THEN [answer EXCEPT ![c] = replies[c]] ELSE answer
    /\ UNCHANGED <<server, wire, handler, dispatch, ran, streamVars>>

-----------------------------------------------------------------------------
(* RoomServer::call and the Agent behind the queue *)

Reply(c, value) == replies' = [d \in DOMAIN replies \union {c} |->
                                  IF d = c THEN value ELSE replies[d]]

HandleCall(c) ==
    /\ c \in wire /\ server \in {"serving", "closing"}
    /\ wire' = wire \ {c}
    /\ IF server = "closing"
       THEN Reply(c, "NotReady") /\ UNCHANGED <<handler, dispatch>>
       ELSE IF Len(dispatch) >= DISPATCH_ITEMS
       THEN Reply(c, "Busy") /\ UNCHANGED <<handler, dispatch>>
       ELSE /\ dispatch' = Append(dispatch, c)
            /\ handler' = IF answer[c] = "waiting" THEN handler \union {c} ELSE handler
            /\ UNCHANGED replies
    /\ UNCHANGED <<server, answer, ran, streamVars>>

\* Receiving transfers ownership: the caller may be gone.
TakeRequest ==
    /\ dispatch # <<>>
    /\ dispatch' = Tail(dispatch) /\ ran' = ran \union {Head(dispatch)}
    /\ UNCHANGED <<server, wire, handler, replies, answer, streamVars>>

AnswerRequest(c) ==
    /\ c \in ran \cap handler
    /\ handler' = handler \ {c}
    /\ Reply(c, "Value")
    /\ UNCHANGED <<server, wire, dispatch, answer, ran, streamVars>>

\* The Agent drops its queue or aborts a worker: the handler sees a closed channel.
AbandonRequest(c) ==
    /\ c \in handler /\ server # "serving"
    /\ handler' = handler \ {c}
    /\ IF c \in ToSet(dispatch)
       THEN \E i \in DOMAIN dispatch : dispatch[i] = c /\ dispatch' = RemoveAt(dispatch, i)
       ELSE UNCHANGED dispatch
    /\ Reply(c, "Unknown")
    /\ UNCHANGED <<server, wire, answer, ran, streamVars>>

-----------------------------------------------------------------------------
(* EventHub and SubscriptionServer *)

HubOpen == server = "serving"
Receivers == {s \in Subscribers : sub[s].state \in {"open", "closing"}}

\* A record that cannot be encoded takes an empty slot (FALSE).  Nobody waits.
Publish ==
    /\ HubOpen /\ sent < MaxPublished
    /\ Receivers # {}
    /\ \E encoded \in BOOLEAN :
          LET full == Append(ring, encoded) IN
          ring' = IF Len(full) > STREAM_ITEMS THEN Tail(full) ELSE full
    /\ sent' = sent + 1
    /\ UNCHANGED <<server, callVars, sub>>

Subscribe(s) ==
    /\ server = "serving" /\ sub[s].state = "none"
    /\ Cardinality(Receivers) < MAX_SUBSCRIPTIONS
    /\ sub' = [sub EXCEPT ![s] = [Unsubscribed EXCEPT !.state = "open", !.pos = sent,
                                                      !.from = sent]]
    /\ UNCHANGED <<server, callVars, ring, sent>>

\* One read at a time.
BeginNext(s) ==
    /\ sub[s].state = "open" /\ ~sub[s].reading /\ ~sub[s].ended
    /\ server \in {"serving", "closing"}
    /\ sub' = [sub EXCEPT ![s].reading = TRUE]
    /\ UNCHANGED <<server, callVars, ring, sent>>

Oldest == sent - Len(ring)

Records(slots) == Cardinality({i \in DOMAIN slots : slots[i]})
Losses(slots) == Cardinality({i \in DOMAIN slots : ~slots[i]})

\* A lagging receiver is told once how many records it missed; then it reads what
\* is retained, up to the limit of the batch.
Batch(s) ==
    LET lagged == sub[s].pos < Oldest
        start == IF lagged THEN Oldest ELSE sub[s].pos
        room == IF lagged THEN BatchLimit - 1 ELSE BatchLimit
        end == IF start + room < sent THEN start + room ELSE sent
        slots == SubSeq(ring, start - Oldest + 1, end - Oldest)
    IN [sub[s] EXCEPT !.pos = end, !.reading = FALSE,
                      !.got = @ + Records(slots),
                      !.told = @ + (start - sub[s].pos) + Losses(slots)]

\* receiver.is_closed() && receiver.is_empty()
Ended(pos) == ~HubOpen /\ pos = sent

FinishNext(s) ==
    /\ sub[s].reading /\ server \in {"serving", "closing"}
    /\ sub[s].state = "open" => (sub[s].pos < sent \/ ~HubOpen)
    /\ sub' = IF sub[s].state = "closing"
              THEN [sub EXCEPT ![s].reading = FALSE]
              ELSE [sub EXCEPT ![s] = [Batch(s) EXCEPT !.ended = Ended(Batch(s).pos)]]
    /\ UNCHANGED <<server, callVars, ring, sent>>

\* close() wakes a pending read, then waits for it and drops the receiver.
CloseSubscription(s) ==
    /\ sub[s].state = "open"
    /\ sub' = [sub EXCEPT ![s].state = "closing"]
    /\ UNCHANGED <<server, callVars, ring, sent>>

ReleaseSubscription(s) ==
    /\ sub[s].state = "closing" /\ ~sub[s].reading
    /\ sub' = [sub EXCEPT ![s].state = "closed"]
    /\ UNCHANGED <<server, callVars, ring, sent>>

-----------------------------------------------------------------------------
(* serve: shutdown *)

BeginServerClose ==
    /\ server = "serving"
    /\ server' = "closing"
    /\ UNCHANGED <<callVars, streamVars>>

\* pending.drain(), or DRAIN_TIMEOUT: both lead on.
Drain ==
    /\ server = "closing"
    /\ server' = "flushing"
    /\ UNCHANGED <<callVars, streamVars>>

\* Answers are flushed, or DRAIN_TIMEOUT cuts the connections off.
Disconnect ==
    /\ server = "flushing"
    /\ server' = "down"
    /\ wire' = {} /\ handler' = {} /\ replies' = <<>>
    /\ answer' = [c \in Callers |-> IF answer[c] = "waiting" THEN "Unknown" ELSE answer[c]]
    /\ sub' = [s \in Subscribers |-> [sub[s] EXCEPT !.state = "closed", !.reading = FALSE]]
    /\ UNCHANGED <<dispatch, ran, ring, sent>>

-----------------------------------------------------------------------------

CallStep(c) == Call(c) \/ CallTimeout(c) \/ Receive(c) \/ HandleCall(c)
               \/ AnswerRequest(c) \/ AbandonRequest(c)
SubscriptionStep(s) == Subscribe(s) \/ BeginNext(s) \/ FinishNext(s)
                       \/ CloseSubscription(s) \/ ReleaseSubscription(s)
ServerStep == BeginServerClose \/ Drain \/ Disconnect
RpcNext ==
    \/ \E c \in Callers : CallStep(c)
    \/ \E s \in Subscribers : SubscriptionStep(s)
    \/ TakeRequest \/ Publish \/ ServerStep
RpcSpec == RpcInit /\ [][RpcNext]_rpcVars

-----------------------------------------------------------------------------
(* Properties *)

\* The codes that tell a caller that nothing happened.
Refusals == {"Busy", "NotReady", "Timeout"}

\* A caller who was refused can try again: the Agent never takes an operation
\* whose caller was told that nothing happened, and never reports a value for one it
\* has not taken, although timeouts, answers and the shutdown of the server race.
RefusedNeverRuns ==
    \A c \in Callers :
        /\ answer[c] \in Refusals => c \notin ran \union ToSet(dispatch)
        /\ answer[c] = "Value" => c \in ran

\* A subscriber that lags behind, or whose record could not be encoded, is told
\* exactly how many records it missed, and the end of the stream is announced
\* only after everything retained was read.
LossIsTold ==
    \A s \in Subscribers :
        /\ sub[s].from + sub[s].got + sub[s].told = sub[s].pos
        /\ sub[s].ended => sub[s].pos = sent

\* What callers and subscribers are told is true (call, EventHub,
\* SubscriptionServer.next).
AnswersAreTrue == RefusedNeverRuns /\ LossIsTold
=============================================================================
