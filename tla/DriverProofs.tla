---------------------------- MODULE DriverProofs ----------------------------
(***************************************************************************)
(* Theorems about Driver, for every number of requests, worlds, busy       *)
(* markers and bad frames.                                                 *)
(*                                                                         *)
(* The markers DST_LuaBusy and DST_RemoteCommandDone carry no request id,  *)
(* so the argument is about whose they are.  A command that was dispatched *)
(* with nothing outstanding, or that has been answered by its id, is alone *)
(* with the game: the only marker still to come is its own (Alone).  So a  *)
(* busy marker that leads to a second write speaks of the frame the game   *)
(* forgot (Fresh), and a result is handed to the caller of the request     *)
(* that produced it, which can no longer run (Settled).                    *)
(***************************************************************************)
EXTENDS Driver, Integers, TLAPS

Calls == {"idle", "queued", "writing", "waiting", "expiring", "backoff", "answered"}
Holding == {"writing", "waiting", "expiring", "backoff"}
Gens == 0 .. MaxGeneration

\* The positions of replies to r, and of markers, in the stream s.
Of(s, r) == {i \in 1 .. Len(s) : s[i].kind = "rpc" /\ s[i].id = r}
Markers(s) == {i \in 1 .. Len(s) : s[i].kind \in {"busy", "done"}}

Types ==
    /\ call \in [Requests -> Calls]
    /\ asked \in [Requests -> Gens]
    /\ answer \in [Requests -> Answers \union {"none"}]
    /\ ran \in [Requests -> Nat]
    /\ lock \in Requests \union {"stop", "free"}
    /\ inbox \in Values \union {"none"}
    /\ active \in Pendings /\ shard \in DriverStates /\ game \in Games
    /\ pipe \in Requests \union {"shutdown", NoFrame}
    /\ replies \in Seq(ReplyFrames)

\* Who holds native_command, and what a stop has done.
Holders ==
    /\ \A r \in Requests : call[r] \in Holding <=> lock = r
    /\ lock = "stop" <=> stop = "sending"
    /\ stop # "none" => shard.stop_requested
    /\ shard.stop_requested => shard.stopping
    /\ farewell => stop \in {"exiting", "ending", "done"} /\ lock = "free"
    /\ pipe = "shutdown" => farewell
    /\ reaped => ~game.alive
    /\ ~game.alive => game.command = Idle
    /\ game.command = Idle \/ game.command.id \in Requests
    /\ ~shard.running => reaped
    /\ ReadyIsSound

\* `active` belongs to the holder of the lock until it is done with it.
Slot ==
    /\ active = NoCommand \/ active.id \in Requests
    /\ active.open => lock = active.id /\ inbox = "none"
    /\ lock \in Requests /\ active # NoCommand => active.id = lock
    /\ active # NoCommand => /\ call[active.id] \notin {"idle", "queued", "backoff"}
                             /\ active.gen = asked[active.id]
    /\ inbox # "none" => lock \in Requests
    /\ inbox = "busy" => active = NoCommand
    /\ \A r \in Requests : call[r] = "backoff" => active = NoCommand /\ inbox = "none"
    /\ \A r \in Requests : call[r] = "writing" =>
           /\ inbox \in {"none", "unknown"}
           /\ active.id = r => ~active.accepted /\ active.result = "none"
           /\ shard.running => active.id = r

\* Nothing of r is on its way, and it has not run.
Fresh(r) ==
    /\ pipe # r /\ game.command.id # r
    /\ Of(replies, r) = {} /\ ran[r] = 0

\* r will not run any more, and what it did agrees with v.
Settled(r, v) ==
    /\ pipe # r
    /\ game.command.id = r => game.command.step = "finished"
    /\ v = "ok" => ran[r] = 1
    /\ v \in {"refused", "timeout"} => ran[r] = 0

Told ==
    \A r \in Requests :
        /\ answer[r] # "none" => call[r] = "answered"
        /\ \A v \in {"ok", "failed", "refused", "timeout"} : answer[r] = v => Settled(r, v)
        /\ ran[r] \in {0, 1}
        /\ call[r] \in {"idle", "queued", "writing", "backoff"} => Fresh(r)

Received ==
    \A r \in Requests :
        /\ lock = r /\ inbox = "busy" => Fresh(r)
        /\ \A v \in {"ok", "failed", "refused"} : lock = r /\ inbox = v => Settled(r, v)
        /\ \A v \in {"ok", "failed", "refused"} : active.id = r /\ active.result = v =>
               Settled(r, v) /\ Of(replies, r) = {}

\* The driver knows of r's acceptance, or reads of it before position n.
Heard(r, n) ==
    active.id = r =>
        \/ active.accepted
        \/ \E j \in Of(replies, r) : j < n /\ replies[j].value = "accepted"

HeardYet(r) ==
    active.id = r =>
        \/ active.accepted
        \/ \E j \in Of(replies, r) : replies[j].value = "accepted"

\* A rejection before acceptance.
Rejected(r) ==
    /\ ran[r] = 0
    /\ active.id = r => ~active.accepted
    /\ \A j \in Of(replies, r) : replies[j].value # "accepted"

\* What is on its way for r.
Unread(r) ==
    /\ pipe = r => game.command.id # r
    /\ pipe = r \/ game.command = [id |-> r, step |-> "read"] =>
           /\ Of(replies, r) = {} /\ ran[r] = 0
           /\ active.id = r => ~active.accepted
    /\ game.command = [id |-> r, step |-> "accepted"] =>
           /\ ran[r] = 0 /\ game.world = asked[r]
           /\ HeardYet(r)

Replied(r) ==
    \A i \in Of(replies, r) :
        /\ replies[i].value # "refused" => replies[i].gen = asked[r]
        /\ replies[i].value # "accepted" =>
               /\ game.command.id = r => game.command.step = "finished"
               /\ \A j \in Of(replies, r) : j <= i
        /\ replies[i].value = "ok" => ran[r] = 1
        /\ replies[i].value = "refused" =>
               \/ Rejected(r)
               \/ ran[r] = 1 /\ replies[i].gen = asked[r] /\ Heard(r, i)

\* After position i the game has only to do with r.
Alone(r, i) ==
    /\ pipe \in {NoFrame, r} /\ game.command.id \in {"none", r}
    /\ pipe = r => game.command.id = "none"
    /\ \A j \in Markers(replies) : j > i =>
           /\ pipe = NoFrame /\ game.command.id = "none"
           /\ \A k \in Markers(replies) : k > i => k = j
           /\ \A k \in Of(replies, r) : k < j
           /\ replies[j].kind = "busy" => Fresh(r)

Nobody == pipe = NoFrame /\ game.command.id = "none" /\ Markers(replies) = {}

InStep ==
    shard.running /\ ~farewell =>
        /\ active = NoCommand => Nobody
        /\ \A r \in Requests : active.id = r =>
               /\ active.synchronized => Alone(r, 0)
               /\ \A i \in Of(replies, r) : Alone(r, i)
               /\ active.synchronized /\ call[r] = "writing" => Nobody

\* A frame of another request delays the write of the active one.
OneFrame ==
    \A r \in Requests : active.id = r /\ pipe \in Requests /\ pipe # r => Fresh(r)

Traffic == (\A r \in Requests : Unread(r) /\ Replied(r)) /\ OneFrame /\ InStep

\* Whatever may end in a failure was counted when it was sent.
Guilty == faults > 0

Blame ==
    /\ out \in Seq(OutFrames) /\ faults \in Nat
    /\ Of(replies, "none") = {}
    /\ \A i \in 1 .. Len(replies) : replies[i].kind = "bad" => Guilty
    /\ \A i \in 1 .. Len(out) : out[i].kind = "error" => Guilty
    /\ lost => reaped
    /\ shard.failure => Guilty \/ lost

DriverInv == Types /\ Holders /\ Slot /\ Told /\ Received /\ Traffic

-----------------------------------------------------------------------------
(* Streams *)

LEMMA Emitted ==
    ASSUME NEW s \in Seq(ReplyFrames), NEW f \in ReplyFrames, NEW t, t = Append(s, f)
    PROVE  /\ t \in Seq(ReplyFrames) /\ Len(s) \in Nat /\ Len(t) = Len(s) + 1
           /\ t[Len(s) + 1] = f
           /\ \A i \in 1 .. Len(s) : t[i] = s[i]
OBVIOUS

LEMMA Places ==
    ASSUME NEW s \in Seq(ReplyFrames)
    PROVE  /\ Len(s) \in Nat
           /\ \A r : Of(s, r) \subseteq 1 .. Len(s)
           /\ Markers(s) \subseteq 1 .. Len(s)
BY DEF Of, Markers

\* A reply of f.id is the last of its kind.
LEMMA ReplyEmits ==
    ASSUME replies \in Seq(ReplyFrames), NEW f \in ReplyFrames, replies' = Append(replies, f),
           f.kind = "rpc"
    PROVE  /\ replies' \in Seq(ReplyFrames) /\ Len(replies) \in Nat /\ Len(replies') = Len(replies) + 1
           /\ replies'[Len(replies) + 1] = f
           /\ Of(replies', f.id) = Of(replies, f.id) \union {Len(replies) + 1}
           /\ \A r : r # f.id => Of(replies', r) = Of(replies, r)
           /\ Markers(replies') = Markers(replies)
           /\ \A i \in 1 .. Len(replies) : replies'[i] = replies[i]
<1>1. /\ replies' \in Seq(ReplyFrames) /\ Len(replies) \in Nat /\ Len(replies') = Len(replies) + 1
      /\ replies'[Len(replies) + 1] = f
      /\ \A i \in 1 .. Len(replies) : replies'[i] = replies[i]
  BY Emitted
<1>2. ASSUME NEW i PROVE i \in 1 .. Len(replies') <=> i \in 1 .. Len(replies) \/ i = Len(replies) + 1
  BY <1>1
<1>3. Len(replies) + 1 \notin 1 .. Len(replies)
  BY <1>1
<1>4. Of(replies', f.id) = Of(replies, f.id) \union {Len(replies) + 1}
  BY <1>1, <1>2, <1>3, Zenon DEF Of
<1>5. ASSUME NEW r, r # f.id PROVE Of(replies', r) = Of(replies, r)
  BY <1>1, <1>2, <1>3, <1>5, Zenon DEF Of
<1>6. Markers(replies') = Markers(replies)
  <2>1. f.kind \notin {"busy", "done"}
    OBVIOUS
  <2> QED
    BY <1>1, <1>2, <1>3, <2>1, Zenon DEF Markers
<1> QED
  BY <1>1, <1>4, <1>5, <1>6

LEMMA OtherEmits ==
    ASSUME replies \in Seq(ReplyFrames), NEW f \in ReplyFrames, replies' = Append(replies, f),
           f.kind # "rpc"
    PROVE  /\ replies' \in Seq(ReplyFrames) /\ Len(replies) \in Nat /\ Len(replies') = Len(replies) + 1
           /\ replies'[Len(replies) + 1] = f
           /\ \A r : Of(replies', r) = Of(replies, r)
           /\ f.kind \in {"busy", "done"} => Markers(replies') = Markers(replies) \union {Len(replies) + 1}
           /\ f.kind \notin {"busy", "done"} => Markers(replies') = Markers(replies)
           /\ \A i \in 1 .. Len(replies) : replies'[i] = replies[i]
<1>1. /\ replies' \in Seq(ReplyFrames) /\ Len(replies) \in Nat /\ Len(replies') = Len(replies) + 1
      /\ replies'[Len(replies) + 1] = f
      /\ \A i \in 1 .. Len(replies) : replies'[i] = replies[i]
  BY Emitted
<1>2. ASSUME NEW i PROVE i \in 1 .. Len(replies') <=> i \in 1 .. Len(replies) \/ i = Len(replies) + 1
  BY <1>1
<1>3. Len(replies) + 1 \notin 1 .. Len(replies)
  BY <1>1
<1>5. ASSUME NEW r PROVE Of(replies', r) = Of(replies, r)
  BY <1>1, <1>2, <1>3, Zenon DEF Of
<1>6. CASE f.kind \in {"busy", "done"}
  <2>1. Markers(replies') = Markers(replies) \union {Len(replies) + 1}
    BY <1>1, <1>2, <1>3, <1>6, Zenon DEF Markers
  <2> QED
    BY <1>1, <1>5, <1>6, <2>1
<1>7. CASE f.kind \notin {"busy", "done"}
  <2>1. Markers(replies') = Markers(replies)
    BY <1>1, <1>2, <1>3, <1>7, Zenon DEF Markers
  <2> QED
    BY <1>1, <1>5, <1>7, <2>1
<1> QED
  BY <1>6, <1>7

\* The pump takes the first frame.
LEMMA Popped ==
    ASSUME replies \in Seq(ReplyFrames), replies # <<>>, replies' = Tail(replies)
    PROVE  /\ replies' \in Seq(ReplyFrames) /\ Len(replies) \in Nat \ {0} /\ Len(replies') = Len(replies) - 1
           /\ Head(replies) = replies[1] /\ replies[1] \in ReplyFrames
           /\ \A i \in 1 .. Len(replies') : replies'[i] = replies[i + 1]
           /\ \A r : \A i \in Of(replies', r) : i + 1 \in Of(replies, r) /\ replies'[i] = replies[i + 1]
           /\ \A r : \A i \in Of(replies, r) : i # 1 => i - 1 \in Of(replies', r)
           /\ \A i \in Markers(replies') : i + 1 \in Markers(replies) /\ replies'[i] = replies[i + 1]
           /\ \A i \in Markers(replies) : i # 1 => i - 1 \in Markers(replies')
           /\ \A r : 1 \in Of(replies, r) <=> replies[1].kind = "rpc" /\ replies[1].id = r
           /\ 1 \in Markers(replies) <=> replies[1].kind \in {"busy", "done"}
<1>1. /\ replies' \in Seq(ReplyFrames) /\ Len(replies) \in Nat \ {0} /\ Len(replies') = Len(replies) - 1
      /\ Head(replies) = replies[1] /\ replies[1] \in ReplyFrames
      /\ \A i \in 1 .. Len(replies') : replies'[i] = replies[i + 1]
  OBVIOUS
<1>2. ASSUME NEW i \in 1 .. Len(replies') PROVE i + 1 \in 1 .. Len(replies) /\ replies'[i] = replies[i + 1]
  BY <1>1
<1>3. ASSUME NEW i \in 1 .. Len(replies), i # 1
      PROVE  i - 1 \in 1 .. Len(replies') /\ replies'[i - 1] = replies[i]
  <2>1. i - 1 \in 1 .. Len(replies') /\ (i - 1) + 1 = i
    BY <1>1, <1>3
  <2> QED
    BY <1>2, <2>1
<1>4. \A r : \A i \in Of(replies', r) : i + 1 \in Of(replies, r) /\ replies'[i] = replies[i + 1]
  BY <1>2, Zenon DEF Of
<1>5. \A r : \A i \in Of(replies, r) : i # 1 => i - 1 \in Of(replies', r)
  BY <1>3, Zenon DEF Of
<1>6. \A i \in Markers(replies') : i + 1 \in Markers(replies) /\ replies'[i] = replies[i + 1]
  BY <1>2, Zenon DEF Markers
<1>7. \A i \in Markers(replies) : i # 1 => i - 1 \in Markers(replies')
  BY <1>3, Zenon DEF Markers
<1>8. 1 \in 1 .. Len(replies)
  BY <1>1
<1>9. /\ \A r : 1 \in Of(replies, r) <=> replies[1].kind = "rpc" /\ replies[1].id = r
      /\ 1 \in Markers(replies) <=> replies[1].kind \in {"busy", "done"}
  BY <1>8, Zenon DEF Of, Markers
<1> QED
  BY <1>1, <1>4, <1>5, <1>6, <1>7, <1>9

\* A reader that is aborted keeps a prefix.
LEMMA PrefixKept ==
    ASSUME NEW s \in Seq(ReplyFrames), NEW k \in 0 .. Len(s), NEW t, t = SubSeq(s, 1, k)
    PROVE  /\ t \in Seq(ReplyFrames) /\ Len(s) \in Nat /\ Len(t) = k
           /\ \A i \in 1 .. Len(t) : i \in 1 .. Len(s) /\ t[i] = s[i]
           /\ \A r : \A i \in Of(t, r) : i \in Of(s, r) /\ t[i] = s[i]
           /\ \A r : \A i \in Of(s, r) : i <= k => i \in Of(t, r)
           /\ \A i \in Markers(t) : i \in Markers(s) /\ t[i] = s[i]
<1>1. /\ t \in Seq(ReplyFrames) /\ Len(s) \in Nat /\ Len(t) = k
      /\ \A i \in 1 .. Len(t) : t[i] = s[i]
  OBVIOUS
<1>2. ASSUME NEW i \in 1 .. Len(t) PROVE i \in 1 .. Len(s) /\ t[i] = s[i]
  BY <1>1
<1>3. ASSUME NEW i \in 1 .. Len(s), i <= k PROVE i \in 1 .. Len(t) /\ t[i] = s[i]
  BY <1>1, <1>3
<1>4. \A r : \A i \in Of(t, r) : i \in Of(s, r) /\ t[i] = s[i]
  BY <1>2, Zenon DEF Of
<1>5. \A r : \A i \in Of(s, r) : i <= k => i \in Of(t, r)
  BY <1>3, Zenon DEF Of
<1>6. \A i \in Markers(t) : i \in Markers(s) /\ t[i] = s[i]
  BY <1>2, Zenon DEF Markers
<1> QED
  BY <1>1, <1>2, <1>4, <1>5, <1>6

-----------------------------------------------------------------------------
(* Steps that move nothing but the stream *)

\* The stream lost its first d frames or some of its last ones.
Moved(d) ==
    /\ \A r : \A i \in Of(replies', r) : i + d \in Of(replies, r) /\ replies'[i] = replies[i + d]
    /\ \A i \in Markers(replies') : i + d \in Markers(replies) /\ replies'[i] = replies[i + d]

\* No acceptance of the active command went by unseen.
Noticed(d) ==
    active.id \in Requests =>
        \A j \in Of(replies, active.id) : replies[j].value = "accepted" =>
            /\ \A i \in Of(replies', active.id) :
                   j < i + d => j - d \in Of(replies', active.id)
            /\ game.command.step = "accepted" => j - d \in Of(replies', active.id)

SameCommand ==
    /\ active'.id = active.id /\ active'.gen = active.gen
    /\ active'.accepted = active.accepted /\ active'.result = active.result
    /\ active'.synchronized = active.synchronized
    /\ active' = NoCommand <=> active = NoCommand

SameGame ==
    /\ UNCHANGED <<pipe, ran>> /\ game'.command = game.command
    /\ game.command.step = "accepted" => game'.world = game.world

LEMMA FreshKept ==
    ASSUME NEW d \in {0, 1}, Moved(d), SameGame, NEW r
    PROVE  /\ Fresh(r) => Fresh(r)'
           /\ \A v : Settled(r, v) => Settled(r, v)'
<1>1. Of(replies, r) = {} => Of(replies', r) = {}
  BY DEF Moved
<1>2. ASSUME NEW v PROVE Settled(r, v) => Settled(r, v)'
  BY DEF Settled, SameGame
<1> QED
  BY <1>1, <1>2 DEF Fresh, SameGame

LEMMA UnreadKept ==
    ASSUME DriverInv, Types', NEW d \in {0, 1}, Moved(d), Noticed(d), SameGame, SameCommand,
           NEW r \in Requests, asked'[r] = asked[r] \/ Fresh(r)
    PROVE  Unread(r)'
<1>1. Unread(r)
  BY DEF DriverInv, Traffic
<1>2. Of(replies, r) = {} => Of(replies', r) = {}
  BY DEF Moved
<1>3. pipe' = r => game'.command.id # r
  BY <1>1 DEF Unread, SameGame
<1>4. pipe' = r \/ game'.command = [id |-> r, step |-> "read"] =>
          /\ Of(replies', r) = {} /\ ran'[r] = 0
          /\ active'.id = r => ~active'.accepted
  BY <1>1, <1>2 DEF Unread, SameGame, SameCommand
<1>5. ASSUME game'.command = [id |-> r, step |-> "accepted"]
      PROVE  ran'[r] = 0 /\ game'.world = asked'[r] /\ HeardYet(r)'
  <2>1. /\ game.command = [id |-> r, step |-> "accepted"] /\ ran[r] = 0
        /\ game.command.id = r /\ game.command.step = "accepted"
        /\ game.world = asked[r] /\ HeardYet(r)
    BY <1>1, <1>5 DEF Unread, SameGame
  <2>2. asked'[r] = asked[r]
    BY <2>1 DEF Fresh
  <2>3. ASSUME active'.id = r, ~active'.accepted
        PROVE  \E j \in Of(replies', r) : replies'[j].value = "accepted"
    <3>1. active.id = r /\ ~active.accepted
      BY <2>3 DEF SameCommand
    <3>2. PICK j \in Of(replies, r) : replies[j].value = "accepted"
      BY <2>1, <3>1 DEF HeardYet
    <3>3. j - d \in Of(replies', r)
      BY <2>1, <3>1, <3>2 DEF Noticed
    <3>4. (j - d) + d = j
      BY <3>2, Places DEF DriverInv, Types
    <3>5. replies'[j - d] = replies[j]
      BY <3>3, <3>4 DEF Moved
    <3> QED
      BY <3>2, <3>3, <3>5
  <2> QED
    BY <2>1, <2>2, <2>3 DEF SameGame, HeardYet
<1> QED
  BY <1>3, <1>4, <1>5 DEF Unread

LEMMA RepliedKept ==
    ASSUME DriverInv, Types', NEW d \in {0, 1}, Moved(d), Noticed(d), SameGame, SameCommand,
           NEW r \in Requests, asked'[r] = asked[r] \/ Fresh(r)
    PROVE  Replied(r)'
<1> SUFFICES ASSUME NEW i \in Of(replies', r)
             PROVE  /\ replies'[i].value # "refused" => replies'[i].gen = asked'[r]
                    /\ replies'[i].value # "accepted" =>
                           /\ game'.command.id = r => game'.command.step = "finished"
                           /\ \A j \in Of(replies', r) : j <= i
                    /\ replies'[i].value = "ok" => ran'[r] = 1
                    /\ replies'[i].value = "refused" =>
                           \/ Rejected(r)'
                           \/ ran'[r] = 1 /\ replies'[i].gen = asked'[r] /\ Heard(r, i)'
  BY DEF Replied
<1> DEFINE n == i + d
<1>1. n \in Of(replies, r) /\ replies'[i] = replies[n]
  BY DEF Moved
<1>2. i \in Int /\ d \in Int /\ n \in Int
  BY Places DEF DriverInv, Types
<1>3. Replied(r)
  BY DEF DriverInv, Traffic
<1>4. asked'[r] = asked[r]
  BY <1>1 DEF Fresh
<1>5. ASSUME replies'[i].value # "accepted", NEW j \in Of(replies', r) PROVE j <= i
  <2>1. j + d \in Of(replies, r) /\ j \in Int
    BY Places DEF Moved, DriverInv, Types
  <2>2. j + d <= n
    BY <1>1, <1>3, <1>5, <2>1 DEF Replied
  <2> QED
    BY <1>2, <2>1, <2>2
<1>6. Rejected(r) => Rejected(r)'
  <2>1. ASSUME NEW j \in Of(replies', r), \A k \in Of(replies, r) : replies[k].value # "accepted"
        PROVE  replies'[j].value # "accepted"
    BY <2>1 DEF Moved
  <2> QED
    BY <2>1 DEF Rejected, SameGame, SameCommand
<1>7. Heard(r, n) => Heard(r, i)'
  <2>1. SUFFICES ASSUME Heard(r, n), active'.id = r, ~active'.accepted
                 PROVE  \E j \in Of(replies', r) : j < i /\ replies'[j].value = "accepted"
    BY DEF Heard
  <2>2. active.id = r /\ ~active.accepted
    BY <2>1 DEF SameCommand
  <2>3. PICK j \in Of(replies, r) : j < n /\ replies[j].value = "accepted"
    BY <2>1, <2>2 DEF Heard
  <2>4. j - d \in Of(replies', r)
    BY <2>2, <2>3 DEF Noticed
  <2>5. j \in Int /\ (j - d) + d = j /\ j - d < i
    BY <1>2, <2>3, Places DEF DriverInv, Types
  <2>6. replies'[j - d] = replies[j]
    BY <2>4, <2>5 DEF Moved
  <2> QED
    BY <2>3, <2>4, <2>5, <2>6
<1> HIDE DEF n
<1>8. /\ replies'[i].value # "refused" => replies'[i].gen = asked'[r]
      /\ replies'[i].value # "accepted" =>
             (game'.command.id = r => game'.command.step = "finished")
      /\ replies'[i].value = "ok" => ran'[r] = 1
  BY <1>1, <1>3, <1>4 DEF Replied, SameGame
<1>9. replies'[i].value = "refused" =>
          \/ Rejected(r)'
          \/ ran'[r] = 1 /\ replies'[i].gen = asked'[r] /\ Heard(r, i)'
  BY <1>1, <1>3, <1>4, <1>6, <1>7 DEF Replied, SameGame
<1> QED
  BY <1>5, <1>8, <1>9

LEMMA AloneKept ==
    ASSUME DriverInv, Types', NEW d \in {0, 1}, Moved(d), SameGame, NEW r
    PROVE  /\ Alone(r, 0) => Alone(r, 0)'
           /\ \A i \in Int : Alone(r, i + d) => Alone(r, i)'
<1>1. /\ \A j \in Markers(replies') : j \in Int /\ j + d \in Int /\ j + d > 0
      /\ \A j \in Of(replies', r) : j \in Int
  BY Places DEF DriverInv, Types, Moved
<1>2. ASSUME NEW n \in Int, NEW i \in Int, Alone(r, n),
             \A j \in Markers(replies') : j > i => j + d > n
      PROVE  Alone(r, i)'
  <2>1. /\ pipe' \in {NoFrame, r} /\ game'.command.id \in {"none", r}
        /\ pipe' = r => game'.command.id = "none"
    BY <1>2 DEF Alone, SameGame
  <2>2. ASSUME NEW j \in Markers(replies'), j > i
        PROVE  /\ pipe' = NoFrame /\ game'.command.id = "none"
               /\ \A k \in Markers(replies') : k > i => k = j
               /\ \A k \in Of(replies', r) : k < j
               /\ replies'[j].kind = "busy" => Fresh(r)'
    <3>1. j + d \in Markers(replies) /\ j + d > n /\ replies'[j] = replies[j + d]
      BY <1>2, <2>2 DEF Moved
    <3>2. pipe' = NoFrame /\ game'.command.id = "none"
      BY <1>2, <3>1 DEF Alone, SameGame
    <3>3. ASSUME NEW k \in Markers(replies'), k > i PROVE k = j
      <4>1. k + d \in Markers(replies) /\ k + d > n
        BY <1>2, <3>3 DEF Moved
      <4>2. k + d = j + d
        BY <1>2, <3>1, <4>1 DEF Alone
      <4> QED
        BY <1>1, <4>2
    <3>4. ASSUME NEW k \in Of(replies', r) PROVE k < j
      <4>1. k + d \in Of(replies, r)
        BY DEF Moved
      <4>2. k + d < j + d
        BY <1>2, <3>1, <4>1 DEF Alone
      <4> QED
        BY <1>1, <4>2
    <3>5. replies'[j].kind = "busy" => Fresh(r)'
      BY <1>2, <3>1, FreshKept DEF Alone
    <3> QED
      BY <3>2, <3>3, <3>4, <3>5
  <2> QED
    BY <2>1, <2>2 DEF Alone
<1>3. Alone(r, 0) => Alone(r, 0)'
  BY <1>1, <1>2
<1>4. ASSUME NEW i \in Int, Alone(r, i + d) PROVE Alone(r, i)'
  <2>1. i + d \in Int /\ \A j \in Markers(replies') : j > i => j + d > i + d
    BY <1>1
  <2> QED
    BY <1>2, <1>4, <2>1
<1> QED
  BY <1>3, <1>4

LEMMA TrafficKept ==
    ASSUME DriverInv, Types', NEW d \in {0, 1}, Moved(d), Noticed(d), SameGame, SameCommand,
           shard'.running => shard.running, farewell => farewell',
           \A r \in Requests : /\ asked'[r] = asked[r] \/ Fresh(r)
                               /\ call'[r] = "writing" => call[r] = "writing"
    PROVE  Traffic'
<1>1. \A r \in Requests : Unread(r)' /\ Replied(r)'
  BY UnreadKept, RepliedKept
<1>2. OneFrame'
  BY FreshKept DEF DriverInv, Traffic, OneFrame, SameCommand, SameGame
<1>3. ASSUME shard'.running, ~farewell'
      PROVE  /\ active' = NoCommand => Nobody'
             /\ \A r \in Requests : active'.id = r =>
                    /\ active'.synchronized => Alone(r, 0)'
                    /\ \A i \in Of(replies', r) : Alone(r, i)'
                    /\ active'.synchronized /\ call'[r] = "writing" => Nobody'
  <2>1. InStep /\ shard.running /\ ~farewell
    BY <1>3 DEF DriverInv, Traffic
  <2>2. Nobody => Nobody'
    BY DEF Nobody, SameGame, Moved
  <2>3. ASSUME NEW r \in Requests, active'.id = r, active'.synchronized
        PROVE  Alone(r, 0)' /\ (call'[r] = "writing" => Nobody')
    <3>1. Alone(r, 0) /\ (call[r] = "writing" => Nobody)
      BY <2>1, <2>3 DEF InStep, SameCommand
    <3> QED
      BY <2>2, <3>1, AloneKept
  <2>4. ASSUME NEW r \in Requests, active'.id = r, NEW i \in Of(replies', r)
        PROVE  Alone(r, i)'
    <3>1. i + d \in Of(replies, r)
      BY DEF Moved
    <3>2. Alone(r, i + d)
      BY <2>1, <2>4, <3>1 DEF InStep, SameCommand
    <3>3. i \in Int
      BY Places DEF Types
    <3> QED
      BY <3>2, <3>3, AloneKept
  <2> QED
    BY <2>1, <2>2, <2>3, <2>4 DEF InStep, SameCommand
<1> QED
  BY <1>1, <1>2, <1>3 DEF Traffic, InStep

LEMMA StillMoved ==
    ASSUME Types, UNCHANGED replies
    PROVE  Moved(0) /\ Noticed(0)
<1>1. /\ \A r : \A i \in Of(replies, r) : i + 0 = i /\ i - 0 = i
      /\ \A i \in Markers(replies) : i + 0 = i
  BY Places DEF Types
<1> QED
  BY <1>1 DEF Moved, Noticed

LEMMA ReceivedKept ==
    ASSUME DriverInv, NEW d \in {0, 1}, Moved(d), SameGame, SameCommand,
           UNCHANGED <<lock, inbox>> \/ inbox' \in {"none", "unknown"}
    PROVE  Received'
<1> SUFFICES ASSUME NEW r \in Requests
             PROVE  /\ lock' = r /\ inbox' = "busy" => Fresh(r)'
                    /\ \A v \in {"ok", "failed", "refused"} :
                           lock' = r /\ inbox' = v => Settled(r, v)'
                    /\ \A v \in {"ok", "failed", "refused"} :
                           active'.id = r /\ active'.result = v =>
                               Settled(r, v)' /\ Of(replies', r) = {}
  BY DEF Received
<1>1. /\ Fresh(r) => Fresh(r)'
      /\ \A v : Settled(r, v) => Settled(r, v)'
      /\ Of(replies, r) = {} => Of(replies', r) = {}
  BY FreshKept DEF Moved
<1>2. /\ lock = r /\ inbox = "busy" => Fresh(r)
      /\ \A v \in {"ok", "failed", "refused"} : lock = r /\ inbox = v => Settled(r, v)
      /\ \A v \in {"ok", "failed", "refused"} : active.id = r /\ active.result = v =>
             Settled(r, v) /\ Of(replies, r) = {}
  BY DEF DriverInv, Received
<1> QED
  BY <1>1, <1>2 DEF SameCommand

LEMMA ToldKept ==
    ASSUME DriverInv, NEW d \in {0, 1}, Moved(d), SameGame,
           \A r \in Requests :
               /\ answer'[r] # "none" => call'[r] = "answered"
               /\ \A v \in {"ok", "failed", "refused", "timeout"} :
                      answer'[r] = v => Settled(r, v)
               /\ call'[r] \in {"idle", "queued", "writing", "backoff"} => Fresh(r)
    PROVE  Told'
<1>1. ASSUME NEW r \in Requests
      PROVE  /\ Fresh(r) => Fresh(r)'
             /\ \A v : Settled(r, v) => Settled(r, v)'
             /\ ran'[r] \in {0, 1}
  BY FreshKept DEF DriverInv, Told, SameGame
<1> QED
  BY <1>1 DEF Told

-----------------------------------------------------------------------------
(* The workers of the callers *)

LEMMA SettledFresh ==
    ASSUME NEW r \in Requests, Fresh(r), NEW v \in {"refused", "timeout"}
    PROVE  Settled(r, v)
BY DEF Fresh, Settled

\* What a worker leaves alone.
WorkerLeaves == UNCHANGED <<stop, shard, pipe, streams, process, game, history>>

LEMMA WorkerFrame ==
    ASSUME DriverInv, WorkerLeaves
    PROVE  /\ UNCHANGED <<stop, shard, pipe, replies, reaped, game, ran, farewell>>
           /\ Moved(0) /\ SameGame /\ Noticed(0)
<1>1. UNCHANGED <<stop, shard, pipe, replies, reaped, game, ran, farewell>>
  BY DEF WorkerLeaves, streams, process, history
<1> QED
  BY <1>1, StillMoved DEF SameGame, DriverInv

\* A worker that leaves the lock, the slot and the inbox alone.
LEMMA CallerKeeps ==
    ASSUME DriverInv, WorkerLeaves, NEW r \in Requests, NEW x \in Calls, NEW v,
           call' = [call EXCEPT ![r] = x],
           UNCHANGED <<lock, inbox, active>>,
           x \in Holding <=> call[r] \in Holding, x # "writing", x # "backoff",
           x = "queued" => call[r] = "idle",
           x = "answered" \/ UNCHANGED answer, x # "idle",
           call[r] # "answered",
           x = "answered" => /\ answer' = [answer EXCEPT ![r] = v]
                             /\ call[r] \in {"idle", "queued"} /\ v \in {"refused", "timeout"},
           \/ UNCHANGED asked
           \/ /\ call[r] = "idle" /\ \E g \in Gens : asked' = [asked EXCEPT ![r] = g]
    PROVE  DriverInv'
<1>1. /\ UNCHANGED <<stop, shard, pipe, replies, reaped, game, ran, farewell>>
      /\ Moved(0) /\ SameGame /\ Noticed(0)
  BY WorkerFrame
<1>2. Types /\ Holders /\ Slot /\ Told /\ Received /\ Traffic
  BY DEF DriverInv
<1>3. /\ \A q \in Requests : call'[q] = IF q = r THEN x ELSE call[q]
      /\ call' \in [Requests -> Calls]
  BY <1>2 DEF Types
<1>4. /\ answer' \in [Requests -> Answers \union {"none"}]
      /\ \A q \in Requests : q # r => answer'[q] = answer[q]
      /\ x = "answered" => answer'[r] = v
      /\ x # "answered" => answer'[r] = answer[r]
  BY <1>2 DEF Types, Answers
<1>5. /\ asked' \in [Requests -> Gens]
      /\ \A q \in Requests : asked'[q] = asked[q] \/ (q = r /\ call[r] = "idle")
  BY <1>2 DEF Types
<1>6. Types'
  BY <1>1, <1>2, <1>3, <1>4, <1>5 DEF Types
<1>7. SameCommand
  BY DEF SameCommand
<1>8. Holders'
  BY <1>1, <1>2, <1>3 DEF Holders, ReadyIsSound
<1>9. Slot'
  BY <1>1, <1>2, <1>3, <1>5 DEF Slot
<1>10. \A q \in Requests : call[q] \in {"idle", "queued", "writing", "backoff"} => Fresh(q)
  BY <1>2 DEF Told
<1>11. ASSUME NEW q \in Requests
       PROVE  /\ answer'[q] # "none" => call'[q] = "answered"
              /\ \A w \in {"ok", "failed", "refused", "timeout"} :
                      answer'[q] = w => Settled(q, w)
              /\ call'[q] \in {"idle", "queued", "writing", "backoff"} => Fresh(q)
  <2>1. /\ answer[q] # "none" => call[q] = "answered"
        /\ \A w \in {"ok", "failed", "refused", "timeout"} : answer[q] = w => Settled(q, w)
        /\ call[q] \in {"idle", "queued", "writing", "backoff"} => Fresh(q)
    BY <1>2 DEF Told
  <2>2. CASE q # r
    BY <1>3, <1>4, <2>1, <2>2
  <2>3. CASE q = r /\ x # "answered"
    BY <1>3, <1>4, <2>1, <2>3
  <2>4. CASE q = r /\ x = "answered"
    <3>1. answer'[q] = v /\ call'[q] = "answered" /\ Fresh(q)
      BY <1>3, <1>4, <2>1, <2>4
    <3>2. Settled(q, "refused") /\ Settled(q, "timeout")
      BY <3>1, SettledFresh
    <3> QED
      BY <2>4, <3>1, <3>2
  <2> QED
    BY <2>2, <2>3, <2>4
<1>12. Told'
  BY <1>1, <1>11, ToldKept
<1>13. Received'
  BY <1>1, <1>7, ReceivedKept
<1>14. Traffic'
  BY <1>1, <1>3, <1>5, <1>6, <1>7, <1>10, TrafficKept
<1> QED
  BY <1>6, <1>8, <1>9, <1>12, <1>13, <1>14 DEF DriverInv

LEMMA CallerSteps ==
    ASSUME DriverInv, NEW r \in Requests,
           Submit(r) \/ QueueTimesOut(r) \/ WriteFails(r) \/ GiveUp(r)
    PROVE  DriverInv'
<1>1. Types
  BY DEF DriverInv
<1>2. WorkerLeaves
  BY DEF Submit, QueueTimesOut, WriteFails, GiveUp, WorkerLeaves, process, streams, history
<1>3. CASE Submit(r)
  <2>1. CASE /\ Step(r, "queued") /\ asked' = [asked EXCEPT ![r] = shard.generation]
    <3>1. shard.generation \in Gens
      BY <1>1 DEF Types, DriverStates, Gens
    <3>2. /\ call[r] = "idle" /\ call' = [call EXCEPT ![r] = "queued"]
          /\ UNCHANGED <<answer, lock, inbox, active>>
      BY <1>3, <2>1 DEF Submit, Step
    <3> QED
      BY <1>2, <2>1, <3>1, <3>2, CallerKeeps DEF Holding, Calls
  <2>2. CASE Answer(r, "refused") /\ UNCHANGED asked
    <3>1. /\ call[r] = "idle" /\ call' = [call EXCEPT ![r] = "answered"]
          /\ answer' = [answer EXCEPT ![r] = "refused"]
          /\ UNCHANGED <<lock, inbox, active, asked>>
      BY <1>3, <2>2 DEF Submit, Answer
    <3> QED
      BY <1>2, <3>1, CallerKeeps DEF Holding, Calls
  <2> QED
    BY <1>3, <2>1, <2>2 DEF Submit
<1>4. CASE QueueTimesOut(r)
  <2>1. /\ call[r] = "queued" /\ call' = [call EXCEPT ![r] = "answered"]
        /\ answer' = [answer EXCEPT ![r] = "timeout"]
        /\ UNCHANGED <<lock, inbox, active, asked>>
    BY <1>4 DEF QueueTimesOut, Answer
  <2> QED
    BY <1>2, <2>1, CallerKeeps DEF Holding, Calls
<1>5. CASE WriteFails(r) \/ GiveUp(r)
  <2>1. /\ call[r] \in {"writing", "waiting"} /\ call' = [call EXCEPT ![r] = "expiring"]
        /\ UNCHANGED <<answer, lock, inbox, active, asked>>
    BY <1>5 DEF WriteFails, GiveUp, Step
  <2> QED
    BY <1>2, <2>1, CallerKeeps DEF Holding, Calls
<1> QED
  BY <1>3, <1>4, <1>5

\* A worker answers its caller and lets go.
LEMMA ReleaseKeeps ==
    ASSUME DriverInv, WorkerLeaves, NEW r \in Requests, NEW v \in Answers,
           lock \in {r, "free"}, call[r] # "answered",
           call' = [call EXCEPT ![r] = "answered"], answer' = [answer EXCEPT ![r] = v],
           v = "unknown" \/ Settled(r, v),
           UNCHANGED asked, lock' = "free", inbox' = "none",
           active' \in Pendings, SameCommand, ~active'.open
    PROVE  DriverInv'
<1>1. /\ UNCHANGED <<stop, shard, pipe, replies, reaped, game, ran, farewell>>
      /\ Moved(0) /\ SameGame /\ Noticed(0)
  BY WorkerFrame
<1>2. Types /\ Holders /\ Slot /\ Told /\ Received /\ Traffic
  BY DEF DriverInv
<1>3. /\ \A q \in Requests : call'[q] = IF q = r THEN "answered" ELSE call[q]
      /\ call' \in [Requests -> Calls]
  BY <1>2 DEF Types, Calls
<1>4. /\ answer' \in [Requests -> Answers \union {"none"}]
      /\ \A q \in Requests : answer'[q] = IF q = r THEN v ELSE answer[q]
  BY <1>2 DEF Types
<1>5. Types'
  BY <1>1, <1>2, <1>3, <1>4 DEF Types
<1>6. \A q \in Requests : q # r => call[q] \notin Holding
  BY <1>2, RequestsAssumption DEF Holders
<1>7. Holders'
  BY <1>1, <1>2, <1>3, <1>6, RequestsAssumption DEF Holders, ReadyIsSound, Holding
<1>8. Slot'
  BY <1>1, <1>2, <1>3, <1>6, RequestsAssumption DEF Slot, SameCommand, Holding
<1>9. ASSUME NEW q \in Requests
      PROVE  /\ answer'[q] # "none" => call'[q] = "answered"
             /\ \A w \in {"ok", "failed", "refused", "timeout"} :
                     answer'[q] = w => Settled(q, w)
             /\ call'[q] \in {"idle", "queued", "writing", "backoff"} => Fresh(q)
  BY <1>2, <1>3, <1>4 DEF Told
<1>10. Told'
  BY <1>1, <1>9, ToldKept
<1>11. Received'
  BY <1>1, ReceivedKept
<1>12. Traffic'
  BY <1>1, <1>3, <1>5, TrafficKept
<1> QED
  BY <1>5, <1>7, <1>8, <1>10, <1>11, <1>12 DEF DriverInv

LEMMA ReceiveKeeps ==
    ASSUME DriverInv, NEW r \in Requests, Receive(r)
    PROVE  DriverInv'
<1>1. WorkerLeaves
  BY DEF Receive, WorkerLeaves, process, streams, history
<1>2. Types /\ Holders /\ Slot /\ Told /\ Received /\ Traffic
  BY DEF DriverInv
<1>3. /\ call[r] = "waiting" /\ lock = r /\ inbox # "none" /\ inbox' = "none"
      /\ UNCHANGED <<asked, active>>
  BY <1>2 DEF Receive, Holders, Holding
<1>4. SameCommand /\ active' \in Pendings /\ ~active'.open
  BY <1>2, <1>3 DEF SameCommand, Types, Slot
<1>5. CASE inbox # "busy"
  <2>1. /\ call' = [call EXCEPT ![r] = "answered"] /\ answer' = [answer EXCEPT ![r] = inbox]
        /\ lock' = "free"
    BY <1>5 DEF Receive, Answer
  <2>2. PICK v \in Answers : v = inbox
    BY <1>2, <1>3, <1>5 DEF Types, Values, Answers
  <2>3. v = "unknown" \/ Settled(r, v)
    BY <1>2, <1>3, <1>5, <2>2 DEF Types, Values, Received
  <2> QED
    BY <1>1, <1>3, <1>4, <2>1, <2>2, <2>3, ReleaseKeeps
<1>6. CASE inbox = "busy"
  <2>1. call' = [call EXCEPT ![r] = "backoff"] /\ UNCHANGED <<answer, lock>>
    BY <1>6 DEF Receive, Step
  <2>2. /\ \A q \in Requests : call'[q] = IF q = r THEN "backoff" ELSE call[q]
        /\ call' \in [Requests -> Calls]
    BY <1>2, <2>1 DEF Types, Calls
  <2>3. /\ UNCHANGED <<stop, shard, pipe, replies, reaped, game, ran, farewell>>
        /\ Moved(0) /\ SameGame /\ Noticed(0)
    BY <1>1, WorkerFrame
  <2>4. Types'
    BY <1>2, <1>3, <2>1, <2>2, <2>3 DEF Types
  <2>5. Holders'
    BY <1>2, <1>3, <2>1, <2>2, <2>3 DEF Holders, ReadyIsSound, Holding
  <2>6. Fresh(r) /\ active = NoCommand
    BY <1>2, <1>3, <1>6 DEF Received, Slot
  <2>7. Slot'
    BY <1>2, <1>3, <1>6, <2>1, <2>2, <2>3, <2>6 DEF Slot, NoCommand
  <2>8. ASSUME NEW q \in Requests
        PROVE  /\ answer'[q] # "none" => call'[q] = "answered"
               /\ \A w \in {"ok", "failed", "refused", "timeout"} :
                       answer'[q] = w => Settled(q, w)
               /\ call'[q] \in {"idle", "queued", "writing", "backoff"} => Fresh(q)
    BY <1>2, <1>3, <2>1, <2>2, <2>6 DEF Told
  <2>9. Told'
    BY <2>3, <2>8, ToldKept
  <2>10. Received'
    BY <1>3, <1>4, <2>3, ReceivedKept
  <2>11. Traffic'
    BY <1>3, <1>4, <2>2, <2>3, <2>4, TrafficKept
  <2> QED
    BY <2>4, <2>5, <2>7, <2>9, <2>10, <2>11 DEF DriverInv
<1> QED
  BY <1>5, <1>6

LEMMA ExpireKeeps ==
    ASSUME DriverInv, NEW r \in Requests, Expire(r)
    PROVE  DriverInv'
<1>1. WorkerLeaves
  BY DEF Expire, WorkerLeaves, process, streams, history
<1>2. Types /\ Holders /\ Slot /\ Told /\ Received /\ Traffic
  BY DEF DriverInv
<1>3. /\ call[r] = "expiring" /\ lock = r /\ lock' = "free" /\ inbox' = "none"
      /\ UNCHANGED asked
  BY <1>2 DEF Expire, Holders, Holding
<1>4. active.id = r => active # NoCommand
  BY RequestsAssumption DEF NoCommand
<1>5. CASE active.id = r
  <2> DEFINE new == [active EXCEPT !.completed = TRUE, !.open = FALSE]
  <2>1. /\ active' = new
        /\ Answer(r, IF active.result = "none" THEN "unknown" ELSE active.result)
    BY <1>5 DEF Expire
  <2>2. /\ new \in Pendings /\ new.id = active.id /\ new.gen = active.gen
        /\ new.accepted = active.accepted /\ new.result = active.result
        /\ new.synchronized = active.synchronized /\ ~new.open
    BY <1>2 DEF Types, Pendings
  <2> HIDE DEF new
  <2>3. new # NoCommand
    BY <1>5, <2>2, RequestsAssumption DEF NoCommand
  <2>4. SameCommand /\ active' \in Pendings /\ ~active'.open
    BY <1>4, <1>5, <2>1, <2>2, <2>3 DEF SameCommand
  <2>5. active.result \in {"none", "ok", "failed", "refused"}
    BY <1>2 DEF Types, Pendings
  <2>6. PICK v \in Answers : v = IF active.result = "none" THEN "unknown" ELSE active.result
    BY <2>5 DEF Answers
  <2>7. v = "unknown" \/ Settled(r, v)
    BY <1>2, <1>5, <2>5, <2>6 DEF Received
  <2>8. call' = [call EXCEPT ![r] = "answered"] /\ answer' = [answer EXCEPT ![r] = v]
    BY <2>1, <2>6 DEF Answer
  <2> QED
    BY <1>1, <1>3, <2>4, <2>7, <2>8, ReleaseKeeps
<1>6. CASE active.id # r
  <2>1. /\ call' = [call EXCEPT ![r] = "answered"] /\ answer' = [answer EXCEPT ![r] = "unknown"]
        /\ UNCHANGED active
    BY <1>6 DEF Expire, Answer
  <2>2. ~active.open
    BY <1>2, <1>3, <1>6 DEF Slot
  <2>3. SameCommand /\ active' \in Pendings /\ ~active'.open
    BY <1>2, <2>1, <2>2 DEF SameCommand, Types
  <2> QED
    BY <1>1, <1>3, <2>1, <2>3, ReleaseKeeps DEF Answers
<1> QED
  BY <1>5, <1>6

LEMMA BackoffKeeps ==
    ASSUME DriverInv, NEW r \in Requests, BackoffTimesOut(r)
    PROVE  DriverInv'
<1>1. WorkerLeaves
  BY DEF BackoffTimesOut, WorkerLeaves, process, streams, history
<1>2. Types /\ Holders /\ Slot /\ Told /\ Received /\ Traffic
  BY DEF DriverInv
<1>3. /\ call[r] = "backoff" /\ lock = r /\ lock' = "free" /\ UNCHANGED <<asked, inbox, active>>
      /\ call' = [call EXCEPT ![r] = "answered"] /\ answer' = [answer EXCEPT ![r] = "timeout"]
  BY <1>2 DEF BackoffTimesOut, Answer, Holders, Holding
<1>4. inbox = "none" /\ active = NoCommand /\ Fresh(r)
  BY <1>2, <1>3 DEF Slot, Told
<1>5. Settled(r, "timeout")
  BY <1>4, SettledFresh
<1>6. SameCommand /\ active' \in Pendings /\ ~active'.open
  BY <1>2, <1>3, <1>4 DEF SameCommand, Types, NoCommand
<1> QED
  BY <1>1, <1>3, <1>4, <1>5, <1>6, ReleaseKeeps DEF Answers

LEMMA DispatchKeeps ==
    ASSUME DriverInv, NEW r \in Requests, Dispatch(r)
    PROVE  DriverInv'
<1>1. WorkerLeaves
  BY DEF Dispatch, WorkerLeaves, process, streams, history
<1>2. Types /\ Holders /\ Slot /\ Told /\ Received /\ Traffic
  BY DEF DriverInv
<1>3. /\ call[r] \in {"queued", "backoff"} /\ lock \in {r, "free"} /\ inbox' = "none"
      /\ UNCHANGED asked
      /\ call[r] = "backoff" => active = NoCommand
      /\ call[r] = "queued" => lock = "free"
  BY <1>2 DEF Dispatch, Holders, Holding, Slot
<1>4. Fresh(r)
  BY <1>2, <1>3 DEF Told
<1>5. ~active.open
  BY <1>2, <1>3, RequestsAssumption DEF Slot, NoCommand
<1>6. CASE ~Dispatchable(r)
  <2>1. /\ call' = [call EXCEPT ![r] = "answered"] /\ answer' = [answer EXCEPT ![r] = "refused"]
        /\ lock' = "free" /\ UNCHANGED active
    BY <1>6 DEF Dispatch, Answer
  <2>2. SameCommand /\ active' \in Pendings /\ ~active'.open
    BY <1>2, <1>5, <2>1 DEF SameCommand, Types
  <2>3. Settled(r, "refused")
    BY <1>4, SettledFresh
  <2> QED
    BY <1>1, <1>3, <2>1, <2>2, <2>3, ReleaseKeeps DEF Answers
<1>7. CASE Dispatchable(r)
  <2> DEFINE new == [NoCommand EXCEPT !.id = r, !.gen = asked[r],
                        !.synchronized = (active = NoCommand), !.open = TRUE]
  <2>1. /\ active' = new /\ lock' = r
        /\ call' = [call EXCEPT ![r] = "writing"] /\ UNCHANGED answer
    BY <1>7 DEF Dispatch, Step
  <2>2. asked[r] \in Gens /\ (active = NoCommand) \in BOOLEAN
    BY <1>2 DEF Types
  <2>3. /\ new.id = r /\ new.gen = asked[r] /\ ~new.accepted /\ new.result = "none"
        /\ new.synchronized <=> active = NoCommand
    BY DEF NoCommand
  <2>4. new \in Pendings
    BY <2>2 DEF NoCommand, Pendings, Gens
  <2> HIDE DEF new
  <2>5. new # NoCommand
    BY <2>3, RequestsAssumption DEF NoCommand
  <2>6. /\ \A q \in Requests : call'[q] = IF q = r THEN "writing" ELSE call[q]
        /\ call' \in [Requests -> Calls]
    BY <1>2, <2>1 DEF Types, Calls
  <2>7. /\ UNCHANGED <<stop, shard, pipe, replies, reaped, game, ran, farewell>>
        /\ Moved(0) /\ SameGame /\ Noticed(0)
    BY <1>1, WorkerFrame
  <2>8. Types'
    BY <1>2, <1>3, <2>1, <2>4, <2>6, <2>7 DEF Types
  <2>9. shard.running /\ ~farewell /\ stop = "none"
    BY <1>2, <1>7 DEF Dispatchable, Holders, ReadyIsSound
  <2>10. \A q \in Requests : q # r => call[q] \notin Holding
    BY <1>2, <1>3, RequestsAssumption DEF Holders
  <2>11. Holders'
    BY <1>2, <2>1, <2>6, <2>7, <2>9, <2>10, RequestsAssumption
       DEF Holders, ReadyIsSound, Holding
  <2>12. Slot'
    BY <1>3, <2>1, <2>3, <2>6, <2>7, <2>10 DEF Slot, Holding
  <2>13. ASSUME NEW q \in Requests
         PROVE  /\ answer'[q] # "none" => call'[q] = "answered"
                /\ \A w \in {"ok", "failed", "refused", "timeout"} :
                        answer'[q] = w => Settled(q, w)
                /\ call'[q] \in {"idle", "queued", "writing", "backoff"} => Fresh(q)
    BY <1>2, <1>3, <1>4, <2>1, <2>6 DEF Told
  <2>14. Told'
    BY <2>7, <2>13, ToldKept
  <2>15. Received'
    BY <1>3, <2>1, <2>3 DEF Received
  <2>16. ASSUME NEW q \in Requests PROVE Unread(q)' /\ Replied(q)'
    <3>1. Unread(q) /\ Replied(q)
      BY <1>2 DEF Traffic
    <3>2. CASE q = r
      BY <1>4, <2>7, <3>2 DEF Fresh, Unread, Replied
    <3>3. CASE q # r
      <4>1. active'.id # q
        BY <2>1, <2>3, <3>3
      <4>2. HeardYet(q)' /\ (Rejected(q) => Rejected(q)')
        BY <2>7, <4>1 DEF HeardYet, Rejected
      <4>3. \A n : Heard(q, n)'
        BY <4>1 DEF Heard
      <4>4. Unread(q)'
        BY <2>7, <1>3, <3>1, <4>1, <4>2 DEF Unread
      <4>5. Replied(q)'
        BY <2>7, <1>3, <3>1, <4>2, <4>3 DEF Replied
      <4> QED
        BY <4>4, <4>5
    <3> QED
      BY <3>2, <3>3
  <2>17. Fresh(r)'
    BY <1>4, <2>7 DEF Fresh
  <2>18. OneFrame'
    BY <2>1, <2>3, <2>17 DEF OneFrame
  <2>19. active = NoCommand => Nobody
    BY <1>2, <2>9 DEF Traffic, InStep
  <2>20. Nobody => Nobody' /\ Alone(r, 0)'
    BY <2>7 DEF Nobody, Alone
  <2>21. Of(replies', r) = {}
    BY <2>17 DEF Fresh
  <2>22. InStep'
    BY <2>1, <2>3, <2>5, <2>19, <2>20, <2>21 DEF InStep
  <2> QED
    BY <2>8, <2>11, <2>12, <2>14, <2>15, <2>16, <2>18, <2>22 DEF DriverInv, Traffic
<1> QED
  BY <1>6, <1>7

LEMMA WriteKeeps ==
    ASSUME DriverInv, NEW r \in Requests, Write(r)
    PROVE  DriverInv'
<1>1. Types /\ Holders /\ Slot /\ Told /\ Received /\ Traffic
  BY DEF DriverInv
<1>2. /\ call[r] = "writing" /\ game.alive /\ pipe = NoFrame /\ pipe' = r
      /\ call' = [call EXCEPT ![r] = "waiting"]
      /\ UNCHANGED <<answer, asked, lock, inbox, stop, active, shard, replies, reaped, game,
                     ran, farewell>>
  BY DEF Write, Step, streams, process, history
<1>3. /\ lock = r /\ shard.running /\ active.id = r /\ ~farewell /\ Fresh(r)
      /\ inbox \in {"none", "unknown"} /\ ~active.accepted /\ active.result = "none"
      /\ answer[r] = "none"
  BY <1>1, <1>2, RequestsAssumption DEF Holders, Holding, Slot, Told
<1>4. /\ \A q \in Requests : call'[q] = IF q = r THEN "waiting" ELSE call[q]
      /\ call' \in [Requests -> Calls]
  BY <1>1, <1>2 DEF Types, Calls
<1>5. Types'
  BY <1>1, <1>2, <1>4 DEF Types
<1>6. Holders'
  BY <1>1, <1>2, <1>3, <1>4, RequestsAssumption DEF Holders, ReadyIsSound, Holding
<1>7. Slot'
  BY <1>1, <1>2, <1>3, <1>4 DEF Slot
<1>8. ASSUME NEW q \in Requests, q # r
      PROVE  (Fresh(q) => Fresh(q)') /\ \A v : Settled(q, v) => Settled(q, v)'
  BY <1>2, <1>8 DEF Fresh, Settled
<1>9. Told'
  <2> SUFFICES ASSUME NEW q \in Requests
               PROVE  /\ answer'[q] # "none" => call'[q] = "answered"
                      /\ \A v \in {"ok", "failed", "refused", "timeout"} :
                             answer'[q] = v => Settled(q, v)'
                      /\ ran'[q] \in {0, 1}
                      /\ call'[q] \in {"idle", "queued", "writing", "backoff"} => Fresh(q)'
    BY DEF Told
  <2>1. CASE q = r
    BY <1>1, <1>2, <1>3, <1>4, <2>1 DEF Told
  <2>2. CASE q # r
    BY <1>1, <1>2, <1>4, <1>8, <2>2 DEF Told
  <2> QED
    BY <2>1, <2>2
<1>10. Received'
  BY <1>2, <1>3 DEF Received
<1>11. ASSUME NEW q \in Requests PROVE Unread(q)' /\ Replied(q)'
  <2>1. Unread(q) /\ Replied(q)
    BY <1>1 DEF Traffic
  <2>2. CASE q = r
    BY <1>2, <1>3, <2>2 DEF Fresh, Unread, Replied
  <2>3. CASE q # r
    <3>1. (HeardYet(q) => HeardYet(q)') /\ (Rejected(q) => Rejected(q)')
      BY <1>2 DEF HeardYet, Rejected
    <3>2. ASSUME NEW n, Heard(q, n) PROVE Heard(q, n)'
      BY <1>2, <3>2 DEF Heard
    <3>3. Unread(q)'
      BY <1>2, <2>1, <2>3, <3>1 DEF Unread
    <3>4. Replied(q)'
      BY <1>2, <2>1, <3>1, <3>2 DEF Replied
    <3> QED
      BY <3>3, <3>4
  <2> QED
    BY <2>2, <2>3
<1>12. OneFrame'
  BY <1>2, <1>3 DEF OneFrame
<1>13. InStep'
  <2>1. active.synchronized => Nobody
    BY <1>1, <1>2, <1>3 DEF Traffic, InStep
  <2>2. Nobody => Alone(r, 0)'
    BY <1>2 DEF Nobody, Alone
  <2>3. Of(replies', r) = {} /\ active'.id = r
    BY <1>2, <1>3 DEF Fresh
  <2>4. active' # NoCommand
    BY <1>2, <1>3, RequestsAssumption DEF NoCommand
  <2> QED
    BY <1>2, <1>4, <2>1, <2>2, <2>3, <2>4 DEF InStep
<1> QED
  BY <1>5, <1>6, <1>7, <1>9, <1>10, <1>11, <1>12, <1>13 DEF DriverInv, Traffic

-----------------------------------------------------------------------------
(* The state of the driver *)

\* DriverState, whoever changed it last.
Sane(st) ==
    /\ st \in DriverStates
    /\ st.stop_requested => st.stopping
    /\ st.ready => /\ st.running /\ ~st.failure /\ ~st.stopping /\ st.native_ready
                   /\ st.health # 0 /\ st.health = st.generation

LEMMA SaneState ==
    ASSUME DriverInv
    PROVE  Sane(shard)
BY DEF DriverInv, Types, Holders, ReadyIsSound, Sane

\* st' keeps what only stop() and the end of the pump change.
Follows(new, st) == new.running = st.running /\ new.stop_requested = st.stop_requested

LEMMA RecomputeFacts ==
    ASSUME NEW st \in DriverStates, st.stop_requested => st.stopping
    PROVE  /\ Sane(RecomputeReady(st)) /\ Follows(RecomputeReady(st), st)
           /\ RecomputeReady(st).failure = st.failure
<1> DEFINE now == /\ st.running /\ ~st.stopping /\ ~st.failure
                  /\ st.native_ready
                  /\ st.health # 0 /\ st.health = st.generation
           new == [st EXCEPT !.ready = now]
<1>1. now \in BOOLEAN
  OBVIOUS
<1>2. now => /\ st.running /\ ~st.failure /\ ~st.stopping /\ st.native_ready
             /\ st.health # 0 /\ st.health = st.generation
  OBVIOUS
<1>3. RecomputeReady(st) = new
  BY DEF RecomputeReady
<1> HIDE DEF now
<1>4. /\ new.ready = now /\ new.running = st.running /\ new.failure = st.failure
      /\ new.stopping = st.stopping /\ new.stop_requested = st.stop_requested
      /\ new.health = st.health /\ new.generation = st.generation
      /\ new.native_ready = st.native_ready
  BY DEF DriverStates
<1>5. new \in DriverStates
  BY <1>1 DEF DriverStates
<1> HIDE DEF new
<1> QED
  BY <1>2, <1>3, <1>4, <1>5 DEF Sane, Follows

LEMMA AdvancedFacts ==
    ASSUME Sane(shard), NEW gen \in Gens
    PROVE  /\ Sane(AdvancedState(gen)) /\ Follows(AdvancedState(gen), shard)
           /\ AdvancedState(gen).failure = shard.failure
<1>1. CASE shard.generation = gen
  BY <1>1 DEF AdvancedState, Follows
<1>2. CASE shard.generation # gen
  <2> DEFINE new == [shard EXCEPT !.generation = gen, !.stopping = shard.stop_requested,
                                  !.ready = FALSE, !.health = 0]
  <2>1. AdvancedState(gen) = new
    BY <1>2 DEF AdvancedState
  <2>2. shard \in DriverStates /\ 0 \in Gens
    BY GenerationAssumption DEF Sane, Gens
  <2>3. /\ ~new.ready /\ new.stopping = shard.stop_requested
        /\ new.stop_requested = shard.stop_requested /\ new.running = shard.running
        /\ new.failure = shard.failure
    BY <2>2 DEF DriverStates
  <2>4. shard.stop_requested \in BOOLEAN
    BY <2>2 DEF DriverStates
  <2>5. new \in DriverStates
    BY <2>2, <2>4 DEF DriverStates, Gens
  <2> HIDE DEF new
  <2> QED
    BY <2>1, <2>3, <2>5 DEF Sane, Follows
<1> QED
  BY <1>1, <1>2

\* Steps of anyone who leaves the callers, the lock and the game alone.
LEMMA BesideKeeps ==
    ASSUME DriverInv, NEW d \in {0, 1}, Moved(d), Noticed(d), SameGame, SameCommand,
           UNCHANGED <<call, asked, answer>>, Types', Holders', Slot',
           shard'.running => shard.running, farewell => farewell',
           UNCHANGED <<lock, inbox>> \/ inbox' \in {"none", "unknown"}
    PROVE  DriverInv'
<1>1. Told'
  BY ToldKept DEF DriverInv, Told
<1>2. Received'
  BY ReceivedKept
<1>3. Traffic'
  BY TrafficKept
<1> QED
  BY <1>1, <1>2, <1>3 DEF DriverInv

\* Handing "unknown" to the waiting worker, or nothing.
Unknown ==
    \/ active # NoCommand /\ Deliver(active, "unknown")
    \/ UNCHANGED <<active, inbox>>

LEMMA UnknownFacts ==
    ASSUME DriverInv, Unknown, UNCHANGED <<call, asked, lock>>,
           shard'.running => shard.running
    PROVE  /\ Slot' /\ SameCommand
           /\ active' \in Pendings /\ inbox' \in {inbox, "unknown"}
<1>1. Types /\ Slot
  BY DEF DriverInv
<1>2. CASE UNCHANGED <<active, inbox>>
  BY <1>1, <1>2 DEF Slot, SameCommand, Types
<1>3. CASE active # NoCommand /\ Deliver(active, "unknown")
  <2> DEFINE new == [active EXCEPT !.completed = TRUE, !.open = FALSE]
  <2>1. active' = new /\ inbox' = IF active.open THEN "unknown" ELSE inbox
    BY <1>3 DEF Deliver
  <2>2. /\ new \in Pendings /\ new.id = active.id /\ new.gen = active.gen
        /\ new.accepted = active.accepted /\ new.result = active.result
        /\ new.synchronized = active.synchronized /\ ~new.open
    BY <1>1 DEF Types, Pendings
  <2> HIDE DEF new
  <2>3. new # NoCommand /\ active.id \in Requests
    BY <1>1, <1>3, <2>2, RequestsAssumption DEF Slot, NoCommand
  <2>4. SameCommand
    BY <1>3, <2>1, <2>2, <2>3 DEF SameCommand
  <2>5. Slot'
    BY <1>1, <1>3, <2>1, <2>2, <2>3 DEF Slot
  <2> QED
    BY <2>1, <2>2, <2>4, <2>5
<1> QED
  BY <1>2, <1>3 DEF Unknown

\* A new DriverState and "unknown" for a worker are all that most records bring.
LEMMA RecordKeeps ==
    ASSUME DriverInv, NEW d \in {0, 1}, Moved(d), Noticed(d), Unknown,
           Sane(shard'), Follows(shard', shard), replies' \in Seq(ReplyFrames),
           UNCHANGED <<call, asked, answer, lock, stop, pipe, reaped, game, ran, farewell>>
    PROVE  DriverInv' /\ SameCommand
<1>1. Types /\ Holders /\ Slot
  BY DEF DriverInv
<1>2. shard'.running => shard.running
  BY DEF Follows
<1>3. /\ Slot' /\ SameCommand /\ active' \in Pendings /\ inbox' \in {inbox, "unknown"}
  BY <1>2, UnknownFacts
<1>4. Types'
  BY <1>1, <1>3 DEF Types, Values, Sane
<1>5. Holders'
  BY <1>1 DEF Holders, ReadyIsSound, Sane, Follows
<1>6. SameGame
  BY DEF SameGame
<1>7. UNCHANGED <<lock, inbox>> \/ inbox' \in {"none", "unknown"}
  BY <1>3
<1> QED
  BY <1>2, <1>3, <1>4, <1>5, <1>6, <1>7, BesideKeeps

LEMMA StopStepsKeep ==
    ASSUME DriverInv, \/ RequestStop \/ StopLocks \/ StopCannotSend \/ StopEscalates
                      \/ StopReturns \/ RequestKill \/ UNCHANGED vars
    PROVE  DriverInv'
<1> USE DEF workers, streams, process, history
<1>1. Types /\ Holders /\ Slot
  BY DEF DriverInv
<1>2. UNCHANGED <<call, asked, answer, inbox, active, pipe, replies, reaped, game, ran, farewell>>
  BY DEF RequestStop, StopLocks, StopCannotSend, StopEscalates, StopReturns, RequestKill, vars
<1>3. Moved(0) /\ Noticed(0) /\ SameGame /\ SameCommand
  BY <1>1, <1>2, StillMoved DEF SameGame, SameCommand
<1>4. CASE RequestStop
  <2> DEFINE new == [shard EXCEPT !.stop_requested = TRUE, !.stopping = TRUE, !.ready = FALSE]
  <2>1. /\ shard' = new /\ stop = "none" /\ stop' \in {"locking", "ending"}
        /\ UNCHANGED lock
    BY <1>4 DEF RequestStop
  <2>2. /\ new \in DriverStates /\ new.stop_requested /\ new.stopping /\ ~new.ready
        /\ new.running = shard.running
    BY <1>1 DEF Types, DriverStates
  <2> HIDE DEF new
  <2>3. Types'
    BY <1>1, <1>2, <2>1, <2>2 DEF Types
  <2>4. Holders'
    BY <1>1, <1>2, <2>1, <2>2 DEF Holders, ReadyIsSound
  <2>5. Slot'
    BY <1>1, <1>2, <2>1, <2>2 DEF Slot
  <2> QED
    BY <1>2, <1>3, <2>1, <2>2, <2>3, <2>4, <2>5, BesideKeeps
<1>5. CASE StopLocks \/ StopCannotSend \/ StopEscalates \/ StopReturns
  <2>1. /\ UNCHANGED shard
        /\ \/ stop = "locking" /\ lock = "free" /\ lock' = "stop" /\ stop' = "sending"
           \/ /\ stop \in {"locking", "sending"} /\ stop' = "exiting"
              /\ lock' = IF lock = "stop" THEN "free" ELSE lock
           \/ stop \in {"exiting", "ending"} /\ stop' \in {"ending", "done"} /\ UNCHANGED lock
    BY <1>5 DEF StopLocks, StopCannotSend, StopEscalates, StopReturns
  <2>2. \/ lock' = lock
        \/ lock \in {"free", "stop"} /\ lock' \in {"free", "stop"}
    BY <2>1
  <2>3. Types'
    BY <1>1, <1>2, <2>1, <2>2 DEF Types
  <2>4. Holders'
    BY <1>1, <1>2, <2>1, <2>2, RequestsAssumption DEF Holders, ReadyIsSound
  <2>5. lock' # lock => inbox = "none" /\ ~active.open
    BY <1>1, <2>2, RequestsAssumption DEF Slot, NoCommand
  <2>6. Slot'
    BY <1>1, <1>2, <2>1, <2>2, <2>5, RequestsAssumption DEF Slot
  <2>7. UNCHANGED <<lock, inbox>> \/ inbox' \in {"none", "unknown"}
    BY <1>2, <2>5
  <2> QED
    BY <1>2, <1>3, <2>1, <2>3, <2>4, <2>6, <2>7, BesideKeeps
<1>6. CASE RequestKill \/ UNCHANGED vars
  <2>1. UNCHANGED <<lock, stop, shard>>
    BY <1>6 DEF RequestKill, vars
  <2>2. Types' /\ Holders' /\ Slot'
    BY <1>1, <1>2, <2>1 DEF Types, Holders, Slot, ReadyIsSound
  <2> QED
    BY <1>2, <1>3, <2>1, <2>2, BesideKeeps
<1> QED
  BY <1>4, <1>5, <1>6

LEMMA ReapKeeps ==
    ASSUME DriverInv, Reap
    PROVE  DriverInv'
<1>1. Types /\ Holders /\ Slot
  BY DEF DriverInv
<1>2. /\ ~game.alive /\ reaped' = TRUE
      /\ UNCHANGED <<call, asked, answer, lock, inbox, stop, active, shard, pipe, game, ran,
                     farewell>>
  BY DEF Reap, workers, history
<1>3. PICK kept \in 0 .. Len(replies) : replies' = SubSeq(replies, 1, kept)
  BY DEF Reap
<1>4. /\ replies' \in Seq(ReplyFrames)
      /\ \A r : \A i \in Of(replies', r) : i \in Of(replies, r) /\ replies'[i] = replies[i]
      /\ \A r : \A i \in Of(replies, r) : i <= kept => i \in Of(replies', r)
      /\ \A i \in Markers(replies') : i \in Markers(replies) /\ replies'[i] = replies[i]
      /\ Len(replies') = kept
  <2>1. replies \in Seq(ReplyFrames)
    BY <1>1 DEF Types
  <2>2. PICK t : t = SubSeq(replies, 1, kept) /\ t = replies'
    BY <1>3
  <2>3. /\ t \in Seq(ReplyFrames) /\ Len(t) = kept
        /\ \A r : \A i \in Of(t, r) : i \in Of(replies, r) /\ t[i] = replies[i]
        /\ \A r : \A i \in Of(replies, r) : i <= kept => i \in Of(t, r)
        /\ \A i \in Markers(t) : i \in Markers(replies) /\ t[i] = replies[i]
    <3> HIDE <1>3
    <3> QED BY <2>1, <2>2, PrefixKept
  <2> QED
    BY <2>2, <2>3, Zenon
<1>5. /\ \A r : Of(replies', r) \subseteq 1 .. kept /\ Of(replies, r) \subseteq Int
      /\ Markers(replies') \subseteq Int
  BY <1>1, <1>4, Places DEF Types
<1>6. Moved(0)
  <2>1. \A i \in Int : i + 0 = i
    OBVIOUS
  <2>2. \A r : \A i \in Of(replies', r) : i \in Int
    BY <1>5
  <2> QED
    BY <1>4, <1>5, <2>1, <2>2 DEF Moved
<1>7. Noticed(0)
  <2>1. game.command.step # "accepted"
    BY <1>1, <1>2 DEF Holders, Idle
  <2>2. ASSUME NEW r, NEW j \in Of(replies, r), NEW i \in Of(replies', r), j < i + 0
        PROVE  j - 0 \in Of(replies', r)
    <3>1. j \in Int /\ i \in 1 .. kept
      BY <1>5
    <3>2. j <= kept /\ j - 0 = j
      BY <2>2, <3>1
    <3> QED
      BY <1>4, <3>2
  <2> QED
    BY <2>1, <2>2 DEF Noticed
<1>8. SameGame /\ SameCommand
  BY <1>2 DEF SameGame, SameCommand
<1>9. Types'
  BY <1>1, <1>2, <1>4 DEF Types
<1>10. Holders'
  BY <1>1, <1>2 DEF Holders, ReadyIsSound
<1>11. Slot'
  BY <1>1, <1>2 DEF Slot
<1> QED
  BY <1>2, <1>6, <1>7, <1>8, <1>9, <1>10, <1>11, BesideKeeps

-----------------------------------------------------------------------------
(* Steps of the game *)

\* r is started from the pipe only, and only a running command answers or runs.
Stays(r) ==
    /\ pipe' = r => pipe = r
    /\ game'.command.id = r => game.command.id = r \/ pipe = r
    /\ game.command.id # r => Of(replies', r) = Of(replies, r) /\ ran'[r] = ran[r]
    /\ game.command.id = r /\ game.command.step = "finished" =>
           /\ game'.command.id = r => game'.command.step = "finished"
           /\ Of(replies', r) = Of(replies, r) /\ ran'[r] = ran[r]

LEMMA StaysFacts ==
    ASSUME NEW r, Stays(r)
    PROVE  /\ Fresh(r) => Fresh(r)'
           /\ \A v : Settled(r, v) => Settled(r, v)'
           /\ \A v : Settled(r, v) /\ Of(replies, r) = {} => Of(replies', r) = {}
<1>1. Fresh(r) => Fresh(r)'
  BY DEF Stays, Fresh
<1>2. ASSUME NEW v, Settled(r, v) PROVE Settled(r, v)'
  <2>1. pipe' # r /\ ran'[r] = ran[r]
    BY <1>2 DEF Stays, Settled
  <2>2. game'.command.id = r => game'.command.step = "finished"
    BY <1>2 DEF Stays, Settled
  <2> QED
    BY <1>2, <2>1, <2>2 DEF Settled
<1>3. ASSUME NEW v, Settled(r, v), Of(replies, r) = {} PROVE Of(replies', r) = {}
  BY <1>3 DEF Stays, Settled
<1> QED
  BY <1>1, <1>2, <1>3

LEMMA GameKeeps ==
    ASSUME DriverInv, UNCHANGED <<call, asked, answer, inbox, active, shard>>,
           UNCHANGED lock \/ inbox = "none", farewell => farewell',
           Types', Holders', Slot',
           \A r \in Requests : Stays(r) /\ ran'[r] \in {0, 1} /\ Unread(r)' /\ Replied(r)',
           shard.running /\ ~farewell' =>
               /\ Nobody => Nobody'
               /\ \A r \in Requests : active.id = r =>
                      /\ Alone(r, 0) => Alone(r, 0)'
                      /\ \A i \in Of(replies, r) : Alone(r, i) => Alone(r, i)'
                      /\ \A i \in Of(replies', r) : i \in Of(replies, r) \/ Alone(r, i)'
    PROVE  DriverInv'
<1>1. Told /\ Received /\ Traffic
  BY DEF DriverInv
<1>2. ASSUME NEW r \in Requests
      PROVE  /\ Fresh(r) => Fresh(r)'
             /\ \A v : Settled(r, v) => Settled(r, v)'
             /\ \A v : Settled(r, v) /\ Of(replies, r) = {} => Of(replies', r) = {}
  BY StaysFacts
<1>3. Told'
  BY <1>1, <1>2 DEF Told
<1>4. Received'
  <2>1. ASSUME NEW r \in Requests
        PROVE  /\ lock' = r /\ inbox' = "busy" => Fresh(r)'
               /\ \A v \in {"ok", "failed", "refused"} :
                      lock' = r /\ inbox' = v => Settled(r, v)'
               /\ \A v \in {"ok", "failed", "refused"} :
                      active'.id = r /\ active'.result = v =>
                          Settled(r, v)' /\ Of(replies', r) = {}
    BY <1>1, <1>2 DEF Received
  <2> QED
    BY <2>1 DEF Received
<1>5. OneFrame'
  BY <1>1, <1>2 DEF Traffic, OneFrame, Stays
<1>6. ASSUME shard'.running, ~farewell'
      PROVE  /\ active' = NoCommand => Nobody'
             /\ \A r \in Requests : active'.id = r =>
                    /\ active'.synchronized => Alone(r, 0)'
                    /\ \A i \in Of(replies', r) : Alone(r, i)'
                    /\ active'.synchronized /\ call'[r] = "writing" => Nobody'
  <2>1. InStep /\ shard.running /\ ~farewell
    BY <1>1, <1>6 DEF Traffic
  <2> QED
    BY <1>6, <2>1 DEF InStep
<1>7. InStep'
  BY <1>6 DEF InStep
<1> QED
  BY <1>3, <1>4, <1>5, <1>7 DEF DriverInv, Traffic

\* The replies and markers on the stream are the same ones.
SameReplies ==
    /\ \A r : Of(replies', r) = Of(replies, r)
    /\ \A r : \A i \in Of(replies, r) : replies'[i] = replies[i]
    /\ Markers(replies') = Markers(replies)
    /\ \A i \in Markers(replies) : replies'[i] = replies[i]

\* The game takes a frame, or a command ends, and nothing is said.
SilentStep ==
    \/ pipe' = NoFrame /\ UNCHANGED game
    \/ /\ pipe \in Requests /\ pipe' = NoFrame /\ game.command = Idle
       /\ game'.command = [id |-> pipe, step |-> "read"]
       /\ game'.world = game.world
    \/ /\ pipe' = pipe /\ game.command.step = "read"
       /\ game'.command.id = game.command.id /\ game'.command.step = "finished"
    \/ pipe' = pipe /\ game'.command = Idle

LEMMA SilentFacts ==
    ASSUME DriverInv, Types', UNCHANGED <<ran, asked, active>>, SameReplies, SilentStep,
           NEW r \in Requests
    PROVE  Stays(r) /\ Unread(r)' /\ Replied(r)'
<1>1. Types /\ Unread(r) /\ Replied(r)
  BY DEF DriverInv, Traffic
<1>2. /\ Of(replies', r) = Of(replies, r) /\ ran'[r] = ran[r]
      /\ \A i \in Of(replies, r) : replies'[i] = replies[i]
  BY DEF SameReplies
<1>3. /\ pipe' = r => pipe = r
      /\ game'.command.id = r => \/ game.command.id = r
                                 \/ pipe = r
      /\ game.command.id = r /\ game.command.step = "finished" /\ game'.command.id = r =>
             game'.command.step = "finished"
      /\ pipe' = r => game'.command.id # r
  BY <1>1, RequestsAssumption DEF SilentStep, Idle, NoFrame, Unread
<1>4. Stays(r)
  BY <1>2, <1>3 DEF Stays
<1>5. /\ game'.command = [id |-> r, step |-> "read"] =>
             pipe = r \/ game.command = [id |-> r, step |-> "read"]
      /\ game'.command = [id |-> r, step |-> "accepted"] =>
             game.command = [id |-> r, step |-> "accepted"] /\ game'.world = game.world
  BY RequestsAssumption DEF SilentStep, Idle, NoFrame
<1>6. HeardYet(r) => HeardYet(r)'
  BY <1>2 DEF HeardYet
<1>7. Unread(r)'
  BY <1>1, <1>2, <1>3, <1>5, <1>6 DEF Unread
<1>8. Rejected(r) => Rejected(r)'
  BY <1>2 DEF Rejected
<1>9. ASSUME NEW n, Heard(r, n) PROVE Heard(r, n)'
  BY <1>2, <1>9 DEF Heard
<1>10. ASSUME NEW i \in Of(replies, r), replies[i].value # "accepted", game'.command.id = r
       PROVE  game'.command.step = "finished"
  <2>1. pipe # r
    BY <1>1, <1>10 DEF Unread
  <2>2. game.command.id = r /\ game.command.step = "finished"
    BY <1>1, <1>3, <1>10, <2>1 DEF Replied
  <2> QED
    BY <1>3, <1>10, <2>2
<1>11. Replied(r)'
  BY <1>1, <1>2, <1>8, <1>9, <1>10 DEF Replied
<1> QED
  BY <1>4, <1>7, <1>11

LEMMA SilentAlone ==
    ASSUME Types, SameReplies, SilentStep, ran' = ran, NEW r \in Requests, NEW i, Alone(r, i),
           Stays(r)
    PROVE  Alone(r, i)'
<1>1. /\ pipe' \in {NoFrame, r} /\ game'.command.id \in {"none", r}
      /\ pipe' = r => game'.command.id = "none"
      /\ pipe = NoFrame /\ game.command.id = "none" => pipe' = NoFrame /\ game'.command.id = "none"
  BY RequestsAssumption DEF SilentStep, Alone, Idle, NoFrame
<1>2. Fresh(r) => Fresh(r)'
  BY StaysFacts
<1> QED
  BY <1>1, <1>2 DEF Alone, SameReplies

LEMMA SilentKeeps ==
    ASSUME DriverInv, Types', Holders', SameReplies, SilentStep,
           UNCHANGED <<call, asked, answer, lock, inbox, active, shard, ran, farewell>>
    PROVE  DriverInv'
<1>1. ASSUME NEW r \in Requests
      PROVE  Stays(r) /\ Unread(r)' /\ Replied(r)' /\ ran'[r] \in {0, 1}
  BY SilentFacts DEF DriverInv, Told
<1>2. Types /\ Slot
  BY DEF DriverInv
<1>3. Slot'
  BY <1>2 DEF Slot
<1>4. Nobody => Nobody'
  BY RequestsAssumption DEF Nobody, SilentStep, SameReplies, Idle, NoFrame
<1>5. ASSUME NEW r \in Requests, NEW i, Alone(r, i) PROVE Alone(r, i)'
  BY <1>1, <1>2, <1>5, SilentAlone
<1>6. \A r : Of(replies', r) = Of(replies, r)
  BY DEF SameReplies
<1> QED
  BY <1>1, <1>3, <1>4, <1>5, <1>6, GameKeeps

Commands == [id : Requests \union {"none"}, step : {"none", "read", "accepted", "finished"}]

LEMMA CommandSet ==
    ASSUME NEW g \in Games, NEW c \in Commands, NEW h, h = [g EXCEPT !.command = c]
    PROVE  h \in Games /\ h.command = c /\ h.world = g.world /\ h.alive = g.alive
BY DEF Games, Commands

LEMMA CommandGoes ==
    ASSUME NEW g \in Games, NEW x \in {"accepted", "finished"}, NEW h,
           h = [g EXCEPT !.command.step = x]
    PROVE  /\ h \in Games /\ h.command.id = g.command.id /\ h.command.step = x
           /\ h.world = g.world /\ h.alive = g.alive
           /\ h.command = [id |-> g.command.id, step |-> x]
BY DEF Games

LEMMA IdleCommand == Idle \in Commands /\ Idle.id = "none" /\ Idle.step = "none"
BY DEF Idle, Commands

\* What every step of the game leaves alone.
LEMMA GameLeaves ==
    ASSUME UNCHANGED gameKeeps
    PROVE  UNCHANGED <<call, asked, answer, lock, inbox, stop, active, shard, killed, reaped, lost>>
BY DEF gameKeeps, workers, process

LEMMA GameHolders ==
    ASSUME Holders, UNCHANGED <<call, lock, stop, shard, reaped, farewell>>,
           pipe' = "shutdown" => pipe = "shutdown", reaped => ~game'.alive,
           ~game'.alive => game'.command = Idle,
           game'.command = Idle \/ game'.command.id \in Requests
    PROVE  Holders'
BY DEF Holders, ReadyIsSound

LEMMA SilentStepsKeep ==
    ASSUME DriverInv, GameReads \/ GameDrops \/ LuaIgnores \/ GameReloads \/ GameExits
    PROVE  DriverInv'
<1> USE DEF streams, history
<1>1. Types /\ Holders /\ game \in Games
  BY DEF DriverInv, Types
<1>2. /\ UNCHANGED <<call, asked, answer, lock, inbox, stop, active, shard, reaped>>
      /\ UNCHANGED <<replies, ran, farewell>>
  BY GameLeaves DEF GameReads, GameDrops, LuaIgnores, GameReloads, GameExits
<1>3. SameReplies
  BY <1>2 DEF SameReplies
<1>4. ASSUME game' \in Games, pipe' \in {pipe, NoFrame}, SilentStep, reaped => ~game'.alive,
             ~game'.alive => game'.command = Idle,
             game'.command = Idle \/ game'.command.id \in Requests
      PROVE  DriverInv'
  <2>1. Types'
    BY <1>1, <1>2, <1>4 DEF Types
  <2>2. Holders'
    BY <1>1, <1>2, <1>4, GameHolders DEF NoFrame
  <2> QED
    BY <1>2, <1>3, <1>4, <2>1, <2>2, SilentKeeps
<1>5. game.alive /\ ~reaped
  BY <1>1 DEF GameReads, GameDrops, LuaIgnores, GameReloads, GameExits, Holders, LuaAt
<1>6. CASE GameReads
  <2> DEFINE c == [id |-> pipe, step |-> "read"]
  <2>1. /\ pipe \in Requests /\ game.command = Idle /\ pipe' = NoFrame
        /\ game' = [game EXCEPT !.command = c]
    BY <1>6 DEF GameReads
  <2>2. c \in Commands /\ c.id \in Requests
    BY <2>1 DEF Commands
  <2>3. game' \in Games /\ game'.command = c /\ game'.world = game.world /\ game'.alive = game.alive
    <3> HIDE DEF c
    <3> QED BY <1>1, <2>1, <2>2, CommandSet
  <2>4. SilentStep
    BY <2>1, <2>3 DEF SilentStep
  <2> QED
    BY <1>4, <1>5, <2>1, <2>2, <2>3, <2>4
<1>7. CASE GameDrops
  BY <1>1, <1>4, <1>5, <1>7 DEF GameDrops, SilentStep, Holders
<1>8. CASE LuaIgnores
  <2>1. /\ game.command.step = "read" /\ game' = [game EXCEPT !.command.step = "finished"]
        /\ pipe' = pipe
    BY <1>8 DEF LuaIgnores, LuaAt, LuaGoto
  <2>2. /\ game' \in Games /\ game'.command.id = game.command.id
        /\ game'.command.step = "finished" /\ game'.alive = game.alive
    BY <1>1, <2>1 DEF Games
  <2>3. game.command.id \in Requests
    BY <1>1, <2>1 DEF Holders, Idle
  <2>4. SilentStep
    BY <2>1, <2>2 DEF SilentStep
  <2> QED
    BY <1>4, <1>5, <2>1, <2>2, <2>3, <2>4
<1>9. CASE GameReloads
  <2>1. /\ game.world < MaxGeneration /\ pipe' = pipe
        /\ game' = [game EXCEPT !.world = @ + 1, !.installed = "no", !.command = Idle]
    BY <1>9 DEF GameReloads
  <2>2. game.world + 1 \in Generations
    <3>1. game.world \in Generations
      BY <1>1 DEF Games
    <3> QED
      BY <2>1, <3>1, GenerationAssumption DEF Generations
  <2>3. game' \in Games /\ game'.command = Idle /\ game'.alive = game.alive
    <3> DEFINE w == game.world + 1
    <3>1. game' = [game EXCEPT !.world = w, !.installed = "no", !.command = Idle]
      BY <2>1
    <3>2. w \in Generations
      BY <2>2
    <3> HIDE DEF w
    <3> QED
      BY <1>1, <3>1, <3>2, IdleCommand DEF Games, Commands
  <2>4. SilentStep
    BY <2>1, <2>3 DEF SilentStep
  <2> QED
    BY <1>4, <1>5, <2>1, <2>3, <2>4
<1>10. CASE GameExits
  <2>1. game' = [game EXCEPT !.alive = FALSE, !.command = Idle] /\ pipe' = pipe
    BY <1>10 DEF GameExits
  <2>2. game' \in Games /\ game'.command = Idle
    BY <1>1, <2>1, IdleCommand DEF Games, Commands
  <2>3. SilentStep
    BY <2>1, <2>2 DEF SilentStep
  <2> QED
    BY <1>4, <1>5, <2>1, <2>2, <2>3
<1> QED
  BY <1>6, <1>7, <1>8, <1>9, <1>10

\* Records about the world, and frames that are no reply and no marker.
LEMMA RecordStepsKeep ==
    ASSUME DriverInv, \/ LuaInstallsRpc \/ LuaInstalls \/ LuaIsReady \/ LuaReportsError
                      \/ GameGarbles \/ GameIsReady
    PROVE  DriverInv'
<1> USE DEF streams, history
<1>1. Types /\ Holders /\ Slot /\ game \in Games /\ replies \in Seq(ReplyFrames)
  BY DEF DriverInv, Types
<1>2. /\ UNCHANGED <<call, asked, answer, lock, inbox, stop, active, shard, reaped>>
      /\ UNCHANGED <<pipe, ran, farewell>>
  BY GameLeaves DEF LuaInstallsRpc, LuaInstalls, LuaIsReady, LuaReportsError, GameGarbles,
                    GameIsReady
<1>3. /\ game' \in Games /\ game'.command = game.command /\ game'.world = game.world
      /\ game'.alive = game.alive
  <2>1. \/ UNCHANGED game
        \/ \E x \in {"rpc", "full", "ready"} : game' = [game EXCEPT !.installed = x]
        \/ game' = [game EXCEPT !.native = TRUE]
    BY DEF LuaInstallsRpc, LuaInstalls, LuaIsReady, LuaReportsError, GameGarbles, GameIsReady
  <2>2. CASE \E x \in {"rpc", "full", "ready"} : game' = [game EXCEPT !.installed = x]
    BY <1>1, <2>2 DEF Games
  <2>3. CASE game' = [game EXCEPT !.native = TRUE]
    BY <1>1, <2>3 DEF Games
  <2> QED
    BY <1>1, <2>1, <2>2, <2>3
<1>4. /\ replies' \in Seq(ReplyFrames) /\ Moved(0) /\ Noticed(0)
  <2>1. \/ UNCHANGED replies
        \/ replies' = Append(replies, Control(game.world))
        \/ replies' = Append(replies, Marker("bad"))
    BY DEF LuaInstallsRpc, LuaInstalls, LuaIsReady, LuaReportsError, GameGarbles, GameIsReady,
           Emit
  <2>2. CASE UNCHANGED replies
    BY <1>1, <2>2, StillMoved
  <2>3. ASSUME NEW f \in ReplyFrames, replies' = Append(replies, f),
               f.kind \notin {"rpc", "busy", "done"}
        PROVE  replies' \in Seq(ReplyFrames) /\ Moved(0) /\ Noticed(0)
    <3>1. f.kind \notin {"busy", "done"} /\ f.kind # "rpc"
      BY <2>3
    <3>2. replies' \in Seq(ReplyFrames)
      BY <1>1, <2>3, <3>1, OtherEmits
    <3>3. /\ \A r : \A i \in Of(replies, r) : i \in 1 .. Len(replies) /\ i + 0 = i /\ i - 0 = i
          /\ \A i \in Markers(replies) : i \in 1 .. Len(replies) /\ i + 0 = i
      BY <1>1, Places
    <3>4. /\ \A r : Of(replies', r) = Of(replies, r)
          /\ Markers(replies') = Markers(replies)
          /\ \A i \in 1 .. Len(replies) : replies'[i] = replies[i]
      BY <1>1, <2>3, <3>1, OtherEmits
    <3>5. Moved(0)
      BY <3>3, <3>4 DEF Moved
    <3>6. Noticed(0)
      BY <3>3, <3>4 DEF Noticed
    <3> QED
      BY <3>2, <3>5, <3>6
  <2>4. Marker("bad") \in ReplyFrames /\ Marker("bad").kind = "bad"
    BY GenerationAssumption DEF Marker, ReplyFrames
  <2>5. Control(game.world) \in ReplyFrames /\ Control(game.world).kind = "control"
    <3>1. game.world \in 0 .. MaxGeneration
      BY <1>1, GenerationAssumption DEF Games, Generations
    <3> QED
      BY <3>1 DEF Control, ReplyFrames
  <2> QED
    BY <2>1, <2>2, <2>3, <2>4, <2>5
<1>5. Types'
  BY <1>1, <1>2, <1>3, <1>4 DEF Types
<1>6. Holders'
  BY <1>1, <1>2, <1>3 DEF Holders, ReadyIsSound
<1>7. Slot'
  BY <1>1, <1>2 DEF Slot
<1>8. SameGame /\ SameCommand
  BY <1>2, <1>3 DEF SameGame, SameCommand
<1> QED
  BY <1>2, <1>4, <1>5, <1>6, <1>7, <1>8, BesideKeeps

LEMMA MarkerFrames ==
    ASSUME NEW k \in {"busy", "done", "bad"}
    PROVE  Marker(k) \in ReplyFrames /\ Marker(k).kind = k
BY GenerationAssumption DEF Marker, ReplyFrames

\* A frame or a command ends with a marker.
LEMMA MarkerKeeps ==
    ASSUME DriverInv, Types', Holders', NEW k \in {"busy", "done"}, Emit(Marker(k)),
           UNCHANGED <<call, asked, answer, lock, inbox, active, shard, ran, farewell>>,
           \/ /\ k = "busy" /\ pipe \in Requests /\ pipe' = NoFrame /\ UNCHANGED game
           \/ /\ k = "done" /\ pipe = "shutdown" /\ pipe' = NoFrame /\ UNCHANGED game
           \/ /\ k = "done" /\ game.command.step = "finished" /\ pipe' = pipe
              /\ game'.command = Idle
    PROVE  DriverInv'
<1> DEFINE last == Len(replies) + 1
<1>1. Types /\ Holders /\ Slot /\ replies \in Seq(ReplyFrames)
  BY DEF DriverInv, Types
<1>2. PICK f \in ReplyFrames : f.kind = k /\ replies' = Append(replies, f)
  BY MarkerFrames DEF Emit
<1>3. f.kind # "rpc" /\ f.kind \in {"busy", "done"}
  BY <1>2
<1>4. /\ Len(replies) \in Nat /\ replies'[last].kind = k
      /\ \A r : Of(replies', r) = Of(replies, r)
      /\ Markers(replies') = Markers(replies) \union {last}
      /\ \A i \in 1 .. Len(replies) : replies'[i] = replies[i]
  BY <1>1, <1>2, <1>3, OtherEmits
<1>5. /\ \A r : \A i \in Of(replies, r) : i \in Int /\ i < last /\ replies'[i] = replies[i]
      /\ \A i \in Markers(replies) : i \in Int /\ i < last /\ replies'[i] = replies[i]
  BY <1>1, <1>4, Places
<1>6. 0 < last /\ 0 \in Int
  BY <1>4
<1> HIDE DEF last
<1>7. ASSUME NEW r \in Requests PROVE Stays(r) /\ Unread(r)' /\ Replied(r)' /\ ran'[r] \in {0, 1}
  <2>1. Unread(r) /\ Replied(r) /\ ran[r] \in {0, 1}
    BY DEF DriverInv, Traffic, Told
  <2>2. /\ pipe' = r => pipe = r
        /\ game'.command.id = r => game.command.id = r /\ game'.command = game.command
                                   /\ game'.world = game.world
        /\ game'.command = [id |-> r, step |-> "read"] => game.command = [id |-> r, step |-> "read"]
        /\ game'.command = [id |-> r, step |-> "accepted"] =>
               game.command = [id |-> r, step |-> "accepted"] /\ game'.world = game.world
    BY RequestsAssumption DEF NoFrame, Idle
  <2>3. Of(replies', r) = Of(replies, r) /\ ran'[r] = ran[r]
    BY <1>4
  <2>4. Stays(r)
    BY <2>2, <2>3 DEF Stays
  <2>5. HeardYet(r) => HeardYet(r)'
    BY <1>5, <2>3 DEF HeardYet
  <2>6. Unread(r)'
    BY <2>1, <2>2, <2>3, <2>5 DEF Unread
  <2>7. Rejected(r) => Rejected(r)'
    BY <1>5, <2>3 DEF Rejected
  <2>8. ASSUME NEW n, Heard(r, n) PROVE Heard(r, n)'
    BY <1>5, <2>3, <2>8 DEF Heard
  <2>9. Replied(r)'
    BY <1>5, <2>1, <2>2, <2>3, <2>7, <2>8 DEF Replied
  <2> QED
    BY <2>1, <2>4, <2>6, <2>9
<1>8. Slot'
  BY <1>1 DEF Slot
<1>9. ASSUME ~farewell PROVE pipe # NoFrame \/ game.command.id # "none"
  BY <1>1, <1>9, RequestsAssumption DEF Holders, NoFrame, Idle
<1>10. ~farewell => ~Nobody
  BY <1>9 DEF Nobody
<1>11. ASSUME NEW r \in Requests, NEW i \in Int, i < last, Alone(r, i), ~farewell
       PROVE  Alone(r, i)'
  <2>1. \A j \in Markers(replies) : ~(j > i)
    BY <1>9, <1>11 DEF Alone
  <2>2. pipe' = NoFrame /\ game'.command.id = "none"
    BY <1>1, <1>11, RequestsAssumption DEF Alone, NoFrame, Idle, Holders
  <2>3. ASSUME k = "busy" PROVE Fresh(r)'
    <3>1. pipe = r /\ game.command.id = "none" /\ game' = game
      BY <1>11, <2>3, RequestsAssumption DEF Alone, NoFrame
    <3>2. Of(replies, r) = {} /\ ran[r] = 0
      BY <3>1 DEF DriverInv, Traffic, Unread
    <3> QED
      BY <1>4, <2>2, <3>2, RequestsAssumption DEF Fresh, NoFrame
  <2>4. ASSUME NEW j \in Markers(replies'), j > i PROVE j = last
    BY <1>4, <2>1, <2>4
  <2>5. ASSUME NEW j \in Markers(replies'), j > i
        PROVE  /\ pipe' = NoFrame /\ game'.command.id = "none"
               /\ \A q \in Markers(replies') : q > i => q = j
               /\ \A q \in Of(replies', r) : q < j
               /\ replies'[j].kind = "busy" => Fresh(r)'
    <3>1. j = last
      BY <2>4, <2>5
    <3>2. \A q \in Markers(replies') : q > i => q = last
      BY <2>4
    <3>3. \A q \in Of(replies', r) : q < last
      BY <1>4, <1>5
    <3> QED
      BY <1>4, <2>2, <2>3, <3>1, <3>2, <3>3
  <2> QED
    BY <2>2, <2>5, RequestsAssumption DEF Alone, NoFrame
<1>12. ASSUME shard.running, ~farewell'
       PROVE  /\ Nobody => Nobody'
              /\ \A r \in Requests : active.id = r =>
                     /\ Alone(r, 0) => Alone(r, 0)'
                     /\ \A i \in Of(replies, r) : Alone(r, i) => Alone(r, i)'
                     /\ \A i \in Of(replies', r) : i \in Of(replies, r) \/ Alone(r, i)'
  <2>1. ~farewell
    BY <1>12
  <2> QED
    BY <1>4, <1>5, <1>6, <1>10, <1>11, <2>1
<1> QED
  BY <1>1, <1>7, <1>8, <1>12, GameKeeps

LEMMA MarkerStepsKeep ==
    ASSUME DriverInv, GameIsBusy \/ GameShutsDown \/ GameMarksDone
    PROVE  DriverInv'
<1> USE DEF streams, history
<1>1. Types /\ Holders /\ game \in Games /\ replies \in Seq(ReplyFrames)
  BY DEF DriverInv, Types
<1>2. /\ UNCHANGED <<call, asked, answer, lock, inbox, stop, active, shard, reaped>>
      /\ UNCHANGED <<ran, farewell>> /\ game.alive
  BY GameLeaves DEF GameIsBusy, GameShutsDown, GameMarksDone, LuaAt
<1>3. ~reaped
  BY <1>1, <1>2 DEF Holders
<1>4. ASSUME NEW k \in {"busy", "done"}, Emit(Marker(k)) PROVE replies' \in Seq(ReplyFrames)
  <2>1. PICK f \in ReplyFrames : f.kind = k /\ replies' = Append(replies, f)
    BY <1>4, MarkerFrames DEF Emit
  <2> QED
    BY <1>1, <2>1, Emitted
<1>5. CASE GameIsBusy \/ GameShutsDown
  <2>1. pipe' = NoFrame /\ UNCHANGED game
    BY <1>5 DEF GameIsBusy, GameShutsDown
  <2>2. replies' \in Seq(ReplyFrames)
    BY <1>4, <1>5 DEF GameIsBusy, GameShutsDown
  <2>3. Types'
    BY <1>1, <1>2, <2>1, <2>2 DEF Types
  <2>4. Holders'
    BY <1>1, <1>2, <2>1, GameHolders DEF Holders, NoFrame
  <2> QED
    BY <1>2, <1>5, <2>1, <2>3, <2>4, MarkerKeeps DEF GameIsBusy, GameShutsDown
<1>6. CASE GameMarksDone
  <2>1. /\ pipe' = pipe /\ game' = [game EXCEPT !.command = Idle] /\ Emit(Marker("done"))
        /\ game.command.step = "finished"
    BY <1>6 DEF GameMarksDone, LuaAt
  <2>2. game' \in Games /\ game'.command = Idle /\ game'.alive = game.alive
    BY <1>1, <2>1, CommandSet, IdleCommand
  <2>3. replies' \in Seq(ReplyFrames)
    BY <1>4, <2>1
  <2>4. Types'
    BY <1>1, <1>2, <2>1, <2>2, <2>3 DEF Types
  <2>5. Holders'
    BY <1>1, <1>2, <1>3, <2>1, <2>2, GameHolders
  <2> QED
    BY <1>2, <2>1, <2>2, <2>4, <2>5, MarkerKeeps
<1> QED
  BY <1>5, <1>6

\* A running command answers.  ran' counts the execution of LuaRuns.
LuaReplies(value) ==
    /\ Emit(Reply(game.command.id, game.world, value))
    /\ game'.command.id = game.command.id /\ game'.world = game.world
    /\ \/ /\ game.command.step = "read" /\ UNCHANGED ran
          /\ \/ value = "refused" /\ game'.command.step = "finished"
             \/ /\ value = "error" /\ game'.command.step = "finished"
                /\ asked[game.command.id] = game.world
             \/ /\ value = "accepted" /\ game'.command.step = "accepted"
                /\ asked[game.command.id] = game.world
       \/ /\ game.command.step = "accepted" /\ game'.command.step = "finished"
          /\ value \in {"ok", "refused"}
          /\ ran' = [ran EXCEPT ![game.command.id] = @ + 1]

LEMMA CommandRecord ==
    ASSUME Types, NEW q, NEW x, game.command.id = q, game.command.step = x
    PROVE  game.command = [id |-> q, step |-> x]
BY DEF Types, Games

LEMMA ReplyFrame ==
    ASSUME NEW q \in Requests, NEW g \in Generations,
           NEW v \in {"accepted", "ok", "refused", "error"}, NEW f, f = Reply(q, g, v)
    PROVE  /\ f \in ReplyFrames /\ f.kind = "rpc" /\ f.id = q /\ f.gen = g
           /\ f.value = v
<1>1. g \in 0 .. MaxGeneration
  BY GenerationAssumption DEF Generations
<1> QED
  BY <1>1 DEF Reply, ReplyFrames

LEMMA ReplyKeeps ==
    ASSUME DriverInv, Types', Holders', NEW v \in {"accepted", "ok", "refused", "error"},
           LuaReplies(v),
           UNCHANGED <<call, asked, answer, lock, inbox, active, shard, pipe, farewell>>
    PROVE  DriverInv'
<1>0. PICK last : last = Len(replies) + 1
  OBVIOUS
<1>1. Types /\ Holders /\ Slot /\ replies \in Seq(ReplyFrames) /\ game \in Games
  BY DEF DriverInv, Types
<1>2. PICK q : q = game.command.id
  OBVIOUS
<1>3. q \in Requests /\ game.command.step \in {"read", "accepted"} /\ game.command # Idle
  BY <1>1, <1>2 DEF LuaReplies, Holders, Idle
<1>4. PICK f : f = Reply(q, game.world, v)
  OBVIOUS
<1>5. /\ f \in ReplyFrames /\ f.kind = "rpc" /\ f.id = q /\ f.gen = game.world
      /\ f.value = v
  BY <1>1, <1>3, <1>4, ReplyFrame DEF Games
<1>6. replies' = Append(replies, f)
  BY <1>2, <1>4 DEF LuaReplies, Emit
<1>7. /\ Len(replies) \in Nat /\ replies'[last] = f
      /\ Of(replies', q) = Of(replies, q) \union {last}
      /\ \A r : r # q => Of(replies', r) = Of(replies, r)
      /\ Markers(replies') = Markers(replies)
      /\ \A i \in 1 .. Len(replies) : replies'[i] = replies[i]
  BY <1>0, <1>1, <1>5, <1>6, ReplyEmits
<1>8. /\ \A r : \A i \in Of(replies, r) : i \in Int /\ i < last /\ replies'[i] = replies[i]
      /\ \A i \in Markers(replies) : i \in Int /\ i < last /\ replies'[i] = replies[i]
  BY <1>0, <1>1, <1>7, Places
<1>9. 0 < last /\ 0 \in Int /\ last \in Int
  BY <1>0, <1>7
<1>10. Unread(q) /\ Replied(q) /\ pipe # q
  BY <1>2, <1>3 DEF DriverInv, Traffic, Unread
<1>11. game'.command.id = q /\ game'.command.step \in {"accepted", "finished"}
       /\ game'.world = game.world
  BY <1>2 DEF LuaReplies
<1>12. \A i \in Of(replies, q) : replies[i].value = "accepted"
  BY <1>2, <1>3, <1>10 DEF Replied
<1>13. ASSUME game.command.step = "read"
       PROVE  /\ Of(replies, q) = {} /\ ran[q] = 0 /\ (active.id = q => ~active.accepted)
              /\ ran' = ran /\ v \in {"refused", "error", "accepted"}
              /\ v # "refused" => game.world = asked[q]
              /\ v = "accepted" <=> game'.command.step = "accepted"
  <2>1. game.command = [id |-> q, step |-> "read"]
    BY <1>1, <1>2, <1>13, CommandRecord
  <2> QED
    BY <1>2, <1>10, <1>13, <2>1 DEF Unread, LuaReplies
<1>14. ASSUME game.command.step = "accepted"
       PROVE  /\ ran[q] = 0 /\ game.world = asked[q] /\ HeardYet(q)
              /\ ran' = [ran EXCEPT ![q] = 1] /\ v \in {"ok", "refused"}
              /\ game'.command.step = "finished"
  <2>1. game.command = [id |-> q, step |-> "accepted"]
    BY <1>1, <1>2, <1>14, CommandRecord
  <2>2. ran[q] = 0 /\ game.world = asked[q] /\ HeardYet(q)
    BY <1>10, <2>1 DEF Unread
  <2>3. ran' = [ran EXCEPT ![q] = @ + 1] /\ v \in {"ok", "refused"}
        /\ game'.command.step = "finished"
    BY <1>2, <1>14 DEF LuaReplies
  <2>4. ran' = [ran EXCEPT ![q] = 1]
    BY <2>2, <2>3
  <2> QED
    BY <2>2, <2>3, <2>4
<1>15. /\ \A r \in Requests : r # q => ran'[r] = ran[r]
       /\ game.command.step = "read" => ran'[q] = 0
       /\ game.command.step = "accepted" => ran'[q] = 1
  BY <1>1, <1>3, <1>13, <1>14 DEF Types
<1>16. ASSUME NEW r \in Requests, r # q
       PROVE  Stays(r) /\ Unread(r)' /\ Replied(r)' /\ ran'[r] \in {0, 1}
  <2>1. Unread(r) /\ Replied(r) /\ ran[r] \in {0, 1}
    BY DEF DriverInv, Traffic, Told
  <2>2. /\ Of(replies', r) = Of(replies, r) /\ ran'[r] = ran[r]
        /\ game'.command.id # r /\ game.command.id # r
        /\ \A i \in Of(replies, r) : replies'[i] = replies[i]
    BY <1>2, <1>7, <1>8, <1>11, <1>15, <1>16
  <2>3. Stays(r)
    BY <2>2 DEF Stays
  <2>4. Unread(r)'
    BY <2>1, <2>2 DEF Unread
  <2>5. Rejected(r) => Rejected(r)'
    BY <2>2 DEF Rejected
  <2>6. ASSUME NEW n, Heard(r, n) PROVE Heard(r, n)'
    BY <2>2, <2>6 DEF Heard
  <2>7. Replied(r)'
    BY <2>1, <2>2, <2>5, <2>6 DEF Replied
  <2> QED
    BY <2>1, <2>2, <2>3, <2>4, <2>7
<1>17. Stays(q) /\ ran'[q] \in {0, 1}
  BY <1>2, <1>3, <1>10, <1>15 DEF Stays
<1>18. Unread(q)'
  <2>1. ASSUME game'.command = [id |-> q, step |-> "accepted"]
        PROVE  ran'[q] = 0 /\ game'.world = asked'[q] /\ HeardYet(q)'
    <3>1. game'.command.step = "accepted"
      BY <2>1
    <3>2. game.command.step = "read" /\ v = "accepted"
      BY <1>3, <1>13, <1>14, <3>1
    <3>3. HeardYet(q)'
      BY <1>5, <1>7, <3>2 DEF HeardYet
    <3> QED
      BY <1>11, <1>13, <1>15, <3>2, <3>3
  <2>2. pipe' # q /\ game'.command # [id |-> q, step |-> "read"]
    BY <1>10, <1>11
  <2> QED
    BY <2>1, <2>2 DEF Unread
<1>19. Replied(q)'
  <2>1. ASSUME NEW i \in Of(replies, q)
        PROVE  replies'[i].value = "accepted" /\ replies'[i].gen = asked'[q]
    BY <1>8, <1>10, <1>12 DEF Replied
  <2>2. \A j \in Of(replies', q) : j <= last
    BY <1>7, <1>8, <1>9
  <2>3. v # "accepted" => game'.command.step = "finished"
    BY <1>3, <1>11, <1>13, <1>14
  <2>4. v = "ok" => ran'[q] = 1
    BY <1>3, <1>13, <1>15
  <2>5. v # "refused" => game.world = asked'[q]
    BY <1>3, <1>13, <1>14
  <2>6. ASSUME v = "refused", game.command.step = "read" PROVE Rejected(q)'
    BY <1>5, <1>7, <1>13, <1>15, <2>6 DEF Rejected
  <2>7. ASSUME v = "refused", game.command.step = "accepted"
        PROVE  ran'[q] = 1 /\ game.world = asked'[q] /\ Heard(q, last)'
    <3>1. Heard(q, last)'
      BY <1>7, <1>8, <1>14, <2>7 DEF Heard, HeardYet
    <3> QED
      BY <1>14, <1>15, <2>7, <3>1
  <2>8. ASSUME NEW i \in Of(replies', q)
        PROVE  /\ replies'[i].value # "refused" => replies'[i].gen = asked'[q]
               /\ replies'[i].value # "accepted" =>
                      /\ game'.command.id = q => game'.command.step = "finished"
                      /\ \A j \in Of(replies', q) : j <= i
               /\ replies'[i].value = "ok" => ran'[q] = 1
               /\ replies'[i].value = "refused" =>
                      \/ Rejected(q)'
                      \/ ran'[q] = 1 /\ replies'[i].gen = asked'[q] /\ Heard(q, i)'
    <3>1. CASE i \in Of(replies, q)
      BY <2>1, <3>1
    <3>2. CASE i = last
      BY <1>3, <1>5, <1>7, <2>2, <2>3, <2>4, <2>5, <2>6, <2>7, <3>2
    <3> QED
      BY <1>7, <3>1, <3>2
  <2> QED
    BY <2>8 DEF Replied
<1>20. Slot'
  BY <1>1 DEF Slot
<1>21. ASSUME NEW r \in Requests, NEW i, Alone(r, i) PROVE Alone(r, i)'
  <2>1. r = q /\ pipe = NoFrame
    BY <1>2, <1>3, <1>10, <1>21, RequestsAssumption DEF Alone
  <2>2. \A j \in Markers(replies) : ~(j > i)
    BY <1>2, <1>3, <1>21, RequestsAssumption DEF Alone
  <2> QED
    BY <1>7, <1>11, <2>1, <2>2, RequestsAssumption DEF Alone, NoFrame
<1>22. ASSUME active.id = q, ~farewell PROVE Alone(q, last)'
  <2>1. pipe = NoFrame
    <3>1. pipe # "shutdown"
      BY <1>1, <1>22 DEF Holders
    <3>2. pipe \notin Requests
      BY <1>2, <1>3, <1>10, <1>22 DEF DriverInv, Traffic, OneFrame, Fresh
    <3> QED
      BY <1>1, <3>1, <3>2 DEF Types
  <2>2. \A j \in Markers(replies') : ~(j > last)
    BY <1>7, <1>8, <1>9
  <2> QED
    BY <1>11, <2>1, <2>2, <1>3, RequestsAssumption DEF Alone, NoFrame
<1>23. ~Nobody
  BY <1>2, <1>3, RequestsAssumption DEF Nobody
<1>24. ASSUME shard.running, ~farewell'
       PROVE  /\ Nobody => Nobody'
              /\ \A r \in Requests : active.id = r =>
                     /\ Alone(r, 0) => Alone(r, 0)'
                     /\ \A i \in Of(replies, r) : Alone(r, i) => Alone(r, i)'
                     /\ \A i \in Of(replies', r) : i \in Of(replies, r) \/ Alone(r, i)'
  BY <1>7, <1>21, <1>22, <1>23, <1>24
<1>25. ASSUME NEW r \in Requests PROVE Stays(r) /\ ran'[r] \in {0, 1} /\ Unread(r)' /\ Replied(r)'
  BY <1>16, <1>17, <1>18, <1>19
<1> QED
  BY <1>20, <1>24, <1>25, GameKeeps

LEMMA ReplyStepsKeep ==
    ASSUME DriverInv, LuaRejects \/ LuaAccepts \/ LuaErrors \/ LuaRuns
    PROVE  DriverInv'
<1> USE DEF streams, history
<1>1. Types /\ Holders /\ game \in Games /\ replies \in Seq(ReplyFrames)
  BY DEF DriverInv, Types
<1>2. /\ UNCHANGED <<call, asked, answer, lock, inbox, stop, active, shard, reaped>>
      /\ UNCHANGED <<pipe, farewell>> /\ game.alive
      /\ game.command.step \in {"read", "accepted"}
  BY GameLeaves DEF LuaRejects, LuaAccepts, LuaErrors, LuaRuns, LuaAt
<1>3. game.command.id \in Requests
  BY <1>1, <1>2 DEF Holders, Idle
<1>4. PICK x \in {"accepted", "finished"} : game' = [game EXCEPT !.command.step = x]
  BY DEF LuaRejects, LuaAccepts, LuaErrors, LuaRuns, LuaGoto
<1>5. /\ game' \in Games /\ game'.command.id = game.command.id /\ game'.command.step = x
      /\ game'.world = game.world /\ game'.alive = game.alive
  BY <1>1, <1>4 DEF Games
<1>6. PICK v \in {"accepted", "ok", "refused", "error"} : LuaReplies(v)
  <2>1. CASE LuaRejects
    <3>1. LuaReplies("refused")
      BY <1>1, <2>1 DEF LuaRejects, LuaReplies, LuaAt, LuaGoto, Games
    <3> QED BY <3>1
  <2>2. CASE LuaAccepts
    <3>1. LuaReplies("accepted")
      BY <1>1, <2>2 DEF LuaAccepts, LuaReplies, LuaAt, LuaGoto, Games
    <3> QED BY <3>1
  <2>3. CASE LuaErrors
    <3>1. LuaReplies("error")
      BY <1>1, <2>3 DEF LuaErrors, LuaReplies, LuaAt, LuaGoto, Games
    <3> QED BY <3>1
  <2>4. CASE LuaRuns
    <3>1. PICK w \in {"ok", "refused"} : Emit(Reply(game.command.id, game.world, w))
      BY <2>4 DEF LuaRuns
    <3>2. LuaReplies(w)
      BY <1>1, <2>4, <3>1 DEF LuaRuns, LuaReplies, LuaAt, LuaGoto, Games
    <3> QED BY <3>2
  <2> QED
    BY <2>1, <2>2, <2>3, <2>4
<1>7. replies' \in Seq(ReplyFrames)
  <2>1. PICK f : f = Reply(game.command.id, game.world, v)
    OBVIOUS
  <2>2. f \in ReplyFrames
    BY <1>1, <1>3, <2>1, ReplyFrame DEF Games
  <2>3. replies' = Append(replies, f)
    BY <1>6, <2>1 DEF LuaReplies, Emit
  <2> QED
    BY <1>1, <2>2, <2>3
<1>8. ran' \in [Requests -> Nat]
  BY <1>1, <1>3, <1>6 DEF Types, LuaReplies
<1>9. Types'
  BY <1>1, <1>2, <1>5, <1>7, <1>8 DEF Types
<1>10. Holders'
  <2>1. ~reaped
    BY <1>1, <1>2 DEF Holders
  <2> QED
    BY <1>1, <1>2, <1>3, <1>5, <2>1, GameHolders
<1> QED
  BY <1>2, <1>6, <1>9, <1>10, ReplyKeeps

-----------------------------------------------------------------------------
(* The stop and the pump *)

LEMMA StopSendsKeeps ==
    ASSUME DriverInv, StopSends
    PROVE  DriverInv'
<1>1. Types /\ Holders /\ Slot
  BY DEF DriverInv
<1>2. /\ stop = "sending" /\ pipe = NoFrame /\ pipe' = "shutdown" /\ farewell' = TRUE
      /\ lock' = "free" /\ stop' = "exiting"
      /\ UNCHANGED <<call, asked, answer, inbox, active, shard, replies, reaped, game, ran>>
  BY DEF StopSends, streams, process
<1>3. lock = "stop" /\ inbox = "none" /\ ~active.open
  BY <1>1, <1>2, RequestsAssumption DEF Holders, Slot, NoCommand
<1>4. Types'
  BY <1>1, <1>2 DEF Types
<1>5. Holders'
  BY <1>1, <1>2, <1>3, RequestsAssumption DEF Holders, ReadyIsSound
<1>6. Slot'
  BY <1>1, <1>2, <1>3, RequestsAssumption DEF Slot
<1>7. ASSUME NEW r \in Requests PROVE Stays(r) /\ ran'[r] \in {0, 1} /\ Unread(r)' /\ Replied(r)'
  <2>1. Unread(r) /\ Replied(r) /\ ran[r] \in {0, 1} /\ pipe' # r
    BY <1>2, RequestsAssumption DEF DriverInv, Traffic, Told
  <2>2. Stays(r)
    BY <1>2, <2>1 DEF Stays
  <2>3. (HeardYet(r) => HeardYet(r)') /\ (Rejected(r) => Rejected(r)')
    BY <1>2 DEF HeardYet, Rejected
  <2>4. ASSUME NEW n, Heard(r, n) PROVE Heard(r, n)'
    BY <1>2, <2>4 DEF Heard
  <2>5. Unread(r)'
    BY <1>2, <2>1, <2>3 DEF Unread
  <2>6. Replied(r)'
    BY <1>2, <2>1, <2>3, <2>4 DEF Replied
  <2> QED
    BY <1>2, <2>1, <2>2, <2>5, <2>6
<1> QED
  BY <1>2, <1>3, <1>4, <1>5, <1>6, <1>7, GameKeeps

\* A failure leaves the driver unable to take requests.
LEMMA FailFacts ==
    ASSUME DriverInv, Fail
    PROVE  Sane(shard') /\ Follows(shard', shard) /\ Unknown
<1> DEFINE new == [shard EXCEPT !.failure = TRUE, !.ready = FALSE]
<1>1. shard' = new /\ Unknown
  BY DEF Fail, Unknown
<1>2. Sane(shard) /\ shard \in DriverStates
  BY SaneState DEF Sane
<1>3. /\ new \in DriverStates /\ ~new.ready /\ new.stopping = shard.stopping
      /\ new.stop_requested = shard.stop_requested /\ new.running = shard.running
  BY <1>2 DEF DriverStates
<1> HIDE DEF new
<1> QED
  BY <1>1, <1>2, <1>3 DEF Sane, Follows

LEMMA AbandonFacts ==
    ASSUME NEW gen, AbandonOlder(gen)
    PROVE  Unknown
BY DEF AbandonOlder, Unknown

LEMMA PumpOutKeeps ==
    ASSUME DriverInv, out \in Seq(OutFrames), PumpOut
    PROVE  DriverInv' /\ SameCommand
<1>1. /\ UNCHANGED <<call, asked, answer, lock, stop, pipe, replies, reaped, game, ran, farewell>>
      /\ out # <<>>
  BY DEF PumpOut, history
<1>2. Moved(0) /\ Noticed(0) /\ replies' \in Seq(ReplyFrames)
  BY <1>1, StillMoved DEF DriverInv, Types
<1>3. PICK frame \in OutFrames : frame = Head(out)
  BY <1>1
<1>4. PICK gen \in Gens : gen = frame.gen
  BY GenerationAssumption DEF OutFrames, Generations, Gens
<1>5. Sane(shard)
  BY SaneState
<1>6. PICK advanced : advanced = AdvancedState(gen)
  OBVIOUS
<1>7. Sane(advanced) /\ Follows(advanced, shard) /\ advanced.failure = shard.failure
  BY <1>5, <1>6, AdvancedFacts
<1>8. CASE UNCHANGED <<shard, active, inbox>>
  BY <1>1, <1>2, <1>5, <1>8, RecordKeeps DEF Unknown, Follows
<1>9. CASE Fail
  BY <1>1, <1>2, <1>9, FailFacts, RecordKeeps
<1>10. CASE /\ shard' = RecomputeReady(IF frame.kind = "health"
                                       THEN [advanced EXCEPT !.health = gen] ELSE advanced)
            /\ AbandonOlder(gen)
  <2>1. PICK st : st = IF frame.kind = "health"
                       THEN [advanced EXCEPT !.health = gen] ELSE advanced
    OBVIOUS
  <2>2. /\ st \in DriverStates /\ st.stop_requested = advanced.stop_requested
        /\ st.stopping = advanced.stopping /\ st.running = advanced.running
    <3>1. advanced \in DriverStates
      BY <1>7 DEF Sane
    <3>2. CASE frame.kind = "health"
      BY <2>1, <3>1, <3>2 DEF DriverStates, Gens
    <3>3. CASE frame.kind # "health"
      BY <2>1, <3>1, <3>3
    <3> QED
      BY <3>2, <3>3
  <2>3. st.stop_requested => st.stopping
    BY <1>7, <2>2 DEF Sane
  <2>4. Sane(RecomputeReady(st)) /\ Follows(RecomputeReady(st), st)
    BY <2>2, <2>3, RecomputeFacts
  <2>5. shard' = RecomputeReady(st)
    BY <1>10, <2>1
  <2>6. Sane(shard') /\ Follows(shard', shard)
    <3>1. Sane(shard') /\ Follows(shard', st)
      BY <2>4, <2>5, Zenon
    <3> QED
      BY <1>7, <2>2, <3>1 DEF Follows
  <2>7. Unknown
    BY <1>10, AbandonFacts
  <2> QED
    BY <1>1, <1>2, <2>6, <2>7, RecordKeeps
<1> QED
  BY <1>3, <1>4, <1>6, <1>8, <1>9, <1>10 DEF PumpOut

LEMMA PumpLifeKeeps ==
    ASSUME DriverInv, PumpLife
    PROVE  DriverInv' /\ SameCommand
<1>1. /\ UNCHANGED <<call, asked, answer, lock, stop, pipe, replies, reaped, game, ran, farewell>>
      /\ UNCHANGED <<active, inbox>>
  BY DEF PumpLife, history, workers, process
<1>2. Moved(0) /\ Noticed(0) /\ replies' \in Seq(ReplyFrames) /\ Unknown
  BY <1>1, StillMoved DEF DriverInv, Types, Unknown
<1>3. Sane(shard) /\ shard \in DriverStates
  BY SaneState DEF Sane
<1>4. CASE shard' = RecomputeReady([shard EXCEPT !.native_ready = TRUE])
  <2>1. PICK st : st = [shard EXCEPT !.native_ready = TRUE]
    OBVIOUS
  <2>2. /\ st \in DriverStates /\ st.stop_requested = shard.stop_requested
        /\ st.stopping = shard.stopping /\ st.running = shard.running
    BY <1>3, <2>1 DEF DriverStates
  <2>3. st.stop_requested => st.stopping
    BY <1>3, <2>2 DEF Sane
  <2>4. Sane(RecomputeReady(st)) /\ Follows(RecomputeReady(st), st)
    BY <2>2, <2>3, RecomputeFacts
  <2>5. shard' = RecomputeReady(st)
    BY <1>4, <2>1
  <2>6. Sane(shard') /\ Follows(shard', st)
    BY <2>4, <2>5, Zenon
  <2>7. Follows(shard', shard)
    BY <2>2, <2>6 DEF Follows
  <2> QED
    BY <1>1, <1>2, <2>6, <2>7, RecordKeeps
<1>5. CASE shard' = [shard EXCEPT !.stopping = TRUE, !.ready = FALSE]
  <2>1. /\ shard' \in DriverStates /\ shard'.stop_requested = shard.stop_requested
        /\ shard'.stopping /\ shard'.running = shard.running /\ ~shard'.ready
    BY <1>3, <1>5 DEF DriverStates
  <2>2. Sane(shard') /\ Follows(shard', shard)
    BY <2>1 DEF Sane, Follows
  <2> QED
    BY <1>1, <1>2, <2>2, RecordKeeps
<1> QED
  BY <1>4, <1>5 DEF PumpLife

\* A command leaves `active` for good, with a last value for its worker.
LEMMA FinishKeeps ==
    ASSUME DriverInv, NEW d \in {0, 1}, Moved(d), SameGame, Types', Holders', InStep',
           NEW v \in Values, active # NoCommand, Finish(active, v),
           UNCHANGED <<call, asked, answer, lock>>,
           \A r \in Requests : active.id = r =>
               /\ active.open /\ v = "busy" => Fresh(r)
               /\ v \in {"ok", "failed", "refused"} => active.result = v,
           \A r \in Requests : call[r] = "writing" => ~shard'.running /\ v # "busy"
    PROVE  DriverInv'
<1>1. Types /\ Holders /\ Slot /\ Told /\ Received /\ Traffic
  BY DEF DriverInv
<1>2. active' = NoCommand /\ inbox' = IF active.open THEN v ELSE inbox
  BY DEF Finish
<1>3. /\ active.id \in Requests /\ ~active'.open /\ active'.result = "none"
      /\ active'.id = "none" /\ ~active'.accepted
  BY <1>1, <1>2 DEF Slot, NoCommand
<1>4. \A r \in Requests : active'.id # r /\ call[r] # "backoff"
  BY <1>1, <1>3, RequestsAssumption DEF Slot
<1>5. Slot'
  <2>1. inbox' # "none" => lock \in Requests
    BY <1>1, <1>2, <1>3 DEF Slot
  <2>2. ASSUME NEW r \in Requests, call[r] = "writing"
        PROVE  inbox' \in {"none", "unknown"}
    <3>1. lock = r /\ v # "busy" /\ active.id = r /\ active.result = "none"
      BY <1>1, <2>2, RequestsAssumption DEF Holders, Holding, Slot
    <3>2. v = "unknown"
      BY <3>1 DEF Values
    <3> QED
      BY <1>1, <1>2, <2>2, <3>2 DEF Slot
  <2> QED
    BY <1>2, <1>3, <1>4, <2>1, <2>2 DEF Slot
<1>6. Told'
  BY <1>1, ToldKept DEF Told
<1>7. Received'
  <2> SUFFICES ASSUME NEW r \in Requests
               PROVE  /\ lock' = r /\ inbox' = "busy" => Fresh(r)'
                      /\ \A w \in {"ok", "failed", "refused"} :
                             lock' = r /\ inbox' = w => Settled(r, w)'
    BY <1>4 DEF Received
  <2>1. (Fresh(r) => Fresh(r)') /\ \A w : Settled(r, w) => Settled(r, w)'
    BY FreshKept
  <2>2. CASE active.open
    <3>1. lock = r => active.id = r
      BY <1>1, <2>2 DEF Slot
    <3> QED
      BY <1>1, <1>2, <2>1, <2>2, <3>1 DEF Received
  <2>3. CASE ~active.open
    BY <1>1, <1>2, <2>1, <2>3 DEF Received
  <2> QED
    BY <2>2, <2>3
<1>8. ASSUME NEW r \in Requests PROVE Unread(r)' /\ Replied(r)'
  <2>1. Unread(r) /\ Replied(r) /\ active'.id # r
    BY <1>1, <1>4 DEF Traffic
  <2>2. /\ Of(replies, r) = {} => Of(replies', r) = {}
        /\ \A i \in Of(replies', r) : i + d \in Of(replies, r) /\ replies'[i] = replies[i + d]
    BY DEF Moved
  <2>3. Unread(r)'
    BY <2>1, <2>2 DEF Unread, SameGame, HeardYet
  <2>4. Rejected(r) => Rejected(r)'
    BY <2>1, <2>2 DEF Rejected, SameGame
  <2>5. \A n : Heard(r, n)'
    BY <2>1 DEF Heard
  <2>6. ASSUME NEW i \in Of(replies', r), replies'[i].value # "accepted", NEW j \in Of(replies', r)
        PROVE  j <= i
    <3>1. /\ i + d \in Of(replies, r) /\ j + d \in Of(replies, r)
          /\ replies[i + d].value # "accepted"
      BY <2>2, <2>6
    <3>2. j + d <= i + d
      BY <2>1, <3>1 DEF Replied
    <3>3. i \in Int /\ j \in Int
      BY Places DEF Types
    <3> QED
      BY <3>2, <3>3
  <2>7. Replied(r)'
    BY <2>1, <2>2, <2>4, <2>5, <2>6 DEF Replied, SameGame
  <2> QED
    BY <2>3, <2>7
<1>9. OneFrame'
  BY <1>4 DEF OneFrame
<1> QED
  BY <1>5, <1>6, <1>7, <1>8, <1>9 DEF DriverInv, Traffic

LEMMA PumpEndsKeeps ==
    ASSUME DriverInv, PumpEnds
    PROVE  DriverInv'
<1> DEFINE new == [shard EXCEPT !.running = FALSE, !.ready = FALSE,
                                !.failure = shard.failure \/ lost]
<1>1. Types /\ Holders /\ Slot
  BY DEF DriverInv
<1>2. /\ UNCHANGED <<call, asked, answer, lock, stop, pipe, replies, reaped, game, ran, farewell>>
      /\ shard' = new /\ reaped
  BY DEF PumpEnds, streams, process, history
<1>3. shard \in DriverStates /\ (shard.failure \/ lost) \in BOOLEAN
  BY <1>1 DEF Types
<1>4. /\ new \in DriverStates /\ ~new.running /\ ~new.ready /\ new.stopping = shard.stopping
      /\ new.stop_requested = shard.stop_requested
  BY <1>3 DEF DriverStates
<1> HIDE DEF new
<1>5. Moved(0) /\ Noticed(0) /\ SameGame
  BY <1>1, <1>2, StillMoved DEF SameGame
<1>6. Holders'
  BY <1>1, <1>2, <1>4 DEF Holders, ReadyIsSound
<1>7. CASE UNCHANGED <<active, inbox>>
  <2>1. Types'
    BY <1>1, <1>2, <1>4, <1>7 DEF Types
  <2>2. Slot'
    BY <1>1, <1>2, <1>4, <1>7 DEF Slot
  <2>3. SameCommand
    BY <1>7 DEF SameCommand
  <2> QED
    BY <1>2, <1>4, <1>5, <1>6, <1>7, <2>1, <2>2, <2>3, BesideKeeps
<1>8. CASE /\ active # NoCommand
           /\ Finish(active, IF active.result = "none" THEN "unknown" ELSE active.result)
  <2>1. PICK v : v = IF active.result = "none" THEN "unknown" ELSE active.result
    OBVIOUS
  <2>2. /\ v \in Values /\ v # "busy" /\ Finish(active, v)
        /\ v \in {"ok", "failed", "refused"} => active.result = v
    <3>1. active.result \in {"none", "ok", "failed", "refused"}
      BY <1>1 DEF Types, Pendings
    <3> QED
      BY <1>8, <2>1, <3>1 DEF Values
  <2>3. NoCommand \in Pendings
    BY GenerationAssumption DEF NoCommand, Pendings
  <2>4. Types'
    BY <1>1, <1>2, <1>4, <2>2, <2>3 DEF Types, Finish
  <2>5. InStep'
    BY <1>2, <1>4 DEF InStep
  <2> QED
    BY <1>2, <1>4, <1>5, <1>6, <1>8, <2>2, <2>4, <2>5, FinishKeeps
<1> QED
  BY <1>7, <1>8 DEF PumpEnds

\* The first frame is taken.
LEMMA HeadTaken ==
    ASSUME DriverInv, PumpReply
    PROVE  /\ Moved(1) /\ SameGame
           /\ replies' \in Seq(ReplyFrames) /\ replies[1] \in ReplyFrames
           /\ replies[1] = Head(replies)
           /\ UNCHANGED <<call, asked, answer, lock, stop, pipe, reaped, game, ran, farewell>>
           /\ ~(replies[1].kind = "rpc" /\ replies[1].id = active.id) => Noticed(1)
           /\ \A r : 1 \in Of(replies, r) <=> replies[1].kind = "rpc" /\ replies[1].id = r
           /\ 1 \in Markers(replies) <=> replies[1].kind \in {"busy", "done"}
<1>1. replies \in Seq(ReplyFrames) /\ replies # <<>> /\ replies' = Tail(replies)
  BY DEF DriverInv, Types, PumpReply
<1>2. UNCHANGED <<call, asked, answer, lock, stop, pipe, reaped, game, ran, farewell>>
  BY DEF PumpReply, history
<1>3. Moved(1)
  BY <1>1, Popped DEF Moved
<1>4. ASSUME ~(replies[1].kind = "rpc" /\ replies[1].id = active.id) PROVE Noticed(1)
  <2>1. 1 \notin Of(replies, active.id)
    BY <1>1, <1>4, Popped
  <2>2. \A r : \A i \in Of(replies, r) : i # 1 => i - 1 \in Of(replies', r)
    BY <1>1, Popped
  <2> QED
    BY <2>1, <2>2 DEF Noticed
<1>5. SameGame
  BY <1>2 DEF SameGame
<1>6. /\ replies' \in Seq(ReplyFrames) /\ replies[1] \in ReplyFrames
      /\ replies[1] = Head(replies)
      /\ \A r : 1 \in Of(replies, r) <=> replies[1].kind = "rpc" /\ replies[1].id = r
      /\ 1 \in Markers(replies) <=> replies[1].kind \in {"busy", "done"}
  BY <1>1, Popped
<1> QED
  BY <1>2, <1>3, <1>4, <1>5, <1>6

\* A marker that ends the active command is its own, and the last.
LEMMA OwnMarker ==
    ASSUME DriverInv, PumpReply, shard.running, ~farewell, active.synchronized,
           NEW r \in Requests, active.id = r, replies[1].kind \in {"busy", "done"}
    PROVE  /\ Nobody' /\ (replies[1].kind = "busy" => Fresh(r))
           /\ \A q \in Requests : call[q] # "writing"
<1>1. 1 \in Markers(replies) /\ 1 > 0 /\ 0 \in Int
  BY HeadTaken
<1>2. Alone(r, 0) /\ (call[r] = "writing" => Nobody)
  BY DEF DriverInv, Traffic, InStep
<1>3. /\ pipe = NoFrame /\ game.command.id = "none"
      /\ \A k \in Markers(replies) : k > 0 => k = 1
      /\ replies[1].kind = "busy" => Fresh(r)
  BY <1>1, <1>2 DEF Alone
<1>4. Markers(replies') = {}
  <2>1. ASSUME NEW i \in Markers(replies') PROVE FALSE
    <3>1. i + 1 \in Markers(replies)
      BY HeadTaken DEF Moved
    <3>2. i \in Int /\ i > 0
      BY HeadTaken, Places
    <3> QED
      BY <1>3, <3>1, <3>2
  <2> QED
    BY <2>1
<1>5. Nobody'
  BY <1>3, <1>4, HeadTaken DEF Nobody, SameGame
<1>6. ASSUME NEW q \in Requests, call[q] = "writing" PROVE FALSE
  <2>1. q = r
    BY <1>6 DEF DriverInv, Slot
  <2>2. Nobody
    BY <1>2, <1>6, <2>1
  <2> QED
    BY <1>1, <2>2 DEF Nobody
<1> QED
  BY <1>3, <1>5, <1>6

LEMMA BarrierKeeps ==
    ASSUME DriverInv, PumpReply, NEW kind \in {"busy", "done"}, replies[1].kind = kind,
           Barrier(kind)
    PROVE  DriverInv'
<1>1. Types /\ Holders /\ Slot /\ Sane(shard) /\ shard.running
  BY SaneState DEF DriverInv, PumpReply
<1>2. /\ Moved(1) /\ SameGame /\ Noticed(1) /\ replies' \in Seq(ReplyFrames)
      /\ UNCHANGED <<call, asked, answer, lock, stop, pipe, reaped, game, ran, farewell>>
  BY HeadTaken
<1>3. UNCHANGED shard
  BY DEF Barrier
<1>4. CASE UNCHANGED <<active, inbox>>
  BY <1>1, <1>2, <1>3, <1>4, RecordKeeps DEF Unknown, Follows
<1>5. ASSUME active # NoCommand, active.synchronized, NEW v \in Values, Finish(active, v),
             v = "busy" => kind = "busy",
             v \in {"ok", "failed", "refused"} => active.result = v
      PROVE  DriverInv'
  <2>1. NoCommand \in Pendings
    BY GenerationAssumption DEF NoCommand, Pendings
  <2>2. Types'
    BY <1>1, <1>2, <1>3, <1>5, <2>1 DEF Types, Finish
  <2>3. Holders'
    BY <1>1, <1>2, <1>3 DEF Holders, ReadyIsSound
  <2>4. active.id \in Requests
    BY <1>1, <1>5 DEF Slot
  <2>5. CASE ~farewell
    <3>1. /\ Nobody' /\ (\A q \in Requests : call[q] # "writing")
          /\ \A r \in Requests : active.id = r /\ v = "busy" => Fresh(r)
      BY <1>1, <1>5, <2>4, <2>5, OwnMarker
    <3>2. active' = NoCommand /\ \A r \in Requests : active'.id # r
      BY <1>5, RequestsAssumption DEF Finish, NoCommand
    <3>3. InStep'
      BY <3>1, <3>2 DEF InStep
    <3> QED
      BY <1>2, <1>5, <2>2, <2>3, <3>1, <3>3, FinishKeeps
  <2>6. CASE farewell
    <3>1. lock = "free" /\ ~active.open /\ \A q \in Requests : call[q] # "writing"
      BY <1>1, <2>4, <2>6, RequestsAssumption DEF Holders, Slot, Holding
    <3>2. InStep'
      BY <1>2, <2>6 DEF InStep
    <3> QED
      BY <1>2, <1>5, <2>2, <2>3, <3>1, <3>2, FinishKeeps
  <2> QED
    BY <2>5, <2>6
<1>6. CASE active # NoCommand /\ active.synchronized
  <2>1. CASE kind = "busy"
    <3>1. UNCHANGED <<active, inbox>> \/ Finish(active, "busy")
      BY <1>6, <2>1 DEF Barrier
    <3> QED
      BY <1>4, <1>5, <1>6, <2>1, <3>1 DEF Values
  <2>2. CASE kind = "done"
    <3>1. PICK v : v = IF active.result = "none" THEN "unknown" ELSE active.result
      OBVIOUS
    <3>2. Finish(active, v)
      BY <1>6, <2>2, <3>1 DEF Barrier
    <3>3. active.result \in {"none", "ok", "failed", "refused"}
      BY <1>1 DEF Types, Pendings
    <3>4. /\ v \in Values /\ v # "busy"
          /\ v \in {"ok", "failed", "refused"} => active.result = v
      BY <3>1, <3>3 DEF Values
    <3> QED
      BY <1>5, <1>6, <3>2, <3>4
  <2> QED
    BY <2>1, <2>2
<1>7. CASE active = NoCommand \/ ~active.synchronized
  <2>1. ~active.synchronized
    BY <1>7 DEF NoCommand
  <2>2. UNCHANGED <<active, inbox>>
    BY <1>7, <2>1 DEF Barrier
  <2> QED
    BY <1>4, <2>2
<1> QED
  BY <1>6, <1>7

\* The active command hears of itself: never a protocol error.
LEMMA OwnReply ==
    ASSUME DriverInv, PumpReply, NEW r \in Requests, active.id = r,
           replies[1].kind = "rpc", replies[1].id = r
    PROVE  /\ active.result = "none" /\ active # NoCommand /\ active.gen = asked[r]
           /\ call[r] # "writing" /\ pipe # r
           /\ game.command # [id |-> r, step |-> "read"]
           /\ replies[1].value # "refused" => replies[1].gen = asked[r]
           /\ replies[1].value # "accepted" =>
                  /\ game.command.id = r => game.command.step = "finished"
                  /\ Of(replies', r) = {}
           /\ replies[1].value = "ok" => ran[r] = 1
           /\ replies[1].value = "refused" =>
                  \/ ran[r] = 0 /\ ~active.accepted
                  \/ ran[r] = 1 /\ replies[1].gen = asked[r] /\ active.accepted
           /\ shard.running /\ ~farewell => Alone(r, 1)
<1>1. 1 \in Of(replies, r) /\ \A i \in Of(replies, r) : i \in Int /\ ~(i < 1)
  BY HeadTaken, Places DEF DriverInv, Types
<1>2. Types /\ Slot /\ Told /\ Received /\ Unread(r) /\ Replied(r) /\ InStep
  BY DEF DriverInv, Traffic
<1>3. active # NoCommand /\ active.gen = asked[r]
  BY <1>2, RequestsAssumption DEF Slot, NoCommand
<1>4. active.result = "none"
  <2>1. active.result \in {"none", "ok", "failed", "refused"}
    BY <1>2 DEF Types, Pendings
  <2> QED
    BY <1>1, <1>2, <2>1 DEF Received
<1>5. call[r] # "writing" /\ pipe # r /\ game.command # [id |-> r, step |-> "read"]
  BY <1>1, <1>2 DEF Told, Fresh, Unread
<1>6. /\ replies[1].value # "refused" => replies[1].gen = asked[r]
      /\ replies[1].value # "accepted" =>
             /\ game.command.id = r => game.command.step = "finished"
             /\ \A j \in Of(replies, r) : j <= 1
      /\ replies[1].value = "ok" => ran[r] = 1
      /\ replies[1].value = "refused" =>
             \/ Rejected(r)
             \/ ran[r] = 1 /\ replies[1].gen = asked[r] /\ Heard(r, 1)
  BY <1>1, <1>2 DEF Replied
<1>7. ASSUME replies[1].value # "accepted" PROVE Of(replies', r) = {}
  <2>1. ASSUME NEW i \in Of(replies', r) PROVE FALSE
    <3>1. i + 1 \in Of(replies, r) /\ i \in Int /\ i > 0
      BY HeadTaken, Places DEF Moved
    <3>2. i + 1 <= 1
      BY <1>6, <1>7, <3>1
    <3> QED
      BY <3>1, <3>2
  <2> QED
    BY <2>1
<1>8. /\ Rejected(r) => ran[r] = 0 /\ ~active.accepted
      /\ Heard(r, 1) => active.accepted
  BY <1>1 DEF Rejected, Heard
<1>9. shard.running /\ ~farewell => Alone(r, 1)
  BY <1>1, <1>2 DEF InStep
<1> QED
  BY <1>3, <1>4, <1>5, <1>6, <1>7, <1>8, <1>9

\* What rpc() records of its own command.
LEMMA RpcEffect ==
    ASSUME DriverInv, PumpReply, NEW r \in Requests, active.id = r,
           NEW f, f = replies[1], f.kind = "rpc", f.id = r, Rpc(f)
    PROVE  /\ active' \in Pendings /\ active'.id = r /\ active'.gen = active.gen
           /\ active'.open = active.open /\ active'.synchronized
           /\ UNCHANGED inbox
           /\ Sane(shard') /\ Follows(shard', shard) /\ shard'.failure = shard.failure
           /\ f.value = "accepted" => active'.accepted /\ active'.result = "none"
           /\ f.value # "accepted" =>
                  /\ active'.result \in {"ok", "failed", "refused"}
                  /\ active'.result = "ok" => f.value = "ok"
                  /\ active'.result = "refused" => f.value = "refused" /\ ~active.accepted
<1>1. active.result = "none" /\ active.gen = asked[r] /\ active \in Pendings
  BY OwnReply DEF DriverInv, Types
<1>2. f.gen = active.gen \/ (f.value = "refused" /\ ~active.accepted)
  BY <1>1, OwnReply
<1>3. Sane(shard) /\ shard \in DriverStates
  BY SaneState DEF Sane
<1>4. CASE f.value = "accepted"
  <2>1. /\ active' = [active EXCEPT !.accepted = TRUE, !.synchronized = TRUE]
        /\ UNCHANGED <<inbox, shard>>
    BY <1>1, <1>2, <1>4 DEF Rpc
  <2>2. /\ active' \in Pendings /\ active'.id = r /\ active'.gen = active.gen
        /\ active'.open = active.open /\ active'.synchronized
        /\ active'.accepted /\ active'.result = "none"
    BY <1>1, <2>1 DEF Pendings
  <2> QED
    BY <1>3, <1>4, <2>1, <2>2 DEF Follows
<1>5. CASE f.value # "accepted"
  <2>1. PICK rejected \in BOOLEAN : rejected = (f.value = "refused" /\ ~active.accepted)
    OBVIOUS
  <2>2. PICK result : result = IF rejected THEN "refused"
                               ELSE IF f.value = "ok" THEN "ok" ELSE "failed"
    OBVIOUS
  <2>3. PICK now \in BOOLEAN : now = (active.accepted \/ ~rejected)
    OBVIOUS
  <2>4. /\ active' = [active EXCEPT !.synchronized = TRUE, !.result = result, !.accepted = now]
        /\ UNCHANGED inbox
        /\ \/ shard' = RecomputeReady([shard EXCEPT !.health = active.gen])
           \/ shard' = shard
    BY <1>1, <1>2, <1>5, <2>1, <2>2, <2>3 DEF Rpc
  <2>5. /\ result \in {"ok", "failed", "refused"}
        /\ result = "ok" => f.value = "ok"
        /\ result = "refused" => f.value = "refused" /\ ~active.accepted
    BY <2>1, <2>2
  <2>6. /\ active' \in Pendings /\ active'.id = r /\ active'.gen = active.gen
        /\ active'.open = active.open /\ active'.synchronized
        /\ active'.result = result
    BY <1>1, <2>4, <2>5 DEF Pendings
  <2>7. Sane(shard') /\ Follows(shard', shard) /\ shard'.failure = shard.failure
    <3>1. CASE shard' = shard
      BY <1>3, <3>1 DEF Follows
    <3>2. CASE shard' = RecomputeReady([shard EXCEPT !.health = active.gen])
      <4>1. PICK st : st = [shard EXCEPT !.health = active.gen]
        OBVIOUS
      <4>2. active.gen \in 0 .. MaxGeneration
        BY <1>1 DEF Pendings
      <4>3. /\ st \in DriverStates /\ st.stop_requested = shard.stop_requested
            /\ st.stopping = shard.stopping /\ st.running = shard.running
            /\ st.failure = shard.failure
        BY <1>3, <4>1, <4>2 DEF DriverStates
      <4>4. st.stop_requested => st.stopping
        BY <1>3, <4>3 DEF Sane
      <4>5. /\ Sane(RecomputeReady(st)) /\ Follows(RecomputeReady(st), st)
            /\ RecomputeReady(st).failure = st.failure
        BY <4>3, <4>4, RecomputeFacts
      <4>6. shard' = RecomputeReady(st)
        BY <3>2, <4>1
      <4>7. Sane(shard') /\ Follows(shard', st) /\ shard'.failure = st.failure
        BY <4>5, <4>6, Zenon
      <4> QED
        BY <4>3, <4>7 DEF Follows
    <3> QED
      BY <2>4, <3>1, <3>2
  <2> QED
    BY <1>5, <2>4, <2>5, <2>6, <2>7
<1> QED
  BY <1>4, <1>5

LEMMA RpcKeeps ==
    ASSUME DriverInv, PumpReply, NEW r \in Requests, active.id = r,
           replies[1].kind = "rpc", replies[1].id = r, Rpc(replies[1])
    PROVE  DriverInv' /\ shard'.failure = shard.failure
<1>1. Types /\ Holders /\ Slot /\ Told /\ Received /\ Traffic /\ shard.running
  BY DEF DriverInv, PumpReply
<1>2. /\ Moved(1) /\ SameGame /\ replies' \in Seq(ReplyFrames)
      /\ UNCHANGED <<call, asked, answer, lock, stop, pipe, reaped, game, ran, farewell>>
  BY HeadTaken
<1>3. PICK f : f = replies[1]
  OBVIOUS
<1>4. f.kind = "rpc" /\ f.id = r /\ Rpc(f)
  BY <1>3
<1>5. /\ active' \in Pendings /\ active'.id = r /\ active'.gen = active.gen
      /\ active'.open = active.open /\ active'.synchronized
      /\ UNCHANGED inbox
      /\ Sane(shard') /\ Follows(shard', shard) /\ shard'.failure = shard.failure
      /\ f.value = "accepted" => active'.accepted /\ active'.result = "none"
      /\ f.value # "accepted" =>
             /\ active'.result \in {"ok", "failed", "refused"}
             /\ active'.result = "ok" => f.value = "ok"
             /\ active'.result = "refused" => f.value = "refused" /\ ~active.accepted
  BY <1>3, <1>4, RpcEffect
<1>6. /\ active # NoCommand /\ active.gen = asked[r]
      /\ call[r] # "writing" /\ pipe # r
      /\ game.command # [id |-> r, step |-> "read"]
      /\ f.value # "accepted" =>
             /\ game.command.id = r => game.command.step = "finished"
             /\ Of(replies', r) = {}
      /\ f.value = "ok" => ran[r] = 1
      /\ f.value = "refused" => ran[r] = 0 \/ active.accepted
      /\ ~farewell => Alone(r, 1)
  BY <1>1, <1>3, OwnReply
<1>7. 1 \in Of(replies, r)
  BY HeadTaken
<1>8. active' # NoCommand
  BY <1>5, RequestsAssumption DEF NoCommand
<1>9. Types'
  BY <1>1, <1>2, <1>5 DEF Types, Sane
<1>10. Holders'
  BY <1>1, <1>2, <1>5 DEF Holders, ReadyIsSound, Sane, Follows
<1>11. Slot'
  <2>1. ASSUME NEW q \in Requests, call[q] = "writing" PROVE FALSE
    <3>1. active.id = q
      BY <1>1, <2>1 DEF Slot
    <3> QED
      BY <1>6, <2>1, <3>1
  <2> QED
    BY <1>1, <1>2, <1>5, <1>6, <1>8, <2>1 DEF Slot
<1>12. Told'
  BY <1>1, <1>2, ToldKept DEF Told
<1>13. Received'
  <2> SUFFICES ASSUME NEW q \in Requests
               PROVE  /\ lock' = q /\ inbox' = "busy" => Fresh(q)'
                      /\ \A v \in {"ok", "failed", "refused"} :
                             lock' = q /\ inbox' = v => Settled(q, v)'
                      /\ \A v \in {"ok", "failed", "refused"} :
                             active'.id = q /\ active'.result = v =>
                                 Settled(q, v)' /\ Of(replies', q) = {}
    BY DEF Received
  <2>1. (Fresh(q) => Fresh(q)') /\ \A v : Settled(q, v) => Settled(q, v)'
    BY <1>2, FreshKept
  <2>2. ASSUME NEW v \in {"ok", "failed", "refused"}, active'.id = q, active'.result = v
        PROVE  Settled(q, v)' /\ Of(replies', q) = {}
    <3>1. q = r /\ f.value # "accepted"
      BY <1>5, <2>2
    <3>2. Settled(q, v)
      BY <1>5, <1>6, <2>2, <3>1 DEF Settled
    <3> QED
      BY <1>6, <2>1, <3>1, <3>2
  <2> QED
    BY <1>1, <1>2, <1>5, <2>1, <2>2 DEF Received
<1>14. ASSUME NEW q \in Requests PROVE Unread(q)' /\ Replied(q)'
  <2>1. Unread(q) /\ Replied(q)
    BY <1>1 DEF Traffic
  <2>2. /\ Of(replies, q) = {} => Of(replies', q) = {}
        /\ \A i \in Of(replies', q) : i + 1 \in Of(replies, q) /\ replies'[i] = replies[i + 1]
    BY <1>2 DEF Moved
  <2>3. ASSUME NEW i \in Of(replies', q), replies'[i].value # "accepted", NEW j \in Of(replies', q)
        PROVE  j <= i
    <3>1. /\ i + 1 \in Of(replies, q) /\ j + 1 \in Of(replies, q)
          /\ replies[i + 1].value # "accepted"
      BY <2>2, <2>3
    <3>2. j + 1 <= i + 1
      BY <2>1, <3>1 DEF Replied
    <3>3. i \in Int /\ j \in Int
      BY <1>2, Places
    <3> QED
      BY <3>2, <3>3
  <2>4. CASE q # r
    <3>1. active'.id # q /\ active.id # q
      BY <1>5, <2>4
    <3>2. Unread(q)'
      BY <1>2, <2>1, <2>2, <3>1 DEF Unread, SameGame, HeardYet
    <3>3. Rejected(q) => Rejected(q)'
      BY <1>2, <2>2, <3>1 DEF Rejected
    <3>4. \A n : Heard(q, n)'
      BY <3>1 DEF Heard
    <3>5. Replied(q)'
      BY <1>2, <2>1, <2>2, <2>3, <3>3, <3>4 DEF Replied
    <3> QED
      BY <3>2, <3>5
  <2>5. CASE q = r
    <3>1. ASSUME game.command = [id |-> r, step |-> "accepted"] PROVE f.value = "accepted"
      BY <1>6, <3>1
    <3>2. HeardYet(r)' \/ f.value # "accepted"
      BY <1>5 DEF HeardYet
    <3>3. Unread(r)'
      BY <1>2, <1>6, <2>1, <2>5, <3>1, <3>2 DEF Unread
    <3>4. CASE f.value # "accepted"
      BY <1>6, <2>5, <3>3, <3>4 DEF Replied
    <3>5. CASE f.value = "accepted"
      <4>1. ~Rejected(r)
        BY <1>3, <1>7, <3>5 DEF Rejected
      <4>2. \A n : Heard(r, n)'
        BY <1>5, <3>5 DEF Heard
      <4>3. Replied(r)'
        BY <1>2, <2>1, <2>2, <2>3, <2>5, <4>1, <4>2 DEF Replied
      <4> QED
        BY <2>5, <3>3, <4>3
    <3> QED
      BY <3>4, <3>5
  <2> QED
    BY <2>4, <2>5
<1>15. OneFrame'
  <2>1. ASSUME NEW q \in Requests PROVE Fresh(q) => Fresh(q)'
    BY <1>2, FreshKept
  <2> QED
    BY <1>1, <1>2, <1>5, <2>1 DEF Traffic, OneFrame
<1>16. InStep'
  <2>1. SUFFICES ASSUME ~farewell
                 PROVE  /\ Alone(r, 0)'
                        /\ \A i \in Of(replies', r) : Alone(r, i)'
    BY <1>2, <1>5, <1>6, <1>8 DEF InStep
  <2>2. \A i \in Int : Alone(r, i + 1) => Alone(r, i)'
    BY <1>2, <1>9, AloneKept
  <2>3. Alone(r, 0)'
    <3>1. 0 \in Int /\ 0 + 1 = 1
      OBVIOUS
    <3>2. Alone(r, 0 + 1)
      BY <1>6, <2>1, <3>1
    <3> QED
      BY <2>2, <3>1, <3>2
  <2>4. ASSUME NEW i \in Of(replies', r) PROVE Alone(r, i)'
    <3>1. i + 1 \in Of(replies, r) /\ i \in Int
      BY <1>2, Places DEF Moved
    <3>2. Alone(r, i + 1)
      BY <1>1, <2>1, <3>1 DEF Traffic, InStep
    <3> QED
      BY <2>2, <3>1, <3>2
  <2> QED
    BY <2>3, <2>4
<1> QED
  BY <1>5, <1>9, <1>10, <1>11, <1>12, <1>13, <1>14, <1>15, <1>16 DEF DriverInv, Traffic

LEMMA PumpReplyKeeps ==
    ASSUME DriverInv, Of(replies, "none") = {}, PumpReply
    PROVE  /\ DriverInv'
           /\ shard'.failure = shard.failure \/ replies[1].kind = "bad"
<1>1. PICK f \in ReplyFrames : f = replies[1] /\ f = Head(replies)
  BY HeadTaken
<1>2. /\ f.kind \in {"rpc", "control", "busy", "done", "bad"}
      /\ f.id \in Requests \union {"none"} /\ f.gen \in Gens
  BY DEF ReplyFrames, Gens
<1>3. /\ f.kind = "rpc" => Rpc(f)
      /\ f.kind = "control" => ControlRecord(f.gen)
      /\ f.kind = "bad" => Fail
      /\ f.kind \in {"busy", "done"} => Barrier(f.kind)
  BY <1>1, <1>2 DEF PumpReply
<1>4. /\ Moved(1) /\ SameGame /\ replies' \in Seq(ReplyFrames)
      /\ UNCHANGED <<call, asked, answer, lock, stop, pipe, reaped, game, ran, farewell>>
      /\ ~(f.kind = "rpc" /\ f.id = active.id) => Noticed(1)
  BY <1>1, HeadTaken
<1>5. Sane(shard) /\ 1 \in {0, 1}
  BY SaneState
<1>6. CASE f.kind = "rpc" /\ f.id = active.id
  <2>1. 1 \in Of(replies, f.id)
    BY <1>1, <1>6, HeadTaken
  <2>2. f.id \in Requests
    BY <1>2, <2>1
  <2> QED
    BY <1>1, <1>3, <1>6, <2>2, RpcKeeps
<1>7. CASE f.kind = "rpc" /\ f.id # active.id
  <2>1. UNCHANGED <<active, inbox, shard>>
    BY <1>3, <1>7 DEF Rpc
  <2>2. Unknown /\ Sane(shard') /\ Follows(shard', shard)
    BY <1>5, <2>1 DEF Unknown, Follows
  <2> QED
    BY <1>4, <1>5, <1>7, <2>1, <2>2, RecordKeeps
<1>8. CASE f.kind = "control"
  <2>1. PICK gen \in Gens : gen = f.gen
    BY <1>2
  <2>2. \/ UNCHANGED <<shard, active, inbox>>
        \/ shard' = AdvancedState(gen) /\ AbandonOlder(gen)
    BY <1>3, <1>8, <2>1 DEF ControlRecord
  <2>3. CASE UNCHANGED <<shard, active, inbox>>
    <3>1. Unknown /\ Sane(shard') /\ Follows(shard', shard)
      BY <1>5, <2>3 DEF Unknown, Follows
    <3> QED
      BY <1>4, <1>5, <1>8, <2>3, <3>1, RecordKeeps
  <2>4. CASE shard' = AdvancedState(gen) /\ AbandonOlder(gen)
    <3>1. Unknown
      BY <2>4, AbandonFacts
    <3>2. /\ Sane(AdvancedState(gen)) /\ Follows(AdvancedState(gen), shard)
          /\ AdvancedState(gen).failure = shard.failure
      BY <1>5, AdvancedFacts
    <3>3. Sane(shard') /\ Follows(shard', shard) /\ shard'.failure = shard.failure
      BY <2>4, <3>2, Zenon
    <3> QED
      BY <1>4, <1>5, <1>8, <3>1, <3>3, RecordKeeps
  <2> QED
    BY <2>2, <2>3, <2>4
<1>9. CASE f.kind = "bad"
  <2>1. Unknown /\ Sane(shard') /\ Follows(shard', shard)
    BY <1>3, <1>9, FailFacts
  <2> QED
    BY <1>1, <1>4, <1>5, <1>9, <2>1, RecordKeeps
<1>10. CASE f.kind \in {"busy", "done"}
  <2>1. DriverInv'
    BY <1>1, <1>3, <1>10, BarrierKeeps
  <2>2. UNCHANGED shard
    BY <1>3, <1>10 DEF Barrier
  <2> QED
    BY <2>1, <2>2
<1> QED
  BY <1>2, <1>6, <1>7, <1>8, <1>9, <1>10

LEMMA DriverInit ==
    ASSUME Init
    PROVE  DriverInv
<1>1. Types
  <2>1. NoCommand \in Pendings /\ 0 \in Gens
    BY GenerationAssumption DEF NoCommand, Pendings, Gens
  <2>2. shard \in DriverStates
    BY GenerationAssumption DEF Init, DriverStates
  <2>3. game \in Games
    BY GenerationAssumption DEF Init, Games, Idle, Generations
  <2>4. replies \in Seq(ReplyFrames)
    BY DEF Init
  <2>5. /\ call \in [Requests -> Calls] /\ asked \in [Requests -> Gens]
        /\ answer \in [Requests -> Answers \union {"none"}] /\ ran \in [Requests -> Nat]
    BY <2>1 DEF Init, Calls
  <2> QED
    BY <2>1, <2>2, <2>3, <2>4, <2>5 DEF Init, Types, NoFrame
<1>2. /\ shard.running /\ ~shard.ready /\ ~shard.stop_requested
      /\ game.alive /\ game.command = Idle /\ Idle.id = "none" /\ Idle.step = "none"
      /\ ~active.open /\ active.id = "none" /\ active.result = "none" /\ ~active.synchronized
  BY DEF Init, Idle, NoCommand
<1>3. Of(replies, "none") = {} /\ Markers(replies) = {} /\ \A r : Of(replies, r) = {}
  <2>1. Len(replies) = 0
    BY DEF Init
  <2>2. 1 .. Len(replies) = {}
    BY <2>1
  <2> QED
    BY <2>2 DEF Of, Markers
<1>4. Holders
  BY <1>2, RequestsAssumption DEF Init, Holders, ReadyIsSound, Holding, NoFrame
<1>5. Slot
  BY <1>2, RequestsAssumption DEF Init, Slot
<1>6. \A r \in Requests : Fresh(r)
  BY <1>2, <1>3, RequestsAssumption DEF Init, Fresh, NoFrame
<1>7. Told
  BY <1>6 DEF Init, Told
<1>8. Received
  BY <1>2, RequestsAssumption DEF Init, Received
<1>9. ASSUME NEW r \in Requests PROVE Unread(r) /\ Replied(r)
  BY <1>2, <1>3, RequestsAssumption DEF Init, Unread, Replied, NoFrame
<1>10. OneFrame /\ InStep
  BY <1>2, <1>3, RequestsAssumption DEF Init, OneFrame, InStep, Nobody
<1> QED
  BY <1>1, <1>4, <1>5, <1>7, <1>8, <1>9, <1>10 DEF DriverInv, Traffic

LEMMA DriverStep ==
    ASSUME DriverInv, out \in Seq(OutFrames), Of(replies, "none") = {}, [Next]_vars
    PROVE  DriverInv'
<1>1. ASSUME NEW r \in Requests, Worker(r) PROVE DriverInv'
  BY <1>1, CallerSteps, DispatchKeeps, WriteKeeps, ReceiveKeeps, BackoffKeeps, ExpireKeeps
     DEF Worker
<1>2. CASE Pump
  BY <1>2, PumpReplyKeeps, PumpOutKeeps, PumpLifeKeeps, PumpEndsKeeps DEF Pump
<1>3. CASE Stopper
  BY <1>3, StopStepsKeep, StopSendsKeeps DEF Stopper
<1>4. CASE RequestKill \/ UNCHANGED vars
  BY <1>4, StopStepsKeep
<1>5. CASE Reap
  BY <1>5, ReapKeeps
<1>6. CASE Game
  BY <1>6, SilentStepsKeep, RecordStepsKeep, MarkerStepsKeep, ReplyStepsKeep DEF Game
<1> QED
  BY <1>1, <1>2, <1>3, <1>4, <1>5, <1>6 DEF Next

-----------------------------------------------------------------------------
(* Who is to blame for a failure *)

LEMMA BlameInit ==
    ASSUME Init
    PROVE  Blame
<1>1. out = <<>> /\ replies = <<>> /\ faults = 0 /\ ~lost /\ ~shard.failure
  BY DEF Init
<1>2. 1 .. Len(replies) = {} /\ 1 .. Len(out) = {} /\ out \in Seq(OutFrames)
  BY <1>1
<1> QED
  BY <1>1, <1>2 DEF Blame, Of

\* Most steps bring no evidence.
LEMMA NoEvidence ==
    ASSUME Blame, UNCHANGED <<replies, out, lost, faults>>, reaped => reaped',
           shard'.failure => shard.failure \/ lost
    PROVE  Blame'
BY DEF Blame, Guilty

LEMMA ShardFailure ==
    ASSUME DriverInv, RequestStop \/ PumpLife \/ PumpEnds
    PROVE  shard'.failure => shard.failure \/ lost
<1>1. shard \in DriverStates
  BY DEF DriverInv, Types
<1>2. CASE RequestStop
  BY <1>1, <1>2 DEF RequestStop, DriverStates
<1>3. CASE PumpEnds
  BY <1>1, <1>3 DEF PumpEnds, DriverStates
<1>4. CASE PumpLife
  <2>1. PICK st : st = [shard EXCEPT !.native_ready = TRUE]
    OBVIOUS
  <2>2. st.failure = shard.failure
    BY <1>1, <2>1 DEF DriverStates
  <2>3. /\ st \in DriverStates /\ st.stop_requested = shard.stop_requested
        /\ st.stopping = shard.stopping
    BY <1>1, <2>1 DEF DriverStates
  <2>4. st.stop_requested => st.stopping
    BY <2>3, SaneState DEF Sane
  <2>5. RecomputeReady(st).failure = st.failure
    BY <2>3, <2>4, RecomputeFacts
  <2>6. CASE shard' = RecomputeReady(st)
    <3>1. shard'.failure = st.failure
      BY <2>5, <2>6, Zenon
    <3> QED
      BY <2>2, <3>1
  <2>7. CASE shard' = [shard EXCEPT !.stopping = TRUE, !.ready = FALSE]
    BY <1>1, <2>7 DEF DriverStates
  <2> QED
    BY <1>4, <2>1, <2>6, <2>7 DEF PumpLife
<1> QED
  BY <1>2, <1>3, <1>4

LEMMA WorkerBlame ==
    ASSUME DriverInv, Blame, NEW r \in Requests, Worker(r)
    PROVE  Blame'
<1>1. UNCHANGED <<replies, out, lost, faults, reaped, shard>>
  BY DEF Worker, Submit, QueueTimesOut, Dispatch, Write, WriteFails, Receive, BackoffTimesOut,
         GiveUp, Expire, streams, process, history
<1> QED
  BY <1>1, NoEvidence

LEMMA StopBlame ==
    ASSUME DriverInv, Blame, Stopper \/ RequestKill \/ PumpLife \/ PumpEnds \/ UNCHANGED vars
    PROVE  Blame'
<1>1. UNCHANGED <<replies, out, lost, faults, reaped>>
  BY DEF Stopper, RequestStop, StopLocks, StopSends, StopCannotSend, StopEscalates, StopReturns,
         RequestKill, PumpLife, PumpEnds, streams, process, history, vars
<1>2. RequestStop \/ PumpLife \/ PumpEnds \/ UNCHANGED shard
  BY DEF Stopper, StopLocks, StopSends, StopCannotSend, StopEscalates, StopReturns,
         RequestKill, vars
<1>3. shard'.failure => shard.failure \/ lost
  BY <1>2, ShardFailure
<1> QED
  BY <1>1, <1>3, NoEvidence

LEMMA ReapBlame ==
    ASSUME DriverInv, Blame, Reap
    PROVE  Blame'
<1>1. /\ reaped' = TRUE /\ ~reaped /\ UNCHANGED <<shard, out, faults>>
      /\ replies \in Seq(ReplyFrames)
  BY DEF Reap, history, DriverInv, Types
<1>2. PICK kept \in 0 .. Len(replies) : replies' = SubSeq(replies, 1, kept)
  BY DEF Reap
<1>3. \A i \in 1 .. Len(replies') : i \in 1 .. Len(replies) /\ replies'[i] = replies[i]
  BY <1>1, <1>2
<1>4. Of(replies', "none") = {}
  BY <1>3 DEF Blame, Of
<1>5. shard'.failure => Guilty
  BY <1>1 DEF Blame
<1> QED
  BY <1>1, <1>3, <1>4, <1>5 DEF Blame, Guilty

LEMMA PumpReplyBlame ==
    ASSUME DriverInv, Blame, PumpReply
    PROVE  Blame'
<1>1. UNCHANGED <<out, faults, lost, reaped>>
  BY DEF PumpReply, history
<1>2. replies \in Seq(ReplyFrames) /\ replies # <<>> /\ replies' = Tail(replies)
  BY DEF DriverInv, Types, PumpReply
<1>3. shard'.failure = shard.failure \/ replies[1].kind = "bad"
  BY PumpReplyKeeps DEF Blame
<1>4. 1 \in 1 .. Len(replies)
  BY <1>2
<1>5. ASSUME NEW i \in 1 .. Len(replies')
      PROVE  i + 1 \in 1 .. Len(replies) /\ replies'[i] = replies[i + 1]
  BY <1>2
<1>6. \A i \in 1 .. Len(replies') : replies'[i].kind = "bad" => Guilty
  BY <1>5 DEF Blame
<1>7. Of(replies', "none") = {}
  BY <1>5, Zenon DEF Blame, Of
<1>8. shard'.failure => Guilty \/ lost
  BY <1>3, <1>4 DEF Blame
<1> QED
  BY <1>1, <1>6, <1>7, <1>8 DEF Blame, Guilty

LEMMA PumpOutBlame ==
    ASSUME DriverInv, Blame, PumpOut
    PROVE  Blame'
<1>1. UNCHANGED <<replies, faults, lost, reaped>> /\ out # <<>> /\ out' = Tail(out)
  BY DEF PumpOut, history
<1>2. out \in Seq(OutFrames) /\ 1 \in 1 .. Len(out) /\ Head(out) = out[1]
  BY <1>1 DEF Blame
<1>3. ASSUME NEW i \in 1 .. Len(out') PROVE i + 1 \in 1 .. Len(out) /\ out'[i] = out[i + 1]
  BY <1>1, <1>2
<1>4. out' \in Seq(OutFrames)
  BY <1>1, <1>2
<1>5. \A i \in 1 .. Len(out') : out'[i].kind = "error" => Guilty
  BY <1>3 DEF Blame
<1>6. shard'.failure => shard.failure \/ out[1].kind = "error"
  <2>1. PICK frame \in OutFrames : frame = Head(out)
    BY <1>1, <1>2
  <2>2. PICK gen \in Gens : gen = frame.gen
    BY GenerationAssumption DEF OutFrames, Generations, Gens
  <2>3. Sane(shard)
    BY SaneState
  <2>4. PICK advanced : advanced = AdvancedState(gen)
    OBVIOUS
  <2>5. Sane(advanced) /\ Follows(advanced, shard) /\ advanced.failure = shard.failure
    BY <2>3, <2>4, AdvancedFacts
  <2>6. PICK st : st = IF frame.kind = "health"
                       THEN [advanced EXCEPT !.health = gen] ELSE advanced
    OBVIOUS
  <2>7. /\ st \in DriverStates /\ st.stop_requested = advanced.stop_requested
        /\ st.stopping = advanced.stopping /\ st.failure = advanced.failure
    <3>1. advanced \in DriverStates
      BY <2>5 DEF Sane
    <3>2. CASE frame.kind = "health"
      BY <2>6, <3>1, <3>2 DEF DriverStates, Gens
    <3>3. CASE frame.kind # "health"
      BY <2>6, <3>1, <3>3
    <3> QED
      BY <3>2, <3>3
  <2>8. st.stop_requested => st.stopping
    BY <2>5, <2>7 DEF Sane
  <2>9. RecomputeReady(st).failure = st.failure
    BY <2>7, <2>8, RecomputeFacts
  <2>10. \/ UNCHANGED shard
         \/ frame.kind = "error"
         \/ shard' = RecomputeReady(st)
    BY <2>1, <2>2, <2>4, <2>6 DEF PumpOut
  <2>11. CASE shard' = RecomputeReady(st)
    <3>1. shard'.failure = st.failure
      BY <2>9, <2>11, Zenon
    <3> QED
      BY <2>5, <2>7, <3>1
  <2> QED
    BY <1>2, <2>1, <2>10, <2>11
<1>7. shard'.failure => Guilty \/ lost
  BY <1>2, <1>6 DEF Blame
<1> QED
  BY <1>1, <1>4, <1>5, <1>7 DEF Blame, Guilty

LEMMA GameBlame ==
    ASSUME DriverInv, Blame, Game
    PROVE  Blame'
<1> USE DEF streams, history
<1>1. /\ UNCHANGED <<shard, lost, reaped>> /\ Holders /\ game \in Games
      /\ replies \in Seq(ReplyFrames) /\ out \in Seq(OutFrames) /\ faults \in Nat
  <2>1. UNCHANGED gameKeeps
    BY DEF Game, GameReads, GameIsBusy, GameDrops, GameShutsDown, LuaIgnores, LuaRejects,
           LuaAccepts, LuaErrors, LuaRuns, GameMarksDone, GameReloads, LuaInstallsRpc,
           LuaInstalls, LuaIsReady, LuaReportsError, GameGarbles, GameIsReady, GameExits
  <2> QED
    BY <2>1, GameLeaves DEF DriverInv, Types, Blame
<1>2. Guilty => Guilty'
  <2>1. faults' \in {faults, faults + 1}
    BY DEF Game, GameReads, GameIsBusy, GameDrops, GameShutsDown, LuaIgnores, LuaRejects,
           LuaAccepts, LuaErrors, LuaRuns, GameMarksDone, GameReloads, LuaInstallsRpc,
           LuaInstalls, LuaIsReady, LuaReportsError, GameGarbles, GameIsReady, GameExits
  <2> QED
    BY <1>1, <2>1 DEF Guilty
<1>3. faults' \in Nat
  <2>1. faults' \in {faults, faults + 1}
    BY DEF Game, GameReads, GameIsBusy, GameDrops, GameShutsDown, LuaIgnores, LuaRejects,
           LuaAccepts, LuaErrors, LuaRuns, GameMarksDone, GameReloads, LuaInstallsRpc,
           LuaInstalls, LuaIsReady, LuaReportsError, GameGarbles, GameIsReady, GameExits
  <2> QED
    BY <1>1, <2>1
<1>4. ASSUME NEW f \in ReplyFrames, replies' = Append(replies, f), UNCHANGED out,
             f.kind # "rpc" \/ f.id \in Requests, f.kind = "bad" => Guilty'
      PROVE  Blame'
  <2>1. /\ Len(replies) \in Nat /\ Len(replies') = Len(replies) + 1
        /\ replies'[Len(replies) + 1] = f
        /\ \A i \in 1 .. Len(replies) : replies'[i] = replies[i]
    BY <1>1, <1>4, Emitted
  <2>2. ASSUME NEW i PROVE i \in 1 .. Len(replies') <=> i \in 1 .. Len(replies) \/ i = Len(replies) + 1
    BY <2>1
  <2>3. \A i \in 1 .. Len(replies') : replies'[i].kind = "bad" => Guilty'
    BY <1>2, <1>4, <2>1, <2>2 DEF Blame
  <2>4. Of(replies', "none") = {}
    <3>1. CASE f.kind # "rpc"
      BY <1>1, <1>4, <3>1, OtherEmits DEF Blame
    <3>2. CASE f.kind = "rpc"
      BY <1>1, <1>4, <3>2, ReplyEmits, RequestsAssumption DEF Blame
    <3> QED
      BY <3>1, <3>2
  <2> QED
    BY <1>1, <1>2, <1>3, <1>4, <2>3, <2>4 DEF Blame
<1>5. ASSUME NEW f \in OutFrames, out' = Append(out, f), UNCHANGED replies,
             f.kind = "error" => Guilty'
      PROVE  Blame'
  <2>1. /\ Len(out) \in Nat /\ Len(out') = Len(out) + 1 /\ out' \in Seq(OutFrames)
        /\ out'[Len(out) + 1] = f
        /\ \A i \in 1 .. Len(out) : out'[i] = out[i]
    BY <1>1, <1>5
  <2>2. ASSUME NEW i PROVE i \in 1 .. Len(out') <=> i \in 1 .. Len(out) \/ i = Len(out) + 1
    BY <2>1
  <2>3. \A i \in 1 .. Len(out') : out'[i].kind = "error" => Guilty'
    BY <1>2, <1>5, <2>1, <2>2 DEF Blame
  <2> QED
    BY <1>1, <1>2, <1>3, <1>5, <2>1, <2>3 DEF Blame
<1>6. CASE UNCHANGED <<replies, out>>
  BY <1>1, <1>2, <1>3, <1>6 DEF Blame
<1>7. ASSUME NEW k \in {"busy", "done", "bad"}, Emit(Marker(k)), UNCHANGED out,
             k = "bad" => Guilty'
      PROVE  Blame'
  <2>1. PICK f \in ReplyFrames : f.kind = k /\ replies' = Append(replies, f)
    BY <1>7, MarkerFrames DEF Emit
  <2> QED
    BY <1>4, <1>7, <2>1
<1>8. ASSUME NEW v \in {"accepted", "ok", "refused", "error"}, UNCHANGED out,
             Emit(Reply(game.command.id, game.world, v)), game.command.step # "none"
      PROVE  Blame'
  <2>1. game.command.id \in Requests
    BY <1>1, <1>8 DEF Holders, Idle
  <2>2. PICK f : f = Reply(game.command.id, game.world, v)
    OBVIOUS
  <2>3. f \in ReplyFrames /\ f.kind = "rpc" /\ f.id \in Requests
    BY <1>1, <2>1, <2>2, ReplyFrame DEF Games
  <2>4. replies' = Append(replies, f)
    BY <1>8, <2>2 DEF Emit
  <2> QED
    BY <1>4, <1>8, <2>3, <2>4
<1>9. CASE GameIsBusy \/ GameShutsDown \/ GameMarksDone
  BY <1>7, <1>9 DEF GameIsBusy, GameShutsDown, GameMarksDone
<1>10. CASE GameGarbles
  <2>1. Guilty'
    BY <1>1, <1>10 DEF GameGarbles, Guilty
  <2> QED
    BY <1>7, <1>10, <2>1 DEF GameGarbles
<1>11. CASE LuaRejects \/ LuaAccepts \/ LuaErrors \/ LuaRuns
  <2>1. UNCHANGED out /\ game.command.step # "none"
    BY <1>11 DEF LuaRejects, LuaAccepts, LuaErrors, LuaRuns, LuaAt
  <2>2. PICK v \in {"accepted", "ok", "refused", "error"} :
            Emit(Reply(game.command.id, game.world, v))
    BY <1>11 DEF LuaRejects, LuaAccepts, LuaErrors, LuaRuns
  <2> QED
    BY <1>8, <2>1, <2>2
<1>12. CASE LuaInstallsRpc
  <2>1. UNCHANGED out /\ (UNCHANGED replies \/ replies' = Append(replies, Control(game.world)))
    BY <1>12 DEF LuaInstallsRpc, Emit
  <2>2. PICK f : f = Control(game.world)
    OBVIOUS
  <2>3. f \in ReplyFrames /\ f.kind = "control"
    <3>1. game.world \in 0 .. MaxGeneration
      BY <1>1, GenerationAssumption DEF Games, Generations
    <3> QED
      BY <2>2, <3>1 DEF Control, ReplyFrames
  <2> QED
    BY <1>4, <1>6, <2>1, <2>2, <2>3
<1>13. CASE LuaInstalls \/ LuaIsReady \/ LuaReportsError
  <2>1. PICK k \in {"hello", "health", "error"} :
            /\ out' = Append(out, [kind |-> k, gen |-> game.world]) /\ UNCHANGED replies
            /\ k = "error" => faults' = faults + 1
    BY <1>13 DEF LuaInstalls, LuaIsReady, LuaReportsError
  <2>2. PICK f : f = [kind |-> k, gen |-> game.world]
    OBVIOUS
  <2>3. f \in OutFrames /\ f.kind = k
    BY <1>1, <2>2 DEF OutFrames, Games
  <2>4. k = "error" => Guilty'
    BY <1>1, <2>1 DEF Guilty
  <2> QED
    BY <1>5, <2>1, <2>2, <2>3, <2>4
<1>14. CASE GameReads \/ GameDrops \/ LuaIgnores \/ GameReloads \/ GameIsReady \/ GameExits
  BY <1>6, <1>14 DEF GameReads, GameDrops, LuaIgnores, GameReloads, GameIsReady, GameExits
<1> QED
  BY <1>9, <1>10, <1>11, <1>12, <1>13, <1>14 DEF Game

-----------------------------------------------------------------------------
(* Worlds follow one another *)

\* From the state st to new, no world is taken back, and readiness is lost only to a
\* stop, a failure, the end or a newer world.
Onward(new, st) ==
    /\ new.generation >= st.generation
    /\ st.ready /\ ~new.ready => \/ ~new.running \/ new.failure \/ new.stopping
                                 \/ new.generation > st.generation

\* What recompute_ready makes of a state whose world is as new, and which has all that
\* a ready one needs unless its world is newer.
LEMMA RecomputeOnward ==
    ASSUME Sane(shard), NEW st \in DriverStates, st.generation >= shard.generation,
           st.generation = shard.generation /\ shard.ready =>
               /\ st.running /\ ~st.failure /\ ~st.stopping /\ st.native_ready
               /\ st.health # 0 /\ st.health = st.generation
    PROVE  Onward(RecomputeReady(st), shard)
<1> DEFINE now == /\ st.running /\ ~st.stopping /\ ~st.failure
                  /\ st.native_ready
                  /\ st.health # 0 /\ st.health = st.generation
           new == [st EXCEPT !.ready = now]
<1>1. RecomputeReady(st) = new
  BY DEF RecomputeReady
<1>2. st.generation = shard.generation /\ shard.ready => now
  OBVIOUS
<1> HIDE DEF now
<1>3. new.ready = now /\ new.generation = st.generation
  BY DEF DriverStates
<1>4. st.generation \in Int /\ shard.generation \in Int
  BY GenerationAssumption DEF Sane, DriverStates
<1> HIDE DEF new
<1>5. Onward(new, shard)
  BY <1>2, <1>3, <1>4 DEF Onward
<1> QED
  BY <1>1, <1>5, Zenon

\* advance_generation with a record that is not of an older world.
LEMMA AdvancedOnward ==
    ASSUME Sane(shard), NEW gen \in Gens, ~Stale(gen)
    PROVE  /\ AdvancedState(gen).generation = gen /\ gen >= shard.generation
           /\ gen = shard.generation => AdvancedState(gen) = shard
           /\ Onward(AdvancedState(gen), shard)
<1>1. shard \in DriverStates /\ gen \in Int /\ shard.generation \in Int
  BY GenerationAssumption DEF Sane, DriverStates, Gens
<1>2. gen >= shard.generation
  BY <1>1 DEF Stale
<1>3. CASE shard.generation = gen
  <2>1. AdvancedState(gen) = shard
    BY <1>3 DEF AdvancedState
  <2> QED
    BY <1>1, <1>2, <1>3, <2>1 DEF Onward
<1>4. CASE shard.generation # gen
  <2> DEFINE new == [shard EXCEPT !.generation = gen, !.stopping = shard.stop_requested,
                                  !.ready = FALSE, !.health = 0]
  <2>1. AdvancedState(gen) = new
    BY <1>4 DEF AdvancedState
  <2>2. new.generation = gen
    BY <1>1 DEF DriverStates
  <2> HIDE DEF new
  <2>3. Onward(new, shard)
    BY <1>1, <1>2, <1>4, <2>2 DEF Onward
  <2> QED
    BY <1>2, <1>4, <2>1, <2>2, <2>3, Zenon
<1> QED
  BY <1>3, <1>4

\* Most records leave the state alone or end its readiness for a reason.
LEMMA PlainOnward ==
    ASSUME Sane(shard),
           \/ UNCHANGED shard
           \/ shard' = [shard EXCEPT !.failure = TRUE, !.ready = FALSE]
           \/ shard' = [shard EXCEPT !.stopping = TRUE, !.ready = FALSE]
           \/ shard' = [shard EXCEPT !.stop_requested = TRUE, !.stopping = TRUE, !.ready = FALSE]
           \/ shard' = [shard EXCEPT !.running = FALSE, !.ready = FALSE,
                                     !.failure = shard.failure \/ lost]
    PROVE  Onward(shard', shard)
<1>1. shard \in DriverStates /\ shard.generation \in Int
  BY GenerationAssumption DEF Sane, DriverStates
<1>2. /\ shard'.generation = shard.generation
      /\ shard'.ready = shard.ready \/ shard'.failure \/ shard'.stopping \/ ~shard'.running
  BY <1>1 DEF DriverStates
<1> QED
  BY <1>1, <1>2 DEF Onward

LEMMA ReplyOnward ==
    ASSUME DriverInv, PumpReply
    PROVE  Onward(shard', shard)
<1>1. PICK f \in ReplyFrames : f = Head(replies)
  BY HeadTaken
<1>2. Sane(shard) /\ shard \in DriverStates
  BY SaneState DEF Sane
<1>3. \/ UNCHANGED shard
      \/ Fail
      \/ f.kind = "control" /\ ~Stale(f.gen) /\ shard' = AdvancedState(f.gen)
      \/ shard.generation = active.gen /\ shard' = RecomputeReady([shard EXCEPT !.health = active.gen])
  BY <1>1 DEF PumpReply, Rpc, ControlRecord, Barrier
<1>4. CASE Fail
  BY <1>2, <1>4, PlainOnward DEF Fail
<1>5. CASE f.kind = "control" /\ ~Stale(f.gen) /\ shard' = AdvancedState(f.gen)
  <2>1. PICK gen \in Gens : gen = f.gen
    BY <1>1 DEF ReplyFrames, Gens
  <2>2. Onward(AdvancedState(gen), shard)
    BY <1>2, <1>5, <2>1, AdvancedOnward
  <2> QED
    BY <1>5, <2>1, <2>2, Zenon
<1>6. CASE shard.generation = active.gen
           /\ shard' = RecomputeReady([shard EXCEPT !.health = active.gen])
  <2>1. PICK st : st = [shard EXCEPT !.health = active.gen]
    OBVIOUS
  <2>2. /\ st \in DriverStates /\ st.generation = shard.generation
        /\ st.health = shard.generation /\ st.running = shard.running
        /\ st.failure = shard.failure /\ st.stopping = shard.stopping
        /\ st.native_ready = shard.native_ready
    BY <1>2, <1>6, <2>1 DEF DriverStates
  <2>3. shard.generation \in Int
    BY <1>2, GenerationAssumption DEF DriverStates
  <2>4. Onward(RecomputeReady(st), shard)
    BY <1>2, <2>2, <2>3, RecomputeOnward DEF Sane
  <2> QED
    BY <1>6, <2>1, <2>4, Zenon
<1>7. CASE UNCHANGED shard
  BY <1>2, <1>7, PlainOnward
<1> QED
  BY <1>3, <1>4, <1>5, <1>6, <1>7

LEMMA OutOnward ==
    ASSUME DriverInv, out \in Seq(OutFrames), PumpOut
    PROVE  Onward(shard', shard)
<1>1. PICK frame \in OutFrames : frame = Head(out)
  BY DEF PumpOut
<1>2. PICK gen \in Gens : gen = frame.gen
  BY GenerationAssumption DEF OutFrames, Generations, Gens
<1>3. Sane(shard) /\ shard \in DriverStates
  BY SaneState DEF Sane
<1>4. PICK advanced : advanced = AdvancedState(gen)
  OBVIOUS
<1>5. \/ UNCHANGED shard
      \/ Fail
      \/ /\ ~Stale(gen)
         /\ shard' = RecomputeReady(IF frame.kind = "health"
                                    THEN [advanced EXCEPT !.health = gen] ELSE advanced)
  BY <1>1, <1>2, <1>4 DEF PumpOut
<1>6. CASE Fail
  BY <1>3, <1>6, PlainOnward DEF Fail
<1>7. CASE /\ ~Stale(gen)
           /\ shard' = RecomputeReady(IF frame.kind = "health"
                                      THEN [advanced EXCEPT !.health = gen] ELSE advanced)
  <2>1. PICK st : st = IF frame.kind = "health"
                       THEN [advanced EXCEPT !.health = gen] ELSE advanced
    OBVIOUS
  <2>2. /\ advanced.generation = gen /\ gen >= shard.generation
        /\ gen = shard.generation => advanced = shard
    BY <1>3, <1>4, <1>7, AdvancedOnward
  <2>3. advanced \in DriverStates
    <3>1. Sane(AdvancedState(gen))
      BY <1>3, AdvancedFacts
    <3> QED
      BY <1>4, <3>1 DEF Sane
  <2>4. /\ st \in DriverStates /\ st.generation = advanced.generation
        /\ st.running = advanced.running /\ st.failure = advanced.failure
        /\ st.stopping = advanced.stopping /\ st.native_ready = advanced.native_ready
        /\ st.health \in {gen, advanced.health}
    <3>1. CASE frame.kind = "health"
      BY <2>1, <2>3, <3>1 DEF DriverStates, Gens
    <3>2. CASE frame.kind # "health"
      BY <2>1, <2>3, <3>2
    <3> QED
      BY <3>1, <3>2
  <2>5. st.generation = shard.generation /\ shard.ready =>
            /\ st.running /\ ~st.failure /\ ~st.stopping /\ st.native_ready
            /\ st.health # 0 /\ st.health = st.generation
    BY <1>3, <2>2, <2>4 DEF Sane
  <2>6. Onward(RecomputeReady(st), shard)
    BY <1>3, <2>2, <2>4, <2>5, RecomputeOnward
  <2> QED
    BY <1>7, <2>1, <2>6, Zenon
<1>8. CASE UNCHANGED shard
  BY <1>3, <1>8, PlainOnward
<1> QED
  BY <1>5, <1>6, <1>7, <1>8

LEMMA LifeOnward ==
    ASSUME DriverInv, PumpLife
    PROVE  Onward(shard', shard)
<1>1. Sane(shard) /\ shard \in DriverStates
  BY SaneState DEF Sane
<1>2. CASE shard' = RecomputeReady([shard EXCEPT !.native_ready = TRUE])
  <2>1. PICK st : st = [shard EXCEPT !.native_ready = TRUE]
    OBVIOUS
  <2>2. /\ st \in DriverStates /\ st.generation = shard.generation /\ st.native_ready
        /\ st.health = shard.health /\ st.running = shard.running
        /\ st.failure = shard.failure /\ st.stopping = shard.stopping
    BY <1>1, <2>1 DEF DriverStates
  <2>3. shard.generation \in Int
    BY <1>1, GenerationAssumption DEF DriverStates
  <2>4. Onward(RecomputeReady(st), shard)
    BY <1>1, <2>2, <2>3, RecomputeOnward DEF Sane
  <2> QED
    BY <1>2, <2>1, <2>4, Zenon
<1>3. CASE shard' = [shard EXCEPT !.stopping = TRUE, !.ready = FALSE]
  BY <1>1, <1>3, PlainOnward
<1> QED
  BY <1>2, <1>3 DEF PumpLife

LEMMA StepOnward ==
    ASSUME DriverInv, out \in Seq(OutFrames), [Next]_vars
    PROVE  [NoOldWorld]_vars
<1>1. Sane(shard)
  BY SaneState
<1>2. CASE PumpReply \/ PumpOut \/ PumpLife
  BY <1>2, ReplyOnward, OutOnward, LifeOnward DEF Onward, NoOldWorld
<1>3. CASE RequestStop \/ PumpEnds
  BY <1>1, <1>3, PlainOnward DEF RequestStop, PumpEnds, Onward, NoOldWorld
<1>4. CASE UNCHANGED shard
  BY <1>1, <1>4, PlainOnward DEF Onward, NoOldWorld
<1>5. CASE Stopper \/ RequestKill \/ Reap
  <2>1. RequestStop \/ UNCHANGED shard
    BY <1>5 DEF Stopper, StopLocks, StopSends, StopCannotSend, StopEscalates, StopReturns,
                RequestKill, Reap
  <2> QED
    BY <1>3, <1>4, <2>1
<1>6. CASE \E r \in Requests : Worker(r)
  <2>1. UNCHANGED shard
    BY <1>6 DEF Worker, Submit, QueueTimesOut, Dispatch, Write, WriteFails, Receive,
                BackoffTimesOut, GiveUp, Expire
  <2> QED
    BY <1>4, <2>1
<1>7. CASE Game
  <2>1. UNCHANGED gameKeeps
    BY <1>7 DEF Game, GameReads, GameIsBusy, GameDrops, GameShutsDown, LuaIgnores, LuaRejects,
                LuaAccepts, LuaErrors, LuaRuns, GameMarksDone, GameReloads, LuaInstallsRpc,
                LuaInstalls, LuaIsReady, LuaReportsError, GameGarbles, GameIsReady, GameExits
  <2> QED
    BY <1>4, <2>1, GameLeaves
<1>8. CASE UNCHANGED vars
  BY <1>8
<1> QED
  BY <1>2, <1>3, <1>5, <1>6, <1>7, <1>8 DEF Next, Pump

-----------------------------------------------------------------------------
(* Theorems *)

LEMMA InvInit == Init => DriverInv /\ Blame
BY DriverInit, BlameInit

LEMMA InvStep == DriverInv /\ Blame /\ [Next]_vars => (DriverInv /\ Blame)'
<1> SUFFICES ASSUME DriverInv, Blame, [Next]_vars
             PROVE  DriverInv' /\ Blame'
  OBVIOUS
<1>1. DriverInv'
  BY DriverStep DEF Blame
<1>2. Blame'
  BY WorkerBlame, StopBlame, ReapBlame, PumpReplyBlame, PumpOutBlame, GameBlame
     DEF Next, Pump
<1> QED
  BY <1>1, <1>2

LEMMA InvHolds == Spec => [](DriverInv /\ Blame)
BY InvInit, InvStep, PTL DEF Spec

\* Driver::request, execute() and expire(): no command runs twice although a
\* busy game makes execute() resend, and what the caller was told is true, now
\* and later, for every number of requests, worlds and markers.
THEOREM CallsAreHonest == Spec => []AnswersAreHonest
<1>1. DriverInv => AnswersAreHonest
  <2> SUFFICES ASSUME DriverInv, NEW r \in Requests
               PROVE  /\ ran[r] <= 1
                      /\ answer[r] = "ok" => ran[r] = 1
                      /\ answer[r] \in {"refused", "timeout"} => ran[r] = 0
    BY DEF AnswersAreHonest
  <2>1. /\ ran[r] \in {0, 1}
        /\ \A v \in {"ok", "failed", "refused", "timeout"} : answer[r] = v => Settled(r, v)
    BY DEF DriverInv, Told
  <2> QED
    BY <2>1 DEF Settled
<1> QED
  BY <1>1, InvHolds, PTL

\* recompute_ready() and advance_generation(): `ready` never outlives its world,
\* a stop, a failure or the process; no late record of any stream brings an older
\* world back or takes the readiness of the current one.
THEOREM ReadinessIsCurrent == Spec => ReadyIsCurrent
<1>1. DriverInv => ReadyIsSound
  BY DEF DriverInv, Holders
<1>2. DriverInv /\ Blame /\ [Next]_vars => [NoOldWorld]_vars
  BY StepOnward DEF Blame
<1> QED
  BY <1>1, <1>2, InvHolds, PTL DEF Spec, ReadyIsCurrent

\* Inner::fail is reached only by a frame that was bad or by lost output:
\* rpc() never takes a reply of the right game for a protocol error.
THEOREM FailuresAreReal == Spec => []NoFalseAlarm
<1>1. Blame => NoFalseAlarm
  BY DEF Blame, Guilty, NoFalseAlarm
<1> QED
  BY <1>1, InvHolds, PTL

\* stop_native() under native_command: no frame follows c_shutdown().
THEOREM NothingAfterShutdown == Spec => ShutdownIsLast
<1>1. ASSUME DriverInv, [Next]_vars, farewell PROVE pipe' \in {pipe, NoFrame}
  <2>1. lock = "free" /\ stop # "sending" /\ Holders
    BY <1>1 DEF DriverInv, Holders
  <2>2. ASSUME NEW r \in Requests PROVE call[r] # "writing"
    BY <2>1, RequestsAssumption DEF Holders, Holding
  <2>3. ASSUME NEW r \in Requests, Worker(r) PROVE pipe' = pipe
    BY <2>2, <2>3 DEF Worker, Submit, QueueTimesOut, Dispatch, Write, WriteFails, Receive,
                      BackoffTimesOut, GiveUp, Expire
  <2>4. CASE Pump \/ RequestKill \/ Reap \/ UNCHANGED vars
    BY <2>4 DEF Pump, PumpReply, PumpOut, PumpLife, PumpEnds, RequestKill, Reap, vars
  <2>5. CASE Stopper
    BY <2>1, <2>5 DEF Stopper, RequestStop, StopLocks, StopSends, StopCannotSend,
                      StopEscalates, StopReturns
  <2>6. CASE Game
    BY <2>6 DEF Game, GameReads, GameIsBusy, GameDrops, GameShutsDown, LuaIgnores, LuaRejects,
           LuaAccepts, LuaErrors, LuaRuns, GameMarksDone, GameReloads, LuaInstallsRpc,
           LuaInstalls, LuaIsReady, LuaReportsError, GameGarbles, GameIsReady, GameExits
  <2> QED
    BY <1>1, <2>3, <2>4, <2>5, <2>6 DEF Next
<1>2. DriverInv /\ [Next]_vars => [farewell => pipe' \in {pipe, NoFrame}]_vars
  BY <1>1
<1> QED
  BY <1>2, InvHolds, PTL DEF Spec, ShutdownIsLast

\* A step that answers, seen by the caller.
LEMMA Answering ==
    ASSUME DriverInv, DriverInv', NEW r \in Requests, NEW v \in Answers,
           call[r] # "answered", Answer(r, v), UNCHANGED ran
    PROVE  Remote!Next
<1>1. answer' = [answer EXCEPT ![r] = v] /\ answer[r] = "none"
  BY DEF Answer, DriverInv, Told
<1>2. answer'[r] = v
  BY <1>1 DEF DriverInv, Types
<1>3. (v = "ok" => ran[r] = 1) /\ (v \in {"refused", "timeout"} => ran[r] = 0)
  <2>1. \A w \in {"ok", "failed", "refused", "timeout"} : answer'[r] = w => Settled(r, w)'
    BY DEF DriverInv, Told
  <2>2. v \in {"ok", "refused", "timeout"} => Settled(r, v)'
    BY <1>2, <2>1
  <2> QED
    BY <2>2 DEF Settled
<1>4. Remote!Answer(r, v)
  BY <1>1, <1>3 DEF Remote!Answer, Remote!NotDone
<1>5. v \in Remote!Answers
  BY DEF Answers, Remote!Answers, Remote!NotDone
<1> QED
  BY <1>4, <1>5 DEF Remote!Next

LEMMA WorkerRefines ==
    ASSUME DriverInv, DriverInv', NEW r \in Requests, Worker(r)
    PROVE  Remote!Next \/ UNCHANGED <<ran, answer>>
<1> USE DEF streams, history
<1>1. UNCHANGED ran
  BY DEF Worker, Submit, QueueTimesOut, Dispatch, Write, WriteFails, Receive, BackoffTimesOut,
         GiveUp, Expire
<1>2. \/ UNCHANGED answer
      \/ \E v \in Answers : call[r] # "answered" /\ Answer(r, v)
  <2>1. CASE Submit(r) \/ QueueTimesOut(r) \/ Dispatch(r) \/ BackoffTimesOut(r)
    BY <2>1 DEF Submit, QueueTimesOut, Dispatch, BackoffTimesOut, Step, Answers
  <2>2. CASE Write(r) \/ WriteFails(r) \/ GiveUp(r)
    BY <2>2 DEF Write, WriteFails, GiveUp, Step
  <2>3. CASE Receive(r)
    <3>1. inbox = "busy" \/ inbox \in Answers
      BY <2>3 DEF Receive, DriverInv, Types, Values, Answers
    <3> QED
      BY <2>3, <3>1 DEF Receive, Step
  <2>4. CASE Expire(r)
    <3>1. active.result \in {"none", "ok", "failed", "refused"}
      BY DEF DriverInv, Types, Pendings
    <3>2. PICK v : v = IF active.result = "none" THEN "unknown" ELSE active.result
      OBVIOUS
    <3>3. v \in Answers /\ "unknown" \in Answers
      BY <3>1, <3>2 DEF Answers
    <3>4. Answer(r, v) \/ Answer(r, "unknown")
      BY <2>4, <3>2 DEF Expire
    <3> QED
      BY <2>4, <3>3, <3>4 DEF Expire
  <2> QED
    BY <2>1, <2>2, <2>3, <2>4 DEF Worker
<1> QED
  BY <1>1, <1>2, Answering

LEMMA RunRefines ==
    ASSUME DriverInv, LuaRuns
    PROVE  Remote!Next
<1>1. Types /\ Holders /\ Told
  BY DEF DriverInv
<1>2. PICK q : q = game.command.id
  OBVIOUS
<1>3. q \in Requests /\ game.command.step = "accepted"
  BY <1>1, <1>2 DEF LuaRuns, LuaAt, Holders, Idle
<1>4. game.command = [id |-> q, step |-> "accepted"]
  BY <1>1, <1>2, <1>3, CommandRecord
<1>5. ran[q] = 0
  BY <1>3, <1>4 DEF DriverInv, Traffic, Unread
<1>6. answer[q] \in {"none", "unknown"}
  <2>1. answer[q] \in Answers \union {"none"}
    BY <1>1, <1>3 DEF Types
  <2>2. \A v \in {"ok", "failed", "refused", "timeout"} : answer[q] # v
    BY <1>1, <1>2, <1>3 DEF Told, Settled
  <2> QED
    BY <2>1, <2>2 DEF Answers
<1>7. ran' = [ran EXCEPT ![q] = @ + 1] /\ UNCHANGED answer
  BY <1>2, GameLeaves DEF LuaRuns
<1>8. ran' = [ran EXCEPT ![q] = 1]
  BY <1>5, <1>7
<1>9. Remote!Run(q)
  BY <1>5, <1>6, <1>7, <1>8 DEF Remote!Run
<1> QED
  BY <1>3, <1>9 DEF Remote!Next

\* Driver::request implements RemoteCall: each step of the driver and of the
\* game runs one command, gives one answer, or changes neither.
THEOREM ImplementsTheCall == Spec => ImplementsRemoteCall
<1>1. Init => Remote!Init
  BY DEF Init, Remote!Init
<1>2. ASSUME DriverInv, DriverInv', [Next]_vars
      PROVE  Remote!Next \/ UNCHANGED <<ran, answer>>
  <2>1. ASSUME NEW r \in Requests, Worker(r) PROVE Remote!Next \/ UNCHANGED <<ran, answer>>
    BY <1>2, <2>1, WorkerRefines
  <2>2. CASE Pump \/ RequestKill \/ Reap \/ UNCHANGED vars
    BY <2>2 DEF Pump, PumpReply, PumpOut, PumpLife, PumpEnds, RequestKill, Reap, vars, workers,
           history
  <2>3. CASE Stopper
    BY <2>3 DEF Stopper, RequestStop, StopLocks, StopSends, StopCannotSend, StopEscalates,
           StopReturns, workers, history
  <2>4. CASE LuaRuns
    BY <1>2, <2>4, RunRefines
  <2>5. CASE Game /\ ~LuaRuns
    BY <2>5 DEF Game, GameReads, GameIsBusy, GameDrops, GameShutsDown, LuaIgnores, LuaRejects,
           LuaAccepts, LuaErrors, GameMarksDone, GameReloads, LuaInstallsRpc, LuaInstalls,
           LuaIsReady, LuaReportsError, GameGarbles, GameIsReady, GameExits, gameKeeps,
           workers, history
  <2> QED
    BY <1>2, <2>1, <2>2, <2>3, <2>4, <2>5 DEF Next
<1>3. DriverInv /\ DriverInv' /\ [Next]_vars => [Remote!Next]_<<ran, answer>>
  BY <1>2
<1> QED
  BY <1>1, <1>3, InvHolds, PTL DEF Spec, ImplementsRemoteCall, Remote!Spec

=============================================================================
