------------------------------- MODULE Worlds -------------------------------
(***************************************************************************)
(* The requests of a running room that ask one shard after another: player *)
(* commands (room.rs locate, player_request), rollbacks, regenerations     *)
(* (select_snapshot, complete_snapshot, reload) and saves (save).  While   *)
(* they wait, players move, games save, and worlds reload on their own.    *)
(*                                                                         *)
(* world   per shard: session, generation, the current snapshot number,    *)
(*         the snapshots that have a world file, the next native GUID      *)
(* avatar  per shard: the one player, "none", "loading" (no entity yet),   *)
(*         "here" or "leaving", with the entity's GUID                     *)
(* order   per shard: what its game is about to load                       *)
(* job     the request: what it has seen and decided; ask is the question  *)
(*         that is out, view its answer                                    *)
(* moves   bound on what players and games do by themselves                *)
(* effect, loads  history: what the request's command did; the worlds that *)
(*         were loaded since; born numbers the entities, over all worlds   *)
(*                                                                         *)
(* Waiting and generations of single commands are the business of Driver;  *)
(* what happens after a failed reload (the room stops) is that of Room.    *)
(***************************************************************************)
EXTENDS Integers, Sequences, FiniteSets, FiniteSetsExt, SequencesExt

CONSTANTS
    RoomShards,     \* the shards in the order of the cluster's list
    Main,           \* the master shard
    Requests,       \* the kinds of requests to consider
    MaxMoves        \* bound, per kind of request

VARIABLES world, avatar, order, job, moves, effect, loads, born

worldsVars == <<world, avatar, order, job, moves, effect, loads, born>>

Secondaries == ToSet(RoomShards) \ {Main}
InRoom == ToSet(RoomShards)
PlayerCommands == {"get", "migrate", "kick", "despawn"}
Reloads == {"reset", "rollback", "day", "exact", "regenerate", "regenerate_shard"}

ASSUME WorldsAssumption ==
    /\ RoomShards \in Seq(ToSet(RoomShards)) /\ Main \in ToSet(RoomShards)
    /\ Requests \subseteq PlayerCommands \union Reloads \union {"save"}

NoOrder == [session |-> 0, id |-> 0]
NoAvatar == [state |-> "none", guid |-> 0, born |-> 0]
NoRequest == [request |-> "none", pc |-> "idle", at |-> 1, shards |-> <<>>, ask |-> "", first |-> <<>>,
         view |-> <<>>, seen |-> <<>>, initial |-> <<>>, found |-> <<>>, only |-> {}, ids |-> <<>>,
         session |-> 0, target |-> 0, late |-> FALSE, answer |-> "none"]

WorldsTypeOK ==
    /\ \A s \in InRoom : world[s].gen \in Nat /\ world[s].saves \subseteq 1 .. (world[s].snap - 1)
    /\ \A s \in InRoom : avatar[s].state \in {"none", "loading", "here", "leaving"}
    /\ job.request \in PlayerCommands \union Reloads \union {"save", "none"}
    /\ job.answer \in {"none", "ok", "refused", "unknown", "failed"}
    /\ moves \in Nat

\* A secondary may lack a snapshot that the master has, or be ahead of it; the
\* player may be on one.  What the coming request cannot notice does not vary.
WorldsInit ==
    /\ job \in {[NoRequest EXCEPT !.request = r] : r \in Requests}
    /\ \E snap \in [Secondaries -> {3, 4}], saves \in [Secondaries -> {{1, 2}, {2}}],
          home \in {{}} \union {{s} : s \in Secondaries} :
          /\ job.request \in PlayerCommands => \A s \in Secondaries : snap[s] = 3 /\ saves[s] = {1, 2}
          /\ job.request \notin PlayerCommands \union {"regenerate"} => home = {}
          /\ world = [s \in InRoom |->
                         [session |-> 1, gen |-> 1, snap |-> IF s = Main THEN 3 ELSE snap[s],
                          saves |-> IF s = Main THEN {1, 2} ELSE saves[s], next |-> 2]]
          /\ avatar = [s \in InRoom |->
                         IF s \in home THEN [state |-> "here", guid |-> 1, born |-> 1] ELSE NoAvatar]
    /\ order = [s \in InRoom |-> NoOrder]
    /\ moves = 0 /\ born = 1
    /\ effect = [ran |-> FALSE, born |-> 0, ahead |-> FALSE, empty |-> TRUE]
    /\ loads = {}

Identity(s) == [session |-> world[s].session, gen |-> world[s].gen]

-----------------------------------------------------------------------------
(* Players and games by themselves (external) *)

\* Only what the request can notice.
Moves(requests) ==
    /\ job.request \in requests /\ (job.pc # "idle" \/ job.late)
    /\ moves < MaxMoves[job.request] /\ moves' = moves + 1

\* A client connects, also while the shard it leaves still has it; its character
\* loads; it leaves for another shard.
Walk(s) ==
    /\ Moves(PlayerCommands \union {"regenerate"})
    /\ \/ /\ avatar[s].state = "none"
          /\ avatar' = [avatar EXCEPT ![s] = [NoAvatar EXCEPT !.state = "loading"]]
          /\ UNCHANGED <<world, born>>
       \/ /\ avatar[s].state = "loading"
          /\ avatar' = [avatar EXCEPT ![s] = [state |-> "here", guid |-> world[s].next, born |-> born + 1]]
          /\ world' = [world EXCEPT ![s].next = @ + 1] /\ born' = born + 1
       \/ /\ avatar[s].state = "here" /\ avatar' = [avatar EXCEPT ![s].state = "leaving"]
          /\ UNCHANGED <<world, born>>
    /\ UNCHANGED <<order, job, effect, loads>>

\* An entity that is leaving goes at last; its client may stay.
Vanish(s) ==
    /\ avatar[s].state = "leaving"
    /\ \E stays \in BOOLEAN :
          avatar' = [avatar EXCEPT ![s] = [NoAvatar EXCEPT !.state = IF stays THEN "loading" ELSE "none"]]
    /\ UNCHANGED <<world, order, job, moves, effect, loads, born>>

\* The master saves its snapshot, unless it is about to reload; secondaries that
\* follow adopt its number.
SavedBy(followers) ==
    [s \in InRoom |->
       IF s \in followers \union {Main}
       THEN [world[s] EXCEPT !.saves = {i \in @ : i < world[Main].snap} \union {world[Main].snap},
                             !.snap = world[Main].snap + 1]
       ELSE world[s]]

GameSaves ==
    /\ Moves(Reloads \union {"save"})
    /\ order[Main] = NoOrder
    /\ \E followers \in SUBSET Secondaries : world' = SavedBy(followers)
    /\ UNCHANGED <<avatar, order, job, effect, loads, born>>

\* Players vote for a rollback or a new world, or a secondary synchronizes.
GameReorders ==
    /\ Moves(Requests)
    /\ \/ \E id \in world[Main].saves :
            order' = [s \in InRoom |-> [session |-> world[Main].session, id |-> id]]
       \/ order' = [s \in InRoom |-> [session |-> world[Main].session + 1, id |-> 0]]
       \/ \E s \in Secondaries : order' = [order EXCEPT ![s] = [session |-> world[s].session,
                                                                id |-> world[Main].snap - 1]]
    /\ UNCHANGED <<world, avatar, job, effect, loads, born>>

\* A new Lua state: a shard loads the newest save that is not beyond its order,
\* or starts a new world.  GUIDs start again.
LoadWorld(s) ==
    /\ order[s] # NoOrder
    /\ LET kept == {i \in world[s].saves : i <= order[s].id /\ order[s].session = world[s].session}
           id == IF kept = {} THEN 0 ELSE Max(kept)
           session == IF kept = {} THEN world[s].session + 1 ELSE world[s].session
       IN /\ world' = [world EXCEPT ![s] = [session |-> session, gen |-> @.gen + 1, snap |-> id + 1,
                                            saves |-> kept, next |-> 1]]
          /\ loads' = loads \union {[shard |-> s, session |-> session, id |-> id]}
    /\ avatar' = [avatar EXCEPT ![s] = NoAvatar]
    /\ order' = [order EXCEPT ![s] = NoOrder]
    /\ UNCHANGED <<job, moves, effect, born>>

-----------------------------------------------------------------------------
(* Asking *)

Ask(s) == [job EXCEPT !.ask = s, !.first = Identity(s), !.view = <<>>]
Asking(pc, shards) == [job EXCEPT !.pc = pc, !.shards = shards, !.at = 1, !.seen = <<>>,
                                  !.ask = shards[1], !.first = Identity(shards[1]), !.view = <<>>]
EndedWith(answer) == [job EXCEPT !.pc = "idle", !.answer = answer, !.at = 1, !.shards = <<>>, !.ask = "",
                             !.first = <<>>, !.view = <<>>, !.seen = <<>>, !.ids = <<>>]
AnswerWith(answer) == job' = EndedWith(answer)

Questions == {"locate", "destination", "confirm", "catalog", "complete", "presence", "runtime", "settle"}

\* locate_player, list_snapshots, presence and runtime run in the game.
Observe ==
    /\ job.pc \in Questions /\ job.view = <<>>
    /\ LET s == job.ask IN
       job' = [job EXCEPT !.view = <<[session |-> world[s].session, snap |-> world[s].snap,
                                      saves |-> world[s].saves, avatar |-> avatar[s]]>>]
    /\ UNCHANGED <<world, avatar, order, moves, effect, loads, born>>

View == job.view[1]
Replied(pc) == job.pc = pc /\ job.view # <<>>

\* The world the shard was asked about is still the one it runs.
SameWorld == Identity(job.ask) = job.first /\ View.session = job.first.session

AllAsked == job.at = Len(job.shards)
NextShard == [Ask(job.shards[job.at + 1]) EXCEPT !.at = job.at + 1, !.seen = Append(job.seen, View)]
Quiet == UNCHANGED <<world, avatar, order, moves, effect, loads, born>>

-----------------------------------------------------------------------------
(* locate and player_request *)

Sighted(seen) == {i \in DOMAIN seen : seen[i].avatar.state # "none"}
Active(seen) == {i \in Sighted(seen) : seen[i].avatar.state = "here"}
Departing(seen) == {i \in Sighted(seen) : seen[i].avatar.state = "leaving"}
Minimum(S) == CHOOSE i \in S : \A j \in S : i <= j

PlayerState(seen) ==
    CASE Cardinality(Active(seen)) > 1 -> "Conflict"
      [] Cardinality(Active(seen)) <= 1 /\ Departing(seen) # {} -> "Migrating"
      [] Cardinality(Active(seen)) = 1 /\ Departing(seen) = {} -> "Active"
      [] Active(seen) \union Departing(seen) = {} /\ Cardinality(Sighted(seen)) > 1 -> "Migrating"
      [] Active(seen) \union Departing(seen) = {} /\ Cardinality(Sighted(seen)) = 1 -> "Loading"
      [] OTHER -> "Disconnected"

\* The first active sighting, or the first.
Found(seen) ==
    LET best == IF Active(seen) # {} THEN Active(seen) ELSE Sighted(seen)
    IN IF best = {} THEN <<>>
       ELSE LET i == Minimum(best) IN
            <<[shard |-> job.shards[i], session |-> seen[i].session, gen |-> seen[i].gen,
               guid |-> seen[i].avatar.guid, born |-> seen[i].avatar.born]>>

Sighting == [session |-> View.session, gen |-> job.first.gen, avatar |-> View.avatar]
NextSighting == [NextShard EXCEPT !.seen = Append(job.seen, Sighting)]
Sightings == Append(job.seen, Sighting)

\* require_active, and the identity the command is bound to.
Locate ==
    /\ Replied("locate")
    /\ IF ~SameWorld THEN AnswerWith("refused")
       ELSE IF ~AllAsked THEN job' = NextSighting
       ELSE IF job.request = "get" THEN AnswerWith("ok")
       ELSE IF PlayerState(Sightings) # "Active" THEN AnswerWith("refused")
       ELSE LET found == Found(Sightings) IN
            job' = IF job.request = "migrate"
                   THEN [Asking("destination", RoomShards) EXCEPT !.found = found]
                   ELSE [Ask(found[1].shard) EXCEPT !.pc = "command", !.found = found, !.seen = <<>>]
    /\ Quiet

\* A migration asks every shard for its native number first, and refuses one
\* that no shard has, or that the player is on.
Destination ==
    /\ Replied("destination")
    /\ \/ ~AllAsked /\ job' = NextShard
       \/ AllAsked /\ job' = [Ask(job.found[1].shard) EXCEPT !.pc = "command", !.seen = <<>>]
       \/ AllAsked /\ AnswerWith("refused")
    /\ Quiet

\* Mutant: GUIDs are taken to be unique over all worlds of a session.
GuardedWithoutGeneration(s, f) ==
    world[s].session = f.session /\ avatar[s].state = "here" /\ avatar[s].guid = f.guid

\* driver.call in Lua rechecks the player at the moment the command runs.
Guarded(s, f) ==
    /\ world[s].session = f.session /\ world[s].gen = f.gen
    /\ avatar[s].state = "here" /\ avatar[s].guid = f.guid

\* All three make the player leave the shard; only a removal waits for it.
PlayerCommand ==
    /\ job.pc = "command" \/ (job.late /\ job.request \in PlayerCommands)
    /\ LET f == job.found[1] IN
       /\ IF Guarded(f.shard, f)
          THEN /\ effect' = [effect EXCEPT !.ran = TRUE, !.born = avatar[f.shard].born]
               /\ avatar' = [avatar EXCEPT ![f.shard].state = "leaving"]
               /\ job' = IF job.late THEN [job EXCEPT !.late = FALSE]
                         ELSE IF job.request = "migrate" THEN EndedWith("ok")
                         ELSE Asking("confirm", RoomShards)
          ELSE /\ job' = IF job.late THEN [job EXCEPT !.late = FALSE] ELSE EndedWith("refused")
               /\ UNCHANGED <<effect, avatar>>
    /\ UNCHANGED <<world, order, moves, loads, born>>

\* A kick is over when no shard knows the player, a despawn when the entity that
\* is found is another one, or is in another world.
PlayerGone(seen) ==
    IF job.request = "kick" THEN PlayerState(seen) = "Disconnected"
    ELSE LET f == Found(seen) IN
         \/ f = <<>> \/ f[1].guid # job.found[1].guid
         \/ f[1].session # job.found[1].session \/ f[1].gen # job.found[1].gen

Confirm ==
    /\ Replied("confirm")
    /\ IF ~SameWorld THEN AnswerWith("failed")
       ELSE IF ~AllAsked THEN job' = NextSighting
       ELSE IF PlayerGone(Sightings) THEN AnswerWith("ok")
       ELSE job' = Asking("confirm", RoomShards)
    /\ Quiet

-----------------------------------------------------------------------------
(* select_snapshot, complete_snapshot and reload *)

\* The day a snapshot was taken on: two snapshots a day.
DayOf(id) == (id + 1) \div 2

\* Candidates from the newest: "reset" and "rollback" skip and take one, "day"
\* goes through all.
Candidates(saves) ==
    LET down == SetToSortSeq(saves, >) IN
    CASE job.request = "reset" -> SubSeq(down, 1, 1)
      [] job.request = "rollback" -> SubSeq(down, 2, 2)
      [] job.request = "day" -> SelectSeq(down, LAMBDA i : DayOf(i) = 1)

\* complete_snapshot starts over with the next candidate.
Check(j, ids) == [j EXCEPT !.ids = ids, !.pc = "complete", !.shards = RoomShards, !.at = 1,
                           !.ask = RoomShards[1], !.first = Identity(RoomShards[1]), !.view = <<>>]

Command(j, s) == [j EXCEPT !.pc = "reload", !.ask = s, !.first = Identity(s), !.view = <<>>,
                           !.ids = <<>>, !.seen = <<>>]

Catalog ==
    /\ Replied("catalog")
    /\ LET ids == Candidates(View.saves) IN
       IF ~SameWorld \/ ids = <<>> THEN AnswerWith("refused") ELSE job' = Check(job, ids)
    /\ Quiet

\* Every shard needs the snapshot with its world file, in its initial session.
\* With a day, the oldest complete candidate wins.
Complete ==
    /\ Replied("complete")
    /\ LET id == job.ids[1]
           has == id \in View.saves
           j == IF has THEN [job EXCEPT !.target = id] ELSE job
           rest == Tail(job.ids)
       IN IF ~SameWorld \/ View.session # job.initial[job.ask].session THEN AnswerWith("refused")
          ELSE IF has /\ ~AllAsked THEN job' = NextShard
          ELSE IF ~has /\ job.request # "day" THEN AnswerWith("refused")
          ELSE IF rest # <<>> THEN job' = Check(j, rest)
          ELSE IF j.target = 0 THEN AnswerWith("refused")
          ELSE job' = Command(j, Main)
    /\ Quiet

\* Regenerate with require_empty asks every shard first.
Presence ==
    /\ Replied("presence")
    /\ IF View.avatar.state # "none" THEN AnswerWith("refused")
       ELSE job' = IF AllAsked THEN Command(job, Main) ELSE NextShard
    /\ Quiet

\* commands.lua: rollback_to_snapshot and regenerate check again.
Accepts ==
    CASE job.request = "regenerate_shard" -> TRUE
      [] job.request = "regenerate" -> /\ world[Main].session = job.initial[Main].session
                                       /\ avatar[Main].state = "none"
      [] OTHER -> /\ world[Main].session = job.initial[Main].session
                  /\ job.target \in world[Main].saves /\ job.target < world[Main].snap

\* Reloaded shards: a rollback and a regeneration take the secondaries along.
Reordered ==
    [s \in InRoom |->
       CASE job.request = "regenerate_shard" /\ s \notin job.only -> order[s]
         [] job.request = "regenerate" \/ (job.request = "regenerate_shard" /\ s \in job.only) ->
              [session |-> world[s].session + 1, id |-> 0]
         [] OTHER -> [session |-> world[s].session, id |-> job.target]]

\* The command runs, in time or late.  Accepted or not known to be, the room
\* waits for new generations; rejected, the operation ends.
ReloadCommand ==
    /\ job.pc = "reload" \/ (job.late /\ job.request \in Reloads)
    /\ IF Accepts
       THEN /\ order' = Reordered
            /\ effect' = [effect EXCEPT !.ran = TRUE, !.empty = avatar[Main].state = "none"]
            /\ job' = IF job.late THEN [job EXCEPT !.late = FALSE] ELSE [job EXCEPT !.pc = "polling"]
       ELSE /\ job' = IF job.late THEN [job EXCEPT !.late = FALSE] ELSE EndedWith("refused")
            /\ UNCHANGED <<order, effect>>
    /\ UNCHANGED <<world, avatar, moves, loads, born>>

\* Which shards must come back with a new generation.
Renewed(s) == world[s].gen > job.initial[s].gen
Expected == IF job.request = "regenerate_shard" THEN job.only ELSE InRoom

\* Every shard is ready again; wait_ready asks each for its runtime.
Polled ==
    /\ job.pc = "polling"
    /\ \A s \in Expected : Renewed(s)
    /\ job' = Asking("settle", RoomShards)
    /\ Quiet

ReloadSettled ==
    /\ Replied("settle")
    /\ LET seen == Append(job.seen, [gen |-> job.first.gen, session |-> View.session, snap |-> View.snap])
           current(i) == Identity(job.shards[i]) = [session |-> seen[i].session, gen |-> seen[i].gen]
           fits(i) ==
             LET s == job.shards[i]
                 regenerating == job.request = "regenerate" \/ s \in job.only
             IN /\ (seen[i].session # job.initial[s].session) = regenerating
                /\ job.target > 0 => seen[i].snap = job.target + 1
       IN IF ~AllAsked THEN job' = [NextShard EXCEPT !.seen = seen]
          ELSE IF \E i \in DOMAIN seen : ~current(i) THEN job' = Asking("settle", RoomShards)
          ELSE AnswerWith(IF \A i \in DOMAIN seen : fits(i) THEN "ok" ELSE "failed")
    /\ Quiet

-----------------------------------------------------------------------------
(* save *)

MaySave(snap) == snap <= job.target

\* The master's number is the target; a secondary beyond it forbids the save.
Runtime ==
    /\ Replied("runtime")
    /\ LET onward == IF AllAsked THEN [job EXCEPT !.pc = "save"] ELSE NextShard IN
       IF job.ask = Main THEN job' = [onward EXCEPT !.target = View.snap, !.session = View.session]
       ELSE IF MaySave(View.snap) THEN job' = onward
       ELSE AnswerWith("refused")
    /\ Quiet

SaveCommand ==
    /\ job.pc = "save" \/ (job.late /\ job.request = "save")
    /\ IF world[Main].session = job.session /\ world[Main].snap = job.target
       THEN /\ \E followers \in SUBSET Secondaries : world' = SavedBy(followers)
            /\ effect' = [effect EXCEPT !.ran = TRUE,
                                        !.ahead = \E s \in Secondaries : world[s].snap > job.target]
            /\ job' = IF job.late THEN [job EXCEPT !.late = FALSE] ELSE EndedWith("ok")
       ELSE /\ job' = IF job.late THEN [job EXCEPT !.late = FALSE] ELSE EndedWith("refused")
            /\ UNCHANGED <<world, effect>>
    /\ UNCHANGED <<avatar, order, moves, loads, born>>

-----------------------------------------------------------------------------
(* The beginning, and the ends that may come at any await *)

MasterFirst == <<Main>> \o SetToSeq(Secondaries)

BeginRequest(r) ==
    /\ job = [NoRequest EXCEPT !.request = r]
    /\ \E s \in InRoom, scope \in {<<q>> : q \in InRoom} \union {RoomShards} :
          LET fresh == [job EXCEPT !.initial = [q \in InRoom |-> Identity(q)]]
              to(j, pc, shards) == [j EXCEPT !.pc = pc, !.shards = shards, !.ask = shards[1],
                                             !.first = Identity(shards[1])]
          IN job' = CASE r \in PlayerCommands -> to(fresh, "locate", scope)
                      [] r \in {"reset", "rollback", "day"} -> to(fresh, "catalog", <<Main>>)
                      [] r = "exact" -> to([fresh EXCEPT !.ids = <<2>>], "complete", RoomShards)
                      [] r = "regenerate" -> to(fresh, "presence", RoomShards)
                      [] r = "regenerate_shard" -> Command([fresh EXCEPT !.only = {s}], s)
                      [] r = "save" -> to(fresh, "runtime", MasterFirst)
    /\ Quiet

Commands == {"command", "reload", "save"}

\* A question fails, or an answer does: nothing was changed, unless a removal or
\* a reload is already under way.
QuestionFails ==
    /\ job.pc \in Questions \union {"polling"}
    /\ AnswerWith(IF job.pc \in {"confirm", "polling", "settle"} THEN "failed" ELSE "refused")
    /\ Quiet

\* A command that was written and not answered in time may still run.  reload
\* goes on and looks; the others answer that they do not know.
CommandUnanswered ==
    /\ job.pc \in Commands /\ ~job.late
    /\ job' = [(IF job.pc = "reload" THEN [job EXCEPT !.pc = "polling"] ELSE EndedWith("unknown"))
               EXCEPT !.late = TRUE]
    /\ Quiet

\* The deadline of the operation, an interruption, or that of the reload.
GiveUpWaiting ==
    /\ job.pc # "idle"
    /\ job' = [EndedWith("unknown") EXCEPT !.late = job.late \/ job.pc \in Commands]
    /\ Quiet

WorldsNext ==
    \/ \E s \in InRoom : Walk(s) \/ Vanish(s) \/ LoadWorld(s)
    \/ GameSaves \/ GameReorders
    \/ \E r \in Requests : BeginRequest(r)
    \/ Observe \/ Locate \/ Destination \/ PlayerCommand \/ Confirm
    \/ Catalog \/ Complete \/ Presence \/ ReloadCommand \/ Polled \/ ReloadSettled
    \/ Runtime \/ SaveCommand
    \/ QuestionFails \/ CommandUnanswered \/ GiveUpWaiting

WorldsSpec == WorldsInit /\ [][WorldsNext]_worldsVars

-----------------------------------------------------------------------------
(* Properties *)

\* A player command touches the very entity that was located, whatever players
\* and worlds did meanwhile; a kick or a despawn that is confirmed has removed
\* that entity or is removing it (locate, player_request, driver.call).
PlayersAreHitInPlace ==
    job.request \in PlayerCommands =>
        /\ effect.ran => effect.born = job.found[1].born
        /\ job.answer = "ok" /\ job.request \in {"kick", "despawn"} =>
              \A s \in InRoom : avatar[s].born = job.found[1].born =>
                    job.request = "despawn" /\ avatar[s].state = "leaving"

\* A refusal means that no world was touched.  A confirmed rollback took every
\* shard back, within the session it had, to a world no newer than the target; of
\* a secondary this is not known when the master was taken back further meanwhile
\* and saved up to the target's number again, which a secondary merely adopts.  A
\* confirmed regeneration made a new world everywhere it had to, and nobody was on
\* the master when it began (reload).
ReloadsAreTrue ==
    job.request \in Reloads =>
        /\ job.answer = "refused" => ~effect.ran
        /\ job.answer = "ok" /\ job.target > 0 =>
              \A s \in InRoom : \E l \in loads :
                 /\ l.shard = s /\ l.session = job.initial[s].session
                 /\ \/ l.id <= job.target
                    \/ s # Main /\ \E m \in loads : m.shard = Main /\ m.id < job.target
        /\ job.answer = "ok" /\ job.request = "regenerate" =>
              \A s \in InRoom : \E l \in loads : l.shard = s /\ l.session # job.initial[s].session
        /\ job.request = "regenerate" /\ effect.ran => effect.empty

\* A save of this operation never sets a secondary's snapshot number back, unless
\* the master was loaded again meanwhile: its number may then be the one that was
\* read, and stand for another world (save).
SavesMoveForward == effect.ahead => \E l \in loads : l.shard = Main

\* What is asked of several shards in turn holds when it is used.
RequestsAreHonest == PlayersAreHitInPlace /\ ReloadsAreTrue /\ SavesMoveForward
=============================================================================
