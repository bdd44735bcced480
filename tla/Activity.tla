------------------------------ MODULE Activity ------------------------------
(***************************************************************************)
(* Idle regeneration: what the game notes about its visitors               *)
(* (connections.lua), what the policy keeps of it (policy.rs), and the way *)
(* from the decision to the destruction of the world (agent.rs, room.rs,   *)
(* commands.lua).                                                          *)
(*                                                                         *)
(* Time runs in units far longer than CHECK_INTERVAL, a query or a stop.   *)
(* A moment is kept as its age.                                            *)
(*                                                                         *)
(* World:   visitor   somebody is connected                                *)
(*          tier      the world's age, which sets its retention            *)
(*          game      "down", "up" (every shard ready), "stopping"         *)
(*          lua       noted: activity since observed_since; idle: since    *)
(*                    that activity; reliable                              *)
(* Durable: activity  PolicyState.activity: last_active_at (last) ...      *)
(*          moved, fresh   the game's session and its observation are not  *)
(*                    the ones activity names                              *)
(* Agent:   running, busy   the container runs; somebody holds the         *)
(*                    mutation permit                                      *)
(*          skew      jumps of the wall clock since the last plan          *)
(*          probe     what a tick has learned, until it plans              *)
(*          wipe      a regeneration on its way                            *)
(* History: quiet     time since a visitor stayed, or since the world began*)
(*          due       the decision on its way was right                    *)
(*          unseen    a jump or a visit that the policy cannot see         *)
(*          ticked    a tick since time last passed                        *)
(*          wipes, walls, crashes                                          *)
(***************************************************************************)
EXTENDS Integers

CONSTANTS
    Tiers,          \* ages of a world
    Retention,      \* retention: a duration for each of them
    LongestRetention,
    WallJumps,      \* the clock jumps considered
    MaxWallJumps,   \* bound: clock jumps
    MaxWorlds,      \* bound: worlds made
    MaxCrashes      \* bound: lost containers

ASSUME RetentionAssumption ==
    /\ LongestRetention \in Nat
    /\ Retention \in [Tiers -> 1 .. LongestRetention]
ASSUME WallAssumption == WallJumps \subseteq Int /\ MaxWallJumps \in Nat

VARIABLES visitor, tier, game, lua, activity, moved, fresh, running, busy, skew, probe,
          wipe, quiet, due, unseen, ticked, wipes, walls, crashes

worldVars == <<visitor, tier, game, lua>>
policyVars == <<activity, moved, fresh>>
controllerVars == <<running, busy, skew, probe, wipe>>
pastVars == <<quiet, due, unseen, ticked, wipes, walls, crashes>>
activityVars == <<worldVars, policyVars, controllerVars, pastVars>>

Cap == LongestRetention + 1
Older(age) == IF age < Cap THEN age + 1 ELSE Cap
Earlier(a, b) == IF a < b THEN b ELSE a
Later(a, b) == IF a < b THEN a ELSE b

\* connections.install: a loaded world is observed from now on.
Installed == [noted |-> FALSE, idle |-> 0, reliable |-> TRUE]
NoActivity == [known |-> FALSE, last |-> 0, clean |-> FALSE, interrupted |-> FALSE]
NoProbe == [taken |-> FALSE]
Crossed == [taken |-> TRUE, valid |-> FALSE]

ActivityTypeOK ==
    /\ visitor \in BOOLEAN /\ tier \in Tiers /\ game \in {"down", "up", "stopping"}
    /\ lua \in [noted : BOOLEAN, idle : 0 .. Cap, reliable : BOOLEAN]
    /\ activity.last <= Cap /\ running \in BOOLEAN /\ busy \in BOOLEAN
    /\ wipe \in {"none", "planned", "checked"} /\ quiet \in 0 .. Cap

ActivityInit ==
    /\ visitor = FALSE /\ tier \in Tiers /\ game = "down" /\ lua = Installed
    /\ activity = NoActivity /\ moved = FALSE /\ fresh = FALSE
    /\ running = FALSE /\ busy = FALSE /\ skew = 0 /\ probe = NoProbe /\ wipe = "none"
    /\ quiet = 0 /\ due = FALSE /\ unseen = FALSE /\ ticked = FALSE
    /\ wipes = 0 /\ walls = 0 /\ crashes = 0

-----------------------------------------------------------------------------
(* The game *)

\* connections.lua activity(): without a clock the observation is worth nothing.
Note ==
    lua' \in {[lua EXCEPT !.noted = TRUE, !.idle = 0], [lua EXCEPT !.reliable = FALSE]}

Join ==
    /\ game = "up" /\ ~visitor
    /\ visitor' = TRUE /\ Note
    /\ UNCHANGED <<tier, game, policyVars, controllerVars, pastVars>>

Leave ==
    /\ game # "down" /\ visitor
    /\ visitor' = FALSE /\ Note
    /\ UNCHANGED <<tier, game, policyVars, controllerVars, pastVars>>

\* A tick whose room or operations changed on the way discards what it learned.
Cross == probe' = IF probe.taken THEN Crossed ELSE probe

\* The game loads the same world again, or makes a new one by itself.
Reload ==
    /\ game = "up" /\ visitor' = FALSE
    /\ lua' = Installed /\ fresh' = TRUE /\ Cross
    /\ \/ UNCHANGED <<moved, quiet, tier, due, wipes>>
       \/ /\ wipes < MaxWorlds
          /\ wipes' = wipes + 1 /\ due' = FALSE
          /\ moved' = TRUE /\ quiet' = 0 /\ tier' \in Tiers
    /\ UNCHANGED <<game, activity, running, busy, skew, wipe, unseen, ticked, walls, crashes>>

-----------------------------------------------------------------------------
(* Presence *)

\* connections.presence(): an observation that lost its clock starts again.
Answered == IF lua.reliable THEN lua ELSE Installed
FreshAfter == fresh \/ ~lua.reliable

\* Inputs::reliable_empty, as far as this observation goes.
Probed ==
    [taken |-> TRUE, valid |-> TRUE, empty |-> ~visitor,
     noted |-> Answered.noted, idle |-> Answered.idle]

\* tick and inputs: every shard is asked, and the world for its day; one that
\* does not answer makes the observation unreliable.
BeginTick ==
    /\ running /\ ~busy /\ ~probe.taken /\ game = "up"
    /\ \/ probe' = Probed /\ lua' = Answered /\ fresh' = FreshAfter
       \/ probe' = Crossed /\ UNCHANGED <<lua, fresh>>
    /\ UNCHANGED <<visitor, tier, game, activity, moved, running, busy, skew, wipe, pastVars>>

-----------------------------------------------------------------------------
(* PolicyState::observe_activity and Policy::plan *)

\* Mutant: the moments that were kept are believed after a jump of the clock.
AfterClockAnyTime(a) == a

\* clock_changed
AfterClock(a) ==
    IF skew # 0 THEN [a EXCEPT !.interrupted = @ \/ a.known, !.clean = FALSE] ELSE a

\* Without a reliable observation only a clean stop is no interruption.
Unobserved(a) ==
    IF a.known /\ ~a.clean /\ game # "stopping" THEN [a EXCEPT !.interrupted = TRUE] ELSE a

\* The same world, watched without a gap or closed cleanly since.
Continuous(a) == a.known /\ ~a.interrupted /\ ~moved /\ (a.clean \/ ~fresh)

LastActive(a, p) ==
    LET base == IF Continuous(a) THEN Earlier(a.last, 0) ELSE 0
    IN  IF ~p.empty THEN 0
        ELSE IF p.noted THEN Later(base, p.idle) ELSE base

\* Somebody else decided otherwise: the policy is off, the room closes, Mods wait.
Expired(a, p) == p.empty /\ a.last > Retention[tier]

Regenerate(a) ==
    /\ activity' = [a EXCEPT !.last = 0]
    /\ wipe' = "planned" /\ busy' = TRUE
    /\ due' = (quiet > Retention[tier])

\* A tick that has observed: the decision renews the period before it is executed.
PlanObserved ==
    /\ running /\ probe.taken /\ probe.valid
    /\ LET a == [known |-> TRUE, last |-> LastActive(AfterClock(activity), probe),
                 clean |-> FALSE, interrupted |-> FALSE] IN
       \/ Expired(a, probe) /\ Regenerate(a)
       \/ activity' = a /\ UNCHANGED <<wipe, busy, due>>
    /\ moved' = FALSE /\ fresh' = FALSE
    /\ probe' = NoProbe /\ skew' = 0 /\ ticked' = TRUE
    /\ UNCHANGED <<worldVars, running, quiet, unseen, wipes, walls, crashes>>

\* Any other tick: busy, not ready, unanswered or crossed.
PlanUnobserved ==
    /\ running /\ (IF probe.taken THEN ~probe.valid ELSE busy \/ game # "up")
    /\ activity' = Unobserved(AfterClock(activity))
    /\ probe' = NoProbe /\ skew' = 0 /\ ticked' = TRUE
    /\ UNCHANGED <<worldVars, moved, fresh, running, busy, wipe, quiet, due, unseen, wipes,
                   walls, crashes>>

-----------------------------------------------------------------------------
(* Executing the decision *)

Abort ==
    /\ wipe' = "none" /\ busy' = FALSE /\ due' = FALSE
    /\ UNCHANGED <<visitor, tier, game, moved, quiet, wipes>>

\* Controller::action compares the sessions, Room::reload asks every shard again.
CheckEmpty ==
    /\ wipe = "planned" /\ game = "up"
    /\ lua' = Answered /\ fresh' = FreshAfter
    /\ \/ (moved \/ visitor) /\ Abort
       \/ /\ ~moved /\ ~visitor
          /\ wipe' = "checked"
          /\ UNCHANGED <<visitor, tier, game, moved, busy, quiet, due, wipes>>
    /\ UNCHANGED <<activity, running, skew, probe, unseen, ticked, walls, crashes>>

\* commands.regenerate: the expected session, and nobody connected.
Accepted == ~moved /\ ~visitor

CallRegenerate ==
    /\ wipe = "checked" /\ game = "up"
    /\ \/ ~Accepted /\ Abort /\ UNCHANGED <<lua, fresh>>
       \/ /\ Accepted /\ wipes < MaxWorlds
          /\ wipe' = "none" /\ busy' = FALSE /\ due' = FALSE /\ wipes' = wipes + 1
          /\ moved' = TRUE /\ fresh' = TRUE /\ lua' = Installed
          /\ visitor' = FALSE /\ quiet' = 0 /\ tier' \in Tiers
          /\ UNCHANGED game
    /\ UNCHANGED <<activity, running, skew, probe, unseen, ticked, walls, crashes>>

-----------------------------------------------------------------------------
(* The Agent *)

\* Controller::initialize: resume_after_restart and a first plan in one step; it
\* holds the room until it is done.
Boot ==
    /\ ~running
    /\ running' = TRUE /\ busy' = TRUE /\ skew' = 0 /\ ticked' = TRUE
    /\ activity' = IF activity.known /\ ~activity.clean
                   THEN [activity EXCEPT !.interrupted = TRUE] ELSE activity
    /\ UNCHANGED <<worldVars, moved, fresh, probe, wipe, quiet, due, unseen, wipes,
                   walls, crashes>>

\* Operations, one at a time.
BeginOperation ==
    /\ running /\ ~busy
    /\ busy' = TRUE /\ Cross
    /\ UNCHANGED <<worldVars, policyVars, running, skew, wipe, pastVars>>

EndOperation ==
    /\ running /\ busy /\ wipe = "none" /\ game # "stopping"
    /\ busy' = FALSE
    /\ UNCHANGED <<worldVars, policyVars, running, skew, probe, wipe, pastVars>>

Start ==
    /\ running /\ busy /\ game = "down"
    /\ game' = "up" /\ fresh' = TRUE /\ Cross
    /\ UNCHANGED <<visitor, tier, lua, activity, moved, running, busy, skew, wipe, pastVars>>

\* The last tick is never longer ago than CHECK_INTERVAL.
Stop ==
    /\ running /\ ticked /\ busy /\ wipe = "none" /\ game = "up"
    /\ game' = "stopping" /\ Cross
    /\ UNCHANGED <<visitor, tier, lua, policyVars, running, busy, skew, wipe, pastVars>>

\* record_stop, after the games were saved, reaped and drained.
Stopped ==
    /\ game = "stopping"
    /\ game' = "down" /\ visitor' = FALSE /\ lua' = Installed
    /\ activity' = [activity EXCEPT !.clean = @ \/ (activity.known /\ ~activity.interrupted)]
    /\ Cross
    /\ UNCHANGED <<tier, moved, fresh, running, busy, skew, wipe, pastVars>>

\* The container ends: by itself once its games are down, or it is lost.
Gone ==
    /\ running
    /\ \/ game = "down" /\ UNCHANGED crashes
       \/ crashes < MaxCrashes /\ crashes' = crashes + 1
    /\ running' = FALSE /\ busy' = FALSE /\ probe' = NoProbe /\ wipe' = "none"
    /\ game' = "down" /\ visitor' = FALSE /\ lua' = Installed
    /\ unseen' = (unseen \/ skew # 0) /\ skew' = 0 /\ due' = FALSE
    /\ UNCHANGED <<tier, policyVars, quiet, ticked, wipes, walls>>

-----------------------------------------------------------------------------
(* Time *)

\* Queries and stops are short, a running Agent ticks and a game takes its periodic
\* snapshot.  A visit between the start after a clean stop and the first undisturbed
\* tick stays unknown to the policy.
Pass ==
    /\ (running => ticked) /\ ~probe.taken /\ wipe = "none" /\ game # "stopping"
    /\ quiet' = IF visitor THEN 0 ELSE Older(quiet)
    /\ unseen' = (unseen \/ (visitor /\ activity.clean))
    /\ activity' = [activity EXCEPT !.last = Older(@)]
    /\ lua' = [lua EXCEPT !.noted = @ \/ visitor,
                          !.idle = IF visitor \/ ~lua.noted THEN 0 ELSE Older(@)]
    /\ tier' \in Tiers /\ Retention[tier'] >= Retention[tier] /\ ticked' = FALSE
    /\ UNCHANGED <<visitor, game, moved, fresh, controllerVars, due, wipes, walls, crashes>>

\* A clock that moves while no container runs, or just before its end, cannot be told
\* from time.
WallJump ==
    /\ walls < MaxWallJumps
    /\ \E j \in WallJumps :
        /\ activity' = [activity EXCEPT !.last = Later(@ + j, Cap)]
        /\ skew' = IF running THEN skew + j ELSE skew
    /\ unseen' = (unseen \/ ~running)
    /\ walls' = walls + 1
    /\ UNCHANGED <<worldVars, moved, fresh, running, busy, probe, wipe, quiet, due, ticked,
                   wipes, crashes>>

ActivityNext ==
    \/ Join \/ Leave \/ Reload
    \/ BeginTick \/ PlanObserved \/ PlanUnobserved \/ CheckEmpty \/ CallRegenerate
    \/ Boot \/ BeginOperation \/ EndOperation \/ Start \/ Stop \/ Stopped \/ Gone
    \/ Pass \/ WallJump

ActivitySpec == ActivityInit /\ [][ActivityNext]_activityVars

-----------------------------------------------------------------------------
(* Properties *)

\* Only a world that nobody has visited for its whole retention is destroyed, and
\* never with somebody in it, whatever restarts, reloads, broken observations and
\* clock jumps the policy has lived through (observe_activity, plan, regenerate):
\* the decision was right and is about the world it was taken for.  A visit that no
\* tick could see and a jump while no Agent ran are the only exceptions.
WipesAreDue ==
    [][wipe = "checked" /\ wipe' = "none" /\ wipes' > wipes
          => unseen \/ (due /\ ~visitor)]_activityVars
=============================================================================
