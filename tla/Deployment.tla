---------------------------- MODULE Deployment ----------------------------
(***************************************************************************)
(* Rooms created and edited while their service is down (host.rs create,   *)
(* edit, save_locked), and the UDP host ports their Quadlets publish       *)
(* (deployment.rs).  Several Host tools work at once: each room has its    *)
(* lock, and one lock of the host covers the choice of ports until the     *)
(* Quadlet that publishes them is saved.  A unit is the ports and the      *)
(* image it names; an endpoint is one container port of one shard.         *)
(*                                                                         *)
(* tool      per tool: its step, its room, the definition it saves, and    *)
(*           the ports it was given                                        *)
(* hostLock, roomLock   who holds them, or None                            *)
(* cluster   per room: the shards in its configuration ({} when it has     *)
(*           none); quadlet: its unit, or NoUnit                           *)
(* up        rooms whose service runs and binds its ports                  *)
(* bound     host ports that other programs bind                           *)
(* dropin    per room: the unit fields a drop-in overrides                 *)
(* cut       rooms a save was cut short in                                 *)
(***************************************************************************)
EXTENDS Naturals, Sequences, SequencesExt, FiniteSets, FiniteSetsExt

CONSTANTS
    Tools, None,
    DeployedRooms,
    ShardNames,         \* the shards of a configuration, in the order of their names
    PoolEnd,            \* the pool of host ports is 1 .. PoolEnd
    Unrelated,          \* PublishPort lines of the other Quadlets and their drop-ins
    Images,
    MaxSaves            \* bound: saves begun

ASSUME DeploymentAssumption ==
    /\ None \notin Tools /\ PoolEnd \in Nat /\ ShardNames \in Seq(ToSet(ShardNames))
    /\ \A u \in Unrelated : \A i \in DOMAIN u : u[i] \subseteq Nat

VARIABLES tool, hostLock, roomLock, cluster, quadlet, up, bound, dropin, cut, saves

deploymentVars == <<tool, hostLock, roomLock, cluster, quadlet, up, bound, dropin, cut, saves>>

Pool == 1 .. PoolEnd

\* endpoints: the game and the query port of every shard, which are served in the
\* order of the shards' names.
Endpoints(shards) == shards \X {"game", "query"}
EndpointOrder ==
    [i \in 1 .. 2 * Len(ShardNames) |->
        <<ShardNames[(i + 1) \div 2], IF i % 2 = 1 THEN "game" ELSE "query">>]

NoPorts == [e \in {} |-> 0]
NoUnit == [ports |-> NoPorts, image |-> 0]
PortsOf(unit) == {unit.ports[e] : e \in DOMAIN unit.ports}

\* DeploymentOptions::validate: host ports differ.
ValidOptions(unit) == Cardinality(PortsOf(unit)) = Cardinality(DOMAIN unit.ports)

\* for_cluster: exactly the game and query ports of every shard are published.
ForCluster(unit, shards) ==
    shards # {} /\ ValidOptions(unit) /\ DOMAIN unit.ports = Endpoints(shards)

NoDefinition == [shards |-> {}, unit |-> NoUnit]
IdleTool == [step |-> "idle", room |-> None, definition |-> NoDefinition, allocated |-> NoPorts]

DeploymentTypeOK ==
    /\ \A t \in Tools : tool[t].step \in {"idle", "loaded", "locked", "inactive", "reserved",
                                          "configured"}
    /\ hostLock \in Tools \union {None} /\ roomLock \in [DeployedRooms -> Tools \union {None}]
    /\ cluster \in [DeployedRooms -> SUBSET ToSet(ShardNames)]
    /\ up \subseteq DeployedRooms /\ cut \subseteq DeployedRooms /\ bound \subseteq Pool
    /\ saves \in 0 .. MaxSaves

DeploymentInit ==
    /\ tool = [t \in Tools |-> IdleTool]
    /\ hostLock = None /\ roomLock = [r \in DeployedRooms |-> None]
    /\ cluster = [r \in DeployedRooms |-> {}] /\ quadlet = [r \in DeployedRooms |-> NoUnit]
    /\ up = {} /\ bound \in {{}, {2}}
    /\ dropin \in [DeployedRooms -> {{}, {"ports"}, {"image"}}]
    /\ cut = {} /\ saves = 0

-----------------------------------------------------------------------------
(* The choice of ports *)

\* existing_udp_ports, over a Quadlet and its drop-ins: an empty line resets
\* the ones before it.
Published(lines) ==
    FoldLeft(LAMBDA used, line : IF line = {} THEN {} ELSE used \union line, {}, lines)

UnrelatedPorts == UNION {Published(u) : u \in Unrelated}

Occupied(r) == UnrelatedPorts \union UNION {PortsOf(quadlet[o]) : o \in DeployedRooms \ {r}}

\* udp_available binds the port for a moment: a service that runs has bound its own.
UdpAvailable(p) == p \notin bound /\ \A r \in up : p \notin PortsOf(quadlet[r])

\* A room may keep the ports it has.
FreePort(r, p, taken) == p \notin taken /\ (p \in PortsOf(quadlet[r]) \/ UdpAvailable(p))

Grant(sofar, e, p) ==
    [sofar EXCEPT !.ports = [x \in DOMAIN @ \union {e} |-> IF x = e THEN p ELSE @[x]],
                  !.taken = @ \union {p}]

\* The port for an endpoint: the one that was asked for, the one the room has, or
\* the next of the pool.  "ok" fails with the first conflict.
AllocateOne(r, requested, sofar, e) ==
    LET old == quadlet[r].ports
        asked == IF e \in DOMAIN requested THEN requested[e] ELSE old[e]
        candidates == {p \in Pool : p >= sofar.from /\ FreePort(r, p, sofar.taken)}
    IN  IF e \in DOMAIN requested \union DOMAIN old
        THEN [Grant(sofar, e, asked) EXCEPT !.ok = FreePort(r, asked, sofar.taken)]
        ELSE IF candidates = {} THEN [sofar EXCEPT !.ok = FALSE]
        ELSE [Grant(sofar, e, Min(candidates)) EXCEPT !.from = Min(candidates) + 1]

\* The endpoints of the configuration in their order.
Allocate(r, shards, requested) ==
    FoldLeft(LAMBDA sofar, e : IF sofar.ok /\ e \in Endpoints(shards)
                               THEN AllocateOne(r, requested, sofar, e) ELSE sofar,
             [ok |-> DOMAIN requested \subseteq Endpoints(shards),
              ports |-> NoPorts, taken |-> Occupied(r), from |-> 1],
             EndpointOrder)

-----------------------------------------------------------------------------
(* Beginning a save *)

Become(t, step) == tool' = [tool EXCEPT ![t].step = step]

\* Whatever a tool holds is released when it ends, well or not.
ReleaseLocks(t) ==
    /\ tool' = [tool EXCEPT ![t] = IdleTool]
    /\ hostLock' = IF hostLock = t THEN None ELSE hostLock
    /\ roomLock' = [r \in DeployedRooms |-> IF roomLock[r] = t THEN None ELSE roomLock[r]]

LockRoom(t, r) ==
    /\ roomLock[r] = None
    /\ roomLock' = [roomLock EXCEPT ![r] = t]

\* The packaged rooms fix their ports (fleet_room): offsets 0, 1 for the master
\* and 2, 3 for another shard; here every room has the same base.
FixedPorts(shards) ==
    [e \in Endpoints(shards) |->
        2 + (IF e[1] = Last(ShardNames) THEN 0 ELSE 2) + (IF e[2] = "game" THEN 0 ELSE 1)]

\* create: the lock, then an empty directory and no Quadlet of that name.
Create(t, r, shards, image, fixed) ==
    /\ tool[t].step = "idle" /\ saves < MaxSaves
    /\ cluster[r] = {} /\ quadlet[r] = NoUnit
    /\ LockRoom(t, r)
    /\ tool' = [tool EXCEPT ![t] =
           [step |-> "locked", room |-> r, allocated |-> NoPorts,
            definition |-> [shards |-> shards, unit |-> [ports |-> fixed, image |-> image]]]]
    /\ saves' = saves + 1
    /\ UNCHANGED <<hostLock, cluster, quadlet, up, bound, dropin, cut>>

\* edit_fields: the room is read under its lock, which is given back before the
\* edited definition is saved.
LoadForEdit(t, r, shards, image, keep) ==
    /\ tool[t].step = "idle" /\ saves < MaxSaves
    /\ r \notin up /\ cluster[r] # {} /\ roomLock[r] = None
    /\ tool' = [tool EXCEPT ![t] =
           [step |-> "loaded", room |-> r, allocated |-> NoPorts,
            definition |-> [shards |-> shards,
                            unit |-> [ports |-> IF keep THEN quadlet[r].ports ELSE NoPorts,
                                      image |-> image]]]]
    /\ saves' = saves + 1
    /\ UNCHANGED <<hostLock, roomLock, cluster, quadlet, up, bound, dropin, cut>>

\* edit: the lock again.  A service that runs by now is edited through its Agent,
\* which refuses another deployment (the step ends here).
LockForEdit(t) ==
    /\ tool[t].step = "loaded" /\ tool[t].room \notin up
    /\ LockRoom(t, tool[t].room)
    /\ Become(t, "locked")
    /\ UNCHANGED <<hostLock, cluster, quadlet, up, bound, dropin, cut, saves>>

\* require_inactive asks systemd again under the lock.
RequireInactive(t) ==
    /\ tool[t].step = "locked" /\ tool[t].room \notin up
    /\ Become(t, "inactive")
    /\ UNCHANGED <<hostLock, roomLock, cluster, quadlet, up, bound, dropin, cut, saves>>

-----------------------------------------------------------------------------
(* save_locked *)

\* Fields of the unit that a save changes.
ChangedFields(r, unit) ==
    (IF unit.ports # quadlet[r].ports THEN {"ports"} ELSE {})
        \union (IF unit.image # quadlet[r].image THEN {"image"} ELSE {})

\* validate_update: no drop-in may override what changes.
ValidateUpdate(r, unit) == dropin[r] \cap ChangedFields(r, unit) = {}

AllocatedUnit(t) == [tool[t].definition.unit EXCEPT !.ports = tool[t].allocated]

\* Mutant: the host is not locked for the choice of ports.
HostLockFreeAlways(t) == TRUE

HostLockFree(t) == hostLock = None

\* reserve: the lock of the host is tried once; the whole unit is checked before
\* a game file changes.
Reserve(t) ==
    LET r == tool[t].room
        shards == tool[t].definition.shards
        chosen == Allocate(r, shards, tool[t].definition.unit.ports)
        unit == [tool[t].definition.unit EXCEPT !.ports = chosen.ports]
    IN  /\ tool[t].step = "inactive" /\ HostLockFree(t)
        /\ quadlet[r] = NoUnit \/ "ports" \notin dropin[r]
        /\ chosen.ok /\ ForCluster(unit, shards) /\ ValidateUpdate(r, unit)
        /\ hostLock' = t
        /\ tool' = [tool EXCEPT ![t].step = "reserved", ![t].allocated = chosen.ports]
        /\ UNCHANGED <<roomLock, cluster, quadlet, up, bound, dropin, cut, saves>>

SaveCluster(t) ==
    /\ tool[t].step = "reserved"
    /\ cluster' = [cluster EXCEPT ![tool[t].room] = tool[t].definition.shards]
    /\ cut' = cut \union {tool[t].room}
    /\ Become(t, "configured")
    /\ UNCHANGED <<hostLock, roomLock, quadlet, up, bound, dropin, saves>>

\* The policy follows the cluster, then the unit; then both locks are dropped.
SaveUnit(t) ==
    LET r == tool[t].room
    IN  /\ tool[t].step = "configured" /\ ValidateUpdate(r, AllocatedUnit(t))
        /\ quadlet' = [quadlet EXCEPT ![r] = AllocatedUnit(t)]
        /\ cut' = cut \ {r}
        /\ ReleaseLocks(t)
        /\ UNCHANGED <<cluster, up, bound, dropin, saves>>

\* An error of any step, or the death of the tool: what is saved stays.
GiveUp(t) ==
    /\ tool[t].step # "idle"
    /\ ReleaseLocks(t)
    /\ UNCHANGED <<cluster, quadlet, up, bound, dropin, cut, saves>>

-----------------------------------------------------------------------------
(* The service, started by others; its Agent needs the room's lock *)

ServiceUp(r) ==
    /\ r \notin up /\ quadlet[r] # NoUnit /\ roomLock[r] = None
    /\ up' = up \union {r}
    /\ UNCHANGED <<tool, hostLock, roomLock, cluster, quadlet, bound, dropin, cut, saves>>

ServiceDown(r) ==
    /\ r \in up
    /\ up' = up \ {r}
    /\ UNCHANGED <<tool, hostLock, roomLock, cluster, quadlet, bound, dropin, cut, saves>>

DeploymentNext ==
    \/ \E t \in Tools :
        \/ \E r \in DeployedRooms, shards \in SUBSET ToSet(ShardNames) \ {{}}, image \in Images :
            \/ \E fixed \in {NoPorts, FixedPorts(shards)} :
                   Create(t, r, shards, image, fixed)
            \/ \E keep \in BOOLEAN : LoadForEdit(t, r, shards, image, keep)
        \/ LockForEdit(t) \/ RequireInactive(t) \/ Reserve(t)
        \/ SaveCluster(t) \/ SaveUnit(t) \/ GiveUp(t)
    \/ \E r \in DeployedRooms : ServiceUp(r) \/ ServiceDown(r)

DeploymentSpec == DeploymentInit /\ [][DeploymentNext]_deploymentVars

-----------------------------------------------------------------------------
\* No host port is published twice: not by two endpoints of a room, not by two
\* rooms however their tools interleave, not with a Quadlet of somebody else; and
\* unless a save was cut short, a Quadlet publishes exactly the ports of the
\* shards its room is configured with (PortAllocation::reserve, save_locked).
PublishedPortsAreSound ==
    /\ \A r \in DeployedRooms :
           /\ ValidOptions(quadlet[r]) /\ PortsOf(quadlet[r]) \cap UnrelatedPorts = {}
           /\ r \notin cut => DOMAIN quadlet[r].ports = Endpoints(cluster[r])
    /\ \A r, o \in DeployedRooms : r # o => PortsOf(quadlet[r]) \cap PortsOf(quadlet[o]) = {}
=============================================================================
