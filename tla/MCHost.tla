------------------------------- MODULE MCHost -------------------------------
(***************************************************************************)
(* What surrounds a room on its host: the local RPC of its Agent, the      *)
(* relay of what its games report, its files, the Host tools, deployment,  *)
(* archives and the idle policy.  A behaviour follows one of them; part    *)
(* says which.                                                             *)
(***************************************************************************)
EXTENDS Rpc, Relay, Files, Host, Deployment, Archive, Activity

VARIABLE part

mcVars == <<part, rpcVars, relayVars, filesVars, hostVars, deploymentVars, archiveVars,
            activityVars>>

ChangedFiles == <<"cluster.ini", "server.ini">>
RemovedFiles == <<"modoverrides.lua">>
NamesOfShards == <<"Caves", "Master">>

\* One Quadlet that is not ours: a drop-in resets its ports and publishes port 1.
UnrelatedQuadlets == {<<{5}, {}, {1}>>}
WorldTiers == {1}
RetentionOf == [t \in WorldTiers |-> t]
ClockJumps == {2, -2}
PlayerIds == {<<0, 1, 2, 3, 60, 61, 62, 63>>}

\* Two imports of one process and one of another.
ProcessOfImport(i) == IF i = 3 THEN 2 ELSE 1

In(p) == part = p

Init ==
    /\ part \in {"rpc", "relay", "files", "host", "deployment", "archive", "activity"}
    /\ RpcInit /\ RelayInit
    /\ FilesInit /\ (legacy => In("files"))
    /\ HostInit
    /\ ~In("host") => unit.active = "inactive" /\ allDay /\ durable = [closed |-> FALSE, mods |-> "idle"]
    /\ DeploymentInit /\ Cardinality({r \in DeployedRooms : dropin[r] # {}}) < 2
    /\ ~In("deployment") => bound = {} /\ \A r \in DeployedRooms : dropin[r] = {}
    /\ task \in (IF In("archive") THEN {"upload", "import", "transfer"} ELSE {"upload"})
    /\ ArchiveInit
    /\ ActivityInit /\ (~In("activity") => tier = 1)

RpcPart ==
    In("rpc") /\ RpcNext
    /\ UNCHANGED <<part, relayVars, filesVars, hostVars, deploymentVars, archiveVars,
                    activityVars>>
RelayPart ==
    In("relay") /\ RelayNext
    /\ UNCHANGED <<part, rpcVars, filesVars, hostVars, deploymentVars, archiveVars,
                    activityVars>>
FilesPart ==
    In("files") /\ FilesNext
    /\ UNCHANGED <<part, rpcVars, relayVars, hostVars, deploymentVars, archiveVars,
                    activityVars>>
HostPart ==
    In("host") /\ HostNext
    /\ UNCHANGED <<part, rpcVars, relayVars, filesVars, deploymentVars, archiveVars,
                    activityVars>>
DeploymentPart ==
    In("deployment") /\ DeploymentNext
    /\ UNCHANGED <<part, rpcVars, relayVars, filesVars, hostVars, archiveVars,
                    activityVars>>
ArchivePart ==
    In("archive") /\ ArchiveNext
    /\ UNCHANGED <<part, rpcVars, relayVars, filesVars, hostVars, deploymentVars,
                    activityVars>>

\* A behaviour is followed until something happens that the policy cannot see.
ActivityPart ==
    In("activity") /\ ~unseen /\ ActivityNext
    /\ UNCHANGED <<part, rpcVars, relayVars, filesVars, hostVars, deploymentVars, archiveVars>>

Next == RpcPart \/ RelayPart \/ FilesPart \/ HostPart \/ DeploymentPart \/ ArchivePart
        \/ ActivityPart

Spec == Init /\ [][Next]_mcVars
=============================================================================
