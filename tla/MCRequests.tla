----------------------------- MODULE MCRequests -----------------------------
(***************************************************************************)
(* The two sides of a running room's requests: the operations that contend *)
(* for its permit (Room), and what one of them asks of several worlds      *)
(* (Worlds).  A behaviour follows one of the two; part says which.         *)
(***************************************************************************)
EXTENDS MCRoom, Worlds

VARIABLE part

requestVars == <<part, vars, worldsVars>>

AllRequests == {"get", "migrate", "kick", "despawn", "reset", "rollback", "day", "exact",
                "regenerate", "regenerate_shard", "save"}
OrderOfShards == <<"Caves", "Master">>
MovesDuring == [r \in AllRequests |-> IF r \in PlayerCommands THEN 3 ELSE 2]

RequestsInit ==
    /\ part \in {"operations", "worlds"}
    /\ Init
    /\ WorldsInit
    /\ part = "operations" => job.request = "get" /\ \A s \in InRoom : avatar[s] = NoAvatar

OperationsPart == part = "operations" /\ Next /\ UNCHANGED <<part, worldsVars>>
WorldsPart == part = "worlds" /\ WorldsNext /\ UNCHANGED <<part, vars>>

RequestsNext == OperationsPart \/ WorldsPart

RequestsSpec == RequestsInit /\ [][RequestsNext]_requestVars
=============================================================================
