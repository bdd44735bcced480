------------------------------- MODULE MCRoom -------------------------------
(* Instances of Room for TLC: which operations each client may submit. *)
EXTENDS Room, TLC

CONSTANTS Boot, Allowed

\* Any client may submit any of the allowed operations.
AnyOperation == [c \in Clients |-> Allowed]

\* As the Agent uses a room: its boot starts the games, and no other
\* operation does.
AgentOperations ==
    [c \in Clients |-> IF c = Boot THEN {"start"} ELSE Allowed]

\* Nothing but its operations tells one client from another; Boot is no client
\* where any of them may start the games.
Symmetry == Permutations(Clients \ {Boot}) \union Permutations(Shards)
=============================================================================
