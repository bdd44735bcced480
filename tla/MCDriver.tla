------------------------------ MODULE MCDriver ------------------------------
(***************************************************************************)
(* Small instances of Driver.                                              *)
(***************************************************************************)
EXTENDS Driver, TLC

Symmetry == Permutations(Requests \ HealthRequests) \union Permutations(HealthRequests)

=============================================================================
