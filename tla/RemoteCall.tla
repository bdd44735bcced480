----------------------------- MODULE RemoteCall -----------------------------
(***************************************************************************)
(* What Driver::request promises its callers (docs/migration.md: "A        *)
(* timed-out or disconnected mutation is never automatically resent"):     *)
(* the game runs a command at most once, and the answer never contradicts  *)
(* what it did.  "failed" is the game's own error: the command may have    *)
(* run, and will not run later.  "unknown" promises nothing: it may have   *)
(* run, or may still run.                                                  *)
(***************************************************************************)
EXTENDS Naturals

CONSTANT Requests

VARIABLES
    ran,     \* how often the game has run the command of each request
    answer   \* what each caller was told

NotDone == {"refused", "timeout"}     \* it has not run and never will
Answers == NotDone \union {"ok", "failed", "unknown"}

Init ==
    /\ ran = [r \in Requests |-> 0]
    /\ answer = [r \in Requests |-> "none"]

Run(r) ==
    /\ ran[r] = 0
    /\ answer[r] \in {"none", "unknown"}
    /\ ran' = [ran EXCEPT ![r] = 1]
    /\ UNCHANGED answer

Answer(r, a) ==
    /\ answer[r] = "none"
    /\ a = "ok" => ran[r] = 1
    /\ a \in NotDone => ran[r] = 0
    /\ answer' = [answer EXCEPT ![r] = a]
    /\ UNCHANGED ran

Next == \E r \in Requests : Run(r) \/ \E a \in Answers : Answer(r, a)

Spec == Init /\ [][Next]_<<ran, answer>>

=============================================================================
