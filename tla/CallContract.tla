---- MODULE CallContract ----
(*****************************************************************************)
(* What one API call promises the caller, whatever the network does: the     *)
(* server runs the operation at most `limit` times, and the caller is told   *)
(* that it succeeded only when the server has run it. A run may come after   *)
(* the answer: a request the client gave up on can still be in the server's  *)
(* queue.                                                                    *)
(*****************************************************************************)
EXTENDS Naturals

VARIABLES
    limit,   \* how often the operation may run, fixed when the call is made
    runs,    \* how often it has run
    answer   \* what the caller has been told

vars == <<limit, runs, answer>>

Init ==
    /\ limit \in Nat \ {0}
    /\ runs = 0
    /\ answer = "pending"

Run ==
    /\ runs < limit
    /\ runs' = runs + 1
    /\ UNCHANGED <<limit, answer>>

Reply ==
    /\ answer = "pending"
    /\ answer' \in {"accepted", "failed"}
    /\ answer' = "accepted" => runs > 0
    /\ UNCHANGED <<limit, runs>>

Next == Run \/ Reply

Spec == Init /\ [][Next]_vars
====
