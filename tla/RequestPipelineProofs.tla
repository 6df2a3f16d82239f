---- MODULE RequestPipelineProofs ----
(*****************************************************************************)
(* What RequestPipeline guarantees for every retry count: types, the bound   *)
(* on sends, the whole body of every send, and that a call implements        *)
(* CallContract. Then what ItemStream guarantees of the items of a body, for *)
(* all bodies and batch sizes.                                               *)
(*****************************************************************************)
EXTENDS RequestPipeline, ItemStream, TLAPS, FiniteSetTheorems, SequenceTheorems

USE MaxRetriesAssumption

----
\* Where the retry loop stands within its budget. A pass enters `send` with as
\* many sends behind it as its attempt counter says; the second pass also has
\* the first one's behind it.
AttemptInv ==
    /\ attempt <= Budget
    /\ pc \in {"auth", "reauth"} => pass = 1
    /\ pc = "auth" => attempt = 0
    /\ pc = "reauth" => call.auth = "ticket" /\ call.body # "stream"
    /\ pc = "backoff" => RetryAllowed /\ Retries > 0
    /\ wire = "idle" <=> pc # "wait"
    /\ outcome = "pending" <=> pc # "done"

\* Sends and runs of the passes before this one.
SentBefore == IF pass = 2 THEN Budget + 1 ELSE 0
RunBefore == IF pass = 2 THEN Budget ELSE 0

SendInv ==
    sends <= SentBefore + attempt + (IF pc \in {"wait", "reauth", "done"} THEN 1 ELSE 0)

\* Until the caller cancels, each attempt was a request on the wire.
WireInv ==
    ~ctxDone =>
        /\ pc \in {"auth", "send", "backoff"} => sends >= attempt + pass - 1
        /\ pc \in {"wait", "reauth"} => sends >= attempt + pass
        /\ RetriesUsed

\* Runs done and runs still possible. A refused request accounts for none,
\* which is what makes room for the replay.
RunInv ==
    /\ execs + late <= RunBefore + attempt + 1
    /\ wire # "executed" /\ pc # "done" => execs + late <= RunBefore + attempt

AnswerInv ==
    /\ wire = "executed" => execs > 0
    /\ outcome = "ok" => execs > 0

BodyInv ==
    /\ ~spoiled
    /\ pc = "auth" => body = "whole"
    /\ pc = "send" /\ ~ctxDone /\ call.body # "none" => body = "whole"

IInv ==
    /\ TypeOK
    /\ AttemptInv
    /\ SendInv
    /\ RunInv
    /\ AnswerInv
    /\ BodyInv
    /\ WireInv

----
LEMMA BudgetType == ASSUME call \in Calls
                    PROVE  Retries \in Nat /\ Budget \in Nat /\ (Budget > 0 => RetryAllowed)
BY DEF Calls, CallRecord, Retries, Budget

\* A retry stays within the budget.
LEMMA RetryInBudget == ASSUME TypeOK, MayRetry
                       PROVE  attempt + 1 <= Budget /\ RetryAllowed /\ Retries > 0
BY BudgetType DEF TypeOK, MayRetry, Budget

\* Arithmetic over primed values, stated over constants.
LEMMA OneMore == \A e, l, k, r, a \in Nat :
                    e + l <= r + a /\ k <= l + 1 => e + k <= r + a + 1
OBVIOUS

LEMMA NextAttempt == \A e, l, r, a \in Nat :
                        e + l <= r + a + 1 => e + l <= r + (a + 1) /\ e + l <= r + (a + 1) + 1
OBVIOUS

LEMMA TwoPasses == \A e, l, r, a, b \in Nat :
                      e + l <= r + a + 1 /\ r <= b /\ a <= b => e <= 2 * b + 1
OBVIOUS

\* An abandoned request takes the room its answer would have taken.
LEMMA LetGoRuns ==
    ASSUME TypeOK, RunInv, AttemptInv, Budget \in Nat, pc = "wait",
           UNCHANGED <<call, pass, execs>>, Budget' = Budget,
           late' \in Nat, late' <= late + 1, wire # "sent" => late' = late
    PROVE  execs' + late' <= RunBefore' + attempt + 1
<1>1. RunBefore \in Nat /\ RunBefore' = RunBefore
  BY DEF RunBefore
<1>2. CASE wire = "sent"
  BY <1>1, <1>2, OneMore DEF TypeOK, RunInv
<1>3. CASE wire # "sent"
  BY <1>1, <1>3 DEF TypeOK, RunInv
<1> QED BY <1>2, <1>3

LEMMA InitIInv == Init => IInv
<1> SUFFICES ASSUME Init PROVE IInv
  OBVIOUS
<1> USE DEF Init
<1>1. TypeOK
  BY DEF TypeOK, PCs, Wires, Outcomes
<1>2. Budget \in Nat
  BY BudgetType
<1>3. AttemptInv /\ SendInv /\ RunInv
  BY <1>2 DEF AttemptInv, SendInv, RunInv, SentBefore, RunBefore
<1>4. AnswerInv /\ BodyInv /\ WireInv
  BY DEF AnswerInv, BodyInv, WireInv, RetriesUsed
<1> QED BY <1>1, <1>3, <1>4 DEF IInv

----
LEMMA TypeStep == TypeOK /\ [Next]_vars => TypeOK'
<1> SUFFICES ASSUME TypeOK, [Next]_vars PROVE TypeOK'
  OBVIOUS
<1> USE DEF TypeOK, PCs, Wires, Outcomes, Finish, BackOff, LetGo
<1>1. CASE Authenticated \/ NotAuthenticated \/ BufferingFails
  BY <1>1 DEF Authenticated, NotAuthenticated, BufferingFails
<1>2. CASE Send
  <2>1. spoiled' \in BOOLEAN
    BY <1>2, Zenon DEF Send
  <2> QED BY <1>2, <2>1 DEF Send
<1>20. CASE SendCancelled
  BY <1>20 DEF SendCancelled
<1>3. CASE ReturnResponse
  BY <1>3 DEF ReturnResponse, Statuses, ResponseOutcome
<1>4. CASE RetryResponse \/ CredentialsRefused
  BY <1>4 DEF RetryResponse, CredentialsRefused
<1>5. CASE TransportFailure
  BY <1>5 DEF TransportFailure, FailureOutcome
<1>6. CASE BackoffElapsed \/ BackoffCancelled \/ Replay \/ ReauthFails
  BY <1>6 DEF BackoffElapsed, BackoffCancelled, Replay, ReauthFails, Rewound
<1>7. CASE Cancel
  BY <1>7 DEF Cancel
<1>9. CASE ServerRuns \/ ServerRefuses
  BY <1>9 DEF ServerRuns, ServerRefuses
<1>10. CASE ServerRunsLate
  <2>1. late' \in Nat /\ execs' \in Nat
    BY <1>10 DEF ServerRunsLate
  <2> QED BY <1>10, <2>1 DEF ServerRunsLate
<1>8. CASE UNCHANGED vars
  BY <1>8 DEF vars
<1> QED BY <1>1, <1>2, <1>20, <1>3, <1>4, <1>5, <1>6, <1>7, <1>8, <1>9, <1>10 DEF Next, Client, Server

LEMMA CallFixed == [Next]_vars => call' = call
BY DEF Next, vars, Client, Server, Authenticated, NotAuthenticated, BufferingFails, Send,
  SendCancelled, ReturnResponse, RetryResponse, CredentialsRefused, TransportFailure,
  BackoffElapsed, BackoffCancelled, Replay, ReauthFails, Cancel, ServerRuns, ServerRefuses,
  ServerRunsLate

LEMMA StepIInv == IInv /\ [Next]_vars => IInv'
<1> SUFFICES ASSUME IInv, [Next]_vars PROVE IInv'
  OBVIOUS
<1>1. TypeOK /\ TypeOK'
  BY TypeStep DEF IInv
<1>2. call' = call
  BY CallFixed
<1>3. /\ Budget \in Nat
      /\ Budget' = Budget
      /\ Retries' = Retries
      /\ RetryAllowed' = RetryAllowed
  BY <1>1, <1>2, BudgetType DEF TypeOK, Budget, Retries, RetryAllowed
<1> DEFINE Rest == AttemptInv' /\ SendInv' /\ RunInv' /\ AnswerInv' /\ BodyInv' /\ WireInv'
<1> USE <1>1, <1>2, <1>3 DEF IInv, TypeOK, AttemptInv, SendInv, RunInv, AnswerInv, BodyInv,
    WireInv, RetriesUsed, SentBefore, RunBefore
<1>4. CASE Authenticated
  BY <1>4 DEF Authenticated
<1>5. CASE NotAuthenticated
  BY <1>5 DEF NotAuthenticated, Finish
<1>6. CASE BufferingFails
  BY <1>6 DEF BufferingFails, Finish
<1>7. CASE Send
  BY <1>7 DEF Send
<1>8. CASE SendCancelled
  <2>1. CASE MayRetry
    BY <1>8, <2>1, RetryInBudget DEF SendCancelled, BackOff
  <2>2. CASE ~MayRetry
    BY <1>8, <2>2 DEF SendCancelled, Finish
  <2> QED BY <2>1, <2>2
<1>9. CASE ReturnResponse
  <2> PICK s \in Statuses : Finish(ResponseOutcome(s)) /\ ~(s \in Retryable /\ MayRetry)
    BY <1>9 DEF ReturnResponse
  <2>1. outcome' = "ok" => wire = "executed"
    BY DEF Statuses, Finish, ResponseOutcome
  <2>2. outcome' \in {"busy", "transportError"} => attempt >= Budget
    BY DEF Statuses, Finish, ResponseOutcome, Retryable, MayRetry, Budget
  <2>3. outcome' # "pending" /\ pc' = "done" /\ attempt' = attempt
    BY DEF Statuses, Finish, ResponseOutcome
  <2>4. wire' = "idle" /\ late' \in Nat /\ late' <= late + 1 /\ (wire # "sent" => late' = late)
    BY <1>9 DEF ReturnResponse, LetGo
  <2>5. UNCHANGED <<call, pass, body, ctxDone, sends, execs, spoiled>> /\ pc = "wait"
    BY <1>9 DEF ReturnResponse
  <2>6. AttemptInv' /\ SendInv' /\ AnswerInv' /\ BodyInv' /\ WireInv'
    BY <2>1, <2>2, <2>3, <2>4, <2>5
  <2>7. RunInv'
    BY <2>3, <2>4, <2>5, LetGoRuns
  <2> QED BY <2>6, <2>7
<1>10. CASE RetryResponse
  BY <1>10, RetryInBudget DEF RetryResponse, BackOff, LetGo, Statuses, Retryable
<1>11. CASE CredentialsRefused
  BY <1>11 DEF CredentialsRefused, LetGo, Statuses, MayReplay
<1>12. CASE TransportFailure
  <2> PICK kind \in Failures :
        /\ LetGo(kind \notin Unsent)
        /\ IF kind \notin Unsent /\ MayRetry THEN BackOff ELSE Finish(FailureOutcome(kind))
    BY <1>12 DEF TransportFailure
  <2>3. wire' = "idle" /\ late' \in Nat /\ late' <= late + 1 /\ (wire # "sent" => late' = late)
    BY DEF LetGo
  <2>4. UNCHANGED <<call, pass, body, ctxDone, sends, execs, spoiled>> /\ pc = "wait"
    BY <1>12 DEF TransportFailure
  <2>1. CASE kind \notin Unsent /\ MayRetry
    <3>1. pc' = "backoff" /\ attempt' = attempt + 1 /\ outcome' = outcome
      BY <2>1 DEF BackOff
    <3>2. AttemptInv' /\ SendInv' /\ AnswerInv' /\ BodyInv' /\ WireInv'
      BY <2>1, <2>3, <2>4, <3>1, RetryInBudget
    <3>3. execs' + late' <= RunBefore' + attempt + 1
      BY <2>3, <2>4, LetGoRuns
    <3>4. RunBefore' \in Nat
      BY <2>4
    <3>5. RunInv'
      BY <3>1, <3>3, <3>4, NextAttempt
    <3> QED BY <3>2, <3>5
  <2>2. CASE ~(kind \notin Unsent /\ MayRetry)
    <3>1. /\ FailureOutcome(kind) \notin {"ok", "pending", "busy"}
          /\ FailureOutcome(kind) = "transportError" => attempt >= Budget
      BY <2>2 DEF FailureOutcome, Unsent, MayRetry, Budget
    <3>2. pc' = "done" /\ attempt' = attempt /\ outcome' = FailureOutcome(kind)
      BY <2>2 DEF Finish
    <3>3. AttemptInv' /\ SendInv' /\ AnswerInv' /\ BodyInv' /\ WireInv'
      BY <2>3, <2>4, <3>1, <3>2
    <3>4. RunInv'
      BY <2>3, <2>4, <3>2, LetGoRuns
    <3> QED BY <3>3, <3>4
  <2> QED BY <2>1, <2>2
<1>13. CASE BackoffElapsed
  BY <1>13 DEF BackoffElapsed, Rewound, Captured
<1>14. CASE BackoffCancelled
  BY <1>14 DEF BackoffCancelled, Finish
<1>15. CASE Replay
  BY <1>15 DEF Replay, Rewound, Calls, CallRecord, Bodies
<1>16. CASE ReauthFails
  BY <1>16 DEF ReauthFails, Finish
<1>17. CASE Cancel
  BY <1>17 DEF Cancel
<1>18. CASE ServerRuns
  BY <1>18 DEF ServerRuns
<1>21. CASE ServerRefuses
  BY <1>21 DEF ServerRefuses
<1>20. CASE ServerRunsLate
  BY <1>20 DEF ServerRunsLate
<1>19. CASE UNCHANGED vars
  BY <1>19 DEF vars
<1> QED BY <1>4, <1>5, <1>6, <1>7, <1>8, <1>9, <1>10, <1>11, <1>12, <1>13, <1>14, <1>15, <1>16,
    <1>17, <1>18, <1>19, <1>20, <1>21 DEF Next, Client, Server

----
\* Types, for every retry count.
THEOREM TypeCorrect == Spec => []TypeOK
<1>1. Init => TypeOK
  BY InitIInv DEF IInv
<1> QED BY <1>1, TypeStep, PTL DEF Spec

\* The inductive invariant behind the theorems below.
THEOREM Inductive == Spec => []IInv
BY InitIInv, StepIInv, PTL DEF Spec

\* At most Budget + 1 requests in each pass, for every retry count.
THEOREM SendsBounded == Spec => []SendBound
<1>1. IInv => SendBound
  BY BudgetType DEF IInv, TypeOK, AttemptInv, SendInv, SentBefore, SendBound
<1> QED BY <1>1, Inductive, PTL

\* No request goes out with a body that an earlier send drained.
THEOREM BodiesWhole == Spec => []WholeBody
<1>1. IInv => WholeBody
  BY DEF IInv, BodyInv, WholeBody
<1> QED BY <1>1, Inductive, PTL

\* Whatever failures are mixed, no retry is lost: a call gives up on one that may pass only after
\* as many requests as its policy and its pass allow (retryMiddleware), for every retry count.
THEOREM RetriesNotLost == Spec => []RetriesUsed
<1>1. IInv => RetriesUsed
  BY DEF IInv, WireInv, RetriesUsed
<1> QED BY <1>1, Inductive, PTL

----
\* Each step of the chain is a run, a reply or no step of the contract.
LEMMA InitContract == Init => Contract!Init
BY BudgetType DEF Init, Contract!Init

LEMMA StepContract == IInv /\ IInv' /\ [Next]_vars => [Contract!Next]_(Contract!vars)
<1> SUFFICES ASSUME IInv, IInv', [Next]_vars PROVE [Contract!Next]_(Contract!vars)
  OBVIOUS
<1> DEFINE answer == CASE outcome = "pending" -> "pending"
                       [] outcome = "ok"      -> "accepted"
                       [] OTHER               -> "failed"
<1>1. call' = call
  BY CallFixed
<1>2. Budget \in Nat /\ Budget' = Budget
  BY <1>1, BudgetType DEF IInv, TypeOK, Budget, Retries, RetryAllowed
<1>3. CASE ServerRuns \/ ServerRunsLate
  <2>1. execs' = execs + 1 /\ outcome' = outcome
    BY <1>3 DEF ServerRuns, ServerRunsLate
  <2>2. execs' <= 2 * Budget + 1
    <3>1. RunInv' /\ attempt' <= Budget
      BY <1>2 DEF IInv, AttemptInv
    <3>2. RunBefore' \in Nat /\ RunBefore' <= Budget
      BY <1>2 DEF RunBefore
    <3>3. attempt' \in Nat /\ execs' \in Nat /\ late' \in Nat
      BY DEF IInv, TypeOK
    <3> QED BY <1>2, <3>1, <3>2, <3>3, TwoPasses DEF RunInv
  <2>3. Contract!Run
    BY <1>2, <2>1, <2>2 DEF Contract!Run, IInv, TypeOK
  <2> QED BY <2>3 DEF Contract!Next
<1>4. CASE Client /\ outcome' # outcome
  <2>1. execs' = execs /\ outcome = "pending" /\ pc' = "done"
    BY <1>4 DEF Client, Authenticated, NotAuthenticated, BufferingFails, Send, SendCancelled,
      ReturnResponse, RetryResponse, CredentialsRefused, TransportFailure, BackoffElapsed,
      BackoffCancelled, Replay, ReauthFails, Finish, BackOff, IInv, AttemptInv
  <2>2. outcome' = "ok" => execs > 0
    BY <2>1 DEF IInv, AnswerInv
  <2>3. Contract!Reply
    BY <1>2, <1>4, <2>1, <2>2 DEF Contract!Reply
  <2> QED BY <2>3 DEF Contract!Next
<1>5. CASE (Client \/ ServerRefuses \/ Cancel \/ UNCHANGED vars) /\ outcome' = outcome
  <2>1. execs' = execs
    BY <1>5 DEF vars, Client, Authenticated, NotAuthenticated, BufferingFails, Send, SendCancelled,
      ReturnResponse, RetryResponse, CredentialsRefused, TransportFailure, BackoffElapsed,
      BackoffCancelled, Replay, ReauthFails, Cancel, ServerRefuses
  <2> QED BY <1>2, <1>5, <2>1 DEF Contract!vars
<1>6. CASE (ServerRefuses \/ Cancel \/ UNCHANGED vars) /\ outcome' # outcome
  BY <1>6 DEF ServerRefuses, Cancel, vars
<1> QED BY <1>3, <1>4, <1>5, <1>6 DEF Next, Server

\* Every call implements its contract, for every retry count: in particular a
\* mutating call without ForceRetry runs at most once.
THEOREM Implementation == Spec => ImplementsContract
BY InitContract, StepContract, Inductive, PTL DEF Spec, ImplementsContract, Contract!Spec
----
(***************************************************************************)
(* The steps a call has left. Within an attempt they are those of Steps; a *)
(* retry costs an attempt, and the replay the whole first pass. A request  *)
(* that is let go may leave one late run behind, hence the doubling.       *)
(***************************************************************************)
Steps ==
    CASE pc \in {"auth", "backoff"} -> 4
      [] pc = "send" -> 3
      [] pc = "wait" -> IF wire = "sent" THEN 2 ELSE 1
      [] OTHER -> 0

PassesToCome == IF pass = 1 THEN 4 * Budget + 4 ELSE 0

Stage == IF pc = "done" THEN 0 ELSE PassesToCome + 4 * (Budget - attempt) + Steps

Work == 2 * Stage + late + (IF ctxDone THEN 0 ELSE 1)

WorkShrinks == Work \in Nat /\ Work' \in Nat /\ Work' < Work

StageTyped ==
    /\ Budget \in Nat /\ PassesToCome \in Nat /\ Steps \in 0 .. 4 /\ Stage \in Nat
    /\ pc # "done" => Stage = PassesToCome + 4 * (Budget - attempt) + Steps

LEMMA StageTypes == TypeOK /\ AttemptInv => StageTyped
PROOF
<1> SUFFICES ASSUME TypeOK, AttemptInv  PROVE StageTyped
  OBVIOUS
<1>1. Budget \in Nat /\ attempt \in Nat /\ attempt <= Budget
  BY BudgetType, SMT DEF TypeOK, AttemptInv
<1>2. PassesToCome \in Nat
  BY <1>1, SMT DEF PassesToCome
<1>3. Steps \in 0 .. 4
  BY SMT DEF Steps
<1>. QED  BY <1>1, <1>2, <1>3, SMT DEF Stage, StageTyped

LEMMA StageTypesNext == TypeOK' /\ AttemptInv' => StageTyped'
PROOF
  BY StageTypes, PTL

\* Ways in which a step goes on: to the end, within the attempt, to the next attempt, to the replay.
Goes ==
    \/ pc' = "done" /\ (Steps > 0 \/ pc = "reauth")
    \/ pc' # "done" /\ pass' = pass /\ attempt' = attempt /\ Steps' < Steps
    \/ pc' = "backoff" /\ pass' = pass /\ attempt' = attempt + 1 /\ Steps > 0
    \/ pc = "reauth" /\ pc' = "send" /\ pass' = 2 /\ attempt' = 0

\* Each step of the call's goroutine, and each answer the server decides on, goes on.
LEMMA StepGoes ==
  ASSUME IInv, Client \/ ServerRuns \/ ServerRefuses
  PROVE  /\ pc # "done" /\ Goes
         /\ call' = call /\ ctxDone' = ctxDone /\ late' \in {late, late + 1}
PROOF
<1>0. /\ pc \in PCs /\ wire \in Wires /\ (wire = "idle" <=> pc # "wait")
  BY Zenon DEF IInv, TypeOK, AttemptInv
<1>1. CASE Authenticated \/ BackoffElapsed
  BY <1>1, SMT DEF Authenticated, BackoffElapsed, Goes, Steps
<1>2. CASE NotAuthenticated \/ BufferingFails
  BY <1>2, SMT DEF NotAuthenticated, BufferingFails, Finish, Goes, Steps
<1>3. CASE BackoffCancelled \/ ReauthFails
  BY <1>3, SMT DEF BackoffCancelled, ReauthFails, Finish, Goes, Steps
<1>4. CASE Send
  BY <1>4, SMT DEF Send, Goes, Steps
<1>5. CASE SendCancelled
  BY <1>5, SMT DEF SendCancelled, Finish, BackOff, Goes, Steps
<1>6. CASE ReturnResponse \/ RetryResponse \/ TransportFailure \/ CredentialsRefused
  <2>1. /\ pc = "wait" /\ call' = call /\ ctxDone' = ctxDone /\ pass' = pass
        /\ late' \in {late, late + 1}
    BY <1>6, Zenon DEF ReturnResponse, RetryResponse, TransportFailure, CredentialsRefused, LetGo
  <2>2. Steps > 0
    BY <2>1, SMT DEF Steps
  <2>3. \/ pc' = "done"
        \/ pc' = "backoff" /\ attempt' = attempt + 1
        \/ pc' = "reauth" /\ attempt' = attempt
    BY <1>6, Zenon DEF ReturnResponse, RetryResponse, TransportFailure, CredentialsRefused,
       Finish, BackOff
  <2>4. pc' = "reauth" => Steps' = 0
    BY SMT DEF Steps
  <2>5. Steps \in 0 .. 4
    BY SMT DEF Steps
  <2>6. pc' = "reauth" => pc' # "done" /\ Steps' < Steps
    BY <2>2, <2>4, <2>5, SMT
  <2>7. pc # "done"
    BY <2>1
  <2>. QED  BY <2>1, <2>2, <2>3, <2>6, <2>7, Zenon DEF Goes
<1>7. CASE Replay
  BY <1>7, SMT DEF Replay, Goes, Steps
<1>8. CASE ServerRuns \/ ServerRefuses
  BY <1>0, <1>8, SMT DEF ServerRuns, ServerRefuses, Goes, Steps
<1>. QED  BY <1>1, <1>2, <1>3, <1>4, <1>5, <1>6, <1>7, <1>8, Zenon DEF Client

\* The arithmetic of Stage over constants: b the budget, p and q the passes to come, a and c the
\* attempts, s and t the steps, before and after.
LEMMA Falling ==
  ASSUME NEW b \in Nat, NEW p \in Nat, NEW q \in Nat, NEW a \in Nat, NEW c \in Nat,
         NEW s \in 0 .. 4, NEW t \in 0 .. 4, a <= b, c <= b,
         \/ q = p /\ c = a /\ t < s
         \/ q = p /\ c = a + 1 /\ t = 4 /\ s > 0
         \/ p = 4 * b + 4 /\ q = 0 /\ t = 3
  PROVE  q + 4 * (b - c) + t < p + 4 * (b - a) + s
PROOF
<1>1. CASE q = p /\ c = a /\ t < s
  BY <1>1, SMT
<1>2. CASE q = p /\ c = a + 1 /\ t = 4 /\ s > 0
  BY <1>2, SMT
<1>3. CASE p = 4 * b + 4 /\ q = 0 /\ t = 3
  BY <1>3, SMT
<1>. QED  BY <1>1, <1>2, <1>3

LEMMA StageFalls ==
  ASSUME IInv, IInv', Client \/ ServerRuns \/ ServerRefuses
  PROVE  Stage' < Stage
PROOF
<1>1. pc # "done" /\ Goes /\ call' = call
  BY StepGoes, Zenon
<1>2. Budget' = Budget
  BY <1>1, Zenon DEF Budget, Retries, RetryAllowed
<1>3. /\ Budget \in Nat /\ PassesToCome \in Nat /\ Steps \in 0 .. 4
      /\ attempt \in Nat /\ attempt <= Budget
      /\ Stage = PassesToCome + 4 * (Budget - attempt) + Steps
      /\ pc = "reauth" => PassesToCome = 4 * Budget + 4
  <2>1. TypeOK /\ AttemptInv
    BY Zenon DEF IInv
  <2>2. pc = "reauth" => pass = 1
    BY <2>1, Zenon DEF AttemptInv
  <2>. QED  BY <1>1, <2>1, <2>2, StageTypes, Zenon DEF StageTyped, TypeOK, AttemptInv, PassesToCome
<1>4. /\ PassesToCome' \in Nat /\ Steps' \in 0 .. 4 /\ attempt' \in Nat /\ attempt' <= Budget
      /\ pc' # "done" => Stage' = PassesToCome' + 4 * (Budget - attempt') + Steps'
  <2>1. TypeOK' /\ AttemptInv'
    BY Zenon DEF IInv
  <2>2. attempt' \in Nat /\ attempt' <= Budget'
    BY <2>1, Zenon DEF TypeOK, AttemptInv
  <2>. QED  BY <1>2, <2>1, <2>2, StageTypesNext, Zenon DEF StageTyped
<1>5. CASE pc' = "done"
  <2>1. Stage' = 0
    BY <1>5, Zenon DEF Stage
  <2>2. Steps > 0 \/ PassesToCome = 4 * Budget + 4
    BY <1>1, <1>3, <1>5, Zenon DEF Goes
  <2>. QED  BY <1>3, <2>1, <2>2, SMT
<1>6. CASE pc' # "done"
  <2>1. pass' = pass => PassesToCome' = PassesToCome
    BY <1>2, Zenon DEF PassesToCome
  <2>2. pass' = 2 => PassesToCome' = 0
    BY SMT DEF PassesToCome
  <2>3. (pc' = "backoff" => Steps' = 4) /\ (pc' = "send" => Steps' = 3)
    BY SMT DEF Steps
  <2>4. \/ PassesToCome' = PassesToCome /\ attempt' = attempt /\ Steps' < Steps
        \/ PassesToCome' = PassesToCome /\ attempt' = attempt + 1 /\ Steps' = 4 /\ Steps > 0
        \/ PassesToCome = 4 * Budget + 4 /\ PassesToCome' = 0 /\ Steps' = 3
    BY <1>1, <1>3, <1>6, <2>1, <2>2, <2>3, Zenon DEF Goes
  <2>5. PassesToCome' + 4 * (Budget - attempt') + Steps'
          < PassesToCome + 4 * (Budget - attempt) + Steps
    BY <1>3, <1>4, <2>4, Falling, Zenon
  <2>. QED  BY <1>3, <1>4, <1>6, <2>5, Zenon
<1>. QED  BY <1>5, <1>6

\* The arithmetic of Work over constants: the stage, the late runs and the cancellation to come.
LEMMA LessWork ==
  ASSUME NEW s \in Nat, NEW t \in Nat, NEW l \in Nat, NEW m \in Nat, NEW h \in 0 .. 1, NEW i \in 0 .. 1,
         \/ t < s /\ m \in {l, l + 1} /\ i = h
         \/ t = s /\ m = l - 1 /\ i = h
         \/ t = s /\ m = l /\ h = 1 /\ i = 0
  PROVE  2 * s + l + h \in Nat /\ 2 * t + m + i \in Nat /\ 2 * t + m + i < 2 * s + l + h
PROOF
<1>1. CASE t < s /\ m \in {l, l + 1} /\ i = h
  BY <1>1, SMT
<1>2. CASE t = s /\ m = l - 1 /\ i = h
  BY <1>2, SMT
<1>3. CASE t = s /\ m = l /\ h = 1 /\ i = 0
  BY <1>3, SMT
<1>. QED  BY <1>1, <1>2, <1>3

LEMMA WorkFalls ==
  ASSUME IInv, IInv', Next
  PROVE  WorkShrinks
PROOF
<1> DEFINE hope == IF ctxDone THEN 0 ELSE 1
<1>1. TypeOK /\ AttemptInv /\ TypeOK' /\ AttemptInv'
  BY Zenon DEF IInv
<1>2. Stage \in Nat /\ Stage' \in Nat
  BY <1>1, StageTypes, StageTypesNext, Zenon DEF StageTyped
<1>3. late \in Nat /\ late' \in Nat /\ hope \in 0 .. 1 /\ hope' \in 0 .. 1
  BY <1>1, SMT DEF TypeOK
<1>4. Work = 2 * Stage + late + hope /\ Work' = 2 * Stage' + late' + hope'
  BY Zenon DEF Work
<1>5. \/ Stage' < Stage /\ late' \in {late, late + 1} /\ hope' = hope
      \/ Stage' = Stage /\ late' = late - 1 /\ hope' = hope
      \/ Stage' = Stage /\ late' = late /\ hope = 1 /\ hope' = 0
  <2>1. CASE Client \/ ServerRuns \/ ServerRefuses
    <3>1. Stage' < Stage /\ ctxDone' = ctxDone /\ late' \in {late, late + 1}
      BY <2>1, StageFalls, StepGoes, Zenon
    <3>2. hope' = hope
      BY <3>1
    <3>. QED  BY <3>1, <3>2
  <2>2. CASE ServerRunsLate
    BY <2>2, Zenon DEF ServerRunsLate, Stage, PassesToCome, Steps, Budget, Retries, RetryAllowed
  <2>3. CASE Cancel
    BY <2>3, Zenon DEF Cancel, Stage, PassesToCome, Steps, Budget, Retries, RetryAllowed
  <2>. QED  BY <2>1, <2>2, <2>3, Zenon DEF Next, Server
<1> HIDE DEF hope
<1>. QED  BY <1>2, <1>3, <1>4, <1>5, LessWork, Zenon DEF WorkShrinks

\* The part of Terminates that needs no fairness: whatever the server answers, whenever the caller
\* cancels, each step uses up work, of which a call has a number fixed by its retries. Neither the
\* retry loop nor the replay after a 401 can go round for ever (retryMiddleware,
\* handleAuthenticationRetry).
THEOREM NoEndlessCall == Spec => [][WorkShrinks]_vars
PROOF
<1>1. IInv /\ IInv' /\ [Next]_vars => [WorkShrinks]_vars
  BY WorkFalls, Zenon
<1>. QED  BY <1>1, Inductive, PTL DEF Spec

----
(*****************************************************************************)
(* The items of a body that is read as a stream.                             *)
(*****************************************************************************)

\* StreamTypeOK in two parts: the sequences of items, and the rest.
ItemsTyped ==
    /\ lines \in Sources /\ pos \in 0 .. Len(lines) /\ start \in 0 .. pos
    /\ items \in Seq(1 .. pos) /\ Len(items) <= BatchSize
    /\ handed \in Seq(1 .. pos)

CallTyped ==
    /\ format \in {"jsonlines", "json"} /\ ending \in {"eof", "broken"}
    /\ closed \in BOOLEAN /\ ctxCancelled \in BOOLEAN /\ told \in BOOLEAN
    /\ errors \in 0 .. 1 /\ reports \in 0 .. 2
    /\ use \in Uses
    /\ at \in {"idle", "loop", "reading", "sending", "calling", "lastcall", "reporting", "checked"}
    /\ result \in {"none", "ok", "failed", "cancelled"}

LEMMA Types == StreamTypeOK <=> ItemsTyped /\ CallTyped
PROOF
  BY Zenon DEF StreamTypeOK, ItemsTyped, CallTyped

\* What was handed over and what is in hand make up what was found, in order.
HandInv ==
    /\ InOrder(handed) /\ ToSet(handed) \subseteq Found
    /\ \A h \in ToSet(handed), n \in Left : h < n
    /\ at # "idle" => InOrder(items) /\ ToSet(items) = Left

\* What an end of a call says of what was not handed over.
EndInv ==
    /\ at = "idle" /\ result = "failed" /\ Left # {} =>
          use = "ProcessBatch" /\ Cardinality(Left) < BatchSize
    /\ at = "idle" /\ result = "cancelled" /\ Left # {} => use = "Channel" /\ Cardinality(Left) = 1
    /\ at = "idle" /\ result = "ok" =>
          Left = {} /\ (use = "Read" \/ ctxCancelled \/ pos = Len(lines))
    /\ at = "idle" /\ result = "failed" /\ use = "Channel" => closed \/ errors = 1 \/ told

\* Where an item in hand may be, and what each place says of the call.
PlaceInv ==
    /\ at = "idle" => items = <<>>
    /\ at \in {"loop", "reading", "reporting", "checked"} /\ items # <<>> =>
          use = "ProcessBatch" /\ Len(items) < BatchSize
    /\ at = "sending" => use = "Channel" /\ Len(items) = 1
    /\ at \in {"calling", "lastcall"} => use \in {"Process", "ProcessBatch"}
    /\ at = "lastcall" => ctxCancelled \/ pos = Len(lines)
    /\ at = "checked" => reports > 0
    /\ at \in {"reporting", "checked"} /\ use = "Channel" /\ reports < 2 =>
          closed \/ errors = 1 \/ told

StreamInv == ItemsTyped /\ CallTyped /\ HandInv /\ EndInv /\ PlaceInv /\ NoSendOnClosed

LEMMA StreamInvImplies == StreamInv => HandsOverAll /\ NoSendOnClosed
PROOF
  BY Types, Zenon DEF StreamInv, HandInv, EndInv, HandsOverAll

----
(* Sequences of items *)

LEMMA SetOfSeq ==
  ASSUME NEW n \in Nat, NEW s \in Seq(1 .. n)
  PROVE  /\ DOMAIN s = 1 .. Len(s) /\ Len(s) \in Nat
         /\ ToSet(s) \subseteq 1 .. n
         /\ ToSet(s) = {} <=> s = <<>>
         /\ IsFiniteSet(ToSet(s)) /\ Cardinality(ToSet(s)) <= Len(s)
         /\ \A m \in Nat : m >= n => s \in Seq(1 .. m)
PROOF
<1>1. DOMAIN s = 1 .. Len(s) /\ Len(s) \in Nat /\ s \in [1 .. Len(s) -> 1 .. n]
  BY LenProperties, Zenon
<1>2. ToSet(s) \subseteq 1 .. n
  BY <1>1, SMT DEF ToSet
<1>3. ToSet(s) = {} <=> s = <<>>
  <2>1. s = <<>> <=> Len(s) = 0
    BY <1>1, EmptySeq, SMT
  <2>2. Len(s) = 0 <=> DOMAIN s = {}
    BY <1>1, SMT
  <2>. QED  BY <2>1, <2>2, Zenon DEF ToSet
<1>4. IsFiniteSet(ToSet(s)) /\ Cardinality(ToSet(s)) <= Len(s)
  <2>1. IsFiniteSet(1 .. Len(s)) /\ Cardinality(1 .. Len(s)) = Len(s)
    <3>1. Len(s) \in Int /\ 1 \in Int
      BY <1>1, SMT
    <3>2. /\ IsFiniteSet(1 .. Len(s))
          /\ Cardinality(1 .. Len(s)) = IF 1 > Len(s) THEN 0 ELSE Len(s) - 1 + 1
      BY <3>1, FS_Interval, Zenon
    <3>. QED  BY <1>1, <3>2, SMT
  <2>2. s \in Surjection(1 .. Len(s), ToSet(s))
    BY <1>1, SMT DEF Surjection, ToSet
  <2>. QED  BY <2>1, <2>2, FS_Surjection, SMT
<1>5. ASSUME NEW m \in Nat, m >= n  PROVE s \in Seq(1 .. m)
  <2>1. 1 .. n \subseteq 1 .. m
    BY <1>5, SMT
  <2>. QED  BY <2>1, SeqMonotonic, Zenon
<1>. QED  BY <1>1, <1>2, <1>3, <1>4, <1>5

LEMMA EmptyItems ==
  /\ ToSet(<<>>) = {} /\ InOrder(<<>>) /\ Len(<<>>) = 0
  /\ \A S : <<>> \in Seq(S)
PROOF
  BY EmptySeq, SMT DEF ToSet, InOrder

LEMMA OneItem ==
  ASSUME NEW S, NEW i \in S
  PROVE  /\ ToSet(<<i>>) = {i} /\ InOrder(<<i>>) /\ Len(<<i>>) = 1
         /\ <<i>> \in Seq(S) /\ <<i>> # <<>>
PROOF
  BY SMT DEF ToSet, InOrder

LEMMA ConcatItems ==
  ASSUME NEW n \in Nat, NEW s \in Seq(1 .. n), NEW t \in Seq(1 .. n), InOrder(s), InOrder(t),
         \A a \in ToSet(s), b \in ToSet(t) : a < b
  PROVE  /\ s \o t \in Seq(1 .. n)
         /\ ToSet(s \o t) = ToSet(s) \union ToSet(t)
         /\ InOrder(s \o t)
         /\ Len(s \o t) = Len(s) + Len(t)
PROOF
<1>1. /\ s \o t \in Seq(1 .. n)
      /\ Len(s \o t) = Len(s) + Len(t)
      /\ \A i \in 1 .. Len(s) + Len(t) : (s \o t)[i] = IF i <= Len(s) THEN s[i] ELSE t[i - Len(s)]
  BY ConcatProperties, Zenon
<1>2. /\ Len(s) \in Nat /\ Len(t) \in Nat
      /\ DOMAIN s = 1 .. Len(s) /\ DOMAIN t = 1 .. Len(t) /\ DOMAIN (s \o t) = 1 .. Len(s) + Len(t)
      /\ \A i \in DOMAIN s : s[i] \in 1 .. n
      /\ \A i \in DOMAIN t : t[i] \in 1 .. n
  BY <1>1, LenProperties, SMT
<1>3. ToSet(s \o t) = ToSet(s) \union ToSet(t)
  <2>1. \A i \in DOMAIN (s \o t) : (s \o t)[i] \in ToSet(s) \union ToSet(t)
    BY <1>1, <1>2, SMT DEF ToSet
  <2>2. \A i \in DOMAIN s : i \in DOMAIN (s \o t) /\ (s \o t)[i] = s[i]
    BY <1>1, <1>2, SMT
  <2>3. \A i \in DOMAIN t : i + Len(s) \in DOMAIN (s \o t) /\ (s \o t)[i + Len(s)] = t[i]
    BY <1>1, <1>2, SMT
  <2>4. ToSet(s \o t) \subseteq ToSet(s) \union ToSet(t)
    BY <2>1, Zenon DEF ToSet
  <2>5. \A a \in ToSet(s) : a \in ToSet(s \o t)
    BY <2>2, Zenon DEF ToSet
  <2>6. \A b \in ToSet(t) : b \in ToSet(s \o t)
    BY <2>3, Zenon DEF ToSet
  <2>. QED  BY <2>4, <2>5, <2>6, Zenon
<1>4. InOrder(s \o t)
  <2> SUFFICES ASSUME NEW i \in 1 .. Len(s) + Len(t), NEW j \in 1 .. Len(s) + Len(t), i < j
               PROVE  (s \o t)[i] < (s \o t)[j]
    BY <1>2 DEF InOrder
  <2>1. CASE j <= Len(s)
    <3>1. i \in DOMAIN s /\ j \in DOMAIN s
      BY <1>2, <2>1, SMT
    <3>2. s[i] < s[j]
      BY <3>1, Zenon DEF InOrder
    <3>. QED  BY <1>1, <1>2, <2>1, <3>2, SMT
  <2>2. CASE i > Len(s)
    <3>1. i - Len(s) \in DOMAIN t /\ j - Len(s) \in DOMAIN t /\ i - Len(s) < j - Len(s)
      BY <1>2, <2>2, SMT
    <3>2. t[i - Len(s)] < t[j - Len(s)]
      BY <3>1, Zenon DEF InOrder
    <3>. QED  BY <1>1, <1>2, <2>2, <3>2, SMT
  <2>3. CASE i <= Len(s) /\ j > Len(s)
    <3>1. i \in DOMAIN s /\ j - Len(s) \in DOMAIN t
      BY <1>2, <2>3, SMT
    <3>2. s[i] \in ToSet(s) /\ t[j - Len(s)] \in ToSet(t)
      BY <3>1, Zenon DEF ToSet
    <3>3. s[i] < t[j - Len(s)]
      BY <3>2, Zenon
    <3>. QED  BY <1>1, <1>2, <2>3, <3>3, SMT
  <2>. QED  BY <1>2, <2>1, <2>2, <2>3, SMT
<1>. QED  BY <1>1, <1>3, <1>4

LEMMA AppendItem ==
  ASSUME NEW n \in Nat, NEW s \in Seq(1 .. n), InOrder(s), NEW i \in 1 .. n,
         \A a \in ToSet(s) : a < i
  PROVE  /\ Append(s, i) \in Seq(1 .. n)
         /\ ToSet(Append(s, i)) = ToSet(s) \union {i}
         /\ InOrder(Append(s, i))
         /\ Len(Append(s, i)) = Len(s) + 1
         /\ Append(s, i) # <<>>
PROOF
<1>1. Append(s, i) = s \o <<i>> /\ Append(s, i) # <<>>
  BY AppendIsConcat, AppendProperties, Zenon
<1>2. ToSet(<<i>>) = {i} /\ InOrder(<<i>>) /\ Len(<<i>>) = 1 /\ <<i>> \in Seq(1 .. n)
  BY OneItem, Zenon
<1>3. \A a \in ToSet(s), b \in ToSet(<<i>>) : a < b
  BY <1>2, Zenon
<1>4. /\ s \o <<i>> \in Seq(1 .. n)
      /\ ToSet(s \o <<i>>) = ToSet(s) \union ToSet(<<i>>)
      /\ InOrder(s \o <<i>>)
      /\ Len(s \o <<i>>) = Len(s) + Len(<<i>>)
  BY <1>2, <1>3, ConcatItems
<1>. QED  BY <1>1, <1>2, <1>4, Zenon

----
(* What the steps do with items *)

LEMMA Known ==
  ASSUME ItemsTyped
  PROVE  /\ pos \in Nat /\ start \in Nat /\ Len(lines) \in Nat
         /\ lines \in Seq(Line)
         /\ Found \subseteq 1 .. pos
PROOF
<1>1. lines \in Seq(Line)
  BY SourcesAssumption, Zenon DEF ItemsTyped
<1>2. Len(lines) \in Nat
  BY <1>1, LenProperties, Zenon
<1>3. pos \in Nat /\ start \in Nat
  BY <1>2, SMT DEF ItemsTyped
<1>. QED  BY <1>1, <1>2, <1>3, SMT DEF Found

\* No item is found and none handed over; what is in hand stays or is dropped.
LEMMA ItemsStill ==
  ASSUME ItemsTyped, HandInv, lines' = lines, start' = start, handed' = handed,
         pos' \in pos .. Len(lines), Found' = Found,
         items' = items \/ items' = <<>>,
         at' = "idle" \/ (items' = items /\ at # "idle")
  PROVE  ItemsTyped' /\ HandInv' /\ Left' = Left
PROOF
<1>0. pos \in Nat /\ start \in Nat /\ Len(lines) \in Nat
  BY Known, Zenon
<1>1. handed \in Seq(1 .. pos') /\ items' \in Seq(1 .. pos')
  <2>1. pos' \in Nat /\ pos' >= pos
    BY <1>0, SMT
  <2>2. handed \in Seq(1 .. pos') /\ items \in Seq(1 .. pos')
    BY <1>0, <2>1, SetOfSeq, Zenon DEF ItemsTyped
  <2>. QED  BY <2>2, EmptyItems, Zenon
<1>2. Len(items') <= BatchSize
  BY EmptyItems, BatchSizeAssumption, SMT DEF ItemsTyped
<1>3. pos' \in 0 .. Len(lines) /\ start \in 0 .. pos'
  BY <1>0, SMT DEF ItemsTyped
<1>4. ItemsTyped'
  BY <1>1, <1>2, <1>3, Zenon DEF ItemsTyped
<1>5. Left' = Left
  BY Zenon DEF Left
<1>6. HandInv'
  BY <1>5, Zenon DEF HandInv
<1>. QED  BY <1>4, <1>5, <1>6

\* A line that holds no item adds nothing to what was found.
LEMMA NothingFound ==
  ASSUME ItemsTyped, lines' = lines, start' = start, pos < Len(lines), pos' = pos + 1,
         lines[pos'] # "item"
  PROVE  Found' = Found /\ pos' \in pos .. Len(lines)
PROOF
  BY Known, SMT DEF Found, ItemsTyped

\* An item is found: it comes after all that were found before.
LEMMA ItemFound ==
  ASSUME ItemsTyped, HandInv, at # "idle", lines' = lines, start' = start,
         pos < Len(lines), pos' = pos + 1, lines[pos'] = "item", Len(items) < BatchSize,
         \/ handed' = handed /\ items' = Append(items, pos')
         \/ handed' = Append(handed, pos') /\ items = <<>> /\ items' = items
  PROVE  ItemsTyped' /\ HandInv' /\ (items' = <<>> => Left' = {})
PROOF
<1>0. /\ pos \in Nat /\ start \in Nat /\ Len(lines) \in Nat /\ pos' \in Nat
      /\ Found \subseteq 1 .. pos
  BY Known, SMT
<1>1. Found' = Found \union {pos'}
  BY <1>0, SMT DEF Found, ItemsTyped
<1>2. pos' \in 1 .. pos' /\ pos' >= pos /\ \A a \in Found : a < pos'
  BY <1>0, SMT
<1>3. handed \in Seq(1 .. pos') /\ items \in Seq(1 .. pos')
  BY <1>0, <1>2, SetOfSeq, Zenon DEF ItemsTyped
<1>4. /\ InOrder(handed) /\ InOrder(items)
      /\ ToSet(handed) \subseteq Found /\ ToSet(items) = Found \ ToSet(handed)
      /\ \A h \in ToSet(handed), n \in Found \ ToSet(handed) : h < n
  BY Zenon DEF HandInv, Left
<1>5. pos' \in 0 .. Len(lines) /\ start \in 0 .. pos'
  BY <1>0, SMT DEF ItemsTyped
<1>6. CASE handed' = handed /\ items' = Append(items, pos')
  <2>1. /\ items' \in Seq(1 .. pos')
        /\ ToSet(items') = ToSet(items) \union {pos'}
        /\ InOrder(items')
        /\ Len(items') = Len(items) + 1
        /\ items' # <<>>
    <3>1. \A a \in ToSet(items) : a < pos'
      BY <1>2, <1>4, Zenon
    <3>2. /\ Append(items, pos') \in Seq(1 .. pos')
          /\ ToSet(Append(items, pos')) = ToSet(items) \union {pos'}
          /\ InOrder(Append(items, pos'))
          /\ Len(Append(items, pos')) = Len(items) + 1
      BY <1>0, <1>2, <1>3, <1>4, <3>1, AppendItem
    <3>3. Append(items, pos') # <<>>
      BY <1>2, <1>3, AppendProperties, SMT
    <3>. QED  BY <1>6, <3>2, <3>3, Zenon
  <2>2. Len(items') <= BatchSize
    BY <1>0, <1>3, <2>1, LenProperties, BatchSizeAssumption, SMT
  <2>3. ItemsTyped'
    BY <1>3, <1>5, <1>6, <2>1, <2>2, Zenon DEF ItemsTyped
  <2>4. pos' \notin Found
    BY <1>0, SMT
  <2>5. Left' = Left \union {pos'}
    BY <1>1, <1>4, <1>6, <2>4, Zenon DEF Left
  <2>6. \A h \in ToSet(handed), n \in Left' : h < n
    <3>1. \A h \in ToSet(handed) : h < pos'
      BY <1>2, <1>4, Zenon
    <3>. QED  BY <1>4, <2>5, <3>1, Zenon DEF Left
  <2>7. ToSet(items') = Left'
    BY <1>4, <2>1, <2>5, Zenon DEF Left
  <2>8. HandInv'
    BY <1>1, <1>4, <1>6, <2>1, <2>6, <2>7, Zenon DEF HandInv
  <2>. QED  BY <2>1, <2>3, <2>8
<1>7. CASE handed' = Append(handed, pos') /\ items = <<>> /\ items' = items
  <2>1. /\ handed' \in Seq(1 .. pos')
        /\ ToSet(handed') = ToSet(handed) \union {pos'}
        /\ InOrder(handed')
    <3>1. \A a \in ToSet(handed) : a < pos'
      BY <1>2, <1>4, Zenon
    <3>2. /\ Append(handed, pos') \in Seq(1 .. pos')
          /\ ToSet(Append(handed, pos')) = ToSet(handed) \union {pos'}
          /\ InOrder(Append(handed, pos'))
      BY <1>0, <1>2, <1>3, <1>4, <3>1, AppendItem
    <3>. QED  BY <1>7, <3>2, Zenon
  <2>2. ItemsTyped'
    BY <1>3, <1>5, <1>7, <2>1, Zenon DEF ItemsTyped
  <2>3. Left' = {} /\ ToSet(items') = {} /\ InOrder(items')
    BY <1>1, <1>4, <1>7, <2>1, EmptyItems, Zenon DEF Left
  <2>4. HandInv'
    BY <1>1, <1>4, <2>1, <2>3, Zenon DEF HandInv
  <2>. QED  BY <2>2, <2>3, <2>4
<1>. QED  BY <1>6, <1>7

\* What is in hand is handed over.
LEMMA ItemsHanded ==
  ASSUME ItemsTyped, HandInv, at # "idle", UNCHANGED <<lines, start, pos>>,
         handed' = handed \o items, items' = <<>>
  PROVE  ItemsTyped' /\ HandInv' /\ Left' = {}
PROOF
<1>0. pos \in Nat /\ handed \in Seq(1 .. pos) /\ items \in Seq(1 .. pos)
  BY Known, Zenon DEF ItemsTyped
<1>1. /\ InOrder(handed) /\ InOrder(items)
      /\ ToSet(handed) \subseteq Found /\ ToSet(items) = Left
      /\ \A a \in ToSet(handed), b \in ToSet(items) : a < b
  BY Zenon DEF HandInv
<1>2. /\ handed' \in Seq(1 .. pos)
      /\ ToSet(handed') = ToSet(handed) \union ToSet(items)
      /\ InOrder(handed')
  BY <1>0, <1>1, ConcatItems
<1>3. Found' = Found
  BY DEF Found
<1>4. Left' = {} /\ ToSet(handed') \subseteq Found'
  BY <1>1, <1>2, <1>3, Zenon DEF Left
<1>5. Len(items') <= BatchSize /\ items' \in Seq(1 .. pos)
  BY EmptyItems, BatchSizeAssumption, SMT
<1>6. ItemsTyped'
  BY <1>2, <1>5, Zenon DEF ItemsTyped
<1>7. HandInv'
  BY <1>2, <1>4, EmptyItems, Zenon DEF HandInv
<1>. QED  BY <1>4, <1>6, <1>7

\* A call with items in hand has not handed over those, and no others.
LEMMA LeftInHand ==
  ASSUME ItemsTyped, HandInv, at # "idle"
  PROVE  /\ Left = {} <=> items = <<>>
         /\ Len(items) \in Nat /\ (Len(items) = 0 <=> items = <<>>)
         /\ Cardinality(Left) \in Nat /\ Cardinality(Left) <= Len(items)
         /\ Cardinality(Left) = 0 <=> Left = {}
PROOF
<1>0. pos \in Nat /\ items \in Seq(1 .. pos)
  BY Known, Zenon DEF ItemsTyped
<1>1. ToSet(items) = Left
  BY DEF HandInv
<1>2. /\ ToSet(items) = {} <=> items = <<>>
      /\ IsFiniteSet(ToSet(items)) /\ Cardinality(ToSet(items)) <= Len(items)
  BY <1>0, SetOfSeq, Zenon
<1>3. Len(items) \in Nat /\ (Len(items) = 0 <=> items = <<>>)
  BY <1>0, LenProperties, EmptySeq, SMT
<1>4. Cardinality(Left) \in Nat /\ (Cardinality(Left) = 0 <=> Left = {})
  BY <1>1, <1>2, FS_CardinalityType, FS_EmptySet, Zenon
<1>. QED  BY <1>1, <1>2, <1>3, <1>4, Zenon

LEMMA InitStreamInv == StreamInit => StreamInv
PROOF
<1> SUFFICES ASSUME StreamInit  PROVE StreamInv
  OBVIOUS
<1>1. lines \in Seq(Line) /\ Len(lines) \in Nat
  BY SourcesAssumption, LenProperties, Zenon DEF StreamInit
<1>2. ItemsTyped
  BY <1>1, EmptyItems, BatchSizeAssumption, SMT DEF StreamInit, ItemsTyped
<1>3. CallTyped
  <2>1. errors \in 0 .. 1 /\ reports \in 0 .. 2
    BY SMT DEF StreamInit
  <2>. QED  BY <2>1, Zenon DEF StreamInit, CallTyped, Uses, WithContext
<1>4. ToSet(handed) = {} /\ ToSet(items) = {} /\ Found = {} /\ InOrder(handed)
  BY <1>1, EmptyItems, SMT DEF StreamInit, Found
<1>5. HandInv
  BY <1>4, Zenon DEF HandInv, StreamInit
<1>6. EndInv
  BY SMT DEF EndInv, StreamInit
<1>7. PlaceInv /\ NoSendOnClosed
  BY SMT DEF PlaceInv, NoSendOnClosed, StreamInit
<1>. QED  BY <1>2, <1>3, <1>5, <1>6, <1>7, Zenon DEF StreamInv

LEMMA BeginStep == ASSUME StreamInv, NEW u \in Uses, Begin(u)  PROVE StreamInv'
PROOF
<1>0. ItemsTyped /\ CallTyped /\ PlaceInv
  BY DEF StreamInv
<1>1. pos \in Nat /\ Len(lines) \in Nat
  BY <1>0, Known, Zenon
<1>2. items = <<>>
  BY <1>0, Zenon DEF PlaceInv, Begin
<1>3. ItemsTyped'
  BY <1>0, <1>1, <1>2, EmptyItems, SMT DEF Begin, ItemsTyped, content
<1>4. CallTyped'
  BY <1>0, Zenon DEF Begin, CallTyped, content
<1>5. Found' = {}
  BY <1>1, SMT DEF Begin, Found, content
<1>6. HandInv'
  BY <1>2, <1>5, EmptyItems, Zenon DEF HandInv, Left, Begin
<1>7. EndInv' /\ PlaceInv' /\ NoSendOnClosed'
  BY <1>2, SMT DEF Begin, EndInv, PlaceInv, NoSendOnClosed
<1>. QED  BY <1>3, <1>4, <1>6, <1>7, Zenon DEF StreamInv

\* A step that neither finds nor hands over an item.
LEMMA QuietStep ==
  ASSUME StreamInv, ReturnCancelled \/ Read \/ ReadEnd \/ ReadFails \/ Check \/ SendError \/ ReturnError
               \/ Abandon
  PROVE  StreamInv'
PROOF
<1>0. ItemsTyped /\ CallTyped /\ HandInv /\ EndInv /\ PlaceInv /\ NoSendOnClosed
  BY DEF StreamInv
<1>1. /\ at # "idle" /\ UNCHANGED <<lines, pos, start, handed>>
      /\ items' = items \/ (items' = <<>> /\ at' = "idle")
  <2>1. CASE ReturnCancelled \/ ReadEnd \/ ReturnError \/ Abandon
    BY <2>1, SMT DEF ReturnCancelled, ReadEnd, ReturnError, Abandon, Return, content
  <2>2. CASE Read \/ ReadFails \/ Check \/ SendError
    BY <2>2, SMT DEF Read, ReadFails, Fail, Check, SendError, content
  <2>. QED  BY <2>1, <2>2
<1>2. Found' = Found
  BY <1>1, Zenon DEF Found
<1>3. pos \in Nat /\ Len(lines) \in Nat /\ pos' \in pos .. Len(lines)
  BY <1>0, <1>1, Known, SMT DEF ItemsTyped
<1>4. ItemsTyped' /\ HandInv' /\ Left' = Left
  BY <1>0, <1>1, <1>2, <1>3, ItemsStill, Zenon
<1>5. /\ Left = {} <=> items = <<>>
      /\ Len(items) \in Nat /\ (Len(items) = 0 <=> items = <<>>)
      /\ Cardinality(Left) \in Nat /\ Cardinality(Left) <= Len(items)
      /\ Cardinality(Left) = 0 <=> Left = {}
  BY <1>0, <1>1, LeftInHand, Zenon
<1>a. at = "sending" => use = "Channel" /\ (Left # {} => Cardinality(Left) = 1)
  <2>1. at = "sending" => use = "Channel" /\ Len(items) = 1
    BY <1>0, Zenon DEF PlaceInv
  <2>2. Len(items) = 1 /\ Left # {} => Cardinality(Left) = 1
    <3> DEFINE c == Cardinality(Left)
               l == Len(items)
    <3>1. c \in Nat /\ c <= l /\ (Left # {} => c # 0)
      BY <1>5, Zenon
    <3> HIDE DEF c, l
    <3>2. l = 1 /\ Left # {} => c = 1
      BY <3>1, SMT
    <3>. QED  BY <3>2, Zenon DEF c, l
  <2>. QED  BY <2>1, <2>2, Zenon
<1>b. at = "reporting" =>
        /\ Left # {} => use = "ProcessBatch" /\ Cardinality(Left) < BatchSize
        /\ reports = 0 /\ use = "Channel" => closed \/ errors = 1 \/ told
  BY <1>0, <1>5, BatchSizeAssumption, SMT DEF PlaceInv
<1> USE <1>0, <1>1, <1>4, <1>5 DEF CallTyped, EndInv, PlaceInv, NoSendOnClosed, content, Return
<1>6. CASE ReturnCancelled
  <2>1. CallTyped' /\ EndInv' /\ PlaceInv' /\ NoSendOnClosed'
    BY <1>6, SMT DEF ReturnCancelled, Cancelled
  <2>. QED  BY <2>1 DEF StreamInv
<1>7. CASE Read
  <2>1. CallTyped' /\ EndInv' /\ PlaceInv' /\ NoSendOnClosed'
    BY <1>7, SMT DEF Read
  <2>. QED  BY <2>1 DEF StreamInv
<1>8. CASE ReadEnd
  <2>1. CallTyped' /\ EndInv' /\ PlaceInv' /\ NoSendOnClosed'
    BY <1>8, SMT DEF ReadEnd, Uses, WithContext
  <2>. QED  BY <2>1 DEF StreamInv
<1>9. CASE ReadFails
  <2>1. CallTyped' /\ EndInv' /\ PlaceInv' /\ NoSendOnClosed'
    BY <1>9, SMT DEF ReadFails, Fail
  <2>. QED  BY <2>1 DEF StreamInv
<1>10. CASE Check
  <2>1. CallTyped' /\ EndInv' /\ PlaceInv' /\ NoSendOnClosed'
    BY <1>10, SMT DEF Check
  <2>. QED  BY <2>1 DEF StreamInv
<1>11. CASE SendError
  <2>1. CallTyped' /\ EndInv' /\ PlaceInv' /\ NoSendOnClosed'
    BY <1>11, SMT DEF SendError
  <2>. QED  BY <2>1 DEF StreamInv
<1>12. CASE ReturnError
  <2>1. CallTyped'
    BY <1>12, Zenon DEF ReturnError
  <2>2. EndInv'
    BY <1>b, <1>12, Zenon DEF ReturnError
  <2>3. PlaceInv' /\ NoSendOnClosed'
    BY <1>12, Zenon DEF ReturnError
  <2>. QED  BY <2>1, <2>2, <2>3 DEF StreamInv
<1>13. CASE Abandon
  <2>1. CallTyped'
    BY <1>13, Zenon DEF Abandon
  <2>2. EndInv'
    BY <1>a, <1>13, Zenon DEF Abandon
  <2>3. PlaceInv' /\ NoSendOnClosed'
    BY <1>13, Zenon DEF Abandon
  <2>. QED  BY <2>1, <2>2, <2>3 DEF StreamInv
<1>. QED  BY <1>6, <1>7, <1>8, <1>9, <1>10, <1>11, <1>12, <1>13

LEMMA ReadLineStep == ASSUME StreamInv, ReadLine  PROVE StreamInv'
PROOF
<1>0. ItemsTyped /\ CallTyped /\ HandInv /\ EndInv /\ PlaceInv /\ NoSendOnClosed
  BY DEF StreamInv
<1>1. /\ at = "reading" /\ lines' = lines /\ start' = start
      /\ pos < Len(lines) /\ pos' = pos + 1
      /\ UNCHANGED <<format, ending, closed, errors, use, ctxCancelled, told>>
  BY Zenon DEF ReadLine, content
<1>2. /\ items = <<>> \/ use = "ProcessBatch"
      /\ Len(items) \in Nat /\ Len(items) < BatchSize
      /\ Left = {} <=> items = <<>>
  BY <1>0, <1>1, LeftInHand, BatchSizeAssumption, SMT DEF PlaceInv
<1>3. CASE lines[pos'] # "item" /\ (Fail \/ Skip)
  <2>1. handed' = handed /\ (items' = items \/ (items' = <<>> /\ at' = "idle"))
    BY <1>3, SMT DEF Fail, Skip, Return
  <2>2. Found' = Found /\ pos' \in pos .. Len(lines)
    BY <1>0, <1>1, <1>3, NothingFound, Zenon
  <2>3. ItemsTyped' /\ HandInv' /\ Left' = Left
    BY <1>0, <1>1, <2>1, <2>2, ItemsStill, Zenon
  <2>4. CASE Fail
    <3>1. CallTyped' /\ EndInv' /\ PlaceInv' /\ NoSendOnClosed'
      BY <1>0, <1>1, <1>2, <2>4, SMT DEF Fail, CallTyped, EndInv, PlaceInv, NoSendOnClosed
    <3>. QED  BY <2>3, <3>1 DEF StreamInv
  <2>5. CASE Skip
    <3>1. CallTyped' /\ EndInv' /\ PlaceInv' /\ NoSendOnClosed'
      BY <1>0, <1>1, <1>2, <2>3, <2>5, SMT DEF Skip, Return, CallTyped, EndInv, PlaceInv, NoSendOnClosed
    <3>. QED  BY <2>3, <3>1 DEF StreamInv
  <2>. QED  BY <1>3, <2>4, <2>5
<1>4. CASE lines[pos'] = "item" /\ Take(pos')
  <2>1. CASE use \in {"Channel", "Process"}
    <3>1. items = <<>> /\ handed' = handed /\ items' = <<pos'>>
          /\ at' = (IF use = "Channel" THEN "sending" ELSE "calling")
          /\ UNCHANGED <<reports, result>>
      BY <1>2, <1>4, <2>1, Zenon DEF Take
    <3>2. <<pos'>> = Append(<<>>, pos')
      BY SMT
    <3>3. ItemsTyped' /\ HandInv'
      BY <1>0, <1>1, <1>2, <1>4, <3>1, <3>2, ItemFound, SMT
    <3>4. Len(items') = 1
      BY <3>1, SMT
    <3>5. CallTyped' /\ EndInv' /\ PlaceInv' /\ NoSendOnClosed'
      BY <1>0, <1>1, <2>1, <3>1, <3>4, SMT DEF CallTyped, EndInv, PlaceInv, NoSendOnClosed
    <3>. QED  BY <3>3, <3>5 DEF StreamInv
  <2>2. CASE use = "ProcessBatch"
    <3>1. handed' = handed /\ items' = Append(items, pos')
          /\ at' = (IF Len(items') >= BatchSize THEN "calling" ELSE "loop")
          /\ UNCHANGED <<reports, result>>
      BY <1>4, <2>2, SMT DEF Take
    <3>2. ItemsTyped' /\ HandInv'
      BY <1>0, <1>1, <1>2, <1>4, <3>1, ItemFound, SMT
    <3>3. Len(items') \in Nat /\ BatchSize \in Nat
      BY <3>2, LenProperties, BatchSizeAssumption, Zenon DEF ItemsTyped
    <3>4. CallTyped' /\ EndInv' /\ PlaceInv' /\ NoSendOnClosed'
      BY <1>0, <1>1, <2>2, <3>1, <3>3, SMT DEF CallTyped, EndInv, PlaceInv, NoSendOnClosed
    <3>. QED  BY <3>2, <3>4 DEF StreamInv
  <2>3. CASE use \in {"ReadAll", "Read"}
    <3>1. items = <<>> /\ handed' = Append(handed, pos') /\ items' = items /\ reports' = reports
          /\ \/ use = "ReadAll" /\ at' = "loop" /\ result' = result
             \/ use = "Read" /\ at' = "idle" /\ result' = "ok"
      <4>1. CASE use = "ReadAll"
        BY <1>2, <1>4, <4>1, Zenon DEF Take
      <4>2. CASE use = "Read"
        BY <1>2, <1>4, <4>2, Zenon DEF Take, Return
      <4>. QED  BY <2>3, <4>1, <4>2
    <3>2. ItemsTyped' /\ HandInv'
      BY <1>0, <1>1, <1>2, <1>4, <3>1, ItemFound, SMT
    <3>3. Left' = {}
      BY <1>0, <1>1, <1>2, <1>4, <3>1, ItemFound, SMT
    <3>4. CallTyped' /\ EndInv' /\ PlaceInv' /\ NoSendOnClosed'
      BY <1>0, <1>1, <3>1, <3>3, SMT DEF CallTyped, EndInv, PlaceInv, NoSendOnClosed
    <3>. QED  BY <3>2, <3>4 DEF StreamInv
  <2>. QED  BY <1>0, <2>1, <2>2, <2>3, Zenon DEF CallTyped, Uses, WithContext
<1>. QED  BY <1>3, <1>4, SMT DEF ReadLine

LEMMA HandOverStep ==
  ASSUME StreamInv, Receive \/ (\E ok \in BOOLEAN : CallbackReturns(ok))
  PROVE  StreamInv'
PROOF
<1>0. ItemsTyped /\ CallTyped /\ HandInv /\ EndInv /\ PlaceInv /\ NoSendOnClosed
  BY DEF StreamInv
<1> DEFINE Handing ==
      /\ at \in {"sending", "calling", "lastcall"}
      /\ handed' = handed \o items /\ items' = <<>>
      /\ UNCHANGED <<content, pos, start, closed, errors, use, ctxCancelled, told, reports>>
      /\ \/ at' = "loop" /\ result' = result
         \/ at' = "idle" /\ result' = "failed" /\ use \in {"Process", "ProcessBatch"}
         \/ at' = "idle" /\ result' = "ok" /\ at = "lastcall"
<1>1. Handing
  <2>1. CASE Receive
    BY <2>1, Zenon DEF Receive
  <2>2. ASSUME NEW ok \in BOOLEAN, CallbackReturns(ok)  PROVE Handing
    <3>1. CASE ok /\ at = "calling"
      BY <2>2, <3>1, Zenon DEF CallbackReturns
    <3>2. CASE ok /\ at = "lastcall"
      BY <2>2, <3>2, Zenon DEF CallbackReturns, Return
    <3>3. CASE ~ok
      BY <1>0, <2>2, <3>3, Zenon DEF CallbackReturns, Return, PlaceInv
    <3>. QED  BY <2>2, <3>1, <3>2, <3>3, Zenon DEF CallbackReturns
  <2>. QED  BY <2>1, <2>2
<1>2. ItemsTyped' /\ HandInv' /\ Left' = {}
  BY <1>0, <1>1, ItemsHanded, SMT DEF content
<1>3. CallTyped'
  BY <1>0, <1>1, Zenon DEF CallTyped, content
<1>4. EndInv'
  BY <1>0, <1>1, <1>2, Zenon DEF EndInv, PlaceInv, content
<1>5. PlaceInv' /\ NoSendOnClosed'
  BY <1>1, Zenon DEF PlaceInv, NoSendOnClosed
<1>. QED  BY <1>2, <1>3, <1>4, <1>5 DEF StreamInv

LEMMA OtherStep ==
  ASSUME StreamInv, CancelCall \/ TakeError \/ Close \/ UNCHANGED streamVars
  PROVE  StreamInv'
PROOF
<1>0. ItemsTyped /\ CallTyped /\ HandInv /\ EndInv /\ PlaceInv /\ NoSendOnClosed
  BY DEF StreamInv
<1>1. UNCHANGED <<lines, pos, start, handed, items, at, use, result, reports, format, ending>>
  BY Zenon DEF CancelCall, TakeError, Close, streamVars, content
<1>2. /\ closed' = closed \/ (closed' = TRUE /\ at # "checked")
      /\ ctxCancelled' = ctxCancelled \/ (ctxCancelled' = TRUE /\ at # "idle")
      /\ (errors' = errors /\ told' = told) \/ (errors' = 0 /\ told' = TRUE)
  BY Zenon DEF CancelCall, TakeError, Close, streamVars
<1>3. Found' = Found /\ Left' = Left
  BY <1>1, Zenon DEF Found, Left
<1>4. ItemsTyped' /\ HandInv'
  BY <1>0, <1>1, <1>3, Zenon DEF ItemsTyped, HandInv
<1>5. CallTyped'
  <2>1. errors' \in 0 .. 1
    BY <1>0, <1>2, SMT DEF CallTyped
  <2>. QED  BY <1>0, <1>1, <1>2, <2>1, Zenon DEF CallTyped
<1>6. EndInv'
  <2>1. Left' = Left /\ at' = at /\ pos' = pos /\ lines' = lines /\ use' = use /\ result' = result
    BY <1>1, <1>3, Zenon
  <2>2. at = "idle" => ctxCancelled' = ctxCancelled
    BY <1>2, Zenon
  <2>3. closed \/ errors = 1 \/ told => closed' \/ errors' = 1 \/ told'
    BY <1>2, Zenon
  <2>. QED  BY <1>0, <2>1, <2>2, <2>3, Zenon DEF EndInv
<1>7. PlaceInv'
  <2>1. /\ at' = at /\ pos' = pos /\ lines' = lines /\ use' = use /\ items' = items
        /\ reports' = reports
    BY <1>1, Zenon
  <2>2. ctxCancelled => ctxCancelled'
    BY <1>2, Zenon
  <2>3. closed \/ errors = 1 \/ told => closed' \/ errors' = 1 \/ told'
    BY <1>2, Zenon
  <2>. QED  BY <1>0, <2>1, <2>2, <2>3, Zenon DEF PlaceInv
<1>8. NoSendOnClosed'
  BY <1>0, <1>1, <1>2, Zenon DEF NoSendOnClosed
<1>. QED  BY <1>4, <1>5, <1>6, <1>7, <1>8 DEF StreamInv

LEMMA StreamInvInductive == StreamInv /\ [StreamNext]_streamVars => StreamInv'
PROOF
  BY BeginStep, ReadLineStep, QuietStep, HandOverStep, OtherStep, Zenon DEF StreamNext, Own

\* Whatever the body holds and however a call ends, it has handed over the items it found, in the
\* order of their lines, none twice, but for those its end accounts for: an incomplete batch of a
\* failed ProcessBatch, the one item in the hand of a cancelled Channel (Stream.Read, ReadAll,
\* Channel, Process and ProcessBatch).
THEOREM AllHandedOver == StreamSpec => []HandsOverAll
PROOF
  BY InitStreamInv, StreamInvInductive, StreamInvImplies, PTL DEF StreamSpec

\* No trySendError sends on Errors once Close has closed it, at any moment of any call
\* (Stream.Close, Stream.trySendError).
THEOREM ErrorsStaysOpen == StreamSpec => []NoSendOnClosed
PROOF
  BY InitStreamInv, StreamInvInductive, StreamInvImplies, PTL DEF StreamSpec
====
