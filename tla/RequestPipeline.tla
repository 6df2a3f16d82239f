---- MODULE RequestPipeline ----
(*****************************************************************************)
(* One call of Client.DoWithContext or UploadWithContext on its way through  *)
(* the middleware chain auth -> retry -> network: the bounded retry loop,    *)
(* the single replay after a 401, the body that each send drains and must be *)
(* rewound, and a server that may run a request whose answer never arrives.  *)
(*                                                                           *)
(* The authenticator is reduced to what this chain sees of it: credentials   *)
(* are there or they are not. ClientSession models how they are obtained.    *)
(*****************************************************************************)
EXTENDS Integers

CONSTANT MaxRetries   \* the largest retry count a client or a request asks for

ASSUME MaxRetriesAssumption == MaxRetries \in Nat

(***************************************************************************)
(* What the caller fixes: isIdempotentMethod of the method, the ForceRetry *)
(* and Retries options, whether the retry delay is positive, the kind of   *)
(* body and the kind of authenticator. Only POST and PUT carry a body, and *)
(* only a streamed upload carries one without GetBody.                     *)
(***************************************************************************)
Bodies == {"none", "rewindable", "stream"}
AuthKinds == {"none", "static", "ticket", "invalid"}

CallRecord == [idempotent : BOOLEAN, force : BOOLEAN, retries : -1 .. MaxRetries,
               waits : BOOLEAN, body : Bodies, auth : AuthKinds]

Calls == {c \in CallRecord : c.idempotent => c.body = "none"}

VARIABLES
    call,     \* the call's parameters, fixed
    pc,       \* where the chain is
    pass,     \* 1 on the way in, 2 in the replay after a 401
    attempt,  \* the retry loop's counter, from 0 in each pass
    body,     \* req.Body: "whole" until a send drains it
    wire,     \* the request in the server's hands, if any
    ctxDone,  \* the caller's context is cancelled
    outcome,  \* what the call returns
    \* What the server and the wire have seen of this call:
    sends,    \* requests put on the wire
    execs,    \* times the server ran the operation
    late,     \* abandoned requests the server may still run
    spoiled   \* a request went out with a drained body

vars == <<call, pc, pass, attempt, body, wire, ctxDone, outcome, sends, execs, late, spoiled>>

PCs == {"auth", "send", "wait", "backoff", "reauth", "done"}
Wires == {"idle", "sent", "executed", "refused"}
Outcomes == {"pending", "ok", "rejected", "busy", "unauthorized", "connectionError",
             "certificateError", "transportError", "cancelled", "authError", "bodyError"}

TypeOK ==
    /\ call \in Calls
    /\ pc \in PCs
    /\ pass \in {1, 2}
    /\ attempt \in Nat
    /\ body \in {"whole", "drained"}
    /\ wire \in Wires
    /\ ctxDone \in BOOLEAN
    /\ outcome \in Outcomes
    /\ sends \in Nat
    /\ execs \in Nat
    /\ late \in Nat
    /\ spoiled \in BOOLEAN

----
Retries == IF call.retries < 0 THEN 0 ELSE call.retries

RetryAllowed == call.idempotent \/ call.force

\* A plausible slip: the opt-in for mutating methods is forgotten.
RetryUnguarded == TRUE /\ attempt < Retries

\* A plausible slip: one retry too many.
RetryOffByOne == RetryAllowed /\ attempt <= Retries

\* A plausible slip: the last retry is not taken.
RetryOneTooFew == RetryAllowed /\ attempt + 1 < Retries

MayRetry == RetryAllowed /\ attempt < Retries

\* The retry loop holds a copy of the body (captureRetryBody): taken from
\* GetBody, or by reading the stream into memory.
Captured == call.body # "none" /\ RetryAllowed /\ Retries > 0

\* handleAuthenticationRetry replays once, with renewable credentials and a
\* body that GetBody can rewind.
MayReplay == pass = 1 /\ call.auth = "ticket" /\ call.body # "stream"

Retryable == {"busy", "gateway596"}

\* The statuses the server, or a proxy before it, can answer with. "ok" is
\* 2xx; "busy" 429, 502, 503 or 504; "gateway596" PVE's upstream pseudo-status;
\* "rejected" any other error.
Statuses ==
    CASE wire = "executed" -> {"ok", "rejected", "busy", "gateway596"}
      [] wire = "sent"     -> {"rejected", "busy", "gateway596"}
      [] wire = "refused"  -> {"unauthorized"}
      [] OTHER             -> {}

\* How a send can fail in transport: while dialling, in the certificate check,
\* by a dropped keep-alive connection, or otherwise (a timeout, a reset).
Unsent == {"dial", "certificate"}
Failures == IF wire = "sent" THEN Unsent \union {"drop", "broken"} ELSE {"drop", "broken"}

FailureOutcome(kind) ==
    CASE kind = "dial"        -> "connectionError"
      [] kind = "certificate" -> "certificateError"
      [] kind = "drop"        -> "connectionError"
      [] OTHER                -> "transportError"

ResponseOutcome(s) == IF s = "gateway596" THEN "connectionError" ELSE s

----
Init ==
    /\ call \in Calls
    /\ pc = "auth"
    /\ pass = 1
    /\ attempt = 0
    /\ body = "whole"
    /\ wire = "idle"
    /\ ctxDone = FALSE
    /\ outcome = "pending"
    /\ sends = 0
    /\ execs = 0
    /\ late = 0
    /\ spoiled = FALSE

Finish(result) ==
    /\ pc' = "done"
    /\ outcome' = result
    /\ UNCHANGED attempt

BackOff ==
    /\ pc' = "backoff"
    /\ attempt' = attempt + 1
    /\ UNCHANGED outcome

\* The client lets go of the request. One the server has accepted and not yet
\* run may be dropped there or may still run.
LetGo(reached) ==
    /\ wire' = "idle"
    /\ IF reached /\ wire = "sent" THEN late' \in {late, late + 1} ELSE late' = late

----
\* authMiddleware before the send: renewal, login and the headers, or an error.
Authenticated ==
    /\ pc = "auth"
    /\ call.auth # "invalid"
    /\ pc' = "send"
    /\ UNCHANGED <<call, pass, attempt, body, wire, ctxDone, outcome, sends, execs, late, spoiled>>

NotAuthenticated ==
    /\ pc = "auth"
    /\ call.auth \in {"ticket", "invalid"}
    /\ Finish("authError")
    /\ UNCHANGED <<call, pass, body, wire, ctxDone, sends, execs, late, spoiled>>

\* captureRequestBody cannot read the stream it has to buffer.
BufferingFails ==
    /\ pc = "send"
    /\ sends = 0
    /\ attempt = 0
    /\ Captured
    /\ call.body = "stream"
    /\ Finish("bodyError")
    /\ UNCHANGED <<call, pass, body, wire, ctxDone, sends, execs, late, spoiled>>

Send ==
    /\ pc = "send"
    /\ ~ctxDone
    /\ pc' = "wait"
    /\ wire' = "sent"
    /\ body' = "drained"
    /\ sends' = sends + 1
    /\ spoiled' = (spoiled \/ (call.body # "none" /\ body = "drained"))
    /\ UNCHANGED <<call, pass, attempt, ctxDone, outcome, execs, late>>

\* net/http refuses a cancelled context before it dials; the retry loop takes
\* the refusal for one more transport failure.
SendCancelled ==
    /\ pc = "send"
    /\ ctxDone
    /\ body' = "drained"
    /\ IF MayRetry THEN BackOff ELSE Finish("transportError")
    /\ UNCHANGED <<call, pass, wire, ctxDone, sends, execs, late, spoiled>>

\* The retry loop hands the response to handleAuthenticationRetry, which
\* passes it on.
ReturnResponse ==
    /\ pc = "wait"
    /\ \E s \in Statuses :
        /\ ~(s \in Retryable /\ MayRetry)
        /\ ~(s = "unauthorized" /\ MayReplay)
        /\ Finish(ResponseOutcome(s))
    /\ LetGo(TRUE)
    /\ UNCHANGED <<call, pass, body, ctxDone, sends, execs, spoiled>>

RetryResponse ==
    /\ pc = "wait"
    /\ Statuses \intersect Retryable # {}
    /\ MayRetry
    /\ BackOff
    /\ LetGo(TRUE)
    /\ UNCHANGED <<call, pass, body, ctxDone, sends, execs, spoiled>>

CredentialsRefused ==
    /\ pc = "wait"
    /\ "unauthorized" \in Statuses
    /\ MayReplay
    /\ pc' = "reauth"
    /\ LetGo(TRUE)
    /\ UNCHANGED <<call, pass, attempt, body, ctxDone, outcome, sends, execs, spoiled>>

\* classifyTransportError: an unreachable host and a refused certificate are
\* final, anything else is retried while the policy allows it.
TransportFailure ==
    /\ pc = "wait"
    /\ \E kind \in Failures :
        /\ LetGo(kind \notin Unsent)
        /\ IF kind \notin Unsent /\ MayRetry THEN BackOff ELSE Finish(FailureOutcome(kind))
    /\ UNCHANGED <<call, pass, body, ctxDone, sends, execs, spoiled>>

Rewound(rewinds) == IF rewinds THEN "whole" ELSE body

\* A plausible slip: the wait ends only with the context.
BackoffWaitsForContext ==
    /\ pc = "backoff"
    /\ ctxDone
    /\ pc' = "send"
    /\ body' = Rewound(Captured)
    /\ UNCHANGED <<call, pass, attempt, wire, ctxDone, outcome, sends, execs, late, spoiled>>

\* waitBackoff's timer fires, or there is no delay; then rewindRequestBody.
BackoffElapsed ==
    /\ pc = "backoff"
    /\ pc' = "send"
    /\ body' = Rewound(Captured)
    /\ UNCHANGED <<call, pass, attempt, wire, ctxDone, outcome, sends, execs, late, spoiled>>

BackoffCancelled ==
    /\ pc = "backoff"
    /\ call.waits
    /\ ctxDone
    /\ Finish("cancelled")
    /\ UNCHANGED <<call, pass, body, wire, ctxDone, sends, execs, late, spoiled>>

\* A plausible slip: the replay sends what the first send left of the body.
ReplayDrained ==
    /\ pc = "reauth"
    /\ pc' = "send"
    /\ pass' = 2
    /\ attempt' = 0
    /\ UNCHANGED <<call, body, wire, ctxDone, outcome, sends, execs, late, spoiled>>

\* forceReauthenticate succeeds; the body is rewound and the retry loop is
\* entered afresh.
Replay ==
    /\ pc = "reauth"
    /\ pc' = "send"
    /\ pass' = 2
    /\ attempt' = 0
    /\ body' = Rewound(call.body = "rewindable")
    /\ UNCHANGED <<call, wire, ctxDone, outcome, sends, execs, late, spoiled>>

ReauthFails ==
    /\ pc = "reauth"
    /\ Finish("authError")
    /\ UNCHANGED <<call, pass, body, wire, ctxDone, sends, execs, late, spoiled>>

----
Cancel ==
    /\ pc # "done"
    /\ ~ctxDone
    /\ ctxDone' = TRUE
    /\ UNCHANGED <<call, pc, pass, attempt, body, wire, outcome, sends, execs, late, spoiled>>

ServerRuns ==
    /\ wire = "sent"
    /\ wire' = "executed"
    /\ execs' = execs + 1
    /\ UNCHANGED <<call, pc, pass, attempt, body, ctxDone, outcome, sends, late, spoiled>>

ServerRefuses ==
    /\ wire = "sent"
    /\ wire' = "refused"
    /\ UNCHANGED <<call, pc, pass, attempt, body, ctxDone, outcome, sends, execs, late, spoiled>>

ServerRunsLate ==
    /\ late > 0
    /\ late' = late - 1
    /\ execs' = execs + 1
    /\ UNCHANGED <<call, pc, pass, attempt, body, wire, ctxDone, outcome, sends, spoiled>>

----
Client ==
    \/ Authenticated \/ NotAuthenticated \/ BufferingFails
    \/ Send \/ SendCancelled
    \/ ReturnResponse \/ RetryResponse \/ CredentialsRefused \/ TransportFailure
    \/ BackoffElapsed \/ BackoffCancelled
    \/ Replay \/ ReauthFails

Server == ServerRuns \/ ServerRefuses \/ ServerRunsLate

Next == Client \/ Server \/ Cancel

\* The goroutine that makes the call runs on, and the HTTP client's timeout
\* ends a wait for the server. Nothing obliges the server to run anything.
Spec == Init /\ [][Next]_vars /\ WF_vars(Client)

----
Budget == IF RetryAllowed THEN Retries ELSE 0

\* The operation may run once for the answer the caller sees and once for each
\* retry of the two passes: exactly once when the method is neither idempotent
\* nor forced.
Contract == INSTANCE CallContract WITH
    limit  <- 2 * Budget + 1,
    runs   <- execs,
    answer <- CASE outcome = "pending" -> "pending"
                [] outcome = "ok"      -> "accepted"
                [] OTHER               -> "failed"

\* The call implements its contract. A mutating call that did not opt in to
\* retries runs at most once on the server, across the retry loop, the replay
\* after a 401 and a request that is run after the client gave up on it
\* (the duplicate side effect client.go:1485-1487 guards against), and a call
\* reports success only for an operation that ran.
ImplementsContract == Contract!Spec

\* No pass sends more than the policy allows, whatever mix of statuses,
\* transport failures, pseudo-statuses and refused credentials it meets.
SendBound == sends <= IF pass = 2 THEN 2 * (Budget + 1) ELSE Budget + 1

\* Every request on the wire carries its whole body: each way back to the send
\* (backoff, replay after a 401) restores what the previous send drained, and
\* a streamed upload that cannot be restored is never sent twice.
WholeBody == ~spoiled

\* A call that is not cancelled gives up on a busy server or a broken exchange only
\* when each retry of its pass went out on the wire (client.go:1528, 1538, 1603): no
\* mix of statuses and failures uses up an attempt without a request, and the replay
\* after a 401 has the whole budget again. Failures that no retry can mend, an
\* unreachable host or a refused certificate, end a call at once.
RetriesUsed ==
    outcome \in {"busy", "transportError"} /\ ~ctxDone => sends >= Budget + pass

\* Every call returns: neither the retry loop nor the 401 replay goes round for
\* ever, and no wait depends on the caller cancelling.
Terminates == <>(pc = "done")
====
