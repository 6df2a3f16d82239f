---- MODULE BatchExecutor ----
(*****************************************************************************)
(* pkg/batch: batches of requests run one after the other by a pipeline,     *)
(* each by a pool of goroutines behind a semaphore. Batches are built first; *)
(* then the main goroutine of Execute places one worker per request and      *)
(* waits for them, while the timeout of the batch and the caller's context   *)
(* may cut it short at any step. With a callback the program runs            *)
(* ExecuteWithCallback on one batch; a pipeline passes none.                 *)
(*                                                                           *)
(* A worker goes by batch and position of its request. Methods, paths,       *)
(* headers, bodies and durations are left out.                               *)
(*****************************************************************************)
EXTENDS Integers, Sequences, FiniteSets

CONSTANTS
    Count,          \* the number of batches of the pipeline
    Names,          \* the IDs that callers give to requests
    Unnamed,        \* a request without ID
    Offers,         \* the Adds the program makes: batch and ID
    MaxBatchSize,
    MaxConcurrency,
    MaxRetries,     \* 0 also stands for RetryFailedRequests = false
    Statuses        \* the status codes the server answers with

ASSUME CountAssumption == Count \in Nat \ {0}
ASSUME SizeAssumption == MaxBatchSize \in Nat
ASSUME ConcurrencyAssumption == MaxConcurrency \in Nat
ASSUME RetriesAssumption == MaxRetries \in Nat
ASSUME StatusAssumption == Statuses \subseteq Nat \ {0}
ASSUME OffersAssumption == Offers \subseteq (1 .. Count) \X (Names \union {Unnamed})

Batches == 1 .. Count
Workers == Batches \X (1 .. MaxBatchSize)

\* The position of an unnamed request, which is new each time, is its ID.
Ids == Names \union (0 .. MaxBatchSize)

VARIABLES
    timed,     \* Config.Timeout > 0
    callback,  \* a callback was passed
    requests,  \* Batch.requests, by their IDs
    main,      \* where the main goroutine is
    current,   \* the batch it executes
    next,      \* the position of the request it places next
    sem,       \* slots taken of the semaphore
    pending,   \* the counter of the wait group
    cancelled, \* the caller's context is done
    expired,   \* the timeout of this Execute is over
    pc,        \* where each worker is
    attempt,   \* its retries so far, while it makes any
    failed,    \* whether the response it brings has an Error, until recorded
    responses, \* Result.Responses of each batch
    success,   \* Result.SuccessCount
    failure    \* Result.FailureCount

configVars == <<timed, callback>>
resultVars == <<responses, success, failure>>
workerVars == <<pc, attempt, failed>>
contextVars == <<cancelled, expired>>
mainVars == <<main, current, next>>
vars == <<configVars, requests, mainVars, sem, pending, contextVars,
          workerVars, resultVars>>

Places == {"none", "sending", "backoff", "answered", "calling", "leaving",
           "released", "done", "refused"}

Response == [of : Nat, error : BOOLEAN]

TypeOK ==
    /\ timed \in BOOLEAN /\ callback \in BOOLEAN
    /\ requests \in [Batches -> Seq(Ids)]
    /\ \A b \in Batches : Len(requests[b]) <= MaxBatchSize
    /\ main \in {"building", "placing", "waiting", "returned", "stopped"}
    /\ current \in Batches
    /\ next \in 1 .. MaxBatchSize + 1
    /\ sem \in 0 .. MaxConcurrency
    /\ pending \in 0 .. MaxBatchSize
    /\ cancelled \in BOOLEAN /\ expired \in BOOLEAN
    /\ pc \in [Workers -> Places]
    /\ attempt \in [Workers -> 0 .. MaxRetries]
    /\ failed \in [Workers -> BOOLEAN]
    /\ DOMAIN responses = Batches
    /\ \A b \in Batches : responses[b] \in [DOMAIN responses[b] -> Response]
    /\ success \in [Batches -> Nat] /\ failure \in [Batches -> Nat]

Init ==
    /\ timed \in BOOLEAN /\ callback \in BOOLEAN
    /\ requests = [b \in Batches |-> <<>>]
    /\ main = "building" /\ current = 1 /\ next = 1
    /\ sem = 0 /\ pending = 0
    /\ cancelled = FALSE /\ expired = FALSE
    /\ pc = [w \in Workers |-> "none"]
    /\ attempt = [w \in Workers |-> 0]
    /\ failed = [w \in Workers |-> FALSE]
    /\ responses = [b \in Batches |-> [id \in {} |-> {}]]
    /\ success = [b \in Batches |-> 0] /\ failure = [b \in Batches |-> 0]

----
(* Building the batches *)

HasId(b, id) == \E i \in DOMAIN requests[b] : requests[b][i] = id

AssignedId(b, id) == IF id = Unnamed THEN Len(requests[b]) ELSE id

\* A plausible slip: the loop that looks for a duplicate ID is missing.
AcceptsAny(b, id) == Len(requests[b]) < MaxBatchSize

Accepts(b, id) == Len(requests[b]) < MaxBatchSize /\ ~HasId(b, id)

Add(b, id) ==
    /\ main = "building"
    /\ Accepts(b, AssignedId(b, id))
    /\ requests' = [requests EXCEPT ![b] = Append(@, AssignedId(b, id))]
    /\ UNCHANGED <<configVars, mainVars, sem, pending, contextVars, workerVars, resultVars>>

Clear(b) ==
    /\ main = "building"
    /\ requests' = [requests EXCEPT ![b] = <<>>]
    /\ UNCHANGED <<configVars, mainVars, sem, pending, contextVars, workerVars, resultVars>>

----
(* The main goroutine *)

ContextDone == cancelled \/ expired
Placing == main = "placing" /\ next <= Len(requests[current])

Execute ==
    /\ main = "building"
    /\ main' = "placing"
    /\ UNCHANGED <<configVars, requests, current, next, sem, pending, contextVars,
                   workerVars, resultVars>>

\* result.Responses[request.ID] and the counter, under the mutex.
SetResult(b, i, error) ==
    LET id == requests[b][i]
    IN  responses' = [responses EXCEPT ![b] =
            [j \in DOMAIN @ \union {id} |->
                IF j = id THEN [of |-> i, error |-> error] ELSE @[j]]]

CountOne(b, error) ==
    /\ success' = IF error THEN success ELSE [success EXCEPT ![b] = @ + 1]
    /\ failure' = IF error THEN [failure EXCEPT ![b] = @ + 1] ELSE failure

\* A plausible slip: the semaphore is made one larger.
SlotOffByOne == sem <= MaxConcurrency

SlotFree == sem < MaxConcurrency

\* sem <- struct{}{}, waitGroup.Add(1) and go.
Place ==
    /\ Placing
    /\ SlotFree
    /\ sem' = sem + 1
    /\ pending' = pending + 1
    /\ pc' = [pc EXCEPT ![<<current, next>>] = "sending"]
    /\ next' = next + 1
    /\ UNCHANGED <<configVars, requests, main, current, contextVars, attempt, failed,
                   resultVars>>

\* handleContextCancellation: the select chose ctx.Done, maybe over a free slot.
Refuse ==
    /\ Placing
    /\ ContextDone
    /\ SetResult(current, next, TRUE)
    /\ CountOne(current, TRUE)
    /\ pc' = [pc EXCEPT ![<<current, next>>] = "refused"]
    /\ next' = next + 1
    /\ UNCHANGED <<configVars, requests, main, current, sem, pending, contextVars,
                   attempt, failed>>

AllPlaced ==
    /\ main = "placing"
    /\ next > Len(requests[current])
    /\ main' = "waiting"
    /\ UNCHANGED <<configVars, requests, current, next, sem, pending, contextVars,
                   workerVars, resultVars>>

\* A plausible slip: waiting for the results instead of the goroutines.
AllRecorded ==
    success[current] + failure[current] = Len(requests[current])

AllDone == pending = 0

TooManyFailures == failure[current] > success[current]

Verdict ==
    IF TooManyFailures /\ ~callback THEN "stopped"
    ELSE IF callback \/ current = Count THEN "returned"
    ELSE "placing"

\* Execute returns, and the pipeline goes on to the next batch or ends.
Return ==
    /\ main = "waiting"
    /\ AllDone
    /\ main' = Verdict
    /\ IF main' = "placing"
       THEN /\ current' = current + 1
            /\ next' = 1
            /\ sem' = 0
            /\ pending' = 0
            /\ expired' = FALSE
       ELSE UNCHANGED <<current, next, sem, pending, expired>>
    /\ UNCHANGED <<configVars, requests, cancelled, workerVars, resultVars>>

----
(* The workers *)

Step(w, from, to) == pc[w] = from /\ pc' = [pc EXCEPT ![w] = to]

NoAnswer == [status |-> 0, wellFormed |-> FALSE]

\* What a call of the HTTP client comes to. A body that is empty or JSON is well
\* formed; a transport error brings none, and neither does a request that cannot
\* be built.
Replies == [status : Statuses, wellFormed : BOOLEAN] \union {NoAnswer}

IsRetryable(status) == status >= 500 \/ status = 429 \/ status = 408

TriesAgain(w, reply) ==
    ~reply.wellFormed /\ IsRetryable(reply.status) /\ attempt[w] < MaxRetries

\* executeWithRetry returns a response.
Bring(w, error) ==
    /\ failed' = [failed EXCEPT ![w] = error]
    /\ attempt' = [attempt EXCEPT ![w] = 0]

Answer(w) ==
    \E reply \in Replies :
        /\ Step(w, "sending", IF TriesAgain(w, reply) THEN "backoff" ELSE "answered")
        /\ IF TriesAgain(w, reply)
           THEN attempt' = [attempt EXCEPT ![w] = @ + 1] /\ UNCHANGED failed
           ELSE Bring(w, ~reply.wellFormed)
        /\ UNCHANGED <<configVars, requests, mainVars, sem, pending, contextVars,
                       resultVars>>

BackoffElapsed(w) ==
    /\ Step(w, "backoff", "sending")
    /\ UNCHANGED <<configVars, requests, mainVars, sem, pending, contextVars,
                   attempt, failed, resultVars>>

BackoffCancelled(w) ==
    /\ ContextDone
    /\ Step(w, "backoff", "answered")
    /\ Bring(w, TRUE)
    /\ UNCHANGED <<configVars, requests, mainVars, sem, pending, contextVars,
                   resultVars>>

Record(w) ==
    /\ Step(w, "answered", IF callback THEN "calling" ELSE "leaving")
    /\ SetResult(w[1], w[2], failed[w])
    /\ CountOne(w[1], failed[w])
    /\ failed' = [failed EXCEPT ![w] = FALSE]
    /\ UNCHANGED <<configVars, requests, mainVars, sem, pending, contextVars,
                   attempt>>

CallbackReturns(w) ==
    /\ Step(w, "calling", "leaving")
    /\ UNCHANGED <<configVars, requests, mainVars, sem, pending, contextVars,
                   attempt, failed, resultVars>>

\* A plausible slip: only a request that succeeded gives its slot back.
ReleaseOnSuccess(w) ==
    /\ Step(w, "leaving", "released")
    /\ sem' = IF responses[w[1]][requests[w[1]][w[2]]].error THEN sem ELSE sem - 1
    /\ UNCHANGED <<configVars, requests, mainVars, pending, contextVars,
                   attempt, failed, resultVars>>

\* The deferred calls run last to first: the slot, then the wait group.
Release(w) ==
    /\ Step(w, "leaving", "released")
    /\ sem' = sem - 1
    /\ UNCHANGED <<configVars, requests, mainVars, pending, contextVars,
                   attempt, failed, resultVars>>

Done(w) ==
    /\ Step(w, "released", "done")
    /\ pending' = pending - 1
    /\ UNCHANGED <<configVars, requests, mainVars, sem, contextVars,
                   attempt, failed, resultVars>>

----
(* The contexts *)

Executing == main \in {"placing", "waiting"}
Ended == main \in {"returned", "stopped"}

CancelContext ==
    /\ ~cancelled /\ ~Ended
    /\ cancelled' = TRUE
    /\ UNCHANGED <<configVars, requests, mainVars, sem, pending, expired,
                   workerVars, resultVars>>

Expire ==
    /\ timed /\ Executing /\ ~expired
    /\ expired' = TRUE
    /\ UNCHANGED <<configVars, requests, mainVars, sem, pending, cancelled,
                   workerVars, resultVars>>

Main == Execute \/ Place \/ Refuse \/ AllPlaced \/ Return

\* What a worker does without the server.
OwnStep(w) ==
    \/ BackoffElapsed(w) \/ BackoffCancelled(w)
    \/ Record(w) \/ CallbackReturns(w) \/ Release(w) \/ Done(w)

\* The program is done with the pipeline.
Finished == Ended /\ UNCHANGED vars

Next ==
    \/ \E o \in Offers : Add(o[1], o[2])
    \/ \E b \in Batches : Clear(b)
    \/ Main
    \/ \E w \in Workers : Answer(w) \/ OwnStep(w)
    \/ CancelContext \/ Expire
    \/ Finished

\* A plausible slip: requests get the caller's context, without the timeout.
AnsweredInCaller(w) == cancelled /\ Answer(w)

\* The HTTP client gives up once the context of the request is done.
AnsweredInTime(w) == ContextDone /\ Answer(w)

\* Goroutines are scheduled, the timeout and backoff timers fire, callbacks
\* return. Nothing obliges the server to answer.
Fairness ==
    /\ WF_vars(Executing /\ Main)
    /\ \A w \in Workers : WF_vars(OwnStep(w)) /\ WF_vars(AnsweredInTime(w))
    /\ WF_vars(Expire)

Spec == Init /\ [][Next]_vars /\ Fairness

----
InSlot == {w \in Workers :
              pc[w] \in {"sending", "backoff", "answered", "calling", "leaving"}}

\* No more than MaxConcurrency requests or callbacks run at once, however
\* retries, backoffs and cancellations fall (batch.go:216-234): a worker keeps
\* its slot over all its attempts.
ConcurrencyBound == Cardinality(InSlot) <= MaxConcurrency

WithError(b, e) == {id \in DOMAIN responses[b] : responses[b][id].error = e}

Resolved == {"calling", "leaving", "released", "done", "refused"}

\* At every moment each resolved request has its own entry in its batch's
\* Responses and the counters tell how many of these have an Error
\* (batch.go:261-294), whoever wrote them: workers or the main goroutine.
Accounted ==
    \A b \in Batches :
        /\ success[b] = Cardinality(WithError(b, FALSE))
        /\ failure[b] = Cardinality(WithError(b, TRUE))
        /\ \A i \in 1 .. MaxBatchSize : pc[b, i] \in Resolved =>
              /\ requests[b][i] \in DOMAIN responses[b]
              /\ responses[b][requests[b][i]].of = i

\* Execute returns no earlier than every request of its batch has its response
\* and every goroutine and callback is over (batch.go:237); the next batch of a
\* pipeline starts after that, and only if the one before did not fail more
\* often than not (batch.go:479-490).
OneAfterTheOther ==
    \A b \in Batches :
        b < current \/ (b = current /\ Ended) =>
            /\ \A i \in 1 .. Len(requests[b]) : pc[b, i] \in {"done", "refused"}
            /\ b < current => failure[b] <= success[b]

\* With a timeout, Execute returns whether the server answers or not; without one
\* it returns if every request is answered in the end: no slot is lost, nobody
\* waits for a worker that has gone (batch.go:227-237).
ExecuteReturns ==
    /\ timed /\ Executing ~> Ended
    /\ (\A w \in Workers : []<>(pc[w] # "sending")) => (Executing ~> Ended)
====
