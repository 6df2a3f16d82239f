---- MODULE BatchExecutorProofs ----
(*****************************************************************************)
(* Proofs about BatchExecutor for any batches, IDs, limits and status codes: *)
(* types, the bound on concurrency, the accounts of the results, the order   *)
(* of the batches, whom Execute waits for and how many steps it takes.       *)
(*****************************************************************************)
EXTENDS BatchExecutor, FiniteSetTheorems, SequenceTheorems, TLAPS

SlotPlaces == {"sending", "backoff", "answered", "calling", "leaving"}

\* Workers whose goroutine is not over.
Running == {w \in Workers : pc[w] \in SlotPlaces \union {"released"}}

\* The semaphore counts the workers in a slot, the wait group those running.
CountInv ==
    /\ sem = Cardinality(InSlot)
    /\ pending = Cardinality(Running)
    /\ pending < next

\* Exactly the requests before next, in this batch or an earlier one, are placed.
PlaceInv ==
    /\ main = "building" => current = 1 /\ next = 1
    /\ main \in {"waiting", "returned", "stopped"} => next > Len(requests[current])
    /\ \A w \in Workers :
        /\ pc[w] # "none" => /\ w[2] <= Len(requests[w[1]])
                             /\ w[1] <= current
                             /\ w[1] = current => w[2] < next
        /\ w[1] = current /\ w[2] < next => pc[w] # "none"
        /\ w[1] < current /\ w[2] <= Len(requests[w[1]]) => pc[w] # "none"

\* Earlier batches are over, and did not fail more often than not.
OrderInv ==
    /\ \A w \in Running : w[1] = current /\ ~Ended
    /\ \A b \in Batches : b < current => failure[b] <= success[b]

UniqueIds ==
    \A b \in Batches : \A i, j \in DOMAIN requests[b] :
        requests[b][i] = requests[b][j] => i = j

\* Responses holds an entry for each resolved request and for no other.
AccountInv ==
    \A b \in Batches :
        /\ IsFiniteSet(DOMAIN responses[b])
        /\ success[b] = Cardinality(WithError(b, FALSE))
        /\ failure[b] = Cardinality(WithError(b, TRUE))
        /\ \A i \in 1 .. MaxBatchSize : pc[<<b, i>>] \in Resolved =>
              /\ requests[b][i] \in DOMAIN responses[b]
              /\ responses[b][requests[b][i]].of = i
        /\ \A id \in DOMAIN responses[b] : \E i \in 1 .. MaxBatchSize :
              pc[<<b, i>>] \in Resolved /\ requests[b][i] = id

IInv == TypeOK /\ CountInv /\ PlaceInv /\ OrderInv /\ UniqueIds /\ AccountInv

----
(* Sets of workers *)

LEMMA FiniteWorkers == IsFiniteSet(Workers)
PROOF
<1>1. Count \in Int /\ MaxBatchSize \in Int
  BY CountAssumption, SizeAssumption, SMT
<1>2. IsFiniteSet(1 .. Count) /\ IsFiniteSet(1 .. MaxBatchSize)
  BY <1>1, FS_Interval, 1 \in Int, Zenon
<1>. QED  BY <1>2, FS_Product, Zenon DEF Workers, Batches

LEMMA FiniteSubsets == IsFiniteSet(InSlot) /\ IsFiniteSet(Running)
PROOF
<1>1. InSlot \subseteq Workers /\ Running \subseteq Workers
  BY Zenon DEF InSlot, Running
<1>. QED  BY <1>1, FiniteWorkers, FS_Subset, Zenon

LEMMA Entering ==
  ASSUME NEW S, IsFiniteSet(S), NEW x, x \notin S
  PROVE  Cardinality(S \union {x}) = Cardinality(S) + 1 /\ Cardinality(S) \in Nat
PROOF
<1>1. Cardinality(S) \in Nat
  BY FS_CardinalityType, Zenon
<1>2. Cardinality(S \union {x}) = IF x \in S THEN Cardinality(S) ELSE Cardinality(S) + 1
  BY FS_AddElement, Zenon
<1>. QED  BY <1>1, <1>2, Zenon

LEMMA Leaving ==
  ASSUME NEW S, IsFiniteSet(S), NEW x \in S
  PROVE  /\ Cardinality(S) - 1 \in Nat /\ Cardinality(S) \in Nat
         /\ Cardinality(S \ {x}) = Cardinality(S) - 1
PROOF
<1>1. IsFiniteSet(S \ {x})
  BY FS_Subset, S \ {x} \subseteq S, Zenon
<1>2. x \notin S \ {x} /\ (S \ {x}) \union {x} = S
  BY Zenon
<1>3. Cardinality(S) = Cardinality(S \ {x}) + 1 /\ Cardinality(S \ {x}) \in Nat
  BY <1>1, <1>2, Entering, Zenon
<1>. QED  BY <1>3, SMT

\* A worker that moves, and what that does to the sets.
Moves(w, from, to) == pc[w] = from /\ pc' = [pc EXCEPT ![w] = to]

LEMMA Moving ==
  ASSUME TypeOK, NEW w \in Workers, NEW from, NEW to \in Places, Moves(w, from, to)
  PROVE  /\ pc' \in [Workers -> Places]
         /\ pc'[w] = to
         /\ \A v \in Workers \ {w} : pc'[v] = pc[v]
         /\ from \in SlotPlaces /\ to \in SlotPlaces =>
                InSlot' = InSlot /\ Running' = Running
         /\ from = "none" /\ to = "refused" => InSlot' = InSlot /\ Running' = Running
         /\ from = "none" /\ to = "sending" =>
                /\ w \notin InSlot /\ InSlot' = InSlot \union {w}
                /\ w \notin Running /\ Running' = Running \union {w}
         /\ from = "leaving" /\ to = "released" =>
                /\ w \in InSlot /\ InSlot' = InSlot \ {w}
                /\ Running' = Running
         /\ from = "released" /\ to = "done" =>
                /\ InSlot' = InSlot
                /\ w \in Running /\ Running' = Running \ {w}
PROOF
<1>1. pc \in [Workers -> Places]
  BY Zenon DEF TypeOK
<1>2. pc[w] = from /\ pc' = [pc EXCEPT ![w] = to]
  BY Zenon DEF Moves
<1>3. /\ pc' \in [Workers -> Places]
      /\ pc'[w] = to
      /\ \A v \in Workers \ {w} : pc'[v] = pc[v]
  BY <1>1, <1>2, SMT
<1>4. ASSUME from \in SlotPlaces, to \in SlotPlaces
      PROVE  InSlot' = InSlot /\ Running' = Running
  BY <1>2, <1>3, <1>4, SMT DEF InSlot, Running, SlotPlaces
<1>5. ASSUME from = "none", to = "refused"
      PROVE  InSlot' = InSlot /\ Running' = Running
  BY <1>2, <1>3, <1>5, SMT DEF InSlot, Running, SlotPlaces
<1>6. ASSUME from = "none", to = "sending"
      PROVE  /\ w \notin InSlot /\ InSlot' = InSlot \union {w}
             /\ w \notin Running /\ Running' = Running \union {w}
  BY <1>2, <1>3, <1>6, SMT DEF InSlot, Running, SlotPlaces
<1>7. ASSUME from = "leaving", to = "released"
      PROVE  w \in InSlot /\ InSlot' = InSlot \ {w} /\ Running' = Running
  BY <1>2, <1>3, <1>7, SMT DEF InSlot, Running, SlotPlaces
<1>8. ASSUME from = "released", to = "done"
      PROVE  InSlot' = InSlot /\ w \in Running /\ Running' = Running \ {w}
  BY <1>2, <1>3, <1>8, SMT DEF InSlot, Running, SlotPlaces
<1>. QED  BY <1>3, <1>4, <1>5, <1>6, <1>7, <1>8

----
(* Types, in parts *)

RequestsOK ==
    /\ requests \in [Batches -> Seq(Ids)]
    /\ \A b \in Batches : Len(requests[b]) <= MaxBatchSize

MainOK ==
    /\ main \in {"building", "placing", "waiting", "returned", "stopped"}
    /\ current \in Batches
    /\ next \in 1 .. MaxBatchSize + 1

SemOK == sem \in 0 .. MaxConcurrency
PendingOK == pending \in 0 .. MaxBatchSize
FlagsOK == timed \in BOOLEAN /\ callback \in BOOLEAN /\ cancelled \in BOOLEAN /\ expired \in BOOLEAN
PcOK == pc \in [Workers -> Places]
AttemptOK == attempt \in [Workers -> 0 .. MaxRetries]
FailedOK == failed \in [Workers -> BOOLEAN]

ResultsOK ==
    /\ DOMAIN responses = Batches
    /\ \A b \in Batches : responses[b] \in [DOMAIN responses[b] -> Response]
    /\ success \in [Batches -> Nat] /\ failure \in [Batches -> Nat]

LEMMA TypeParts ==
  TypeOK <=> /\ RequestsOK /\ MainOK /\ SemOK /\ PendingOK /\ FlagsOK
             /\ PcOK /\ AttemptOK /\ FailedOK /\ ResultsOK
PROOF
  BY Zenon DEF TypeOK, RequestsOK, MainOK, SemOK, PendingOK, FlagsOK, PcOK, AttemptOK,
     FailedOK, ResultsOK

LEMMA TypePartsNext ==
  ASSUME RequestsOK', MainOK', SemOK', PendingOK', FlagsOK', PcOK', AttemptOK', FailedOK',
         ResultsOK'
  PROVE  TypeOK'
PROOF
  BY Zenon DEF TypeOK, RequestsOK, MainOK, SemOK, PendingOK, FlagsOK, PcOK, AttemptOK,
     FailedOK, ResultsOK

LEMMA Kept ==
  ASSUME TypeOK
  PROVE  /\ UNCHANGED requests => RequestsOK'
         /\ UNCHANGED mainVars => MainOK'
         /\ UNCHANGED sem => SemOK'
         /\ UNCHANGED pending => PendingOK'
         /\ UNCHANGED <<configVars, contextVars>> => FlagsOK'
         /\ UNCHANGED pc => PcOK'
         /\ UNCHANGED attempt => AttemptOK'
         /\ UNCHANGED failed => FailedOK'
         /\ UNCHANGED resultVars => ResultsOK'
PROOF
<1>1. UNCHANGED resultVars => ResultsOK'
  <2>. SUFFICES ASSUME UNCHANGED resultVars  PROVE ResultsOK'
    OBVIOUS
  <2>1. responses' = responses /\ success' = success /\ failure' = failure
    BY Zenon DEF resultVars
  <2>. QED  BY <2>1, TypeParts, Zenon DEF ResultsOK
<1>2. UNCHANGED requests => RequestsOK'
  BY TypeParts, Zenon DEF RequestsOK
<1>3. UNCHANGED mainVars => MainOK'
  BY TypeParts, Zenon DEF MainOK, mainVars
<1>4. UNCHANGED <<configVars, contextVars>> => FlagsOK'
  BY TypeParts, Zenon DEF FlagsOK, configVars, contextVars
<1>. QED  BY <1>1, <1>2, <1>3, <1>4, TypeParts, Zenon
       DEF SemOK, PendingOK, PcOK, AttemptOK, FailedOK

\* The result of request i of batch b is set and counted.
LEMMA Setting ==
  ASSUME TypeOK, NEW b \in Batches, NEW i \in 1 .. MaxBatchSize, NEW error \in BOOLEAN,
         SetResult(b, i, error), CountOne(b, error)
  PROVE  /\ ResultsOK'
         /\ DOMAIN responses'[b] = DOMAIN responses[b] \union {requests[b][i]}
         /\ responses'[b][requests[b][i]] = [of |-> i, error |-> error]
         /\ \A id \in DOMAIN responses[b] :
                id # requests[b][i] => responses'[b][id] = responses[b][id]
         /\ \A c \in Batches \ {b} : responses'[c] = responses[c]
PROOF
<1>. DEFINE id == requests[b][i]
<1>1. /\ DOMAIN responses = Batches
      /\ \A c \in Batches : responses[c] \in [DOMAIN responses[c] -> Response]
  BY TypeParts, Zenon DEF ResultsOK
<1>2. responses' = [responses EXCEPT ![b] =
            [j \in DOMAIN responses[b] \union {id} |->
                IF j = id THEN [of |-> i, error |-> error] ELSE responses[b][j]]]
  BY <1>1, Zenon DEF SetResult
<1>3. /\ DOMAIN responses' = Batches
      /\ responses'[b] = [j \in DOMAIN responses[b] \union {id} |->
                IF j = id THEN [of |-> i, error |-> error] ELSE responses[b][j]]
      /\ \A c \in Batches \ {b} : responses'[c] = responses[c]
  BY <1>1, <1>2, SMT
<1>4. /\ DOMAIN responses'[b] = DOMAIN responses[b] \union {id}
      /\ responses'[b][id] = [of |-> i, error |-> error]
      /\ \A j \in DOMAIN responses[b] : j # id => responses'[b][j] = responses[b][j]
  BY <1>3, SMT
<1>5. i \in Nat
  BY SizeAssumption, SMT
<1>6. [of |-> i, error |-> error] \in Response
  BY <1>5, Zenon DEF Response
<1>7. \A c \in Batches : responses'[c] \in [DOMAIN responses'[c] -> Response]
  <2>1. responses'[b] \in [DOMAIN responses[b] \union {id} -> Response]
    BY <1>1, <1>3, <1>6, SMT
  <2>. QED  BY <1>1, <1>3, <1>4, <2>1, Zenon
<1>8. success' \in [Batches -> Nat] /\ failure' \in [Batches -> Nat]
  <2>1. success \in [Batches -> Nat] /\ failure \in [Batches -> Nat]
    BY TypeParts, Zenon DEF ResultsOK
  <2>2. CASE error = TRUE
    BY <2>1, <2>2, SMT DEF CountOne
  <2>3. CASE error = FALSE
    BY <2>1, <2>3, SMT DEF CountOne
  <2>. QED  BY <2>2, <2>3
<1>. QED  BY <1>3, <1>4, <1>7, <1>8, Zenon DEF ResultsOK

----
(* What kinds of steps change *)

LEMMA WorkerMoves ==
  ASSUME TypeOK, NEW w \in Workers, Answer(w) \/ OwnStep(w)
  PROVE  /\ UNCHANGED <<configVars, requests, mainVars, contextVars>>
         /\ \/ /\ \E from \in {"sending", "backoff"}, to \in {"sending", "backoff", "answered"} :
                    Moves(w, from, to)
               /\ UNCHANGED <<sem, pending, resultVars>>
            \/ /\ \E to \in {"calling", "leaving"} : Moves(w, "answered", to)
               /\ SetResult(w[1], w[2], failed[w]) /\ CountOne(w[1], failed[w])
               /\ UNCHANGED <<sem, pending>>
            \/ Moves(w, "calling", "leaving") /\ UNCHANGED <<sem, pending, resultVars>>
            \/ Moves(w, "leaving", "released") /\ sem' = sem - 1 /\ UNCHANGED <<pending, resultVars>>
            \/ Moves(w, "released", "done") /\ pending' = pending - 1 /\ UNCHANGED <<sem, resultVars>>
PROOF
<1>1. CASE Answer(w)
  <2>1. PICK reply \in Replies :
           Step(w, "sending", IF TriesAgain(w, reply) THEN "backoff" ELSE "answered")
    BY <1>1, Zenon DEF Answer
  <2>2. \E to \in {"sending", "backoff", "answered"} : Moves(w, "sending", to)
    BY <2>1, Zenon DEF Moves, Step
  <2>3. UNCHANGED <<configVars, requests, mainVars, contextVars, sem, pending, resultVars>>
    BY <1>1, Zenon DEF Answer
  <2>. QED  BY <2>2, <2>3, Zenon
<1>2. CASE BackoffElapsed(w)
  BY <1>2, Zenon DEF BackoffElapsed, Step, Moves
<1>3. CASE BackoffCancelled(w)
  BY <1>3, Zenon DEF BackoffCancelled, Step, Moves
<1>4. CASE Record(w)
  <2>1. \E to \in {"calling", "leaving"} : Moves(w, "answered", to)
    BY <1>4, Zenon DEF Record, Step, Moves
  <2>. QED  BY <1>4, <2>1, Zenon DEF Record
<1>5. CASE CallbackReturns(w)
  BY <1>5, Zenon DEF CallbackReturns, Step, Moves
<1>6. CASE Release(w)
  BY <1>6, Zenon DEF Release, Step, Moves
<1>7. CASE Done(w)
  BY <1>7, Zenon DEF Done, Step, Moves
<1>. QED  BY <1>1, <1>2, <1>3, <1>4, <1>5, <1>6, <1>7, Zenon DEF OwnStep

LEMMA WorkerPair ==
  ASSUME NEW w \in Workers
  PROVE  w[1] \in Batches /\ w[2] \in 1 .. MaxBatchSize /\ w = <<w[1], w[2]>>
PROOF
  BY SMT DEF Workers

LEMMA Sizes ==
  ASSUME TypeOK
  PROVE  /\ \A b \in Batches : Len(requests[b]) \in Nat /\ Len(requests[b]) <= MaxBatchSize
         /\ current \in Batches /\ current \in Nat /\ next \in Nat
         /\ MaxBatchSize \in Nat /\ Count \in Nat /\ MaxConcurrency \in Nat /\ MaxRetries \in Nat
PROOF
<1>1. \A b \in Batches : requests[b] \in Seq(Ids) /\ Len(requests[b]) <= MaxBatchSize
  BY TypeParts, Zenon DEF RequestsOK
<1>2. \A b \in Batches : Len(requests[b]) \in Nat
  BY <1>1, LenProperties, Zenon
<1>. QED  BY <1>1, <1>2, TypeParts, CountAssumption, SizeAssumption, ConcurrencyAssumption,
            RetriesAssumption, SMT DEF MainOK, Batches

\* The worker of the request that is to be placed.
LEMMA Placed ==
  ASSUME TypeOK, PlaceInv, Placing
  PROVE  /\ <<current, next>> \in Workers /\ next \in 1 .. MaxBatchSize
         /\ pc[<<current, next>>] = "none"
         /\ main = "placing" /\ next <= Len(requests[current])
PROOF
<1>1. current \in Batches /\ next \in 1 .. MaxBatchSize
  BY Sizes, TypeParts, SMT DEF MainOK, Placing
<1>2. <<current, next>> \in Workers
  BY <1>1, Zenon DEF Workers
<1>3. <<current, next>>[1] = current /\ <<current, next>>[2] = next
  OBVIOUS
<1>4. pc[<<current, next>>] # "none" => next < next
  BY <1>2, <1>3, Zenon DEF PlaceInv
<1>5. ~(next < next)
  BY Sizes, SMT
<1>. QED  BY <1>1, <1>2, <1>4, <1>5, Zenon DEF Placing

\* When Execute returns, no goroutine of it is left.
LEMMA Over ==
  ASSUME TypeOK, CountInv, AllDone
  PROVE  Running = {} /\ InSlot = {}
PROOF
<1>1. Running = {}
  BY FiniteSubsets, FS_EmptySet, Zenon DEF CountInv, AllDone
<1>2. InSlot \subseteq Running
  BY Zenon DEF InSlot, Running, SlotPlaces
<1>. QED  BY <1>1, <1>2

\* The two ways Return goes on.
LEMMA Returning ==
  ASSUME TypeOK, Return
  PROVE  /\ main = "waiting" /\ AllDone
         /\ UNCHANGED <<configVars, requests, cancelled, workerVars, resultVars>>
         /\ \/ /\ main' = "placing" /\ current # Count /\ current' = current + 1 /\ next' = 1
               /\ failure[current] <= success[current]
               /\ sem' = 0 /\ pending' = 0 /\ expired' = FALSE
            \/ /\ main' \in {"returned", "stopped"}
               /\ UNCHANGED <<current, next, sem, pending, expired>>
PROOF
<1>1. success[current] \in Nat /\ failure[current] \in Nat
  BY Sizes, TypeParts, Zenon DEF ResultsOK
<1>2. main' = Verdict
  BY Zenon DEF Return
<1>3. CASE main' = "placing"
  <2>1. current # Count /\ ~TooManyFailures
    BY <1>2, <1>3, SMT DEF Verdict
  <2>2. failure[current] <= success[current]
    BY <1>1, <2>1, SMT DEF TooManyFailures
  <2>. QED  BY <1>3, <2>1, <2>2, Zenon DEF Return
<1>4. CASE main' # "placing"
  <2>1. main' \in {"returned", "stopped"}
    BY <1>2, <1>4, Zenon DEF Verdict
  <2>. QED  BY <1>4, <2>1, Zenon DEF Return
<1>. QED  BY <1>3, <1>4

----
(* Types are kept *)

LEMMA AnswerTypes ==
  ASSUME TypeOK, NEW w \in Workers, Answer(w)
  PROVE  TypeOK'
PROOF
<1>1. PICK reply \in Replies :
        /\ Step(w, "sending", IF TriesAgain(w, reply) THEN "backoff" ELSE "answered")
        /\ IF TriesAgain(w, reply)
           THEN attempt' = [attempt EXCEPT ![w] = @ + 1] /\ UNCHANGED failed
           ELSE Bring(w, ~reply.wellFormed)
  BY Zenon DEF Answer
<1>2. UNCHANGED <<configVars, requests, mainVars, sem, pending, contextVars, resultVars>>
  BY Zenon DEF Answer
<1>3. PcOK'
  BY <1>1, TypeParts, SMT DEF Step, PcOK, Places
<1>4. attempt \in [Workers -> 0 .. MaxRetries] /\ MaxRetries \in Nat
  BY TypeParts, RetriesAssumption, Zenon DEF AttemptOK
<1>5. AttemptOK'
  <2>1. CASE TriesAgain(w, reply)
    BY <1>1, <1>4, <2>1, SMT DEF TriesAgain, AttemptOK
  <2>2. CASE ~TriesAgain(w, reply)
    BY <1>1, <1>4, <2>2, SMT DEF Bring, AttemptOK
  <2>. QED  BY <2>1, <2>2
<1>6. FailedOK'
  <2>0. failed \in [Workers -> BOOLEAN]
    BY TypeParts, Zenon DEF FailedOK
  <2>1. CASE TriesAgain(w, reply)
    BY <1>1, <2>0, <2>1, Zenon DEF FailedOK
  <2>2. CASE ~TriesAgain(w, reply)
    <3>1. failed' = [failed EXCEPT ![w] = ~reply.wellFormed]
      BY <1>1, <2>2, Zenon DEF Bring
    <3>2. (~reply.wellFormed) \in BOOLEAN
      OBVIOUS
    <3>. QED  BY <2>0, <3>1, <3>2, Zenon DEF FailedOK
  <2>. QED  BY <2>1, <2>2
<1>. QED  BY <1>2, <1>3, <1>5, <1>6, Kept, TypePartsNext, Zenon

LEMMA OwnTypes ==
  ASSUME TypeOK, CountInv, NEW w \in Workers, OwnStep(w)
  PROVE  TypeOK'
PROOF
<1>0. /\ failed \in [Workers -> BOOLEAN] /\ attempt \in [Workers -> 0 .. MaxRetries]
      /\ MaxRetries \in Nat
  BY TypeParts, RetriesAssumption, Zenon DEF FailedOK, AttemptOK
<1>1. UNCHANGED <<configVars, requests, mainVars, contextVars>> /\ PcOK'
  <2>1. pc' \in [Workers -> Places]
    <3>1. PICK from, to \in Places : Moves(w, from, to)
      BY WorkerMoves, Zenon DEF Places
    <3>. QED  BY <3>1, TypeParts, Zenon DEF Moves, PcOK
  <2>. QED  BY <2>1, WorkerMoves, Zenon DEF PcOK
<1>2. CASE BackoffElapsed(w)
  BY <1>1, <1>2, Kept, TypePartsNext, Zenon DEF BackoffElapsed
<1>3. CASE BackoffCancelled(w)
  <2>1. AttemptOK'
    BY <1>0, <1>3, SMT DEF BackoffCancelled, Bring, AttemptOK
  <2>2. FailedOK'
    BY <1>0, <1>3, Zenon DEF BackoffCancelled, Bring, FailedOK
  <2>. QED  BY <1>1, <1>3, <2>1, <2>2, Kept, TypePartsNext, Zenon DEF BackoffCancelled
<1>4. CASE Record(w)
  <2>1. failed[w] \in BOOLEAN /\ w[1] \in Batches /\ w[2] \in 1 .. MaxBatchSize
    BY <1>0, WorkerPair, Zenon
  <2>2. ResultsOK'
    BY <1>4, <2>1, Setting, Zenon DEF Record
  <2>3. FailedOK'
    BY <1>0, <1>4, Zenon DEF Record, FailedOK
  <2>. QED  BY <1>1, <1>4, <2>2, <2>3, Kept, TypePartsNext, Zenon DEF Record
<1>5. CASE CallbackReturns(w)
  BY <1>1, <1>5, Kept, TypePartsNext, Zenon DEF CallbackReturns
<1>6. CASE Release(w)
  <2>1. Moves(w, "leaving", "released") /\ sem' = sem - 1
    BY <1>6, Zenon DEF Release, Step, Moves
  <2>2. w \in InSlot
    BY <2>1, Zenon DEF Moves, InSlot
  <2>3. sem - 1 \in Nat /\ sem \in Nat
    BY <2>2, FiniteSubsets, Leaving, Zenon DEF CountInv
  <2>4. sem <= MaxConcurrency
    BY TypeParts, ConcurrencyAssumption, SMT DEF SemOK
  <2>5. SemOK'
    BY <2>1, <2>3, <2>4, ConcurrencyAssumption, SMT DEF SemOK
  <2>. QED  BY <1>1, <1>6, <2>5, Kept, TypePartsNext, Zenon DEF Release
<1>7. CASE Done(w)
  <2>1. Moves(w, "released", "done") /\ pending' = pending - 1
    BY <1>7, Zenon DEF Done, Step, Moves
  <2>2. w \in Running
    BY <2>1, Zenon DEF Moves, Running
  <2>3. pending - 1 \in Nat /\ pending \in Nat
    BY <2>2, FiniteSubsets, Leaving, Zenon DEF CountInv
  <2>4. pending <= MaxBatchSize
    BY TypeParts, SizeAssumption, SMT DEF PendingOK
  <2>5. PendingOK'
    BY <2>1, <2>3, <2>4, SizeAssumption, SMT DEF PendingOK
  <2>. QED  BY <1>1, <1>7, <2>5, Kept, TypePartsNext, Zenon DEF Done
<1>. QED  BY <1>2, <1>3, <1>4, <1>5, <1>6, <1>7, Zenon DEF OwnStep

LEMMA BuildTypes ==
  ASSUME TypeOK, NEW b \in Batches,
         Clear(b) \/ \E id \in Names \union {Unnamed} : Add(b, id)
  PROVE  TypeOK'
PROOF
<1>1. requests[b] \in Seq(Ids) /\ Len(requests[b]) \in Nat /\ requests \in [Batches -> Seq(Ids)]
  BY Sizes, TypeParts, Zenon DEF RequestsOK
<1>2. CASE Clear(b)
  <2>1. RequestsOK'
    BY <1>2, TypeParts, SizeAssumption, SMT DEF Clear, RequestsOK
  <2>. QED  BY <1>2, <2>1, Kept, TypePartsNext, Zenon DEF Clear, workerVars
<1>3. ASSUME NEW id \in Names \union {Unnamed}, Add(b, id)  PROVE TypeOK'
  <2>1. Len(requests[b]) < MaxBatchSize /\ MaxBatchSize \in Nat
    BY <1>3, SizeAssumption, Zenon DEF Add, Accepts
  <2>2. Len(requests[b]) \in 0 .. MaxBatchSize
    BY <1>1, <2>1, SMT
  <2>3. AssignedId(b, id) \in Ids
    BY <2>2, Zenon DEF AssignedId, Ids
  <2>4. requests' = [requests EXCEPT ![b] = Append(requests[b], AssignedId(b, id))]
    BY <1>3, <1>1, SMT DEF Add
  <2>5. /\ Append(requests[b], AssignedId(b, id)) \in Seq(Ids)
        /\ Len(Append(requests[b], AssignedId(b, id))) = Len(requests[b]) + 1
    BY <1>1, <2>3, AppendProperties, Zenon
  <2>6. Len(Append(requests[b], AssignedId(b, id))) <= MaxBatchSize
    BY <1>1, <2>1, <2>5, SMT
  <2>7. RequestsOK'
    BY <1>1, <2>4, <2>5, <2>6, TypeParts, SMT DEF RequestsOK
  <2>. QED  BY <1>3, <2>7, Kept, TypePartsNext, Zenon DEF Add, workerVars
<1>. QED  BY <1>2, <1>3

LEMMA MainTypes ==
  ASSUME TypeOK, CountInv, PlaceInv, Main
  PROVE  TypeOK'
PROOF
<1>1. CASE Execute
  <2>1. MainOK'
    BY <1>1, TypeParts, SMT DEF Execute, MainOK
  <2>. QED  BY <1>1, <2>1, Kept, TypePartsNext, Zenon DEF Execute, workerVars
<1>2. CASE AllPlaced
  <2>1. MainOK'
    BY <1>2, TypeParts, SMT DEF AllPlaced, MainOK
  <2>. QED  BY <1>2, <2>1, Kept, TypePartsNext, Zenon DEF AllPlaced, workerVars
<1>3. CASE Place
  <2>1. /\ <<current, next>> \in Workers /\ next \in 1 .. MaxBatchSize
    BY <1>3, Placed, Zenon DEF Place
  <2>2. next' = next + 1 /\ UNCHANGED <<main, current>>
    BY <1>3, Zenon DEF Place
  <2>3. MainOK'
    BY <2>1, <2>2, TypeParts, SizeAssumption, SMT DEF MainOK
  <2>4. SemOK'
    BY <1>3, TypeParts, ConcurrencyAssumption, SMT DEF Place, SlotFree, SemOK
  <2>5. PendingOK'
    BY <1>3, <2>1, TypeParts, SizeAssumption, SMT DEF Place, PendingOK, CountInv
  <2>6. PcOK'
    BY <1>3, <2>1, TypeParts, SMT DEF Place, PcOK, Places
  <2>7. UNCHANGED <<configVars, requests, contextVars, attempt, failed, resultVars>>
    BY <1>3, Zenon DEF Place
  <2>. QED  BY <2>3, <2>4, <2>5, <2>6, <2>7, Kept, TypePartsNext, Zenon
<1>4. CASE Refuse
  <2>1. /\ <<current, next>> \in Workers /\ next \in 1 .. MaxBatchSize
    BY <1>4, Placed, Zenon DEF Refuse
  <2>2. next' = next + 1 /\ UNCHANGED <<main, current>>
    BY <1>4, Zenon DEF Refuse
  <2>3. MainOK'
    BY <2>1, <2>2, TypeParts, SizeAssumption, SMT DEF MainOK
  <2>4. PcOK'
    BY <1>4, <2>1, TypeParts, SMT DEF Refuse, PcOK, Places
  <2>5. ResultsOK'
    BY <1>4, <2>1, Sizes, Setting, Zenon DEF Refuse
  <2>6. UNCHANGED <<configVars, requests, sem, pending, contextVars, attempt, failed>>
    BY <1>4, Zenon DEF Refuse
  <2>. QED  BY <2>3, <2>4, <2>5, <2>6, Kept, TypePartsNext, Zenon
<1>5. CASE Return
  <2>1. UNCHANGED <<configVars, requests, cancelled, workerVars, resultVars>>
    BY <1>5, Returning, Zenon
  <2>2. MainOK' /\ SemOK' /\ PendingOK'
    <3>1. CASE /\ main' = "placing" /\ current # Count /\ current' = current + 1 /\ next' = 1
               /\ sem' = 0 /\ pending' = 0
      BY <3>1, Sizes, SMT DEF MainOK, SemOK, PendingOK, Batches
    <3>2. CASE main' \in {"returned", "stopped"} /\ UNCHANGED <<current, next, sem, pending>>
      BY <3>2, TypeParts, SMT DEF MainOK, SemOK, PendingOK
    <3>. QED  BY <1>5, <3>1, <3>2, Returning, Zenon
  <2>3. expired' \in BOOLEAN
    BY <1>5, Returning, TypeParts, Zenon DEF FlagsOK
  <2>4. FlagsOK'
    BY <2>1, <2>3, TypeParts, Zenon DEF FlagsOK, configVars
  <2>. QED  BY <2>1, <2>2, <2>4, Kept, TypePartsNext, Zenon DEF workerVars
<1>. QED  BY <1>1, <1>2, <1>3, <1>4, <1>5, Zenon DEF Main

LEMMA ContextTypes ==
  ASSUME TypeOK, CancelContext \/ Expire
  PROVE  TypeOK'
PROOF
<1>1. UNCHANGED <<configVars, requests, mainVars, sem, pending, workerVars, resultVars>>
  BY Zenon DEF CancelContext, Expire
<1>2. FlagsOK'
  BY TypeParts, Zenon DEF FlagsOK, CancelContext, Expire, configVars
<1>. QED  BY <1>1, <1>2, Kept, TypePartsNext, Zenon DEF workerVars

----
(* The counters *)

LEMMA CountStep ==
  ASSUME IInv, [Next]_vars
  PROVE  CountInv'
PROOF
<1>0. /\ TypeOK /\ PlaceInv /\ sem = Cardinality(InSlot) /\ pending = Cardinality(Running)
      /\ pending < next /\ next \in Nat
  BY Sizes, Zenon DEF IInv, CountInv
<1>1. pending \in Nat /\ sem \in Nat
  BY <1>0, FiniteSubsets, FS_CardinalityType, Zenon
<1>2. CASE UNCHANGED <<pc, sem, pending, next>>
  BY <1>0, <1>2, Zenon DEF CountInv, InSlot, Running
<1>3. ASSUME NEW w \in Workers, Answer(w) \/ OwnStep(w)  PROVE CountInv'
  <2>1. next' = next
    BY <1>0, <1>3, WorkerMoves, Zenon DEF mainVars
  <2>2. CASE /\ \E from, to \in SlotPlaces : Moves(w, from, to)
             /\ UNCHANGED <<sem, pending>>
    <3>1. PICK from, to \in SlotPlaces : Moves(w, from, to)
      BY <2>2, Zenon
    <3>2. InSlot' = InSlot /\ Running' = Running
      BY <1>0, <3>1, Moving, Zenon DEF SlotPlaces, Places
    <3>. QED  BY <1>0, <2>1, <2>2, <3>2, Zenon DEF CountInv
  <2>3. CASE Moves(w, "leaving", "released") /\ sem' = sem - 1 /\ UNCHANGED pending
    <3>1. w \in InSlot /\ InSlot' = InSlot \ {w} /\ Running' = Running
      BY <1>0, <2>3, Moving, Zenon DEF Places
    <3>2. Cardinality(InSlot \ {w}) = sem - 1
      BY <1>0, <3>1, FiniteSubsets, Leaving, Zenon
    <3>. QED  BY <1>0, <2>1, <2>3, <3>1, <3>2, Zenon DEF CountInv
  <2>4. CASE Moves(w, "released", "done") /\ pending' = pending - 1 /\ UNCHANGED sem
    <3>1. w \in Running /\ Running' = Running \ {w} /\ InSlot' = InSlot
      BY <1>0, <2>4, Moving, Zenon DEF Places
    <3>2. Cardinality(Running \ {w}) = pending - 1
      BY <1>0, <3>1, FiniteSubsets, Leaving, Zenon
    <3>3. pending - 1 < next
      BY <1>0, <1>1, SMT
    <3>. QED  BY <1>0, <2>1, <2>4, <3>1, <3>2, <3>3, Zenon DEF CountInv
  <2>. QED  BY <1>0, <1>3, <2>2, <2>3, <2>4, WorkerMoves, Zenon DEF SlotPlaces
<1>4. CASE Place
  <2>. DEFINE w == <<current, next>>
  <2>1. w \in Workers /\ pc[w] = "none"
    BY <1>0, <1>4, Placed, Zenon DEF Place
  <2>2. Moves(w, "none", "sending")
    BY <1>4, <2>1, Zenon DEF Place, Moves
  <2>3. /\ w \notin InSlot /\ InSlot' = InSlot \union {w}
        /\ w \notin Running /\ Running' = Running \union {w}
    BY <1>0, <2>1, <2>2, Moving, Zenon DEF Places
  <2>4. Cardinality(InSlot \union {w}) = sem + 1 /\ Cardinality(Running \union {w}) = pending + 1
    BY <1>0, <2>3, FiniteSubsets, Entering, Zenon
  <2>5. sem' = sem + 1 /\ pending' = pending + 1 /\ next' = next + 1
    BY <1>4, Zenon DEF Place
  <2>6. pending + 1 < next + 1
    BY <1>0, <1>1, SMT
  <2>. QED  BY <2>3, <2>4, <2>5, <2>6, Zenon DEF CountInv
<1>5. CASE Refuse
  <2>. DEFINE w == <<current, next>>
  <2>1. w \in Workers /\ pc[w] = "none"
    BY <1>0, <1>5, Placed, Zenon DEF Refuse
  <2>2. Moves(w, "none", "refused")
    BY <1>5, <2>1, Zenon DEF Refuse, Moves
  <2>3. InSlot' = InSlot /\ Running' = Running
    BY <1>0, <2>1, <2>2, Moving, Zenon DEF Places
  <2>4. UNCHANGED <<sem, pending>> /\ next' = next + 1
    BY <1>5, Zenon DEF Refuse
  <2>5. pending < next + 1
    BY <1>0, <1>1, SMT
  <2>. QED  BY <1>0, <2>3, <2>4, <2>5, Zenon DEF CountInv
<1>6. CASE Return
  <2>1. pc' = pc
    BY <1>0, <1>6, Returning, Zenon DEF workerVars
  <2>2. InSlot' = InSlot /\ Running' = Running
    BY <2>1, Zenon DEF InSlot, Running
  <2>3. CASE next' = 1 /\ sem' = 0 /\ pending' = 0
    <3>1. Running = {} /\ InSlot = {}
      BY <1>0, <1>6, Over, Zenon DEF Return, IInv
    <3>2. 0 < 1
      BY SMT
    <3>. QED  BY <2>2, <2>3, <3>1, <3>2, FS_EmptySet, Zenon DEF CountInv
  <2>4. CASE UNCHANGED <<next, sem, pending>>
    BY <1>0, <2>2, <2>4, Zenon DEF CountInv
  <2>. QED  BY <1>0, <1>6, <2>3, <2>4, Returning, Zenon
<1>7. CASE \/ \E o \in Offers : Add(o[1], o[2])
           \/ \E b \in Batches : Clear(b)
           \/ Execute \/ AllPlaced \/ CancelContext \/ Expire \/ Finished \/ UNCHANGED vars
  <2>1. UNCHANGED <<pc, sem, pending, next>>
    BY <1>7, Zenon DEF Add, Clear, Execute, AllPlaced, CancelContext, Expire, Finished, vars,
       mainVars, workerVars
  <2>. QED  BY <1>2, <2>1
<1>. QED  BY <1>3, <1>4, <1>5, <1>6, <1>7, Zenon DEF Next, Main

----
(* Which requests are placed *)

PlacedWorker(w) ==
    /\ pc[w] # "none" => /\ w[2] <= Len(requests[w[1]])
                         /\ w[1] <= current
                         /\ w[1] = current => w[2] < next
    /\ w[1] = current /\ w[2] < next => pc[w] # "none"
    /\ w[1] < current /\ w[2] <= Len(requests[w[1]]) => pc[w] # "none"

PlacedMain ==
    /\ main = "building" => current = 1 /\ next = 1
    /\ main \in {"waiting", "returned", "stopped"} => next > Len(requests[current])

LEMMA PlaceParts == PlaceInv <=> PlacedMain /\ \A w \in Workers : PlacedWorker(w)
PROOF
  BY Zenon DEF PlaceInv, PlacedMain, PlacedWorker

LEMMA NothingPlaced ==
  ASSUME TypeOK, PlaceInv, main = "building"
  PROVE  \A w \in Workers : pc[w] = "none"
PROOF
<1>. SUFFICES ASSUME NEW w \in Workers, pc[w] # "none"  PROVE FALSE
  OBVIOUS
<1>1. w[1] \in Nat /\ w[1] >= 1 /\ w[2] \in Nat /\ w[2] >= 1
  BY WorkerPair, SizeAssumption, CountAssumption, SMT DEF Batches
<1>2. w[1] <= 1 /\ (w[1] = 1 => w[2] < 1)
  BY Zenon DEF PlaceInv
<1>. QED  BY <1>1, <1>2, SMT

LEMMA PlaceStep ==
  ASSUME IInv, [Next]_vars
  PROVE  PlaceInv'
PROOF
<1>0. /\ TypeOK /\ PlaceInv /\ PlacedMain
      /\ \A w \in Workers : PlacedWorker(w)
      /\ \A w \in Workers : w[1] \in Nat /\ w[1] >= 1 /\ w[2] \in Nat /\ w[2] >= 1
                             /\ Len(requests[w[1]]) \in Nat
      /\ current \in Nat /\ next \in Nat /\ Len(requests[current]) \in Nat
  <2>1. \A w \in Workers : w[1] \in Batches /\ w[2] \in 1 .. MaxBatchSize
    BY WorkerPair, Zenon
  <2>2. \A w \in Workers : w[1] \in Nat /\ w[1] >= 1 /\ w[2] \in Nat /\ w[2] >= 1
    BY <2>1, SizeAssumption, CountAssumption, SMT DEF Batches
  <2>. QED  BY <2>1, <2>2, Sizes, PlaceParts, Zenon DEF IInv
<1>1. CASE UNCHANGED <<pc, requests, main, current, next>>
  BY <1>0, <1>1, Zenon DEF PlaceInv
<1>2. CASE \/ \E o \in Offers : Add(o[1], o[2])
           \/ \E b \in Batches : Clear(b)
           \/ Execute
  <2>1. main = "building" /\ pc' = pc /\ current' = current /\ next' = next
    BY <1>2, Zenon DEF Add, Clear, Execute, mainVars, workerVars
  <2>2. main' \in {"building", "placing"}
    BY <1>2, <2>1, Zenon DEF Add, Clear, Execute, mainVars
  <2>3. current = 1 /\ next = 1 /\ \A w \in Workers : pc[w] = "none"
    BY <1>0, <2>1, NothingPlaced, Zenon DEF PlacedMain
  <2>4. \A w \in Workers : ~(w[1] = 1 /\ w[2] < 1) /\ ~(w[1] < 1)
    BY <1>0, SMT
  <2>5. \A w \in Workers : PlacedWorker(w)'
    BY <2>1, <2>3, <2>4, Zenon DEF PlacedWorker
  <2>6. PlacedMain'
    BY <2>1, <2>2, <2>3, Zenon DEF PlacedMain
  <2>. QED  BY <2>5, <2>6, Zenon DEF PlaceInv, PlacedMain, PlacedWorker
<1>3. ASSUME NEW w \in Workers, Answer(w) \/ OwnStep(w)  PROVE PlaceInv'
  <2>1. UNCHANGED <<requests, main, current, next>>
    BY <1>0, <1>3, WorkerMoves, Zenon DEF mainVars
  <2>2. PICK from, to \in Places \ {"none"} : Moves(w, from, to)
    BY <1>0, <1>3, WorkerMoves, Zenon DEF Places
  <2>3. pc[w] # "none" /\ pc'[w] # "none" /\ \A v \in Workers \ {w} : pc'[v] = pc[v]
    BY <1>0, <2>2, Moving, Zenon DEF Moves
  <2>4. \A v \in Workers : pc[v] = "none" <=> pc'[v] = "none"
    BY <2>3, Zenon
  <2>. QED  BY <1>0, <2>1, <2>4, Zenon DEF PlaceInv
<1>4. CASE Place \/ Refuse
  <2>0. PICK w \in Workers : w = <<current, next>>
    BY <1>0, <1>4, Placed, Zenon DEF Place, Refuse
  <2>1. pc[w] = "none" /\ main = "placing" /\ next <= Len(requests[current])
    BY <1>0, <1>4, <2>0, Placed, Zenon DEF Place, Refuse
  <2>2. PICK to \in {"sending", "refused"} : Moves(w, "none", to)
    BY <1>4, <2>0, <2>1, Zenon DEF Place, Refuse, Moves
  <2>3. pc'[w] # "none" /\ \A v \in Workers \ {w} : pc'[v] = pc[v]
    BY <1>0, <2>1, <2>2, Moving, Zenon DEF Places
  <2>4. UNCHANGED <<requests, main, current>> /\ next' = next + 1
    BY <1>4, Zenon DEF Place, Refuse
  <2>5. ASSUME NEW v \in Workers \ {w}  PROVE PlacedWorker(v)'
    <3>1. v[1] # current \/ v[2] # next
      BY <2>0, WorkerPair, Zenon
    <3>2. PlacedWorker(v) /\ v[1] \in Nat /\ v[2] \in Nat
      BY <1>0
    <3>3. v[1] = current => (v[2] < next + 1 <=> v[2] < next)
      BY <1>0, <3>1, <3>2, SMT
    <3>. QED  BY <2>3, <2>4, <3>2, <3>3, Zenon DEF PlacedWorker
  <2>6. PlacedWorker(w)'
    <3>1. w[1] = current /\ w[2] = next
      BY <2>0
    <3>2. next < next + 1 /\ current <= current /\ ~(current < current)
      BY <1>0, SMT
    <3>. QED  BY <2>1, <2>3, <2>4, <3>1, <3>2, Zenon DEF PlacedWorker
  <2>7. PlacedMain'
    BY <2>1, <2>4, Zenon DEF PlacedMain
  <2>. QED  BY <2>5, <2>6, <2>7, Zenon DEF PlaceInv, PlacedMain, PlacedWorker
<1>5. CASE AllPlaced
  BY <1>0, <1>5, Zenon DEF AllPlaced, PlaceInv, workerVars
<1>6. CASE Return
  <2>1. main = "waiting" /\ pc' = pc /\ requests' = requests
    BY <1>0, <1>6, Returning, Zenon DEF workerVars
  <2>2. next > Len(requests[current])
    BY <1>0, <2>1, Zenon DEF PlacedMain
  <2>3. CASE main' = "placing" /\ current' = current + 1 /\ next' = 1
    <3>1. ASSUME NEW v \in Workers  PROVE PlacedWorker(v)'
      <4>1. PlacedWorker(v) /\ v[1] \in Nat /\ v[2] \in Nat /\ v[2] >= 1
            /\ Len(requests[v[1]]) \in Nat
        BY <1>0
      <4>2. CASE v[1] = current
        <5>1. v[2] <= Len(requests[v[1]]) => v[2] < next
          BY <1>0, <2>2, <4>1, <4>2, SMT
        <5>2. current <= current + 1 /\ current # current + 1
          BY <1>0, SMT
        <5>. QED  BY <2>1, <2>3, <4>1, <4>2, <5>1, <5>2, Zenon DEF PlacedWorker
      <4>3. CASE v[1] # current
        <5>1. /\ v[1] <= current => v[1] <= current + 1 /\ v[1] # current + 1
              /\ v[1] < current + 1 => v[1] < current
              /\ ~(v[2] < 1)
          BY <1>0, <4>1, <4>3, SMT
        <5>. QED  BY <2>1, <2>3, <4>1, <5>1, Zenon DEF PlacedWorker
      <4>. QED  BY <4>2, <4>3
    <3>2. PlacedMain'
      BY <2>3, Zenon DEF PlacedMain
    <3>. QED  BY <3>1, <3>2, Zenon DEF PlaceInv, PlacedMain, PlacedWorker
  <2>4. CASE main' \in {"returned", "stopped"} /\ UNCHANGED <<current, next>>
    BY <1>0, <2>1, <2>2, <2>4, Zenon DEF PlaceInv
  <2>. QED  BY <1>0, <1>6, <2>3, <2>4, Returning, Zenon
<1>7. CASE CancelContext \/ Expire \/ Finished \/ UNCHANGED vars
  <2>1. UNCHANGED <<pc, requests, main, current, next>>
    BY <1>7, Zenon DEF CancelContext, Expire, Finished, vars, mainVars, workerVars
  <2>. QED  BY <1>1, <2>1
<1>. QED  BY <1>2, <1>3, <1>4, <1>5, <1>6, <1>7, Zenon DEF Next, Main

----
(* The order of the batches *)

LEMMA Counting ==
  ASSUME TypeOK, NEW b \in Batches, NEW error \in BOOLEAN, CountOne(b, error)
  PROVE  /\ error = TRUE => success'[b] = success[b] /\ failure'[b] = failure[b] + 1
         /\ error = FALSE => success'[b] = success[b] + 1 /\ failure'[b] = failure[b]
         /\ \A c \in Batches \ {b} : success'[c] = success[c] /\ failure'[c] = failure[c]
PROOF
<1>1. success \in [Batches -> Nat] /\ failure \in [Batches -> Nat]
  BY TypeParts, Zenon DEF ResultsOK
<1>2. CASE error = TRUE
  BY <1>1, <1>2, SMT DEF CountOne
<1>3. CASE error = FALSE
  BY <1>1, <1>3, SMT DEF CountOne
<1>. QED  BY <1>2, <1>3

\* A result is only set for the batch being executed.
LEMMA EarlierKept ==
  ASSUME TypeOK, PlaceInv, OrderInv, UNCHANGED current,
         \/ UNCHANGED resultVars
         \/ \E error \in BOOLEAN : CountOne(current, error)
  PROVE  \A b \in Batches : b < current' => failure'[b] <= success'[b]
PROOF
<1>1. current \in Batches /\ ~(current < current)
  BY Sizes, SMT
<1>2. \A b \in Batches : b < current => b # current /\ failure[b] <= success[b]
  BY <1>1, Zenon DEF OrderInv
<1>3. CASE UNCHANGED resultVars
  BY <1>2, <1>3, Zenon DEF resultVars
<1>4. CASE \E error \in BOOLEAN : CountOne(current, error)
  <2>1. \A c \in Batches \ {current} : success'[c] = success[c] /\ failure'[c] = failure[c]
    BY <1>1, <1>4, Counting, Zenon
  <2>. QED  BY <1>2, <2>1, Zenon
<1>. QED  BY <1>3, <1>4

LEMMA OrderStep ==
  ASSUME IInv, [Next]_vars
  PROVE  OrderInv'
PROOF
<1>0. /\ TypeOK /\ CountInv /\ PlaceInv /\ OrderInv
      /\ \A w \in Running : w[1] = current /\ ~Ended
  BY Zenon DEF IInv, OrderInv
<1>1. CASE UNCHANGED <<main, current, resultVars, pc>>
  <2>1. Running' = Running /\ (Ended' <=> Ended)
    BY <1>1, Zenon DEF Running, Ended
  <2>. QED  BY <1>0, <1>1, <2>1, EarlierKept, Zenon DEF OrderInv
<1>2. ASSUME NEW w \in Workers, Answer(w) \/ OwnStep(w)  PROVE OrderInv'
  <2>1. UNCHANGED <<main, current>>
    BY <1>0, <1>2, WorkerMoves, Zenon DEF mainVars
  <2>2. PICK from, to \in Places : Moves(w, from, to) /\ from \in SlotPlaces \union {"released"}
    BY <1>0, <1>2, WorkerMoves, Zenon DEF Places, SlotPlaces
  <2>3. w \in Running
    BY <2>2, Zenon DEF Moves, Running
  <2>4. \A v \in Workers \ {w} : pc'[v] = pc[v]
    BY <1>0, <2>2, Moving, Zenon
  <2>5. Running' \subseteq Running
    BY <2>3, <2>4, Zenon DEF Running
  <2>6. UNCHANGED resultVars \/ \E error \in BOOLEAN : CountOne(current, error)
    <3>1. failed[w] \in BOOLEAN /\ w[1] = current
      BY <1>0, <2>3, TypeParts, Zenon DEF FailedOK
    <3>. QED  BY <1>0, <1>2, <3>1, WorkerMoves, Zenon
  <2>7. \A b \in Batches : b < current' => failure'[b] <= success'[b]
    BY <1>0, <2>1, <2>6, EarlierKept, Zenon
  <2>8. \A v \in Running' : v[1] = current' /\ ~Ended'
    BY <1>0, <2>1, <2>5, Zenon DEF Ended
  <2>. QED  BY <2>7, <2>8, Zenon DEF OrderInv
<1>3. CASE Place \/ Refuse
  <2>1. PICK w \in Workers : w = <<current, next>> /\ pc[w] = "none" /\ main = "placing"
    BY <1>0, <1>3, Placed, Zenon DEF Place, Refuse
  <2>2. PICK to \in {"sending", "refused"} : Moves(w, "none", to)
    BY <1>3, <2>1, Zenon DEF Place, Refuse, Moves
  <2>3. \A v \in Workers \ {w} : pc'[v] = pc[v]
    <3>1. to \in Places
      BY Zenon DEF Places
    <3>. QED  BY <1>0, <2>2, <3>1, Moving, Zenon
  <2>4. Running' \subseteq Running \union {w}
    BY <2>3, Zenon DEF Running
  <2>5. UNCHANGED <<main, current>>
    BY <1>3, Zenon DEF Place, Refuse
  <2>6. UNCHANGED resultVars \/ \E error \in BOOLEAN : CountOne(current, error)
    BY <1>3, Zenon DEF Place, Refuse
  <2>7. \A b \in Batches : b < current' => failure'[b] <= success'[b]
    BY <1>0, <2>5, <2>6, EarlierKept, Zenon
  <2>8. w[1] = current /\ ~Ended
    BY <2>1, Zenon DEF Ended
  <2>9. \A v \in Running' : v[1] = current' /\ ~Ended'
    BY <1>0, <2>4, <2>5, <2>8, Zenon DEF Ended
  <2>. QED  BY <2>7, <2>9, Zenon DEF OrderInv
<1>4. CASE Return
  <2>1. pc' = pc /\ UNCHANGED resultVars
    BY <1>0, <1>4, Returning, Zenon DEF workerVars
  <2>2. Running' = {}
    BY <1>0, <1>4, <2>1, Over, Zenon DEF Running, Return
  <2>3. \A b \in Batches : b < current' => failure'[b] <= success'[b]
    <3>1. CASE current' = current + 1 /\ failure[current] <= success[current]
      <4>1. \A b \in Batches : b < current + 1 => b < current \/ b = current
        BY <1>0, Sizes, SMT DEF Batches
      <4>. QED  BY <1>0, <2>1, <3>1, <4>1, Zenon DEF OrderInv, resultVars
    <3>2. CASE UNCHANGED current
      BY <1>0, <2>1, <3>2, EarlierKept, Zenon
    <3>. QED  BY <1>0, <1>4, <3>1, <3>2, Returning, Zenon
  <2>. QED  BY <2>2, <2>3, Zenon DEF OrderInv
<1>5. CASE Execute \/ AllPlaced
  <2>1. UNCHANGED <<current, resultVars, pc>> /\ main' \in {"placing", "waiting"}
    BY <1>5, Zenon DEF Execute, AllPlaced, workerVars
  <2>2. Running' = Running /\ ~Ended'
    BY <2>1, Zenon DEF Running, Ended
  <2>. QED  BY <1>0, <2>1, <2>2, EarlierKept, Zenon DEF OrderInv
<1>6. CASE \/ \E o \in Offers : Add(o[1], o[2])
           \/ \E b \in Batches : Clear(b)
           \/ CancelContext \/ Expire \/ Finished \/ UNCHANGED vars
  <2>1. UNCHANGED <<main, current, resultVars, pc>>
    BY <1>6, Zenon DEF Add, Clear, CancelContext, Expire, Finished, vars, mainVars, workerVars
  <2>. QED  BY <1>1, <2>1
<1>. QED  BY <1>2, <1>3, <1>4, <1>5, <1>6, Zenon DEF Next, Main

----
(* IDs *)

LEMMA UniqueStep ==
  ASSUME IInv, [Next]_vars
  PROVE  UniqueIds'
PROOF
<1>0. TypeOK /\ UniqueIds /\ requests \in [Batches -> Seq(Ids)]
  BY TypeParts, Zenon DEF IInv, RequestsOK
<1>1. CASE UNCHANGED requests
  BY <1>0, <1>1, Zenon DEF UniqueIds
<1>2. ASSUME NEW b \in Batches, Clear(b)  PROVE UniqueIds'
  <2>1. requests'[b] = <<>> /\ \A c \in Batches \ {b} : requests'[c] = requests[c]
    BY <1>0, <1>2, SMT DEF Clear
  <2>2. DOMAIN requests'[b] = {}
    BY <2>1, SMT
  <2>. QED  BY <1>0, <2>1, <2>2, Zenon DEF UniqueIds
<1>3. ASSUME NEW b \in Batches, NEW id, Add(b, id)  PROVE UniqueIds'
  <2>. DEFINE new == AssignedId(b, id)
  <2>1. /\ requests[b] \in Seq(Ids)
        /\ requests'[b] = Append(requests[b], new)
        /\ \A c \in Batches \ {b} : requests'[c] = requests[c]
    BY <1>0, <1>3, SMT DEF Add
  <2>2. \A i \in DOMAIN requests[b] : requests[b][i] # new
    BY <1>3, Zenon DEF Add, Accepts, HasId
  <2>. HIDE DEF new
  <2>3. /\ DOMAIN requests'[b] = DOMAIN requests[b] \union {Len(requests[b]) + 1}
        /\ requests'[b][Len(requests[b]) + 1] = new
        /\ \A i \in DOMAIN requests[b] : requests'[b][i] = requests[b][i]
    BY <2>1, SMT
  <2>4. \A i, j \in DOMAIN requests'[b] : requests'[b][i] = requests'[b][j] => i = j
    BY <1>0, <2>2, <2>3, Zenon DEF UniqueIds
  <2>. QED  BY <1>0, <2>1, <2>4, Zenon DEF UniqueIds
<1>4. (\E o \in Offers : Add(o[1], o[2])) => UniqueIds'
  <2>1. \A o \in Offers : o[1] \in Batches
    BY OffersAssumption, SMT DEF Batches
  <2>. QED  BY <1>3, <2>1, Zenon
<1>5. ASSUME NEW w \in Workers, Answer(w) \/ OwnStep(w)  PROVE UniqueIds'
  BY <1>0, <1>1, <1>5, WorkerMoves, Zenon
<1>6. CASE Main
  <2>1. UNCHANGED requests
    BY <1>0, <1>6, Returning, Zenon DEF Main, Execute, Place, Refuse, AllPlaced
  <2>. QED  BY <1>1, <2>1
<1>7. CASE CancelContext \/ Expire \/ Finished \/ UNCHANGED vars
  <2>1. UNCHANGED requests
    BY <1>7, Zenon DEF CancelContext, Expire, Finished, vars
  <2>. QED  BY <1>1, <2>1
<1>. QED  BY <1>2, <1>4, <1>5, <1>6, <1>7, Zenon DEF Next

----
(* The accounts *)

\* What AccountInv says of one batch.
BatchAccount(b) ==
    /\ IsFiniteSet(DOMAIN responses[b])
    /\ success[b] = Cardinality(WithError(b, FALSE))
    /\ failure[b] = Cardinality(WithError(b, TRUE))
    /\ \A i \in 1 .. MaxBatchSize : pc[<<b, i>>] \in Resolved =>
          /\ requests[b][i] \in DOMAIN responses[b]
          /\ responses[b][requests[b][i]].of = i
    /\ \A id \in DOMAIN responses[b] : \E i \in 1 .. MaxBatchSize :
          pc[<<b, i>>] \in Resolved /\ requests[b][i] = id

\* A step that resolves no request of a batch and leaves its results alone.
LEMMA AccountKept ==
  ASSUME NEW b \in Batches, BatchAccount(b),
         responses'[b] = responses[b], success'[b] = success[b], failure'[b] = failure[b],
         requests'[b] = requests[b],
         \A i \in 1 .. MaxBatchSize : pc'[<<b, i>>] \in Resolved <=> pc[<<b, i>>] \in Resolved
  PROVE  BatchAccount(b)'
PROOF
<1>1. WithError(b, FALSE)' = WithError(b, FALSE) /\ WithError(b, TRUE)' = WithError(b, TRUE)
  BY Zenon DEF WithError
<1>. QED  BY <1>1, Zenon DEF BatchAccount

LEMMA PlacedWithin ==
  ASSUME TypeOK, PlaceInv, NEW b \in Batches, NEW i \in 1 .. MaxBatchSize,
         pc[<<b, i>>] # "none"
  PROVE  i \in DOMAIN requests[b]
PROOF
<1>1. PICK w \in Workers : w = <<b, i>>
  BY Zenon DEF Workers
<1>2. w[1] = b /\ w[2] = i
  BY <1>1
<1>3. i <= Len(requests[b])
  BY <1>1, <1>2, Zenon DEF PlaceInv
<1>4. requests[b] \in Seq(Ids)
  BY TypeParts, Zenon DEF RequestsOK
<1>. QED  BY <1>3, <1>4, SizeAssumption, SMT

\* A request is resolved: its result is set and counted.
LEMMA Resolving ==
  ASSUME TypeOK, PlaceInv, UniqueIds, AccountInv,
         NEW b \in Batches, NEW i \in 1 .. MaxBatchSize, NEW error \in BOOLEAN,
         i \in DOMAIN requests[b],
         SetResult(b, i, error), CountOne(b, error), UNCHANGED requests,
         pc[<<b, i>>] \notin Resolved, pc'[<<b, i>>] \in Resolved,
         \A v \in Workers \ {<<b, i>>} : pc'[v] = pc[v]
  PROVE  AccountInv'
PROOF
<1>. DEFINE id == requests[b][i]
<1>0. \A c \in Batches : BatchAccount(c)
  BY Zenon DEF AccountInv, BatchAccount
<1>1. /\ DOMAIN responses'[b] = DOMAIN responses[b] \union {id}
      /\ responses'[b][id] = [of |-> i, error |-> error]
      /\ \A j \in DOMAIN responses[b] : j # id => responses'[b][j] = responses[b][j]
      /\ \A c \in Batches \ {b} : responses'[c] = responses[c]
  BY Setting, Zenon
<1>2. responses'[b][id].of = i /\ responses'[b][id].error = error
  BY <1>1
<1>3. /\ error = TRUE => success'[b] = success[b] /\ failure'[b] = failure[b] + 1
      /\ error = FALSE => success'[b] = success[b] + 1 /\ failure'[b] = failure[b]
      /\ \A c \in Batches \ {b} : success'[c] = success[c] /\ failure'[c] = failure[c]
  BY Counting, Zenon
<1>4. requests' = requests
  OBVIOUS
<1>5. \A j \in 1 .. MaxBatchSize : j # i => pc'[<<b, j>>] = pc[<<b, j>>]
  BY SMT DEF Workers
<1>6. id \notin DOMAIN responses[b]
  <2>. SUFFICES ASSUME id \in DOMAIN responses[b]  PROVE FALSE
    OBVIOUS
  <2>1. PICK j \in 1 .. MaxBatchSize : pc[<<b, j>>] \in Resolved /\ requests[b][j] = id
    BY <1>0, Zenon DEF BatchAccount
  <2>2. j \in DOMAIN requests[b]
    BY <2>1, PlacedWithin, Zenon DEF Resolved
  <2>3. j = i
    BY <2>1, <2>2, Zenon DEF UniqueIds
  <2>. QED  BY <2>1, <2>3
<1>7. ASSUME NEW c \in Batches \ {b}  PROVE BatchAccount(c)'
  <2>1. \A j \in 1 .. MaxBatchSize : pc'[<<c, j>>] = pc[<<c, j>>]
    BY SMT DEF Workers
  <2>. QED  BY <1>0, <1>1, <1>3, <2>1, AccountKept, Zenon
<1>8. BatchAccount(b)'
  <2>1. IsFiniteSet(DOMAIN responses[b]) /\ IsFiniteSet(DOMAIN responses'[b])
    <3>1. IsFiniteSet(DOMAIN responses[b])
      BY <1>0, Zenon DEF BatchAccount
    <3>2. IsFiniteSet(DOMAIN responses[b] \union {id})
      BY <3>1, FS_AddElement, Zenon
    <3>. QED  BY <1>1, <3>1, <3>2, Zenon
  <2>2. \A e \in BOOLEAN : IsFiniteSet(WithError(b, e)) /\ id \notin WithError(b, e)
    <3>1. \A e \in BOOLEAN : WithError(b, e) \subseteq DOMAIN responses[b]
      BY Zenon DEF WithError
    <3>. QED  BY <1>6, <2>1, <3>1, FS_Subset, Zenon
  <2>3. \A j \in DOMAIN responses[b] : responses'[b][j] = responses[b][j]
    BY <1>1, <1>6, Zenon
  <2>4. {j \in DOMAIN responses'[b] : responses'[b][j].error = error}
          = WithError(b, error) \union {id}
    BY <1>1, <1>2, <2>3, Zenon DEF WithError
  <2>5. {j \in DOMAIN responses'[b] : responses'[b][j].error = (~error)} = WithError(b, ~error)
    BY <1>1, <1>2, <2>3, Zenon DEF WithError
  <2>6. Cardinality(WithError(b, error) \union {id}) = Cardinality(WithError(b, error)) + 1
    BY <2>2, Entering, Zenon
  <2>7. /\ success[b] = Cardinality(WithError(b, FALSE)) /\ success[b] \in Nat
        /\ failure[b] = Cardinality(WithError(b, TRUE)) /\ failure[b] \in Nat
    BY <1>0, TypeParts, Zenon DEF BatchAccount, ResultsOK
  <2>8. /\ success'[b] = Cardinality(WithError(b, FALSE)')
        /\ failure'[b] = Cardinality(WithError(b, TRUE)')
    <3>1. CASE error = TRUE
      <4>1. WithError(b, TRUE)' = WithError(b, TRUE) \union {id}
        BY <2>4, <3>1, Zenon DEF WithError
      <4>2. WithError(b, FALSE)' = WithError(b, FALSE)
        BY <2>5, <3>1, Zenon DEF WithError
      <4>3. success'[b] = success[b] /\ failure'[b] = failure[b] + 1
        BY <1>3, <3>1
      <4>. QED  BY <2>6, <2>7, <3>1, <4>1, <4>2, <4>3, Zenon
    <3>2. CASE error = FALSE
      <4>1. WithError(b, FALSE)' = WithError(b, FALSE) \union {id}
        BY <2>4, <3>2, Zenon DEF WithError
      <4>2. WithError(b, TRUE)' = WithError(b, TRUE)
        BY <2>5, <3>2, Zenon DEF WithError
      <4>3. success'[b] = success[b] + 1 /\ failure'[b] = failure[b]
        BY <1>3, <3>2
      <4>. QED  BY <2>6, <2>7, <3>2, <4>1, <4>2, <4>3, Zenon
    <3>. QED  BY <3>1, <3>2
  <2>9. ASSUME NEW j \in 1 .. MaxBatchSize, pc'[<<b, j>>] \in Resolved
        PROVE  /\ requests[b][j] \in DOMAIN responses'[b]
               /\ responses'[b][requests[b][j]].of = j
    <3>1. CASE j = i
      BY <1>1, <1>2, <3>1, Zenon
    <3>2. CASE j # i
      <4>1. requests[b][j] \in DOMAIN responses[b] /\ responses[b][requests[b][j]].of = j
        BY <1>0, <1>5, <2>9, <3>2, Zenon DEF BatchAccount
      <4>. QED  BY <1>1, <2>3, <4>1, Zenon
    <3>. QED  BY <3>1, <3>2
  <2>10. ASSUME NEW k \in DOMAIN responses'[b]
         PROVE  \E j \in 1 .. MaxBatchSize : pc'[<<b, j>>] \in Resolved /\ requests[b][j] = k
    <3>1. CASE k = id
      BY <3>1, Zenon
    <3>2. CASE k # id
      <4>1. PICK j \in 1 .. MaxBatchSize : pc[<<b, j>>] \in Resolved /\ requests[b][j] = k
        BY <1>0, <1>1, <3>2, Zenon DEF BatchAccount
      <4>2. pc'[<<b, j>>] \in Resolved
        BY <1>5, <4>1, Zenon
      <4>. QED  BY <4>1, <4>2, Zenon
    <3>. QED  BY <3>1, <3>2
  <2>. QED  BY <1>4, <2>1, <2>8, <2>9, <2>10, Zenon DEF BatchAccount
<1>9. \A c \in Batches : BatchAccount(c)'
  BY <1>7, <1>8, Zenon
<1>. QED  BY <1>9, Zenon DEF AccountInv, BatchAccount

LEMMA AccountStep ==
  ASSUME IInv, [Next]_vars
  PROVE  AccountInv'
PROOF
<1>0. TypeOK /\ PlaceInv /\ UniqueIds /\ AccountInv
  BY Zenon DEF IInv
<1>1. CASE /\ UNCHANGED <<requests, resultVars>>
           /\ \A v \in Workers : pc'[v] \in Resolved <=> pc[v] \in Resolved
  <2>1. responses' = responses /\ success' = success /\ failure' = failure /\ requests' = requests
    BY <1>1, Zenon DEF resultVars
  <2>2. \A b \in Batches, i \in 1 .. MaxBatchSize : <<b, i>> \in Workers
    BY Zenon DEF Workers
  <2>3. \A b \in Batches : BatchAccount(b)
    BY <1>0, Zenon DEF AccountInv, BatchAccount
  <2>4. \A b \in Batches : BatchAccount(b)'
    BY <1>1, <2>1, <2>2, <2>3, AccountKept, Zenon
  <2>. QED  BY <2>4, Zenon DEF AccountInv, BatchAccount
<1>2. ASSUME NEW w \in Workers, Answer(w) \/ OwnStep(w)  PROVE AccountInv'
  <2>1. UNCHANGED requests
    BY <1>0, <1>2, WorkerMoves, Zenon
  <2>2. CASE /\ \E from, to \in Places : /\ Moves(w, from, to)
                                         /\ from \in Resolved <=> to \in Resolved
             /\ UNCHANGED resultVars
    <3>1. PICK from, to \in Places : Moves(w, from, to) /\ (from \in Resolved <=> to \in Resolved)
      BY <2>2, Zenon
    <3>2. pc[w] = from /\ pc'[w] = to /\ \A v \in Workers \ {w} : pc'[v] = pc[v]
      BY <1>0, <3>1, Moving, Zenon DEF Moves
    <3>. QED  BY <1>1, <2>1, <2>2, <3>1, <3>2, Zenon
  <2>3. CASE /\ \E to \in {"calling", "leaving"} : Moves(w, "answered", to)
             /\ SetResult(w[1], w[2], failed[w]) /\ CountOne(w[1], failed[w])
    <3>1. PICK to \in {"calling", "leaving"} : Moves(w, "answered", to)
      BY <2>3, Zenon
    <3>2. to \in Places /\ to \in Resolved
      BY Zenon DEF Places, Resolved
    <3>3. pc[w] = "answered" /\ pc'[w] = to /\ \A v \in Workers \ {w} : pc'[v] = pc[v]
      BY <1>0, <3>1, <3>2, Moving, Zenon DEF Moves
    <3>4. w = <<w[1], w[2]>> /\ w[1] \in Batches /\ w[2] \in 1 .. MaxBatchSize
      BY WorkerPair, Zenon
    <3>5. w[2] \in DOMAIN requests[w[1]]
      <4>1. pc[<<w[1], w[2]>>] # "none"
        BY <3>3, <3>4, Zenon
      <4>. QED  BY <1>0, <3>4, <4>1, PlacedWithin, Zenon
    <3>6. failed[w] \in BOOLEAN
      BY <1>0, TypeParts, Zenon DEF FailedOK
    <3>7. /\ pc[<<w[1], w[2]>>] \notin Resolved /\ pc'[<<w[1], w[2]>>] \in Resolved
          /\ \A v \in Workers \ {<<w[1], w[2]>>} : pc'[v] = pc[v]
      BY <3>2, <3>3, <3>4, Zenon DEF Resolved
    <3>. QED  BY <1>0, <2>1, <2>3, <3>4, <3>5, <3>6, <3>7, Resolving, Zenon
  <2>. QED  BY <1>0, <1>2, <2>2, <2>3, WorkerMoves, Zenon DEF Places, Resolved
<1>3. CASE Place
  <2>1. PICK w \in Workers : w = <<current, next>> /\ pc[w] = "none"
    BY <1>0, <1>3, Placed, Zenon DEF Place
  <2>2. Moves(w, "none", "sending")
    BY <1>3, <2>1, Zenon DEF Place, Moves
  <2>3. pc'[w] = "sending" /\ \A v \in Workers \ {w} : pc'[v] = pc[v]
    BY <1>0, <2>2, Moving, Zenon DEF Places
  <2>4. \A v \in Workers : pc'[v] \in Resolved <=> pc[v] \in Resolved
    BY <2>1, <2>3, Zenon DEF Resolved
  <2>. QED  BY <1>1, <1>3, <2>4, Zenon DEF Place
<1>4. CASE Refuse
  <2>1. PICK w \in Workers : w = <<current, next>> /\ pc[w] = "none"
    BY <1>0, <1>4, Placed, Zenon DEF Refuse
  <2>2. Moves(w, "none", "refused")
    BY <1>4, <2>1, Zenon DEF Refuse, Moves
  <2>3. pc'[w] = "refused" /\ \A v \in Workers \ {w} : pc'[v] = pc[v]
    BY <1>0, <2>2, Moving, Zenon DEF Places
  <2>4. PICK b \in Batches, i \in 1 .. MaxBatchSize : w = <<b, i>> /\ b = current /\ i = next
    BY <1>0, <1>4, <2>1, Sizes, Placed, Zenon DEF Refuse
  <2>5. i \in DOMAIN requests[b]
    <3>1. i <= Len(requests[b])
      BY <1>0, <1>4, <2>4, Placed, Zenon DEF Refuse
    <3>2. requests[b] \in Seq(Ids)
      BY <1>0, TypeParts, Zenon DEF RequestsOK
    <3>. QED  BY <3>1, <3>2, SizeAssumption, SMT
  <2>6. SetResult(b, i, TRUE) /\ CountOne(b, TRUE) /\ UNCHANGED requests
    BY <1>4, <2>4, Zenon DEF Refuse
  <2>7. /\ pc[<<b, i>>] \notin Resolved /\ pc'[<<b, i>>] \in Resolved
        /\ \A v \in Workers \ {<<b, i>>} : pc'[v] = pc[v]
    BY <2>1, <2>3, <2>4, Zenon DEF Resolved
  <2>. QED  BY <1>0, <2>5, <2>6, <2>7, Resolving, Zenon
<1>5. CASE Return
  <2>1. UNCHANGED <<requests, resultVars, pc>>
    BY <1>0, <1>5, Returning, Zenon DEF workerVars
  <2>. QED  BY <1>1, <2>1, Zenon
<1>6. CASE \/ \E o \in Offers : Add(o[1], o[2])
           \/ \E b \in Batches : Clear(b)
  <2>1. main = "building" /\ UNCHANGED <<resultVars, pc>>
    BY <1>6, Zenon DEF Add, Clear, workerVars
  <2>2. \A v \in Workers : pc[v] = "none"
    BY <1>0, <2>1, NothingPlaced, Zenon
  <2>3. ASSUME NEW b \in Batches  PROVE BatchAccount(b)'
    <3>1. BatchAccount(b)
      BY <1>0, Zenon DEF AccountInv, BatchAccount
    <3>2. \A i \in 1 .. MaxBatchSize : pc[<<b, i>>] \notin Resolved /\ pc' = pc
      <4>1. \A i \in 1 .. MaxBatchSize : <<b, i>> \in Workers
        BY Zenon DEF Workers
      <4>2. "none" \notin Resolved
        BY Zenon DEF Resolved
      <4>. QED  BY <2>1, <2>2, <4>1, <4>2, Zenon
    <3>3. DOMAIN responses[b] = {}
      BY <3>1, <3>2, Zenon DEF BatchAccount
    <3>4. responses' = responses /\ success' = success /\ failure' = failure
      BY <2>1, Zenon DEF resultVars
    <3>5. WithError(b, FALSE)' = WithError(b, FALSE) /\ WithError(b, TRUE)' = WithError(b, TRUE)
      BY <3>4, Zenon DEF WithError
    <3>. QED  BY <3>1, <3>2, <3>3, <3>4, <3>5, Zenon DEF BatchAccount
  <2>. QED  BY <2>3, Zenon DEF AccountInv, BatchAccount
<1>7. CASE Execute \/ AllPlaced \/ CancelContext \/ Expire \/ Finished \/ UNCHANGED vars
  <2>1. UNCHANGED <<requests, resultVars, pc>>
    BY <1>7, Zenon DEF Execute, AllPlaced, CancelContext, Expire, Finished, vars, workerVars
  <2>. QED  BY <1>1, <2>1, Zenon
<1>. QED  BY <1>2, <1>3, <1>4, <1>5, <1>6, <1>7, Zenon DEF Next, Main

----
(* The inductive invariant *)

LEMMA TypeStep ==
  ASSUME IInv, [Next]_vars
  PROVE  TypeOK'
PROOF
<1>0. TypeOK /\ CountInv /\ PlaceInv
  BY Zenon DEF IInv
<1>1. (\E o \in Offers : Add(o[1], o[2])) => TypeOK'
  <2>1. \A o \in Offers : o[1] \in Batches /\ o[2] \in Names \union {Unnamed}
    BY OffersAssumption, SMT DEF Batches
  <2>. QED  BY <1>0, <2>1, BuildTypes, Zenon
<1>2. ASSUME NEW w \in Workers, Answer(w) \/ OwnStep(w)  PROVE TypeOK'
  BY <1>0, <1>2, AnswerTypes, OwnTypes, Zenon
<1>3. CASE Finished \/ UNCHANGED vars
  <2>1. UNCHANGED <<configVars, requests, mainVars, sem, pending, contextVars, workerVars, resultVars>>
    BY <1>3, Zenon DEF Finished, vars
  <2>2. UNCHANGED <<configVars, contextVars>> /\ UNCHANGED <<pc, attempt, failed>>
    BY <2>1, Zenon DEF workerVars
  <2>. QED  BY <1>0, <2>1, <2>2, Kept, TypePartsNext, Zenon
<1>. QED  BY <1>0, <1>1, <1>2, <1>3, BuildTypes, MainTypes, ContextTypes, Zenon DEF Next

LEMMA Initially ==
  ASSUME Init
  PROVE  IInv
PROOF
<1>0. /\ 1 \in Batches /\ MaxBatchSize \in Nat /\ MaxConcurrency \in Nat /\ MaxRetries \in Nat
  BY CountAssumption, SizeAssumption, ConcurrencyAssumption, RetriesAssumption, SMT DEF Batches
<1>1. \A w \in Workers : pc[w] = "none"
  BY Zenon DEF Init
<1>2. \A b \in Batches : responses[b] = [id \in {} |-> {}] /\ DOMAIN responses[b] = {}
  BY Zenon DEF Init
<1>3. \A b \in Batches : requests[b] = <<>> /\ success[b] = 0 /\ failure[b] = 0
  BY Zenon DEF Init
<1>4. TypeOK
  <2>1. RequestsOK /\ MainOK /\ SemOK /\ PendingOK
    BY <1>0, SMT DEF Init, RequestsOK, MainOK, SemOK, PendingOK
  <2>2. FlagsOK /\ FailedOK
    BY Zenon DEF Init, FlagsOK, FailedOK
  <2>3. PcOK /\ AttemptOK
    BY <1>0, SMT DEF Init, PcOK, Places, AttemptOK
  <2>4. ResultsOK
    <3>1. \A b \in Batches : responses[b] \in [DOMAIN responses[b] -> Response]
      BY <1>2, Zenon
    <3>2. success \in [Batches -> Nat] /\ failure \in [Batches -> Nat]
      BY SMT DEF Init
    <3>. QED  BY <3>1, <3>2, Zenon DEF Init, ResultsOK
  <2>. QED  BY <2>1, <2>2, <2>3, <2>4, TypeParts, Zenon
<1>5. CountInv
  <2>1. InSlot = {} /\ Running = {}
    BY <1>1, Zenon DEF InSlot, Running, SlotPlaces
  <2>2. sem = 0 /\ pending = 0 /\ next = 1 /\ 0 < 1
    BY SMT DEF Init
  <2>. QED  BY <2>1, <2>2, FS_EmptySet, Zenon DEF CountInv
<1>6. PlaceInv
  <2>1. \A w \in Workers : ~(w[2] < 1) /\ ~(w[1] < 1)
    BY WorkerPair, <1>0, CountAssumption, SMT DEF Batches
  <2>2. main = "building" /\ current = 1 /\ next = 1
    BY Zenon DEF Init
  <2>. QED  BY <1>1, <2>1, <2>2, Zenon DEF PlaceInv
<1>7. OrderInv
  <2>1. \A b \in Batches : ~(b < 1)
    BY CountAssumption, SMT DEF Batches
  <2>2. current = 1 /\ Running = {}
    BY <1>1, Zenon DEF Init, Running, SlotPlaces
  <2>. QED  BY <2>1, <2>2, Zenon DEF OrderInv
<1>8. UniqueIds
  BY <1>3, SMT DEF UniqueIds
<1>9. AccountInv
  <2>1. \A b \in Batches, e \in BOOLEAN : WithError(b, e) = {}
    BY <1>2, Zenon DEF WithError
  <2>2. \A b \in Batches, i \in 1 .. MaxBatchSize : pc[<<b, i>>] \notin Resolved
    <3>1. \A b \in Batches, i \in 1 .. MaxBatchSize : <<b, i>> \in Workers
      BY Zenon DEF Workers
    <3>2. "none" \notin Resolved
      BY Zenon DEF Resolved
    <3>. QED  BY <1>1, <3>1, <3>2, Zenon
  <2>. QED  BY <1>2, <1>3, <2>1, <2>2, FS_EmptySet, Zenon DEF AccountInv
<1>. QED  BY <1>4, <1>5, <1>6, <1>7, <1>8, <1>9, Zenon DEF IInv

LEMMA Invariance == Spec => []IInv
PROOF
<1>1. Init => IInv
  BY Initially
<1>2. IInv /\ [Next]_vars => IInv'
  BY TypeStep, CountStep, PlaceStep, OrderStep, UniqueStep, AccountStep, Zenon DEF IInv
<1>. QED  BY <1>1, <1>2, PTL DEF Spec

----
(* The theorems *)

\* Every variable keeps its type: the semaphore and the wait group never go
\* below zero or above their limits, no request is retried more than MaxRetries
\* times (batch.go:216-234, 296-332).
THEOREM TypeCorrect == Spec => []TypeOK
PROOF
<1>1. IInv => TypeOK
  BY Zenon DEF IInv
<1>. QED  BY <1>1, Invariance, PTL

\* No more than MaxConcurrency requests or callbacks run at once, for batches of
\* any size and any interleaving (batch.go:216-234).
THEOREM ConcurrencyBounded == Spec => []ConcurrencyBound
PROOF
<1>1. IInv => ConcurrencyBound
  <2>. SUFFICES ASSUME IInv  PROVE ConcurrencyBound
    OBVIOUS
  <2>1. SemOK /\ sem = Cardinality(InSlot)
    BY TypeParts, Zenon DEF IInv, CountInv
  <2>2. sem <= MaxConcurrency
    BY <2>1, ConcurrencyAssumption, SMT DEF SemOK
  <2>. QED  BY <2>1, <2>2, Zenon DEF ConcurrencyBound
<1>. QED  BY <1>1, Invariance, PTL

\* Each resolved request has its own entry in Responses, and the counters agree
\* with the entries, for any IDs that callers give (batch.go:111-133, 261-294).
THEOREM ResultsAccounted == Spec => []Accounted
PROOF
<1>1. IInv => Accounted
  BY Zenon DEF IInv, AccountInv, Accounted
<1>. QED  BY <1>1, Invariance, PTL

\* Execute returns when all of its requests are resolved and all of its
\* goroutines are over, and a pipeline starts no batch before that nor after one
\* that failed more often than not (batch.go:237, 476-494).
THEOREM BatchesInOrder == Spec => []OneAfterTheOther
PROOF
<1>1. IInv => OneAfterTheOther
  <2>. SUFFICES ASSUME IInv, NEW b \in Batches, b < current \/ (b = current /\ Ended)
                PROVE  /\ \A i \in 1 .. Len(requests[b]) : pc[<<b, i>>] \in {"done", "refused"}
                       /\ b < current => failure[b] <= success[b]
    BY Zenon DEF OneAfterTheOther
  <2>0. TypeOK /\ PlaceInv /\ OrderInv /\ pc \in [Workers -> Places]
    BY Zenon DEF IInv, TypeOK
  <2>1. ASSUME NEW i \in 1 .. Len(requests[b])  PROVE pc[<<b, i>>] \in {"done", "refused"}
    <3>1. i \in 1 .. MaxBatchSize /\ i <= Len(requests[b]) /\ i \in Nat /\ Len(requests[b]) \in Nat
      BY <2>0, Sizes, SMT
    <3>2. PICK w \in Workers : w = <<b, i>> /\ w[1] = b /\ w[2] = i
      <4>1. <<b, i>> \in Workers
        BY <3>1, Zenon DEF Workers
      <4>. QED  BY <4>1
    <3>3. pc[w] # "none"
      <4>1. CASE b < current
        BY <2>0, <3>1, <3>2, <4>1, Zenon DEF PlaceInv
      <4>2. CASE b = current /\ Ended
        <5>1. next > Len(requests[current])
          BY <2>0, <4>2, Zenon DEF PlaceInv, Ended
        <5>2. i < next
          BY <2>0, <3>1, <4>2, <5>1, Sizes, SMT
        <5>. QED  BY <2>0, <3>2, <4>2, <5>2, Zenon DEF PlaceInv
      <4>. QED  BY <4>1, <4>2
    <3>4. w \notin Running
      <4>1. ~(w[1] = current /\ ~Ended)
        BY <2>0, <3>2, Sizes, SMT DEF Batches
      <4>. QED  BY <2>0, <4>1, Zenon DEF OrderInv
    <3>5. pc[w] \in Places
      BY <2>0, Zenon
    <3>. QED  BY <3>2, <3>3, <3>4, <3>5, Zenon DEF Running, SlotPlaces, Places
  <2>2. b < current => failure[b] <= success[b]
    BY <2>0, Zenon DEF OrderInv
  <2>. QED  BY <2>1, <2>2
<1>. QED  BY <1>1, Invariance, PTL

----
(* Nobody waits for ever *)

\* The main goroutine never waits for a slot that nobody holds, nor for a goroutine
\* that is over (batch.go:216-237): whoever it waits for is a worker of the same batch
\* that is still on its way.
WaitsAreOwed ==
    /\ main = "placing" /\ ~SlotFree /\ MaxConcurrency > 0 =>
          \E w \in InSlot : w[1] = current
    /\ main = "waiting" /\ ~AllDone =>
          \E w \in Workers : w[1] = current /\ (w \in InSlot \/ pc[w] = "released")

\* So it is for every batch and limit: the semaphore and the wait group count workers still on
\* their way, whose steps wait for nobody but the server and the callback.
THEOREM NobodyWaitsInVain == Spec => []WaitsAreOwed
PROOF
<1>1. IInv => WaitsAreOwed
  <2>. SUFFICES ASSUME IInv  PROVE WaitsAreOwed
    OBVIOUS
  <2>0. /\ SemOK /\ PendingOK
        /\ sem = Cardinality(InSlot) /\ pending = Cardinality(Running)
        /\ \A w \in Running : w[1] = current
    BY TypeParts, Zenon DEF IInv, CountInv, OrderInv
  <2>1. InSlot \subseteq Running
    BY Zenon DEF InSlot, Running, SlotPlaces
  <2>2. \A w \in Running : w \in Workers /\ (w \in InSlot \/ pc[w] = "released")
    BY Zenon DEF InSlot, Running, SlotPlaces
  <2>3. ASSUME ~SlotFree, MaxConcurrency > 0  PROVE \E w \in InSlot : w[1] = current
    <3>1. sem # 0
      BY <2>0, <2>3, ConcurrencyAssumption, SMT DEF SemOK, SlotFree
    <3>2. InSlot # {}
      BY <2>0, <3>1, FS_EmptySet, Zenon
    <3>. QED  BY <2>0, <2>1, <3>2, Zenon
  <2>4. ASSUME ~AllDone
        PROVE  \E w \in Workers : w[1] = current /\ (w \in InSlot \/ pc[w] = "released")
    <3>1. Running # {}
      BY <2>0, <2>4, FS_EmptySet, Zenon DEF AllDone
    <3>. QED  BY <2>0, <2>2, <3>1, Zenon
  <2>. QED  BY <2>3, <2>4, Zenon DEF WaitsAreOwed
<1>. QED  BY <1>1, Invariance, PTL

\* The most steps a worker has left: two for each retry, then the way out.
StepsFrom(where, tries) ==
    CASE where = "none"     -> 2 * MaxRetries + 7
      [] where = "backoff"  -> 2 * (MaxRetries - tries) + 6
      [] where = "sending"  -> 2 * (MaxRetries - tries) + 5
      [] where = "answered" -> 4
      [] where = "calling"  -> 3
      [] where = "leaving"  -> 2
      [] where = "released" -> 1
      [] OTHER              -> 0

StepsLeft(w) == StepsFrom(pc[w], attempt[w])

\* What the main goroutine has left of the current batch.
MainLeft ==
    CASE main = "placing" -> MaxBatchSize + 3 - next
      [] main = "waiting" -> 1
      [] OTHER            -> 0

EachStepCounts ==
    /\ \A w \in Workers :
        /\ StepsLeft(w) \in 0 .. 2 * MaxRetries + 7
        /\ StepsLeft(w)' <= StepsLeft(w)
        /\ (Answer(w) \/ OwnStep(w)) => StepsLeft(w)' < StepsLeft(w)
    /\ MainLeft \in 0 .. MaxBatchSize + 2
    /\ Executing /\ Main => current' = current + 1 \/ (current' = current /\ MainLeft' < MainLeft)
    /\ ~Main => current' = current /\ MainLeft' = MainLeft

LEMMA StepsTyped ==
  /\ \A where, t : t \in 0 .. MaxRetries => StepsFrom(where, t) \in 0 .. 2 * MaxRetries + 7
  /\ MaxRetries \in Nat
PROOF
  BY RetriesAssumption, SMT DEF StepsFrom

\* Which ways lead on.
LEMMA StepsDown ==
  ASSUME NEW t \in 0 .. MaxRetries, NEW u \in 0 .. MaxRetries
  PROVE  /\ StepsFrom("sending", t) < StepsFrom("none", u) /\ StepsFrom("refused", t) < StepsFrom("none", u)
         /\ t = u + 1 => StepsFrom("backoff", t) < StepsFrom("sending", u)
         /\ StepsFrom("sending", t) < StepsFrom("backoff", t)
         /\ StepsFrom("answered", t) < StepsFrom("sending", u)
         /\ StepsFrom("answered", t) < StepsFrom("backoff", u)
         /\ StepsFrom("calling", t) < StepsFrom("answered", u)
         /\ StepsFrom("leaving", t) < StepsFrom("answered", u)
         /\ StepsFrom("leaving", t) < StepsFrom("calling", u)
         /\ StepsFrom("released", t) < StepsFrom("leaving", u)
         /\ StepsFrom("done", t) < StepsFrom("released", u)
PROOF
  BY RetriesAssumption, SMT DEF StepsFrom

\* A worker's step takes it a step down and leaves the others where they are.
LEMMA WorkerStepsDown ==
  ASSUME TypeOK, TypeOK', NEW w \in Workers, Answer(w) \/ OwnStep(w)
  PROVE  /\ StepsLeft(w)' < StepsLeft(w)
         /\ \A v \in Workers \ {w} : StepsLeft(v)' = StepsLeft(v)
PROOF
<1>0. /\ attempt \in [Workers -> 0 .. MaxRetries] /\ attempt' \in [Workers -> 0 .. MaxRetries]
      /\ pc \in [Workers -> Places] /\ pc' \in [Workers -> Places]
  BY Zenon DEF TypeOK
<1>1. attempt[w] \in 0 .. MaxRetries /\ attempt'[w] \in 0 .. MaxRetries
  BY <1>0, Zenon
<1>2. \/ pc[w] = "sending" /\ pc'[w] = "backoff" /\ attempt'[w] = attempt[w] + 1
      \/ pc[w] \in {"sending", "backoff"} /\ pc'[w] = "answered"
      \/ pc[w] = "backoff" /\ pc'[w] = "sending" /\ attempt'[w] = attempt[w]
      \/ pc[w] = "answered" /\ pc'[w] \in {"calling", "leaving"}
      \/ pc[w] = "calling" /\ pc'[w] = "leaving"
      \/ pc[w] = "leaving" /\ pc'[w] = "released"
      \/ pc[w] = "released" /\ pc'[w] = "done"
  <2>1. CASE Answer(w)
    <3>1. PICK reply \in Replies :
            /\ Step(w, "sending", IF TriesAgain(w, reply) THEN "backoff" ELSE "answered")
            /\ TriesAgain(w, reply) => attempt' = [attempt EXCEPT ![w] = @ + 1]
      BY <2>1, Zenon DEF Answer
    <3>2. CASE TriesAgain(w, reply)
      BY <1>0, <3>1, <3>2, SMT DEF Step
    <3>3. CASE ~TriesAgain(w, reply)
      BY <1>0, <3>1, <3>3, SMT DEF Step
    <3>. QED  BY <3>2, <3>3
  <2>2. CASE BackoffElapsed(w)
    BY <1>0, <2>2, SMT DEF BackoffElapsed, Step
  <2>3. CASE BackoffCancelled(w)
    BY <1>0, <2>3, SMT DEF BackoffCancelled, Step
  <2>4. CASE Record(w)
    BY <1>0, <2>4, SMT DEF Record, Step
  <2>5. CASE CallbackReturns(w) \/ Release(w) \/ Done(w)
    BY <1>0, <2>5, SMT DEF CallbackReturns, Release, Done, Step
  <2>. QED  BY <2>1, <2>2, <2>3, <2>4, <2>5, Zenon DEF OwnStep
<1>3. StepsLeft(w) = StepsFrom(pc[w], attempt[w]) /\ StepsLeft(w)' = StepsFrom(pc'[w], attempt'[w])
  BY Zenon DEF StepsLeft
<1>4. StepsLeft(w)' < StepsLeft(w)
  BY <1>1, <1>2, <1>3, StepsDown, Zenon
<1>5. ASSUME NEW v \in Workers \ {w}  PROVE StepsLeft(v)' = StepsLeft(v)
  <2>1. \E from, to : Moves(w, from, to)
    BY WorkerMoves, Zenon
  <2>2. pc'[v] = pc[v]
    BY <1>0, <2>1, SMT DEF Moves
  <2>3. attempt' = attempt \/ \E n : attempt' = [attempt EXCEPT ![w] = n]
    BY Zenon DEF Answer, OwnStep, BackoffElapsed, BackoffCancelled, Record, CallbackReturns,
       Release, Done, Bring
  <2>4. attempt'[v] = attempt[v]
    BY <1>0, <2>3, SMT
  <2>. QED  BY <2>2, <2>4, Zenon DEF StepsLeft
<1>. QED  BY <1>4, <1>5

\* So does a step of the main goroutine, which starts or refuses one worker at most.
LEMMA MainStepsDown ==
  ASSUME IInv, TypeOK', Main, Executing
  PROVE  /\ \A w \in Workers : StepsLeft(w)' <= StepsLeft(w)
         /\ current' = current + 1 \/ (current' = current /\ MainLeft' < MainLeft)
PROOF
<1>0. /\ TypeOK /\ PlaceInv
      /\ pc \in [Workers -> Places] /\ attempt \in [Workers -> 0 .. MaxRetries]
      /\ next \in 1 .. MaxBatchSize + 1 /\ MaxBatchSize \in Nat
  BY SizeAssumption, Zenon DEF IInv, TypeOK
<1>1. \A w \in Workers : StepsLeft(w) \in 0 .. 2 * MaxRetries + 7 /\ 2 * MaxRetries + 7 \in Nat
  <2>1. 2 * MaxRetries + 7 \in Nat
    BY RetriesAssumption, SMT
  <2>. QED  BY <1>0, <2>1, StepsTyped, Zenon DEF StepsLeft
<1>2. ASSUME pc' = pc, attempt' = attempt
      PROVE  \A w \in Workers : StepsLeft(w)' <= StepsLeft(w)
  <2>1. \A w \in Workers : StepsLeft(w)' = StepsLeft(w)
    BY <1>2, Zenon DEF StepsLeft
  <2>. QED  BY <1>1, <2>1, SMT
<1>3. CASE Place \/ Refuse
  <2>1. /\ attempt' = attempt /\ current' = current /\ main' = main /\ next' = next + 1
        /\ \E to \in {"sending", "refused"} : pc' = [pc EXCEPT ![<<current, next>>] = to]
    BY <1>3, Zenon DEF Place, Refuse
  <2>2. /\ <<current, next>> \in Workers /\ pc[<<current, next>>] = "none" /\ main = "placing"
        /\ next \in 1 .. MaxBatchSize
    BY <1>0, <1>3, Placed, Zenon DEF Place, Refuse
  <2>3. ASSUME NEW w \in Workers  PROVE StepsLeft(w)' <= StepsLeft(w)
    <3>1. CASE w = <<current, next>>
      <4>1. pc'[w] \in {"sending", "refused"} /\ pc[w] = "none" /\ attempt'[w] = attempt[w]
        BY <1>0, <2>1, <2>2, <3>1, SMT
      <4>2. StepsLeft(w)' < StepsLeft(w)
        BY <1>0, <4>1, StepsDown, Zenon DEF StepsLeft
      <4>3. StepsLeft(w) \in Int /\ StepsLeft(w)' \in Int
        BY <1>0, <4>1, RetriesAssumption, SMT DEF StepsLeft, StepsFrom
      <4>. QED  BY <4>2, <4>3, SMT
    <3>2. CASE w # <<current, next>>
      <4>1. pc'[w] = pc[w] /\ attempt'[w] = attempt[w]
        BY <1>0, <2>1, <3>2, SMT
      <4>2. StepsLeft(w)' = StepsLeft(w)
        BY <4>1, Zenon DEF StepsLeft
      <4>. QED  BY <1>1, <4>2, SMT
    <3>. QED  BY <3>1, <3>2
  <2>4. MainLeft' < MainLeft
    BY <1>0, <2>1, <2>2, SMT DEF MainLeft
  <2>. QED  BY <2>1, <2>3, <2>4
<1>4. CASE AllPlaced
  <2>1. pc' = pc /\ attempt' = attempt /\ current' = current /\ main = "placing" /\ main' = "waiting"
    BY <1>4, Zenon DEF AllPlaced, workerVars
  <2>2. MainLeft' < MainLeft
    BY <1>0, <2>1, SMT DEF MainLeft
  <2>. QED  BY <1>2, <2>1, <2>2
<1>5. CASE Return
  <2>1. /\ pc' = pc /\ attempt' = attempt /\ main = "waiting"
        /\ current' = current + 1 \/ (current' = current /\ main' \in {"returned", "stopped"})
    BY <1>0, <1>5, Returning, Zenon DEF workerVars
  <2>2. main' \in {"returned", "stopped"} => MainLeft' < MainLeft
    BY <2>1, SMT DEF MainLeft
  <2>. QED  BY <1>2, <2>1, <2>2
<1>6. ~Execute
  BY Zenon DEF Execute, Executing
<1>. QED  BY <1>3, <1>4, <1>5, <1>6, Zenon DEF Main

\* Every goroutine of an Execute is on its way out: a worker takes at most two steps for each retry
\* and seven more, whatever is answered and whenever the context ends, and the main goroutine one
\* for each request and two more for each batch. With NobodyWaitsInVain, an Execute returns unless
\* the server or a callback never does (executeWithRetry, batch.go:216-237, 296-332).
THEOREM NoEndlessExecute == Spec => [][EachStepCounts]_vars
PROOF
<1>1. ASSUME IInv, IInv', [Next]_vars  PROVE EachStepCounts
  <2>0. /\ TypeOK /\ TypeOK' /\ attempt \in [Workers -> 0 .. MaxRetries]
        /\ main \in {"building", "placing", "waiting", "returned", "stopped"}
        /\ next \in 1 .. MaxBatchSize + 1 /\ MaxBatchSize \in Nat
    BY <1>1, SizeAssumption, Zenon DEF IInv, TypeOK
  <2>1. \A w \in Workers : StepsLeft(w) \in 0 .. 2 * MaxRetries + 7 /\ 2 * MaxRetries + 7 \in Nat
    <3>1. 2 * MaxRetries + 7 \in Nat
      BY RetriesAssumption, SMT
    <3>. QED  BY <2>0, <3>1, StepsTyped, Zenon DEF StepsLeft
  <2>2. MainLeft \in 0 .. MaxBatchSize + 2
    BY <2>0, SMT DEF MainLeft
  <2>3. ASSUME pc' = pc, attempt' = attempt
        PROVE  \A w \in Workers : StepsLeft(w)' = StepsLeft(w)
    BY <2>3, Zenon DEF StepsLeft
  <2>a. \A w \in Workers : StepsLeft(w)' = StepsLeft(w) => StepsLeft(w)' <= StepsLeft(w)
    BY <2>1, SMT
  <2>b. \A w \in Workers : Answer(w) \/ OwnStep(w) => StepsLeft(w)' < StepsLeft(w)
    BY <2>0, WorkerStepsDown, Zenon
  <2>c. \A w \in Workers : StepsLeft(w)' < StepsLeft(w) => StepsLeft(w)' <= StepsLeft(w)
    <3>1. \A w \in Workers : StepsLeft(w)' \in Int
      <4>1. attempt' \in [Workers -> 0 .. MaxRetries]
        BY <2>0, Zenon DEF TypeOK
      <4>. QED  BY <4>1, RetriesAssumption, SMT DEF StepsLeft, StepsFrom
    <3>. QED  BY <2>1, <3>1, SMT
  <2>4. CASE \E w \in Workers : Answer(w) \/ OwnStep(w)
    <3>1. PICK w \in Workers : Answer(w) \/ OwnStep(w)
      BY <2>4
    <3>2. main' = main /\ current' = current /\ next' = next
      BY <2>0, <3>1, WorkerMoves, Zenon DEF mainVars
    <3>3. MainLeft' = MainLeft
      BY <3>2, Zenon DEF MainLeft
    <3>4. ~Main
      <4>1. next + 1 # next /\ "placing" # "building" /\ "waiting" # "placing"
            /\ "placing" # "waiting" /\ "returned" # "waiting" /\ "stopped" # "waiting"
        BY <2>0, SMT
      <4>2. ~Execute /\ ~Place /\ ~Refuse /\ ~AllPlaced
        BY <3>2, <4>1, Zenon DEF Execute, Place, Refuse, AllPlaced
      <4>3. ~Return
        BY <2>0, <3>2, <4>1, Returning, Zenon
      <4>. QED  BY <4>2, <4>3, Zenon DEF Main
    <3>5. \A v \in Workers : StepsLeft(v)' <= StepsLeft(v)
      BY <2>0, <2>a, <2>c, <3>1, WorkerStepsDown, Zenon
    <3>. QED  BY <2>1, <2>2, <2>b, <3>2, <3>3, <3>4, <3>5, Zenon DEF EachStepCounts
  <2>5. CASE Main
    <3>1. CASE Executing
      BY <1>1, <2>0, <2>1, <2>2, <2>5, <2>b, <3>1, MainStepsDown, Zenon DEF EachStepCounts
    <3>2. CASE ~Executing
      <4>1. Execute
        BY <2>5, <3>2, Zenon DEF Main, Place, Refuse, AllPlaced, Return, Placing, Executing
      <4>2. pc' = pc /\ attempt' = attempt
        BY <4>1, Zenon DEF Execute, workerVars
      <4>. QED  BY <2>1, <2>2, <2>3, <2>5, <2>a, <2>b, <3>2, <4>2, Zenon DEF EachStepCounts
    <3>. QED  BY <3>1, <3>2
  <2>6. ASSUME ~Main, ~\E w \in Workers : Answer(w) \/ OwnStep(w)
        PROVE  EachStepCounts
    <3>1. /\ pc' = pc /\ attempt' = attempt
          /\ main' = main /\ current' = current /\ next' = next
      <4>1. CASE \/ \E o \in Offers : Add(o[1], o[2])
                 \/ \E b \in Batches : Clear(b)
                 \/ CancelContext \/ Expire
        BY <4>1, Zenon DEF Add, Clear, CancelContext, Expire, mainVars, workerVars
      <4>2. CASE Finished \/ UNCHANGED vars
        BY <4>2, Zenon DEF Finished, vars, mainVars, workerVars
      <4>. QED  BY <1>1, <2>6, <4>1, <4>2, Zenon DEF Next
    <3>2. MainLeft' = MainLeft
      BY <3>1, Zenon DEF MainLeft
    <3>. QED  BY <2>1, <2>2, <2>3, <2>6, <2>a, <2>b, <3>1, <3>2, Zenon DEF EachStepCounts
  <2>. QED  BY <2>4, <2>5, <2>6
<1>2. IInv /\ IInv' /\ [Next]_vars => [EachStepCounts]_vars
  BY <1>1, Zenon
<1>. QED  BY <1>2, Invariance, PTL DEF Spec
====
