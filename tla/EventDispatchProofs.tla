---- MODULE EventDispatchProofs ----
(*****************************************************************************)
(* Proofs about EventDispatch for any handlers, events, slots and buffers:   *)
(* slots, the registry, what still comes after a Cancel or Stop, and what    *)
(* streams lose. Tasks are counted: by slot, past their check, on the way.   *)
(*****************************************************************************)
EXTENDS EventDispatch, FiniteSetTheorems, SequenceTheorems, TLAPS

Increasing(list) == \A m, n \in DOMAIN list : m < n => list[m] < list[n]
Items(list) == {list[n] : n \in DOMAIN list}

\* The tasks of S for handler i, and how many.
Of(S, i) == {k \in S : k.to = i}
Count(S, i) == Cardinality(Of(S, i))

Going == queued \union Holding

RegistryInv ==
    /\ handlers \in [Topics -> Seq(Ids)]
    /\ nextHandlerID \in 0 .. MaxHandlers
    /\ kind \in [Ids -> Kinds]
    /\ topic \in [Ids -> Topics]
    /\ withdrawn \subseteq Ids
    /\ \A i \in Ids : i > nextHandlerID => kind[i] = "none" /\ i \notin withdrawn
    /\ StaysRegistered

TaskInv ==
    /\ queued \subseteq Tasks /\ entered \subseteq Tasks /\ passed \subseteq Tasks
    /\ queued \intersect Holding = {} /\ entered \intersect passed = {}
    /\ arrived \in 0 .. MaxEvents
    /\ \A k \in Going : k.event <= arrived /\ k.to <= nextHandlerID
    /\ handlerSem = Cardinality(Holding)
    /\ handlerSem \in 0 .. MaxConcurrentHandlers

\* Tasks past their check when the end came count as if they were late already.
EndInv ==
    /\ ended \subseteq Ids /\ cancelling \subseteq ended
    /\ late \in [Ids -> Nat]
    /\ \A i \in ended : kind[i] \in {"subscription", "stream"}
    /\ \A i \in Ids : i \notin ended => late[i] = 0
    /\ \A i \in ended : late[i] + Count(passed, i) <= MaxConcurrentHandlers

StreamInv ==
    /\ buffer \in [Ids -> 0 .. BufferSize]
    /\ crowded \subseteq Ids /\ lost \subseteq crowded
    /\ \A i \in Ids : i > nextHandlerID => buffer[i] = 0
    /\ \A i \in Streams : i \notin crowded => Count(Going, i) + buffer[i] <= BufferSize

Inv == RegistryInv /\ TaskInv /\ EndInv /\ StreamInv

----
(* Lists of handlers *)

LEMMA Appending ==
  ASSUME NEW list \in Seq(Ids), NEW i \in Ids, Increasing(list), \A n \in DOMAIN list : list[n] < i
  PROVE  /\ Append(list, i) \in Seq(Ids)
         /\ Increasing(Append(list, i))
         /\ Items(Append(list, i)) = Items(list) \union {i}
PROOF
<1>. DEFINE l == Append(list, i)
<1>1. /\ l \in Seq(Ids)
      /\ Len(l) = Len(list) + 1
      /\ \A n \in 1 .. Len(list) : l[n] = list[n]
      /\ l[Len(list) + 1] = i
  BY SMT
<1>2. DOMAIN l = 1 .. Len(list) + 1 /\ DOMAIN list = 1 .. Len(list) /\ Len(list) \in Nat
  BY <1>1, SMT
<1>. HIDE DEF l
<1>3. Increasing(l)
  BY <1>1, <1>2, SMT DEF Increasing
<1>4. Items(l) = Items(list) \union {i}
  BY <1>1, <1>2, SMT DEF Items
<1>. QED  BY <1>1, <1>3, <1>4 DEF l

LEMMA Removing ==
  ASSUME NEW list \in Seq(Ids), NEW i \in Ids, Increasing(list)
  PROVE  /\ Without(list, i) \in Seq(Ids)
         /\ Increasing(Without(list, i))
         /\ Items(Without(list, i)) = Items(list) \ {i}
PROOF
<1>1. CASE ~ \E n \in DOMAIN list : list[n] = i
  <2>1. Without(list, i) = list
    BY <1>1, Zenon DEF Without
  <2>2. i \notin Items(list)
    BY <1>1, Zenon DEF Items
  <2>. QED  BY <2>1, <2>2, Zenon
<1>2. CASE \E n \in DOMAIN list : list[n] = i
  <2>1. PICK p \in DOMAIN list : p = Place(list, i) /\ list[p] = i
    BY <1>2, Zenon DEF Place
  <2>. DEFINE l == [n \in 1 .. Len(list) - 1 |-> IF n < p THEN list[n] ELSE list[n + 1]]
  <2>2. Without(list, i) = l
    BY <1>2, <2>1, Zenon DEF Without
  <2>3. /\ DOMAIN list = 1 .. Len(list) /\ Len(list) \in Nat /\ Len(list) >= 1
        /\ \A n \in DOMAIN list : list[n] \in Ids
    BY <2>1, SMT
  <2>4. Len(list) - 1 \in Nat
    BY <2>3, SMT
  <2>5. \A n \in 1 .. Len(list) - 1 : n \in DOMAIN list /\ n + 1 \in DOMAIN list
    BY <2>3, SMT
  <2>6. DOMAIN l = 1 .. Len(list) - 1
    BY Zenon
  <2>7. \A n \in 1 .. Len(list) - 1 : l[n] = IF n < p THEN list[n] ELSE list[n + 1]
    BY Zenon
  <2>8. l \in Seq(Ids)
    <3>1. l \in [1 .. Len(list) - 1 -> Ids]
      BY <2>3, <2>5, Zenon
    <3>. QED  BY <2>4, <3>1, SMT
  <2>. HIDE DEF l
  <2>9. Increasing(l)
    <3> SUFFICES ASSUME NEW m \in 1 .. Len(list) - 1, NEW n \in 1 .. Len(list) - 1, m < n
                 PROVE  l[m] < l[n]
      BY <2>6, Zenon DEF Increasing
    <3>1. m + 1 < n + 1 /\ m < n + 1 /\ (n < p => m < p)
      BY <2>1, <2>3, SMT
    <3>2. /\ list[m] < list[n] /\ list[m] < list[n + 1] /\ list[m + 1] < list[n + 1]
      BY <2>5, <3>1, Zenon DEF Increasing
    <3>. QED  BY <2>7, <3>1, <3>2, Zenon
  <2>10. Items(l) = Items(list) \ {i}
    <3>1. \A n \in DOMAIN l : l[n] \in Items(list) /\ l[n] # i
      <4> SUFFICES ASSUME NEW n \in 1 .. Len(list) - 1
                   PROVE  l[n] \in Items(list) /\ l[n] # i
        BY <2>6, Zenon
      <4>1. CASE n < p
        BY <2>1, <2>3, <2>5, <2>7, <4>1, SMT DEF Increasing, Ids, Items
      <4>2. CASE ~(n < p)
        <5>1. p < n + 1 /\ l[n] = list[n + 1]
          BY <2>1, <2>3, <2>7, <4>2, SMT
        <5>2. i < list[n + 1] /\ list[n + 1] \in Ids
          BY <2>1, <2>3, <2>5, <5>1, Zenon DEF Increasing
        <5>3. list[n + 1] # i
          BY <5>2, SMT DEF Ids
        <5>. QED  BY <2>5, <5>1, <5>3, Zenon DEF Items
      <4>. QED  BY <4>1, <4>2
    <3>2. ASSUME NEW m \in DOMAIN list, list[m] # i  PROVE list[m] \in Items(l)
      <4>1. CASE m < p
        <5>1. m \in 1 .. Len(list) - 1
          BY <2>1, <2>3, <4>1, SMT
        <5>. QED  BY <2>6, <2>7, <4>1, <5>1, Zenon DEF Items
      <4>2. CASE ~(m < p)
        <5>1. m - 1 \in 1 .. Len(list) - 1 /\ ~(m - 1 < p) /\ (m - 1) + 1 = m
          BY <2>1, <2>3, <3>2, <4>2, SMT
        <5>. QED  BY <2>6, <2>7, <5>1, Zenon DEF Items
      <4>. QED  BY <4>1, <4>2
    <3>3. Items(l) \subseteq Items(list) \ {i}
      BY <3>1, Zenon DEF Items
    <3>4. Items(list) \ {i} \subseteq Items(l)
      BY <3>2, Zenon DEF Items
    <3>. QED  BY <3>3, <3>4, Zenon
  <2>. QED  BY <2>2, <2>8, <2>9, <2>10, Zenon
<1>. QED  BY <1>1, <1>2

----
(* Counting tasks *)

LEMMA FiniteTasks == IsFiniteSet(Tasks)
PROOF
<1>1. MaxHandlers \in Int /\ MaxEvents \in Int /\ 1 \in Int
  BY BoundsAssumption, SMT
<1>2. IsFiniteSet(Ids) /\ IsFiniteSet(Events)
  BY <1>1, FS_Interval, Zenon DEF Ids, Events
<1>3. IsFiniteSet(Ids \X Events)
  BY <1>2, FS_Product, Zenon
<1>. DEFINE f == [p \in Ids \X Events |-> [to |-> p[1], event |-> p[2]]]
<1>4. f \in [Ids \X Events -> Tasks]
  BY SMT DEF Tasks
<1>5. \A k \in Tasks : \E p \in Ids \X Events : f[p] = k
  <2> SUFFICES ASSUME NEW k \in Tasks
               PROVE  \E p \in Ids \X Events : f[p] = k
    OBVIOUS
  <2>1. k.to \in Ids /\ k.event \in Events /\ k = [to |-> k.to, event |-> k.event]
    BY SMT DEF Tasks
  <2>2. <<k.to, k.event>> \in Ids \X Events
    BY <2>1, SMT
  <2>3. f[<<k.to, k.event>>] = k
    BY <2>1, <2>2, SMT
  <2>. QED  BY <2>2, <2>3, Zenon
<1>6. f \in Surjection(Ids \X Events, Tasks)
  BY <1>4, <1>5, Zenon DEF Surjection
<1>. QED  BY <1>3, <1>6, FS_Surjection, Zenon

LEMMA FiniteSome ==
  ASSUME NEW S, S \subseteq Tasks
  PROVE  /\ IsFiniteSet(S) /\ Cardinality(S) \in Nat
         /\ \A i : IsFiniteSet(Of(S, i)) /\ Count(S, i) \in Nat /\ Count(S, i) <= Cardinality(S)
PROOF
<1>1. IsFiniteSet(S)
  BY FiniteTasks, FS_Subset, Zenon
<1>2. \A i : Of(S, i) \in SUBSET S
  BY Zenon DEF Of
<1>. QED  BY <1>1, <1>2, FS_Subset, FS_CardinalityType, Zenon DEF Count

LEMMA Entering ==
  ASSUME NEW S, IsFiniteSet(S), NEW x, x \notin S
  PROVE  Cardinality(S \union {x}) = Cardinality(S) + 1
PROOF
  BY FS_AddElement, Zenon

LEMMA Leaving ==
  ASSUME NEW S, IsFiniteSet(S), NEW x \in S
  PROVE  /\ Cardinality(S) \in Nat
         /\ Cardinality(S \ {x}) = Cardinality(S) - 1 /\ Cardinality(S \ {x}) \in Nat
PROOF
<1>1. IsFiniteSet(S \ {x})
  BY FS_Subset, S \ {x} \subseteq S, Zenon
<1>2. x \notin S \ {x} /\ (S \ {x}) \union {x} = S
  BY Zenon
<1>3. Cardinality(S) = Cardinality(S \ {x}) + 1 /\ Cardinality(S \ {x}) \in Nat
  BY <1>1, <1>2, Entering, FS_CardinalityType, Zenon
<1>. QED  BY <1>3, SMT

\* A task leaves S.
LEMMA OneLess ==
  ASSUME NEW S, S \subseteq Tasks, NEW k \in S
  PROVE  /\ Cardinality(S \ {k}) = Cardinality(S) - 1
         /\ \A i : i # k.to => Count(S \ {k}, i) = Count(S, i)
         /\ Count(S \ {k}, k.to) = Count(S, k.to) - 1
PROOF
<1>1. Of(S \ {k}, k.to) = Of(S, k.to) \ {k} /\ k \in Of(S, k.to)
  BY Zenon DEF Of
<1>2. \A i : i # k.to => Of(S \ {k}, i) = Of(S, i)
  BY Zenon DEF Of
<1>3. IsFiniteSet(S) /\ IsFiniteSet(Of(S, k.to))
  BY FiniteSome, Zenon
<1>. QED  BY <1>1, <1>2, <1>3, Leaving, Zenon DEF Count

\* A task joins S.
LEMMA OneMore ==
  ASSUME NEW S, S \subseteq Tasks, NEW k \in Tasks, k \notin S
  PROVE  /\ Cardinality(S \union {k}) = Cardinality(S) + 1
         /\ \A i : i # k.to => Count(S \union {k}, i) = Count(S, i)
PROOF
<1>1. \A i : i # k.to => Of(S \union {k}, i) = Of(S, i)
  BY Zenon DEF Of
<1>2. IsFiniteSet(S)
  BY FiniteSome, Zenon
<1>. QED  BY <1>1, <1>2, Entering, Zenon DEF Count

----
(* The registry *)

LEMMA Registered ==
  StaysRegistered <=>
    \A t \in Topics :
        /\ Increasing(handlers[t])
        /\ Items(handlers[t]) = {i \in 1 .. nextHandlerID : topic[i] = t /\ i \notin withdrawn}
PROOF
  BY Zenon DEF StaysRegistered, Increasing, Items, Listed

LEMMA RegisterStep ==
  ASSUME Inv, NEW t \in Topics, NEW what \in {"plain", "subscription", "stream"}, Register(t, what)
  PROVE  Inv'
PROOF
<1>a. PICK n : n = nextHandlerID + 1
  OBVIOUS
<1>1. /\ nextHandlerID < MaxHandlers
      /\ nextHandlerID' = n
      /\ handlers' = [handlers EXCEPT ![t] = Append(@, n)]
      /\ kind' = [kind EXCEPT ![n] = what]
      /\ topic' = [topic EXCEPT ![n] = t]
      /\ UNCHANGED <<queued, entered, passed, handlerSem, late, ended, cancelling, buffer, crowded,
                     lost, arrived, withdrawn>>
  BY <1>a, Zenon DEF Register, running, streaming
<1>2. /\ n \in Ids /\ n \in 0 .. MaxHandlers /\ n > nextHandlerID
      /\ \A i \in 1 .. nextHandlerID : i < n
      /\ 1 .. n = (1 .. nextHandlerID) \union {n}
      /\ \A i \in Int : i > n => i > nextHandlerID
      /\ \A i \in Int : i <= nextHandlerID => i <= n
  <2>1. nextHandlerID \in 0 .. MaxHandlers
    BY Zenon DEF Inv, RegistryInv
  <2>. QED  BY <1>a, <1>1, <2>1, BoundsAssumption, SMT DEF Ids
<1>b. n \notin 1 .. nextHandlerID
  BY <1>2, SMT
<1>3. \A u \in Topics :
        /\ handlers[u] \in Seq(Ids)
        /\ Increasing(handlers[u])
        /\ Items(handlers[u]) = {i \in 1 .. nextHandlerID : topic[i] = u /\ i \notin withdrawn}
  BY Registered, Zenon DEF Inv, RegistryInv
<1>4. /\ handlers'[t] \in Seq(Ids)
      /\ Increasing(handlers'[t])
      /\ Items(handlers'[t]) = Items(handlers[t]) \union {n}
      /\ \A u \in Topics : u # t => handlers'[u] = handlers[u]
      /\ handlers' \in [Topics -> Seq(Ids)]
  <2>a. \A m \in DOMAIN handlers[t] : handlers[t][m] \in Items(handlers[t])
    BY Zenon DEF Items
  <2>1. \A m \in DOMAIN handlers[t] : handlers[t][m] < n
    BY <1>2, <1>3, <2>a, Zenon
  <2>2. /\ Append(handlers[t], n) \in Seq(Ids)
        /\ Increasing(Append(handlers[t], n))
        /\ Items(Append(handlers[t], n)) = Items(handlers[t]) \union {n}
    BY <1>2, <1>3, <2>1, Appending, Zenon
  <2>3. handlers'[t] = Append(handlers[t], n)
    BY <1>1, Zenon DEF Inv, RegistryInv
  <2>. QED  BY <1>1, <2>2, <2>3, Zenon DEF Inv, RegistryInv
<1>5. /\ kind' \in [Ids -> Kinds] /\ kind'[n] = what
      /\ \A i \in Ids : i # n => kind'[i] = kind[i]
  BY <1>1, <1>2, SMT DEF Inv, RegistryInv, Kinds
<1>6. /\ topic' \in [Ids -> Topics] /\ topic'[n] = t
      /\ \A i \in Ids : i # n => topic'[i] = topic[i]
  BY <1>1, <1>2, Zenon DEF Inv, RegistryInv
<1>7. n \notin withdrawn /\ kind[n] = "none" /\ buffer[n] = 0 /\ n \notin ended
  <2>1. n \notin withdrawn /\ kind[n] = "none" /\ buffer[n] = 0
    BY <1>2, Zenon DEF Inv, RegistryInv, StreamInv
  <2>2. "none" \notin {"subscription", "stream"}
    OBVIOUS
  <2>. QED  BY <2>1, <2>2, Zenon DEF Inv, EndInv
<1>8. StaysRegistered'
  <2>1. \A i \in 1 .. nextHandlerID : i \in Ids /\ i # n
    <3>1. nextHandlerID \in 0 .. MaxHandlers
      BY Zenon DEF Inv, RegistryInv
    <3>. QED  BY <1>b, <3>1, BoundsAssumption, SMT DEF Ids
  <2>2. \A u \in Topics : Increasing(handlers'[u])
    BY <1>3, <1>4, Zenon
  <2>3. ASSUME NEW u \in Topics
        PROVE  Items(handlers'[u]) = {i \in 1 .. n : topic'[i] = u /\ i \notin withdrawn'}
    <3>1. {i \in 1 .. n : topic'[i] = u /\ i \notin withdrawn'} =
            {i \in 1 .. nextHandlerID : topic[i] = u /\ i \notin withdrawn}
              \union (IF u = t THEN {n} ELSE {})
      BY <1>1, <1>2, <1>6, <1>7, <2>1, Zenon
    <3>. QED  BY <1>3, <1>4, <3>1, Zenon
  <2>. QED  BY <1>1, <2>2, <2>3, Zenon DEF StaysRegistered, Increasing, Items, Listed
<1>9. RegistryInv'
  <2>1. \A i \in Ids : i > n => kind'[i] = "none" /\ i \notin withdrawn
    <3> SUFFICES ASSUME NEW i \in Ids, i > n
                 PROVE  kind'[i] = "none" /\ i \notin withdrawn
      OBVIOUS
    <3>1. i # n /\ i > nextHandlerID
      BY <1>2, SMT DEF Ids
    <3>. QED  BY <1>5, <3>1, Zenon DEF Inv, RegistryInv
  <2>. QED  BY <1>1, <1>2, <1>4, <1>5, <1>6, <1>8, <2>1, Zenon DEF Inv, RegistryInv
<1>10. TaskInv'
  <2>1. \A k \in Going : k.to \in Int
    BY SMT DEF Inv, TaskInv, Going, Holding, Tasks, Ids
  <2>. QED  BY <1>1, <1>2, <2>1, Zenon DEF Inv, TaskInv, Going, Holding
<1>11. EndInv'
  BY <1>1, <1>5, <1>7, Zenon DEF Inv, EndInv, Count, Of
<1>12. StreamInv'
  <2>1. \A i \in Ids : i > n => buffer[i] = 0
    <3>1. \A i \in Ids : i > n => i > nextHandlerID
      BY <1>2, SMT DEF Ids
    <3>. QED  BY <3>1, Zenon DEF Inv, StreamInv
  <2>2. Count(Going, n) + buffer[n] <= BufferSize
    <3>1. \A k \in Going : k.to # n
      <4>1. \A k \in Going : k.to \in Ids /\ k.to <= nextHandlerID
        BY SMT DEF Inv, TaskInv, Going, Holding, Tasks
      <4>. QED  BY <1>2, <4>1, SMT DEF Ids
    <3>2. Of(Going, n) = {}
      BY <3>1, Zenon DEF Of
    <3>3. Count(Going, n) = 0
      BY <3>2, FS_EmptySet, Zenon DEF Count
    <3>. QED  BY <1>7, <3>3, BufferAssumption, SMT
  <2>3. \A i \in Streams' : i = n \/ i \in Streams
    BY <1>5, Zenon DEF Streams
  <2>. QED  BY <1>1, <2>1, <2>2, <2>3, Zenon DEF Inv, StreamInv, Going, Holding, Count, Of
<1>. QED  BY <1>9, <1>10, <1>11, <1>12, Zenon DEF Inv

\* The lists lose items, and all that were withdrawn.
LEMMA Unlisting ==
  ASSUME Inv, NEW t \in Topics, NEW S, NEW list \in Seq(Ids),
         Increasing(list), Items(list) = Items(handlers[t]) \ S,
         \A i \in S : i \in Ids /\ (i <= nextHandlerID => topic[i] = t) /\ i <= nextHandlerID,
         handlers' = [handlers EXCEPT ![t] = list],
         withdrawn' = withdrawn \union S,
         UNCHANGED <<nextHandlerID, kind, topic>>
  PROVE  RegistryInv'
PROOF
<1>1. \A u \in Topics :
        /\ Increasing(handlers[u])
        /\ Items(handlers[u]) = {i \in 1 .. nextHandlerID : topic[i] = u /\ i \notin withdrawn}
  BY Registered, Zenon DEF Inv, RegistryInv
<1>2. /\ handlers' \in [Topics -> Seq(Ids)]
      /\ handlers'[t] = list
      /\ \A u \in Topics : u # t => handlers'[u] = handlers[u]
  BY Zenon DEF Inv, RegistryInv
<1>3. \A u \in Topics : Increasing(handlers'[u])
  BY <1>1, <1>2, Zenon
<1>4. \A u \in Topics :
        Items(handlers'[u]) = {i \in 1 .. nextHandlerID' : topic'[i] = u /\ i \notin withdrawn'}
  <2> SUFFICES ASSUME NEW u \in Topics
               PROVE  Items(handlers'[u]) =
                        {i \in 1 .. nextHandlerID' : topic'[i] = u /\ i \notin withdrawn'}
    OBVIOUS
  <2>1. CASE u = t
    BY <1>1, <1>2, <2>1, Zenon
  <2>2. CASE u # t
    <3>1. \A i \in S : topic[i] # u
      BY <2>2, Zenon
    <3>. QED  BY <1>1, <1>2, <2>2, <3>1, Zenon
  <2>. QED  BY <2>1, <2>2
<1>5. StaysRegistered'
  BY <1>3, <1>4, Zenon DEF StaysRegistered, Increasing, Items, Listed
<1>6. \A i \in Ids : i > nextHandlerID => i \notin S
  <2>1. nextHandlerID \in Int
    BY SMT DEF Inv, RegistryInv
  <2>. QED  BY <2>1, SMT DEF Ids
<1>. QED  BY <1>2, <1>5, <1>6, Zenon DEF Inv, RegistryInv

LEMMA SameTasks ==
  ASSUME TaskInv, UNCHANGED <<queued, entered, passed, handlerSem, arrived, nextHandlerID>>
  PROVE  TaskInv'
PROOF
  BY Zenon DEF TaskInv, Going, Holding

LEMMA SameEnds ==
  ASSUME EndInv, \A i : Of(passed, i)' = Of(passed, i), UNCHANGED <<ended, late, kind>>,
         cancelling' \subseteq cancelling
  PROVE  EndInv'
PROOF
  BY Zenon DEF EndInv, Count

LEMMA SameStreams ==
  ASSUME StreamInv, Going' = Going, UNCHANGED <<buffer, crowded, lost, kind, nextHandlerID>>
  PROVE  StreamInv'
PROOF
  BY Zenon DEF StreamInv, Streams, Count, Of

LEMMA SameRegistry ==
  ASSUME RegistryInv, UNCHANGED <<handlers, nextHandlerID, kind, topic, withdrawn>>
  PROVE  RegistryInv'
PROOF
  BY SMT DEF RegistryInv, StaysRegistered, Listed

LEMMA OffStep ==
  ASSUME Inv, NEW t \in Topics, Off(t)
  PROVE  Inv'
PROOF
<1>1. /\ handlers' = [handlers EXCEPT ![t] = <<>>]
      /\ withdrawn' = withdrawn \union Items(handlers[t])
      /\ UNCHANGED <<nextHandlerID, kind, topic, queued, entered, passed, handlerSem, late, ended,
                     cancelling, buffer, crowded, lost, arrived>>
  BY Zenon DEF Off, running, streaming, Listed, Items
<1>2. /\ <<>> \in Seq(Ids)
      /\ Increasing(<<>>)
      /\ Items(<<>>) = Items(handlers[t]) \ Items(handlers[t])
  BY SMT DEF Increasing, Items
<1>3. Items(handlers[t]) = {i \in 1 .. nextHandlerID : topic[i] = t /\ i \notin withdrawn}
  BY Registered, Zenon DEF Inv, RegistryInv
<1>4. \A i \in 1 .. nextHandlerID : i \in Ids /\ i <= nextHandlerID
  BY BoundsAssumption, SMT DEF Inv, RegistryInv, Ids
<1>5. RegistryInv'
  BY <1>1, <1>2, <1>3, <1>4, Unlisting, Zenon
<1>6. TaskInv' /\ EndInv' /\ StreamInv'
  BY <1>1, SameTasks, SameEnds, SameStreams, Zenon DEF Inv, Of, Going, Holding
<1>. QED  BY <1>5, <1>6, Zenon DEF Inv

LEMMA RemoveHandlerStep ==
  ASSUME Inv, NEW i \in Ids, RemoveHandler(i)
  PROVE  Inv'
PROOF
<1>1. /\ i \in cancelling
      /\ handlers' = [handlers EXCEPT ![topic[i]] = Without(@, i)]
      /\ cancelling' = cancelling \ {i}
      /\ withdrawn' = withdrawn \union {i}
      /\ UNCHANGED <<nextHandlerID, kind, topic, queued, entered, passed, handlerSem, late, ended,
                     buffer, crowded, lost, arrived>>
  BY Zenon DEF RemoveHandler, running, streaming
<1>2. topic[i] \in Topics /\ handlers[topic[i]] \in Seq(Ids) /\ Increasing(handlers[topic[i]])
  BY Registered, Zenon DEF Inv, RegistryInv
<1>3. i <= nextHandlerID
  <2>1. kind[i] # "none"
    BY <1>1, SMT DEF Inv, EndInv
  <2>2. nextHandlerID \in Int
    BY SMT DEF Inv, RegistryInv
  <2>3. ~(i > nextHandlerID)
    BY <2>1, Zenon DEF Inv, RegistryInv
  <2>. QED  BY <2>2, <2>3, SMT DEF Ids
<1>4. /\ Without(handlers[topic[i]], i) \in Seq(Ids)
      /\ Increasing(Without(handlers[topic[i]], i))
      /\ Items(Without(handlers[topic[i]], i)) = Items(handlers[topic[i]]) \ {i}
  BY <1>2, Removing, Zenon
<1>5. handlers' = [handlers EXCEPT ![topic[i]] = Without(handlers[topic[i]], i)]
  BY <1>1
<1>6. RegistryInv'
  <2>1. PICK t \in Topics : t = topic[i]
    BY <1>2
  <2>2. PICK list : list = Without(handlers[t], i)
    OBVIOUS
  <2>3. list \in Seq(Ids) /\ Increasing(list) /\ Items(list) = Items(handlers[t]) \ {i}
    BY <1>4, <2>1, <2>2, Zenon
  <2>4. \A j \in {i} : j \in Ids /\ (j <= nextHandlerID => topic[j] = t) /\ j <= nextHandlerID
    BY <1>3, <2>1, Zenon
  <2>5. handlers' = [handlers EXCEPT ![t] = list]
    BY <1>5, <2>1, <2>2, Zenon
  <2>. QED  BY <1>1, <2>3, <2>4, <2>5, Unlisting, Zenon
<1>7. TaskInv' /\ EndInv' /\ StreamInv'
  BY <1>1, SameTasks, SameEnds, SameStreams, Zenon DEF Inv, Of, Going, Holding
<1>. QED  BY <1>6, <1>7, Zenon DEF Inv

----
(* The ends of subscriptions and streams, and the events users take *)

\* Fewer tasks than slots are past their check when i comes to its end.
LEMMA FewPassed ==
  ASSUME TaskInv, NEW i
  PROVE  Count(passed, i) \in Nat /\ Count(passed, i) <= MaxConcurrentHandlers
PROOF
<1>1. passed \subseteq Tasks /\ passed \subseteq Holding /\ Holding \subseteq Tasks
  BY Zenon DEF TaskInv, Holding
<1>2. /\ Count(passed, i) \in Nat /\ Count(passed, i) <= Cardinality(passed)
      /\ Cardinality(passed) \in Nat
      /\ IsFiniteSet(Holding) /\ Cardinality(Holding) \in Nat
  BY <1>1, FiniteSome, Zenon
<1>3. Cardinality(passed) <= Cardinality(Holding)
  BY <1>1, <1>2, FS_Subset, Zenon
<1>4. Cardinality(Holding) \in 0 .. MaxConcurrentHandlers
  BY Zenon DEF TaskInv
<1>. QED  BY <1>2, <1>3, <1>4, SlotsAssumption, SMT

LEMMA Ending ==
  ASSUME Inv, NEW i \in Ids, kind[i] \in {"subscription", "stream"}, ended' = ended \union {i},
         cancelling' \subseteq cancelling \union {i},
         UNCHANGED <<handlers, nextHandlerID, kind, topic, withdrawn, queued, entered, passed,
                     handlerSem, late, buffer, crowded, lost, arrived>>
  PROVE  Inv'
PROOF
<1>1. i \notin ended => late[i] + Count(passed, i) <= MaxConcurrentHandlers
  <2>1. i \notin ended => late[i] = 0
    BY Zenon DEF Inv, EndInv
  <2>2. Count(passed, i) \in Nat /\ Count(passed, i) <= MaxConcurrentHandlers
    BY FewPassed, Zenon DEF Inv
  <2>. QED  BY <2>1, <2>2, SMT
<1>2. EndInv'
  BY <1>1, Zenon DEF Inv, EndInv, Count, Of
<1>3. RegistryInv' /\ TaskInv' /\ StreamInv'
  BY SameRegistry, SameTasks, SameStreams, Zenon DEF Inv, Going, Holding
<1>. QED  BY <1>2, <1>3, Zenon DEF Inv

LEMMA CancelStep ==
  ASSUME Inv, NEW i \in Ids, Cancel(i) \/ Stop(i)
  PROVE  Inv'
PROOF
<1>1. /\ kind[i] \in {"subscription", "stream"}
      /\ ended' = ended \union {i}
      /\ cancelling' \subseteq cancelling \union {i}
      /\ UNCHANGED <<handlers, nextHandlerID, kind, topic, withdrawn, queued, entered, passed,
                     handlerSem, late, buffer, crowded, lost, arrived>>
  BY Zenon DEF Cancel, Stop, registry, running, streaming
<1>. QED  BY <1>1, Ending, Zenon

LEMMA TakeStep ==
  ASSUME Inv, NEW i \in Ids, Take(i)
  PROVE  Inv'
PROOF
<1>1. /\ buffer[i] > 0
      /\ buffer' = [buffer EXCEPT ![i] = @ - 1]
      /\ UNCHANGED <<handlers, nextHandlerID, kind, topic, withdrawn, queued, entered, passed,
                     handlerSem, late, ended, cancelling, arrived, crowded, lost>>
  BY Zenon DEF Take, registry, running
<1>2. /\ buffer[i] - 1 \in 0 .. BufferSize /\ buffer[i] \in Nat /\ buffer[i] # 0
      /\ \A c \in Nat : c + buffer[i] <= BufferSize => c + (buffer[i] - 1) <= BufferSize
  <2>1. buffer[i] \in 0 .. BufferSize
    BY Zenon DEF Inv, StreamInv
  <2>. QED  BY <1>1, <2>1, BufferAssumption, SMT
<1>3. /\ buffer' \in [Ids -> 0 .. BufferSize]
      /\ buffer'[i] = buffer[i] - 1
      /\ \A j \in Ids : j # i => buffer'[j] = buffer[j]
  BY <1>1, <1>2, Zenon DEF Inv, StreamInv
<1>4. \A j \in Ids : Count(Going, j) \in Nat
  BY FiniteSome, Zenon DEF Inv, TaskInv, Going, Holding
<1>5. \A j \in Streams : j \notin crowded => Count(Going, j) + buffer'[j] <= BufferSize
  BY <1>2, <1>3, <1>4, Zenon DEF Inv, StreamInv, Streams
<1>6. \A j \in Ids : j > nextHandlerID => buffer'[j] = 0
  BY <1>2, <1>3, Zenon DEF Inv, StreamInv
<1>7. StreamInv'
  BY <1>1, <1>3, <1>5, <1>6, Zenon DEF Inv, StreamInv, Streams, Going, Holding, Count, Of
<1>8. RegistryInv' /\ TaskInv' /\ EndInv'
  BY <1>1, SameRegistry, SameTasks, SameEnds, Zenon DEF Inv, Of
<1>. QED  BY <1>7, <1>8, Zenon DEF Inv

----
(* Tasks *)

LEMMA MessageStep ==
  ASSUME Inv, NEW t \in EventTypes, Message(t)
  PROVE  Inv'
PROOF
<1>a. PICK R : R = Listed(t) \union Listed(Any)
  OBVIOUS
<1>b. PICK e : e = arrived + 1
  OBVIOUS
<1>1. /\ arrived < MaxEvents
      /\ arrived' = e
      /\ queued' = queued \union [to : R, event : {e}]
      /\ crowded' = crowded \union {i \in Streams : (Count(Going, i) + buffer[i])' > BufferSize}
      /\ UNCHANGED <<handlers, nextHandlerID, kind, topic, withdrawn, entered, passed, handlerSem,
                     late, ended, cancelling, buffer, lost>>
  BY <1>a, <1>b, Zenon DEF Message, registry, running, OnTheWay, Count, Of, Going
<1>2. /\ e \in 0 .. MaxEvents /\ e \in Events /\ e \notin 0 .. arrived
      /\ \A x \in Int : x <= arrived => x <= e /\ x # e
      /\ e <= e
  <2>1. arrived \in 0 .. MaxEvents
    BY Zenon DEF Inv, TaskInv
  <2>. QED  BY <1>b, <1>1, <2>1, BoundsAssumption, SMT DEF Events
<1>3. R \subseteq Ids /\ \A i \in R : i <= nextHandlerID
  <2>1. Any \in Topics /\ t \in Topics
    BY Zenon DEF Topics
  <2>2. \A u \in Topics : Listed(u) \subseteq 1 .. nextHandlerID
    BY Zenon DEF Inv, RegistryInv, StaysRegistered
  <2>3. R \subseteq 1 .. nextHandlerID
    BY <1>a, <2>1, <2>2, Zenon
  <2>. QED  BY <2>3, BoundsAssumption, SMT DEF Inv, RegistryInv, Ids
<1>4. \A k \in [to : R, event : {e}] : k \in Tasks /\ k.to \in R /\ k.event = e
  BY <1>2, <1>3, SMT DEF Tasks
<1>5. \A k \in Going : k.event \in Int
  BY SMT DEF Inv, TaskInv, Going, Holding, Tasks, Events
<1>6. TaskInv'
  <2>1. queued' \subseteq Tasks
    BY <1>1, <1>4, Zenon DEF Inv, TaskInv
  <2>2. \A k \in Going : k.event # e /\ k.event <= e
    BY <1>2, <1>5, Zenon DEF Inv, TaskInv
  <2>3. queued' \intersect Holding = {}
    BY <1>1, <1>4, <2>2, Zenon DEF Inv, TaskInv, Going
  <2>4. \A k \in Going' : k.event <= e /\ k.to <= nextHandlerID
    BY <1>1, <1>2, <1>3, <1>4, <2>2, Zenon DEF Inv, TaskInv, Going, Holding
  <2>. QED  BY <1>1, <1>2, <2>1, <2>3, <2>4, Zenon DEF Inv, TaskInv, Holding
<1>7. StreamInv'
  <2>1. \A i : Count(Going', i) \in Nat
    BY <1>6, FiniteSome, Zenon DEF TaskInv, Going, Holding
  <2>2. \A i \in Streams : buffer[i] \in 0 .. BufferSize
    BY Zenon DEF Inv, StreamInv, Streams
  <2>3. \A x, y \in Nat : ~(x + y > BufferSize) => x + y <= BufferSize
    BY BufferAssumption, SMT
  <2>4. \A i \in Streams : buffer[i] \in Nat
    BY <2>2, BufferAssumption, SMT
  <2>5. \A i \in Streams : i \notin crowded' => Count(Going', i) + buffer[i] <= BufferSize
    BY <1>1, <2>1, <2>3, <2>4, Zenon DEF Count, Of
  <2>6. crowded' \subseteq Ids /\ lost' \subseteq crowded'
    BY <1>1, Zenon DEF Inv, StreamInv, Streams
  <2>. QED  BY <1>1, <2>5, <2>6, Zenon DEF Inv, StreamInv, Streams, Count, Of
<1>8. RegistryInv' /\ EndInv'
  BY <1>1, SameRegistry, SameEnds, Zenon DEF Inv, Of
<1>. QED  BY <1>6, <1>7, <1>8, Zenon DEF Inv

LEMMA EnterStep ==
  ASSUME Inv, NEW k \in Tasks, Enter(k)
  PROVE  Inv'
PROOF
<1>1. /\ k \in queued
      /\ handlerSem < MaxConcurrentHandlers
      /\ handlerSem' = handlerSem + 1
      /\ queued' = queued \ {k}
      /\ UNCHANGED <<handlers, nextHandlerID, kind, topic, withdrawn, ended, cancelling, buffer,
                     crowded, lost, arrived, late>>
  BY Zenon DEF Enter, SlotFree, registry, streaming
<1>2. \/ kind[k.to] = "plain" /\ passed' = passed \union {k} /\ entered' = entered
      \/ kind[k.to] # "plain" /\ entered' = entered \union {k} /\ passed' = passed
  BY Zenon DEF Enter
<1>3. /\ Holding \subseteq Tasks /\ k \notin Holding
      /\ Holding' = Holding \union {k}
      /\ Going' = Going
  BY <1>1, <1>2, Zenon DEF Inv, TaskInv, Holding, Going
<1>4. TaskInv'
  <2>1. Cardinality(Holding') = Cardinality(Holding) + 1
    BY <1>3, OneMore, Zenon
  <2>2. handlerSem' = Cardinality(Holding')
    BY <1>1, <2>1, Zenon DEF Inv, TaskInv
  <2>3. handlerSem' \in 0 .. MaxConcurrentHandlers
    BY <1>1, SlotsAssumption, SMT DEF Inv, TaskInv
  <2>4. /\ queued' \subseteq Tasks /\ entered' \subseteq Tasks /\ passed' \subseteq Tasks
        /\ queued' \intersect Holding' = {} /\ entered' \intersect passed' = {}
    BY <1>1, <1>2, <1>3, Zenon DEF Inv, TaskInv, Holding
  <2>. QED  BY <1>1, <1>3, <2>2, <2>3, <2>4, Zenon DEF Inv, TaskInv
<1>5. EndInv'
  <2>1. ASSUME NEW i \in ended  PROVE Of(passed, i)' = Of(passed, i)
    <3>1. kind[i] # "plain"
      BY <2>1, SMT DEF Inv, EndInv
    <3>. QED  BY <1>2, <3>1, Zenon DEF Of
  <2>. QED  BY <1>1, <2>1, Zenon DEF Inv, EndInv, Count
<1>6. RegistryInv' /\ StreamInv'
  BY <1>1, <1>3, SameRegistry, SameStreams, Zenon DEF Inv
<1>. QED  BY <1>4, <1>5, <1>6, Zenon DEF Inv

LEMMA CheckStep ==
  ASSUME Inv, NEW k \in Tasks, Check(k)
  PROVE  Inv'
PROOF
<1>1. /\ k \in entered
      /\ k.to \notin ended
      /\ entered' = entered \ {k}
      /\ passed' = passed \union {k}
      /\ UNCHANGED <<handlers, nextHandlerID, kind, topic, withdrawn, queued, handlerSem, ended,
                     cancelling, buffer, crowded, lost, arrived, late>>
  BY Zenon DEF Check, Over, registry, streaming
<1>2. Holding' = Holding /\ Going' = Going
  BY <1>1, Zenon DEF Holding, Going
<1>3. TaskInv'
  BY <1>1, <1>2, Zenon DEF Inv, TaskInv
<1>4. EndInv'
  <2>1. \A i \in ended : Of(passed, i)' = Of(passed, i)
    BY <1>1, Zenon DEF Of
  <2>. QED  BY <1>1, <2>1, Zenon DEF Inv, EndInv, Count
<1>5. RegistryInv' /\ StreamInv'
  BY <1>1, <1>2, SameRegistry, SameStreams, Zenon DEF Inv
<1>. QED  BY <1>3, <1>4, <1>5, Zenon DEF Inv

\* A task gives its slot back and is gone.
LEMMA Releasing ==
  ASSUME TaskInv, NEW k \in Holding,
         handlerSem' = handlerSem - 1,
         Holding' = Holding \ {k}, entered' \subseteq entered, passed' \subseteq passed,
         UNCHANGED <<queued, arrived, nextHandlerID>>
  PROVE  /\ TaskInv'
         /\ Going' = Going \ {k} /\ k \in Going /\ Going \subseteq Tasks
PROOF
<1>1. /\ Going' = Going \ {k} /\ k \in Going /\ Going \subseteq Tasks /\ Holding \subseteq Tasks
  BY Zenon DEF TaskInv, Going, Holding
<1>2. Cardinality(Holding') = Cardinality(Holding) - 1 /\ Cardinality(Holding') \in Nat
  BY <1>1, OneLess, FiniteSome, Zenon
<1>3. handlerSem' = Cardinality(Holding')
  BY <1>2, Zenon DEF TaskInv
<1>4. handlerSem' \in 0 .. MaxConcurrentHandlers
  BY <1>2, <1>3, SlotsAssumption, SMT DEF TaskInv
<1>. QED  BY <1>1, <1>3, <1>4, Zenon DEF TaskInv

\* What a task that is gone leaves to the streams: as much room as before, and
\* one more if it was for this stream.
LEMMA Fewer ==
  ASSUME NEW S, S \subseteq Tasks, NEW k \in S, NEW i
  PROVE  /\ Count(S, i) \in Nat /\ Count(S \ {k}, i) \in Nat
         /\ Count(S \ {k}, i) <= Count(S, i)
         /\ i = k.to => Count(S \ {k}, i) = Count(S, i) - 1
PROOF
<1>1. Count(S, i) \in Nat /\ Count(S \ {k}, i) \in Nat
  BY FiniteSome, S \ {k} \subseteq Tasks, Zenon
<1>2. IF i = k.to THEN Count(S \ {k}, i) = Count(S, i) - 1 ELSE Count(S \ {k}, i) = Count(S, i)
  BY OneLess, Zenon
<1>. QED  BY <1>1, <1>2, SMT

LEMMA RefuseStep ==
  ASSUME Inv, NEW k \in Tasks, Refuse(k)
  PROVE  Inv'
PROOF
<1>1. /\ k \in entered
      /\ entered' = entered \ {k}
      /\ handlerSem' = handlerSem - 1
      /\ UNCHANGED <<handlers, nextHandlerID, kind, topic, withdrawn, queued, passed, ended,
                     cancelling, buffer, crowded, lost, arrived, late>>
  BY Zenon DEF Refuse, registry, streaming
<1>2. k \in Holding /\ Holding' = Holding \ {k} /\ entered' \subseteq entered /\ passed' \subseteq passed
  BY <1>1, Zenon DEF Inv, TaskInv, Holding
<1>3. TaskInv' /\ Going' = Going \ {k} /\ k \in Going /\ Going \subseteq Tasks
  BY <1>1, <1>2, Releasing, Zenon DEF Inv
<1>4. StreamInv'
  <2>1. \A i \in Streams : i \notin crowded => Count(Going', i) + buffer[i] <= BufferSize
    <3> SUFFICES ASSUME NEW i \in Streams, i \notin crowded
                 PROVE  Count(Going', i) + buffer[i] <= BufferSize
      OBVIOUS
    <3>1. Count(Going', i) <= Count(Going, i) /\ Count(Going, i) \in Nat /\ Count(Going', i) \in Nat
      BY <1>3, Fewer, Zenon
    <3>2. Count(Going, i) + buffer[i] <= BufferSize /\ buffer[i] \in 0 .. BufferSize
      BY Zenon DEF Inv, StreamInv, Streams
    <3>. QED  BY <3>1, <3>2, BufferAssumption, SMT
  <2>. QED  BY <1>1, <2>1, Zenon DEF Inv, StreamInv, Streams, Count, Of
<1>5. RegistryInv' /\ EndInv'
  BY <1>1, SameRegistry, SameEnds, Zenon DEF Inv, Of
<1>. QED  BY <1>3, <1>4, <1>5, Zenon DEF Inv

\* The end of a task past its check; the streams' part is left to the callers.
LEMMA Finishing ==
  ASSUME Inv, NEW k \in Tasks, Finish(k)
  PROVE  /\ RegistryInv' /\ TaskInv' /\ EndInv'
         /\ Going' = Going \ {k} /\ k \in Going /\ Going \subseteq Tasks
         /\ UNCHANGED <<crowded, kind, nextHandlerID>>
PROOF
<1>1. /\ k \in passed
      /\ passed' = passed \ {k}
      /\ handlerSem' = handlerSem - 1
      /\ late' = IF k.to \in ended THEN [late EXCEPT ![k.to] = @ + 1] ELSE late
      /\ UNCHANGED <<handlers, nextHandlerID, kind, topic, withdrawn, queued, entered, ended,
                     cancelling, arrived, crowded>>
  BY Zenon DEF Finish, registry
<1>2. k \in Holding /\ Holding' = Holding \ {k} /\ entered' \subseteq entered /\ passed' \subseteq passed
  BY <1>1, Zenon DEF Inv, TaskInv, Holding
<1>3. TaskInv' /\ Going' = Going \ {k} /\ k \in Going /\ Going \subseteq Tasks
  BY <1>1, <1>2, Releasing, Zenon DEF Inv
<1>4. EndInv'
  <2>1. k.to \in Ids
    BY SMT DEF Tasks
  <2>2. \A i \in Ids : late[i] \in Nat
    BY Zenon DEF Inv, EndInv
  <2>3. late[k.to] + 1 \in Nat
    BY <2>1, <2>2, SMT
  <2>4. /\ late' \in [Ids -> Nat]
        /\ \A i \in Ids : late'[i] = IF i = k.to /\ i \in ended THEN late[i] + 1 ELSE late[i]
    <3>1. CASE k.to \in ended
      BY <1>1, <2>1, <2>3, <3>1, Zenon DEF Inv, EndInv
    <3>2. CASE k.to \notin ended
      BY <1>1, <3>2, Zenon DEF Inv, EndInv
    <3>. QED  BY <3>1, <3>2
  <2>5. passed \subseteq Tasks
    BY Zenon DEF Inv, TaskInv
  <2>6. ASSUME NEW i \in ended
        PROVE  late'[i] + Count(passed', i) <= MaxConcurrentHandlers
    <3>1. i \in Ids /\ late[i] + Count(passed, i) <= MaxConcurrentHandlers
      BY Zenon DEF Inv, EndInv
    <3>2. /\ Count(passed, i) \in Nat /\ Count(passed \ {k}, i) \in Nat
          /\ Count(passed \ {k}, i) <= Count(passed, i)
          /\ i = k.to => Count(passed \ {k}, i) = Count(passed, i) - 1
      BY <1>1, <2>5, Fewer, Zenon
    <3>3. passed' = passed \ {k}
      BY <1>1
    <3>4. late[i] \in Nat /\ late'[i] = IF i = k.to THEN late[i] + 1 ELSE late[i]
      BY <2>2, <2>4, <3>1, Zenon
    <3>5. CASE i = k.to
      BY <3>1, <3>2, <3>3, <3>4, <3>5, SlotsAssumption, SMT
    <3>6. CASE i # k.to
      BY <3>1, <3>2, <3>3, <3>4, <3>6, SlotsAssumption, SMT
    <3>. QED  BY <3>5, <3>6
  <2>7. \A i \in Ids : i \notin ended => late'[i] = 0
    BY <2>4, Zenon DEF Inv, EndInv
  <2>. QED  BY <1>1, <2>4, <2>6, <2>7, Zenon DEF Inv, EndInv, Count, Of
<1>5. RegistryInv'
  BY <1>1, SameRegistry, Zenon DEF Inv
<1>. QED  BY <1>1, <1>3, <1>4, <1>5, Zenon

\* Nothing is added to a channel.
LEMMA NothingSent ==
  ASSUME Inv, NEW k \in Tasks, Finish(k), buffer' = buffer, lost' \subseteq lost \union crowded
  PROVE  Inv'
PROOF
<1>1. /\ RegistryInv' /\ TaskInv' /\ EndInv'
      /\ Going' = Going \ {k} /\ k \in Going /\ Going \subseteq Tasks
      /\ UNCHANGED <<crowded, kind, nextHandlerID>>
  BY Finishing, Zenon
<1>2. \A i \in Streams : i \notin crowded => Count(Going', i) + buffer[i] <= BufferSize
  <2> SUFFICES ASSUME NEW i \in Streams, i \notin crowded
               PROVE  Count(Going', i) + buffer[i] <= BufferSize
    OBVIOUS
  <2>1. Count(Going', i) <= Count(Going, i) /\ Count(Going, i) \in Nat /\ Count(Going', i) \in Nat
    BY <1>1, Fewer, Zenon
  <2>2. Count(Going, i) + buffer[i] <= BufferSize /\ buffer[i] \in 0 .. BufferSize
    BY Zenon DEF Inv, StreamInv, Streams
  <2>. QED  BY <2>1, <2>2, BufferAssumption, SMT
<1>3. StreamInv'
  BY <1>1, <1>2, Zenon DEF Inv, StreamInv, Streams, Count, Of
<1>. QED  BY <1>1, <1>3, Zenon DEF Inv

LEMMA DeliverStep ==
  ASSUME Inv, NEW k \in Tasks, Deliver(k)
  PROVE  Inv'
PROOF
<1>a. PICK s : s = k.to
  OBVIOUS
<1>1. /\ kind[s] = "stream"
      /\ buffer[s] < BufferSize
      /\ Finish(k)
      /\ buffer' = [buffer EXCEPT ![s] = @ + 1]
      /\ lost' = lost
  BY <1>a, Zenon DEF Deliver, Room
<1>2. /\ RegistryInv' /\ TaskInv' /\ EndInv'
      /\ Going' = Going \ {k} /\ k \in Going /\ Going \subseteq Tasks
      /\ UNCHANGED <<crowded, kind, nextHandlerID>>
  BY <1>1, Finishing, Zenon
<1>3. s \in Ids /\ s <= nextHandlerID /\ ~(s > nextHandlerID)
  <2>1. s \in Ids /\ s <= nextHandlerID
    BY <1>a, <1>2, SMT DEF Inv, TaskInv, Tasks
  <2>2. nextHandlerID \in Int
    BY SMT DEF Inv, RegistryInv
  <2>. QED  BY <2>1, <2>2, SMT DEF Ids
<1>4. \A i \in Ids : buffer[i] \in 0 .. BufferSize
  BY Zenon DEF Inv, StreamInv
<1>5. buffer[s] + 1 \in 0 .. BufferSize
  BY <1>1, <1>3, <1>4, BufferAssumption, SMT
<1>6. /\ buffer' \in [Ids -> 0 .. BufferSize]
      /\ buffer'[s] = buffer[s] + 1
      /\ \A i \in Ids : i # s => buffer'[i] = buffer[i]
  BY <1>1, <1>3, <1>5, Zenon DEF Inv, StreamInv
<1>7. \A i \in Streams : i \notin crowded => Count(Going', i) + buffer'[i] <= BufferSize
  <2> SUFFICES ASSUME NEW i \in Streams, i \notin crowded
               PROVE  Count(Going', i) + buffer'[i] <= BufferSize
    OBVIOUS
  <2>1. /\ Count(Going', i) <= Count(Going, i) /\ Count(Going, i) \in Nat /\ Count(Going', i) \in Nat
        /\ i = s => Count(Going', i) = Count(Going, i) - 1
    BY <1>a, <1>2, Fewer, Zenon
  <2>2. Count(Going, i) + buffer[i] <= BufferSize /\ buffer[i] \in 0 .. BufferSize /\ i \in Ids
    BY <1>4, Zenon DEF Inv, StreamInv, Streams
  <2>3. CASE i = s
    <3>1. buffer'[i] = buffer[i] + 1 /\ Count(Going', i) = Count(Going, i) - 1
      BY <1>6, <2>1, <2>3, Zenon
    <3>. QED  BY <2>1, <2>2, <3>1, BufferAssumption, SMT
  <2>4. CASE i # s
    <3>1. buffer'[i] = buffer[i]
      BY <1>6, <2>2, <2>4, Zenon
    <3>. QED  BY <2>1, <2>2, <3>1, BufferAssumption, SMT
  <2>. QED  BY <2>3, <2>4
<1>8. \A i \in Ids : i > nextHandlerID => buffer'[i] = 0
  BY <1>3, <1>6, Zenon DEF Inv, StreamInv
<1>9. StreamInv'
  BY <1>1, <1>2, <1>6, <1>7, <1>8, Zenon DEF Inv, StreamInv, Streams, Count, Of
<1>. QED  BY <1>2, <1>9, Zenon DEF Inv

LEMMA DropStep ==
  ASSUME Inv, NEW k \in Tasks, Drop(k)
  PROVE  Inv'
PROOF
<1>a. PICK s : s = k.to
  OBVIOUS
<1>1. /\ kind[s] = "stream"
      /\ ~(buffer[s] < BufferSize)
      /\ Finish(k)
      /\ lost' = lost \union {s}
      /\ buffer' = buffer
  BY <1>a, Zenon DEF Drop, Room
<1>2. s \in crowded
  <2>1. k \in Going /\ Going \subseteq Tasks
    BY <1>1, Finishing, Zenon
  <2>2. s \in Ids
    BY <1>a, SMT DEF Tasks
  <2>3. Count(Going, s) \in Nat /\ Count(Going \ {k}, s) \in Nat /\ Count(Going \ {k}, s) = Count(Going, s) - 1
    BY <1>a, <2>1, Fewer, Zenon
  <2>4. buffer[s] \in 0 .. BufferSize
    BY <2>2, Zenon DEF Inv, StreamInv
  <2>5. ~(Count(Going, s) + buffer[s] <= BufferSize)
    BY <1>1, <2>3, <2>4, BufferAssumption, SMT
  <2>. QED  BY <1>1, <2>2, <2>5, Zenon DEF Inv, StreamInv, Streams
<1>3. lost' \subseteq lost \union crowded
  BY <1>1, <1>2, Zenon
<1>. QED  BY <1>1, <1>3, NothingSent, Zenon

LEMMA TaskStep ==
  ASSUME Inv, NEW k \in Tasks, Step(k)
  PROVE  Inv'
PROOF
<1>1. CASE Handle(k) \/ Discard(k)
  <2>1. Finish(k) /\ buffer' = buffer /\ lost' = lost
    BY <1>1, Zenon DEF Handle, Discard
  <2>. QED  BY <2>1, NothingSent, Zenon
<1>. QED  BY <1>1, EnterStep, CheckStep, RefuseStep, DeliverStep, DropStep, Zenon DEF Step

LEMMA Initially == Init => Inv
PROOF
<1> SUFFICES ASSUME Init  PROVE Inv
  OBVIOUS
<1>1. /\ handlers = [t \in Topics |-> <<>>]
      /\ nextHandlerID = 0
      /\ kind = [i \in Ids |-> "none"]
      /\ topic = [i \in Ids |-> Any]
      /\ queued = {} /\ entered = {} /\ passed = {}
      /\ handlerSem = 0
      /\ ended = {} /\ cancelling = {}
      /\ buffer = [i \in Ids |-> 0]
      /\ arrived = 0
      /\ withdrawn = {}
      /\ late = [i \in Ids |-> 0]
      /\ crowded = {} /\ lost = {}
  BY Zenon DEF Init
<1>2. 0 \in 0 .. MaxHandlers /\ 0 \in 0 .. MaxEvents /\ 0 \in 0 .. BufferSize
      /\ 0 \in 0 .. MaxConcurrentHandlers
  BY BoundsAssumption, BufferAssumption, SlotsAssumption, SMT
<1>3. StaysRegistered
  BY <1>1, SMT DEF StaysRegistered, Listed
<1>4. RegistryInv
  BY <1>1, <1>2, <1>3, SMT DEF RegistryInv, Topics, Kinds
<1>5. TaskInv
  BY <1>1, <1>2, FS_EmptySet, SMT DEF TaskInv, Going, Holding
<1>6. EndInv
  BY <1>1, SMT DEF EndInv
<1>7. StreamInv
  BY <1>1, <1>2, SMT DEF StreamInv, Streams
<1>. QED  BY <1>4, <1>5, <1>6, <1>7, Zenon DEF Inv

LEMMA Stepping == Inv /\ [Next]_vars => Inv'
PROOF
<1> SUFFICES ASSUME Inv, [Next]_vars  PROVE Inv'
  OBVIOUS
<1>1. CASE On \/ NewSubscription \/ NewStream
  <2>1. Any \in Topics
    BY Zenon DEF Topics
  <2>. QED  BY <1>1, <2>1, RegisterStep, Zenon DEF On, NewSubscription, NewStream
<1>2. CASE User
  BY <1>1, <1>2, OffStep, CancelStep, TakeStep, Zenon DEF User
<1>3. CASE UNCHANGED vars
  <2>1. UNCHANGED <<handlers, nextHandlerID, kind, topic, withdrawn, queued, entered, passed,
                    handlerSem, ended, cancelling, buffer, arrived, late, crowded, lost>>
    BY <1>3, Zenon DEF vars
  <2>. QED  BY <2>1, SameRegistry, SameTasks, SameEnds, SameStreams, Zenon DEF Inv, Of, Going, Holding
<1>. QED  BY <1>2, <1>3, RemoveHandlerStep, MessageStep, TaskStep, Zenon DEF Next

THEOREM Inductive == Spec => []Inv
PROOF
  BY Initially, Stepping, PTL DEF Spec

\* Every variable keeps its type, for any handlers, events, slots and buffers.
THEOREM TypeCorrect == Spec => []TypeOK
PROOF
<1>1. Inv => TypeOK
  BY Zenon DEF Inv, RegistryInv, TaskInv, EndInv, StreamInv, TypeOK
<1>. QED  BY <1>1, Inductive, PTL

\* Slots and the goroutines that hold them stay in step, and within the limit,
\* whichever way handlers end (dispatch).
THEOREM SlotsBounded == Spec => []HandlersBounded
PROOF
<1>1. Inv => HandlersBounded
  <2> SUFFICES ASSUME Inv  PROVE HandlersBounded
    OBVIOUS
  <2>1. handlerSem = Cardinality(Holding) /\ handlerSem \in 0 .. MaxConcurrentHandlers
    BY Zenon DEF Inv, TaskInv
  <2>. QED  BY <2>1, SlotsAssumption, SMT DEF HandlersBounded
<1>. QED  BY <1>1, Inductive, PTL

\* A cancelled subscription or stopped stream gets no more than
\* MaxConcurrentHandlers events that were dispatched before (NewSubscription,
\* NewStream).
THEOREM EndsSoon == Spec => []FewAfterEnd
PROOF
<1>1. Inv => FewAfterEnd
  <2> SUFFICES ASSUME Inv, NEW i \in ended  PROVE late[i] <= MaxConcurrentHandlers
    BY Zenon DEF FewAfterEnd
  <2>1. late[i] \in Nat /\ late[i] + Count(passed, i) <= MaxConcurrentHandlers
    BY Zenon DEF Inv, EndInv
  <2>2. Count(passed, i) \in Nat
    BY FewPassed, Zenon DEF Inv
  <2>. QED  BY <2>1, <2>2, SlotsAssumption, SMT
<1>. QED  BY <1>1, Inductive, PTL

\* Registering, Off and Cancel never lose, move or double anybody else's handler
\* (registerHandler, removeHandler).
THEOREM RegistryIntact == Spec => []StaysRegistered
PROOF
<1>1. Inv => StaysRegistered
  BY Zenon DEF Inv, RegistryInv
<1>. QED  BY <1>1, Inductive, PTL

\* A stream drops nothing while its user keeps up (NewStream).
THEOREM StreamsComplete == Spec => []NothingLost
PROOF
<1>1. Inv => NothingLost
  BY Zenon DEF Inv, StreamInv, NothingLost
<1>. QED  BY <1>1, Inductive, PTL
====
