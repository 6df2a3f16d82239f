---- MODULE LruCacheProofs ----
(*****************************************************************************)
(* Proofs about LruCache, for any keys, values, sizes and limits.            *)
(*                                                                           *)
(* First, that it implements CacheContract. The recency list and the running *)
(* size do not matter for that: which entries they choose to evict is what   *)
(* the contract leaves open.                                                 *)
(*                                                                           *)
(* Then, that the index, the recency list and the running size stay in step  *)
(* and that eviction takes the least recently used. Both rest on one         *)
(* inductive invariant: the recency list is the history of use without the   *)
(* keys that are not held, in the same order.                                *)
(*****************************************************************************)
EXTENDS LruCache, TLAPS, FiniteSetTheorems, SequenceTheorems

\* What the refinement needs to know of the index.
IndexTyped == entries \in [Held -> [value : Values, life : Nat]]

LEMMA LifeTyped ==
  ASSUME NEW ttl \in TTLs
  PROVE  LifeOf(ttl) \in Nat
PROOF
  BY TTLAssumption, SMT DEF LifeOf

\* An index that lost the keys in S and is otherwise as it was.
LEMMA Removing ==
  ASSUME IndexTyped, NEW S, entries' = [k \in Held \ S |-> entries[k]]
  PROVE  IndexTyped' /\ Live' = Live \ S /\ \A k \in Live' : Memory'[k] = Memory[k]
PROOF
  BY SMT DEF IndexTyped, Held, Live, Memory

\* The index gets a new entry for k and may lose others.
Stored(k, v, n) ==
    \E stay \in SUBSET Held :
        entries' = [j \in stay \union {k} |->
                      IF j = k THEN [value |-> v, life |-> n] ELSE entries[j]]

LEMMA Storing ==
  ASSUME IndexTyped, NEW k, NEW v \in Values, NEW n \in Nat, Stored(k, v, n)
  PROVE  /\ IndexTyped'
         /\ Live' \subseteq Live \union {k}
         /\ \A j \in Live' : Memory'[j] = IF j = k THEN v ELSE Memory[j]
PROOF
<1>0. PICK stay \in SUBSET Held :
        entries' = [j \in stay \union {k} |->
                      IF j = k THEN [value |-> v, life |-> n] ELSE entries[j]]
  BY Zenon DEF Stored
<1>1. Held' = stay \union {k} /\ entries'[k] = [value |-> v, life |-> n]
  BY <1>0, SMT DEF Held
<1>2. \A j \in stay \ {k} : entries'[j] = entries[j]
  BY <1>0, SMT
<1>3. \A j \in Held : entries[j] \in [value : Values, life : Nat]
  BY SMT DEF IndexTyped
<1>4. \A j \in Held' : entries'[j] \in [value : Values, life : Nat]
  BY <1>1, <1>2, <1>3, SMT
<1>5. IndexTyped'
  BY <1>0, <1>1, <1>4, SMT DEF IndexTyped
<1>6. Live' \subseteq Live \union {k}
  BY <1>1, <1>2, SMT DEF Live
<1>7. \A j \in Live' : Memory'[j] = entries'[j].value
  BY SMT DEF Memory
<1>8. \A j \in Live : Memory[j] = entries[j].value
  BY SMT DEF Memory
<1>9. ASSUME NEW j \in Live'  PROVE Memory'[j] = IF j = k THEN v ELSE Memory[j]
  <2>1. CASE j = k
    BY <1>1, <1>7, <2>1, SMT
  <2>2. CASE j # k
    <3>1. j \in stay \ {k} /\ j \in Live
      BY <1>1, <1>2, <2>2, SMT DEF Live
    <3>. QED  BY <1>2, <1>7, <1>8, <2>2, <3>1, SMT
  <2>. QED  BY <2>1, <2>2
<1>. QED  BY <1>5, <1>6, <1>9

\* Replacing an entry in place is storing it over its old one.
LEMMA ReplacingIn ==
  ASSUME NEW D, NEW f, f = [j \in D |-> f[j]], NEW k \in D, NEW e
  PROVE  [f EXCEPT ![k] = e] = [j \in D \union {k} |-> IF j = k THEN e ELSE f[j]]
PROOF
<1>1. D \union {k} = D
  OBVIOUS
<1>2. [f EXCEPT ![k] = e] = [j \in D |-> IF j = k THEN e ELSE f[j]]
  BY SMT
<1>. QED  BY <1>1, <1>2, Zenon

\* What the contract's Remains asks for: the memory is m on fewer keys.
LEMMA Remaining ==
  ASSUME NEW m, Live' \subseteq DOMAIN m, \A k \in Live' : Memory'[k] = m[k]
  PROVE  Contract!Remains(m)
PROOF
<1>1. Memory' = [k \in Live' |-> entries'[k].value]
  BY DEF Memory
<1>2. \A k \in Live' : entries'[k].value = m[k]
  BY <1>1, Zenon
<1>3. Memory' = [k \in Live' |-> m[k]]
  BY <1>1, <1>2, Zenon
<1>. QED  BY <1>3, Zenon DEF Contract!Remains

LEMMA MemoryDomain == DOMAIN Memory = Live
PROOF
  BY DEF Memory

LEMMA SameIndex ==
  ASSUME IndexTyped, entries' = entries
  PROVE  IndexTyped' /\ Live' = Live /\ Memory' = Memory /\ Contract!Remains(Memory)
PROOF
<1>1. IndexTyped' /\ Live' = Live /\ Memory' = Memory
  BY Zenon DEF IndexTyped, Held, Live, Memory
<1>. QED  BY <1>1, MemoryDomain, Remaining, Zenon

LEMMA GetStep ==
  ASSUME IndexTyped, NEW k \in Keys, Get(k) \/ GetDisabled(k)
  PROVE  IndexTyped' /\ Contract!Lookup(k)
PROOF
<1>1. CASE GetMiss(k) \/ GetDisabled(k)
  <2>1. entries' = entries /\ event' = [op |-> "get", key |-> k, found |-> Miss]
    BY <1>1, Zenon DEF GetMiss, GetDisabled, Unchanged, Answer
  <2>. QED  BY <2>1, SameIndex, Zenon DEF Contract!Lookup
<1>2. CASE GetExpired(k)
  <2>1. entries' = [j \in Held \ {k} |-> entries[j]]
        /\ event' = [op |-> "get", key |-> k, found |-> Miss]
    BY <1>2, Zenon DEF GetExpired, RemoveAll, Answer
  <2>2. IndexTyped' /\ Live' \subseteq Live /\ \A j \in Live' : Memory'[j] = Memory[j]
    BY <2>1, Removing, Zenon
  <2>3. Contract!Remains(Memory)
    BY <2>2, MemoryDomain, Remaining, Zenon
  <2>. QED  BY <2>1, <2>2, <2>3, Zenon DEF Contract!Lookup
<1>3. CASE GetHit(k)
  <2>1. entries' = entries /\ event' = [op |-> "get", key |-> k, found |-> entries[k].value]
    BY <1>3, Zenon DEF GetHit, Answer
  <2>2. k \in Live /\ Memory[k] = entries[k].value
    BY <1>3, SMT DEF GetHit, IsExpired, IndexTyped, Live, Memory
  <2>3. entries[k].value \in {Memory[j] : j \in DOMAIN Memory \intersect {k}}
    BY <2>2, MemoryDomain, Zenon
  <2>. QED  BY <2>1, <2>3, SameIndex, Zenon DEF Contract!Lookup
<1>. QED  BY <1>1, <1>2, <1>3, Zenon DEF Get

LEMMA SetStep ==
  ASSUME IndexTyped, NEW k \in Keys, NEW v \in Values, NEW ttl \in TTLs, Set(k, v, ttl)
  PROVE  IndexTyped' /\ Contract!Store(k, v)
PROOF
<1>1. event' = [op |-> "set", key |-> k, value |-> v]
  BY Zenon DEF Set
<1>2. Stored(k, v, LifeOf(ttl))
  <2>1. CASE Replace(k, v, ttl)
    <3>1. k \in Held /\ entries' = [entries EXCEPT ![k] = [value |-> v, life |-> LifeOf(ttl)]]
      BY <2>1, Zenon DEF Replace
    <3>2. entries = [j \in Held |-> entries[j]]
      BY SMT DEF IndexTyped
    <3>3. entries' = [j \in Held \union {k} |->
                        IF j = k THEN [value |-> v, life |-> LifeOf(ttl)] ELSE entries[j]]
      BY <3>1, <3>2, ReplacingIn, Zenon
    <3>. QED  BY <3>3, Zenon DEF Stored
  <2>2. CASE Insert(k, v, ttl)
    <3>1. entries' = [j \in (Held \ Evicted(v)) \union {k} |->
                        IF j = k THEN [value |-> v, life |-> LifeOf(ttl)] ELSE entries[j]]
      BY <2>2, Zenon DEF Insert
    <3>2. Held \ Evicted(v) \in SUBSET Held
      BY Zenon
    <3>. QED  BY <3>1, <3>2, Zenon DEF Stored
  <2>. QED  BY <2>1, <2>2, Zenon DEF Set
<1>3. LifeOf(ttl) \in Nat
  BY LifeTyped
<1>5. /\ IndexTyped'
      /\ Live' \subseteq Live \union {k}
      /\ \A j \in Live' : Memory'[j] = IF j = k THEN v ELSE Memory[j]
  BY <1>2, <1>3, Storing, Zenon
<1> DEFINE m == [j \in DOMAIN Memory \union {k} |-> IF j = k THEN v ELSE Memory[j]]
<1>6. DOMAIN m = Live \union {k} /\ \A j \in Live \union {k} : m[j] = IF j = k THEN v ELSE Memory[j]
  BY MemoryDomain, Zenon
<1> HIDE DEF m
<1>7. Contract!Remains(m)
  BY <1>5, <1>6, Remaining, Zenon
<1>. QED  BY <1>1, <1>5, <1>7, Zenon DEF Contract!Store, m

LEMMA InvalidateStep ==
  ASSUME IndexTyped, NEW matched \in Patterns, Invalidate(matched)
  PROVE  IndexTyped' /\ matched \in SUBSET Keys /\ Contract!Withdraw(matched)
PROOF
<1>1. /\ entries' = [j \in Held \ (Held \intersect matched) |-> entries[j]]
      /\ event' = [op |-> "invalidate", keys |-> matched]
  BY Zenon DEF Invalidate, RemoveAll
<1>2. IndexTyped' /\ Live' = Live \ (Held \intersect matched)
      /\ \A j \in Live' : Memory'[j] = Memory[j]
  BY <1>1, Removing, Zenon
<1> DEFINE m == [j \in DOMAIN Memory \ matched |-> Memory[j]]
<1>3. DOMAIN m = Live \ matched /\ \A j \in Live \ matched : m[j] = Memory[j]
  BY MemoryDomain, Zenon
<1> HIDE DEF m
<1>4. Live' \subseteq Live \ matched
  BY <1>2, Zenon DEF Live
<1>5. Contract!Remains(m)
  BY <1>2, <1>3, <1>4, Remaining, Zenon
<1>. QED  BY <1>1, <1>2, <1>5, PatternsAssumption, Zenon DEF Contract!Withdraw, Contract!Without, m

LEMMA ClearStep ==
  ASSUME IndexTyped, Clear
  PROVE  IndexTyped' /\ Contract!WithdrawAll
PROOF
<1>1. entries' = [k \in {} |-> [value |-> Miss, life |-> 0]] /\ event' = [op |-> "clear"]
  BY Zenon DEF Clear, Empty
<1>2. Held' = {} /\ IndexTyped'
  BY <1>1, SMT DEF Held, IndexTyped
<1>3. Live' = {}
  BY <1>2, Zenon DEF Live
<1>4. Memory' = [k \in {} |-> Miss]
  BY <1>3, SMT DEF Memory
<1>. QED  BY <1>1, <1>2, <1>4, Zenon DEF Contract!WithdrawAll, Contract!NoMemory

\* The clock and the cleanup goroutine only forget.
LEMMA ForgetStep ==
  ASSUME IndexTyped, CleanupExpired \/ Tick
  PROVE  IndexTyped' /\ Contract!Forget
PROOF
<1>1. event' = event
  BY Zenon DEF CleanupExpired, Tick
<1>2. IndexTyped' /\ Live' \subseteq Live /\ \A k \in Live' : Memory'[k] = Memory[k]
  <2>1. CASE CleanupExpired
    <3>1. entries' = [k \in Held \ Expired |-> entries[k]]
      BY <2>1, Zenon DEF CleanupExpired, RemoveAll
    <3>. QED  BY <3>1, Removing, Zenon
  <2>2. CASE Tick
    <3>1. entries' = [k \in Held |-> [entries[k] EXCEPT !.life = IF @ = 0 THEN 0 ELSE @ - 1]]
      BY <2>2, Zenon DEF Tick
    <3>2. \A k \in Held : entries[k] \in [value : Values, life : Nat]
      BY SMT DEF IndexTyped
    <3>3. \A e \in [value : Values, life : Nat] :
            LET after == [e EXCEPT !.life = IF @ = 0 THEN 0 ELSE @ - 1]
            IN  /\ after \in [value : Values, life : Nat]
                /\ after.value = e.value
                /\ after.life > 0 => e.life > 0
      BY SMT
    <3>4. Held' = Held
      BY <3>1, Zenon DEF Held
    <3>5. \A k \in Held : /\ entries'[k] \in [value : Values, life : Nat]
                          /\ entries'[k].value = entries[k].value
                          /\ entries'[k].life > 0 => entries[k].life > 0
      BY <3>1, <3>2, <3>3, Zenon
    <3>6. IndexTyped'
      BY <3>1, <3>4, <3>5, SMT DEF IndexTyped
    <3>7. Live' \subseteq Live
      BY <3>4, <3>5, Zenon DEF Live
    <3>8. \A k \in Live' : Memory'[k] = entries'[k].value
      BY SMT DEF Memory
    <3>9. \A k \in Live : Memory[k] = entries[k].value
      BY SMT DEF Memory
    <3>10. Live \subseteq Held
      BY Zenon DEF Live
    <3>. QED  BY <3>5, <3>6, <3>7, <3>8, <3>9, <3>10, Zenon
  <2>. QED  BY <2>1, <2>2
<1>. QED  BY <1>1, <1>2, MemoryDomain, Remaining, Zenon DEF Contract!Forget

\* Whatever the cache evicts, cleans up or lets expire, and in whatever order it
\* is used, a hit is the value stored last under that key and not withdrawn
\* since (Cache.Get, Set, Invalidate, Clear and cleanupExpired).
THEOREM Implementation == Spec => ImplementsContract
PROOF
<1>1. Init => IndexTyped /\ Contract!Init
  <2>1. ASSUME Init  PROVE IndexTyped /\ Contract!Init
    <3>1. entries = [k \in {} |-> [value |-> Miss, life |-> 0]] /\ event = [op |-> "none"]
      BY <2>1, Zenon DEF Init, Empty
    <3>2. Held = {} /\ IndexTyped
      BY <3>1, SMT DEF Held, IndexTyped
    <3>3. Live = {}
      BY <3>2, Zenon DEF Live
    <3>4. Memory = [k \in {} |-> Miss]
      BY <3>3, SMT DEF Memory
    <3>. QED  BY <3>1, <3>2, <3>4, Zenon DEF Contract!Init, Contract!NoMemory
  <2>. QED  BY <2>1
<1>2. IndexTyped /\ [Next]_vars => IndexTyped' /\ [Contract!Next]_(Contract!vars)
  <2> SUFFICES ASSUME IndexTyped, [Next]_vars
               PROVE  IndexTyped' /\ [Contract!Next]_(Contract!vars)
    OBVIOUS
  <2>1. ASSUME NEW k \in Keys, Get(k) \/ GetDisabled(k)
        PROVE  IndexTyped' /\ Contract!Next
    BY <2>1, GetStep, Zenon DEF Contract!Next
  <2>2. ASSUME NEW k \in Keys, NEW v \in Values, NEW ttl \in TTLs, Set(k, v, ttl)
        PROVE  IndexTyped' /\ Contract!Next
    BY <2>2, SetStep, Zenon DEF Contract!Next
  <2>3. ASSUME NEW matched \in Patterns, Invalidate(matched)
        PROVE  IndexTyped' /\ Contract!Next
    BY <2>3, InvalidateStep, Zenon DEF Contract!Next
  <2>4. CASE Clear
    BY <2>4, ClearStep, Zenon DEF Contract!Next
  <2>5. CASE CleanupExpired \/ Tick
    BY <2>5, ForgetStep, Zenon DEF Contract!Next
  <2>6. CASE Close \/ CleanupStops \/ UNCHANGED vars
    <3>1. entries' = entries /\ event' = event
      BY <2>6, Zenon DEF Close, CleanupStops, vars
    <3>2. IndexTyped' /\ Memory' = Memory
      BY <3>1, SameIndex, Zenon
    <3>. QED  BY <3>1, <3>2, Zenon DEF Contract!vars
  <2>. QED  BY <2>1, <2>2, <2>3, <2>4, <2>5, <2>6, Zenon DEF Next
<1>. QED  BY <1>1, <1>2, PTL DEF Spec, ImplementsContract, Contract!Spec

----
(* Smallest, largest and n-th *)

LEMMA SmallestOf ==
  ASSUME NEW T \in SUBSET Nat, T # {}
  PROVE  \E x \in T : \A y \in T : x <= y
PROOF
<1>1. PICK x \in T : \A y \in T : ~(<<y, x>> \in OpToRel(<, Nat))
  BY NatLessThanWellFounded, WFMin, Zenon
<1>2. ASSUME NEW y \in T  PROVE ~(y < x)
  <2>1. <<y, x>> \in Nat \X Nat /\ <<y, x>>[1] = y /\ <<y, x>>[2] = x
    BY SMT
  <2>2. <<y, x>> \notin {ss \in Nat \X Nat : ss[1] < ss[2]}
    BY <1>1, Zenon DEF OpToRel
  <2>. QED  BY <2>1, <2>2, Zenon
<1>. QED  BY <1>2, SMT

LEMMA LargestOf ==
  ASSUME NEW n \in Nat, NEW T \in SUBSET (0 .. n), T # {}
  PROVE  Max(T) \in T
PROOF
<1> DEFINE D == {n - y : y \in T}
<1>1. D \in SUBSET Nat /\ D # {}
  <2>1. \A y \in T : n - y \in Nat
    BY SMT
  <2>. QED  BY <2>1, Zenon
<1>2. PICK d \in D : \A e \in D : d <= e
  BY <1>1, SmallestOf, Zenon
<1>3. PICK x \in T : d = n - x
  BY <1>2, Zenon
<1>4. \A y \in T : n - y \in D
  BY Zenon
<1> HIDE DEF D
<1>5. \A y \in T : x >= y
  BY <1>2, <1>3, <1>4, SMT
<1>. QED  BY <1>3, <1>5, Zenon DEF Max

\* Nth numbers the positions in P from the first to the last.
LEMMA NthOf ==
  ASSUME NEW m \in Nat, NEW P \in SUBSET (1 .. m)
  PROVE  /\ Cardinality(P) \in Nat
         /\ \A n \in 1 .. Cardinality(P) : Nth(P, n) \in P
         /\ \A i \in P : \E n \in 1 .. Cardinality(P) : Nth(P, n) = i
         /\ \A a, b \in 1 .. Cardinality(P) : a < b => Nth(P, a) < Nth(P, b)
PROOF
<1> DEFINE upTo(i) == {j \in P : j <= i}
           c == Cardinality(P)
           rank == [i \in P |-> Cardinality(upTo(i))]
<1>1. IsFiniteSet(P) /\ c \in Nat
  <2>1. 1 \in Int /\ m \in Int
    BY SMT
  <2>2. IsFiniteSet(1 .. m)
    BY <2>1, FS_Interval, Zenon
  <2>. QED  BY <2>2, FS_Subset, FS_CardinalityType, Zenon
<1>2. \A i \in P : /\ IsFiniteSet(upTo(i)) /\ Cardinality(upTo(i)) \in Nat
                   /\ Cardinality(upTo(i)) <= c /\ Cardinality(upTo(i)) # 0
  <2> SUFFICES ASSUME NEW i \in P
               PROVE  /\ IsFiniteSet(upTo(i)) /\ Cardinality(upTo(i)) \in Nat
                      /\ Cardinality(upTo(i)) <= c /\ Cardinality(upTo(i)) # 0
    BY Zenon
  <2>1. upTo(i) \in SUBSET P /\ i \in upTo(i)
    BY SMT
  <2> HIDE DEF upTo
  <2>. QED  BY <1>1, <2>1, FS_Subset, FS_CardinalityType, FS_EmptySet, Zenon
<1>3. \A i, k \in P : i < k => Cardinality(upTo(i)) < Cardinality(upTo(k))
  <2> SUFFICES ASSUME NEW i \in P, NEW k \in P, i < k
               PROVE  Cardinality(upTo(i)) < Cardinality(upTo(k))
    BY Zenon
  <2>1. /\ \A j \in P : j <= i => j <= k
        /\ k <= k /\ ~(k <= i)
    BY SMT
  <2>2. upTo(i) \in SUBSET upTo(k) /\ k \in upTo(k) /\ k \notin upTo(i)
    BY <2>1, Zenon
  <2> HIDE DEF upTo
  <2>3. Cardinality(upTo(i)) <= Cardinality(upTo(k)) /\ Cardinality(upTo(i)) # Cardinality(upTo(k))
    BY <1>2, <2>2, FS_Subset, Zenon
  <2>. QED  BY <1>2, <2>3, SMT
<1>4. \A i \in P : rank[i] = Cardinality(upTo(i))
  BY Zenon
<1>5. rank \in Injection(P, 1 .. c)
  <2>1. \A i \in P : rank[i] \in 1 .. c
    BY <1>1, <1>2, <1>4, SMT
  <2>2. rank \in [P -> 1 .. c]
    BY <2>1, Zenon
  <2>3. \A i, k \in P : rank[i] = rank[k] => i = k
    <3> SUFFICES ASSUME NEW i \in P, NEW k \in P, rank[i] = rank[k]  PROVE i = k
      BY Zenon
    <3>1. ~(i < k) /\ ~(k < i)
      BY <1>1, <1>2, <1>3, <1>4, SMT
    <3>. QED  BY <3>1, SMT
  <2> HIDE DEF rank
  <2>. QED  BY <2>2, <2>3, Zenon DEF Injection, IsInjective
<1>6. IsFiniteSet(1 .. c) /\ Cardinality(1 .. c) = c
  <2>1. 1 \in Int /\ c \in Int
    BY <1>1, SMT
  <2>2. IsFiniteSet(1 .. c) /\ Cardinality(1 .. c) = IF 1 > c THEN 0 ELSE c - 1 + 1
    BY <2>1, FS_Interval, Zenon
  <2>. QED  BY <1>1, <2>2, SMT
<1>7. \A n \in 1 .. c : \E i \in P : rank[i] = n
  <2> HIDE DEF c, rank
  <2>1. rank \in Surjection(P, 1 .. c)
    BY <1>5, <1>6, FS_Injection, Zenon DEF c
  <2>. QED  BY <2>1, Zenon DEF Surjection
<1>8. \A n \in 1 .. c : Nth(P, n) \in P /\ rank[Nth(P, n)] = n
  <2> SUFFICES ASSUME NEW n \in 1 .. c  PROVE Nth(P, n) \in P /\ rank[Nth(P, n)] = n
    BY Zenon
  <2>1. \E i \in P : Cardinality(upTo(i)) = n
    BY <1>4, <1>7, Zenon
  <2>2. Nth(P, n) \in P /\ Cardinality(upTo(Nth(P, n))) = n
    BY <2>1, Zenon DEF Nth
  <2>. QED  BY <1>4, <2>2, Zenon
<1> HIDE DEF rank, upTo
<1>9. \A i \in P : rank[i] \in 1 .. c /\ Nth(P, rank[i]) = i
  BY <1>5, <1>8, Zenon DEF Injection, IsInjective
<1>10. \A a, b \in 1 .. c : a < b => Nth(P, a) < Nth(P, b)
  <2> SUFFICES ASSUME NEW a \in 1 .. c, NEW b \in 1 .. c, a < b  PROVE Nth(P, a) < Nth(P, b)
    BY Zenon
  <2> DEFINE x == Nth(P, a)
             y == Nth(P, b)
  <2>1. x \in P /\ y \in P /\ rank[x] = a /\ rank[y] = b
    BY <1>8, Zenon
  <2> HIDE DEF x, y
  <2>2. y < x => b < a
    BY <1>3, <1>4, <2>1, Zenon
  <2>3. x # y
    BY <2>1, SMT
  <2>4. x \in Nat /\ y \in Nat
    BY <2>1, SMT
  <2>5. x < y
    BY <2>2, <2>3, <2>4, SMT
  <2>. QED  BY <2>5 DEF x, y
<1>. QED  BY <1>1, <1>8, <1>9, <1>10, Zenon DEF c

----
(* Lists of keys, each in one place *)

Before(s, a, b) == \E i, j \in DOMAIN s : i < j /\ s[i] = a /\ s[j] = b

LEMMA DropKeeps ==
  ASSUME NEW K, NEW list \in Seq(K), IsInjective(list), NEW S
  PROVE  /\ Drop(list, S) \in Seq(K)
         /\ IsInjective(Drop(list, S))
         /\ ToSet(Drop(list, S)) = ToSet(list) \ S
         /\ \A a, b : Before(Drop(list, S), a, b) <=> a \notin S /\ b \notin S /\ Before(list, a, b)
PROOF
<1> DEFINE kept == {i \in DOMAIN list : list[i] \notin S}
           c == Cardinality(kept)
           d == Drop(list, S)
<1>1. Len(list) \in Nat /\ DOMAIN list = 1 .. Len(list) /\ \A i \in DOMAIN list : list[i] \in K
  BY LenProperties, ElementOfSeq, Zenon
<1>2. kept \in SUBSET (1 .. Len(list))
  BY <1>1, Zenon
<1>3. /\ c \in Nat
      /\ \A n \in 1 .. c : Nth(kept, n) \in kept
      /\ \A i \in kept : \E n \in 1 .. c : Nth(kept, n) = i
      /\ \A a, b \in 1 .. c : a < b => Nth(kept, a) < Nth(kept, b)
  <2> HIDE DEF kept
  <2>. QED  BY <1>1, <1>2, NthOf, Zenon
<1>4. d = [n \in 1 .. c |-> list[Nth(kept, n)]]
  BY Zenon DEF Drop
<1>5. \A i \in kept : i \in DOMAIN list /\ list[i] \notin S
  BY Zenon
<1>6. \A i \in DOMAIN list : list[i] \notin S => i \in kept
  BY Zenon
<1>7. kept \in SUBSET Nat
  BY <1>1, SMT
<1> HIDE DEF kept, c, d
<1>8. DOMAIN d = 1 .. c /\ \A n \in 1 .. c : d[n] = list[Nth(kept, n)]
  BY <1>4, Zenon
<1>9. d \in Seq(K)
  <2>1. d \in [1 .. c -> K]
    BY <1>1, <1>3, <1>4, <1>5, Zenon
  <2>. QED  BY <1>3, <2>1, SeqDef, Zenon
<1>10. IsInjective(d)
  <2> SUFFICES ASSUME NEW a \in 1 .. c, NEW b \in 1 .. c, d[a] = d[b]  PROVE a = b
    BY <1>8, Zenon DEF IsInjective
  <2>1. Nth(kept, a) = Nth(kept, b)
    BY <1>3, <1>5, <1>8, Zenon DEF IsInjective
  <2>2. Nth(kept, a) \in Nat
    BY <1>3, <1>7, Zenon
  <2>3. ~(a < b) /\ ~(b < a)
    <3>1. ~(Nth(kept, a) < Nth(kept, a))
      BY <2>2, SMT
    <3>. QED  BY <1>3, <2>1, <3>1, Zenon
  <2>. QED  BY <1>3, <2>3, SMT
<1>11. ToSet(d) = ToSet(list) \ S
  <2>1. \A n \in 1 .. c : d[n] \in ToSet(list) \ S
    BY <1>3, <1>5, <1>8, Zenon DEF ToSet
  <2>2. \A i \in DOMAIN list : list[i] \notin S => list[i] \in ToSet(d)
    BY <1>3, <1>6, <1>8, Zenon DEF ToSet
  <2>. QED  BY <1>8, <2>1, <2>2, Zenon DEF ToSet
<1>12. ASSUME NEW a, NEW b, Before(d, a, b)
       PROVE  a \notin S /\ b \notin S /\ Before(list, a, b)
  <2>1. PICK m \in 1 .. c, n \in 1 .. c : m < n /\ d[m] = a /\ d[n] = b
    BY <1>8, <1>12, Zenon DEF Before
  <2>. QED  BY <1>3, <1>5, <1>8, <2>1, Zenon DEF Before
<1>13. ASSUME NEW a, NEW b, a \notin S, b \notin S, Before(list, a, b)
       PROVE  Before(d, a, b)
  <2>1. PICK i \in DOMAIN list, j \in DOMAIN list : i < j /\ list[i] = a /\ list[j] = b
    BY <1>13, Zenon DEF Before
  <2>2. i \in kept /\ j \in kept
    BY <1>6, <1>13, <2>1, Zenon
  <2>3. PICK m \in 1 .. c : Nth(kept, m) = i
    BY <1>3, <2>2, Zenon
  <2>4. PICK n \in 1 .. c : Nth(kept, n) = j
    BY <1>3, <2>2, Zenon
  <2>5. m # n /\ ~(n < m)
    <3>1. ~(j < i) /\ i # j
      BY <1>7, <2>1, <2>2, SMT
    <3>. QED  BY <1>3, <2>3, <2>4, <3>1, Zenon
  <2>6. m < n
    BY <1>3, <2>5, SMT
  <2>. QED  BY <1>8, <2>1, <2>3, <2>4, <2>6, Zenon DEF Before
<1>. QED  BY <1>9, <1>10, <1>11, <1>12, <1>13, Zenon DEF d

LEMMA PutFirst ==
  ASSUME NEW K, NEW list \in Seq(K), IsInjective(list), NEW k \in K, k \notin ToSet(list)
  PROVE  /\ <<k>> \o list \in Seq(K)
         /\ IsInjective(<<k>> \o list)
         /\ ToSet(<<k>> \o list) = ToSet(list) \union {k}
         /\ \A a, b : Before(<<k>> \o list, a, b) <=>
              (a = k /\ b \in ToSet(list)) \/ Before(list, a, b)
PROOF
<1> DEFINE f == <<k>> \o list
           n == Len(list)
<1>1. n \in Nat /\ DOMAIN list = 1 .. n
  BY LenProperties, Zenon
<1>2. <<k>> \in Seq(K) /\ Len(<<k>>) = 1 /\ <<k>>[1] = k
  BY SMT
<1>3. f \in Seq(K) /\ Len(f) = 1 + n
      /\ \A i \in 1 .. 1 + n : f[i] = IF i <= 1 THEN <<k>>[i] ELSE list[i - 1]
  BY <1>2, ConcatProperties, Zenon
<1> HIDE DEF f, n
<1>4. DOMAIN f = 1 .. n + 1 /\ f[1] = k /\ 1 \in DOMAIN f
  <2>1. DOMAIN f = 1 .. Len(f)
    BY <1>3, LenProperties, Zenon
  <2>. QED  BY <1>1, <1>2, <1>3, <2>1, SMT
<1>5. \A i \in DOMAIN list : i + 1 \in DOMAIN f /\ f[i + 1] = list[i]
  BY <1>1, <1>3, <1>4, SMT
<1>6. \A i \in DOMAIN f : i = 1 \/ (i > 1 /\ i - 1 \in DOMAIN list /\ f[i] = list[i - 1])
  BY <1>1, <1>3, <1>4, SMT
<1>7. \A i \in DOMAIN list : list[i] # k
  BY Zenon DEF ToSet
<1>8. IsInjective(f)
  <2> SUFFICES ASSUME NEW i \in DOMAIN f, NEW j \in DOMAIN f, f[i] = f[j]  PROVE i = j
    BY Zenon DEF IsInjective
  <2>1. CASE i = 1 \/ j = 1
    BY <1>4, <1>6, <1>7, <2>1, Zenon
  <2>2. CASE i # 1 /\ j # 1
    <3>1. i - 1 = j - 1
      BY <1>6, <2>2, Zenon DEF IsInjective
    <3>. QED  BY <1>1, <1>4, <3>1, SMT
  <2>. QED  BY <2>1, <2>2
<1>9. ToSet(f) = ToSet(list) \union {k}
  <2>1. \A i \in DOMAIN f : f[i] \in ToSet(list) \union {k}
    BY <1>4, <1>6, Zenon DEF ToSet
  <2>2. \A i \in DOMAIN list : list[i] \in ToSet(f)
    BY <1>5, Zenon DEF ToSet
  <2>3. k \in ToSet(f)
    BY <1>4, Zenon DEF ToSet
  <2>. QED  BY <2>1, <2>2, <2>3, Zenon DEF ToSet
<1>10. ASSUME NEW a, NEW b, Before(f, a, b)
       PROVE  (a = k /\ b \in ToSet(list)) \/ Before(list, a, b)
  <2>1. PICK i \in DOMAIN f, j \in DOMAIN f : i < j /\ f[i] = a /\ f[j] = b
    BY <1>10, Zenon DEF Before
  <2>2. i \in Nat /\ j \in Nat /\ 1 <= i
    BY <1>1, <1>4, SMT
  <2>3. j # 1 /\ (i # 1 => i - 1 < j - 1)
    BY <2>1, <2>2, SMT
  <2>4. j - 1 \in DOMAIN list /\ b = list[j - 1]
    BY <1>6, <2>1, <2>3, Zenon
  <2>5. CASE i = 1
    BY <1>4, <2>1, <2>4, <2>5, Zenon DEF ToSet
  <2>6. CASE i # 1
    BY <1>6, <2>1, <2>3, <2>4, <2>6, Zenon DEF Before
  <2>. QED  BY <2>5, <2>6
<1>11. ASSUME NEW a, NEW b, (a = k /\ b \in ToSet(list)) \/ Before(list, a, b)
       PROVE  Before(f, a, b)
  <2>1. CASE a = k /\ b \in ToSet(list)
    <3>1. PICK j \in DOMAIN list : list[j] = b
      BY <2>1, Zenon DEF ToSet
    <3>2. 1 < j + 1
      BY <1>1, SMT
    <3>. QED  BY <1>4, <1>5, <2>1, <3>1, <3>2, Zenon DEF Before
  <2>2. CASE Before(list, a, b)
    <3>1. PICK i \in DOMAIN list, j \in DOMAIN list : i < j /\ list[i] = a /\ list[j] = b
      BY <2>2, Zenon DEF Before
    <3>2. i + 1 < j + 1
      BY <1>1, <3>1, SMT
    <3>. QED  BY <1>5, <3>1, <3>2, Zenon DEF Before
  <2>. QED  BY <1>11, <2>1, <2>2
<1>. QED  BY <1>3, <1>8, <1>9, <1>10, <1>11, Zenon DEF f

LEMMA ToFrontMoves ==
  ASSUME NEW K, NEW list \in Seq(K), IsInjective(list), NEW k \in K
  PROVE  /\ ToFront(list, k) \in Seq(K)
         /\ IsInjective(ToFront(list, k))
         /\ ToSet(ToFront(list, k)) = ToSet(list) \union {k}
         /\ \A a, b : Before(ToFront(list, k), a, b) <=>
              \/ a = k /\ b \in ToSet(list) \ {k}
              \/ a # k /\ b # k /\ Before(list, a, b)
PROOF
<1> DEFINE d == Drop(list, {k})
<1>1. /\ d \in Seq(K) /\ IsInjective(d)
      /\ ToSet(d) = ToSet(list) \ {k}
      /\ \A a, b : Before(d, a, b) <=> a \notin {k} /\ b \notin {k} /\ Before(list, a, b)
  BY DropKeeps, Zenon
<1>2. ToFront(list, k) = <<k>> \o d
  BY Zenon DEF ToFront
<1>3. k \notin ToSet(d)
  BY <1>1, Zenon
<1> HIDE DEF d
<1>4. /\ <<k>> \o d \in Seq(K)
      /\ IsInjective(<<k>> \o d)
      /\ ToSet(<<k>> \o d) = ToSet(d) \union {k}
      /\ \A a, b : Before(<<k>> \o d, a, b) <=> (a = k /\ b \in ToSet(d)) \/ Before(d, a, b)
  BY <1>1, <1>3, PutFirst, Zenon
<1>5. ToSet(ToFront(list, k)) = ToSet(list) \union {k}
  BY <1>1, <1>2, <1>4, SMT
<1>6. ASSUME NEW a, NEW b
      PROVE  Before(ToFront(list, k), a, b) <=>
                \/ a = k /\ b \in ToSet(list) \ {k}
                \/ a # k /\ b # k /\ Before(list, a, b)
  <2>1. Before(d, a, b) <=> a # k /\ b # k /\ Before(list, a, b)
    BY <1>1, Zenon
  <2>2. Before(ToFront(list, k), a, b) <=> (a = k /\ b \in ToSet(d)) \/ Before(d, a, b)
    BY <1>2, <1>4, Zenon
  <2>. QED  BY <1>1, <2>1, <2>2, Zenon
<1>. QED  BY <1>2, <1>4, <1>5, <1>6, Zenon

----
(* What entries are charged *)

\* The units that the keys of S are charged in index e.
Units(e, S) == UNION {{k} \X (1 .. Size[e[k].value]) : k \in S}

LEMMA ChargeUnits ==
  /\ \A S : Charge(S) = Cardinality(Units(entries, S))
  /\ Charge(Held)' = Cardinality(Units(entries', DOMAIN entries'))
PROOF
  BY Zenon DEF Charge, Units, Held

LEMMA UnitsOfOne ==
  ASSUME NEW e, NEW k, e[k] \in Entry
  PROVE  /\ IsFiniteSet(Units(e, {k}))
         /\ Cardinality(Units(e, {k})) = Size[e[k].value]
         /\ Size[e[k].value] \in Nat
PROOF
<1> DEFINE n == Size[e[k].value]
<1>1. n \in Nat
  BY SizeAssumption, SMT DEF Entry
<1>2. Units(e, {k}) = {k} \X (1 .. n)
  BY SMT DEF Units
<1> HIDE DEF n
<1>3. IsFiniteSet(1 .. n) /\ Cardinality(1 .. n) = n
  <2>1. 1 \in Int /\ n \in Int
    BY <1>1, SMT
  <2>2. IsFiniteSet(1 .. n) /\ Cardinality(1 .. n) = IF 1 > n THEN 0 ELSE n - 1 + 1
    BY <2>1, FS_Interval, Zenon
  <2>. QED  BY <1>1, <2>2, SMT
<1>4. IsFiniteSet({k}) /\ Cardinality({k}) = 1
  BY FS_Singleton, Zenon
<1>5. IsFiniteSet({k} \X (1 .. n)) /\ Cardinality({k} \X (1 .. n)) = 1 * n
  <2>1. /\ IsFiniteSet({k} \X (1 .. n))
        /\ Cardinality({k} \X (1 .. n)) = Cardinality({k}) * Cardinality(1 .. n)
    BY <1>3, <1>4, FS_Product, Zenon
  <2>. QED  BY <1>3, <1>4, <2>1, Zenon
<1>6. 1 * n = n
  BY <1>1, SMT
<1>. QED  BY <1>1, <1>2, <1>5, <1>6, Zenon DEF n

LEMMA UnitsFinite ==
  ASSUME NEW e, NEW S, IsFiniteSet(S), \A k \in S : e[k] \in Entry
  PROVE  IsFiniteSet(Units(e, S)) /\ Cardinality(Units(e, S)) \in Nat
PROOF
<1> DEFINE of(k) == {k} \X (1 .. Size[e[k].value])
           f == [k \in S |-> of(k)]
           T == {of(k) : k \in S}
<1>1. \A k \in S : IsFiniteSet(of(k))
  <2> SUFFICES ASSUME NEW k \in S  PROVE IsFiniteSet(of(k))
    BY Zenon
  <2>1. Units(e, {k}) = of(k)
    BY SMT DEF Units
  <2>. QED  BY <2>1, UnitsOfOne, Zenon
<1>2. f \in Surjection(S, T)
  BY Zenon DEF Surjection
<1>3. Units(e, S) = UNION T
  BY Zenon DEF Units
<1>4. \A t \in T : IsFiniteSet(t)
  BY <1>1, Zenon
<1> HIDE DEF f, T
<1>5. IsFiniteSet(T)
  BY <1>2, FS_Surjection, Zenon
<1>6. IsFiniteSet(UNION T)
  BY <1>4, <1>5, FS_UNION, Zenon
<1>. QED  BY <1>3, <1>6, FS_CardinalityType, Zenon

\* Keys are charged apart from one another.
LEMMA UnitsAdd ==
  ASSUME NEW e, NEW S, NEW T, IsFiniteSet(S), IsFiniteSet(T), S \intersect T = {},
         \A k \in S \union T : e[k] \in Entry
  PROVE  /\ Cardinality(Units(e, S \union T)) = Cardinality(Units(e, S)) + Cardinality(Units(e, T))
         /\ Cardinality(Units(e, S)) \in Nat /\ Cardinality(Units(e, T)) \in Nat
PROOF
<1>1. Units(e, S \union T) = Units(e, S) \union Units(e, T)
  BY SMT DEF Units
<1>2. Units(e, S) \intersect Units(e, T) = {}
  <2>1. \A u \in Units(e, S) : u[1] \in S
    BY SMT DEF Units
  <2>2. \A u \in Units(e, T) : u[1] \in T
    BY SMT DEF Units
  <2>. QED  BY <2>1, <2>2, Zenon
<1>3. /\ IsFiniteSet(Units(e, S)) /\ Cardinality(Units(e, S)) \in Nat
      /\ IsFiniteSet(Units(e, T)) /\ Cardinality(Units(e, T)) \in Nat
  BY UnitsFinite, Zenon
<1>4. Cardinality(Units(e, S) \intersect Units(e, T)) = 0
  BY <1>2, FS_EmptySet, Zenon
<1>5. Cardinality(Units(e, S) \union Units(e, T))
        = Cardinality(Units(e, S)) + Cardinality(Units(e, T))
            - Cardinality(Units(e, S) \intersect Units(e, T))
  BY <1>3, FS_Union, Zenon
<1> DEFINE a == Cardinality(Units(e, S))
           b == Cardinality(Units(e, T))
           c == Cardinality(Units(e, S \union T))
<1>6. a \in Nat /\ b \in Nat /\ c = a + b - 0
  BY <1>1, <1>3, <1>4, <1>5, Zenon
<1> HIDE DEF a, b, c
<1>7. c = a + b
  BY <1>6, SMT
<1>. QED  BY <1>3, <1>7, Zenon DEF a, b, c

LEMMA UnitsAgree ==
  ASSUME NEW e, NEW f, NEW S, \A k \in S : e[k].value = f[k].value
  PROVE  Units(e, S) = Units(f, S)
PROOF
  BY Zenon DEF Units

----
(* The three structures *)

RestTyped == enabled \in BOOLEAN /\ closed \in BOOLEAN /\ cleaning \in BOOLEAN /\ event \in Events

IndexInv == Held \subseteq Keys /\ entries \in [Held -> Entry]

\* The recency list is the history of use with the keys taken out that are not held.
ListInv ==
    /\ lru \in Seq(Keys) /\ IsInjective(lru)
    /\ recency \in Seq(Keys) /\ IsInjective(recency)
    /\ ToSet(lru) = Held
    /\ Held \subseteq ToSet(recency)
    /\ \A a, b \in Held : Before(lru, a, b) => Before(recency, a, b)

SizeInv == size = Charge(Held)

IInv == RestTyped /\ IndexInv /\ ListInv /\ SizeInv

LEMMA HeldFinite ==
  ASSUME ListInv
  PROVE  /\ IsFiniteSet(Held) /\ Cardinality(Held) = Len(lru) /\ Len(lru) \in Nat
         /\ \A S \in SUBSET Held : IsFiniteSet(S)
PROOF
<1>1. /\ Len(lru) \in Nat /\ lru \in [1 .. Len(lru) -> Keys] /\ DOMAIN lru = 1 .. Len(lru)
      /\ IsInjective(lru) /\ ToSet(lru) = Held
  BY LenProperties, Zenon DEF ListInv
<1>2. lru \in Surjection(1 .. Len(lru), Held) /\ lru \in Injection(1 .. Len(lru), Held)
  <2>1. lru \in [1 .. Len(lru) -> Held]
    <3>1. \A i \in 1 .. Len(lru) : lru[i] \in Held
      BY <1>1, Zenon DEF ToSet
    <3>. QED  BY <1>1, <3>1, Zenon
  <2>2. \A h \in Held : \E i \in 1 .. Len(lru) : lru[i] = h
    BY <1>1, Zenon DEF ToSet
  <2>. QED  BY <1>1, <2>1, <2>2, Zenon DEF Surjection, Injection
<1>3. IsFiniteSet(1 .. Len(lru)) /\ Cardinality(1 .. Len(lru)) = Len(lru)
  <2>1. 1 \in Int /\ Len(lru) \in Int
    BY <1>1, SMT
  <2>2. /\ IsFiniteSet(1 .. Len(lru))
        /\ Cardinality(1 .. Len(lru)) = IF 1 > Len(lru) THEN 0 ELSE Len(lru) - 1 + 1
    BY <2>1, FS_Interval, Zenon
  <2>. QED  BY <1>1, <2>2, SMT
<1>4. IsFiniteSet(Held) /\ Cardinality(Held) = Len(lru)
  BY <1>2, <1>3, FS_Surjection, Zenon
<1>. QED  BY <1>1, <1>4, FS_Subset, Zenon

\* Charge is the sum of what its parts are charged.
LEMMA Charges ==
  ASSUME IndexInv, ListInv
  PROVE  /\ \A S \in SUBSET Held : Charge(S) \in Nat
         /\ \A S \in SUBSET Held : Charge(Held) = Charge(S) + Charge(Held \ S)
         /\ \A k \in Held : Charge({k}) = Size[entries[k].value]
PROOF
<1>1. \A k \in Held : entries[k] \in Entry
  BY Zenon DEF IndexInv
<1>2. \A S \in SUBSET Held : Charge(S) \in Nat
  BY <1>1, HeldFinite, ChargeUnits, UnitsFinite, Zenon
<1>3. ASSUME NEW S \in SUBSET Held  PROVE Charge(Held) = Charge(S) + Charge(Held \ S)
  <2>1. S \union (Held \ S) = Held /\ S \intersect (Held \ S) = {}
    BY Zenon
  <2>2. Cardinality(Units(entries, S \union (Held \ S)))
          = Cardinality(Units(entries, S)) + Cardinality(Units(entries, Held \ S))
    BY <1>1, <2>1, HeldFinite, UnitsAdd, Zenon
  <2>. QED  BY <2>1, <2>2, ChargeUnits, Zenon
<1>4. \A k \in Held : Charge({k}) = Size[entries[k].value]
  BY <1>1, UnitsOfOne, ChargeUnits, Zenon
<1>. QED  BY <1>2, <1>3, <1>4, Zenon

LEMMA IInvImplies == IInv => StructuresAgree
PROOF
<1> SUFFICES ASSUME IInv  PROVE StructuresAgree
  OBVIOUS
<1>1. size \in Nat
  BY Charges, Zenon DEF IInv, SizeInv
<1>2. TypeOK
  BY <1>1, Zenon DEF IInv, RestTyped, IndexInv, ListInv, TypeOK
<1>. QED  BY <1>2, HeldFinite, Zenon DEF IInv, ListInv, SizeInv, StructuresAgree

\* Keys leave all three structures together.
LEMMA Removed ==
  ASSUME IndexInv, ListInv, SizeInv, NEW S \in SUBSET Held, RemoveAll(S), recency' = recency
  PROVE  IndexInv' /\ ListInv' /\ SizeInv'
PROOF
<1>1. /\ entries' = [k \in Held \ S |-> entries[k]]
      /\ lru' = Drop(lru, S) /\ size' = size - Charge(S)
  BY Zenon DEF RemoveAll
<1>2. Held' = Held \ S /\ \A k \in Held \ S : entries'[k] = entries[k]
  BY <1>1, Zenon DEF Held
<1>3. IndexInv'
  <2>1. \A k \in Held \ S : entries[k] \in Entry
    BY Zenon DEF IndexInv
  <2>. QED  BY <1>1, <1>2, <2>1, Zenon DEF IndexInv
<1>4. ListInv'
  <2>1. /\ lru' \in Seq(Keys) /\ IsInjective(lru') /\ ToSet(lru') = ToSet(lru) \ S
        /\ \A a, b : Before(lru', a, b) => Before(lru, a, b)
    BY <1>1, DropKeeps, Zenon DEF ListInv
  <2>. QED  BY <1>2, <2>1, Zenon DEF ListInv
<1>5. SizeInv'
  <2>1. Charge(Held)' = Charge(Held \ S)
    <3>1. DOMAIN entries' = Held \ S /\ \A k \in Held \ S : entries'[k].value = entries[k].value
      BY <1>2, Zenon DEF Held
    <3>2. Units(entries', Held \ S) = Units(entries, Held \ S)
      BY <3>1, UnitsAgree, Zenon
    <3>. QED  BY <3>1, <3>2, ChargeUnits, Zenon
  <2>2. Charge(Held) = Charge(S) + Charge(Held \ S) /\ Charge(S) \in Nat /\ Charge(Held \ S) \in Nat
    BY Charges, Zenon
  <2> DEFINE s == Charge(S)
             r == Charge(Held \ S)
  <2>3. size = s + r /\ size' = size - s /\ s \in Nat /\ r \in Nat
    BY <1>1, <2>2, Zenon DEF SizeInv
  <2> HIDE DEF s, r
  <2>4. size' = r
    BY <2>3, SMT
  <2>. QED  BY <2>1, <2>4, Zenon DEF SizeInv, r
<1>. QED  BY <1>3, <1>4, <1>5

\* A key that is used comes to the front of the list and of the history.
LEMMA Used ==
  ASSUME ListInv, NEW k \in Keys, Use(k),
         lru' \in Seq(Keys), IsInjective(lru'), ToSet(lru') = Held', Held' \subseteq Held \union {k},
         \A a, b : Before(lru', a, b) =>
             \/ a = k /\ b \in Held \ {k}
             \/ a # k /\ b # k /\ Before(lru, a, b)
  PROVE  ListInv'
PROOF
<1>1. /\ recency' \in Seq(Keys) /\ IsInjective(recency')
      /\ ToSet(recency') = ToSet(recency) \union {k}
      /\ \A a, b : Before(recency', a, b) <=>
              \/ a = k /\ b \in ToSet(recency) \ {k}
              \/ a # k /\ b # k /\ Before(recency, a, b)
  BY ToFrontMoves, Zenon DEF ListInv, Use
<1>2. Held' \subseteq ToSet(recency')
  BY <1>1, Zenon DEF ListInv
<1>3. ASSUME NEW a \in Held', NEW b \in Held', Before(lru', a, b)  PROVE Before(recency', a, b)
  <2>1. CASE a = k /\ b \in Held \ {k}
    BY <1>1, <2>1, Zenon DEF ListInv
  <2>2. CASE a # k /\ b # k /\ Before(lru, a, b)
    <3>1. a \in Held /\ b \in Held
      BY <2>2, Zenon
    <3>. QED  BY <1>1, <2>2, <3>1, Zenon DEF ListInv
  <2>. QED  BY <1>3, <2>1, <2>2
<1>. QED  BY <1>1, <1>2, <1>3, Zenon DEF ListInv

\* A key that is held is used.
LEMMA MovedToFront ==
  ASSUME ListInv, NEW k \in Held, k \in Keys, Use(k), lru' = ToFront(lru, k), Held' = Held
  PROVE  ListInv'
PROOF
<1>1. /\ lru' \in Seq(Keys) /\ IsInjective(lru') /\ ToSet(lru') = ToSet(lru) \union {k}
      /\ \A a, b : Before(lru', a, b) <=>
              \/ a = k /\ b \in ToSet(lru) \ {k}
              \/ a # k /\ b # k /\ Before(lru, a, b)
  <2>1. lru \in Seq(Keys) /\ IsInjective(lru)
    BY DEF ListInv
  <2> DEFINE f == ToFront(lru, k)
  <2>2. /\ f \in Seq(Keys) /\ IsInjective(f) /\ ToSet(f) = ToSet(lru) \union {k}
        /\ \A a, b : Before(f, a, b) <=>
              \/ a = k /\ b \in ToSet(lru) \ {k}
              \/ a # k /\ b # k /\ Before(lru, a, b)
    BY <2>1, ToFrontMoves, Zenon
  <2>3. f = lru'
    BY Zenon
  <2> HIDE DEF f
  <2>. QED  BY <2>2, <2>3
<1>2. ToSet(lru) = Held
  BY DEF ListInv
<1>3. ToSet(lru') = Held'
  BY <1>1, <1>2, Zenon
<1>. QED  BY <1>1, <1>2, <1>3, Used, Zenon

\* The index gets an entry for k and keeps those of stay.
LEMMA Charged ==
  ASSUME IndexInv, ListInv, NEW k \in Keys, NEW e \in Entry, NEW stay \in SUBSET Held,
         entries' = [j \in stay \union {k} |-> IF j = k THEN e ELSE entries[j]]
  PROVE  /\ IndexInv'
         /\ Held' = stay \union {k}
         /\ Charge(Held)' = Charge(stay \ {k}) + Size[e.value]
         /\ Charge(stay \ {k}) \in Nat /\ Size[e.value] \in Nat
PROOF
<1>1. Held' = stay \union {k} /\ entries'[k] = e /\ \A j \in stay \ {k} : entries'[j] = entries[j]
  BY Zenon DEF Held
<1>2. \A j \in Held' : entries'[j] \in Entry
  BY <1>1, Zenon DEF IndexInv
<1>3. IndexInv'
  BY <1>1, <1>2, Zenon DEF IndexInv
<1>4. Charge(Held)' = Cardinality(Units(entries', (stay \ {k}) \union {k}))
  <2>1. (stay \ {k}) \union {k} = DOMAIN entries'
    BY <1>1, Zenon DEF Held
  <2>. QED  BY <2>1, ChargeUnits, Zenon
<1>5. IsFiniteSet(stay \ {k}) /\ IsFiniteSet({k}) /\ (stay \ {k}) \intersect {k} = {}
  BY HeldFinite, FS_Singleton, Zenon
<1>6. Cardinality(Units(entries', (stay \ {k}) \union {k}))
        = Cardinality(Units(entries', stay \ {k})) + Cardinality(Units(entries', {k}))
  BY <1>1, <1>2, <1>5, UnitsAdd, Zenon
<1>7. Units(entries', stay \ {k}) = Units(entries, stay \ {k})
  BY <1>1, UnitsAgree, Zenon
<1>8. Cardinality(Units(entries', {k})) = Size[e.value] /\ Size[e.value] \in Nat
  BY <1>1, UnitsOfOne, Zenon
<1>9. Charge(stay \ {k}) \in Nat
  BY Charges, Zenon
<1>. QED  BY <1>1, <1>3, <1>4, <1>6, <1>7, <1>8, <1>9, ChargeUnits, Zenon

\* What evictOldest leaves is the front of the list, and it leaves room unless it leaves nothing.
LEMMA EvictedFromBack ==
  ASSUME IndexInv, ListInv, NEW v \in Values
  PROVE  \E n \in 0 .. Len(lru) :
           /\ Evicted(v) = Held \ First(n)
           /\ n = 0 \/ size - Charge(Evicted(v)) + Size[v] <= MaxSize
PROOF
<1> DEFINE fits(n) == size - Charge(Held \ First(n)) + Size[v] <= MaxSize
           T == {0} \union {n \in 1 .. Len(lru) : fits(n)}
<1>1. Len(lru) \in Nat
  BY HeldFinite, Zenon
<1>2. T \in SUBSET (0 .. Len(lru)) /\ T # {}
  <2>1. 0 \in 0 .. Len(lru) /\ \A n \in 1 .. Len(lru) : n \in 0 .. Len(lru)
    BY <1>1, SMT
  <2>. QED  BY <2>1, Zenon
<1>3. Evicted(v) = Held \ First(Max(T))
  BY Zenon DEF Evicted
<1>4. Max(T) \in 0 .. Len(lru) /\ (Max(T) = 0 \/ fits(Max(T)))
  <2>1. \A n \in T : n = 0 \/ fits(n)
    BY Zenon
  <2> HIDE DEF T, fits
  <2>. QED  BY <1>1, <1>2, <2>1, LargestOf, Zenon
<1>. QED  BY <1>3, <1>4, Zenon

LEMMA StructuresStill ==
  ASSUME IndexInv, ListInv, SizeInv, UNCHANGED <<entries, lru, size, recency>>
  PROVE  IndexInv' /\ ListInv' /\ SizeInv'
PROOF
<1>1. entries' = entries /\ lru' = lru /\ size' = size /\ recency' = recency
  OBVIOUS
<1>2. Held' = Held
  BY <1>1, Zenon DEF Held
<1>3. Charge(Held)' = Charge(Held)
  BY <1>1, ChargeUnits, Zenon DEF Held
<1>. QED  BY <1>1, <1>2, <1>3, Zenon DEF IndexInv, ListInv, SizeInv

LEMMA EventTypes ==
  /\ [op |-> "none"] \in Events /\ [op |-> "clear"] \in Events
  /\ \A k \in Keys, f \in Values \union {Miss} : [op |-> "get", key |-> k, found |-> f] \in Events
  /\ \A k \in Keys, v \in Values : [op |-> "set", key |-> k, value |-> v] \in Events
  /\ \A S \in SUBSET Keys : [op |-> "invalidate", keys |-> S] \in Events
PROOF
<1>1. [op |-> "none"] \in Events /\ [op |-> "clear"] \in Events
  BY SMT DEF Events
<1>2. ASSUME NEW k \in Keys, NEW f \in Values \union {Miss}
      PROVE  [op |-> "get", key |-> k, found |-> f] \in Events
  BY SMT DEF Events
<1>3. ASSUME NEW k \in Keys, NEW v \in Values  PROVE [op |-> "set", key |-> k, value |-> v] \in Events
  BY SMT DEF Events
<1>4. ASSUME NEW S \in SUBSET Keys  PROVE [op |-> "invalidate", keys |-> S] \in Events
  BY SMT DEF Events
<1>. QED  BY <1>1, <1>2, <1>3, <1>4, Zenon

LEMMA InitIInv == Init => IInv
PROOF
<1> SUFFICES ASSUME Init  PROVE IInv
  OBVIOUS
<1>1. Held = {} /\ entries = [k \in {} |-> [value |-> Miss, life |-> 0]]
  BY Zenon DEF Init, Empty, Held
<1>2. RestTyped
  BY EventTypes, Zenon DEF Init, RestTyped
<1>3. IndexInv
  BY <1>1, SMT DEF IndexInv
<1>4. ListInv
  <2>1. lru = <<>> /\ recency = <<>>
    BY Zenon DEF Init
  <2>2. <<>> \in Seq(Keys) /\ DOMAIN <<>> = {}
    BY SMT
  <2>. QED  BY <1>1, <2>1, <2>2, Zenon DEF ListInv, IsInjective, ToSet
<1>5. SizeInv
  <2>1. Units(entries, {}) = {}
    BY Zenon DEF Units
  <2>. QED  BY <1>1, <2>1, ChargeUnits, FS_EmptySet, Zenon DEF SizeInv, Init
<1>. QED  BY <1>2, <1>3, <1>4, <1>5 DEF IInv

LEMMA GetIInv == ASSUME IInv, NEW k \in Keys, Get(k) \/ GetDisabled(k)  PROVE IInv'
PROOF
<1>0. RestTyped /\ IndexInv /\ ListInv /\ SizeInv
  BY DEF IInv
<1>1. UNCHANGED <<enabled, closed, cleaning>>
  BY Zenon DEF Get, GetDisabled
<1>2. ASSUME NEW f \in Values \union {Miss}, event' = [op |-> "get", key |-> k, found |-> f]
      PROVE  RestTyped'
  BY <1>0, <1>1, <1>2, EventTypes, Zenon DEF RestTyped
<1>3. CASE GetMiss(k) \/ GetDisabled(k)
  <2>1. /\ UNCHANGED <<entries, lru, size, recency>>
        /\ event' = [op |-> "get", key |-> k, found |-> Miss]
    BY <1>3, Zenon DEF GetMiss, GetDisabled, Unchanged, Answer
  <2>. QED  BY <1>0, <1>2, <2>1, StructuresStill, Zenon DEF IInv
<1>4. CASE GetExpired(k)
  <2>1. /\ {k} \in SUBSET Held /\ RemoveAll({k}) /\ recency' = recency
        /\ event' = [op |-> "get", key |-> k, found |-> Miss]
    BY <1>4, Zenon DEF GetExpired, Answer
  <2>. QED  BY <1>0, <1>2, <2>1, Removed, Zenon DEF IInv
<1>5. CASE GetHit(k)
  <2>1. /\ k \in Held /\ lru' = ToFront(lru, k) /\ entries' = entries /\ size' = size /\ Use(k)
        /\ event' = [op |-> "get", key |-> k, found |-> entries[k].value]
    BY <1>5, Zenon DEF GetHit, Answer
  <2>2. entries[k].value \in Values
    <3>1. entries[k] \in Entry
      BY <1>0, <2>1, Zenon DEF IndexInv
    <3>. QED  BY <3>1, SMT DEF Entry
  <2>3. Held' = Held /\ Charge(Held)' = Charge(Held)
    BY <2>1, ChargeUnits, Zenon DEF Held
  <2>4. ListInv'
    BY <1>0, <2>1, <2>3, MovedToFront, Zenon
  <2>5. IndexInv' /\ SizeInv'
    BY <1>0, <2>1, <2>3, Zenon DEF IndexInv, SizeInv
  <2>. QED  BY <1>2, <2>1, <2>2, <2>4, <2>5, Zenon DEF IInv
<1>. QED  BY <1>3, <1>4, <1>5, Zenon DEF Get

LEMMA EntryType ==
  ASSUME NEW v \in Values, NEW ttl \in TTLs
  PROVE  [value |-> v, life |-> LifeOf(ttl)] \in Entry
PROOF
<1>1. LifeOf(ttl) \in Nat
  BY LifeTyped, Zenon
<1>. QED  BY <1>1, SMT DEF Entry

LEMMA ReplaceIInv ==
  ASSUME IndexInv, ListInv, SizeInv, NEW k \in Keys, NEW v \in Values, NEW ttl \in TTLs,
         Replace(k, v, ttl), Use(k)
  PROVE  IndexInv' /\ ListInv' /\ SizeInv'
PROOF
<1> DEFINE e == [value |-> v, life |-> LifeOf(ttl)]
<1>1. /\ k \in Held /\ entries' = [entries EXCEPT ![k] = e]
      /\ lru' = ToFront(lru, k) /\ size' = size - Size[entries[k].value] + Size[v]
  BY Zenon DEF Replace
<1>2. e \in Entry /\ e.value = v
  BY EntryType, SMT
<1> HIDE DEF e
<1>3. entries' = [j \in Held \union {k} |-> IF j = k THEN e ELSE entries[j]]
  <2>1. entries = [j \in Held |-> entries[j]]
    BY Zenon DEF IndexInv
  <2>. QED  BY <1>1, <2>1, ReplacingIn, Zenon
<1>4. /\ IndexInv' /\ Held' = Held \union {k}
      /\ Charge(Held)' = Charge(Held \ {k}) + Size[v]
      /\ Charge(Held \ {k}) \in Nat /\ Size[v] \in Nat
  BY <1>2, <1>3, Charged, Zenon
<1>5. Held' = Held
  BY <1>1, <1>4, Zenon
<1>6. ListInv'
  BY <1>1, <1>5, MovedToFront, Zenon
<1>7. SizeInv'
  <2> DEFINE r == Charge(Held \ {k})
             o == Size[entries[k].value]
             n == Size[v]
             c == Charge(Held)'
  <2>1. Charge(Held) = o + r /\ o \in Nat
    BY <1>1, Charges, Zenon
  <2>2. size = o + r /\ o \in Nat /\ r \in Nat /\ n \in Nat /\ size' = size - o + n /\ c = r + n
    BY <1>1, <1>4, <2>1, Zenon DEF SizeInv
  <2> HIDE DEF r, o, n, c
  <2>3. size' = c
    BY <2>2, SMT
  <2>. QED  BY <2>3, Zenon DEF SizeInv, c
<1>. QED  BY <1>4, <1>6, <1>7

LEMMA InsertIInv ==
  ASSUME IndexInv, ListInv, SizeInv, NEW k \in Keys, NEW v \in Values, NEW ttl \in TTLs,
         Insert(k, v, ttl), Use(k)
  PROVE  IndexInv' /\ ListInv' /\ SizeInv'
PROOF
<1> DEFINE e == [value |-> v, life |-> LifeOf(ttl)]
           out == Evicted(v)
           stay == Held \ out
<1>1. /\ k \notin Held
      /\ entries' = [j \in stay \union {k} |-> IF j = k THEN e ELSE entries[j]]
      /\ lru' = <<k>> \o Drop(lru, out) /\ size' = size - Charge(out) + Size[v]
  BY Zenon DEF Insert
<1>2. e \in Entry /\ e.value = v
  BY EntryType, SMT
<1>3. out \in SUBSET Held
  BY EvictedFromBack, Zenon
<1>4. stay \in SUBSET Held /\ stay \ {k} = stay
  BY <1>1, Zenon
<1> HIDE DEF e, out
<1>5. /\ IndexInv' /\ Held' = stay \union {k}
      /\ Charge(Held)' = Charge(stay) + Size[v]
      /\ Charge(stay) \in Nat /\ Size[v] \in Nat
  <2> HIDE DEF stay
  <2>1. /\ IndexInv' /\ Held' = stay \union {k}
        /\ Charge(Held)' = Charge(stay \ {k}) + Size[e.value]
        /\ Charge(stay \ {k}) \in Nat /\ Size[e.value] \in Nat
    BY <1>1, <1>2, <1>4, Charged, Zenon
  <2>. QED  BY <1>2, <1>4, <2>1, Zenon
<1>6. ListInv'
  <2> DEFINE d == Drop(lru, out)
  <2>1. lru \in Seq(Keys) /\ IsInjective(lru) /\ ToSet(lru) = Held
    BY DEF ListInv
  <2>2. /\ d \in Seq(Keys) /\ IsInjective(d) /\ ToSet(d) = Held \ out
        /\ \A a, b : Before(d, a, b) <=> a \notin out /\ b \notin out /\ Before(lru, a, b)
    BY <2>1, DropKeeps, Zenon
  <2>3. k \notin ToSet(d)
    BY <1>1, <2>2, Zenon
  <2> DEFINE f == <<k>> \o d
  <2>4. f = lru'
    BY <1>1, Zenon
  <2> HIDE DEF d
  <2>5. /\ f \in Seq(Keys) /\ IsInjective(f) /\ ToSet(f) = ToSet(d) \union {k}
        /\ \A a, b : Before(f, a, b) <=> (a = k /\ b \in ToSet(d)) \/ Before(d, a, b)
    BY <2>2, <2>3, PutFirst, Zenon
  <2> HIDE DEF f
  <2>6. ToSet(f) = Held' /\ Held' \subseteq Held \union {k}
    BY <1>5, <2>2, <2>5, Zenon
  <2>7. ASSUME NEW a, NEW b, Before(f, a, b)
        PROVE  (a = k /\ b \in Held \ {k}) \/ (a # k /\ b # k /\ Before(lru, a, b))
    <3>1. CASE a = k /\ b \in ToSet(d)
      BY <1>1, <2>2, <3>1, Zenon
    <3>2. CASE Before(d, a, b)
      <4>1. a \in ToSet(d) /\ b \in ToSet(d)
        BY <3>2, Zenon DEF Before, ToSet
      <4>. QED  BY <2>2, <2>3, <3>2, <4>1, Zenon
    <3>. QED  BY <2>5, <2>7, <3>1, <3>2, Zenon
  <2>8. /\ lru' \in Seq(Keys) /\ IsInjective(lru') /\ ToSet(lru') = Held'
        /\ \A a, b : Before(lru', a, b) =>
              (a = k /\ b \in Held \ {k}) \/ (a # k /\ b # k /\ Before(lru, a, b))
    BY <2>4, <2>5, <2>6, <2>7
  <2>. QED  BY <2>6, <2>8, Used, Zenon
<1>7. SizeInv'
  <2>1. Charge(Held) = Charge(out) + Charge(stay) /\ Charge(out) \in Nat
    BY <1>3, Charges, Zenon
  <2> DEFINE r == Charge(stay)
             o == Charge(out)
             n == Size[v]
             c == Charge(Held)'
  <2>2. size = o + r /\ o \in Nat /\ r \in Nat /\ n \in Nat /\ size' = size - o + n /\ c = r + n
    BY <1>1, <1>5, <2>1, Zenon DEF SizeInv
  <2> HIDE DEF r, o, n, c
  <2>3. size' = c
    BY <2>2, SMT
  <2>. QED  BY <2>3, Zenon DEF SizeInv, c
<1>. QED  BY <1>5, <1>6, <1>7

LEMMA OtherIInv ==
  ASSUME IInv,
         \/ \E matched \in Patterns : Invalidate(matched)
         \/ Clear \/ Close \/ CleanupExpired \/ CleanupStops \/ Tick \/ UNCHANGED vars
  PROVE  IInv'
PROOF
<1>0. RestTyped /\ IndexInv /\ ListInv /\ SizeInv
  BY DEF IInv
<1>1. ASSUME NEW matched \in Patterns, Invalidate(matched)  PROVE IInv'
  <2>1. /\ Held \intersect matched \in SUBSET Held /\ RemoveAll(Held \intersect matched)
        /\ recency' = recency
    BY <1>1, Zenon DEF Invalidate
  <2>2. RestTyped'
    <3>1. matched \in SUBSET Keys
      BY PatternsAssumption, Zenon
    <3>. QED  BY <1>0, <1>1, <3>1, EventTypes, Zenon DEF RestTyped, Invalidate
  <2>. QED  BY <1>0, <2>1, <2>2, Removed, Zenon DEF IInv
<1>2. CASE Clear
  <2>1. Held' = {} /\ entries' = [k \in {} |-> [value |-> Miss, life |-> 0]]
    BY <1>2, Zenon DEF Clear, Empty, Held
  <2>2. RestTyped'
    BY <1>0, <1>2, EventTypes, Zenon DEF Clear, RestTyped
  <2>3. IndexInv'
    BY <2>1, SMT DEF IndexInv
  <2>4. ListInv'
    <3>1. lru' = <<>> /\ recency' = recency
      BY <1>2, Zenon DEF Clear
    <3>2. <<>> \in Seq(Keys) /\ DOMAIN <<>> = {}
      BY SMT
    <3>. QED  BY <1>0, <2>1, <3>1, <3>2, Zenon DEF ListInv, IsInjective, ToSet
  <2>5. SizeInv'
    <3>1. Units(entries', {}) = {}
      BY Zenon DEF Units
    <3>2. DOMAIN entries' = {} /\ size' = 0
      BY <1>2, <2>1, Zenon DEF Clear, Held
    <3>. QED  BY <3>1, <3>2, ChargeUnits, FS_EmptySet, Zenon DEF SizeInv
  <2>. QED  BY <2>2, <2>3, <2>4, <2>5 DEF IInv
<1>3. CASE Close \/ CleanupStops \/ UNCHANGED vars
  <2>1. UNCHANGED <<entries, lru, size, recency, event, enabled>>
        /\ closed' \in {closed, TRUE} /\ cleaning' \in {cleaning, FALSE}
    <3>1. CASE Close
      BY <3>1, Zenon DEF Close
    <3>2. CASE CleanupStops
      BY <3>2, Zenon DEF CleanupStops
    <3>3. CASE UNCHANGED vars
      BY <3>3, Zenon DEF vars
    <3>. QED  BY <1>3, <3>1, <3>2, <3>3
  <2>2. RestTyped'
    BY <1>0, <2>1, Zenon DEF RestTyped
  <2>. QED  BY <1>0, <2>1, <2>2, StructuresStill, Zenon DEF IInv
<1>4. CASE CleanupExpired
  <2>1. Expired \in SUBSET Held /\ RemoveAll(Expired) /\ recency' = recency
    BY <1>4, Zenon DEF CleanupExpired, Expired
  <2>2. RestTyped'
    BY <1>0, <1>4, Zenon DEF CleanupExpired, RestTyped
  <2>. QED  BY <1>0, <2>1, <2>2, Removed, Zenon DEF IInv
<1>5. CASE Tick
  <2>1. /\ entries' = [k \in Held |-> [entries[k] EXCEPT !.life = IF @ = 0 THEN 0 ELSE @ - 1]]
        /\ UNCHANGED <<lru, size, recency, event, enabled, closed, cleaning>>
    BY <1>5, Zenon DEF Tick
  <2>2. \A e \in Entry : LET after == [e EXCEPT !.life = IF @ = 0 THEN 0 ELSE @ - 1]
                         IN  after \in Entry /\ after.value = e.value
    BY SMT DEF Entry
  <2>3. \A k \in Held : entries[k] \in Entry
    BY <1>0, Zenon DEF IndexInv
  <2>4. /\ Held' = Held /\ DOMAIN entries' = Held
        /\ \A k \in Held : entries'[k] \in Entry /\ entries'[k].value = entries[k].value
    BY <2>1, <2>2, <2>3, Zenon DEF Held
  <2>5. IndexInv'
    BY <1>0, <2>1, <2>4, Zenon DEF IndexInv
  <2>6. ListInv' /\ RestTyped'
    BY <1>0, <2>1, <2>4, Zenon DEF ListInv, RestTyped
  <2>7. SizeInv'
    <3>1. Units(entries', Held) = Units(entries, Held)
      BY <2>4, UnitsAgree, Zenon
    <3>. QED  BY <1>0, <2>1, <2>4, <3>1, ChargeUnits, Zenon DEF SizeInv
  <2>. QED  BY <2>5, <2>6, <2>7 DEF IInv
<1>. QED  BY <1>1, <1>2, <1>3, <1>4, <1>5

LEMMA IInvInductive == IInv /\ [Next]_vars => IInv'
PROOF
<1> SUFFICES ASSUME IInv, [Next]_vars  PROVE IInv'
  OBVIOUS
<1>1. ASSUME NEW k \in Keys, NEW v \in Values, NEW ttl \in TTLs, Set(k, v, ttl)  PROVE IInv'
  <2>0. RestTyped /\ IndexInv /\ ListInv /\ SizeInv
    BY DEF IInv
  <2>1. RestTyped'
    BY <1>1, <2>0, EventTypes, Zenon DEF Set, RestTyped
  <2>2. IndexInv' /\ ListInv' /\ SizeInv'
    BY <1>1, <2>0, ReplaceIInv, InsertIInv, Zenon DEF Set
  <2>. QED  BY <2>1, <2>2 DEF IInv
<1>. QED  BY <1>1, GetIInv, OtherIInv, Zenon DEF Next

\* Through every order of hits, replacements, evictions, invalidations, cleanups and Clear, the key
\* index and the recency list name the same keys, each once, and the running size is what the
\* entries are charged (Cache.Get, Set, removeElement, evictOldest, cleanupExpired).
THEOREM StructuresInStep == Spec => []StructuresAgree
PROOF
  BY InitIInv, IInvInductive, IInvImplies, PTL DEF Spec

----
(* Who is evicted *)

LEMMA PositionOf ==
  ASSUME ListInv, NEW a, NEW b, Before(recency, a, b)
  PROVE  Position(a) < Position(b)
PROOF
<1>1. DOMAIN recency = 1 .. Len(recency) /\ IsInjective(recency)
  BY LenProperties, Zenon DEF ListInv
<1>2. \A i \in DOMAIN recency : Position(recency[i]) = i
  BY <1>1, Zenon DEF Position, IsInjective
<1>. QED  BY <1>2, Zenon DEF Before

LEMMA SetEvicts ==
  ASSUME IInv, NEW k \in Keys, NEW v \in Values, NEW ttl \in TTLs, Set(k, v, ttl)
  PROVE  /\ \A gone \in Held \ DOMAIN entries', kept \in (Held \intersect DOMAIN entries') \ {k} :
               Position(gone) > Position(kept)
         /\ k \notin Held => size' <= MaxSize \/ DOMAIN entries' = {k}
PROOF
<1>0. IndexInv /\ ListInv /\ SizeInv
  BY DEF IInv
<1>1. CASE Replace(k, v, ttl)
  <2>1. k \in Held /\ DOMAIN entries' = Held
    BY <1>1, Zenon DEF Replace, Held
  <2>. QED  BY <2>1, Zenon
<1>2. CASE Insert(k, v, ttl)
  <2>1. PICK n \in 0 .. Len(lru) :
           /\ Evicted(v) = Held \ First(n)
           /\ n = 0 \/ size - Charge(Evicted(v)) + Size[v] <= MaxSize
    BY <1>0, EvictedFromBack, Zenon
  <2>2. /\ DOMAIN entries' = (Held \ Evicted(v)) \union {k} /\ k \notin Held
        /\ size' = size - Charge(Evicted(v)) + Size[v]
    BY <1>2, Zenon DEF Insert
  <2>3. Len(lru) \in Nat /\ DOMAIN lru = 1 .. Len(lru) /\ IsInjective(lru) /\ ToSet(lru) = Held
        /\ lru \in Seq(Keys)
    BY <1>0, LenProperties, Zenon DEF ListInv
  <2>4. ASSUME NEW gone \in Held \ DOMAIN entries',
               NEW kept \in (Held \intersect DOMAIN entries') \ {k}
        PROVE  Position(gone) > Position(kept)
    <3>1. gone \in Held /\ gone \notin First(n) /\ kept \in Held /\ kept \in First(n)
      BY <2>1, <2>2, Zenon
    <3>2. PICK i \in 1 .. n : lru[i] = kept
      BY <3>1, Zenon DEF First
    <3>3. PICK j \in DOMAIN lru : lru[j] = gone
      BY <2>3, <3>1, Zenon DEF ToSet
    <3>4. j \notin 1 .. n
      BY <3>1, <3>3, Zenon DEF First
    <3>5. i \in DOMAIN lru /\ i < j
      BY <2>3, <3>4, SMT
    <3>6. Before(lru, kept, gone)
      BY <3>2, <3>3, <3>5, Zenon DEF Before
    <3>7. Before(recency, kept, gone)
      BY <1>0, <3>1, <3>6, Zenon DEF ListInv
    <3>8. Position(kept) < Position(gone)
      BY <1>0, <3>7, PositionOf, Zenon
    <3>. QED  BY <3>8, SMT
  <2>5. size' <= MaxSize \/ DOMAIN entries' = {k}
    <3>1. First(0) = {}
      BY SMT DEF First
    <3>. QED  BY <2>1, <2>2, <3>1, Zenon
  <2>. QED  BY <2>2, <2>4, <2>5, Zenon
<1>. QED  BY <1>1, <1>2, Zenon DEF Set

\* Whatever the history of hits and Sets, a Set that makes room evicts only entries that were used
\* less recently than all that stay, and makes enough of it unless the new value alone is too large
\* (Cache.Set, evictOldest).
THEOREM LeastRecentGoes == Spec => EvictsLeastRecent
PROOF
<1>1. ASSUME IInv
      PROVE  [\A k \in Keys, v \in Values, ttl \in TTLs : Set(k, v, ttl) =>
        /\ \A gone \in Held \ DOMAIN entries', kept \in (Held \intersect DOMAIN entries') \ {k} :
              Position(gone) > Position(kept)
        /\ k \notin Held => size' <= MaxSize \/ DOMAIN entries' = {k}]_vars
  BY <1>1, SetEvicts, Zenon
<1>. QED  BY <1>1, InitIInv, IInvInductive, PTL DEF Spec, EvictsLeastRecent
====
