---- MODULE LruCache ----
(*****************************************************************************)
(* pkg/cache: a cache with a size limit, least-recently-used eviction and    *)
(* expiring entries. The code keeps three structures in step, the key index, *)
(* the recency list and the running size; so does this module. Every method  *)
(* holds the mutex from its first look at them to its last change and is one *)
(* action; the cleanup goroutine runs beside them.                           *)
(*                                                                           *)
(* Hit, miss and eviction counters are left out, and so is the branch for    *)
(* list elements of a foreign type, which no method creates.                 *)
(*****************************************************************************)
EXTENDS Integers, Sequences, FiniteSets, FiniteSetsExt, SequencesExt

CONSTANTS
    Keys,
    Values,
    Miss,
    Size,        \* estimateSize: the size charged for each value
    MaxSize,     \* Config.MaxSize
    DefaultTTL,  \* Config.DefaultTTL, in steps of the clock
    TTLs,        \* the ttl arguments of Set
    Patterns     \* the sets of keys that the patterns of Invalidate match

ASSUME SizeAssumption == Size \in [Values -> Nat]
ASSUME MaxSizeAssumption == MaxSize \in Nat
ASSUME TTLAssumption == DefaultTTL \in Nat /\ TTLs \subseteq Int
ASSUME PatternsAssumption == Patterns \subseteq SUBSET Keys

VARIABLES
    enabled,  \* Config.Enabled
    entries,  \* the key index: value and remaining life of each entry
    lru,      \* the recency list of keys, most recent first
    size,     \* the running size
    closed,   \* Close was called
    cleaning, \* the cleanup goroutine runs
    \* For the properties:
    event,    \* the last operation and its result
    recency   \* every key ever used, the most recently used first

vars == <<enabled, entries, lru, size, closed, cleaning, event, recency>>

Entry == [value : Values, life : Nat]

Events ==
    [op : {"none", "clear"}]
    \union [op : {"get"}, key : Keys, found : Values \union {Miss}]
    \union [op : {"set"}, key : Keys, value : Values]
    \union [op : {"invalidate"}, keys : SUBSET Keys]

Held == DOMAIN entries

TypeOK ==
    /\ enabled \in BOOLEAN
    /\ Held \subseteq Keys /\ entries \in [Held -> Entry]
    /\ lru \in Seq(Keys)
    /\ size \in Nat
    /\ closed \in BOOLEAN
    /\ cleaning \in BOOLEAN
    /\ event \in Events
    /\ recency \in Seq(Keys)

----
Empty == [k \in {} |-> [value |-> Miss, life |-> 0]]

\* What the keys of S are charged together, counted unit by unit.
Charge(S) == Cardinality(UNION {{k} \X (1 .. Size[entries[k].value]) : k \in S})

\* The life of a new entry: no ttl means the default, a negative one none.
LifeOf(ttl) == IF ttl = 0 THEN DefaultTTL ELSE IF ttl < 0 THEN 0 ELSE ttl

\* A plausible slip: entries are served past their expiration.
NeverExpires(k) == FALSE

IsExpired(k) == entries[k].life = 0

\* The n-th of the positions in P.
Nth(P, n) == CHOOSE i \in P : Cardinality({j \in P : j <= i}) = n

\* The list without the keys of S.
Drop(list, S) ==
    LET kept == {i \in DOMAIN list : list[i] \notin S}
    IN  [n \in 1 .. Cardinality(kept) |-> list[Nth(kept, n)]]

\* MoveToFront, or PushFront for a key that is not in the list.
ToFront(list, k) == <<k>> \o Drop(list, {k})

\* removeElement for each key of S.
RemoveAll(S) ==
    /\ entries' = [k \in Held \ S |-> entries[k]]
    /\ lru' = Drop(lru, S)
    /\ size' = size - Charge(S)

Unchanged == UNCHANGED <<entries, lru, size>>

Use(k) == recency' = ToFront(recency, k)

----
Init ==
    /\ enabled \in BOOLEAN
    /\ entries = Empty
    /\ lru = <<>>
    /\ size = 0
    /\ closed = FALSE
    /\ cleaning = enabled
    /\ event = [op |-> "none"]
    /\ recency = <<>>

Answer(k, found) == event' = [op |-> "get", key |-> k, found |-> found]

GetMiss(k) ==
    /\ k \notin Held
    /\ Answer(k, Miss)
    /\ Unchanged
    /\ UNCHANGED recency

GetExpired(k) ==
    /\ k \in Held
    /\ IsExpired(k)
    /\ Answer(k, Miss)
    /\ RemoveAll({k})
    /\ UNCHANGED recency

\* A plausible slip: a hit does not renew the entry's place.
GetWithoutMove(k) ==
    /\ k \in Held
    /\ ~IsExpired(k)
    /\ Answer(k, entries[k].value)
    /\ Unchanged
    /\ Use(k)

GetHit(k) ==
    /\ k \in Held
    /\ ~IsExpired(k)
    /\ Answer(k, entries[k].value)
    /\ lru' = ToFront(lru, k)
    /\ UNCHANGED <<entries, size>>
    /\ Use(k)

Get(k) ==
    /\ enabled
    /\ GetMiss(k) \/ GetExpired(k) \/ GetHit(k)
    /\ UNCHANGED <<enabled, closed, cleaning>>

\* A plausible slip: the size of the value that is replaced stays charged.
ReplaceAddsOnly(k, v, ttl) ==
    /\ k \in Held
    /\ entries' = [entries EXCEPT ![k] = [value |-> v, life |-> LifeOf(ttl)]]
    /\ lru' = ToFront(lru, k)
    /\ size' = size + Size[v]

\* Set of a key that is there: replaced in place, and nothing is evicted.
Replace(k, v, ttl) ==
    /\ k \in Held
    /\ entries' = [entries EXCEPT ![k] = [value |-> v, life |-> LifeOf(ttl)]]
    /\ lru' = ToFront(lru, k)
    /\ size' = size - Size[entries[k].value] + Size[v]

\* The keys that are left when all behind the n-th of the list are evicted.
First(n) == {lru[i] : i \in 1 .. n}

\* A plausible slip: one eviction is taken to be enough.
EvictsOne(v) ==
    IF size + Size[v] > MaxSize /\ lru # <<>> THEN Held \ First(Len(lru) - 1) ELSE {}

\* The keys that evictOldest removes, from the back of the list until v fits or
\* the list is empty.
Evicted(v) ==
    LET fits(n) == size - Charge(Held \ First(n)) + Size[v] <= MaxSize
        kept == Max({0} \union {n \in 1 .. Len(lru) : fits(n)})
    IN  Held \ First(kept)

Insert(k, v, ttl) ==
    /\ k \notin Held
    /\ LET out == Evicted(v)
           stay == Held \ out
       IN  /\ entries' = [j \in stay \union {k} |->
                IF j = k THEN [value |-> v, life |-> LifeOf(ttl)] ELSE entries[j]]
           /\ lru' = <<k>> \o Drop(lru, out)
           /\ size' = size - Charge(out) + Size[v]

Set(k, v, ttl) ==
    /\ enabled
    /\ Replace(k, v, ttl) \/ Insert(k, v, ttl)
    /\ event' = [op |-> "set", key |-> k, value |-> v]
    /\ Use(k)
    /\ UNCHANGED <<enabled, closed, cleaning>>

\* A disabled cache finds nothing and stores nothing.
GetDisabled(k) ==
    /\ ~enabled
    /\ Answer(k, Miss)
    /\ UNCHANGED <<enabled, entries, lru, size, closed, cleaning, recency>>

Invalidate(matched) ==
    /\ RemoveAll(Held \intersect matched)
    /\ event' = [op |-> "invalidate", keys |-> matched]
    /\ UNCHANGED <<enabled, closed, cleaning, recency>>

Clear ==
    /\ entries' = Empty
    /\ lru' = <<>>
    /\ size' = 0
    /\ event' = [op |-> "clear"]
    /\ UNCHANGED <<enabled, closed, cleaning, recency>>

\* Close takes effect once.
Close ==
    /\ ~closed
    /\ closed' = TRUE
    /\ UNCHANGED <<enabled, entries, lru, size, cleaning, event, recency>>

----
Expired == {k \in Held : IsExpired(k)}

\* A plausible slip: the cleanup stops at the first entry that has not expired.
CleanupAtBack ==
    /\ cleaning
    /\ lru # <<>>
    /\ RemoveAll({Last(lru)} \intersect Expired)
    /\ UNCHANGED <<enabled, closed, cleaning, event, recency>>

\* cleanupExpired, at each tick of the cleanup goroutine; also once more when
\* the tick comes together with Close.
CleanupExpired ==
    /\ cleaning
    /\ Expired # {}
    /\ RemoveAll(Expired)
    /\ UNCHANGED <<enabled, closed, cleaning, event, recency>>

CleanupStops ==
    /\ cleaning
    /\ closed
    /\ cleaning' = FALSE
    /\ UNCHANGED <<enabled, entries, lru, size, closed, event, recency>>

\* The clock: every entry has a step less to live.
Tick ==
    /\ \E k \in Held : ~IsExpired(k)
    /\ entries' = [k \in Held |-> [entries[k] EXCEPT !.life = IF @ = 0 THEN 0 ELSE @ - 1]]
    /\ UNCHANGED <<enabled, lru, size, closed, cleaning, event, recency>>

----
Next ==
    \/ \E k \in Keys :
        \/ Get(k)
        \/ GetDisabled(k)
        \/ \E v \in Values, ttl \in TTLs : Set(k, v, ttl)
    \/ \E matched \in Patterns : Invalidate(matched)
    \/ Clear
    \/ Close
    \/ CleanupExpired
    \/ CleanupStops
    \/ Tick

\* The cleanup goroutine's ticker keeps firing, and the select in its loop does
\* not pass over Close for ever.
Spec == Init /\ [][Next]_vars /\ WF_vars(CleanupExpired) /\ WF_vars(CleanupStops)

----
\* The three structures have their types and agree, through every order of hits,
\* replacements, evictions, invalidations and cleanups (cache.go:299-310). The key index and the
\* recency list name the same keys, each once: a key in one only would leak, or
\* lose its eviction. The running size is the sum of what the entries were
\* charged, so that eviction neither starves nor overruns.
StructuresAgree ==
    /\ TypeOK
    /\ ToSet(lru) = Held
    /\ Len(lru) = Cardinality(Held)
    /\ size = Charge(Held)

\* What a lookup may find now: the entries with some life left.
Live == {k \in Held : entries[k].life > 0}
Memory == [k \in Live |-> entries[k].value]

Contract == INSTANCE CacheContract WITH memory <- Memory

\* A hit returns the value stored last under its key, never an expired one, one
\* that was invalidated or cleared, or another key's.
ImplementsContract == Contract!Spec

Position(k) == CHOOSE i \in 1 .. Len(recency) : recency[i] = k

\* Making room evicts the least recently used entries: each that goes was last
\* used before each that stays, counting every hit and every Set (cache.go:291-297).
\* It evicts enough: after a new key is inserted the cache is within MaxSize, unless
\* nothing but the new entry is left (cache.go:204-207).
EvictsLeastRecent ==
    [][\A k \in Keys, v \in Values, ttl \in TTLs : Set(k, v, ttl) =>
        /\ \A gone \in Held \ DOMAIN entries', kept \in (Held \intersect DOMAIN entries') \ {k} :
              Position(gone) > Position(kept)
        /\ k \notin Held => size' <= MaxSize \/ DOMAIN entries' = {k}]_vars

\* While the cache is not closed, no expired entry stays for ever: it is looked
\* up, replaced, evicted or cleaned up.
ExpiredGo ==
    \A k \in Keys : (k \in Held /\ IsExpired(k)) ~> (closed \/ k \notin Held \/ ~IsExpired(k))
====
