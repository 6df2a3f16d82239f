---- MODULE CachedReadsProofs ----
(*****************************************************************************)
(* Proofs about CachedReads, for any callers, URLs and number of changes.    *)
(* The invariant says of every answer that may still be served, in the cache *)
(* or in the hands of a caller about to store it, that it is good enough for *)
(* its URL: given by the server, not older than the last settled clear and,  *)
(* while no two GETs of the URL overlap, not older than what callers saw.    *)
(*****************************************************************************)
EXTENDS CachedReads, TLAPS

Holds(u) == CacheKey(u) \in DOMAIN memory
Held(u) == memory[CacheKey(u)]
InHand(c) == pc[c] = "answered" /\ answer[c].good

\* The answer v may be served for u.
Sound(u, v) ==
    /\ v \in Versions
    /\ v \in given[u]
    /\ floor[u] <= v
    /\ v <= version[u]
    /\ ~overlapped[u] => seen[u] <= v

MemoryTyped ==
    /\ DOMAIN memory \subseteq CacheKeys
    /\ memory = [k \in DOMAIN memory |-> memory[k]]

ServerTyped ==
    /\ version \in [Urls -> Versions]
    /\ given \in [Urls -> SUBSET Versions]
    /\ seen \in [Urls -> Versions \union {Unseen}]
    /\ overlapped \in [Urls -> BOOLEAN]
    /\ floor \in [Urls -> Versions]

CallersTyped ==
    /\ pc \in [Callers -> {"idle", "sent", "answered"}]
    /\ asked \in [Callers -> Urls]
    /\ answer \in [Callers -> Answers]

WaitsTyped ==
    /\ wait \in [Waiters -> {"new", "polling", "pausing", "stopped", "failed"}]
    /\ \A w \in Waiters : wait[w] = "polling" <=> pc[w] # "idle"

\* What is so of each URL by itself.
UrlSound(u) ==
    /\ seen[u] # Unseen => seen[u] \in given[u]
    /\ seen[u] <= version[u]
    /\ floor[u] <= version[u]
    /\ Holds(u) => Sound(u, Held(u))

CallerSound(c) ==
    InHand(c) =>
        /\ Sound(asked[c], answer[c].version)
        /\ ~overlapped[asked[c]] => (Holds(asked[c]) => Held(asked[c]) <= answer[c].version)

\* While nothing overlaps, one caller at most may still store an answer.
Alone == \A u \in Urls : ~overlapped[u] =>
            \A c, d \in Callers : (c \in Fetching(u) /\ d \in Fetching(u)) => c = d

Inv ==
    /\ MemoryTyped
    /\ ServerTyped
    /\ CallersTyped
    /\ WaitsTyped
    /\ \A u \in Urls : UrlSound(u)
    /\ \A c \in Callers : CallerSound(c)
    /\ Alone

----
LEMMA Numbers == /\ Versions \subseteq Int
                 /\ Unseen \in Int
                 /\ \A v \in Versions : Unseen < v /\ 0 <= v /\ v <= v
                 /\ 0 \in Versions
PROOF
  BY VersionAssumption, SMT DEF Versions, Unseen

LEMMA Order == /\ \A x \in Int : x <= x /\ x <= x + 1
              /\ \A x, y, z \in Int : x <= y /\ y <= z => x <= z
PROOF
  BY SMT

LEMMA Integral ==
  ASSUME ServerTyped, NEW u \in Urls
  PROVE  version[u] \in Int /\ seen[u] \in Int /\ floor[u] \in Int
PROOF
<1>1. /\ version[u] \in Versions
      /\ seen[u] \in Versions \union {Unseen}
      /\ floor[u] \in Versions
  BY Zenon DEF ServerTyped
<1>. QED  BY <1>1, Numbers, Zenon

LEMMA Injective == \A u, t \in Urls : CacheKey(u) = CacheKey(t) => u = t
PROOF
  BY SMT DEF CacheKey

LEMMA KeysAreKeys == \A u \in Urls : CacheKey(u) \in CacheKeys
PROOF
  BY DEF CacheKeys

\* What a forgetful operation leaves of m.
LEMMA Remaining ==
  ASSUME NEW m, Cache!Remains(m)
  PROVE  /\ DOMAIN memory' \subseteq DOMAIN m
         /\ memory' = [k \in DOMAIN memory' |-> memory'[k]]
         /\ \A k \in DOMAIN memory' : memory'[k] = m[k]
PROOF
  BY Zenon DEF Cache!Remains

\* A lookup finds what is there, or nothing.
LEMMA LookingUp ==
  ASSUME MemoryTyped, NEW u \in Urls, Cache!Lookup(CacheKey(u))
  PROVE  /\ MemoryTyped'
         /\ \A t \in Urls : Holds(t)' => Holds(t) /\ Held(t)' = Held(t)
         /\ event'.found # Miss => Holds(u) /\ event'.found = Held(u)
PROOF
<1>1. PICK found \in {Miss} \union {memory[j] : j \in DOMAIN memory \intersect {CacheKey(u)}} :
        event' = [op |-> "get", key |-> CacheKey(u), found |-> found]
  BY Zenon DEF Cache!Lookup
<1>2. event'.found = found
  BY <1>1, Zenon
<1>3. Cache!Remains(memory)
  BY Zenon DEF Cache!Lookup
<1>4. MemoryTyped'
  BY <1>3, Remaining, Zenon DEF MemoryTyped
<1>5. \A t \in Urls : Holds(t)' => Holds(t) /\ Held(t)' = Held(t)
  BY <1>3, Remaining, Zenon DEF Holds, Held, CacheKey
<1>. QED  BY <1>1, <1>2, <1>4, <1>5, Zenon DEF Holds, Held

\* Nothing new is held, and nothing else changes.
LEMMA Losing ==
  ASSUME Inv, MemoryTyped',
         \A t \in Urls : Holds(t)' => Holds(t) /\ Held(t)' = Held(t),
         UNCHANGED <<version, pc, asked, answer, wait, history>>
  PROVE  Inv'
PROOF
<1>1. ServerTyped' /\ CallersTyped' /\ WaitsTyped' /\ Alone'
  BY Zenon DEF Inv, ServerTyped, CallersTyped, WaitsTyped, Alone, Fetching, history
<1>2. \A u \in Urls : UrlSound(u)'
  BY Zenon DEF Inv, UrlSound, Sound, history
<1>3. \A c \in Callers : asked[c] \in Urls
  BY Zenon DEF Inv, CallersTyped
<1>4. \A c \in Callers : CallerSound(c)'
  BY <1>3, Zenon DEF Inv, CallerSound, InHand, Sound, history
<1>. QED  BY <1>1, <1>2, <1>4, Zenon DEF Inv

----
LEMMA Polling ==
  ASSUME WaitsTyped, NEW c \in Callers, NEW o \in {"pausing", "stopped", "failed"},
         Polled(c, o), CallersTyped, pc' = [pc EXCEPT ![c] = "idle"]
  PROVE  WaitsTyped'
PROOF
<1>1. wait' = [w \in Waiters |-> IF w = c THEN o ELSE wait[w]]
  BY Zenon DEF Polled
<1>2. \A w \in Waiters : w \in Callers
  BY Zenon DEF Callers
<1>3. \A d \in Callers : pc'[d] = IF d = c THEN "idle" ELSE pc[d]
  BY Zenon DEF CallersTyped
<1>4. \A w \in Waiters : wait'[w] = IF w = c THEN o ELSE wait[w]
  BY <1>1, Zenon
<1>5. wait' \in [Waiters -> {"new", "polling", "pausing", "stopped", "failed"}]
  BY <1>1, SMT DEF WaitsTyped
<1>6. \A w \in Waiters : wait'[w] = "polling" <=> pc'[w] # "idle"
  BY <1>2, <1>3, <1>4, SMT DEF WaitsTyped
<1>. QED  BY <1>5, <1>6, Zenon DEF WaitsTyped

\* seen[u] becomes v, which is held or was in hand.
LEMMA Showing ==
  ASSUME ServerTyped, NEW u \in Urls, NEW v, v \in Versions, seen' = [seen EXCEPT ![u] = v]
  PROVE  /\ seen' \in [Urls -> Versions \union {Unseen}]
         /\ seen'[u] = v
         /\ \A t \in Urls : t # u => seen'[t] = seen[t]
PROOF
  BY Zenon DEF ServerTyped

LEMMA HitStep ==
  ASSUME Inv, NEW c \in Callers, NEW u \in Urls, pc[c] = "idle", Hit(c, u)
  PROVE  Inv'
PROOF
<1>. DEFINE v == event'.found
<1>1. /\ Cache!Lookup(CacheKey(u))
      /\ v # Miss
      /\ asked' = [asked EXCEPT ![c] = u]
      /\ Polled(c, IF Stopped(v) THEN "stopped" ELSE "pausing")
      /\ seen' = [seen EXCEPT ![u] = v]
      /\ UNCHANGED <<version, pc, answer, given, overlapped, floor>>
  BY Zenon DEF Hit, Success
<1>2. /\ MemoryTyped'
      /\ \A t \in Urls : Holds(t)' => Holds(t) /\ Held(t)' = Held(t)
      /\ Holds(u)
      /\ v = Held(u)
  BY <1>1, LookingUp, Zenon DEF Inv
<1>3. Sound(u, v)
  BY <1>2, Zenon DEF Inv, UrlSound
<1>4. v \in Versions
  BY <1>3, Zenon DEF Sound
<1>5. /\ seen' \in [Urls -> Versions \union {Unseen}]
      /\ seen'[u] = v
      /\ \A t \in Urls : t # u => seen'[t] = seen[t]
  BY <1>1, <1>4, Showing, Zenon DEF Inv
<1>6. ServerTyped'
  BY <1>1, <1>5, Zenon DEF Inv, ServerTyped
<1>7. CallersTyped'
  BY <1>1, SMT DEF Inv, CallersTyped
<1>8. pc' = [pc EXCEPT ![c] = "idle"]
  BY <1>1, SMT DEF Inv, CallersTyped
<1>9. WaitsTyped'
  BY <1>1, <1>8, Polling, Zenon DEF Inv
<1>10. \A d \in Callers : d # c => asked'[d] = asked[d]
  BY <1>1, Zenon DEF Inv, CallersTyped
<1>11. \A t \in Urls : \A x : Sound(t, x) /\ (t = u => v <= x \/ overlapped[u]) => Sound(t, x)'
  BY <1>1, <1>5, Zenon DEF Sound
<1>12. \A t \in Urls : UrlSound(t)'
  <2> SUFFICES ASSUME NEW t \in Urls  PROVE UrlSound(t)'
    OBVIOUS
  <2>1. UrlSound(t)
    BY Zenon DEF Inv
  <2>2. CASE t = u
    <3>1. seen'[t] \in given'[t] /\ seen'[t] <= version'[t] /\ floor'[t] <= version'[t]
      BY <1>1, <1>3, <1>5, <2>1, <2>2, Zenon DEF Sound, UrlSound
    <3>2. v <= v
      BY <1>4, Numbers, Zenon
    <3>3. Holds(t)' => Sound(t, Held(t))'
      BY <1>2, <1>3, <1>11, <2>2, <3>2, Zenon
    <3>. QED  BY <3>1, <3>3, Zenon DEF UrlSound
  <2>3. CASE t # u
    <3>1. seen'[t] = seen[t]
      BY <1>5, <2>3, Zenon
    <3>2. Holds(t)' => Sound(t, Held(t))'
      BY <1>2, <1>11, <2>1, <2>3, Zenon DEF UrlSound
    <3>. QED  BY <1>1, <2>1, <3>1, <3>2, Zenon DEF UrlSound
  <2>. QED  BY <2>2, <2>3
<1>13. \A d \in Callers : CallerSound(d)'
  <2> SUFFICES ASSUME NEW d \in Callers, InHand(d)'
               PROVE  CallerSound(d)'
    BY Zenon DEF CallerSound
  <2>1. d # c /\ InHand(d)
    BY <1>1, Zenon DEF InHand
  <2>2. CallerSound(d) /\ asked[d] \in Urls /\ asked'[d] = asked[d] /\ answer'[d] = answer[d]
    BY <1>1, <1>10, <2>1, Zenon DEF Inv, CallersTyped
  <2>3. asked[d] = u => v <= answer[d].version \/ overlapped[u]
    BY <1>2, <2>1, <2>2, Zenon DEF CallerSound
  <2>4. Sound(asked[d], answer[d].version)'
    BY <1>11, <2>1, <2>2, <2>3, Zenon DEF CallerSound
  <2>. QED  BY <1>1, <1>2, <2>1, <2>2, <2>4, Zenon DEF CallerSound
<1>14. Alone'
  <2>1. \A t \in Urls, d \in Callers : (d \in Fetching(t))' => d \in Fetching(t)
    BY <1>1, <1>10, Zenon DEF Fetching
  <2>. QED  BY <1>1, <2>1, Zenon DEF Inv, Alone
<1>. QED  BY <1>2, <1>6, <1>7, <1>9, <1>12, <1>13, <1>14, Zenon DEF Inv

LEMMA ForwardStep ==
  ASSUME Inv, NEW c \in Callers, NEW u \in Urls, pc[c] = "idle", Forward(c, u)
  PROVE  Inv'
PROOF
<1>1. /\ Cache!Lookup(CacheKey(u))
      /\ asked' = [asked EXCEPT ![c] = u]
      /\ pc' = [pc EXCEPT ![c] = "sent"]
      /\ overlapped' = [overlapped EXCEPT ![u] = @ \/ Fetching(u) # {}]
      /\ wait' = [w \in Waiters |-> IF w = c THEN "polling" ELSE wait[w]]
      /\ UNCHANGED <<version, answer, given, seen, floor>>
  BY Zenon DEF Forward, Polled
<1>2. /\ MemoryTyped'
      /\ \A t \in Urls : Holds(t)' => Holds(t) /\ Held(t)' = Held(t)
  BY <1>1, LookingUp, Zenon DEF Inv
<1>3. /\ pc'[c] = "sent" /\ asked'[c] = u
      /\ \A d \in Callers : d # c => asked'[d] = asked[d] /\ pc'[d] = pc[d]
  BY <1>1, Zenon DEF Inv, CallersTyped
<1>4. /\ overlapped' \in [Urls -> BOOLEAN]
      /\ overlapped'[u] = (overlapped[u] \/ Fetching(u) # {})
      /\ \A t \in Urls : t # u => overlapped'[t] = overlapped[t]
  BY <1>1, Zenon DEF Inv, ServerTyped
<1>5. ServerTyped'
  BY <1>1, <1>4, Zenon DEF Inv, ServerTyped
<1>6. CallersTyped'
  BY <1>1, SMT DEF Inv, CallersTyped
<1>7. WaitsTyped'
  <2>1. \A w \in Waiters : w \in Callers
    BY Zenon DEF Callers
  <2>2. \A w \in Waiters : wait'[w] = IF w = c THEN "polling" ELSE wait[w]
    BY <1>1, Zenon
  <2>3. wait' \in [Waiters -> {"new", "polling", "pausing", "stopped", "failed"}]
    BY <1>1, SMT DEF Inv, WaitsTyped
  <2>4. \A w \in Waiters : wait'[w] = "polling" <=> pc'[w] # "idle"
    BY <1>3, <2>1, <2>2, SMT DEF Inv, WaitsTyped
  <2>. QED  BY <2>3, <2>4, Zenon DEF WaitsTyped
<1>8. \A t \in Urls : ~overlapped'[t] => ~overlapped[t]
  BY <1>4, Zenon
<1>9. \A t \in Urls : \A x : Sound(t, x) => Sound(t, x)'
  BY <1>1, <1>8, Zenon DEF Sound
<1>10. \A t \in Urls : UrlSound(t)'
  BY <1>1, <1>2, <1>9, Zenon DEF Inv, UrlSound
<1>11. \A d \in Callers : CallerSound(d)'
  <2> SUFFICES ASSUME NEW d \in Callers, InHand(d)'
               PROVE  CallerSound(d)'
    BY Zenon DEF CallerSound
  <2>1. d # c /\ pc'[d] = pc[d] /\ asked'[d] = asked[d] /\ answer'[d] = answer[d]
    BY <1>1, <1>3, Zenon DEF InHand
  <2>2. InHand(d) /\ CallerSound(d) /\ asked[d] \in Urls
    BY <2>1, Zenon DEF Inv, InHand, CallersTyped
  <2>. QED  BY <1>2, <1>8, <1>9, <2>1, <2>2, Zenon DEF CallerSound
<1>12. Alone'
  <2>1. \A t \in Urls, d \in Callers : (d \in Fetching(t))' => d \in Fetching(t) \/ (d = c /\ t = u)
    BY <1>3, Zenon DEF Fetching
  <2>2. ~overlapped'[u] => Fetching(u) = {}
    BY <1>4, Zenon
  <2> SUFFICES ASSUME NEW t \in Urls, ~overlapped'[t],
                      NEW d \in Callers, NEW e \in Callers,
                      (d \in Fetching(t))', (e \in Fetching(t))'
               PROVE  d = e
    BY Zenon DEF Alone
  <2>3. CASE t = u
    BY <2>1, <2>2, <2>3, Zenon
  <2>4. CASE t # u
    BY <1>8, <2>1, <2>4, Zenon DEF Inv, Alone
  <2>. QED  BY <2>3, <2>4
<1>. QED  BY <1>2, <1>5, <1>6, <1>7, <1>10, <1>11, <1>12, Zenon DEF Inv

LEMMA AnswerStep ==
  ASSUME Inv, NEW c \in Callers, ServerAnswers(c)
  PROVE  Inv'
PROOF
<1>. DEFINE u == asked[c]
<1>0. u \in Urls /\ version[u] \in Versions
  BY Zenon DEF Inv, CallersTyped, ServerTyped
<1>1. /\ pc[c] = "sent"
      /\ pc' = [pc EXCEPT ![c] = "answered"]
      /\ UNCHANGED <<version, memory, event, asked, wait, seen, overlapped, floor>>
  BY Zenon DEF ServerAnswers
<1>2. PICK good \in BOOLEAN :
        /\ answer' = [answer EXCEPT ![c] = [good |-> good, version |-> version[u]]]
        /\ given' = [given EXCEPT ![u] = IF good THEN @ \union {version[u]} ELSE @]
  BY Zenon DEF ServerAnswers
<1>3. /\ answer'[c] = [good |-> good, version |-> version[u]]
      /\ pc'[c] = "answered"
      /\ \A d \in Callers : d # c => answer'[d] = answer[d] /\ pc'[d] = pc[d]
  BY <1>1, <1>2, Zenon DEF Inv, CallersTyped
<1>4. /\ given' \in [Urls -> SUBSET Versions]
      /\ given'[u] = IF good THEN given[u] \union {version[u]} ELSE given[u]
      /\ \A t \in Urls : given[t] \subseteq given'[t]
  <2>. DEFINE g == IF good THEN given[u] \union {version[u]} ELSE given[u]
  <2>1. given[u] \subseteq g /\ g \in SUBSET Versions
    BY <1>0, Zenon DEF Inv, ServerTyped
  <2>2. given' = [given EXCEPT ![u] = g]
    BY <1>2
  <2>. HIDE DEF g
  <2>3. given' \in [Urls -> SUBSET Versions] /\ given'[u] = g /\ \A t \in Urls : t # u => given'[t] = given[t]
    BY <1>0, <2>1, <2>2, Zenon DEF Inv, ServerTyped
  <2>4. \A t \in Urls : given[t] \subseteq given'[t]
    BY <2>1, <2>3, Zenon
  <2>. QED  BY <2>3, <2>4 DEF g
<1>5. MemoryTyped' /\ ServerTyped'
  BY <1>1, <1>4, Zenon DEF Inv, MemoryTyped, ServerTyped
<1>6. CallersTyped'
  <2>1. [good |-> good, version |-> version[u]] \in Answers
    BY <1>0, SMT DEF Answers
  <2>2. answer' \in [Callers -> Answers]
    BY <1>2, <2>1, Zenon DEF Inv, CallersTyped
  <2>3. pc' \in [Callers -> {"idle", "sent", "answered"}]
    BY <1>1, SMT DEF Inv, CallersTyped
  <2>. QED  BY <1>1, <2>2, <2>3, Zenon DEF Inv, CallersTyped
<1>7. \A d \in Callers : pc'[d] # "idle" <=> pc[d] # "idle"
  BY <1>1, <1>3, SMT
<1>8. WaitsTyped'
  BY <1>1, <1>7, Zenon DEF Inv, WaitsTyped, Callers
<1>9. \A t \in Urls : \A x : Sound(t, x) => Sound(t, x)'
  BY <1>1, <1>4, Zenon DEF Sound
<1>10. \A t \in Urls : UrlSound(t)'
  BY <1>1, <1>4, <1>9, Zenon DEF Inv, UrlSound, Holds, Held
<1>11. \A d \in Callers : CallerSound(d)'
  <2> SUFFICES ASSUME NEW d \in Callers, InHand(d)'
               PROVE  CallerSound(d)'
    BY Zenon DEF CallerSound
  <2>1. CASE d # c
    <3>1. InHand(d) /\ CallerSound(d) /\ asked[d] \in Urls /\ answer'[d] = answer[d]
      BY <1>3, <2>1, Zenon DEF Inv, InHand, CallersTyped
    <3>. QED  BY <1>1, <1>9, <3>1, Zenon DEF CallerSound, Holds, Held
  <2>2. CASE d = c
    <3>1. good /\ answer'[d].version = version[u]
      BY <1>3, <2>2, SMT DEF InHand
    <3>2. version[u] \in given'[u]
      BY <1>4, <3>1, Zenon
    <3>3. UrlSound(u)
      BY <1>0, Zenon DEF Inv
    <3>4. version[u] <= version[u]
      BY <1>0, Numbers, Zenon
    <3>5. Sound(u, version[u])'
      BY <1>0, <1>1, <3>2, <3>3, <3>4, Zenon DEF Sound, UrlSound
    <3>6. Holds(u) => Held(u) <= version[u]
      BY <3>3, Zenon DEF UrlSound, Sound
    <3>. QED  BY <1>1, <2>2, <3>1, <3>5, <3>6, Zenon DEF CallerSound, Holds, Held
  <2>. QED  BY <2>1, <2>2
<1>12. Alone'
  <2>1. \A t \in Urls, d \in Callers : (d \in Fetching(t))' => d \in Fetching(t)
    BY <1>1, <1>7, Zenon DEF Fetching
  <2>. QED  BY <1>1, <2>1, Zenon DEF Inv, Alone
<1>. QED  BY <1>5, <1>6, <1>8, <1>10, <1>11, <1>12, Zenon DEF Inv

\* What leaving does to the callers' variables.
LEMMA Leaving ==
  ASSUME CallersTyped, NEW c \in Callers, Leave(c), asked' = asked
  PROVE  /\ CallersTyped'
         /\ pc' = [pc EXCEPT ![c] = "idle"]
         /\ \A d \in Callers : InHand(d)' => d # c /\ InHand(d) /\ answer'[d] = answer[d]
         /\ \A t \in Urls, d \in Callers : (d \in Fetching(t))' => d \in Fetching(t)
PROOF
<1>1. pc' = [pc EXCEPT ![c] = "idle"] /\ answer' = [answer EXCEPT ![c] = NoAnswer]
  BY Zenon DEF Leave
<1>2. /\ pc' \in [Callers -> {"idle", "sent", "answered"}]
      /\ pc'[c] = "idle"
      /\ \A d \in Callers : d # c => pc'[d] = pc[d] /\ answer'[d] = answer[d]
  BY <1>1, SMT DEF CallersTyped
<1>3. answer' \in [Callers -> Answers]
  BY <1>1, Zenon DEF CallersTyped, Answers
<1>4. \A d \in Callers : InHand(d)' => d # c
  BY <1>2, SMT DEF InHand
<1>5. \A t \in Urls, d \in Callers : (d \in Fetching(t))' => d \in Fetching(t)
  BY <1>2, Zenon DEF Fetching
<1>. QED  BY <1>1, <1>2, <1>3, <1>4, <1>5, Zenon DEF CallersTyped, InHand

\* A caller that comes back with an error.
LEMMA ErrorStep ==
  ASSUME Inv, NEW c \in Callers, Fails(c) \/ PassOn(c)
  PROVE  Inv'
PROOF
<1>1. /\ Leave(c)
      /\ Polled(c, "failed")
      /\ UNCHANGED <<version, memory, event, asked, given, seen, overlapped, floor>>
  BY Zenon DEF Fails, PassOn, history
<1>2. /\ CallersTyped'
      /\ pc' = [pc EXCEPT ![c] = "idle"]
      /\ \A d \in Callers : InHand(d)' => d # c /\ InHand(d) /\ answer'[d] = answer[d]
      /\ \A t \in Urls, d \in Callers : (d \in Fetching(t))' => d \in Fetching(t)
  BY <1>1, Leaving, Zenon DEF Inv
<1>3. WaitsTyped'
  BY <1>1, <1>2, Polling, Zenon DEF Inv
<1>4. MemoryTyped' /\ ServerTyped'
  BY <1>1, Zenon DEF Inv, MemoryTyped, ServerTyped
<1>5. \A t \in Urls : UrlSound(t)'
  BY <1>1, Zenon DEF Inv, UrlSound, Sound, Holds, Held
<1>6. \A d \in Callers : CallerSound(d)'
  BY <1>1, <1>2, Zenon DEF Inv, CallerSound, Sound, Holds, Held
<1>7. Alone'
  BY <1>1, <1>2, Zenon DEF Inv, Alone
<1>. QED  BY <1>2, <1>3, <1>4, <1>5, <1>6, <1>7, Zenon DEF Inv

LEMMA StoreStep ==
  ASSUME Inv, NEW c \in Callers, Store(c)
  PROVE  Inv'
PROOF
<1>a. PICK u : u = asked[c]
  OBVIOUS
<1>b. PICK v : v = answer[c].version
  OBVIOUS
<1>1. /\ InHand(c)
      /\ Cache!Store(CacheKey(u), v)
      /\ Leave(c)
      /\ Polled(c, IF Stopped(v) THEN "stopped" ELSE "pausing")
      /\ seen' = [seen EXCEPT ![u] = v]
      /\ UNCHANGED <<version, asked, given, overlapped, floor>>
  BY <1>a, <1>b, Zenon DEF Store, Success, Cacheable, InHand
<1>2. u \in Urls
  BY <1>a, Zenon DEF Inv, CallersTyped
<1>3. CallerSound(c) /\ Sound(u, v) /\ v \in Versions
  BY <1>a, <1>b, <1>1, Zenon DEF Inv, CallerSound, Sound
<1>4. /\ CallersTyped'
      /\ pc' = [pc EXCEPT ![c] = "idle"]
      /\ \A d \in Callers : InHand(d)' => d # c /\ InHand(d) /\ answer'[d] = answer[d]
      /\ \A t \in Urls, d \in Callers : (d \in Fetching(t))' => d \in Fetching(t)
  BY <1>1, Leaving, Zenon DEF Inv
<1>5. WaitsTyped'
  BY <1>1, <1>4, Polling, Zenon DEF Inv
<1>6. /\ seen' \in [Urls -> Versions \union {Unseen}]
      /\ seen'[u] = v
      /\ \A t \in Urls : t # u => seen'[t] = seen[t]
  BY <1>1, <1>2, <1>3, Showing, Zenon DEF Inv
<1>7. ServerTyped'
  BY <1>1, <1>6, Zenon DEF Inv, ServerTyped
<1>8. /\ MemoryTyped'
      /\ Holds(u)' => Held(u)' = v
      /\ \A t \in Urls : t # u => (Holds(t)' => Holds(t) /\ Held(t)' = Held(t))
  <2>. DEFINE m == [j \in DOMAIN memory \union {CacheKey(u)} |-> IF j = CacheKey(u) THEN v ELSE memory[j]]
  <2>1. Cache!Remains(m)
    BY <1>1, Zenon DEF Cache!Store
  <2>m. /\ DOMAIN m = DOMAIN memory \union {CacheKey(u)}
        /\ \A k \in DOMAIN m : m[k] = IF k = CacheKey(u) THEN v ELSE memory[k]
    BY Zenon
  <2>. HIDE DEF m
  <2>2. /\ DOMAIN memory' \subseteq DOMAIN memory \union {CacheKey(u)}
        /\ memory' = [k \in DOMAIN memory' |-> memory'[k]]
        /\ \A k \in DOMAIN memory' : memory'[k] = IF k = CacheKey(u) THEN v ELSE memory[k]
    BY <2>1, <2>m, Remaining, Zenon
  <2>3. MemoryTyped'
    BY <1>2, <2>2, KeysAreKeys, Zenon DEF Inv, MemoryTyped
  <2>4. \A t \in Urls : t # u => CacheKey(t) # CacheKey(u)
    BY <1>2, Injective, Zenon
  <2>. QED  BY <1>2, <2>2, <2>3, <2>4, Zenon DEF Holds, Held
<1>9. v <= v
  BY <1>3, Numbers, Zenon
<1>10. Sound(u, v)'
  BY <1>1, <1>3, <1>6, <1>9, Zenon DEF Sound
<1>11. \A t \in Urls : t # u => \A x : Sound(t, x) => Sound(t, x)'
  BY <1>1, <1>6, Zenon DEF Sound
<1>12. \A t \in Urls : UrlSound(t)'
  <2> SUFFICES ASSUME NEW t \in Urls  PROVE UrlSound(t)'
    OBVIOUS
  <2>1. UrlSound(t)
    BY Zenon DEF Inv
  <2>2. CASE t = u
    BY <1>1, <1>3, <1>6, <1>8, <1>10, <2>1, <2>2, Zenon DEF UrlSound, Sound
  <2>3. CASE t # u
    BY <1>1, <1>6, <1>8, <1>11, <2>1, <2>3, Zenon DEF UrlSound
  <2>. QED  BY <2>2, <2>3
<1>13. \A d \in Callers : CallerSound(d)'
  <2> SUFFICES ASSUME NEW d \in Callers, InHand(d)'
               PROVE  CallerSound(d)'
    BY Zenon DEF CallerSound
  <2>1. d # c /\ InHand(d) /\ CallerSound(d) /\ asked[d] \in Urls /\ answer'[d] = answer[d]
    BY <1>4, Zenon DEF Inv, CallersTyped
  <2>2. CASE asked[d] # u
    BY <1>1, <1>8, <1>11, <2>1, <2>2, Zenon DEF CallerSound
  <2>3. CASE asked[d] = u
    <3>1. "answered" # "idle"
      OBVIOUS
    <3>2. c \in Fetching(u) /\ d \in Fetching(u)
      BY <1>a, <1>1, <2>1, <2>3, <3>1, Zenon DEF InHand, Fetching
    <3>3. overlapped[u]
      BY <1>2, <2>1, <3>2, Zenon DEF Inv, Alone
    <3>4. Sound(u, answer[d].version)
      BY <2>1, <2>3, Zenon DEF CallerSound
    <3>5. Sound(u, answer[d].version)'
      BY <1>1, <2>1, <3>3, <3>4, Zenon DEF Sound
    <3>. QED  BY <1>1, <2>1, <2>3, <3>3, <3>5, Zenon DEF CallerSound
  <2>. QED  BY <2>2, <2>3
<1>14. Alone'
  BY <1>1, <1>4, Zenon DEF Inv, Alone
<1>. QED  BY <1>4, <1>5, <1>7, <1>8, <1>12, <1>13, <1>14, Zenon DEF Inv

LEMMA ChangeStep ==
  ASSUME Inv, NEW u \in Urls, Change(u)
  PROVE  Inv'
PROOF
<1>1. /\ version[u] < MaxVersion
      /\ version' = [version EXCEPT ![u] = @ + 1]
      /\ UNCHANGED <<memory, event, pc, asked, answer, wait, given, seen, overlapped, floor>>
  BY Zenon DEF Change, history
<1>2. /\ version' \in [Urls -> Versions]
      /\ \A t \in Urls : version[t] <= version'[t]
  <2>1. version[u] + 1 \in Versions
    BY <1>1, VersionAssumption, SMT DEF Inv, ServerTyped, Versions
  <2>2. version[u] <= version[u] + 1 /\ \A t \in Urls : version[t] <= version[t]
    BY Integral, Order, Zenon DEF Inv
  <2>3. /\ version' \in [Urls -> Versions]
        /\ version'[u] = version[u] + 1
        /\ \A t \in Urls : t # u => version'[t] = version[t]
    BY <1>1, <2>1, Zenon DEF Inv, ServerTyped
  <2>. QED  BY <2>2, <2>3, Zenon
<1>3. \A t \in Urls : \A x \in Int : x <= version[t] => x <= version'[t]
  <2> SUFFICES ASSUME NEW t \in Urls, NEW x \in Int, x <= version[t]
               PROVE  x <= version'[t]
    OBVIOUS
  <2>1. version[t] \in Int /\ version'[t] \in Int
    BY <1>2, Integral, Numbers, Zenon DEF Inv
  <2>. QED  BY <1>2, <2>1, Order, Zenon
<1>4. \A t \in Urls : \A x : Sound(t, x) => Sound(t, x)'
  BY <1>1, <1>3, Numbers, Zenon DEF Sound
<1>5. MemoryTyped' /\ CallersTyped' /\ WaitsTyped' /\ Alone'
  BY <1>1, Zenon DEF Inv, MemoryTyped, CallersTyped, WaitsTyped, Alone, Fetching
<1>6. ServerTyped'
  BY <1>1, <1>2, Zenon DEF Inv, ServerTyped
<1>7. \A t \in Urls : seen[t] \in Int /\ floor[t] \in Int
  BY Integral, Zenon DEF Inv
<1>8. \A t \in Urls : UrlSound(t)'
  BY <1>1, <1>3, <1>4, <1>7, Zenon DEF Inv, UrlSound, Holds, Held
<1>9. \A d \in Callers : asked[d] \in Urls
  BY Zenon DEF Inv, CallersTyped
<1>10. \A d \in Callers : CallerSound(d)'
  BY <1>1, <1>4, <1>9, Zenon DEF Inv, CallerSound, InHand, Holds, Held
<1>. QED  BY <1>5, <1>6, <1>8, <1>10, Zenon DEF Inv

\* The cache is emptied and every URL without a GET under way is settled.
LEMMA Emptying ==
  ASSUME Inv, MemoryTyped', \A u \in Urls : ~Holds(u)', Settle,
         UNCHANGED <<version, pc, asked, answer, wait, given, seen>>
  PROVE  Inv'
PROOF
<1>1. /\ overlapped' = [u \in Urls |-> overlapped[u] /\ Fetching(u) # {}]
      /\ floor' = [u \in Urls |-> IF Fetching(u) = {} THEN version[u] ELSE floor[u]]
  BY Zenon DEF Settle
<1>2. \A u \in Urls : /\ floor'[u] = IF Fetching(u) = {} THEN version[u] ELSE floor[u]
                      /\ overlapped'[u] = (overlapped[u] /\ Fetching(u) # {})
  BY <1>1, Zenon
<1>3. ServerTyped'
  <2>1. overlapped' \in [Urls -> BOOLEAN]
    BY <1>1, Zenon
  <2>2. floor' \in [Urls -> Versions]
    BY <1>1, <1>2, Zenon DEF Inv, ServerTyped
  <2>. QED  BY <2>1, <2>2, Zenon DEF Inv, ServerTyped
<1>4. CallersTyped' /\ WaitsTyped'
  BY Zenon DEF Inv, CallersTyped, WaitsTyped
<1>5. \A u \in Urls : version[u] <= version[u]
  BY Numbers, Zenon DEF Inv, ServerTyped
<1>6. \A u \in Urls : UrlSound(u)'
  BY <1>2, <1>5, Zenon DEF Inv, UrlSound
<1>7. \A u \in Urls : Fetching(u) # {} => floor'[u] = floor[u] /\ overlapped'[u] = overlapped[u]
  BY <1>2, Zenon DEF Inv, ServerTyped
<1>8. \A d \in Callers : CallerSound(d)'
  <2> SUFFICES ASSUME NEW d \in Callers, InHand(d)'
               PROVE  CallerSound(d)'
    BY Zenon DEF CallerSound
  <2>1. InHand(d) /\ CallerSound(d) /\ asked[d] \in Urls
    BY Zenon DEF Inv, InHand, CallersTyped
  <2>2. "answered" # "idle"
    OBVIOUS
  <2>3. Fetching(asked[d]) # {}
    BY <2>1, <2>2, Zenon DEF InHand, Fetching
  <2>4. floor'[asked[d]] = floor[asked[d]] /\ overlapped'[asked[d]] = overlapped[asked[d]]
    BY <1>7, <2>1, <2>3, Zenon
  <2>5. Sound(asked[d], answer[d].version)'
    BY <2>1, <2>4, Zenon DEF Sound, CallerSound
  <2>. QED  BY <2>1, <2>5, Zenon DEF CallerSound
<1>9. Alone'
  <2>1. \A u \in Urls, d \in Callers : (d \in Fetching(u))' => d \in Fetching(u)
    BY Zenon DEF Fetching
  <2>2. \A u \in Urls, d \in Callers : d \in Fetching(u) => overlapped'[u] = overlapped[u]
    BY <1>7, Zenon
  <2>. QED  BY <2>1, <2>2, Zenon DEF Inv, Alone
<1>. QED  BY <1>3, <1>4, <1>6, <1>8, <1>9, Zenon DEF Inv

LEMMA ClearStep ==
  ASSUME Inv, ClearCache
  PROVE  Inv'
PROOF
<1>1. /\ memory' = [k \in {} |-> Miss]
      /\ Settle
      /\ UNCHANGED <<version, pc, asked, answer, wait, given, seen>>
  BY Zenon DEF ClearCache, Cache!WithdrawAll, Cache!NoMemory
<1>2. DOMAIN memory' = {}
  BY <1>1, Zenon
<1>3. MemoryTyped'
  BY <1>1, <1>2, SMT DEF MemoryTyped
<1>4. \A u \in Urls : ~Holds(u)'
  BY <1>2, Zenon DEF Holds
<1>. QED  BY <1>1, <1>3, <1>4, Emptying, Zenon

\* Less than m is left, m itself being less than the memory.
LEMMA Withdrawing ==
  ASSUME Inv, NEW S, Cache!Remains(Cache!Without(memory, S))
  PROVE  /\ MemoryTyped'
         /\ \A t \in Urls : Holds(t)' => CacheKey(t) \notin S /\ Holds(t) /\ Held(t)' = Held(t)
PROOF
<1>1. /\ DOMAIN Cache!Without(memory, S) = DOMAIN memory \ S
      /\ \A k \in DOMAIN memory \ S : Cache!Without(memory, S)[k] = memory[k]
  BY Zenon DEF Cache!Without
<1>2. /\ DOMAIN memory' \subseteq DOMAIN memory \ S
      /\ memory' = [k \in DOMAIN memory' |-> memory'[k]]
      /\ \A k \in DOMAIN memory' : memory'[k] = memory[k]
  BY <1>1, Remaining, Zenon
<1>. QED  BY <1>2, Zenon DEF Inv, MemoryTyped, Holds, Held

LEMMA InvalidateStep ==
  ASSUME Inv, NEW pattern, InvalidateCache(pattern)
  PROVE  Inv'
PROOF
<1>1. /\ Cache!Remains(Cache!Without(memory, Matched(pattern)))
      /\ IF pattern = Everything THEN Settle ELSE UNCHANGED <<overlapped, floor>>
      /\ UNCHANGED <<version, pc, asked, answer, wait, given, seen>>
  BY Zenon DEF InvalidateCache, Cache!Withdraw
<1>2. /\ MemoryTyped'
      /\ \A t \in Urls : Holds(t)' => CacheKey(t) \notin Matched(pattern) /\ Holds(t) /\ Held(t)' = Held(t)
  BY <1>1, Withdrawing, Zenon
<1>3. CASE pattern = Everything
  <2>1. \A t \in Urls : ~Holds(t)'
    BY <1>2, <1>3, KeysAreKeys, Zenon DEF Matched
  <2>. QED  BY <1>1, <1>2, <1>3, <2>1, Emptying, Zenon
<1>4. CASE pattern # Everything
  BY <1>1, <1>2, <1>4, Losing, Zenon DEF history
<1>. QED  BY <1>3, <1>4

LEMMA ExpireStep ==
  ASSUME Inv, NEW k, Expire(k)
  PROVE  Inv'
PROOF
<1>1. /\ memory' = [j \in DOMAIN memory \ {k} |-> memory[j]]
      /\ UNCHANGED <<version, event, pc, asked, answer, wait, history>>
  BY Zenon DEF Expire, Cache!Without
<1>2. /\ DOMAIN memory' = DOMAIN memory \ {k}
      /\ \A j \in DOMAIN memory' : memory'[j] = memory[j]
  BY <1>1, Zenon
<1>3. MemoryTyped'
  BY <1>1, <1>2, SMT DEF Inv, MemoryTyped
<1>4. \A t \in Urls : Holds(t)' => Holds(t) /\ Held(t)' = Held(t)
  BY <1>2, Zenon DEF Holds, Held
<1>. QED  BY <1>1, <1>3, <1>4, Losing, Zenon

LEMMA TimeOutStep ==
  ASSUME Inv, NEW w \in Waiters, TimeOut(w)
  PROVE  Inv'
PROOF
<1>1. /\ wait[w] \in {"new", "pausing"}
      /\ wait' = [x \in Waiters |-> IF x = w THEN "failed" ELSE wait[x]]
      /\ UNCHANGED <<version, memory, event, pc, asked, answer, given, seen, overlapped, floor>>
  BY Zenon DEF TimeOut, Polled, history
<1>2. WaitsTyped'
  <2>1. wait' \in [Waiters -> {"new", "polling", "pausing", "stopped", "failed"}]
    BY <1>1, SMT DEF Inv, WaitsTyped
  <2>2. \A x \in Waiters : wait'[x] = IF x = w THEN "failed" ELSE wait[x]
    BY <1>1, Zenon
  <2>3. \A x \in Waiters : wait'[x] = "polling" <=> pc'[x] # "idle"
    BY <1>1, <2>2, SMT DEF Inv, WaitsTyped
  <2>. QED  BY <2>1, <2>3, Zenon DEF WaitsTyped
<1>3. MemoryTyped' /\ ServerTyped' /\ CallersTyped' /\ Alone'
  BY <1>1, Zenon DEF Inv, MemoryTyped, ServerTyped, CallersTyped, Alone, Fetching
<1>4. (\A u \in Urls : UrlSound(u)') /\ (\A c \in Callers : CallerSound(c)')
  BY <1>1, Zenon DEF Inv, UrlSound, CallerSound, InHand, Sound, Holds, Held
<1>. QED  BY <1>2, <1>3, <1>4, Zenon DEF Inv

----
LEMMA Initially == Init => Inv
PROOF
<1> SUFFICES ASSUME Init  PROVE Inv
  OBVIOUS
<1>1. /\ memory = [k \in {} |-> Miss]
      /\ version = [u \in Urls |-> 0]
      /\ pc = [c \in Callers |-> "idle"]
      /\ asked = [c \in Callers |-> TaskUrl]
      /\ answer = [c \in Callers |-> NoAnswer]
      /\ wait = [w \in Waiters |-> "new"]
      /\ given = [u \in Urls |-> {}]
      /\ seen = [u \in Urls |-> Unseen]
      /\ overlapped = [u \in Urls |-> FALSE]
      /\ floor = [u \in Urls |-> 0]
  BY Zenon DEF Init, Cache!Init, Cache!NoMemory
<1>2. DOMAIN memory = {}
  BY <1>1, Zenon
<1>3. MemoryTyped
  BY <1>1, <1>2, SMT DEF MemoryTyped
<1>4. ServerTyped
  BY <1>1, Numbers, SMT DEF ServerTyped
<1>5. CallersTyped
  BY <1>1, TaskAssumption, SMT DEF CallersTyped, Answers
<1>6. WaitsTyped
  BY <1>1, SMT DEF WaitsTyped, Callers
<1>7. \A u \in Urls : UrlSound(u)
  BY <1>1, <1>2, Numbers, SMT DEF UrlSound, Holds
<1>8. \A c \in Callers : CallerSound(c)
  BY <1>1, SMT DEF CallerSound, InHand
<1>9. Alone
  BY <1>1, SMT DEF Alone, Fetching
<1>. QED  BY <1>3, <1>4, <1>5, <1>6, <1>7, <1>8, <1>9, Zenon DEF Inv

LEMMA Stepping == Inv /\ [Next]_vars => Inv'
PROOF
<1> SUFFICES ASSUME Inv, [Next]_vars  PROVE Inv'
  OBVIOUS
<1>1. ASSUME NEW c \in Callers, NEW u \in Urls, Get(c, u)  PROVE Inv'
  BY <1>1, HitStep, ForwardStep, Zenon DEF Get
<1>2. ASSUME NEW r \in Readers, Read(r)  PROVE Inv'
  BY <1>1, <1>2, Zenon DEF Read, Callers
<1>3. ASSUME NEW w \in Waiters, Poll(w)  PROVE Inv'
  BY <1>1, <1>3, TaskAssumption, Zenon DEF Poll, Callers
<1>4. ASSUME NEW c \in Callers, Proceed(c)  PROVE Inv'
  BY <1>4, AnswerStep, ErrorStep, StoreStep, Zenon DEF Proceed
<1>5. CASE UNCHANGED vars
  <2>1. UNCHANGED <<memory, version, pc, asked, answer, wait, given, seen, overlapped, floor>>
    BY <1>5, Zenon DEF vars
  <2>2. MemoryTyped'
    BY <2>1, Zenon DEF Inv, MemoryTyped
  <2>3. \A t \in Urls : Holds(t)' => Holds(t) /\ Held(t)' = Held(t)
    BY <2>1, Zenon DEF Holds, Held
  <2>. QED  BY <2>1, <2>2, <2>3, Losing, Zenon DEF history
<1>. QED  BY <1>2, <1>3, <1>4, <1>5, TimeOutStep, ChangeStep, ClearStep, InvalidateStep,
             ExpireStep, Zenon DEF Next

THEOREM Inductive == Spec => []Inv
PROOF
  BY Initially, Stepping, PTL DEF Spec

\* Every variable keeps its type, and a Wait is under way exactly while its
\* request is (taskPoller.poll).
THEOREM TypeCorrect == Spec => []TypeOK
PROOF
<1>1. Inv => TypeOK
  <2> SUFFICES ASSUME Inv  PROVE TypeOK
    OBVIOUS
  <2>1. \A k \in DOMAIN memory : memory[k] \in Versions
    BY Zenon DEF Inv, MemoryTyped, UrlSound, Sound, Holds, Held, CacheKeys
  <2>2. \E K \in SUBSET CacheKeys : memory \in [K -> Versions]
    BY <2>1, Zenon DEF Inv, MemoryTyped
  <2>. QED  BY <2>2, Zenon DEF Inv, ServerTyped, CallersTyped, WaitsTyped, TypeOK
<1>. QED  BY <1>1, Inductive, PTL

\* From the cache or not, nobody is given anything for a URL that the server did
\* not answer, with success, for that URL (cachingMiddleware).
THEOREM OnlyAnswers == Spec => []ReadsAreAnswers
PROOF
<1>1. Inv => ReadsAreAnswers
  BY Zenon DEF Inv, UrlSound, ReadsAreAnswers
<1>. QED  BY <1>1, Inductive, PTL

\* A clear with no GET of the URL under way is final: nothing older is served
\* from then on (ClearCache, InvalidateCache).
THEOREM ClearsAreFinal == Spec => []FreshAfterClear
PROOF
<1>1. Inv => FreshAfterClear
  BY Zenon DEF Inv, UrlSound, Sound, Holds, Held, FreshAfterClear
<1>. QED  BY <1>1, Inductive, PTL

LEMMA Onwards ==
  ASSUME Inv, NEW t \in Urls, NEW u \in Urls, NEW v, Sound(u, v),
         seen' = [seen EXCEPT ![u] = v], overlapped' = overlapped, ~overlapped'[t]
  PROVE  seen[t] <= seen'[t]
PROOF
<1>1. /\ seen'[u] = v
      /\ t # u => seen'[t] = seen[t]
  BY Showing, Zenon DEF Inv, Sound
<1>2. seen[t] <= seen[t]
  BY Integral, Order, Zenon DEF Inv
<1>. QED  BY <1>1, <1>2, Zenon DEF Sound

LEMMA SeenAgain ==
  ASSUME Inv, [Next]_vars, NEW t \in Urls, ~overlapped'[t]
  PROVE  seen[t] <= seen'[t]
PROOF
<1>1. ASSUME NEW c \in Callers, NEW u \in Urls, Hit(c, u)  PROVE seen[t] <= seen'[t]
  <2>1. /\ Cache!Lookup(CacheKey(u))
        /\ event'.found # Miss
        /\ seen' = [seen EXCEPT ![u] = event'.found]
        /\ overlapped' = overlapped
    BY <1>1, Zenon DEF Hit, Success
  <2>2. Sound(u, event'.found)
    BY <2>1, LookingUp, Zenon DEF Inv, UrlSound
  <2>. QED  BY <2>1, <2>2, Onwards, Zenon
<1>2. ASSUME NEW c \in Callers, Store(c)  PROVE seen[t] <= seen'[t]
  <2>1. /\ InHand(c)
        /\ seen' = [seen EXCEPT ![asked[c]] = answer[c].version]
        /\ overlapped' = overlapped
    BY <1>2, Zenon DEF Store, Success, Cacheable, InHand
  <2>2. Sound(asked[c], answer[c].version) /\ asked[c] \in Urls
    BY <2>1, Zenon DEF Inv, CallerSound, CallersTyped
  <2>. QED  BY <2>1, <2>2, Onwards, Zenon
<1>3. CASE seen' = seen
  BY <1>3, Integral, Order, Zenon DEF Inv
<1>4. ASSUME NEW c \in Callers, NEW u \in Urls, Forward(c, u)  PROVE seen' = seen
  BY <1>4, Zenon DEF Forward
<1>5. ASSUME NEW c \in Callers, Proceed(c), ~Store(c)  PROVE seen' = seen
  BY <1>5, Zenon DEF Proceed, ServerAnswers, Fails, PassOn, history
<1>6. ASSUME NEW c \in Callers, NEW u \in Urls, Get(c, u)  PROVE seen[t] <= seen'[t]
  BY <1>1, <1>3, <1>4, <1>6, Zenon DEF Get
<1>7. ASSUME NEW c \in Callers, Proceed(c)  PROVE seen[t] <= seen'[t]
  BY <1>2, <1>3, <1>5, <1>7, Zenon
<1>8. ASSUME NEW w \in Waiters, Poll(w) \/ TimeOut(w)  PROVE seen[t] <= seen'[t]
  BY <1>3, <1>6, <1>8, TaskAssumption, Zenon DEF Poll, TimeOut, Callers, history
<1>9. ASSUME NEW r \in Readers, Read(r)  PROVE seen[t] <= seen'[t]
  BY <1>6, <1>9, Zenon DEF Read, Callers
<1>10. ASSUME NEW u \in Urls, Change(u)  PROVE seen' = seen
  BY <1>10, Zenon DEF Change, history
<1>11. ClearCache => seen' = seen
  BY Zenon DEF ClearCache
<1>12. ASSUME NEW pattern, InvalidateCache(pattern)  PROVE seen' = seen
  BY <1>12, Zenon DEF InvalidateCache
<1>13. ASSUME NEW k, Expire(k)  PROVE seen' = seen
  BY <1>13, Zenon DEF Expire, history
<1>14. CASE UNCHANGED vars
  BY <1>3, <1>14, Zenon DEF vars
<1>. QED  BY <1>3, <1>7, <1>8, <1>9, <1>10, <1>11, <1>12, <1>13, <1>14, Zenon DEF Next

\* While the GETs of a URL do not overlap, what is given for it never goes back
\* to an older answer (cachingMiddleware).
THEOREM NeverBack == Spec => ReadsDoNotGoBack
PROOF
<1>1. Inv /\ [Next]_vars => \A u \in Urls : ~overlapped'[u] => seen'[u] >= seen[u]
  <2> SUFFICES ASSUME Inv, [Next]_vars, NEW u \in Urls, ~overlapped'[u]
               PROVE  seen'[u] >= seen[u]
    OBVIOUS
  <2>1. seen[u] <= seen'[u]
    BY SeenAgain, Zenon
  <2>2. Inv'
    BY Stepping, Zenon
  <2>3. seen[u] \in Int /\ seen'[u] \in Int
    <3>1. ServerTyped /\ ServerTyped'
      BY <2>2, Zenon DEF Inv
    <3>2. seen'[u] \in Versions \union {Unseen}
      BY <3>1, Zenon DEF ServerTyped
    <3>. QED  BY <3>1, <3>2, Integral, Numbers, Zenon
  <2>. QED  BY <2>1, <2>3, SMT
<1>2. Inv /\ [Next]_vars => [\A u \in Urls : ~overlapped'[u] => seen'[u] >= seen[u]]_vars
  BY <1>1
<1>. QED  BY <1>2, Inductive, PTL DEF Spec, ReadsDoNotGoBack
====
