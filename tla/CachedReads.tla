---- MODULE CachedReads ----
(*****************************************************************************)
(* GET requests through the response cache: cachingMiddleware of             *)
(* internal/http on top of what CacheContract promises of a cache, with      *)
(* concurrent callers, a server whose data changes, invalidation, and        *)
(* tasks.Wait of pkg/api/tasks as a caller that polls.                       *)
(*                                                                           *)
(* A lookup, the request to the server and the store of its answer are       *)
(* separate steps: nothing is locked between them. Every request that is not *)
(* a GET passes the cache by; what such a request, or anybody else, changes  *)
(* at the server is Change.                                                  *)
(*****************************************************************************)
EXTENDS Integers

CONSTANTS
    Readers,     \* callers of Get
    Waiters,     \* callers of tasks.Wait
    Hosts,       \* the client's own host and those of WithHost
    Paths,
    TaskUrl,     \* the status URL that the waiters poll
    Everything,  \* the pattern "*"
    MaxVersion,  \* bound: how often the answer at one URL changes
    Miss

Urls == [host : Hosts, path : Paths]

ASSUME CallersAssumption == Readers \intersect Waiters = {}
ASSUME TaskAssumption == TaskUrl \in Urls
ASSUME VersionAssumption == MaxVersion \in Nat
ASSUME MissAssumption == Miss \notin 0 .. MaxVersion

Callers == Readers \union Waiters
Versions == 0 .. MaxVersion

VARIABLES
    version,  \* what the server would answer now, by URL
    memory,   \* the cache, see CacheContract
    event,
    pc,       \* where each caller is in the middleware
    asked,    \* the URL it asks for
    answer,   \* the answer it got from the server
    wait,     \* how far each Wait is
    \* For the properties:
    given,      \* the answers with a 2xx status that the server gave, by URL
    seen,       \* the answer a caller was given last, by URL
    overlapped, \* two GETs of the URL were under way at once since it was settled
    floor       \* the version when the cache was last cleared with none under way

vars == <<version, memory, event, pc, asked, answer, wait, given, seen, overlapped, floor>>
history == <<given, seen, overlapped, floor>>

Unseen == -1
NoAnswer == [good |-> FALSE, version |-> Unseen]
Answers == [good : BOOLEAN, version : Versions] \union {NoAnswer}

\* A plausible slip: the key of a URL leaves out the host.
KeyOfPath(u) == u.path

\* GenerateKeyFromURL. No two URLs share a SHA-256 hash; that it is no longer
\* the text of a URL matters to Matched only.
CacheKey(u) == <<"GET", u>>

CacheKeys == {CacheKey(u) : u \in Urls}

Cache == INSTANCE CacheContract WITH Keys <- CacheKeys, Values <- Versions

\* Fetching and storing callers: those whose answer may still reach the cache.
Fetching(u) == {c \in Callers : pc[c] # "idle" /\ asked[c] = u}

TypeOK ==
    /\ version \in [Urls -> Versions]
    /\ \E K \in SUBSET CacheKeys : memory \in [K -> Versions]
    /\ pc \in [Callers -> {"idle", "sent", "answered"}]
    /\ asked \in [Callers -> Urls]
    /\ answer \in [Callers -> Answers]
    /\ wait \in [Waiters -> {"new", "polling", "pausing", "stopped", "failed"}]
    /\ \A w \in Waiters : wait[w] = "polling" <=> pc[w] # "idle"
    /\ given \in [Urls -> SUBSET Versions]
    /\ seen \in [Urls -> Versions \union {Unseen}]
    /\ overlapped \in [Urls -> BOOLEAN]
    /\ floor \in [Urls -> Versions]

Init ==
    /\ version = [u \in Urls |-> 0]
    /\ Cache!Init
    /\ pc = [c \in Callers |-> "idle"]
    /\ asked = [c \in Callers |-> TaskUrl]
    /\ answer = [c \in Callers |-> NoAnswer]
    /\ wait = [w \in Waiters |-> "new"]
    /\ given = [u \in Urls |-> {}]
    /\ seen = [u \in Urls |-> Unseen]
    /\ overlapped = [u \in Urls |-> FALSE]
    /\ floor = [u \in Urls |-> 0]

----
\* parseTaskStatus: the first answer of a task says that it runs, later ones
\* that it has stopped.
Stopped(v) == v > 0

\* poll, when its request is back. A Get that fails ends it.
Polled(c, outcome) ==
    wait' = [w \in Waiters |-> IF w = c THEN outcome ELSE wait[w]]

Success(c, u, v) ==
    /\ Polled(c, IF Stopped(v) THEN "stopped" ELSE "pausing")
    /\ seen' = [seen EXCEPT ![u] = v]

Leave(c) ==
    /\ pc' = [pc EXCEPT ![c] = "idle"]
    /\ answer' = [answer EXCEPT ![c] = NoAnswer]

\* The cached answer is returned; neither authMiddleware nor the server is asked.
Hit(c, u) ==
    /\ Cache!Lookup(CacheKey(u))
    /\ event'.found # Miss
    /\ asked' = [asked EXCEPT ![c] = u]
    /\ Success(c, u, event'.found)
    /\ UNCHANGED <<version, pc, answer, given, overlapped, floor>>

\* Nothing is cached: the request goes down the chain.
Forward(c, u) ==
    /\ Cache!Lookup(CacheKey(u))
    /\ event'.found = Miss
    /\ asked' = [asked EXCEPT ![c] = u]
    /\ pc' = [pc EXCEPT ![c] = "sent"]
    /\ overlapped' = [overlapped EXCEPT ![u] = @ \/ Fetching(u) # {}]
    /\ Polled(c, "polling")
    /\ UNCHANGED <<version, answer, given, seen, floor>>

Get(c, u) ==
    /\ pc[c] = "idle"
    /\ Hit(c, u) \/ Forward(c, u)

Read(r) == \E u \in Urls : Get(r, u)

\* Wait polls at once, then after each pause.
Poll(w) ==
    /\ wait[w] \in {"new", "pausing"}
    /\ Get(w, TaskUrl)

\* The deadline of Wait, or its caller's context, between two polls.
TimeOut(w) ==
    /\ wait[w] \in {"new", "pausing"}
    /\ Polled(w, "failed")
    /\ UNCHANGED <<version, memory, event, pc, asked, answer, history>>

ServerAnswers(c) ==
    /\ pc[c] = "sent"
    /\ pc' = [pc EXCEPT ![c] = "answered"]
    /\ \E good \in BOOLEAN :
        /\ answer' = [answer EXCEPT ![c] = [good |-> good, version |-> version[asked[c]]]]
        /\ given' = [given EXCEPT ![asked[c]] = IF good THEN @ \union {version[asked[c]]} ELSE @]
    /\ UNCHANGED <<version, memory, event, asked, wait, seen, overlapped, floor>>

\* The request, or reading the body of its answer, fails: nothing is stored.
Fails(c) ==
    /\ pc[c] = "sent" \/ (pc[c] = "answered" /\ answer[c].good)
    /\ Leave(c)
    /\ Polled(c, "failed")
    /\ UNCHANGED <<version, memory, event, asked, history>>

\* A plausible slip: what the server refused to answer is cached like an answer.
AnyStatus(c) == answer[c] # NoAnswer

\* Only 2xx answers are stored.
Cacheable(c) == answer[c].good

\* The whole body is there: it is stored and returned.
Store(c) ==
    /\ pc[c] = "answered"
    /\ Cacheable(c)
    /\ Cache!Store(CacheKey(asked[c]), answer[c].version)
    /\ Leave(c)
    /\ Success(c, asked[c], answer[c].version)
    /\ UNCHANGED <<version, asked, given, overlapped, floor>>

\* An error status is passed on, and the caller gets an error.
PassOn(c) ==
    /\ pc[c] = "answered"
    /\ ~Cacheable(c)
    /\ Leave(c)
    /\ Polled(c, "failed")
    /\ UNCHANGED <<version, memory, event, asked, history>>

----
\* The answer changes: through a request of this client that is not a GET, or
\* through anybody else. The cache does not hear of it.
Change(u) ==
    /\ version[u] < MaxVersion
    /\ version' = [version EXCEPT ![u] = @ + 1]
    /\ UNCHANGED <<memory, event, pc, asked, answer, wait, history>>

\* A URL with no GET under way is settled when nothing of it is cached.
Settle ==
    /\ overlapped' = [u \in Urls |-> overlapped[u] /\ Fetching(u) # {}]
    /\ floor' = [u \in Urls |-> IF Fetching(u) = {} THEN version[u] ELSE floor[u]]

\* A plausible slip: only what has expired is thrown away.
ClearExpired ==
    /\ Cache!Forget
    /\ Settle
    /\ UNCHANGED <<version, pc, asked, answer, wait, given, seen>>

ClearCache ==
    /\ Cache!WithdrawAll
    /\ Settle
    /\ UNCHANGED <<version, pc, asked, answer, wait, given, seen>>

\* matchPattern on the keys of the cache. They are hexadecimal digits: "*"
\* matches them all, a pattern that starts with a path matches none.
Matched(pattern) == IF pattern = Everything THEN CacheKeys ELSE {}

InvalidateCache(pattern) ==
    /\ Cache!Withdraw(Matched(pattern))
    /\ IF pattern = Everything THEN Settle ELSE UNCHANGED <<overlapped, floor>>
    /\ UNCHANGED <<version, pc, asked, answer, wait, given, seen>>

\* A plausible slip: a hit puts off the expiration of its entry.
ExpireUnused(k) ==
    /\ k \in DOMAIN memory
    /\ event \notin [op : {"get"}, key : {k}, found : Versions]
    /\ memory' = Cache!Without(memory, {k})
    /\ UNCHANGED <<version, event, pc, asked, answer, wait, history>>

\* The lifetime of the entry is over.
Expire(k) ==
    /\ k \in DOMAIN memory
    /\ memory' = Cache!Without(memory, {k})
    /\ UNCHANGED <<version, event, pc, asked, answer, wait, history>>

----
Proceed(c) == ServerAnswers(c) \/ Fails(c) \/ Store(c) \/ PassOn(c)

Next ==
    \/ \E r \in Readers : Read(r)
    \/ \E w \in Waiters : Poll(w) \/ TimeOut(w)
    \/ \E c \in Callers : Proceed(c)
    \/ \E u \in Urls : Change(u)
    \/ ClearCache
    \/ \E pattern \in Paths \union {Everything} : InvalidateCache(pattern)
    \/ \E k \in CacheKeys : Expire(k)

\* Requests come back, pauses and lifetimes end. Nothing is assumed of readers,
\* of the server's data or of deadlines.
Spec ==
    /\ Init
    /\ [][Next]_vars
    /\ \A c \in Callers : WF_vars(Proceed(c))
    /\ \A w \in Waiters : WF_vars(Poll(w))
    /\ \A k \in CacheKeys : WF_vars(Expire(k))

----
\* What a caller is given for a URL, from the cache or not, is a 2xx answer that
\* the server gave for that very URL, its host included (client.go:1322-1340).
ReadsAreAnswers == \A u \in Urls : seen[u] # Unseen => seen[u] \in given[u]

\* After ClearCache or InvalidateCache("*") with no GET of a URL under way, no
\* hit on it is older than that moment (client.go:1366). With one under way the
\* old answer may come back and stay: its caller stores it after the clear.
FreshAfterClear ==
    \A u \in Urls : CacheKey(u) \in DOMAIN memory => memory[CacheKey(u)] >= floor[u]

\* Unless two GETs of a URL overlap, what callers are given for it never goes
\* back to an older answer, however fills, hits, failures, expirations and
\* invalidations follow each other. Overlapping ones may store in either order.
ReadsDoNotGoBack ==
    [][\A u \in Urls : ~overlapped'[u] => seen'[u] >= seen[u]]_vars

\* A Wait on a task that has stopped ends, though it and others keep hitting the
\* cached answer that says the task runs (tasks.go:261).
WaitEnds ==
    \A w \in Waiters :
        (wait[w] \in {"polling", "pausing"} /\ Stopped(version[TaskUrl]))
            ~> (wait[w] \in {"stopped", "failed"})
====
