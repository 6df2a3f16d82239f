# TLA+ models of proxmox-apiclient-go

Models of the parts of this client library in which several goroutines, a
network and a server meet, with TLC runs on small instances and TLAPS proofs for
every value of the constants. Paths below are relative to `src/`.

## 1. The system

### 1.1 Components

| component | state | operations | modelled |
|---|---|---|---|
| **request pipeline** `internal/http/client.go` (`executeWithMiddleware`, `retryMiddleware`, `handleAuthenticationRetry`), `request_options.go`, `pkg/errors/codes.go` | per call: attempt counter, request body and its capture, pass (first or replay) | send, classify the failure, back off, rewind, retry, replay after a 401 | `RequestPipeline` |
| **session and authentication** `internal/http/client.go` (`authMiddleware` and what it calls), `pkg/auth/ticket.go`, `auth.go` | the ticket, the auto-login marker, headers of each request | renewal, automatic login, explicit `Login`, TFA, forced login after a 401, `Logout`, `SetTicketValue`, `SetCSRFToken` | `ClientSession` |
| **cache store** `pkg/cache/cache.go` | key index, recency list, running size, cleanup goroutine | `Get`, `Set`, `Invalidate`, `Clear`, `Close`, cleanup | `LruCache` |
| **websocket connections** `pkg/websocket/websocket.go` | `conn`, `closed`, `closeChan`, `reconnect`, `pingTicker`; read, ping and reconnect goroutines | `Connect`, `ConnectWithRetry`, `Disconnect`, the three loops | `WsClient` |
| **websocket event dispatch** `pkg/websocket/websocket.go` | handler lists, handler semaphore, stream channels | `On`, `OnAll`, `Off`, `NewSubscription`, `Cancel`, `NewStream`, `Stop`, `handleMessage`, dispatch | `EventDispatch` |
| **caching middleware** `internal/http/client.go` (`cachingMiddleware`, `ClearCache`, `InvalidateCache`) | fills in flight around the cache store | lookup, fill, invalidate, bypass | `CachedReads` |
| **task polling** `pkg/api/tasks/tasks.go` | deadline, place in the poll loop | `Wait` | `CachedReads`, as a caller of the middleware |
| **batches** `pkg/batch/batch.go` | requests of each batch; semaphore, wait group, results and counters of an execution | `Add`, `Clear`, `Execute`, `ExecuteWithCallback`, retry, `Pipeline.Execute` | `BatchExecutor` |
| **certificate trust** `internal/ssl/cache.go`, `fingerprint.go`, `internal/http/client.go` (`buildFingerprintVerifier`) | fingerprint map, its file, decision cache | verify, accept, refuse, save, load | `FingerprintTrust` |
| **item streams** `pkg/stream/stream.go` | one reader, the closed flag, the error channel | `Read`, `ReadAll`, `Channel`, `Process`, `ProcessBatch`, `Close` | `ItemStream` |
| usage pool `pkg/pool/pool.go`, metrics `pkg/metrics` | counters and gauges | `Get`/`Put`/`Close`; record, reset | no: nothing but statistics reads them |
| upload body streaming `internal/http/request.go` | a pipe between the multipart writer and the transport | — | its effect on retry and replay is in `RequestPipeline` |
| console proxies, TFA and token helpers, errors, encoding, responses, facade, scalars, compatibility tables, context detector | none that a later step depends on | one request, one parse, one table look-up | no: pure data or pure I/O |
| generated bindings (`pkg/api/*_gen.go`, `pkg/pbs`, `pkg/pdm`) and `cmd/pvegen` | none | one request per method; an offline generator | no: stateless |

`PROJECT.json` lists the same components with their files, and under `hazards`
what in each of them can go wrong where a unit test would hardly look.

### 1.2 How they interact

A call enters `DoWithContext`, which builds the request and runs the middleware
chain: **caching** (GETs only) → **authentication** → **retry** → `net/http`.
Authentication reads and replaces the ticket that all goroutines of the client
share; a 401 that comes back through the retry loop makes it log in again and
send the request through the retry loop a second time. The cache store is reached
from the caching middleware under its own mutex, and a cleanup goroutine shares
it. Task polling and the hand-written services are callers of this chain. The
websocket client is separate: it takes a ticket once, as headers, and then lives
on its own goroutines; its read loop hands each message to the event dispatch.
Batches and item streams are separate too: they run over any HTTP client or body
the program hands them. Below `net/http`, each TLS handshake asks the fingerprint
verifier, whose accepted certificates go to a file that several clients, of one
or of several processes, may share.

### 1.3 What is hard, and what makes each component correct

* *Request pipeline.* A request whose answer is lost may have run. Three
  mechanisms send again (retry on status, retry on transport failure, replay
  after 401), each with its own count and its own way to restore the body.
  Correct: a mutating call that did not opt in runs at most once; success means
  it ran; no send beyond the policy, and none of its retries
  lost; no send with a drained body; the call ends.
* *Session.* No lock is held over a login. Renewal, automatic login, TFA, forced
  login, logout and the setters interleave at every network exchange, and
  headers are put on a request that may already carry others. Correct: one
  automatic login at a time, never disabled by a failure; a replay does not carry
  the ticket just refused; a request's Cookie and CSRF header belong together,
  also when a ticket comes without a token;
  with a well-behaved server every call succeeds; every request ends.
* *Cache store.* Three structures are kept in step by hand. Correct: they agree;
  a hit returns what was stored last; eviction removes the least recently used
  and makes room; expired entries go.
* *Websocket.* Each goroutine takes shared fields when it first runs, not when it
  is started, and a dial runs with the mutex held. Correct: one reader per
  connection; reconnect loops do not multiply; the connection in use is pinged;
  Disconnect ends everything; a loss is answered.
* *Batches.* Workers, the loop that places them, the timeout and the caller's
  context race for slots, results and counters. Correct: no more requests at once
  than configured; one result per request under its own ID; `Execute` returns, and
  not before its goroutines; a pipeline stops where it should.
* *Caching middleware and task polling.* Nothing is locked between the lookup, the
  request and the store, so a fill in flight can store an answer that a write or an
  invalidation has made stale, and two fills can store in either order. Correct: no
  answer is given for another URL, host included; nothing in the cache is older than
  a clear that met no fill; without overlapping fills, answers do not go back; a
  `Wait` ends although it keeps hitting a cached "running".
* *Event dispatch.* Every event is handled by a goroutine per handler, behind one
  semaphore, while handlers come and go. Correct: slots are bounded and none is lost;
  ending a subscription or stream takes effect for all but what already passed its
  check; nobody's registration goes with another's; a stream drops only when its
  user is behind; every event gets to every handler or is refused.
* *Certificate trust.* The verifier's lock is held over the user's answer and the
  save; the file is loaded once and replaced as a whole. Correct: nobody trusts what
  was not configured or approved for that host; a reader sees whole saves only; the
  user is not asked twice; the lock is let go.
* *Item streams.* Items are handed over by five kinds of calls that end at the end
  of the body, at an error, at cancellation or at `Close`. Correct: in order, none
  twice, none lost but what is named; no send on the closed error channel; a
  cancelled call ends.

## 2. The modules

```
CallContract  <-- RequestPipeline <-- RequestPipelineProofs
                        ^------------ MCRequestPipeline
                  ClientSession   <-- ClientSessionProofs
                        ^------------ MCClientSession
CacheContract <-- LruCache        <-- LruCacheProofs
                        ^------------ MCLruCache
                  WsClient        <-- WsClientProofs
                        ^------------ MCWsClient
                  BatchExecutor   <-- BatchExecutorProofs
                        ^------------ MCBatchExecutor
CacheContract <-- CachedReads     <-- CachedReadsProofs
                        ^------------ MCCachedReads
                  EventDispatch   <-- EventDispatchProofs
                        ^------------ MCEventDispatch
                  FingerprintTrust <- FingerprintTrustProofs
                        ^------------ MCFingerprintTrust
                  ItemStream      <-- RequestPipelineProofs
                        ^------------ MCItemStream
```

`RequestPipelineProofs` holds the proofs about `ItemStream` too, so no name of one is a
name of the other: `ItemStream`'s are `StreamInit`, `StreamNext`, `StreamSpec`.

`CallContract` and `CacheContract` are abstract specifications; `RequestPipeline`
and `LruCache` implement them under refinement mappings (`ImplementsContract`).
`CachedReads` is built on `CacheContract`, not on `LruCache`: what it shows holds for
any cache that keeps the contract, and `LruCache` does.
Operators called "a plausible slip" stand beside the definition they vary; no
specification uses them. They are what the mutants of `PROJECT.json` put in place
of that definition, to see that each property notices.

### 2.1 RequestPipeline

One call. `call` fixes what the caller chose: idempotent method or not,
`ForceRetry`, retries (-1 for a negative option), whether the delay is positive,
kind of body, kind of authenticator. `pc` is the place in the chain: `auth`
(`authMiddleware`), `send` (loop head of `retryMiddleware`), `wait` (in
`http.Client.Do`), `backoff` (`waitBackoff`), `reauth` (between a 401 and the
replay), `done`. `attempt` is the loop's counter, `pass` is 2 in the replay,
`body` is `req.Body`, `wire` the request in the server's hands. `sends`, `execs`,
`late` and `spoiled` record what the server and the wire have seen.

`ReturnResponse`, `RetryResponse` and `CredentialsRefused` are the branches taken
on a response, `TransportFailure` those on an error. A failure may come before the
server has the request, while it runs it or after: a request the client lets go
(`LetGo`) may run late (`ServerRunsLate`), which is what makes a second send of a
POST dangerous. A failure that proves the request never left (refused connection,
refused certificate) leaves nothing behind. The 596 pseudo-status says that a proxy
lost its upstream: the model lets what it stood for run late, like any lost request.
Statuses are grouped by what the code tells apart.

### 2.2 ClientSession

One client, any set of concurrent `Requests`, one caller that also logs out or
sets tickets. A ticket is a number; a credential pairs the number of the ticket
with that of its CSRF token, 0 for none. `bare` holds the tickets that came without a
token (`Token`): the ticket a client is built from, where the option is not set, or a
login whose answer has none, which `buildLoginResult` accepts. `SetHeaders` then leaves
whatever token the request carried, as `applyAuthHeaders` does. Each step is one critical section of
`TicketAuthenticator` or of the client, or one answer of the server: `RenewCheck`
(`renewTicketIfNeeded`), `Check` (`handleAuthentication`), `AutoLock`
(`performAutoLogin` under `loginMutex`), `Ensure`/`Recheck`
(`ensureAuthentication` before and after its login), `ServerGrants`,
`ServerRefusesLogin`, `ServerChallenges`, `TFAFails`, `Install`/`TFAInstall` (the
write of the ticket), `Rearm` (the failure path that clears `loginAttempted`),
`Send` (`applyAuthHeaders`), `Accepted`, `RefusedAndReplayed`, `RefusedForGood`.
The caller's `Logout`, `SetTicketValue` and `SetCSRFToken` are two or three steps
each, because they read, talk to the server and write without a lock over all of
it. Below `authMiddleware` a send is one exchange; the retries under it are
`RequestPipeline`'s.

### 2.3 LruCache

`entries` is the key index with value and remaining life, `lru` the list, `size`
the running size. Every method holds the mutex throughout and is one action,
`Set` with the evictions it makes. `removeElement` takes keys out of the list by
position (`Drop`), and what the entries are charged is counted unit by unit (`Charge`);
neither needs recursion. The clock is `Tick`. `event` and `recency`
exist for the properties: the last operation and its result, and every key ever
used in order of use.

### 2.4 WsClient

`conn`, `closed`, `pingTicker` are the fields of that name; `stopped` stands for
"`closeChan` is closed and `reconnect` is false", which `Disconnect` does in one
critical section and nothing undoes. Connections are numbered as they are dialed;
the read loop, ping loop and ticker that `Connect` starts, and the reconnect loop
that follows when the connection is lost, go by the same number. `reader`,
`pinger`, `loop` say where each goroutine is, `readsFrom` and `ticker` what it
captured. `caller` and `left` are calls of `Connect` (one attempt) and
`ConnectWithRetry`. `c.mu` is held over more than one step only while a dial runs
(`MuFree`). `born` decides whether a reconnect loop's context is live: one derived
from the dial context of an earlier reconnect loop is not. A panic that nothing
recovers ends the program.

### 2.5 BatchExecutor

`requests` holds the IDs of each batch of a pipeline, filled by `Add` before the
pipeline runs. The main goroutine (`main`, `current`, `next`) takes a slot and
starts a worker per request (`Place`), or records it as failed when its `select`
finds the context done (`Refuse`; both may be ready), waits for the wait group
(`AllPlaced`, `Return`) and applies the pipeline's verdict. A worker (`pc`) goes by
batch and position: `Answer` is one call of the HTTP client with what
`executeRequest` makes of it, `BackoffElapsed` and `BackoffCancelled` the `select`
of the backoff, `Record` the critical section over result and counter, then the
callback, and the deferred calls in their order, `Release` before `Done`. With a
callback there is one batch, since `Pipeline.Execute` passes none. `attempt` and
`failed` go back to their initial values when the variables they stand for are out
of scope. The unsynchronised read of `batch.requests` by `Execute` is not modelled:
no request is added to a batch that is being executed.

### 2.6 CachedReads

`Get` is `cachingMiddleware` up to the request that goes down the chain: a lookup of
the contract's cache that either hits (`Hit`: neither `authMiddleware` nor the server
is asked) or forwards (`Forward`). `ServerAnswers`, then `Store` for a 2xx answer,
`PassOn` for another status, `Fails` for a transport error or a body that cannot be
read. `version` counts the answers a URL would give one after the other; `Change`
moves it, through this client's own writes, which pass the cache by, or anybody
else's. A key is the URL itself: `GenerateKeyFromURL` hashes it, which matters only to
`InvalidateCache`, whose path patterns match no hash (`Matched`). `Expire` removes any
entry at any time: lifetime, eviction and cleanup are alike to the middleware. A
waiter is `tasks.Wait`: it polls at once, pauses after an answer that says the task
runs, and ends with its deadline (`TimeOut`), an error, or an answer that says it has
stopped. `given`, `seen`, `overlapped` and `floor` exist for the properties.

### 2.7 EventDispatch

`handlers` holds the IDs registered for each topic, in order; `Register` serves `On`,
`OnAll`, `NewSubscription` and `NewStream`. `Message` is `handleMessage` under its read
lock: one task for each handler of the event's type and each wildcard handler. A task
is a goroutine of `dispatch`: it waits for a slot (`Enter`), checks whether its
subscription or stream is over (`Check`, `Refuse`), and hands the event on (`Handle`,
or the second `select` of a stream: `Deliver`, `Discard`, `Drop`), which frees the
slot. `Cancel` is two steps, the context and then the registration (`RemoveHandler`);
`Stop` is one and leaves the stream registered. Channels count their events. Tasks
enter in any order, so the order in which a handler or stream sees events is left
open, as in the code. Two things the model shows and no property forbids: `Off`
deregisters everybody's handlers of the topic and does not stop tasks already
dispatched; and a stopped stream keeps taking slots for every event. An event whose
type is literally `*` would reach wildcard handlers twice; it is excluded.

### 2.8 FingerprintTrust

`known` is the verifier's decision cache, `entries` the map of its
`FingerprintCache`, `file` and `tmp` the contents of the cache file and of the one
temporary path all clients share. `Load`/`LoadFails` construct a client, `Ask` is a
handshake that finds no verdict and holds the verifier's lock (`stage`) while the user
thinks; `Accept` adds the entry and saves step by step: `Open` truncates or creates,
`Write` writes through the handle, `Rename` replaces the file. Each step may fail
(`OpenFails`, `WriteFails`, `RenameFails`), and `Crash` may come at any of them and
leaves the files as they are. `handle` follows an open file whose path was renamed or
removed by another client, as the operating system does. An error of `Load` is
ignored, as in the code. A client with `VerifyFingerprintCallback` persists nothing.
Power loss is not modelled (the code does not sync), nor are the methods of the
package that no client calls.

### 2.9 ItemStream

A body is a sequence of lines that decode to an item, to null, or not at all, and
ends or breaks off; with `Format` "json" it is one document. `Begin` starts a call,
`Read` is `checkStreamState`, `ReadLine`/`ReadEnd`/`ReadFails` what the read of the
body brings, `Take` what each kind of call does with an item. `Check` and `SendError` are the
two steps of `trySendError` under the read lock, which keep `Close` out between them.
`Receive` and `CallbackReturns` are the consumer and the callback, `Abandon` the
cancelled `select` of `Channel`. `Channel` sends a failure once more after `recordError`
has. Calls follow one another, because `Read` has no lock against another `Read`.
A `ProcessBatch` that is cancelled with items in hand returns its callback's result,
nil included; `HandsOverAll` allows for that.

## 3. The runs

| run | instance | checks |
|---|---|---|
| `pipeline` | `MaxRetries = 2`; every `call` | `SendBound`, `WholeBody`, `RetriesUsed`, `ImplementsContract`, `Terminates` |
| `session` | 2 requests, 3 tickets, 1 caller operation, 2 upsets | `OneAutoLogin`, `FailedLoginRearms`, `ReplayNotWithRefused`, `HeadersFromOneTicket`, `UndisturbedCallsSucceed` |
| `session_ends` | 2 requests, 2 tickets, 2 upsets | `RequestsEnd` |
| `cache` | 3 keys, values of size 1, 2, 4 in a cache of 3, lives 0 or 1 | `StructuresAgree`, `ImplementsContract`, `EvictsLeastRecent`, `ExpiredGo` |
| `ws` | 2 callers, 2 calls, 2 connections, 2 attempts | `ReaderOfConn`, `NoRivalReconnect`, `Pinged`, `StopsEverything`, `LossIsAnswered` |
| `ws_reconnect` | the same | `AttemptsCanSucceed` is violated |
| `batch` | 2 batches of up to 3 and 1 requests, 2 slots, 1 retry, statuses 200 and 503 | `ConcurrencyBound`, `Accounted`, `OneAfterTheOther`, `ExecuteReturns` |
| `reads` | 1 reader, 1 waiter, 1 path on 2 hosts, 1 change of each answer | `ReadsAreAnswers`, `FreshAfterClear`, `ReadsDoNotGoBack`, `WaitEnds` |
| `events` | 2 handlers of any kind, 2 types, 2 events, 1 slot, channels of 1 | `HandlersBounded`, `FewAfterEnd`, `StaysRegistered`, `NothingLost`, `EventsHandled` |
| `trust` | 2 clients of 2 hosts, 2 certificates, 4 starts | `TrustIsApproved`, `SavesAreWhole`, `NotAskedAgain`, `LockIsReleased` |
| `trust_persists` | the same | `TrustPersists` is violated |
| `streams` | bodies of up to 4 lines, batches of 2 | `HandsOverAll`, `NoSendOnClosed`, `CancelledCallsEnd` |

The type invariants are part of `StructuresAgree` and `HandsOverAll`; in the other modules
`TypeCorrect` proves them for every instance (section 4), so no run repeats them.

**Why the bounds are enough.** *pipeline:* with two retries there is a first, a
middle and a last attempt, in each of two passes; the theorems cover every bound.
*session:* two requests are enough for one to overtake the other's login and for
logins to answer out of order; three tickets let each of them, and the caller,
have one; two upsets let a ticket pass from fresh to expired, two of them be revoked
or come without a token, or a refused ticket be followed by one without. The liveness run leaves the caller out, who cannot delay a request.
*cache:* making room takes no, one or all entries; one value is larger than the
cache; the patterns match no, one, two or all keys. *ws:* a first connection, a
reconnect and the loss of the second is the shortest history in which a reconnect
loop inherits a context, and in which an old ping loop meets a new connection; two
callers can find each other's connection. The safety properties of this run are
theorems for every bound. *batch:* three requests for two slots make the main
goroutine wait for a slot while one worker sends and one backs off; one retry gives
a first and a last attempt; the second batch is offered one ID again and again.
Mixed named and unnamed requests are left to the theorems, which cover any IDs.
*reads:* a fill overtakes another, a clear or a change with two callers; one change
tells a new answer from an old one; a second host shows what a key without the host
would mix up. *events:* two events are one more than there are slots and one more than
a channel holds, and two handlers are one to end and one to stay. *trust:* two clients
overlap in a save or follow each other, four starts let both crash and return; with
two hosts an approval can be for the wrong one. *streams:* four lines hold a full
batch, what follows it and a broken line at any place. The safety properties of
all runs are theorems for every bound.

Counters that would grow for ever are capped in guards: `MaxTickets`,
`MaxUserOps`, `MaxUpsets` in `ClientSession`, `MaxConns`, `MaxCalls` in
`WsClient`, `MaxVersion` in `CachedReads`, `MaxHandlers`, `MaxEvents` in
`EventDispatch`, `MaxStarts` in `FingerprintTrust`. At the cap the server grants no
further login, dials fail, data no longer changes, nobody registers, no event comes
and no client starts: each may happen at any time.

**Deadlock** is checked in the cache, batch, reads, events and streams runs; a program that is done with
its pipeline is a step of its own (`Finished`). It is off where the behaviour really
ends: a call that has returned, requests that have all ended, a program that makes
no further call, clients that have all ended.

**Fairness.**
`RequestPipeline`: the goroutine of the call runs on, and `http.Client.Timeout` or
the backoff timer ends each wait; nothing obliges the server.
`ClientSession`: each request's goroutine runs on, and each exchange ends in an
answer or the timeout; nothing is assumed about the caller, about ageing or
revocation.
`LruCache`: the cleanup ticker keeps firing, and the `select` of the cleanup loop
does not pass over `Close` for ever.
`WsClient`: goroutines are scheduled, timers fire, a dial ends by the handshake
timeout or its context, a read of a socket closed locally fails, and `Disconnect`
gets to its `conn.Close`. No message, no accepting server and no call is assumed.
`BatchExecutor`: goroutines are scheduled, timeout and backoff timers fire, callbacks
return, and the HTTP client gives a request up once its context is done
(`AnsweredInTime`). Answers of the server are not assumed; where `ExecuteReturns`
needs them it has them as its premise.
`CachedReads`: requests come back (the client's timeout ends each), pauses end, and
each entry expires. Nothing is assumed of readers, changes or deadlines, so `WaitEnds`
does not lean on the deadline.
`EventDispatch`: goroutines are scheduled, and so is the second step of a `Cancel`;
handlers of the user return. Nobody has to empty a stream.
`FingerprintTrust`: users answer, and file operations return.
`ItemStream`: the goroutine or caller runs on and callbacks return. A read of the body
may block for ever, which is the premise of `CancelledCallsEnd`; consumers need not
take anything.

### 3.1 What the violation runs show

* `ws_reconnect`: `reconnectLoop` hands the context it is about to cancel to the
  next read loop, so a connection lost after a reconnect is never regained.
* `trust_persists`: a client loads the file once and saves all it knows. What another
  client saved in between is dropped, though no two saves overlap;
  `internal/http/client.go:279-281` promises trust that is persisted.

Findings without a run, which the modules reproduce:

* `performAutoLogin` tests the marker under the mutex and logs in outside it. Of two
  first requests the second is sent without credentials, is refused and logs in again.
  `examples/auto-login/README.md:86` promises one login. `UndisturbedCallsSucceed` shows
  that the replay repairs the call itself.
* A client built from a ticket alone cannot renew it.
* When the login for the replay after a 401 is answered without a CSRF token, the replay
  carries the new ticket and the token of the refused one, although
  `internal/http/client.go:1231-1232` says that it "carries new credentials". The second
  case of `HeadersFromOneTicket` is this one, and TLC violates the property without it.
* The path patterns of `InvalidateCache` match no cache key, because keys are hashes.
* A replacement in the cache evicts nothing, and a value larger than `MaxSize` is stored
  alone. The second part of `EvictsLeastRecent` is what does hold.
* A `Connect` that follows `Disconnect`, or is overtaken by it, leaves a client whose
  loops stop at once and whose next `Disconnect` panics.
* A ping loop that first runs after `Disconnect` finds `pingTicker` nil and panics.
* A batch request whose turn comes after the cancellation gets a failed response but no
  callback, although one cancelled a moment later does.
* The fingerprint file has one entry for each fingerprint, so approving it for a second
  host takes it from the first, and the port is not compared.
* Saves share one temporary path: of two that overlap, one may rename the other's
  unfinished file over the cache.
* A stream of one JSON document never ends with `io.EOF`, so every call but the first
  `Read` fails.

`MaxConcurrency = 0` lets `Execute` wait for a slot until its context is done, and a
negative `MaxRetries` leaves it without a response, which panics; the model assumes
`MaxRetries >= 0`.

## 4. The proofs

Every theorem holds for all values of the constants under the named `ASSUME`s of
its module; these only give the bounds their types (naturals, subsets of the listed
kinds, sizes in `Nat`).

* **RequestPipelineProofs.** `SendBound` and `ImplementsContract` are not
  inductive: they do not say how the sends so far relate to the attempt counter or
  which abandoned requests can still run. `IInv` adds that. `AttemptInv` ties
  counter, pass and place; `SendInv` bounds sends by the attempts behind them;
  `RunInv` counts runs done *and runs still possible* (`execs + late`), so that a
  late run is paid for when the request is let go; `AnswerInv` and `BodyInv` tie the
  answer and the body. `RetriesNotLost` proves `RetriesUsed`: `WireInv` adds that,
  until the caller cancels, each attempt was a request on the wire. `SendsBounded` and `BodiesWhole` follow,
  and `Implementation` proves `Spec => ImplementsContract`: every step maps to a
  `Run`, a `Reply` or a stutter of `CallContract`.
* **ClientSessionProofs.** `TypeCorrect` needs which places go with which purpose
  (`Flow`). `AutoLoginExclusive` and `AutoLoginRearmed` come from `AutoInv`, the
  marker seen from the request that took it. `ReplayCarriesNewTicket` rests on
  `CredentialInv`: ticket numbers in use were issued, a ticket granted and not yet
  installed is no older request's refused one, and whoever is on the way to its
  replay has a ticket in reach that differs from the refused one. `HeadersMatch`
  rests on `Paired`: as long as no setter is used, the session's ticket and every
  request's headers are a ticket with the token it came with, a request before its first
  send has none, and the headers a replay starts from are those that were refused. So
  what `applyAuthHeaders` may leave is the refused ticket's token and nothing else
  (`SendPairs`). `TokensStay` says that later logins change no earlier ticket's token.
  `UndisturbedSucceed` adds to `CredentialInv` what holds while nothing is disturbed
  (`Calm`): every ticket that was installed is still good, so a request is refused only
  if it was sent without one, and its replay, which has one, is accepted.
* **LruCacheProofs.** `Implementation` proves `Spec => ImplementsContract` for any
  keys, values, sizes and lives. It needs only that the index is typed; the list
  and the sum do not matter to what a lookup returns. For `StructuresAgree` and
  `EvictsLeastRecent` they do. Neither is inductive: that list and index have the same
  keys says nothing of the order that the next eviction goes by. `IInv` adds that the
  list has no key twice and is the history of use with the keys left out that are not
  held (`ListInv`). Lemmas say what `Drop` and `ToFront` keep of an order (`DropKeeps`,
  `ToFrontMoves`; `NthOf` finds the n-th of a set of positions by the least counter-example),
  that a charge is the sum over its parts (`UnitsAdd`), and that eviction takes a tail of
  the list (`EvictedFromBack`). `StructuresInStep` and `LeastRecentGoes` follow.
* **WsClientProofs.** `ReaderOfConn` is strengthened by `NumberInv` (numbers up to
  `dialed` are in use), `DialInv` (one dial at a time, and only with no connection)
  and `CaptureInv` (what a read loop captured is its own connection, or closeChan is
  closed and its next look ends it). `NoRivals` is a token argument: a successful
  `Connect` of the program brings one token, a loss turns it from a connection into
  a reconnect loop, a reconnect turns it back. `KeptAlive` proves `Pinged`.

* **BatchExecutorProofs.** `IInv` adds to the types: semaphore and wait group count
  the workers that hold them (`CountInv`), and fewer run than were placed; exactly
  the requests before `next` are placed (`PlaceInv`); a running worker belongs to the
  current batch, and earlier batches passed the verdict (`OrderInv`); IDs are unique
  within a batch (`UniqueIds`); the entries of `Responses` are those of the resolved
  requests (`AccountInv`). Uniqueness is what makes `Record` add an entry rather than
  replace one, hence counters and entries agree. The safety properties follow, and with
  them `WaitsAreOwed` (stated beside its proof), for which the count of the semaphore must
  be exact.

* **CachedReadsProofs.** The three safety properties speak of what is cached or was
  seen, and an answer in a caller's hands may still become either. `Inv` therefore says
  of every answer that may still be served that it is `Sound` for its URL: given by the
  server, no older than the floor and, while no two GETs of the URL overlap, no older than
  what callers saw; `Alone` adds that only one caller at a time may then still store. It
  rests on `CacheContract`, so it holds for `LruCache` by its `Implementation`.
* **EventDispatchProofs.** `TaskInv` counts: the semaphore is the number of goroutines
  that hold a slot. In `EndInv` the tasks of an ended handler that are past their check
  count as late already, and there are never more of both than slots. `StreamInv` keeps
  what is on its way to a stream within its channel until the stream is `crowded`, and a
  drop needs a full channel and one more. `RegistryInv` carries `StaysRegistered`, with
  lemmas on what removing one entry does to an increasing list.
* **FingerprintTrustProofs.** `ApprovalInv`: every host that a map in memory, the file
  or a temporary file names for a fingerprint has approved it. `WholeInv` follows the
  handles: without overlapping saves one client saves, through the temporary path.
  `AskInv`: what was asked about has a verdict or is being asked. `AloneInv`: while clients
  live one after the other, what was kept is in the file and in the client that lives.

* **ItemStream, in RequestPipelineProofs.** `HandsOverAll` speaks of calls that are over;
  `StreamInv` says the same of calls under way. What was handed over and what is in hand
  are, in this order, the items found so far (`HandInv`); `PlaceInv` says where a call may
  be with items in hand, and `EndInv` what its result says of those it leaves. `AllHandedOver`
  and `ErrorsStaysOpen` (a send waits under the read lock, which keeps `Close` from the
  channel) follow.

**Endings without fairness.** Liveness is out of the prover's reach, but the part of it
that needs no fairness is not, and holds for every bound: each goroutine has a number of
steps left that its own steps lower and nobody raises. `NoEndlessCall`: every step of a call,
the server's and the caller's included, lowers a number fixed by the retries. `NoEndlessRequest`:
a request has at most 17 steps of its own, and no login or logout of anybody else sends it back;
it needs `RenewFlow`, that a renewal comes only before the check. `NoEndlessExecute`: a worker has
two steps for each retry and seven more, the main goroutine one for each request and two for
each batch; and `NobodyWaitsInVain` proves `WaitsAreOwed`, that whoever the main goroutine waits
for is still on its way. What TLC adds for these three is that fairness lets the steps be taken.

**Only model-checked.** Liveness (`Terminates`, `RequestsEnd`, `ExpiredGo`,
`StopsEverything`, `LossIsAnswered`, `ExecuteReturns`, `WaitEnds`, `EventsHandled`,
`LockIsReleased`, `CancelledCallsEnd`). Every invariant and every action property of the
passing runs is a theorem.

## 5. What comes next

All modules of the first plan are there. What would add most to them:

1. The pipe between the multipart writer and the transport (`internal/http/request.go`):
   the writer goroutine ends, and a body is whole or an error.
2. `Send` and `SendText` of the websocket client against `Disconnect`, with `writeMu`.

## 6. Not modelled, and why

Wording, logging, encoding and parsing of payloads, response decoding, scalar types
and compatibility tables are pure data. Console proxies make one request and one
dial. Pool and metrics keep counters that only statistics read. Cache statistics, the
`errorChan` of the websocket client and its write serialisation (`writeMu`) are left
out of their modules because no property tells their contents apart.

The generated bindings (`pkg/api`, `pkg/pbs`, `pkg/pdm`; some 68,000 lines) are
one-request wrappers without state, each the same few lines over another path, and the
generator runs offline. They are the greater part of the code and nothing in them can
go wrong in an order of steps, so the models name only a small share of all lines; of
the hand-written code with state of its own they cover the parts listed above.
