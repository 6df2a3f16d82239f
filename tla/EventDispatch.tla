---- MODULE EventDispatch ----
(*****************************************************************************)
(* Event dispatch of pkg/websocket: handlers registered with On, OnAll,      *)
(* NewSubscription and NewStream, events that arrive while they come and go, *)
(* and the goroutines that bring each event to each handler.                 *)
(*                                                                           *)
(* A task is one goroutine of dispatch: one event for one handler. It queues *)
(* for a slot of handlerSem, checks whether its subscription or stream is    *)
(* over, and hands the event on; each of the three is a step of its own.     *)
(*****************************************************************************)
EXTENDS Integers, Sequences, FiniteSets

CONSTANTS
    EventTypes,             \* the types of events, without the wildcard
    Any,                    \* the wildcard "*"
    MaxConcurrentHandlers,  \* the slots of handlerSem, as New has set them
    BufferSize,             \* the events a stream's channel holds
    MaxHandlers,            \* bound: registrations
    MaxEvents               \* bound: events that arrive

ASSUME WildcardAssumption == Any \notin EventTypes
ASSUME SlotsAssumption == MaxConcurrentHandlers \in Nat \ {0}
ASSUME BufferAssumption == BufferSize \in Nat \ {0}
ASSUME BoundsAssumption == MaxHandlers \in Nat /\ MaxEvents \in Nat

Topics == EventTypes \union {Any}
Ids == 1 .. MaxHandlers
Events == 1 .. MaxEvents
Tasks == [to : Ids, event : Events]

Kinds == {"none", "plain", "subscription", "stream"}

VARIABLES
    handlers,       \* the registered handlers of each topic, in order
    nextHandlerID,
    kind,           \* what each handler is
    topic,          \* and what it was registered for
    queued,         \* tasks that wait for a slot
    entered,        \* tasks with a slot, before their check
    passed,         \* tasks past it: the handler runs
    handlerSem,     \* slots taken
    ended,          \* subscriptions cancelled and streams stopped
    cancelling,     \* subscriptions whose Cancel is yet to deregister them
    buffer,         \* how many events each stream's channel holds
    arrived,        \* how many events have arrived
    \* For the properties:
    withdrawn,      \* handlers that Off or their own Cancel deregistered
    late,           \* how many tasks of a handler were past its check after its end
    crowded,        \* streams that once had more on the way than their channel holds
    lost            \* streams that dropped an event

vars == <<handlers, nextHandlerID, kind, topic, queued, entered, passed, handlerSem, ended,
          cancelling, buffer, arrived, withdrawn, late, crowded, lost>>
registry == <<handlers, nextHandlerID, kind, topic, withdrawn>>
running == <<entered, passed, handlerSem, late>>
streaming == <<buffer, crowded, lost>>

Listed(t) == {handlers[t][n] : n \in DOMAIN handlers[t]}
Streams == {i \in Ids : kind[i] = "stream"}

\* The tasks that hold a slot.
Holding == entered \union passed

OnTheWay(i) == Cardinality({k \in queued \union Holding : k.to = i}) + buffer[i]

TypeOK ==
    /\ handlers \in [Topics -> Seq(Ids)]
    /\ nextHandlerID \in 0 .. MaxHandlers
    /\ kind \in [Ids -> Kinds]
    /\ topic \in [Ids -> Topics]
    /\ queued \subseteq Tasks /\ entered \subseteq Tasks /\ passed \subseteq Tasks
    /\ handlerSem \in 0 .. MaxConcurrentHandlers
    /\ ended \subseteq Ids /\ cancelling \subseteq ended
    /\ buffer \in [Ids -> 0 .. BufferSize]
    /\ arrived \in 0 .. MaxEvents
    /\ withdrawn \subseteq Ids
    /\ late \in [Ids -> Nat]
    /\ crowded \subseteq Ids /\ lost \subseteq Ids

Init ==
    /\ handlers = [t \in Topics |-> <<>>]
    /\ nextHandlerID = 0
    /\ kind = [i \in Ids |-> "none"]
    /\ topic = [i \in Ids |-> Any]
    /\ queued = {} /\ entered = {} /\ passed = {}
    /\ handlerSem = 0
    /\ ended = {} /\ cancelling = {}
    /\ buffer = [i \in Ids |-> 0]
    /\ arrived = 0
    /\ withdrawn = {}
    /\ late = [i \in Ids |-> 0]
    /\ crowded = {} /\ lost = {}

----
\* registerHandler, for On and OnAll (plain), NewSubscription and NewStream.
Register(t, what) ==
    /\ nextHandlerID < MaxHandlers
    /\ nextHandlerID' = nextHandlerID + 1
    /\ handlers' = [handlers EXCEPT ![t] = Append(@, nextHandlerID')]
    /\ kind' = [kind EXCEPT ![nextHandlerID'] = what]
    /\ topic' = [topic EXCEPT ![nextHandlerID'] = t]
    /\ UNCHANGED <<queued, running, ended, cancelling, streaming, arrived, withdrawn>>

On == \E t \in Topics : Register(t, "plain")
NewSubscription == \E t \in Topics : Register(t, "subscription")
NewStream == Register(Any, "stream")

\* Off forgets every handler of the topic, subscriptions and, under "*", streams
\* included. Tasks that were dispatched before go on.
Off(t) ==
    /\ handlers' = [handlers EXCEPT ![t] = <<>>]
    /\ withdrawn' = withdrawn \union Listed(t)
    /\ UNCHANGED <<nextHandlerID, kind, topic, queued, running, ended, cancelling, streaming,
                   arrived>>

\* Cancel, first its context and then, in RemoveHandler, its registration.
Cancel(i) ==
    /\ kind[i] = "subscription"
    /\ i \notin cancelling
    /\ ended' = ended \union {i}
    /\ cancelling' = cancelling \union {i}
    /\ UNCHANGED <<registry, queued, running, streaming, arrived>>

\* A plausible slip: the entry is looked for by its place.
WithoutFirst(list, i) == IF list = <<>> THEN list ELSE Tail(list)

Place(list, i) == CHOOSE n \in DOMAIN list : list[n] = i

Without(list, i) ==
    IF \E n \in DOMAIN list : list[n] = i
    THEN [n \in 1 .. Len(list) - 1 |-> IF n < Place(list, i) THEN list[n] ELSE list[n + 1]]
    ELSE list

\* Nothing is left to do when Off was faster, or an earlier Cancel.
RemoveHandler(i) ==
    /\ i \in cancelling
    /\ handlers' = [handlers EXCEPT ![topic[i]] = Without(@, i)]
    /\ cancelling' = cancelling \ {i}
    /\ withdrawn' = withdrawn \union {i}
    /\ UNCHANGED <<nextHandlerID, kind, topic, queued, running, ended, streaming, arrived>>

\* Stop closes stopChan; the stream's handler stays registered.
Stop(i) ==
    /\ kind[i] = "stream"
    /\ i \notin ended
    /\ ended' = ended \union {i}
    /\ UNCHANGED <<registry, queued, running, cancelling, streaming, arrived>>

\* The user takes an event from Events().
Take(i) ==
    /\ buffer[i] > 0
    /\ buffer' = [buffer EXCEPT ![i] = @ - 1]
    /\ UNCHANGED <<registry, queued, running, ended, cancelling, arrived, crowded, lost>>

----
\* handleMessage, under the read lock: one goroutine for each handler of the
\* event's type and each wildcard handler.
Message(t) ==
    /\ arrived < MaxEvents
    /\ arrived' = arrived + 1
    /\ queued' = queued \union [to : Listed(t) \union Listed(Any), event : {arrived'}]
    /\ UNCHANGED <<registry, running, ended, cancelling, buffer, lost>>
    /\ crowded' = crowded \union {i \in Streams : OnTheWay(i)' > BufferSize}

\* A plausible slip: the semaphore has room for one more.
SlotOffByOne == handlerSem <= MaxConcurrentHandlers

SlotFree == handlerSem < MaxConcurrentHandlers

\* The send on handlerSem succeeds. A plain handler checks nothing.
Enter(k) ==
    /\ k \in queued
    /\ SlotFree
    /\ handlerSem' = handlerSem + 1
    /\ queued' = queued \ {k}
    /\ IF kind[k.to] = "plain"
       THEN passed' = passed \union {k} /\ UNCHANGED entered
       ELSE entered' = entered \union {k} /\ UNCHANGED passed
    /\ UNCHANGED <<registry, ended, cancelling, streaming, arrived, late>>

\* A plausible slip: only the second select of a stream looks at stopChan.
OverForSubscription(i) == i \in ended /\ kind[i] = "subscription"

\* The check of ctx.Done or of stopChan.
Over(i) == i \in ended

Check(k) ==
    /\ k \in entered
    /\ ~Over(k.to)
    /\ entered' = entered \ {k}
    /\ passed' = passed \union {k}
    /\ UNCHANGED <<registry, queued, handlerSem, ended, cancelling, streaming, arrived, late>>

\* A plausible slip: a goroutine that has nothing to do keeps its slot.
RefuseAndKeep(k) ==
    /\ k \in entered
    /\ Over(k.to)
    /\ entered' = entered \ {k}
    /\ UNCHANGED <<registry, queued, passed, handlerSem, ended, cancelling, streaming, arrived,
                   late>>

Refuse(k) ==
    /\ k \in entered
    /\ Over(k.to)
    /\ entered' = entered \ {k}
    /\ handlerSem' = handlerSem - 1
    /\ UNCHANGED <<registry, queued, passed, ended, cancelling, streaming, arrived, late>>

\* The handler returns and its slot is free.
Finish(k) ==
    /\ k \in passed
    /\ passed' = passed \ {k}
    /\ handlerSem' = handlerSem - 1
    /\ late' = IF k.to \in ended THEN [late EXCEPT ![k.to] = @ + 1] ELSE late
    /\ UNCHANGED <<registry, queued, entered, ended, cancelling, arrived, crowded>>

\* The user's handler ends.
Handle(k) ==
    /\ kind[k.to] # "stream"
    /\ Finish(k)
    /\ UNCHANGED <<buffer, lost>>

\* A plausible slip: a channel of one event less.
RoomForOneMore(i) == buffer[i] + 1 < BufferSize

Room(i) == buffer[i] < BufferSize

\* The select that sends to the stream's channel. With room, and stopChan closed
\* in the meantime, either case is taken.
Deliver(k) ==
    /\ kind[k.to] = "stream"
    /\ Room(k.to)
    /\ Finish(k)
    /\ buffer' = [buffer EXCEPT ![k.to] = @ + 1]
    /\ UNCHANGED lost

Discard(k) ==
    /\ kind[k.to] = "stream"
    /\ k.to \in ended
    /\ Finish(k)
    /\ UNCHANGED <<buffer, lost>>

Drop(k) ==
    /\ kind[k.to] = "stream"
    /\ ~Room(k.to)
    /\ k.to \notin ended
    /\ Finish(k)
    /\ lost' = lost \union {k.to}
    /\ UNCHANGED buffer

----
User ==
    \/ On
    \/ NewSubscription
    \/ NewStream
    \/ \E t \in Topics : Off(t)
    \/ \E i \in Ids : Cancel(i) \/ Stop(i) \/ Take(i)

Step(k) ==
    \/ Enter(k)
    \/ Check(k)
    \/ Refuse(k)
    \/ Handle(k)
    \/ Deliver(k)
    \/ Discard(k)
    \/ Drop(k)

Next ==
    \/ User
    \/ \E i \in Ids : RemoveHandler(i)
    \/ \E t \in EventTypes : Message(t)
    \/ \E k \in Tasks : Step(k)

\* Goroutines are scheduled and handlers return. The user need not do anything,
\* not even empty a stream.
Spec ==
    /\ Init
    /\ [][Next]_vars
    /\ \A i \in Ids : WF_vars(RemoveHandler(i))
    /\ \A k \in Tasks : WF_vars(Step(k))

----
\* Never more than MaxConcurrentHandlers handlers run, and every slot taken has
\* its goroutine, whichever way handlers end (websocket.go:781-788).
HandlersBounded ==
    /\ handlerSem = Cardinality(Holding)
    /\ Cardinality(Holding) <= MaxConcurrentHandlers

\* However many events were queued for a subscription or stream when it was
\* cancelled or stopped, no more than MaxConcurrentHandlers of them still reach
\* its handler or channel (websocket.go:550-562, 500-507).
FewAfterEnd == \A i \in ended : late[i] <= MaxConcurrentHandlers

\* A handler stays where it was registered, behind those registered before it,
\* until Off or its own Cancel: nobody else's Cancel touches it, in any order of
\* registrations, cancellations and Offs (websocket.go:587-599).
StaysRegistered ==
    \A t \in Topics :
        /\ \A m, n \in DOMAIN handlers[t] : m < n => handlers[t][m] < handlers[t][n]
        /\ Listed(t) = {i \in 1 .. nextHandlerID : topic[i] = t /\ i \notin withdrawn}

\* A stream loses no event as long as its user keeps up: while no more events
\* were ever on their way to the user than its channel holds (websocket.go:557-562).
NothingLost == lost \subseteq crowded

\* Every event reaches every handler that was registered when it arrived, or is
\* refused because the handler's subscription or stream is over; no handler that
\* comes or goes and no full stream holds up the others.
EventsHandled == \A k \in Tasks : k \in queued ~> k \notin queued \union Holding
====
