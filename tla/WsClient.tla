---- MODULE WsClient ----
(*****************************************************************************)
(* pkg/websocket Client: the life of its connections. Connect dials while it *)
(* holds c.mu and starts a read loop and a ping loop; a read loop that ends  *)
(* gives the connection up and may start a reconnect loop, which calls       *)
(* Connect again; Disconnect closes closeChan, which all of them watch. A    *)
(* connection, its read loop, its ping loop, its ticker and the reconnect    *)
(* loop started when it is lost share one number.                            *)
(*                                                                           *)
(* c.mu is held over several steps only while a dial runs, so MuFree is all  *)
(* there is to it. Disconnect sets c.reconnect and closes closeChan in one   *)
(* critical section and nothing undoes either: "stopped" stands for both.    *)
(* PingInterval is positive. Event dispatch, Send and the error channel do   *)
(* not touch this state; a failed SetReadDeadline is one way a read fails.   *)
(*****************************************************************************)
EXTENDS Integers, FiniteSets

CONSTANTS
    Callers,              \* goroutines of the program that call Connect
    MaxReconnectAttempts, \* Config.MaxReconnectAttempts
    MaxConns,             \* bound: connections dialed
    MaxCalls              \* bound: calls of Connect and ConnectWithRetry

ASSUME AttemptsAssumption == MaxReconnectAttempts \in Nat
ASSUME BoundsAssumption == MaxConns \in Nat /\ MaxCalls \in Nat

VARIABLES
    conn,       \* c.conn, 0 for nil
    closed,     \* c.closed
    stopped,    \* closeChan is closed and c.reconnect is false
    pingTicker, \* c.pingTicker, 0 for nil
    ticking,    \* tickers that have not been stopped
    dialed,     \* connections made so far
    open,       \* connections whose socket was not closed here
    closing,    \* the connection Disconnect is closing outside c.mu, or 0
    born,       \* who dialed: a caller, or a reconnect loop
    reader,     \* read loops
    readsFrom,  \* the connection each read loop captured
    pinger,     \* ping loops
    ticker,     \* the ticker each ping loop captured
    loop,       \* reconnect loops
    tries,      \* attempts of each reconnect loop
    caller,     \* calls of Connect and ConnectWithRetry
    left,       \* attempts left to each call
    calls,      \* calls made so far
    cancelled,  \* the context of the callers was cancelled
    panic,      \* a panic nobody recovers
    \* For the properties:
    unpinged    \* connections a ping failed on

held == <<conn, closed, stopped, pingTicker, dialed, open, closing, born>>
readers == <<reader, readsFrom>>
pingers == <<pinger, ticker, ticking, unpinged>>
loops == <<loop, tries>>
callers == <<caller, left, calls>>
vars == <<held, readers, pingers, loops, callers, cancelled, panic>>

Conns == 1 .. MaxConns
Made == 1 .. dialed

HeldOK ==
    /\ {conn, pingTicker, dialed, closing} \subseteq 0 .. MaxConns
    /\ closed \in BOOLEAN /\ stopped \in BOOLEAN
    /\ open \subseteq Conns
    /\ born \in [Conns -> {"none", "caller", "loop"}]

ReadersOK ==
    /\ reader \in [Conns -> {"none", "start", "check", "read", "leave", "done"}]
    /\ readsFrom \in [Conns -> 0 .. MaxConns]

PingersOK ==
    /\ pinger \in [Conns -> {"none", "start", "tick", "done"}]
    /\ ticker \in [Conns -> 0 .. MaxConns]
    /\ ticking \subseteq Conns /\ unpinged \subseteq Conns

LoopsOK ==
    /\ loop \in [Conns -> {"none", "wait", "call", "dial", "done"}]
    /\ tries \in [Conns -> 0 .. MaxReconnectAttempts]

CallersOK ==
    /\ caller \in [Callers -> {"idle", "call", "dial", "wait"}]
    /\ left \in [Callers -> Nat]
    /\ calls \in 0 .. MaxCalls

EndsOK ==
    /\ cancelled \in BOOLEAN
    /\ panic \in {"none", "nil ticker", "close of closed channel"}

TypeOK == HeldOK /\ ReadersOK /\ PingersOK /\ LoopsOK /\ CallersOK /\ EndsOK

Init ==
    /\ conn = 0
    /\ closed = FALSE
    /\ stopped = FALSE
    /\ pingTicker = 0
    /\ ticking = {}
    /\ dialed = 0
    /\ open = {}
    /\ closing = 0
    /\ born = [c \in Conns |-> "none"]
    /\ reader = [c \in Conns |-> "none"]
    /\ readsFrom = [c \in Conns |-> 0]
    /\ pinger = [c \in Conns |-> "none"]
    /\ ticker = [c \in Conns |-> 0]
    /\ loop = [c \in Conns |-> "none"]
    /\ tries = [c \in Conns |-> 0]
    /\ caller = [p \in Callers |-> "idle"]
    /\ left = [p \in Callers |-> 0]
    /\ calls = 0
    /\ cancelled = FALSE
    /\ panic = "none"
    /\ unpinged = {}

MuFree ==
    /\ \A p \in Callers : caller[p] # "dial"
    /\ \A c \in Conns : loop[c] # "dial"

----
(* Connect, once its dial has succeeded.                                     *)

\* A plausible slip: a ticker that is there is used again.
ConnectedOldTicker(by) ==
    LET c == dialed + 1
    IN  /\ c \in Conns
        /\ conn' = c
        /\ closed' = FALSE
        /\ pingTicker' = IF pingTicker = 0 THEN c ELSE pingTicker
        /\ ticking' = IF pingTicker = 0 THEN ticking \union {c} ELSE ticking
        /\ dialed' = c
        /\ open' = open \union {c}
        /\ born' = [born EXCEPT ![c] = by]
        /\ reader' = [reader EXCEPT ![c] = "start"]
        /\ pinger' = [pinger EXCEPT ![c] = "start"]
        /\ UNCHANGED <<stopped, closing, readsFrom, ticker, unpinged>>

Connected(by) ==
    LET c == dialed + 1
    IN  /\ c \in Conns
        /\ conn' = c
        /\ closed' = FALSE
        /\ pingTicker' = c
        /\ ticking' = ticking \union {c}
        /\ dialed' = c
        /\ open' = open \union {c}
        /\ born' = [born EXCEPT ![c] = by]
        /\ reader' = [reader EXCEPT ![c] = "start"]
        /\ pinger' = [pinger EXCEPT ![c] = "start"]
        /\ UNCHANGED <<stopped, closing, readsFrom, ticker, unpinged>>

----
(* The program's calls. All its Connects run under one context.              *)

\* Connect makes one attempt, ConnectWithRetry at least one.
Attempts == {1, IF MaxReconnectAttempts > 0 THEN MaxReconnectAttempts ELSE 1}

CallConnect(p) ==
    /\ caller[p] = "idle"
    /\ calls < MaxCalls
    /\ calls' = calls + 1
    /\ \E n \in Attempts : left' = [left EXCEPT ![p] = n]
    /\ caller' = [caller EXCEPT ![p] = "call"]
    /\ UNCHANGED <<held, readers, pingers, loops, cancelled, panic>>

AttemptFailed(p) ==
    /\ left' = [left EXCEPT ![p] = left[p] - 1]
    /\ caller' = [caller EXCEPT ![p] = IF left[p] > 1 THEN "wait" ELSE "idle"]
    /\ UNCHANGED <<held, readers, pingers, loops, calls, cancelled, panic>>

CallerEnters(p) ==
    /\ caller[p] = "call"
    /\ MuFree
    /\ conn = 0
    /\ caller' = [caller EXCEPT ![p] = "dial"]
    /\ UNCHANGED <<held, readers, pingers, loops, left, calls, cancelled, panic>>

CallerAlreadyConnected(p) ==
    /\ caller[p] = "call"
    /\ MuFree
    /\ conn # 0
    /\ AttemptFailed(p)

CallerConnected(p) ==
    /\ caller[p] = "dial"
    /\ ~cancelled
    /\ Connected("caller")
    /\ caller' = [caller EXCEPT ![p] = "idle"]
    /\ left' = [left EXCEPT ![p] = 0]
    /\ UNCHANGED <<loops, calls, cancelled, panic>>

CallerDialFails(p) ==
    /\ caller[p] = "dial"
    /\ AttemptFailed(p)

\* Between two attempts ConnectWithRetry looks at its context only: it does
\* not see a Disconnect.
CallerTriesAgain(p) ==
    /\ caller[p] = "wait"
    /\ caller' = [caller EXCEPT ![p] = "call"]
    /\ UNCHANGED <<held, readers, pingers, loops, left, calls, cancelled, panic>>

CallerGivesUp(p) ==
    /\ caller[p] = "wait"
    /\ cancelled
    /\ caller' = [caller EXCEPT ![p] = "idle"]
    /\ left' = [left EXCEPT ![p] = 0]
    /\ UNCHANGED <<held, readers, pingers, loops, calls, cancelled, panic>>

CancelContext ==
    /\ ~cancelled
    /\ cancelled' = TRUE
    /\ UNCHANGED <<held, readers, pingers, loops, callers, panic>>

\* Disconnect up to the unlock. With c.closed set it does nothing.
Disconnect ==
    /\ MuFree
    /\ ~closed
    /\ ~stopped
    /\ closed' = TRUE
    /\ stopped' = TRUE
    /\ ticking' = ticking \ {pingTicker}
    /\ pingTicker' = 0
    /\ conn' = 0
    /\ closing' = conn
    /\ UNCHANGED <<dialed, open, born, readers, pinger, ticker, unpinged, loops, callers,
                   cancelled, panic>>

\* A Connect since the last Disconnect has reset c.closed, but not closeChan.
DisconnectPanics ==
    /\ MuFree
    /\ ~closed
    /\ stopped
    /\ panic' = "close of closed channel"
    /\ UNCHANGED <<held, readers, pingers, loops, callers, cancelled>>

\* The rest of Disconnect, after the close frame.
CloseConn ==
    /\ closing # 0
    /\ open' = open \ {closing}
    /\ closing' = 0
    /\ UNCHANGED <<conn, closed, stopped, pingTicker, dialed, born, readers, pingers, loops,
                   callers, cancelled, panic>>

----
(* The read loop.                                                            *)

ReaderUnchanged == UNCHANGED <<held, pingers, loops, callers, cancelled, panic>>

ReadStarts(c) ==
    /\ reader[c] = "start"
    /\ MuFree
    /\ readsFrom' = [readsFrom EXCEPT ![c] = conn]
    /\ reader' = [reader EXCEPT ![c] = "check"]
    /\ ReaderUnchanged

\* A plausible slip: closeChan is not looked at before the read.
ReadUnchecked(c) ==
    /\ reader[c] = "check"
    /\ reader' = [reader EXCEPT ![c] = "read"]
    /\ UNCHANGED readsFrom
    /\ ReaderUnchanged

ReadChecks(c) ==
    /\ reader[c] = "check"
    /\ reader' = [reader EXCEPT ![c] = IF stopped THEN "leave" ELSE "read"]
    /\ UNCHANGED readsFrom
    /\ ReaderUnchanged

\* A message: handleMessage takes c.mu to look up its handlers.
ReadReturns(c) ==
    /\ reader[c] = "read"
    /\ MuFree
    /\ reader' = [reader EXCEPT ![c] = "check"]
    /\ UNCHANGED readsFrom
    /\ ReaderUnchanged

\* The peer closed or dropped the connection, the read deadline passed or could
\* not be set, or the socket was closed here.
ReadFails(c) ==
    /\ reader[c] = "read"
    /\ reader' = [reader EXCEPT ![c] = "leave"]
    /\ UNCHANGED readsFrom
    /\ ReaderUnchanged

\* A plausible slip: c.conn stays set until the reconnect loop replaces it.
HandleDisconnectKeepsConn(c) ==
    /\ reader[c] = "leave"
    /\ MuFree
    /\ reader' = [reader EXCEPT ![c] = "done"]
    /\ readsFrom' = [readsFrom EXCEPT ![c] = 0]
    /\ loop' = [loop EXCEPT ![c] = IF conn # 0 /\ ~stopped /\ ~closed THEN "wait" ELSE "none"]
    /\ UNCHANGED <<held, tries, pingers, callers, cancelled, panic>>

HandleDisconnect(c) ==
    /\ reader[c] = "leave"
    /\ MuFree
    /\ reader' = [reader EXCEPT ![c] = "done"]
    /\ readsFrom' = [readsFrom EXCEPT ![c] = 0]
    /\ conn' = 0
    /\ loop' = [loop EXCEPT ![c] = IF conn # 0 /\ ~stopped /\ ~closed THEN "wait" ELSE "none"]
    /\ UNCHANGED <<closed, stopped, pingTicker, dialed, open, closing, born, tries,
                   pingers, callers, cancelled, panic>>

----
(* The reconnect loop.                                                       *)

LoopUnchanged == UNCHANGED <<held, readers, pingers, callers, cancelled, panic>>

\* closeChan is closed, or the attempts are used up. (Only the property needs
\* the attempts of a loop that has ended.)
LoopStops(c) ==
    /\ loop[c] = "wait"
    /\ stopped \/ tries[c] = MaxReconnectAttempts
    /\ loop' = [loop EXCEPT ![c] = "done"]
    /\ tries' = [tries EXCEPT ![c] = IF stopped THEN 0 ELSE tries[c]]
    /\ LoopUnchanged

LoopTimer(c) ==
    /\ loop[c] = "wait"
    /\ tries[c] < MaxReconnectAttempts
    /\ tries' = [tries EXCEPT ![c] = tries[c] + 1]
    /\ loop' = [loop EXCEPT ![c] = "call"]
    /\ LoopUnchanged

LoopEnters(c) ==
    /\ loop[c] = "call"
    /\ MuFree
    /\ conn = 0
    /\ loop' = [loop EXCEPT ![c] = "dial"]
    /\ UNCHANGED tries
    /\ LoopUnchanged

LoopAlreadyConnected(c) ==
    /\ loop[c] = "call"
    /\ MuFree
    /\ conn # 0
    /\ loop' = [loop EXCEPT ![c] = "wait"]
    /\ UNCHANGED tries
    /\ LoopUnchanged

\* The dial context is derived from the read loop's. A reconnect loop cancels
\* its dial context as soon as Connect is back, and hands it to the next read
\* loop: only the loop of a connection that a caller dialed has a live one.
ContextLive(c) == ~cancelled /\ born[c] = "caller"

LoopConnected(c) ==
    /\ loop[c] = "dial"
    /\ ContextLive(c)
    /\ Connected("loop")
    /\ loop' = [loop EXCEPT ![c] = "done"]
    /\ tries' = [tries EXCEPT ![c] = 0]
    /\ UNCHANGED <<callers, cancelled, panic>>

\* A plausible slip: the loop returns at the first error.
LoopDialFailsForGood(c) ==
    /\ loop[c] = "dial"
    /\ loop' = [loop EXCEPT ![c] = "done"]
    /\ UNCHANGED tries
    /\ LoopUnchanged

LoopDialFails(c) ==
    /\ loop[c] = "dial"
    /\ loop' = [loop EXCEPT ![c] = "wait"]
    /\ UNCHANGED tries
    /\ LoopUnchanged

----
(* The ping loop.                                                            *)

PingStarts(c) ==
    /\ pinger[c] = "start"
    /\ MuFree
    /\ pingTicker # 0
    /\ ticker' = [ticker EXCEPT ![c] = pingTicker]
    /\ pinger' = [pinger EXCEPT ![c] = "tick"]
    /\ UNCHANGED <<ticking, unpinged, held, readers, loops, callers, cancelled, panic>>

\* The ticker it captures is nil: so is the ticker.C it selects on.
PingPanics(c) ==
    /\ pinger[c] = "start"
    /\ MuFree
    /\ pingTicker = 0
    /\ panic' = "nil ticker"
    /\ UNCHANGED <<held, readers, pingers, loops, callers, cancelled>>

PingEnds(c) ==
    /\ pinger' = [pinger EXCEPT ![c] = "done"]
    /\ ticking' = ticking \ {ticker[c]}
    /\ ticker' = [ticker EXCEPT ![c] = 0]
    /\ UNCHANGED <<held, readers, loops, callers, cancelled, panic>>

\* A plausible slip: closeChan is looked at after a tick only.
PingStopsAtTick(c) ==
    /\ pinger[c] = "tick"
    /\ ticker[c] \in ticking
    /\ stopped
    /\ PingEnds(c)
    /\ UNCHANGED unpinged

PingStops(c) ==
    /\ pinger[c] = "tick"
    /\ stopped
    /\ PingEnds(c)
    /\ UNCHANGED unpinged

\* A tick that finds no connection, or one a ping cannot be written to; the
\* others change nothing.
PingFails(c) ==
    /\ pinger[c] = "tick"
    /\ ticker[c] \in ticking
    /\ MuFree
    /\ PingEnds(c)
    /\ unpinged' = IF conn = 0 THEN unpinged ELSE unpinged \union {conn}

----
Caller(p) ==
    \/ CallConnect(p)
    \/ CallerEnters(p)
    \/ CallerAlreadyConnected(p)
    \/ CallerConnected(p)
    \/ CallerDialFails(p)
    \/ CallerTriesAgain(p)
    \/ CallerGivesUp(p)

Reconnect(c) ==
    \/ LoopStops(c)
    \/ LoopTimer(c)
    \/ LoopEnters(c)
    \/ LoopAlreadyConnected(c)
    \/ LoopConnected(c)
    \/ LoopDialFails(c)

Reader(c) ==
    \/ ReadStarts(c)
    \/ ReadChecks(c)
    \/ HandleDisconnect(c)

Pinger(c) ==
    \/ PingStarts(c)
    \/ PingPanics(c)
    \/ PingStops(c)

Next ==
    /\ panic = "none"
    /\ \/ \E p \in Callers : Caller(p)
       \/ CancelContext
       \/ Disconnect
       \/ DisconnectPanics
       \/ CloseConn
       \/ \E c \in Conns :
            \/ Reader(c)
            \/ ReadReturns(c)
            \/ ReadFails(c)
            \/ Reconnect(c)
            \/ Pinger(c)
            \/ PingFails(c)

\* Goroutines are scheduled, timers fire and dials end: by the handshake
\* timeout, or by the context. A read of a socket closed here fails. Nothing
\* obliges the program to call or the peer to answer, accept or stay.
Running(A) == panic = "none" /\ A

Fairness ==
    /\ \A p \in Callers :
        WF_vars(Running(CallerConnected(p) \/ CallerDialFails(p)))
    /\ \A c \in Conns :
        /\ WF_vars(Running(Reader(c)))
        /\ WF_vars(Running(readsFrom[c] \notin open /\ ReadFails(c)))
        /\ WF_vars(Running(Reconnect(c)))
        /\ WF_vars(Running(Pinger(c)))
    /\ WF_vars(Running(CloseConn))

Spec == Init /\ [][Next]_vars /\ Fairness

----
\* A read loop only ever reads the connection it was started for, although it
\* takes c.conn when it gets to run (websocket.go:602-606), and until Disconnect
\* the connection in use is the one whose read loop has not finished: gorilla
\* allows one reader, and a connection without one is never given up.
ReaderOfConn ==
    \A c \in Made :
        /\ reader[c] = "read" => readsFrom[c] = c
        /\ ~stopped => (conn = c <=> reader[c] # "done")

Rejoining == {c \in Conns : loop[c] \in {"wait", "call", "dial"}}

\* However drops, reconnects, calls of Connect and Disconnect interleave, each
\* successful Connect of the program accounts for one connection or one
\* reconnect loop, never both and never two (websocket.go:790-802): reconnect
\* loops do not multiply with the drops.
NoRivalReconnect ==
    Cardinality(Rejoining) + (IF conn = 0 THEN 0 ELSE 1)
        <= Cardinality({c \in Conns : born[c] = "caller"})

\* Until Disconnect the connection in use has a ping loop with a ticker that
\* runs, unless a ping on it failed, although ping loops of lost connections may
\* still be there and each stops the ticker it captured (websocket.go:699-729).
Pinged ==
    ~stopped /\ conn \notin unpinged \union {0} =>
        \/ pinger[conn] = "start" /\ pingTicker \in ticking
        \/ pinger[conn] = "tick" /\ ticker[conn] \in ticking

Quiet ==
    /\ conn = 0
    /\ closing = 0
    /\ \A c \in Made :
        reader[c] = "done" /\ pinger[c] = "done" /\ loop[c] \in {"none", "done"}

\* After Disconnect every goroutine of the client ends and no connection is
\* left in use, those included that a dial already under way still makes, or a
\* panic has ended the program.
StopsEverything == stopped ~> (Quiet \/ panic # "none")

\* A lost connection is followed by another, by as many attempts as are
\* configured, by Disconnect, or by a panic.
LossIsAnswered ==
    \A c \in Conns :
        reader[c] = "leave" ~>
            \/ conn \notin {0, c}
            \/ tries[c] = MaxReconnectAttempts
            \/ stopped
            \/ panic # "none"

\* README.md:107: "Supports reconnection". Unless the program cancels the
\* context it connected with, an attempt to reconnect can succeed.
AttemptsCanSucceed == \A c \in Conns : loop[c] = "dial" => cancelled \/ ContextLive(c)
====
