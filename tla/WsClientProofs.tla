---- MODULE WsClientProofs ----
(*****************************************************************************)
(* What WsClient guarantees for every number of callers, connections, calls  *)
(* and attempts: types, one read loop for the connection in use, no rival    *)
(* reconnect loops, and pings on the connection in use.                      *)
(*****************************************************************************)
EXTENDS WsClient, FiniteSetTheorems, TLAPS

USE AttemptsAssumption, BoundsAssumption

----
\* A call under way has attempts left.
LeftInv == \A p \in Callers : caller[p] # "idle" => left[p] > 0

\* Numbers above dialed are not in use, those up to it are.
NumberInv ==
    /\ conn <= dialed
    /\ \A c \in Conns :
        /\ c <= dialed <=> reader[c] # "none"
        /\ c > dialed => loop[c] = "none" /\ born[c] = "none"

\* A dial runs with c.mu held and no connection in use, alone.
DialInv ==
    /\ \A p \in Callers : caller[p] = "dial" => conn = 0
    /\ \A c \in Conns : loop[c] = "dial" => conn = 0
    /\ \A p, q \in Callers : caller[p] = "dial" /\ caller[q] = "dial" => p = q
    /\ \A c, d \in Conns : loop[c] = "dial" /\ loop[d] = "dial" => c = d
    /\ \A p \in Callers, c \in Conns : ~(caller[p] = "dial" /\ loop[c] = "dial")

\* What a read loop captured is its own connection, or Disconnect came first
\* and the loop's next look at closeChan ends it.
CaptureInv == \A c \in Conns : reader[c] = "check" => stopped \/ readsFrom[c] = c

ReaderInv == NumberInv /\ DialInv /\ CaptureInv /\ ReaderOfConn

----
LEMMA TypeInit == Init => TypeOK /\ LeftInv
<1>. SUFFICES ASSUME Init PROVE TypeOK /\ LeftInv
  OBVIOUS
<1>1. HeldOK
  <2>1. {conn, pingTicker, dialed, closing} \subseteq 0 .. MaxConns
    BY DEF Init
  <2>2. closed \in BOOLEAN /\ stopped \in BOOLEAN
    BY DEF Init
  <2>3. open \subseteq Conns /\ born \in [Conns -> {"none", "caller", "loop"}]
    BY DEF Init, Conns
  <2>. QED  BY <2>1, <2>2, <2>3 DEF HeldOK
<1>2. ReadersOK /\ PingersOK
  BY DEF Init, ReadersOK, PingersOK, Conns
<1>3. LoopsOK
  BY DEF Init, LoopsOK, Conns
<1>4. CallersOK /\ LeftInv
  BY DEF Init, CallersOK, LeftInv
<1>5. EndsOK
  BY DEF Init, EndsOK
<1>. QED  BY <1>1, <1>2, <1>3, <1>4, <1>5 DEF TypeOK

\* Each part of the state keeps its type when nothing touches it.
LEMMA HeldKept == ASSUME HeldOK, UNCHANGED held PROVE HeldOK'
BY DEF HeldOK, held

LEMMA ReadersKept == ASSUME ReadersOK, UNCHANGED readers PROVE ReadersOK'
BY DEF ReadersOK, readers

LEMMA PingersKept == ASSUME PingersOK, UNCHANGED pingers PROVE PingersOK'
BY DEF PingersOK, pingers

LEMMA LoopsKept == ASSUME LoopsOK, UNCHANGED loops PROVE LoopsOK'
BY DEF LoopsOK, loops

LEMMA CallersKept == ASSUME CallersOK, LeftInv, UNCHANGED callers PROVE CallersOK' /\ LeftInv'
BY DEF CallersOK, LeftInv, callers

LEMMA EndsKept == ASSUME EndsOK, UNCHANGED <<cancelled, panic>> PROVE EndsOK'
BY DEF EndsOK

LEMMA ConnectedType ==
    ASSUME TypeOK, NEW by \in {"caller", "loop"}, Connected(by)
    PROVE  HeldOK' /\ ReadersOK' /\ PingersOK'
<1>1. HeldOK'
  <2>. USE DEF TypeOK, HeldOK, Connected
  <2>1. {conn', pingTicker', dialed', closing'} \subseteq 0 .. MaxConns
    BY DEF Conns
  <2>2. closed' \in BOOLEAN /\ stopped' \in BOOLEAN
    OBVIOUS
  <2>3. open' \subseteq Conns
    OBVIOUS
  <2>4. born' \in [Conns -> {"none", "caller", "loop"}]
    OBVIOUS
  <2>. QED  BY <2>1, <2>2, <2>3, <2>4
<1>2. ReadersOK'
  BY DEF TypeOK, ReadersOK, Connected, Conns
<1>3. PingersOK'
  BY DEF TypeOK, PingersOK, Connected, Conns
<1>. QED  BY <1>1, <1>2, <1>3

LEMMA CallerType ==
    ASSUME TypeOK, LeftInv, NEW p \in Callers, Caller(p)
    PROVE  TypeOK' /\ LeftInv'
<1>. USE DEF TypeOK
<1>1. CASE CallConnect(p)
  <2>1. \A n \in Attempts : n \in Nat /\ n > 0
    BY DEF Attempts
  <2>2. CallersOK' /\ LeftInv'
    BY <1>1, <2>1 DEF CallConnect, CallersOK, LeftInv
  <2>. QED  BY <1>1, <2>2, HeldKept, ReadersKept, PingersKept, LoopsKept, EndsKept DEF CallConnect
<1>2. CASE CallerEnters(p)
  <2>1. CallersOK' /\ LeftInv'
    BY <1>2 DEF CallerEnters, CallersOK, LeftInv
  <2>. QED  BY <1>2, <2>1, HeldKept, ReadersKept, PingersKept, LoopsKept, EndsKept DEF CallerEnters
<1>3. CASE CallerAlreadyConnected(p) \/ CallerDialFails(p)
  <2>1. left[p] \in Nat /\ left[p] > 0 /\ AttemptFailed(p)
    BY <1>3 DEF CallerAlreadyConnected, CallerDialFails, CallersOK, LeftInv
  <2>2. CallersOK' /\ LeftInv'
    BY <2>1 DEF AttemptFailed, CallersOK, LeftInv
  <2>. QED  BY <2>1, <2>2, HeldKept, ReadersKept, PingersKept, LoopsKept, EndsKept DEF AttemptFailed
<1>4. CASE CallerConnected(p)
  <2>1. Connected("caller") /\ UNCHANGED loops /\ UNCHANGED <<cancelled, panic>>
    BY <1>4 DEF CallerConnected
  <2>2. CallersOK' /\ LeftInv'
    BY <1>4 DEF CallerConnected, CallersOK, LeftInv
  <2>. QED  BY <2>1, <2>2, ConnectedType, LoopsKept, EndsKept
<1>5. CASE CallerTriesAgain(p) \/ CallerGivesUp(p)
  <2>1. CallersOK' /\ LeftInv'
    BY <1>5 DEF CallerTriesAgain, CallerGivesUp, CallersOK, LeftInv
  <2>. QED  BY <1>5, <2>1, HeldKept, ReadersKept, PingersKept, LoopsKept, EndsKept
            DEF CallerTriesAgain, CallerGivesUp
<1>. QED  BY <1>1, <1>2, <1>3, <1>4, <1>5 DEF Caller

LEMMA ReaderType ==
    ASSUME TypeOK, LeftInv, NEW c \in Conns, Reader(c) \/ ReadReturns(c) \/ ReadFails(c)
    PROVE  TypeOK' /\ LeftInv'
<1>. USE DEF TypeOK
<1>1. CASE ReadStarts(c) \/ ReadChecks(c) \/ ReadReturns(c) \/ ReadFails(c)
  <2>1. ReadersOK' /\ ReaderUnchanged
    BY <1>1 DEF ReadStarts, ReadChecks, ReadReturns, ReadFails, HeldOK, ReadersOK
  <2>. QED  BY <2>1, HeldKept, PingersKept, LoopsKept, CallersKept, EndsKept DEF ReaderUnchanged
<1>2. CASE HandleDisconnect(c)
  <2>1. HeldOK'
    BY <1>2 DEF HandleDisconnect, HeldOK
  <2>2. ReadersOK' /\ LoopsOK'
    BY <1>2 DEF HandleDisconnect, ReadersOK, LoopsOK
  <2>. QED  BY <1>2, <2>1, <2>2, PingersKept, CallersKept, EndsKept DEF HandleDisconnect
<1>. QED  BY <1>1, <1>2 DEF Reader

LEMMA ReconnectType ==
    ASSUME TypeOK, LeftInv, NEW c \in Conns, Reconnect(c)
    PROVE  TypeOK' /\ LeftInv'
<1>. USE DEF TypeOK
<1>1. CASE LoopConnected(c)
  <2>1. Connected("loop") /\ UNCHANGED callers /\ UNCHANGED <<cancelled, panic>>
    BY <1>1 DEF LoopConnected
  <2>2. LoopsOK'
    BY <1>1 DEF LoopConnected, LoopsOK
  <2>. QED  BY <2>1, <2>2, ConnectedType, CallersKept, EndsKept
<1>2. CASE LoopTimer(c) \/ LoopStops(c)
  <2>1. LoopsOK' /\ LoopUnchanged
    BY <1>2 DEF LoopTimer, LoopStops, LoopsOK
  <2>. QED  BY <2>1, HeldKept, ReadersKept, PingersKept, CallersKept, EndsKept DEF LoopUnchanged
<1>3. CASE LoopEnters(c) \/ LoopAlreadyConnected(c) \/ LoopDialFails(c)
  <2>1. LoopsOK' /\ LoopUnchanged
    BY <1>3 DEF LoopEnters, LoopAlreadyConnected, LoopDialFails, LoopsOK
  <2>. QED  BY <2>1, HeldKept, ReadersKept, PingersKept, CallersKept, EndsKept DEF LoopUnchanged
<1>. QED  BY <1>1, <1>2, <1>3 DEF Reconnect

LEMMA PingerType ==
    ASSUME TypeOK, LeftInv, NEW c \in Conns, Pinger(c) \/ PingFails(c)
    PROVE  TypeOK' /\ LeftInv'
<1>. USE DEF TypeOK
<1>1. CASE PingPanics(c)
  <2>1. EndsOK'
    BY <1>1 DEF PingPanics, EndsOK
  <2>. QED  BY <1>1, <2>1, HeldKept, ReadersKept, PingersKept, LoopsKept, CallersKept DEF PingPanics
<1>2. CASE PingStarts(c) \/ PingStops(c) \/ PingFails(c)
  <2>1. PingersOK'
    <3>1. CASE PingStarts(c)
      BY <3>1 DEF PingStarts, PingersOK, HeldOK
    <3>2. CASE PingStops(c)
      BY <3>2 DEF PingStops, PingEnds, PingersOK
    <3>3. CASE PingFails(c)
      <4>1. conn = 0 \/ conn \in Conns
        BY DEF HeldOK, Conns
      <4>. QED  BY <3>3, <4>1 DEF PingFails, PingEnds, PingersOK
    <3>. QED  BY <1>2, <3>1, <3>2, <3>3
  <2>2. UNCHANGED <<held, readers, loops, callers, cancelled, panic>>
    BY <1>2 DEF PingStarts, PingStops, PingFails, PingEnds
  <2>. QED  BY <2>1, <2>2, HeldKept, ReadersKept, LoopsKept, CallersKept, EndsKept
<1>. QED  BY <1>1, <1>2 DEF Pinger

LEMMA DisconnectType ==
    ASSUME TypeOK, LeftInv, Disconnect \/ DisconnectPanics \/ CloseConn \/ CancelContext
    PROVE  TypeOK' /\ LeftInv'
<1>. USE DEF TypeOK
<1>1. CASE Disconnect
  <2>1. HeldOK'
    BY <1>1 DEF Disconnect, HeldOK
  <2>2. PingersOK'
    BY <1>1 DEF Disconnect, PingersOK
  <2>. QED  BY <1>1, <2>1, <2>2, ReadersKept, LoopsKept, CallersKept, EndsKept DEF Disconnect
<1>2. CASE CloseConn
  <2>1. HeldOK'
    BY <1>2 DEF CloseConn, HeldOK
  <2>. QED  BY <1>2, <2>1, ReadersKept, PingersKept, LoopsKept, CallersKept, EndsKept DEF CloseConn
<1>3. CASE DisconnectPanics \/ CancelContext
  <2>1. EndsOK'
    BY <1>3 DEF DisconnectPanics, CancelContext, EndsOK
  <2>. QED  BY <1>3, <2>1, HeldKept, ReadersKept, PingersKept, LoopsKept, CallersKept
            DEF DisconnectPanics, CancelContext
<1>. QED  BY <1>1, <1>2, <1>3

LEMMA TypeStep == TypeOK /\ LeftInv /\ [Next]_vars => TypeOK' /\ LeftInv'
<1>. SUFFICES ASSUME TypeOK, LeftInv, [Next]_vars PROVE TypeOK' /\ LeftInv'
  OBVIOUS
<1>1. CASE Next
  BY <1>1, CallerType, ReaderType, ReconnectType, PingerType, DisconnectType DEF Next
<1>2. CASE UNCHANGED vars
  BY <1>2, HeldKept, ReadersKept, PingersKept, LoopsKept, CallersKept, EndsKept DEF TypeOK, vars
<1>. QED  BY <1>1, <1>2

\* Every variable keeps its type: in particular no reconnect loop makes more
\* attempts than Config.MaxReconnectAttempts (websocket.go:804-833).
THEOREM TypeCorrect == Spec => []TypeOK
BY TypeInit, TypeStep, PTL DEF Spec

----
LEMMA ReaderInit == Init => ReaderInv
BY DEF Init, ReaderInv, NumberInv, DialInv, CaptureInv, ReaderOfConn, Made, Conns

\* A new connection comes with its read loop, when no other is in use.
LEMMA ConnectedReader ==
    ASSUME TypeOK, NumberInv, CaptureInv, ReaderOfConn, conn = 0,
           NEW by \in {"caller", "loop"}, Connected(by)
    PROVE  /\ conn' <= dialed'
           /\ \A c \in Conns : c <= dialed' <=> reader'[c] # "none"
           /\ \A c \in Conns : c > dialed' => loop[c] = "none" /\ born'[c] = "none"
           /\ CaptureInv'
           /\ ReaderOfConn'
<1>. USE DEF TypeOK, HeldOK, ReadersOK, NumberInv, Connected
<1>1. conn' <= dialed'
  OBVIOUS
<1>2. \A c \in Conns : c <= dialed' <=> reader'[c] # "none"
  BY DEF Conns
<1>3. \A c \in Conns : c > dialed' => loop[c] = "none" /\ born'[c] = "none"
  BY DEF Conns
<1>4. CaptureInv'
  BY DEF CaptureInv
<1>5. ReaderOfConn'
  BY DEF ReaderOfConn, Made, Conns
<1>. QED  BY <1>1, <1>2, <1>3, <1>4, <1>5

LEMMA CallerReader ==
    ASSUME TypeOK, ReaderInv, NEW p \in Callers, Caller(p)
    PROVE  ReaderInv'
<1>. USE DEF ReaderInv
<1>1. CASE CallerConnected(p)
  <2>1. conn = 0 /\ Connected("caller") /\ UNCHANGED loop
    BY <1>1 DEF CallerConnected, DialInv, loops
  <2>2. NumberInv' /\ CaptureInv' /\ ReaderOfConn'
    BY <2>1, ConnectedReader DEF NumberInv
  <2>3. DialInv'
    BY <1>1, <2>1 DEF CallerConnected, DialInv, TypeOK, CallersOK
  <2>. QED  BY <2>2, <2>3
<1>2. CASE CallerEnters(p)
  <2>1. DialInv'
    BY <1>2 DEF CallerEnters, DialInv, MuFree, TypeOK, CallersOK, held, loops
  <2>2. NumberInv' /\ CaptureInv' /\ ReaderOfConn'
    BY <1>2 DEF CallerEnters, NumberInv, CaptureInv, ReaderOfConn, Made, held, readers, loops
  <2>. QED  BY <2>1, <2>2
<1>3. CASE \/ CallConnect(p) \/ CallerAlreadyConnected(p) \/ CallerDialFails(p)
           \/ CallerTriesAgain(p) \/ CallerGivesUp(p)
  <2>1. /\ UNCHANGED <<held, readers, loops>>
        /\ \A q \in Callers : caller'[q] = "dial" => caller[q] = "dial"
    BY <1>3 DEF CallConnect, CallerAlreadyConnected, CallerDialFails, AttemptFailed,
                CallerTriesAgain, CallerGivesUp, TypeOK, CallersOK
  <2>2. DialInv'
    BY <2>1 DEF DialInv, held, loops
  <2>3. NumberInv' /\ CaptureInv' /\ ReaderOfConn'
    BY <2>1 DEF NumberInv, CaptureInv, ReaderOfConn, Made, held, readers, loops
  <2>. QED  BY <2>2, <2>3
<1>. QED  BY <1>1, <1>2, <1>3 DEF Caller

LEMMA ReaderReader ==
    ASSUME TypeOK, ReaderInv, NEW c \in Conns, Reader(c) \/ ReadReturns(c) \/ ReadFails(c)
    PROVE  ReaderInv'
<1>. USE DEF ReaderInv
<1>0. c \in Made \/ reader[c] = "none"
  BY DEF TypeOK, HeldOK, NumberInv, Made, Conns
<1>1. CASE ReadStarts(c) \/ ReadChecks(c) \/ ReadReturns(c) \/ ReadFails(c)
  <2>1. ReaderUnchanged
    BY <1>1 DEF ReadStarts, ReadChecks, ReadReturns, ReadFails
  <2>2. NumberInv'
    BY <1>1, <2>1 DEF ReadStarts, ReadChecks, ReadReturns, ReadFails, ReaderUnchanged, NumberInv,
                      TypeOK, ReadersOK, held, loops
  <2>3. DialInv'
    BY <2>1 DEF ReaderUnchanged, DialInv, held, loops, callers
  <2>4. CaptureInv' /\ ReaderOfConn'
    <3>. USE DEF CaptureInv, ReaderOfConn, ReaderUnchanged, held, Made, TypeOK, ReadersOK
    <3>1. CASE ReadStarts(c)
      BY <3>1, <1>0 DEF ReadStarts
    <3>2. CASE ReadChecks(c)
      BY <3>2, <1>0 DEF ReadChecks
    <3>3. CASE ReadReturns(c)
      BY <3>3, <1>0 DEF ReadReturns
    <3>4. CASE ReadFails(c)
      BY <3>4, <1>0 DEF ReadFails
    <3>. QED  BY <1>1, <3>1, <3>2, <3>3, <3>4
  <2>. QED  BY <2>2, <2>3, <2>4
<1>2. CASE HandleDisconnect(c)
  <2>1. c \in Made
    BY <1>0, <1>2 DEF HandleDisconnect
  <2>2. NumberInv'
    BY <1>2, <2>1 DEF HandleDisconnect, NumberInv, TypeOK, HeldOK, ReadersOK, LoopsOK, Made
  <2>3. DialInv'
    BY <1>2 DEF HandleDisconnect, DialInv, MuFree, TypeOK, LoopsOK, callers
  <2>4. CaptureInv'
    BY <1>2 DEF HandleDisconnect, CaptureInv, TypeOK, ReadersOK
  <2>5. ReaderOfConn'
    BY <1>2, <2>1 DEF HandleDisconnect, ReaderOfConn, TypeOK, HeldOK, ReadersOK, Made
  <2>. QED  BY <2>2, <2>3, <2>4, <2>5
<1>. QED  BY <1>1, <1>2 DEF Reader

LEMMA ReconnectReader ==
    ASSUME TypeOK, ReaderInv, NEW c \in Conns, Reconnect(c)
    PROVE  ReaderInv'
<1>. USE DEF ReaderInv
<1>0. loop[c] # "none" => c <= dialed
  BY DEF NumberInv, TypeOK, HeldOK, Conns
<1>1. CASE LoopConnected(c)
  <2>1. conn = 0 /\ Connected("loop") /\ UNCHANGED caller
    BY <1>1 DEF LoopConnected, DialInv, callers
  <2>2. loop[c] # "none" /\ loop' = [loop EXCEPT ![c] = "done"]
    BY <1>1 DEF LoopConnected
  <2>3. dialed' = dialed + 1
    BY <2>1 DEF Connected
  <2>4. NumberInv' /\ CaptureInv' /\ ReaderOfConn'
    BY <1>0, <2>1, <2>2, <2>3, ConnectedReader DEF NumberInv, TypeOK, HeldOK, LoopsOK, Conns
  <2>5. DialInv'
    BY <1>1, <2>1, <2>2 DEF LoopConnected, DialInv, TypeOK, LoopsOK
  <2>. QED  BY <2>4, <2>5
<1>2. CASE LoopEnters(c)
  <2>1. DialInv'
    BY <1>2 DEF LoopEnters, LoopUnchanged, DialInv, MuFree, TypeOK, LoopsOK, held, callers
  <2>2. NumberInv' /\ CaptureInv' /\ ReaderOfConn'
    BY <1>0, <1>2 DEF LoopEnters, LoopUnchanged, NumberInv, CaptureInv, ReaderOfConn, Made,
                      TypeOK, HeldOK, LoopsOK, Conns, held, readers
  <2>. QED  BY <2>1, <2>2
<1>3. CASE LoopStops(c) \/ LoopTimer(c) \/ LoopAlreadyConnected(c) \/ LoopDialFails(c)
  <2>1. /\ UNCHANGED <<held, readers, caller>>
        /\ \A d \in Conns : loop'[d] = "dial" => loop[d] = "dial"
        /\ loop[c] # "none"
        /\ \A d \in Conns : d # c => loop'[d] = loop[d]
    BY <1>3 DEF LoopStops, LoopTimer, LoopAlreadyConnected, LoopDialFails, LoopUnchanged,
                TypeOK, LoopsOK, callers
  <2>2. DialInv'
    BY <2>1 DEF DialInv, held
  <2>3. NumberInv' /\ CaptureInv' /\ ReaderOfConn'
    BY <1>0, <2>1 DEF NumberInv, CaptureInv, ReaderOfConn, Made, TypeOK, HeldOK, Conns, held, readers
  <2>. QED  BY <2>2, <2>3
<1>. QED  BY <1>1, <1>2, <1>3 DEF Reconnect

LEMMA DisconnectReader ==
    ASSUME TypeOK, ReaderInv, Disconnect
    PROVE  ReaderInv'
<1>. USE DEF ReaderInv, Disconnect
<1>1. NumberInv'
  BY DEF NumberInv, TypeOK, HeldOK, readers, loops
<1>2. DialInv'
  BY DEF DialInv, MuFree, loops, callers
<1>3. CaptureInv' /\ ReaderOfConn'
  BY DEF CaptureInv, ReaderOfConn, Made, readers
<1>. QED  BY <1>1, <1>2, <1>3

LEMMA ReaderStep == TypeOK /\ ReaderInv /\ [Next]_vars => ReaderInv'
<1>. SUFFICES ASSUME TypeOK, ReaderInv, [Next]_vars PROVE ReaderInv'
  OBVIOUS
<1>1. CASE \/ UNCHANGED vars
           \/ CancelContext \/ DisconnectPanics \/ CloseConn
           \/ \E c \in Conns : Pinger(c) \/ PingFails(c)
  <2>1. UNCHANGED <<conn, stopped, dialed, born, reader, readsFrom, loop, caller>>
    BY <1>1 DEF vars, CancelContext, DisconnectPanics, CloseConn, Pinger, PingStarts, PingPanics,
                PingStops, PingFails, PingEnds, held, readers, loops, callers
  <2>. QED  BY <2>1 DEF ReaderInv, NumberInv, DialInv, CaptureInv, ReaderOfConn, Made
<1>2. CASE Disconnect
  BY <1>2, DisconnectReader
<1>3. CASE \E p \in Callers : Caller(p)
  BY <1>3, CallerReader
<1>4. CASE \E c \in Conns : Reader(c) \/ ReadReturns(c) \/ ReadFails(c)
  BY <1>4, ReaderReader
<1>5. CASE \E c \in Conns : Reconnect(c)
  BY <1>5, ReconnectReader
<1>. QED  BY <1>1, <1>2, <1>3, <1>4, <1>5 DEF Next

\* A read loop only reads its own connection, and until Disconnect the
\* connection in use is the one whose read loop has not finished
\* (websocket.go:601-647).
THEOREM OneReader == Spec => []ReaderOfConn
<1>1. Init => TypeOK /\ LeftInv /\ ReaderInv
  BY TypeInit, ReaderInit
<1>2. TypeOK /\ LeftInv /\ ReaderInv /\ [Next]_vars => (TypeOK /\ LeftInv /\ ReaderInv)'
  BY TypeStep, ReaderStep
<1>. QED  BY <1>1, <1>2, PTL DEF Spec, ReaderInv

----
ByCallers == {c \in Conns : born[c] = "caller"}

Held == IF conn = 0 THEN 0 ELSE 1

\* The sets of the count are finite, and so are their successors.
LEMMA Finite ==
    /\ IsFiniteSet(Conns)
    /\ \A S \in SUBSET Conns : IsFiniteSet(S) /\ Cardinality(S) \in Nat
<1>1. IsFiniteSet(Conns)
  BY FS_Interval DEF Conns
<1>. QED  BY <1>1, FS_Subset, FS_CardinalityType

LEMMA Fewer == \A S, T \in SUBSET Conns : S \subseteq T => Cardinality(S) <= Cardinality(T)
BY Finite, FS_Subset

LEMMA OneMoreIn == \A S \in SUBSET Conns, c \in Conns :
                      /\ Cardinality(S \union {c}) <= Cardinality(S) + 1
                      /\ c \notin S => Cardinality(S \union {c}) = Cardinality(S) + 1
<1>. SUFFICES ASSUME NEW S \in SUBSET Conns, NEW c \in Conns
             PROVE  /\ Cardinality(S \union {c}) <= Cardinality(S) + 1
                    /\ c \notin S => Cardinality(S \union {c}) = Cardinality(S) + 1
  OBVIOUS
<1>1. IsFiniteSet(S) /\ Cardinality(S) \in Nat
  BY Finite
<1>2. Cardinality(S \union {c}) = IF c \in S THEN Cardinality(S) ELSE Cardinality(S) + 1
  BY <1>1, FS_AddElement
<1>. QED  BY <1>1, <1>2

\* A step that keeps conn and the callers' connections and wakes no loop.
LEMMA RivalKept ==
    ASSUME NoRivalReconnect, TypeOK, UNCHANGED <<conn, born>>,
           \A c \in Conns : loop'[c] \in {"wait", "call", "dial"} => c \in Rejoining
    PROVE  NoRivalReconnect'
<1>1. Rejoining' \subseteq Rejoining /\ Rejoining \in SUBSET Conns /\ Rejoining' \in SUBSET Conns
  BY DEF Rejoining
<1>2. ByCallers' = ByCallers /\ ByCallers \in SUBSET Conns
  BY DEF ByCallers
<1>3. Cardinality(Rejoining') <= Cardinality(Rejoining)
  BY <1>1, Fewer
<1>4. /\ Cardinality(Rejoining) \in Nat /\ Cardinality(Rejoining') \in Nat
      /\ Cardinality(ByCallers) \in Nat /\ Held \in Nat /\ Held' = Held
  BY <1>1, <1>2, Finite DEF Held
<1>5. Cardinality(Rejoining) + Held <= Cardinality(ByCallers)
  BY DEF NoRivalReconnect, Held, ByCallers
<1>6. Cardinality(Rejoining') + Held' <= Cardinality(ByCallers')
  BY <1>2, <1>3, <1>4, <1>5
<1>. QED  BY <1>6 DEF NoRivalReconnect, Held, ByCallers

LEMMA RivalConnected ==
    ASSUME NoRivalReconnect, TypeOK, ReaderInv, NEW p \in Callers, CallerConnected(p)
    PROVE  NoRivalReconnect'
<1>. DEFINE c == dialed + 1
<1>1. conn = 0 /\ conn' # 0 /\ c \in Conns /\ born' = [born EXCEPT ![c] = "caller"] /\ loop' = loop
  BY DEF CallerConnected, Connected, ReaderInv, DialInv, loops, Conns
<1>2. born[c] # "caller"
  BY <1>1 DEF ReaderInv, NumberInv, TypeOK, HeldOK
<1>3. ByCallers' = ByCallers \union {c} /\ c \notin ByCallers /\ ByCallers \in SUBSET Conns
  BY <1>1, <1>2 DEF ByCallers, TypeOK, HeldOK
<1>4. Cardinality(ByCallers') = Cardinality(ByCallers) + 1
  BY <1>1, <1>3, OneMoreIn
<1>5. Rejoining' = Rejoining /\ Rejoining \in SUBSET Conns
  BY <1>1 DEF Rejoining
<1>6. Cardinality(Rejoining) \in Nat /\ Cardinality(ByCallers) \in Nat
  BY <1>3, <1>5, Finite
<1>7. Cardinality(Rejoining) + 0 <= Cardinality(ByCallers)
  BY <1>1 DEF NoRivalReconnect, ByCallers
<1>8. Cardinality(Rejoining') + 1 <= Cardinality(ByCallers')
  BY <1>4, <1>5, <1>6, <1>7
<1>. QED  BY <1>1, <1>8 DEF NoRivalReconnect, ByCallers

LEMMA RivalReconnected ==
    ASSUME NoRivalReconnect, TypeOK, ReaderInv, NEW c \in Conns, LoopConnected(c)
    PROVE  NoRivalReconnect'
<1>. DEFINE d == dialed + 1
<1>1. /\ conn = 0 /\ conn' # 0 /\ d \in Conns /\ born' = [born EXCEPT ![d] = "loop"]
      /\ loop[c] = "dial" /\ loop' = [loop EXCEPT ![c] = "done"]
  BY DEF LoopConnected, Connected, ReaderInv, DialInv, Conns
<1>2. born[d] # "caller"
  BY <1>1 DEF ReaderInv, NumberInv, TypeOK, HeldOK
<1>3. ByCallers' = ByCallers /\ ByCallers \in SUBSET Conns
  BY <1>1, <1>2 DEF ByCallers, TypeOK, HeldOK
<1>4. /\ c \notin Rejoining' /\ Rejoining = Rejoining' \union {c}
      /\ Rejoining \in SUBSET Conns /\ Rejoining' \in SUBSET Conns
  BY <1>1 DEF Rejoining, TypeOK, LoopsOK
<1>5. Cardinality(Rejoining) = Cardinality(Rejoining') + 1
  BY <1>4, OneMoreIn
<1>6. /\ Cardinality(Rejoining) \in Nat /\ Cardinality(Rejoining') \in Nat
      /\ Cardinality(ByCallers) \in Nat
  BY <1>3, <1>4, Finite
<1>7. Cardinality(Rejoining) + 0 <= Cardinality(ByCallers)
  BY <1>1 DEF NoRivalReconnect, ByCallers
<1>8. Cardinality(Rejoining') + 1 <= Cardinality(ByCallers')
  BY <1>3, <1>5, <1>6, <1>7
<1>. QED  BY <1>1, <1>8 DEF NoRivalReconnect, ByCallers

\* A connection that is given up leaves room for one reconnect loop.
LEMMA RivalLost ==
    ASSUME NoRivalReconnect, TypeOK, NEW c \in Conns, HandleDisconnect(c)
    PROVE  NoRivalReconnect'
<1>1. conn' = 0 /\ born' = born
  BY DEF HandleDisconnect
<1>2. ByCallers' = ByCallers /\ ByCallers \in SUBSET Conns
  BY <1>1 DEF ByCallers
<1>3. Rejoining' \subseteq Rejoining \union {c} /\ (conn = 0 => Rejoining' \subseteq Rejoining)
  BY DEF HandleDisconnect, Rejoining, TypeOK, LoopsOK
<1>4. Rejoining \in SUBSET Conns /\ Rejoining' \in SUBSET Conns /\ Rejoining \union {c} \in SUBSET Conns
  BY DEF Rejoining
<1>5. /\ Cardinality(Rejoining) \in Nat /\ Cardinality(Rejoining') \in Nat
      /\ Cardinality(ByCallers) \in Nat /\ Cardinality(Rejoining \union {c}) \in Nat
  BY <1>2, <1>4, Finite
<1>6. /\ Cardinality(Rejoining') <= Cardinality(Rejoining \union {c})
      /\ Cardinality(Rejoining \union {c}) <= Cardinality(Rejoining) + 1
      /\ conn = 0 => Cardinality(Rejoining') <= Cardinality(Rejoining)
  BY <1>3, <1>4, Fewer, OneMoreIn
<1>7. /\ conn = 0 => Cardinality(Rejoining) <= Cardinality(ByCallers)
      /\ conn # 0 => Cardinality(Rejoining) + 1 <= Cardinality(ByCallers)
  BY <1>5 DEF NoRivalReconnect, ByCallers
<1>8. Cardinality(Rejoining') <= Cardinality(ByCallers)
  BY <1>5, <1>6, <1>7
<1>. QED  BY <1>1, <1>2, <1>5, <1>8 DEF NoRivalReconnect, ByCallers

LEMMA RivalStopped ==
    ASSUME NoRivalReconnect, TypeOK, Disconnect
    PROVE  NoRivalReconnect'
<1>1. conn' = 0 /\ born' = born /\ loop' = loop
  BY DEF Disconnect, loops
<1>2. ByCallers' = ByCallers /\ Rejoining' = Rejoining
  BY <1>1 DEF ByCallers, Rejoining
<1>3. Cardinality(Rejoining) \in Nat /\ Cardinality(ByCallers) \in Nat
  BY Finite DEF Rejoining, ByCallers
<1>4. Cardinality(Rejoining) <= Cardinality(ByCallers)
  BY <1>3 DEF NoRivalReconnect, ByCallers
<1>. QED  BY <1>1, <1>2, <1>3, <1>4 DEF NoRivalReconnect, ByCallers

LEMMA RivalStep == TypeOK /\ ReaderInv /\ NoRivalReconnect /\ [Next]_vars => NoRivalReconnect'
<1>. SUFFICES ASSUME TypeOK, ReaderInv, NoRivalReconnect, [Next]_vars PROVE NoRivalReconnect'
  OBVIOUS
<1>1. CASE \E p \in Callers : CallerConnected(p)
  BY <1>1, RivalConnected
<1>2. CASE \E c \in Conns : LoopConnected(c)
  BY <1>2, RivalReconnected
<1>3. CASE \E c \in Conns : HandleDisconnect(c)
  BY <1>3, RivalLost
<1>4. CASE Disconnect
  BY <1>4, RivalStopped
<1>5. CASE \E c \in Conns : \/ LoopStops(c) \/ LoopTimer(c) \/ LoopEnters(c)
                           \/ LoopAlreadyConnected(c) \/ LoopDialFails(c)
  <2>1. UNCHANGED <<conn, born>>
    BY <1>5 DEF LoopStops, LoopTimer, LoopEnters, LoopAlreadyConnected, LoopDialFails,
                LoopUnchanged, held
  <2>2. \A c \in Conns : loop'[c] \in {"wait", "call", "dial"} => c \in Rejoining
    BY <1>5 DEF LoopStops, LoopTimer, LoopEnters, LoopAlreadyConnected, LoopDialFails,
                Rejoining, TypeOK, LoopsOK
  <2>. QED  BY <2>1, <2>2, RivalKept
<1>6. CASE UNCHANGED <<conn, born, loop>>
  BY <1>6, RivalKept DEF Rejoining
<1>7. UNCHANGED vars => UNCHANGED <<conn, born, loop>>
  BY DEF vars, held, loops
<1>8. ASSUME NEW p \in Callers, Caller(p)
      PROVE  CallerConnected(p) \/ UNCHANGED <<conn, born, loop>>
  BY <1>8 DEF Caller, CallConnect, CallerEnters, CallerAlreadyConnected, CallerDialFails,
              AttemptFailed, CallerTriesAgain, CallerGivesUp, held, loops
<1>9. CancelContext \/ DisconnectPanics \/ CloseConn => UNCHANGED <<conn, born, loop>>
  BY DEF CancelContext, DisconnectPanics, CloseConn, held, loops
<1>10. ASSUME NEW c \in Conns, Reader(c) \/ ReadReturns(c) \/ ReadFails(c)
       PROVE  HandleDisconnect(c) \/ UNCHANGED <<conn, born, loop>>
  BY <1>10 DEF Reader, ReadStarts, ReadChecks, ReadReturns, ReadFails, ReaderUnchanged, held, loops
<1>11. ASSUME NEW c \in Conns, Pinger(c) \/ PingFails(c)
       PROVE  UNCHANGED <<conn, born, loop>>
  BY <1>11 DEF Pinger, PingStarts, PingPanics, PingStops, PingFails, PingEnds, held, loops
<1>. QED  BY <1>1, <1>2, <1>3, <1>4, <1>5, <1>6, <1>7, <1>8, <1>9, <1>10, <1>11 DEF Next, Reconnect

LEMMA RivalInit == Init => NoRivalReconnect
<1>. SUFFICES ASSUME Init PROVE NoRivalReconnect
  OBVIOUS
<1>1. Rejoining = {} /\ conn = 0 /\ ByCallers = {}
  BY DEF Init, Rejoining, ByCallers
<1>. QED  BY <1>1, FS_EmptySet DEF NoRivalReconnect, ByCallers

\* However drops, reconnects, Connect and Disconnect interleave, connections in
\* use and reconnect loops together never outnumber the successful Connects of
\* the program (websocket.go:790-833).
THEOREM NoRivals == Spec => []NoRivalReconnect
<1>1. Init => TypeOK /\ LeftInv /\ ReaderInv /\ NoRivalReconnect
  BY TypeInit, ReaderInit, RivalInit
<1>2. TypeOK /\ LeftInv /\ ReaderInv /\ NoRivalReconnect /\ [Next]_vars
        => (TypeOK /\ LeftInv /\ ReaderInv /\ NoRivalReconnect)'
  BY TypeStep, ReaderStep, RivalStep
<1>. QED  BY <1>1, <1>2, PTL DEF Spec

----
LEMMA PingedKept ==
    ASSUME Pinged, UNCHANGED <<conn, stopped, unpinged, pinger, pingTicker, ticking, ticker>>
    PROVE  Pinged'
BY DEF Pinged

LEMMA PingedConnected ==
    ASSUME TypeOK, NEW by \in {"caller", "loop"}, Connected(by)
    PROVE  Pinged'
BY DEF Connected, Pinged, TypeOK, HeldOK, PingersOK

LEMMA PingedPinger ==
    ASSUME TypeOK, Pinged, NEW c \in Conns, Pinger(c) \/ PingFails(c)
    PROVE  Pinged'
<1>1. UNCHANGED <<conn, stopped, pingTicker>>
  BY DEF Pinger, PingStarts, PingPanics, PingStops, PingFails, PingEnds, held
<1>2. CASE PingStarts(c)
  <2>1. conn \in Conns \/ conn = 0
    BY DEF TypeOK, HeldOK, Conns
  <2>. QED  BY <1>1, <1>2, <2>1 DEF PingStarts, Pinged, TypeOK, PingersOK
<1>3. CASE PingPanics(c)
  BY <1>1, <1>3, PingedKept DEF PingPanics, pingers
<1>4. CASE PingStops(c)
  BY <1>1, <1>4 DEF PingStops, Pinged
<1>5. CASE PingFails(c)
  BY <1>1, <1>5 DEF PingFails, Pinged
<1>. QED  BY <1>2, <1>3, <1>4, <1>5 DEF Pinger

LEMMA PingedStep == TypeOK /\ Pinged /\ [Next]_vars => Pinged'
<1>. SUFFICES ASSUME TypeOK, Pinged, [Next]_vars PROVE Pinged'
  OBVIOUS
<1>1. UNCHANGED vars => Pinged'
  BY PingedKept DEF vars, held, pingers
<1>2. ASSUME NEW p \in Callers, Caller(p) PROVE Pinged'
  <2>1. CASE CallerConnected(p)
    BY <2>1, PingedConnected DEF CallerConnected
  <2>2. CASE UNCHANGED <<held, pingers>>
    BY <2>2, PingedKept DEF held, pingers
  <2>. QED  BY <1>2, <2>1, <2>2 DEF Caller, CallConnect, CallerEnters, CallerAlreadyConnected,
              CallerDialFails, AttemptFailed, CallerTriesAgain, CallerGivesUp
<1>3. ASSUME NEW c \in Conns, Reconnect(c) PROVE Pinged'
  <2>1. CASE LoopConnected(c)
    BY <2>1, PingedConnected DEF LoopConnected
  <2>2. CASE UNCHANGED <<held, pingers>>
    BY <2>2, PingedKept DEF held, pingers
  <2>. QED  BY <1>3, <2>1, <2>2 DEF Reconnect, LoopStops, LoopTimer, LoopEnters,
              LoopAlreadyConnected, LoopDialFails, LoopUnchanged
<1>4. ASSUME NEW c \in Conns, Reader(c) \/ ReadReturns(c) \/ ReadFails(c) PROVE Pinged'
  <2>1. CASE HandleDisconnect(c)
    BY <2>1 DEF HandleDisconnect, Pinged
  <2>2. CASE UNCHANGED <<held, pingers>>
    BY <2>2, PingedKept DEF held, pingers
  <2>. QED  BY <1>4, <2>1, <2>2 DEF Reader, ReadStarts, ReadChecks, ReadReturns, ReadFails,
              ReaderUnchanged
<1>5. Disconnect => Pinged'
  BY DEF Disconnect, Pinged
<1>6. CancelContext \/ DisconnectPanics \/ CloseConn => Pinged'
  BY PingedKept DEF CancelContext, DisconnectPanics, CloseConn, held, pingers
<1>. QED  BY <1>1, <1>2, <1>3, <1>4, <1>5, <1>6, PingedPinger DEF Next

\* Until Disconnect the connection in use has a ping loop whose ticker runs,
\* unless a ping on it failed, whatever older ping loops are left and whichever
\* tickers they stop (websocket.go:699-729).
THEOREM KeptAlive == Spec => []Pinged
<1>1. Init => TypeOK /\ LeftInv /\ Pinged
  BY TypeInit DEF Init, Pinged
<1>2. TypeOK /\ LeftInv /\ Pinged /\ [Next]_vars => (TypeOK /\ LeftInv /\ Pinged)'
  BY TypeStep, PingedStep
<1>. QED  BY <1>1, <1>2, PTL DEF Spec
====
