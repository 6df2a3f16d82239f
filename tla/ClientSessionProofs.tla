---- MODULE ClientSessionProofs ----
(*****************************************************************************)
(* Proofs about ClientSession, for any number of requests and any bounds:    *)
(* the types, the automatic login, and the credentials a request carries.    *)
(*****************************************************************************)
EXTENDS ClientSession, TLAPS

\* TypeOK in three parts: requests, session with server and history, and user.
RequestsTyped ==
    /\ pc \in [Requests -> PCs]
    /\ kind \in [Requests -> Kinds \union {"none"}]
    /\ purpose \in [Requests -> Purposes]
    /\ got \in [Requests -> 0 .. MaxTickets]
    /\ hdr \in [Requests -> Credentials]
    /\ sends \in [Requests -> 0 .. 2]
    /\ refused \in [Requests -> 0 .. MaxTickets]

SessionTyped ==
    /\ config \in [login : {"auto", "explicit", "seeded"}, tfa : BOOLEAN]
    /\ ticket \in Credentials
    /\ loginAttempted \in BOOLEAN
    /\ everTicket \in BOOLEAN
    /\ setterUsed \in BOOLEAN
    /\ meddled \subseteq Requests
    /\ disturbed \in BOOLEAN

ServerTyped ==
    /\ issued \in 0 .. MaxTickets
    /\ live \subseteq 1 .. issued
    /\ bare \subseteq 1 .. issued
    /\ age \in [TicketIds -> {"fresh", "aging", "expired"}]
    /\ upsets \in 0 .. MaxUpsets

\* A request has gone out once in its first pass and twice in its replay, and
\* a replay is only ever logging in, about to go out, or out.
Flow ==
    \A r \in Requests :
        /\ purpose[r] = "replay" => pc[r] \in {"login", "install", "headers", "sent"}
        /\ purpose[r] = "replay" => sends[r] = IF pc[r] = "sent" THEN 2 ELSE 1
        /\ purpose[r] # "replay" => sends[r] = IF pc[r] = "sent" THEN 1 ELSE 0

Shape == RequestsTyped /\ SessionTyped /\ ServerTyped /\ user \in UserState /\ Flow

LEMMA ShapeTypes == (RequestsTyped /\ SessionTyped /\ ServerTyped /\ user \in UserState) <=> TypeOK
PROOF
  BY Zenon DEF RequestsTyped, SessionTyped, ServerTyped, TypeOK

LEMMA InitShape == Init => Shape
PROOF
<1> SUFFICES ASSUME Init  PROVE Shape
  OBVIOUS
<1> USE KindsAssumption, MaxTicketsAssumption, MaxUserOpsAssumption, MaxUpsetsAssumption
    DEF Init, None, Credentials, TicketIds
<1>1. RequestsTyped /\ Flow
  BY SMT DEF RequestsTyped, Flow, PCs, Purposes
<1>2. SessionTyped
  <2>1. ticket \in Credentials
    BY SMT DEF Token
  <2>2. everTicket \in BOOLEAN /\ setterUsed \in BOOLEAN /\ loginAttempted \in BOOLEAN
        /\ disturbed \in BOOLEAN /\ meddled \subseteq Requests
        /\ config \in [login : {"auto", "explicit", "seeded"}, tfa : BOOLEAN]
    BY Zenon
  <2>. QED  BY <2>1, <2>2, Zenon DEF SessionTyped
<1>3. ServerTyped /\ user \in UserState
  BY SMT DEF ServerTyped, UserState
<1>. QED  BY <1>1, <1>2, <1>3, Zenon DEF Shape

----
\* The three ways in which a request moves, apart from going out and replaying.
Moving(r) == RequestsTyped /\ Flow /\ kind' = kind /\ got' \in [Requests -> 0 .. MaxTickets]

LEMMA GotoMoves ==
  ASSUME NEW r \in Requests, Moving(r), NEW where \in PCs \ {"sent"}, Goto(r, where),
         pc[r] # "sent", purpose[r] = "replay" => where \in {"install", "headers"}
  PROVE  RequestsTyped' /\ Flow'
PROOF
  BY SMT DEF Moving, RequestsTyped, Flow, Goto

LEMMA GotoForMoves ==
  ASSUME NEW r \in Requests, RequestsTyped, Flow, kind' \in [Requests -> Kinds \union {"none"}],
         got' = got, NEW where \in PCs \ {"sent"}, NEW why \in Purposes \ {"replay"},
         GotoFor(r, where, why), pc[r] \notin {"login", "install", "headers", "sent"}
  PROVE  RequestsTyped' /\ Flow'
PROOF
  BY SMT DEF RequestsTyped, Flow, GotoFor

LEMMA EndMoves ==
  ASSUME NEW r \in Requests, Moving(r), NEW result \in Results, End(r, result)
  PROVE  RequestsTyped' /\ Flow'
PROOF
  BY MaxTicketsAssumption, SMT
  DEF Moving, RequestsTyped, Flow, End, Results, PCs, Purposes, None, Credentials

LEMMA ReadyMoves ==
  ASSUME NEW r \in Requests, Moving(r), Ready(r), pc[r] # "sent"
  PROVE  RequestsTyped' /\ Flow'
PROOF
<1>1. CASE Goto(r, "headers")
  BY <1>1, GotoMoves, SMT DEF PCs
<1>2. CASE End(r, "ok")
  BY <1>2, EndMoves, SMT DEF Results
<1>. QED  BY <1>1, <1>2, Zenon DEF Ready

LEMMA FailureMoves ==
  ASSUME NEW r \in Requests, Moving(r), AfterFailure(r), pc[r] # "sent"
  PROVE  RequestsTyped' /\ Flow'
PROOF
<1>1. CASE purpose[r] = "renew"
  BY <1>1, GotoMoves, SMT DEF PCs, AfterFailure
<1>2. CASE purpose[r] = "replay"
  BY <1>2, EndMoves, SMT DEF Results, AfterFailure
<1>3. CASE purpose[r] \notin {"renew", "replay"}
  BY <1>3, GotoMoves, SMT DEF PCs, AfterFailure
<1>. QED  BY <1>1, <1>2, <1>3, Zenon

----
\* Every step of a request keeps the requests' part of Shape.
LEMMA RequestMoves ==
  ASSUME Shape, NEW r \in Requests, Start(r) \/ Request(r)
  PROVE  RequestsTyped' /\ Flow'
PROOF
<1>0. RequestsTyped /\ Flow /\ ServerTyped
  BY DEF Shape
<1>a. (kind' = kind /\ got' = got) => Moving(r)
  BY <1>0, Zenon DEF Moving, RequestsTyped
<1>b. pc[r] # "sent" \/ At(r, "sent")
  BY DEF At
<1>1. CASE Start(r)
  <2>1. PICK k \in Kinds : /\ kind' = [kind EXCEPT ![r] = k]
                           /\ GotoFor(r, IF k = "login" THEN "ensure" ELSE "renewCheck", "manual")
    BY <1>1 DEF Start
  <2>2. kind' \in [Requests -> Kinds \union {"none"}] /\ got' = got
    BY <1>0, <1>1, <2>1, SMT DEF Start, RequestsTyped, history
  <2>. QED  BY <1>0, <1>1, <2>1, <2>2, GotoForMoves, SMT DEF Start, At, PCs, Purposes
<1>2. CASE RenewCheck(r)
  <2>1. CASE ShouldRenew
    BY <1>0, <1>2, <2>1, GotoForMoves, SMT DEF RenewCheck, At, PCs, Purposes, RequestsTyped
  <2>2. CASE ~ShouldRenew
    BY <1>0, <1>a, <1>2, <2>2, GotoMoves, SMT DEF RenewCheck, At, PCs, Flow
  <2>. QED  BY <2>1, <2>2
<1>3. CASE Check(r)
  BY <1>0, <1>3, GotoForMoves, SMT DEF Check, At, PCs, Purposes, RequestsTyped
<1>4. CASE AutoLock(r)
  <2>1. CASE Ready(r)
    BY <1>a, <1>4, <2>1, ReadyMoves, SMT DEF AutoLock, At
  <2>2. CASE TakeMarker(r)
    BY <1>0, <1>4, <2>2, GotoForMoves, SMT DEF AutoLock, TakeMarker, At, PCs, Purposes, RequestsTyped
  <2>. QED  BY <1>4, <2>1, <2>2 DEF AutoLock
<1>5. CASE Ensure(r)
  <2>1. CASE Ready(r)
    BY <1>a, <1>5, <2>1, ReadyMoves, SMT DEF Ensure, At
  <2>2. CASE Goto(r, "login")
    BY <1>0, <1>a, <1>5, <2>2, GotoMoves, SMT DEF Ensure, At, PCs, Flow
  <2>. QED  BY <1>5, <2>1, <2>2 DEF Ensure
<1>6. CASE ServerGrants(r)
  <2>1. kind' = kind /\ got' \in [Requests -> 0 .. MaxTickets]
    BY <1>0, <1>6, MaxTicketsAssumption, SMT DEF ServerGrants, RequestsTyped, ServerTyped
  <2>2. Moving(r)
    BY <1>0, <2>1 DEF Moving
  <2>3. CASE At(r, "tfa")
    BY <1>0, <1>6, <2>2, <2>3, GotoMoves, SMT DEF ServerGrants, At, PCs, Flow
  <2>4. CASE ~At(r, "tfa")
    BY <1>0, <1>6, <2>2, <2>4, GotoMoves, SMT DEF ServerGrants, At, PCs, Flow
  <2>. QED  BY <2>3, <2>4
<1>7. CASE ServerRefusesLogin(r)
  BY <1>a, <1>7, FailureMoves, SMT DEF ServerRefusesLogin, At
<1>8. CASE ServerChallenges(r)
  <2>1. CASE AfterFailure(r)
    BY <1>a, <1>8, <2>1, FailureMoves, SMT DEF ServerChallenges, At
  <2>2. CASE purpose[r] \in {"auto", "manual"} /\ Goto(r, "tfa")
    BY <1>0, <1>a, <1>8, <2>2, GotoMoves, SMT DEF ServerChallenges, At, PCs
  <2>. QED  BY <1>8, <2>1, <2>2 DEF ServerChallenges
<1>9. CASE TFAFails(r)
  <2>1. CASE End(r, "authError")
    BY <1>a, <1>9, <2>1, EndMoves, SMT DEF TFAFails, Results
  <2>2. CASE Goto(r, "rearm")
    BY <1>0, <1>a, <1>9, <2>2, GotoMoves, SMT DEF TFAFails, At, PCs, Flow
  <2>. QED  BY <1>9, <2>1, <2>2 DEF TFAFails
<1>10. CASE Install(r)
  <2>1. kind' = kind /\ got' \in [Requests -> 0 .. MaxTickets]
    BY <1>0, <1>10, MaxTicketsAssumption, SMT DEF Install, RequestsTyped
  <2>2. Moving(r)
    BY <1>0, <2>1 DEF Moving
  <2>3. CASE Ready(r)
    BY <1>10, <2>2, <2>3, ReadyMoves, SMT DEF Install, At
  <2>4. CASE purpose[r] = "renew" /\ Goto(r, "check")
    BY <1>10, <2>2, <2>4, GotoMoves, SMT DEF Install, At, PCs
  <2>. QED  BY <1>10, <2>3, <2>4 DEF Install
<1>11. CASE TFAInstall(r)
  <2>1. kind' = kind /\ got' \in [Requests -> 0 .. MaxTickets]
    BY <1>0, <1>11, MaxTicketsAssumption, SMT DEF TFAInstall, RequestsTyped
  <2>2. Moving(r)
    BY <1>0, <2>1 DEF Moving
  <2>. QED  BY <1>0, <1>11, <2>2, GotoMoves, SMT DEF TFAInstall, At, PCs, Flow
<1>12. CASE Recheck(r)
  <2>1. CASE Ready(r)
    BY <1>a, <1>12, <2>1, ReadyMoves, SMT DEF Recheck, At
  <2>2. CASE Goto(r, "rearm")
    BY <1>0, <1>a, <1>12, <2>2, GotoMoves, SMT DEF Recheck, At, PCs, Flow
  <2>3. CASE End(r, "authError")
    BY <1>a, <1>12, <2>3, EndMoves, SMT DEF Recheck, Results
  <2>. QED  BY <1>12, <2>1, <2>2, <2>3 DEF Recheck
<1>13. CASE Rearm(r)
  BY <1>a, <1>13, EndMoves, SMT DEF Rearm, Results
<1>14. CASE Send(r)
  <2>1. hdr' \in [Requests -> Credentials]
    BY <1>0, <1>14, SMT DEF Shape, SessionTyped, RequestsTyped, Send, SetHeaders, Credentials
  <2>2. sends[r] \in {0, 1} /\ sends[r] = IF purpose[r] = "replay" THEN 1 ELSE 0
    BY <1>0, <1>14, SMT DEF Flow, Send, At
  <2>3. pc' \in [Requests -> PCs] /\ sends' \in [Requests -> 0 .. 2]
    BY <1>0, <1>14, <2>2, SMT DEF Send, RequestsTyped, PCs
  <2>4. RequestsTyped'
    BY <1>0, <1>14, <2>1, <2>3, Zenon DEF Send, RequestsTyped
  <2>5. Flow'
    BY <1>0, <1>14, <2>2, SMT DEF Send, RequestsTyped, Flow
  <2>. QED  BY <2>4, <2>5
<1>15. CASE Accepted(r)
  BY <1>a, <1>15, EndMoves, SMT DEF Accepted, Results
<1>16. CASE RefusedAndReplayed(r)
  BY <1>0, <1>16, SMT DEF RefusedAndReplayed, ForceLogin, Replays, At, RequestsTyped, Flow, PCs,
     Purposes, Credentials
<1>17. CASE RefusedForGood(r)
  BY <1>a, <1>17, EndMoves, SMT DEF RefusedForGood, Results
<1>. QED  BY <1>1, <1>2, <1>3, <1>4, <1>5, <1>6, <1>7, <1>8, <1>9, <1>10, <1>11, <1>12, <1>13,
             <1>14, <1>15, <1>16, <1>17, Zenon DEF Request

\* ... and the rest of it.
LEMMA RequestKeepsRest ==
  ASSUME Shape, NEW r \in Requests, Start(r) \/ Request(r)
  PROVE  SessionTyped' /\ ServerTyped' /\ user' \in UserState
PROOF
<1>0. RequestsTyped /\ SessionTyped /\ ServerTyped /\ user \in UserState
  BY DEF Shape
<1>a. UNCHANGED <<session, history>> => SessionTyped'
  BY <1>0, SMT DEF session, history, SessionTyped
<1>b. UNCHANGED server => ServerTyped'
  BY <1>0, SMT DEF server, ServerTyped
<1>1. CASE Start(r) \/ RenewCheck(r) \/ Check(r) \/ Ensure(r) \/ TFAFails(r) \/ Recheck(r)
           \/ Send(r) \/ Accepted(r) \/ RefusedAndReplayed(r) \/ RefusedForGood(r)
  <2>1. UNCHANGED <<session, user, server, history>>
    BY <1>1, Zenon DEF Start, RenewCheck, Check, Ensure, TFAFails, Recheck, Send, Accepted,
       RefusedAndReplayed, RefusedForGood
  <2>. QED  BY <1>0, <1>a, <1>b, <2>1, Zenon
<1>2. CASE AutoLock(r) \/ Rearm(r)
  <2>1. loginAttempted' \in BOOLEAN
    BY <1>0, <1>2, Zenon DEF AutoLock, Rearm, TakeMarker, SessionTyped
  <2>2. UNCHANGED <<config, ticket, user, server, history>>
    BY <1>2, Zenon DEF AutoLock, Rearm
  <2>. QED  BY <1>0, <1>b, <2>1, <2>2, Zenon DEF history, SessionTyped
<1>3. CASE ServerGrants(r)
  <2>1. /\ issued' \in 0 .. MaxTickets /\ live' \subseteq 1 .. issued'
        /\ bare' \subseteq 1 .. issued' /\ upsets' \in 0 .. MaxUpsets
    <3>1. /\ issued \in 0 .. MaxTickets /\ live \subseteq 1 .. issued /\ bare \subseteq 1 .. issued
          /\ issued < MaxTickets /\ issued' = issued + 1 /\ live' = live \union {issued + 1}
      BY <1>0, <1>3, Zenon DEF ServerGrants, ServerTyped
    <3>2. \/ bare' = bare /\ upsets' = upsets
          \/ bare' = bare \union {issued + 1} /\ upsets < MaxUpsets /\ upsets' = upsets + 1
      BY <1>3, Zenon DEF ServerGrants
    <3>3. issued' \in 0 .. MaxTickets /\ live' \subseteq 1 .. issued' /\ bare' \subseteq 1 .. issued'
      <4>1. issued \in Nat /\ issued + 1 \in 1 .. MaxTickets /\ 1 .. issued \subseteq 1 .. issued + 1
            /\ issued + 1 \in 1 .. issued + 1
        BY <3>1, MaxTicketsAssumption, SMT
      <4>2. issued' \in 0 .. MaxTickets
        BY <3>1, <4>1, SMT
      <4>. QED  BY <3>1, <3>2, <4>1, <4>2, Zenon
    <3>4. upsets' \in 0 .. MaxUpsets
      BY <1>0, <3>2, MaxUpsetsAssumption, SMT DEF ServerTyped
    <3>. QED  BY <3>3, <3>4
  <2>2. /\ UNCHANGED <<session, age, user, everTicket, setterUsed, meddled>>
        /\ disturbed' = disturbed \/ disturbed' = TRUE
    BY <1>3, Zenon DEF ServerGrants
  <2>3. SessionTyped'
    BY <1>0, <2>2, Zenon DEF session, SessionTyped
  <2>. QED  BY <1>0, <2>1, <2>2, <2>3, Zenon DEF ServerTyped
<1>4. CASE ServerRefusesLogin(r) \/ ServerChallenges(r)
  <2>1. disturbed' \in BOOLEAN
        /\ UNCHANGED <<session, user, server, everTicket, setterUsed, meddled>>
    BY <1>4, Zenon DEF ServerRefusesLogin, ServerChallenges
  <2>. QED  BY <1>0, <1>b, <2>1, Zenon DEF session, SessionTyped
<1>5. CASE Install(r) \/ TFAInstall(r)
  <2>1. ticket' \in Credentials
    <3>1. got[r] \in 0 .. MaxTickets /\ Token(got[r]) \in 0 .. MaxTickets
      BY <1>0, MaxTicketsAssumption, SMT DEF RequestsTyped, Token
    <3>2. ticket' = [id |-> got[r], csrf |-> Token(got[r])]
      BY <1>5, Zenon DEF Install, TFAInstall
    <3>. QED  BY <3>1, <3>2, SMT DEF Credentials
  <2>2. everTicket' \in BOOLEAN
        /\ UNCHANGED <<config, loginAttempted, user, server, setterUsed, meddled, disturbed>>
    BY <1>5, Zenon DEF Install, TFAInstall
  <2>. QED  BY <1>0, <1>b, <2>1, <2>2, Zenon DEF SessionTyped
<1>. QED  BY <1>1, <1>2, <1>3, <1>4, <1>5, Zenon DEF Request

\* The caller's steps and the environment's keep Shape.
LEMMA OthersKeepShape ==
  ASSUME Shape, User \/ Environment \/ UNCHANGED vars
  PROVE  Shape'
PROOF
<1>0. RequestsTyped /\ SessionTyped /\ ServerTyped /\ user \in UserState /\ Flow
  BY DEF Shape
<1>a. UNCHANGED requests => RequestsTyped' /\ Flow'
  BY <1>0, SMT DEF requests, RequestsTyped, Flow
<1>b. UNCHANGED <<session, history>> => SessionTyped'
  BY <1>0, SMT DEF session, history, SessionTyped
<1>c. UNCHANGED server => ServerTyped'
  BY <1>0, SMT DEF server, ServerTyped
<1>d. \A p \in {"idle", "logoutSent", "logoutClear", "setWrite"} :
        [user EXCEPT !.pc = p] \in UserState
  BY <1>0, SMT DEF UserState
<1>e. \A p \in {"logoutSent", "setWrite"}, c \in Credentials :
        user.ops < MaxUserOps => [pc |-> p, held |-> c, ops |-> user.ops + 1] \in UserState
  BY <1>0, MaxUserOpsAssumption, SMT DEF UserState
<1>f. ticket \in Credentials /\ user.held \in Credentials /\ Replaying \subseteq Requests
  BY <1>0, SMT DEF SessionTyped, UserState, Replaying
<1>1. CASE LogoutSend
  <2>1. user' \in UserState
    BY <1>1, <1>e, <1>f, SMT DEF LogoutSend
  <2>. QED  BY <1>0, <1>1, <1>a, <1>b, <1>c, <2>1, Zenon DEF LogoutSend, Shape
<1>2. CASE LogoutConfirmed
  <2>1. user' \in UserState
    BY <1>2, <1>d, SMT DEF LogoutConfirmed
  <2>2. live' \subseteq 1 .. issued
    BY <1>0, <1>2, SMT DEF LogoutConfirmed, ServerTyped
  <2>3. ServerTyped'
    BY <1>0, <1>2, <2>2, Zenon DEF LogoutConfirmed, ServerTyped
  <2>4. SessionTyped'
    BY <1>0, <1>2, Zenon DEF LogoutConfirmed, SessionTyped, session
  <2>. QED  BY <1>0, <1>2, <1>a, <2>1, <2>3, <2>4, Zenon DEF LogoutConfirmed, Shape
<1>3. CASE LogoutFails
  <2>1. user' \in UserState
    BY <1>3, <1>d, SMT DEF LogoutFails
  <2>. QED  BY <1>0, <1>3, <1>a, <1>b, <1>c, <2>1, Zenon DEF LogoutFails, Shape
<1>4. CASE LogoutClear
  <2>1. user' \in UserState
    BY <1>4, <1>d, SMT DEF LogoutClear
  <2>2. None \in Credentials
    BY MaxTicketsAssumption, SMT DEF None, Credentials
  <2>3. SessionTyped'
    BY <1>0, <1>4, <1>f, <2>2, Zenon DEF LogoutClear, SessionTyped
  <2>. QED  BY <1>0, <1>4, <1>a, <1>c, <2>1, <2>3, Zenon DEF LogoutClear, Shape
<1>5. CASE SetTicketRead
  <2>1. PICK csrf \in 1 .. issued + 1 \union {ticket.csrf} :
          user' = [pc |-> "setWrite", held |-> [id |-> issued + 1, csrf |-> csrf],
                   ops |-> user.ops + 1]
    BY <1>5, Zenon DEF SetTicketRead
  <2>2. [id |-> issued + 1, csrf |-> csrf] \in Credentials
    BY <1>0, <1>5, <1>f, <2>1, MaxTicketsAssumption, SMT DEF SetTicketRead, ServerTyped, Credentials
  <2>3. user' \in UserState
    BY <1>5, <1>e, <2>1, <2>2, SMT DEF SetTicketRead
  <2>4. issued' \in 0 .. MaxTickets /\ live' \subseteq 1 .. issued' /\ bare' \subseteq 1 .. issued'
    BY <1>0, <1>5, MaxTicketsAssumption, SMT DEF SetTicketRead, ServerTyped
  <2>5. ServerTyped'
    BY <1>0, <1>5, <2>4, Zenon DEF SetTicketRead, ServerTyped
  <2>6. SessionTyped'
    BY <1>0, <1>5, Zenon DEF SetTicketRead, SessionTyped, session
  <2>. QED  BY <1>0, <1>5, <1>a, <2>3, <2>5, <2>6, Zenon DEF SetTicketRead, Shape
<1>6. CASE SetCSRFRead
  <2>1. PICK csrf \in 0 .. issued :
          user' = [pc |-> "setWrite", held |-> [ticket EXCEPT !.csrf = csrf], ops |-> user.ops + 1]
    BY <1>6, Zenon DEF SetCSRFRead
  <2>2. [ticket EXCEPT !.csrf = csrf] \in Credentials
    BY <1>0, <1>f, <2>1, MaxTicketsAssumption, SMT DEF ServerTyped, Credentials
  <2>3. user' \in UserState
    BY <1>6, <1>e, <2>1, <2>2, SMT DEF SetCSRFRead
  <2>. QED  BY <1>0, <1>6, <1>a, <1>b, <1>c, <2>3, Zenon DEF SetCSRFRead, Shape
<1>7. CASE SetWrite
  <2>1. user' \in UserState
    BY <1>7, <1>d, SMT DEF SetWrite
  <2>2. SessionTyped'
    BY <1>0, <1>7, <1>f, Zenon DEF SetWrite, SessionTyped
  <2>. QED  BY <1>0, <1>7, <1>a, <1>c, <2>1, <2>2, Zenon DEF SetWrite, Shape
<1>8. ASSUME NEW t \in TicketIds, Age(t) \/ Revoke(t)  PROVE Shape'
  <2>1. SessionTyped'
    BY <1>0, <1>8, Zenon DEF Age, Revoke, SessionTyped, session
  <2>2. upsets' \in 0 .. MaxUpsets
    BY <1>0, <1>8, MaxUpsetsAssumption, SMT DEF Age, Revoke, ServerTyped
  <2>3. issued' = issued /\ bare' = bare /\ live' \subseteq 1 .. issued
    <3>1. issued' = issued /\ bare' = bare /\ (live' = live \/ live' = live \ {t})
      BY <1>8, Zenon DEF Age, Revoke
    <3>2. live \subseteq 1 .. issued
      BY <1>0, Zenon DEF ServerTyped
    <3>. QED  BY <3>1, <3>2, Zenon
  <2>4. age' \in [TicketIds -> {"fresh", "aging", "expired"}]
    <3>1. CASE Revoke(t)
      BY <1>0, <3>1, Zenon DEF Revoke, ServerTyped
    <3>2. CASE Age(t)
      <4>1. age' = [age EXCEPT ![t] = "aging"] \/ age' = [age EXCEPT ![t] = "expired"]
        <5>1. CASE age[t] = "fresh"
          BY <3>2, <5>1, Zenon DEF Age
        <5>2. CASE age[t] # "fresh"
          BY <3>2, <5>2, Zenon DEF Age
        <5>. QED  BY <5>1, <5>2
      <4>. QED  BY <1>0, <4>1, SMT DEF ServerTyped
    <3>. QED  BY <1>8, <3>1, <3>2
  <2>5. ServerTyped'
    BY <1>0, <2>2, <2>3, <2>4, Zenon DEF ServerTyped
  <2>. QED  BY <1>0, <1>8, <1>a, <2>1, <2>5, Zenon DEF Age, Revoke, Shape
<1>9. CASE UNCHANGED vars
  <2>1. UNCHANGED <<requests, session, server, history, user>>
    BY <1>9, Zenon DEF vars, requests, session, server, history
  <2>. QED  BY <1>0, <1>a, <1>b, <1>c, <2>1, Zenon DEF Shape
<1>. QED  BY <1>1, <1>2, <1>3, <1>4, <1>5, <1>6, <1>7, <1>8, <1>9, Zenon DEF User, Environment

LEMMA ShapeInductive == Shape /\ [Next]_vars => Shape'
PROOF
<1>1. ASSUME Shape, NEW r \in Requests, Start(r) \/ Request(r)  PROVE Shape'
  BY <1>1, RequestMoves, RequestKeepsRest, Zenon DEF Shape
<1>. QED  BY <1>1, OthersKeepShape, Zenon DEF Next

\* Every variable keeps its type, so that no request goes out a third time
\* whatever the server answers to its replay.
THEOREM TypeCorrect == Spec => []TypeOK
PROOF
<1>1. Shape => TypeOK
  BY ShapeTypes, Zenon DEF Shape
<1>. QED  BY InitShape, ShapeInductive, <1>1, PTL DEF Spec

----
\* A step of one request leaves the others where they are.
LEMMA OthersStay ==
  ASSUME RequestsTyped, NEW r \in Requests, Start(r) \/ Request(r), NEW s \in Requests \ {r}
  PROVE  /\ pc'[s] = pc[s]
         /\ purpose'[s] = purpose[s]
         /\ got'[s] = got[s]
         /\ hdr'[s] = hdr[s]
         /\ sends'[s] = sends[s]
         /\ refused'[s] = refused[s]
PROOF
<1> DEFINE Same(f, g) == g = f \/ \E v : g = [f EXCEPT ![r] = v]
<1>1. ASSUME Same(pc, pc'), Same(purpose, purpose'), Same(got, got'), Same(hdr, hdr'),
             Same(sends, sends'), Same(refused, refused')
      PROVE  /\ pc'[s] = pc[s]
             /\ purpose'[s] = purpose[s]
             /\ got'[s] = got[s]
             /\ hdr'[s] = hdr[s]
             /\ sends'[s] = sends[s]
             /\ refused'[s] = refused[s]
  <2>1. pc'[s] = pc[s]
    BY <1>1, SMT DEF RequestsTyped
  <2>2. purpose'[s] = purpose[s]
    BY <1>1, SMT DEF RequestsTyped
  <2>3. got'[s] = got[s]
    BY <1>1, SMT DEF RequestsTyped
  <2>4. hdr'[s] = hdr[s]
    BY <1>1, SMT DEF RequestsTyped
  <2>5. sends'[s] = sends[s]
    BY <1>1, SMT DEF RequestsTyped
  <2>6. refused'[s] = refused[s]
    BY <1>1, SMT DEF RequestsTyped
  <2>. QED  BY <2>1, <2>2, <2>3, <2>4, <2>5, <2>6
<1> HIDE DEF Same
<1>2. ASSUME \E w : Goto(r, w) \/ End(r, w) \/ \E y : GotoFor(r, w, y)
      PROVE  /\ Same(pc, pc') /\ Same(purpose, purpose') /\ Same(hdr, hdr')
             /\ Same(sends, sends') /\ Same(refused, refused')
  BY <1>2, Zenon DEF Goto, End, GotoFor, Same
<1>3. ASSUME ForceLogin(r) \/ Send(r)
      PROVE  /\ Same(pc, pc') /\ Same(purpose, purpose') /\ Same(hdr, hdr')
             /\ Same(sends, sends') /\ Same(refused, refused')
  BY <1>3, Zenon DEF ForceLogin, Send, Same
<1>4. Same(got, got')
  BY Zenon DEF Same, Request, Start, RenewCheck, Check, AutoLock, Ensure, ServerGrants,
     ServerRefusesLogin, ServerChallenges, TFAFails, Install, TFAInstall, Recheck, Rearm, Send,
     Accepted, RefusedAndReplayed, RefusedForGood
<1>5. \/ \E w : Goto(r, w) \/ End(r, w) \/ \E y : GotoFor(r, w, y)
      \/ ForceLogin(r) \/ Send(r)
  BY Zenon DEF Request, Start, RenewCheck, Check, AutoLock, Ensure, ServerGrants,
     ServerRefusesLogin, ServerChallenges, TFAFails, Install, TFAInstall, Recheck, Rearm,
     Accepted, RefusedAndReplayed, RefusedForGood, Ready, AfterFailure, TakeMarker
<1>. QED  BY <1>1, <1>2, <1>3, <1>4, <1>5, Zenon

----
(***************************************************************************)
(* The automatic login. Besides the two properties the invariant says that *)
(* only an automatic login comes to "rearm", and that a ticket at hand was *)
(* once obtained: this is what ends a login with the marker still set.     *)
(***************************************************************************)
AutoInv ==
    /\ OneAutoLogin
    /\ FailedLoginRearms
    /\ ticket.id # 0 => everTicket
    /\ \A r \in Requests : pc[r] = "rearm" => purpose[r] = "auto"

\* A step of r, for the marker: r stays where it was with respect to automatic
\* login, leaves it holding a ticket, enters it, or gives it up.
LEMMA AutoSteps ==
  ASSUME Shape, AutoInv, NEW r \in Requests, Start(r) \/ Request(r)
  PROVE  /\ \/ loginAttempted' = loginAttempted /\ (AutoLoggingIn(r)' <=> AutoLoggingIn(r))
            \/ loginAttempted' = loginAttempted /\ ~AutoLoggingIn(r)' /\ everTicket'
            \/ ~loginAttempted /\ loginAttempted' /\ AutoLoggingIn(r)'
            \/ ~loginAttempted' /\ AutoLoggingIn(r) /\ ~AutoLoggingIn(r)'
         /\ everTicket => everTicket'
         /\ ticket' = ticket \/ everTicket'
         /\ pc'[r] = "rearm" => purpose'[r] = "auto"
PROOF
<1>0. RequestsTyped /\ loginAttempted \in BOOLEAN
  BY DEF Shape, SessionTyped
<1> USE <1>0 DEF AutoLoggingIn, At, session, history
<1>a. IsAuthenticated => everTicket
  BY DEF AutoInv, IsAuthenticated
<1>1. CASE Start(r)
  BY <1>1, SMT DEF Start, GotoFor, RequestsTyped
<1>2. CASE RenewCheck(r)
  BY <1>2, SMT DEF RenewCheck, Goto, GotoFor, RequestsTyped
<1>3. CASE Check(r)
  BY <1>3, SMT DEF Check, GotoFor, RequestsTyped
<1>4. CASE AutoLock(r)
  BY <1>4, SMT DEF AutoLock, TakeMarker, GotoFor, Ready, Goto, End, RequestsTyped
<1>5. CASE Ensure(r)
  BY <1>5, <1>a, SMT DEF Ensure, Ready, Goto, End, RequestsTyped
<1>6. CASE ServerGrants(r)
  BY <1>6, SMT DEF ServerGrants, Goto, RequestsTyped
<1>7. CASE ServerRefusesLogin(r)
  BY <1>7, SMT DEF ServerRefusesLogin, AfterFailure, Goto, End, RequestsTyped
<1>8. CASE ServerChallenges(r)
  BY <1>8, SMT DEF ServerChallenges, AfterFailure, Goto, End, RequestsTyped
<1>9. CASE TFAFails(r)
  BY <1>9, SMT DEF TFAFails, Goto, End, RequestsTyped
<1>10. CASE Install(r)
  BY <1>10, SMT DEF Install, Ready, Goto, End, RequestsTyped
<1>11. CASE TFAInstall(r)
  BY <1>11, SMT DEF TFAInstall, Goto, RequestsTyped
<1>12. CASE Recheck(r)
  BY <1>12, <1>a, SMT DEF Recheck, Ready, Goto, End, RequestsTyped
<1>13. CASE Rearm(r)
  BY <1>13, SMT DEF Rearm, End, RequestsTyped, AutoInv
<1>14. CASE Send(r)
  BY <1>14, SMT DEF Send, RequestsTyped
<1>15. CASE Accepted(r)
  BY <1>15, SMT DEF Accepted, End, RequestsTyped
<1>16. CASE RefusedAndReplayed(r)
  BY <1>16, SMT DEF RefusedAndReplayed, ForceLogin, RequestsTyped
<1>17. CASE RefusedForGood(r)
  BY <1>17, SMT DEF RefusedForGood, End, RequestsTyped
<1>. QED  BY <1>1, <1>2, <1>3, <1>4, <1>5, <1>6, <1>7, <1>8, <1>9, <1>10, <1>11, <1>12, <1>13,
             <1>14, <1>15, <1>16, <1>17, Zenon DEF Request

LEMMA AutoInductive == Shape /\ AutoInv /\ [Next]_vars => AutoInv'
PROOF
<1>1. ASSUME Shape, AutoInv, NEW r \in Requests, Start(r) \/ Request(r)  PROVE AutoInv'
  <2>1. \A s \in Requests \ {r} : pc'[s] = pc[s] /\ purpose'[s] = purpose[s]
    BY <1>1, OthersStay, Zenon DEF Shape
  <2>2. \A s \in Requests \ {r} : AutoLoggingIn(s)' <=> AutoLoggingIn(s)
    BY <2>1, Zenon DEF AutoLoggingIn
  <2>3. (ticket.id # 0 => everTicket)'
    BY <1>1, AutoSteps, Zenon DEF AutoInv
  <2>4. \A s \in Requests : pc'[s] = "rearm" => purpose'[s] = "auto"
    BY <1>1, <2>1, AutoSteps, Zenon DEF AutoInv
  <2>5. OneAutoLogin' /\ FailedLoginRearms'
    BY <1>1, <2>2, AutoSteps, Zenon DEF AutoInv, OneAutoLogin, FailedLoginRearms
  <2>. QED  BY <2>3, <2>4, <2>5, Zenon DEF AutoInv
<1>2. ASSUME AutoInv, User \/ Environment \/ UNCHANGED vars  PROVE AutoInv'
  <2>1. pc' = pc /\ purpose' = purpose /\ loginAttempted' = loginAttempted
    BY <1>2, Zenon DEF User, Environment, LogoutSend, LogoutConfirmed, LogoutFails, LogoutClear,
       SetTicketRead, SetCSRFRead, SetWrite, Age, Revoke, vars, requests, session
  <2>2. /\ everTicket' = everTicket \/ everTicket' = TRUE
        /\ ticket' = ticket \/ ticket' = None \/ everTicket' = TRUE
    <3>1. CASE SetWrite \/ LogoutClear
      BY <3>1, Zenon DEF SetWrite, LogoutClear
    <3>2. CASE LogoutSend \/ LogoutConfirmed \/ LogoutFails
      BY <3>2, Zenon DEF LogoutSend, LogoutConfirmed, LogoutFails, session, history
    <3>3. CASE SetTicketRead \/ SetCSRFRead
      BY <3>3, Zenon DEF SetTicketRead, SetCSRFRead, session, history
    <3>4. CASE Environment
      BY <3>4, Zenon DEF Environment, Age, Revoke, session
    <3>5. CASE UNCHANGED vars
      BY <3>5, Zenon DEF vars
    <3>. QED  BY <1>2, <3>1, <3>2, <3>3, <3>4, <3>5, Zenon DEF User
  <2>3. None.id = 0
    BY DEF None
  <2>a. (everTicket => everTicket') /\ (ticket' = ticket \/ ticket' = None \/ everTicket')
    BY <2>2, SMT
  <2>4. (ticket.id # 0 => everTicket)'
    BY <1>2, <2>a, <2>3, SMT DEF AutoInv
  <2>5. \A r \in Requests : AutoLoggingIn(r)' <=> AutoLoggingIn(r)
    BY <2>1, Zenon DEF AutoLoggingIn
  <2>6. OneAutoLogin' /\ FailedLoginRearms'
    BY <1>2, <2>1, <2>a, <2>5, SMT DEF AutoInv, OneAutoLogin, FailedLoginRearms
  <2>. QED  BY <1>2, <2>1, <2>4, <2>6, Zenon DEF AutoInv
<1>. QED  BY <1>1, <1>2, Zenon DEF Next

LEMMA InitAuto == Init => AutoInv
PROOF
  BY SMT DEF Init, AutoInv, OneAutoLogin, FailedLoginRearms, AutoLoggingIn, None

\* At most one request is inside an automatic login, with the marker set
\* (performAutoLogin), for any number of concurrent requests.
THEOREM AutoLoginExclusive == Spec => []OneAutoLogin
PROOF
<1>1. AutoInv => OneAutoLogin
  BY DEF AutoInv
<1>. QED  BY InitShape, ShapeInductive, InitAuto, AutoInductive, <1>1, PTL DEF Spec

\* A failed login never disables automatic login (performAutoLogin's rearming).
THEOREM AutoLoginRearmed == Spec => []FailedLoginRearms
PROOF
<1>1. AutoInv => FailedLoginRearms
  BY DEF AutoInv
<1>. QED  BY InitShape, ShapeInductive, InitAuto, AutoInductive, <1>1, PTL DEF Spec

----
(***************************************************************************)
(* The credentials of a replay. Logins finish in any order, so the ticket  *)
(* a replay picks up need not be the one it logged in for. What saves it   *)
(* is that a granted ticket is installed once: until then no header, no    *)
(* refusal and no copy the caller holds names it.                          *)
(***************************************************************************)
Known ==
    /\ ticket.id \in 0 .. issued
    /\ user.held.id \in 0 .. issued
    /\ \A r \in Requests :
        /\ got[r] \in 0 .. issued
        /\ hdr[r].id \in 0 .. issued
        /\ refused[r] \in 0 .. issued

Unseen ==
    \A r \in Requests : got[r] # 0 =>
        /\ got[r] # ticket.id
        /\ got[r] # user.held.id
        /\ \A s \in Requests :
            /\ got[r] # hdr[s].id
            /\ got[r] # refused[s]
            /\ s # r => got[r] # got[s]

Granted == \A r \in Requests : pc[r] \in {"install", "tfaInstall"} => got[r] # 0

NewForReplay ==
    \A r \in Requests \ meddled : purpose[r] = "replay" =>
        /\ pc[r] = "headers" => ticket.id # 0 /\ ticket.id # refused[r]
        /\ pc[r] = "sent" => hdr[r].id # refused[r]

CredentialInv == Known /\ Unseen /\ Granted /\ NewForReplay

\* What a step of r does with tickets: it may install the one it was granted or
\* be granted the next, and its headers and its refusal name what was at hand.
LEMMA CredentialSteps ==
  ASSUME Shape, CredentialInv, NEW r \in Requests, Start(r) \/ Request(r)
  PROVE  /\ user' = user /\ meddled' = meddled /\ setterUsed' = setterUsed
         /\ \/ ticket' = ticket /\ issued' = issued /\ got'[r] = got[r]
            \/ /\ ticket' = [id |-> got[r], csrf |-> Token(got[r])]
               /\ got[r] # 0 /\ issued' = issued /\ got'[r] = 0
            \/ ticket' = ticket /\ issued' = issued + 1 /\ got'[r] = issued + 1
         /\ bare' = bare \/ (issued' = issued + 1 /\ bare' = bare \union {issued + 1})
         /\ hdr'[r] = hdr[r] \/ hdr'[r] = None \/ hdr'[r] = SetHeaders(hdr[r], ticket)
         /\ refused'[r] \in {refused[r], hdr[r].id, 0}
         /\ pc'[r] \in {"install", "tfaInstall"} => got'[r] # 0
         /\ r \notin meddled /\ purpose'[r] = "replay" =>
              /\ pc'[r] = "headers" => ticket'.id # 0 /\ ticket'.id # refused'[r]
              /\ pc'[r] = "sent" => hdr'[r].id # refused'[r]
PROOF
<1>0. RequestsTyped /\ issued \in Nat
  BY MaxTicketsAssumption, SMT DEF Shape, ServerTyped
<1>a. /\ purpose[r] = "replay" => pc[r] \in {"login", "install", "headers", "sent"}
      /\ pc[r] \in {"install", "tfaInstall"} => got[r] # 0
      /\ got[r] # 0 => got[r] # refused[r]
      /\ r \notin meddled /\ purpose[r] = "replay" /\ pc[r] = "headers" =>
           ticket.id # 0 /\ ticket.id # refused[r]
  BY Zenon DEF Shape, Flow, CredentialInv, Granted, Unseen, NewForReplay
<1> USE <1>0, <1>a DEF At, session, history, server, RequestsTyped
<1>1. CASE Start(r)
  BY <1>1, SMT DEF Start, GotoFor
<1>2. CASE RenewCheck(r)
  BY <1>2, SMT DEF RenewCheck, Goto, GotoFor
<1>3. CASE Check(r)
  BY <1>3, SMT DEF Check, GotoFor
<1>4. CASE AutoLock(r)
  BY <1>4, SMT DEF AutoLock, TakeMarker, GotoFor, Ready, Goto, End
<1>5. CASE Ensure(r)
  BY <1>5, SMT DEF Ensure, Ready, Goto, End
<1>6. CASE ServerGrants(r)
  BY <1>6, SMT DEF ServerGrants, Goto
<1>7. CASE ServerRefusesLogin(r)
  BY <1>7, SMT DEF ServerRefusesLogin, AfterFailure, Goto, End
<1>8. CASE ServerChallenges(r)
  BY <1>8, SMT DEF ServerChallenges, AfterFailure, Goto, End
<1>9. CASE TFAFails(r)
  BY <1>9, SMT DEF TFAFails, Goto, End
<1>10. CASE Install(r)
  BY <1>10, SMT DEF Install, Ready, Goto, End
<1>11. CASE TFAInstall(r)
  BY <1>11, SMT DEF TFAInstall, Goto
<1>12. CASE Recheck(r)
  BY <1>12, SMT DEF Recheck, Ready, Goto, End
<1>13. CASE Rearm(r)
  BY <1>13, SMT DEF Rearm, End
<1>14. CASE Send(r)
  <2>1. hdr'[r] = SetHeaders(hdr[r], ticket)
    BY <1>14, SMT DEF Send
  <2>2. ticket.id # 0 => SetHeaders(hdr[r], ticket).id = ticket.id
    BY SMT DEF SetHeaders
  <2>3. pc'[r] = "sent" /\ purpose' = purpose /\ refused' = refused /\ got' = got
        /\ pc[r] = "headers" /\ UNCHANGED <<session, user, server, history>>
    BY <1>14, SMT DEF Send
  <2>. QED  BY <2>1, <2>2, <2>3, SMT
<1>15. CASE Accepted(r)
  BY <1>15, SMT DEF Accepted, End
<1>16. CASE RefusedAndReplayed(r)
  BY <1>16, SMT DEF RefusedAndReplayed, ForceLogin
<1>17. CASE RefusedForGood(r)
  BY <1>17, SMT DEF RefusedForGood, End
<1>. QED  BY <1>1, <1>2, <1>3, <1>4, <1>5, <1>6, <1>7, <1>8, <1>9, <1>10, <1>11, <1>12, <1>13,
             <1>14, <1>15, <1>16, <1>17, Zenon DEF Request

\* Header names: the id of the new headers is one that was there before.
LEMMA HeaderIds ==
  ASSUME NEW old, NEW held
  PROVE  SetHeaders(old, held).id \in {old.id, held.id} /\ None.id = 0
PROOF
  BY SMT DEF SetHeaders, None

LEMMA NextId ==
  ASSUME NEW n \in Nat
  PROVE  /\ 0 .. n \subseteq 0 .. (n + 1)
         /\ n + 1 \in 0 .. (n + 1)
         /\ n + 1 \notin 0 .. n
         /\ n + 1 # 0
         /\ 0 \in 0 .. n
PROOF
  BY SMT

LEMMA RequestCredentials ==
  ASSUME Shape, CredentialInv, NEW r \in Requests, Start(r) \/ Request(r)
  PROVE  CredentialInv'
PROOF
<1>1. issued \in Nat
  BY MaxTicketsAssumption, SMT DEF Shape, ServerTyped
<1>2. \A s \in Requests \ {r} :
        /\ pc'[s] = pc[s] /\ purpose'[s] = purpose[s] /\ got'[s] = got[s]
        /\ hdr'[s] = hdr[s] /\ refused'[s] = refused[s]
  BY OthersStay, Zenon DEF Shape
<1>3. user' = user /\ meddled' = meddled
  BY CredentialSteps, Zenon
<1>4. hdr'[r].id \in {hdr[r].id, ticket.id, 0}
  BY CredentialSteps, HeaderIds, SMT
<1>5. refused'[r] \in {refused[r], hdr[r].id, 0}
  BY CredentialSteps, Zenon
<1>6. \/ ticket'.id = ticket.id /\ issued' = issued /\ got'[r] = got[r]
      \/ ticket'.id = got[r] /\ got[r] # 0 /\ issued' = issued /\ got'[r] = 0
      \/ ticket'.id = ticket.id /\ issued' = issued + 1 /\ got'[r] = issued + 1
  BY CredentialSteps, SMT
<1>7. 0 .. issued \subseteq 0 .. issued'
  BY <1>1, <1>6, NextId, SMT
<1>8. Known'
  <2>1. ticket'.id \in 0 .. issued' /\ got'[r] \in 0 .. issued'
    <3>1. 0 \in 0 .. issued /\ issued + 1 \in 0 .. (issued + 1)
      BY <1>1, NextId, Zenon
    <3>2. ticket.id \in 0 .. issued' /\ got[r] \in 0 .. issued' /\ 0 \in 0 .. issued'
      BY <1>7, <3>1, Zenon DEF CredentialInv, Known
    <3>. QED  BY <1>6, <3>1, <3>2, Zenon
  <2>2. hdr'[r].id \in 0 .. issued' /\ refused'[r] \in 0 .. issued'
    BY <1>1, <1>4, <1>5, <1>7, NextId, Zenon DEF CredentialInv, Known
  <2>. QED  BY <1>2, <1>3, <1>7, <2>1, <2>2, Zenon DEF CredentialInv, Known
<1>9. Unseen'
  <2>0. issued + 1 \notin 0 .. issued /\ issued + 1 # 0 /\ 0 \in 0 .. issued
    BY <1>1, NextId, Zenon
  <2>1. \A s \in Requests : got[s] # 0 => got[s] # hdr'[r].id /\ got[s] # refused'[r]
    BY <1>4, <1>5, Zenon DEF CredentialInv, Unseen
  <2>a. /\ ticket.id # issued + 1 /\ user.held.id # issued + 1
        /\ hdr'[r].id # issued + 1 /\ refused'[r] # issued + 1
    BY <1>4, <1>5, <2>0, Zenon DEF CredentialInv, Known
  <2>b. \A s \in Requests : /\ hdr[s].id # issued + 1 /\ refused[s] # issued + 1
                            /\ got[s] # issued + 1
    BY <2>0, Zenon DEF CredentialInv, Known
  <2>c. ticket'.id \in {ticket.id, got[r]} /\ got'[r] \in {got[r], 0, issued + 1}
    BY <1>6, Zenon
  <2>2. \A s \in Requests \ {r} : got'[s] # 0 =>
          /\ got'[s] # ticket'.id
          /\ got'[s] # user'.held.id
          /\ got'[s] # got'[r]
    <3>1. ASSUME NEW s \in Requests \ {r}, got[s] # 0
          PROVE  got[s] # ticket.id /\ got[s] # user.held.id /\ got[s] # got[r]
      BY <3>1, Zenon DEF CredentialInv, Unseen
    <3>2. ASSUME NEW s \in Requests \ {r}, got[s] # 0
          PROVE  got[s] # ticket'.id /\ got[s] # user'.held.id /\ got[s] # got'[r]
      BY <1>3, <2>b, <2>c, <3>1, <3>2, Zenon
    <3>. QED  BY <1>2, <3>2, Zenon
  <2>3. got'[r] # 0 => got'[r] # ticket'.id /\ got'[r] # user'.held.id
    BY <1>3, <1>6, <2>a, Zenon DEF CredentialInv, Unseen
  <2>4. \A s \in Requests : got'[r] # 0 => got'[r] # hdr'[s].id /\ got'[r] # refused'[s]
    <3>1. ASSUME NEW s \in Requests \ {r}, got'[r] # 0
          PROVE  got'[r] # hdr[s].id /\ got'[r] # refused[s]
      BY <2>b, <2>c, <3>1, Zenon DEF CredentialInv, Unseen
    <3>2. got'[r] # 0 => got'[r] # hdr'[r].id /\ got'[r] # refused'[r]
      BY <2>1, <2>a, <2>c, Zenon
    <3>. QED  BY <1>2, <3>1, <3>2, Zenon
  <2>5. \A s, t \in Requests : got'[s] # 0 => got'[s] # hdr'[t].id /\ got'[s] # refused'[t]
    <3>1. ASSUME NEW s \in Requests \ {r}, NEW t \in Requests, got[s] # 0
          PROVE  got[s] # hdr'[t].id /\ got[s] # refused'[t]
      <4>1. CASE t = r
        BY <2>1, <3>1, <4>1, Zenon
      <4>2. CASE t # r
        <5>1. got[s] # hdr[t].id /\ got[s] # refused[t]
          BY <3>1, Zenon DEF CredentialInv, Unseen
        <5>2. hdr'[t] = hdr[t] /\ refused'[t] = refused[t]
          BY <1>2, <4>2, Zenon
        <5>. QED  BY <5>1, <5>2, Zenon
      <4>. QED  BY <4>1, <4>2
    <3>. QED  BY <1>2, <2>4, <3>1, Zenon
  <2>6. \A s, t \in Requests : got'[s] # 0 /\ t # s => got'[s] # got'[t]
    <3>1. ASSUME NEW s \in Requests \ {r}, NEW t \in Requests \ {r}, got[s] # 0, t # s
          PROVE  got[s] # got[t]
      BY <3>1, Zenon DEF CredentialInv, Unseen
    <3>2. ASSUME NEW t \in Requests \ {r}, got'[r] # 0
          PROVE  got'[r] # got[t]
      BY <2>b, <2>c, <3>2, Zenon DEF CredentialInv, Unseen
    <3>. QED  BY <1>2, <2>2, <3>1, <3>2, Zenon
  <2>. QED  BY <2>2, <2>3, <2>5, <2>6, Zenon DEF Unseen
<1>10. Granted'
  BY <1>2, CredentialSteps, Zenon DEF CredentialInv, Granted
<1>11. NewForReplay'
  <2>1. ASSUME NEW s \in Requests \ meddled, s # r, purpose[s] = "replay"
        PROVE  /\ pc[s] = "headers" => ticket'.id # 0 /\ ticket'.id # refused[s]
               /\ pc[s] = "sent" => hdr[s].id # refused[s]
    BY <1>6, <2>1, Zenon DEF CredentialInv, Unseen, NewForReplay
  <2>. QED  BY <1>2, <1>3, <2>1, CredentialSteps, Zenon DEF NewForReplay
<1>. QED  BY <1>8, <1>9, <1>10, <1>11, Zenon DEF CredentialInv

LEMMA OthersCredentials ==
  ASSUME Shape, CredentialInv, User \/ Environment \/ UNCHANGED vars
  PROVE  CredentialInv'
PROOF
<1>1. issued \in Nat /\ ticket \in Credentials /\ user \in UserState
  BY MaxTicketsAssumption, SMT DEF Shape, ServerTyped, SessionTyped
<1>2. pc' = pc /\ purpose' = purpose /\ got' = got /\ hdr' = hdr /\ refused' = refused
  BY Zenon DEF User, Environment, LogoutSend, LogoutConfirmed, LogoutFails, LogoutClear,
     SetTicketRead, SetCSRFRead, SetWrite, Age, Revoke, vars, requests
<1>3. \A p : [user EXCEPT !.pc = p].held = user.held
  BY <1>1, SMT DEF UserState
<1>4. \/ ticket' = ticket /\ meddled' = meddled
      \/ (ticket' = None \/ ticket' = user.held) /\ meddled' = Replaying
  <2>1. CASE SetWrite \/ LogoutClear
    BY <2>1, Zenon DEF SetWrite, LogoutClear
  <2>2. CASE LogoutSend \/ LogoutConfirmed \/ LogoutFails
    BY <2>2, Zenon DEF LogoutSend, LogoutConfirmed, LogoutFails, session, history
  <2>3. CASE SetTicketRead \/ SetCSRFRead
    BY <2>3, Zenon DEF SetTicketRead, SetCSRFRead, session, history
  <2>4. CASE Environment \/ UNCHANGED vars
    BY <2>4, Zenon DEF Environment, Age, Revoke, vars, session
  <2>. QED  BY <2>1, <2>2, <2>3, <2>4, Zenon DEF User
<1>5. \/ issued' = issued /\ user'.held.id \in {user.held.id, ticket.id}
      \/ issued' = issued + 1 /\ user'.held.id = issued + 1
  <2>1. CASE LogoutSend
    BY <2>1, SMT DEF LogoutSend, server
  <2>2. CASE LogoutConfirmed \/ LogoutFails \/ LogoutClear \/ SetWrite
    <3>1. issued' = issued /\ \E p : user' = [user EXCEPT !.pc = p]
      BY <2>2, Zenon DEF LogoutConfirmed, LogoutFails, LogoutClear, SetWrite, server
    <3>. QED  BY <1>3, <3>1, Zenon
  <2>3. CASE SetTicketRead
    BY <2>3, SMT DEF SetTicketRead
  <2>4. CASE SetCSRFRead
    <3>1. \A c : [ticket EXCEPT !.csrf = c].id = ticket.id
      BY <1>1, SMT DEF Credentials
    <3>2. issued' = issued /\ \E p, c, n : user' = [pc |-> p, held |-> [ticket EXCEPT !.csrf = c], ops |-> n]
      BY <2>4, Zenon DEF SetCSRFRead, server
    <3>3. \E c : user'.held = [ticket EXCEPT !.csrf = c]
      BY <3>2, SMT
    <3>. QED  BY <3>1, <3>2, <3>3, Zenon
  <2>5. CASE Environment \/ UNCHANGED vars
    BY <2>5, Zenon DEF Environment, Age, Revoke, vars
  <2>. QED  BY <2>1, <2>2, <2>3, <2>4, <2>5, Zenon DEF User
<1>6. 0 .. issued \subseteq 0 .. issued'
  BY <1>1, <1>5, NextId, SMT
<1>7. ticket'.id \in {ticket.id, user.held.id, 0}
  BY <1>4, HeaderIds, SMT
<1>8. Known'
  <2>1. ticket'.id \in 0 .. issued' /\ user'.held.id \in 0 .. issued'
    BY <1>1, <1>5, <1>6, <1>7, NextId, Zenon DEF CredentialInv, Known
  <2>. QED  BY <1>2, <1>6, <2>1, Zenon DEF CredentialInv, Known
<1>9. Unseen'
  <2>1. \A r \in Requests : got[r] # 0 => got[r] # ticket'.id
    BY <1>7, Zenon DEF CredentialInv, Unseen
  <2>2. \A r \in Requests : got[r] # 0 => got[r] # user'.held.id
    <3>1. issued + 1 \notin 0 .. issued
      BY <1>1, NextId, Zenon
    <3>2. \A r \in Requests : got[r] # issued + 1
      BY <3>1, Zenon DEF CredentialInv, Known
    <3>. QED  BY <1>5, <3>2, Zenon DEF CredentialInv, Unseen
  <2>. QED  BY <1>2, <2>1, <2>2, Zenon DEF CredentialInv, Unseen
<1>10. Granted'
  BY <1>2, Zenon DEF CredentialInv, Granted
<1>11. NewForReplay'
  <2>1. CASE ticket' = ticket /\ meddled' = meddled
    BY <1>2, <2>1, Zenon DEF CredentialInv, NewForReplay
  <2>2. CASE meddled' = Replaying
    BY <1>2, <2>2, Zenon DEF NewForReplay, Replaying
  <2>. QED  BY <1>4, <2>1, <2>2
<1>. QED  BY <1>8, <1>9, <1>10, <1>11, Zenon DEF CredentialInv

LEMMA InitCredentials == Init => CredentialInv
PROOF
  BY SMT DEF Init, CredentialInv, Known, Unseen, Granted, NewForReplay, None

LEMMA CredentialsInductive == Shape /\ CredentialInv /\ [Next]_vars => CredentialInv'
PROOF
  BY RequestCredentials, OthersCredentials, Zenon DEF Next

\* A replay after a 401 never carries the ticket that was refused, for any
\* number of requests whose logins finish in any order, unless the caller
\* cleared or set the ticket meanwhile (handleAuthenticationRetry).
THEOREM ReplayCarriesNewTicket == Spec => []ReplayNotWithRefused
PROOF
<1>2. Shape /\ CredentialInv => ReplayNotWithRefused
  <2>1. ASSUME Flow, NewForReplay, NEW r \in Requests, At(r, "sent"), sends[r] = 2, r \notin meddled
        PROVE  hdr[r].id # refused[r]
    <3>1. purpose[r] = "replay"
      BY <2>1, SMT DEF Flow, At
    <3>. QED  BY <2>1, <3>1, Zenon DEF NewForReplay, At
  <2>. QED  BY <2>1, Zenon DEF Shape, CredentialInv, ReplayNotWithRefused
<1>. QED  BY InitShape, ShapeInductive, InitCredentials, CredentialsInductive, <1>2, PTL DEF Spec

----
(***************************************************************************)
(* Which token goes with which ticket. A request has no headers before its *)
(* first send, and those of its first send until the replay. Hence the     *)
(* headers a replay starts from are a pair, named by the refused ticket.   *)
(***************************************************************************)
Pair(c) == c.csrf = Token(c.id)

HeldOver(r) == sends[r] = 2 /\ hdr[r].id \in bare /\ hdr[r].csrf = Token(refused[r])

Paired ==
    ~setterUsed =>
        /\ Pair(ticket)
        /\ \A r \in Requests :
            /\ Pair(hdr[r]) \/ HeldOver(r)
            /\ sends[r] = 0 => hdr[r] = None
            /\ purpose[r] = "replay" /\ sends[r] = 1 => hdr[r].id = refused[r]

\* What a step of r does to its headers: nothing, unless it ends, goes out or starts its replay.
Keeps(r) ==
    /\ hdr'[r] = hdr[r] /\ sends'[r] = sends[r] /\ refused'[r] = refused[r]
    /\ purpose'[r] = "replay" => purpose[r] = "replay"

Drops(r) == hdr'[r] = None /\ sends'[r] = 0

Adds(r) ==
    /\ pc[r] = "headers" /\ hdr'[r] = SetHeaders(hdr[r], ticket)
    /\ sends'[r] = sends[r] + 1 /\ refused'[r] = refused[r]
    /\ purpose'[r] = purpose[r] /\ ticket' = ticket /\ bare' = bare

Turns(r) == hdr'[r] = hdr[r] /\ sends[r] = 1 /\ sends'[r] = 1 /\ refused'[r] = hdr[r].id

LEMMA HeaderSteps ==
  ASSUME Shape, NEW r \in Requests, Start(r) \/ Request(r)
  PROVE  Keeps(r) \/ Drops(r) \/ Adds(r) \/ Turns(r)
PROOF
<1>0. RequestsTyped
  BY DEF Shape
<1>1. ASSUME NEW w, Goto(r, w)  PROVE Keeps(r)
  BY <1>1, Zenon DEF Goto, Keeps
<1>2. ASSUME NEW w, NEW why \in {"renew", "manual", "auto"}, GotoFor(r, w, why)  PROVE Keeps(r)
  BY <1>0, <1>2, SMT DEF GotoFor, Keeps, RequestsTyped
<1>3. ASSUME NEW result, End(r, result)  PROVE Drops(r)
  BY <1>0, <1>3, SMT DEF End, Drops, RequestsTyped
<1>4. Send(r) => Adds(r)
  BY <1>0, SMT DEF Send, At, Adds, RequestsTyped, session, server
<1>5. RefusedAndReplayed(r) => Turns(r)
  BY <1>0, SMT DEF RefusedAndReplayed, Replays, ForceLogin, Turns, RequestsTyped
<1>6. \/ \E w : Goto(r, w) \/ End(r, w) \/ \E why \in {"renew", "manual", "auto"} : GotoFor(r, w, why)
      \/ Send(r) \/ RefusedAndReplayed(r)
  BY Zenon DEF Request, Start, RenewCheck, Check, AutoLock, Ensure, ServerGrants,
     ServerRefusesLogin, ServerChallenges, TFAFails, Install, TFAInstall, Recheck, Rearm,
     Accepted, RefusedForGood, Ready, AfterFailure, TakeMarker
<1>. QED  BY <1>1, <1>2, <1>3, <1>4, <1>5, <1>6, Zenon

\* A ticket keeps the token it came with, or goes on without one.
LEMMA TokensStay ==
  ASSUME ServerTyped, bare' = bare \/ bare' = bare \union {issued + 1}
  PROVE  /\ \A t \in 0 .. issued : t \in bare' <=> t \in bare
         /\ 0 \notin bare' /\ bare \subseteq bare'
PROOF
  BY MaxTicketsAssumption, SMT DEF ServerTyped

\* What one request adds to its headers, from a pair of headers and the pair at hand.
LEMMA SendPairs ==
  ASSUME ServerTyped, NEW held \in Credentials, Pair(held), NEW old \in Credentials, Pair(old)
  PROVE  LET new == SetHeaders(old, held)
         IN  Pair(new) \/ (new.id \in bare /\ new.csrf = old.csrf /\ old # None)
PROOF
<1>1. 0 \notin bare
  BY SMT DEF ServerTyped
<1>2. CASE held.id = 0
  BY <1>1, <1>2, SMT DEF SetHeaders, Pair, Token, Credentials, None
<1>3. CASE held.id # 0 /\ held.csrf # 0
  BY <1>3, SMT DEF SetHeaders, Pair, Token, Credentials, None
<1>4. CASE held.id # 0 /\ held.csrf = 0
  BY <1>4, SMT DEF SetHeaders, Pair, Token, Credentials, None
<1>. QED  BY <1>2, <1>3, <1>4

LEMMA PairedInductive ==
  (Init => Paired) /\ (Shape /\ CredentialInv /\ Paired /\ [Next]_vars => Paired')
PROOF
<1>1. Init => Paired
  <2> SUFFICES ASSUME Init  PROVE Paired
    OBVIOUS
  <2>1. Pair(ticket) /\ Pair(None)
    BY SMT DEF Init, Pair, Token, None
  <2>2. \A r \in Requests : hdr[r] = None /\ purpose[r] = "none"
    BY SMT DEF Init
  <2>. QED  BY <2>1, <2>2, Zenon DEF Paired
<1>2. ASSUME Shape, CredentialInv, Paired, NEW r \in Requests, Start(r) \/ Request(r), ~setterUsed'
      PROVE  /\ Pair(ticket)'
             /\ \A s \in Requests :
                  /\ Pair(hdr[s])' \/ HeldOver(s)'
                  /\ sends'[s] = 0 => hdr'[s] = None
                  /\ purpose'[s] = "replay" /\ sends'[s] = 1 => hdr'[s].id = refused'[s]
  <2>1. \A s \in Requests \ {r} : /\ hdr'[s] = hdr[s] /\ sends'[s] = sends[s]
                                  /\ refused'[s] = refused[s] /\ purpose'[s] = purpose[s]
    BY <1>2, OthersStay, Zenon DEF Shape
  <2>2. ServerTyped /\ Known /\ Flow /\ RequestsTyped /\ ticket \in Credentials
    BY <1>2, Zenon DEF Shape, CredentialInv, SessionTyped
  <2>3. bare' = bare \/ (issued' = issued + 1 /\ bare' = bare \union {issued + 1})
    BY <1>2, CredentialSteps, Zenon
  <2>4. /\ \A t \in 0 .. issued : t \in bare' <=> t \in bare
        /\ 0 \notin bare' /\ bare \subseteq bare'
    BY <2>2, <2>3, TokensStay, Zenon
  <2>5. /\ Pair(ticket)
        /\ \A s \in Requests :
             /\ Pair(hdr[s]) \/ HeldOver(s)
             /\ sends[s] = 0 => hdr[s] = None
             /\ purpose[s] = "replay" /\ sends[s] = 1 => hdr[s].id = refused[s]
    BY <1>2, CredentialSteps, Zenon DEF Paired
  <2>6. Pair(ticket)'
    <3>1. CASE ticket' = ticket
      BY <2>2, <2>4, <2>5, <3>1, Zenon DEF Pair, Token, Known
    <3>2. CASE ticket' = [id |-> got[r], csrf |-> Token(got[r])]
      BY <2>2, <2>4, <3>2, SMT DEF Pair, Token, Known
    <3>. QED  BY <1>2, <3>1, <3>2, CredentialSteps, Zenon
  <2>7. \A s \in Requests : /\ hdr[s].id \in bare' <=> hdr[s].id \in bare
                            /\ refused[s] \in bare' <=> refused[s] \in bare
    BY <2>2, <2>4, Zenon DEF Known
  <2>8. ASSUME NEW s \in Requests \ {r}
        PROVE  /\ Pair(hdr[s])' \/ HeldOver(s)'
               /\ sends'[s] = 0 => hdr'[s] = None
               /\ purpose'[s] = "replay" /\ sends'[s] = 1 => hdr'[s].id = refused'[s]
    <3>1. /\ hdr'[s] = hdr[s] /\ sends'[s] = sends[s]
          /\ refused'[s] = refused[s] /\ purpose'[s] = purpose[s]
      BY <2>1
    <3>2. (Pair(hdr[s])' <=> Pair(hdr[s])) /\ (HeldOver(s)' <=> HeldOver(s))
      BY <2>7, <3>1, Zenon DEF Pair, HeldOver, Token
    <3>. QED  BY <2>5, <3>1, <3>2, Zenon
  <2>9. /\ Pair(hdr[r])' \/ HeldOver(r)'
        /\ sends'[r] = 0 => hdr'[r] = None
        /\ purpose'[r] = "replay" /\ sends'[r] = 1 => hdr'[r].id = refused'[r]
    <3>1. CASE Keeps(r)
      <4>1. (Pair(hdr[r])' <=> Pair(hdr[r])) /\ (HeldOver(r)' <=> HeldOver(r))
        BY <2>7, <3>1, Zenon DEF Keeps, Pair, HeldOver, Token
      <4>. QED  BY <2>5, <3>1, <4>1, Zenon DEF Keeps
    <3>2. CASE Drops(r)
      <4>1. Pair(hdr[r])'
        BY <2>4, <3>2, SMT DEF Drops, Pair, Token, None
      <4>. QED  BY <3>2, <4>1, SMT DEF Drops
    <3>3. CASE Adds(r)
      <4>1. sends[r] = IF purpose[r] = "replay" THEN 1 ELSE 0
        BY <2>2, <3>3, SMT DEF Flow, Adds
      <4>2. Pair(hdr[r]) /\ hdr[r] \in Credentials
        BY <2>2, <2>5, <4>1, SMT DEF HeldOver, RequestsTyped
      <4>3. \/ Pair(SetHeaders(hdr[r], ticket))
            \/ /\ SetHeaders(hdr[r], ticket).id \in bare
               /\ SetHeaders(hdr[r], ticket).csrf = hdr[r].csrf
               /\ hdr[r] # None
        BY <2>2, <2>5, <4>2, SendPairs, Zenon
      <4>4. hdr[r] # None => purpose[r] = "replay" /\ hdr[r].id = refused[r] /\ sends'[r] = 2
        BY <2>5, <3>3, <4>1, SMT DEF Adds
      <4>5. Pair(hdr[r])' \/ HeldOver(r)'
        BY <3>3, <4>2, <4>3, <4>4, Zenon DEF Adds, Pair, HeldOver, Token
      <4>6. sends'[r] # 0 /\ (purpose'[r] = "replay" => sends'[r] # 1)
        BY <3>3, <4>1, SMT DEF Adds
      <4>. QED  BY <4>5, <4>6
    <3>4. CASE Turns(r)
      <4>1. Pair(hdr[r])
        BY <2>5, <3>4, SMT DEF Turns, HeldOver
      <4>2. Pair(hdr[r])'
        BY <2>7, <3>4, <4>1, Zenon DEF Turns, Pair, Token
      <4>. QED  BY <3>4, <4>2, SMT DEF Turns
    <3>. QED  BY <1>2, <3>1, <3>2, <3>3, <3>4, HeaderSteps
  <2>. QED  BY <2>6, <2>8, <2>9, Zenon
<1>3. ASSUME Shape, Paired, User \/ Environment \/ UNCHANGED vars  PROVE Paired'
  <2>1. /\ hdr' = hdr /\ sends' = sends /\ refused' = refused /\ purpose' = purpose /\ bare' = bare
    BY <1>3, Zenon DEF User, Environment, LogoutSend, LogoutConfirmed, LogoutFails, LogoutClear,
       SetTicketRead, SetCSRFRead, SetWrite, Age, Revoke, vars, requests, server
  <2>2. setterUsed' = TRUE \/ (setterUsed' = setterUsed /\ (ticket' = ticket \/ ticket' = None))
    <3>1. CASE SetWrite \/ LogoutClear
      BY <3>1, Zenon DEF SetWrite, LogoutClear
    <3>2. CASE LogoutSend \/ LogoutConfirmed \/ LogoutFails
      BY <3>2, Zenon DEF LogoutSend, LogoutConfirmed, LogoutFails, session, history
    <3>3. CASE SetTicketRead \/ SetCSRFRead
      BY <3>3, Zenon DEF SetTicketRead, SetCSRFRead, session, history
    <3>4. CASE Environment \/ UNCHANGED vars
      BY <3>4, Zenon DEF Environment, Age, Revoke, vars, session
    <3>. QED  BY <1>3, <3>1, <3>2, <3>3, <3>4, Zenon DEF User
  <2>3. Pair(None)
    BY <1>3, SMT DEF Shape, ServerTyped, Pair, Token, None
  <2>4. \A s \in Requests : (Pair(hdr[s])' <=> Pair(hdr[s])) /\ (HeldOver(s)' <=> HeldOver(s))
    BY <2>1, Zenon DEF Pair, HeldOver, Token
  <2>5. ASSUME ~setterUsed, Pair(ticket)'  PROVE Paired'
    BY <1>3, <2>1, <2>4, <2>5, Zenon DEF Paired
  <2>6. setterUsed' = TRUE => Paired'
    BY Zenon DEF Paired
  <2>7. ~setterUsed => Pair(ticket)
    BY <1>3, Zenon DEF Paired
  <2>8. CASE setterUsed' = setterUsed /\ (ticket' = ticket \/ ticket' = None)
    <3>1. CASE setterUsed
      BY <2>8, <3>1, Zenon DEF Paired
    <3>2. CASE ~setterUsed
      <4>1. Pair(ticket)'
        BY <2>1, <2>3, <2>7, <2>8, <3>2, Zenon DEF Pair, Token
      <4>. QED  BY <2>5, <3>2, <4>1
    <3>. QED  BY <3>1, <3>2
  <2>. QED  BY <2>2, <2>6, <2>8
<1>4. ASSUME Shape, CredentialInv, Paired, [Next]_vars  PROVE Paired'
  <2>1. ASSUME NEW r \in Requests, Start(r) \/ Request(r)  PROVE Paired'
    BY <1>2, <1>4, <2>1, Zenon DEF Paired
  <2>. QED  BY <1>3, <1>4, <2>1, Zenon DEF Next
<1>. QED  BY <1>1, <1>4

\* While the caller leaves tickets and tokens alone, a request carries the token of the ticket it
\* carries. Only a replay whose new ticket came without one still has a token, and that is the
\* refused ticket's, whichever logins, renewals and logouts come between (applyAuthHeaders).
THEOREM HeadersMatch == Spec => []HeadersFromOneTicket
PROOF
<1>1. Paired => HeadersFromOneTicket
  BY Zenon DEF Paired, Pair, HeldOver, HeadersFromOneTicket
<1>. QED  BY InitShape, ShapeInductive, InitCredentials, CredentialsInductive, PairedInductive, <1>1,
             PTL DEF Spec


----
(***************************************************************************)
(* What holds while nothing has gone wrong: no ticket was withdrawn, no    *)
(* request is on a way that only a failed login leads to, and what was     *)
(* refused so far carried no ticket at all. A replay then carries a ticket *)
(* that differs from none, so it is one the server accepts.                *)
(***************************************************************************)
Calm ==
    /\ live = 1 .. issued
    /\ bare = {}
    /\ ~setterUsed
    /\ meddled = {}
    /\ user.pc # "logoutClear"
    /\ \A r \in Requests :
        /\ pc[r] \notin {"tfa", "tfaInstall", "recheck", "rearm", "authError"}
        /\ pc[r] = "unauthorized" => kind[r] = "upload"
        /\ refused[r] = 0

UndisturbedInv == ~disturbed => Calm

LEMMA InitUndisturbed == Init => UndisturbedInv
PROOF
<1> SUFFICES ASSUME Init, ~disturbed  PROVE Calm
  BY DEF UndisturbedInv
<1>1. live = 1 .. issued
  <2>1. CASE config.login = "seeded"
    BY <2>1, SMT DEF Init
  <2>2. CASE config.login # "seeded"
    BY <2>2, SMT DEF Init
  <2>. QED  BY <2>1, <2>2
<1>2. user.pc # "logoutClear" /\ ~setterUsed /\ meddled = {}
  BY SMT DEF Init
<1>3. bare = {}
  <2>1. disturbed = (bare # {})
    BY Zenon DEF Init
  <2>. QED  BY <2>1
<1>. QED  BY <1>1, <1>2, <1>3, SMT DEF Init, Calm

\* A send is refused only when it carries no ticket, and only the first time.
LEMMA RefusedOnlyWithoutTicket ==
  ASSUME Shape, CredentialInv, Paired, Calm, NEW r \in Requests, At(r, "sent"), Rejectable(r)
  PROVE  hdr[r].id = 0 /\ sends[r] = 1
PROOF
<1>1. issued \in Nat /\ hdr[r].id \in 0 .. issued
  BY MaxTicketsAssumption, SMT DEF Shape, ServerTyped, CredentialInv, Known
<1>2. hdr[r].csrf = hdr[r].id
  BY SMT DEF Paired, Pair, HeldOver, Token, Calm
<1>3. hdr[r].id = 0
  BY <1>1, <1>2, SMT DEF Rejectable, Calm
<1>4. purpose[r] # "replay"
  BY <1>3, SMT DEF CredentialInv, NewForReplay, Calm, At
<1>. QED  BY <1>3, <1>4, SMT DEF Shape, Flow, At

LEMMA RequestStaysCalm ==
  ASSUME Shape, CredentialInv, Paired, Calm, NEW r \in Requests, Start(r) \/ Request(r), ~disturbed'
  PROVE  /\ live' = 1 .. issued' /\ bare' = {}
         /\ kind' = kind \/ (pc[r] = "idle" /\ \A s \in Requests \ {r} : kind'[s] = kind[s])
         /\ pc'[r] \notin {"tfa", "tfaInstall", "recheck", "rearm", "authError"}
         /\ pc'[r] = "unauthorized" => kind'[r] = "upload"
         /\ refused'[r] = 0
PROOF
<1>0. RequestsTyped /\ issued \in Nat
  BY MaxTicketsAssumption, SMT DEF Shape, ServerTyped
<1>a. /\ live = 1 .. issued /\ bare = {} /\ refused[r] = 0
      /\ pc[r] \notin {"tfa", "tfaInstall", "recheck", "rearm", "authError"}
      /\ pc[r] = "unauthorized" => kind[r] = "upload"
  BY Zenon DEF Calm
<1> USE <1>0, <1>a DEF At, session, history, server, RequestsTyped
<1>1. CASE Start(r)
  BY <1>1, SMT DEF Start, GotoFor
<1>2. CASE RenewCheck(r)
  BY <1>2, SMT DEF RenewCheck, Goto, GotoFor
<1>3. CASE Check(r)
  BY <1>3, SMT DEF Check, GotoFor
<1>4. CASE AutoLock(r)
  BY <1>4, SMT DEF AutoLock, TakeMarker, GotoFor, Ready, Goto, End
<1>5. CASE Ensure(r)
  BY <1>5, SMT DEF Ensure, Ready, Goto, End
<1>6. CASE ServerGrants(r)
  <2>1. live' = 1 .. issued' /\ bare' = {}
    BY <1>6, SMT DEF ServerGrants
  <2>. QED  BY <1>6, <2>1, SMT DEF ServerGrants, Goto
<1>7. CASE ServerRefusesLogin(r) \/ ServerChallenges(r)
  BY <1>7, Zenon DEF ServerRefusesLogin, ServerChallenges
<1>8. CASE TFAFails(r) \/ TFAInstall(r) \/ Recheck(r) \/ Rearm(r)
  BY <1>8, Zenon DEF TFAFails, TFAInstall, Recheck, Rearm
<1>9. CASE Install(r)
  BY <1>9, SMT DEF Install, Ready, Goto, End
<1>10. CASE Send(r)
  BY <1>10, SMT DEF Send
<1>11. CASE Accepted(r)
  BY <1>11, SMT DEF Accepted, End
<1>12. CASE RefusedAndReplayed(r)
  <2>1. hdr[r].id = 0
    BY <1>12, RefusedOnlyWithoutTicket, Zenon DEF RefusedAndReplayed
  <2>. QED  BY <1>12, <2>1, SMT DEF RefusedAndReplayed, ForceLogin
<1>13. CASE RefusedForGood(r)
  <2>1. sends[r] = 1
    BY <1>13, RefusedOnlyWithoutTicket, Zenon DEF RefusedForGood
  <2>. QED  BY <1>13, <2>1, SMT DEF RefusedForGood, Replays, End
<1>. QED  BY <1>1, <1>2, <1>3, <1>4, <1>5, <1>6, <1>7, <1>8, <1>9, <1>10, <1>11, <1>12, <1>13,
             Zenon DEF Request

LEMMA UndisturbedInductive ==
  Shape /\ CredentialInv /\ Paired /\ UndisturbedInv /\ [Next]_vars => UndisturbedInv'
PROOF
<1>1. ASSUME Shape, CredentialInv, Paired, UndisturbedInv, ~disturbed',
             NEW r \in Requests, Start(r) \/ Request(r)
      PROVE  Calm'
  <2>1. ~disturbed
    BY <1>1, Zenon DEF Request, Start, RenewCheck, Check, AutoLock, Ensure, ServerGrants,
       ServerRefusesLogin, ServerChallenges, TFAFails, Install, TFAInstall, Recheck, Rearm, Send,
       Accepted, RefusedAndReplayed, RefusedForGood, history
  <2>2. Calm
    BY <1>1, <2>1 DEF UndisturbedInv
  <2>3. user' = user /\ meddled' = meddled /\ setterUsed' = setterUsed
    BY <1>1, CredentialSteps, Zenon
  <2>4. \A s \in Requests \ {r} : pc'[s] = pc[s] /\ refused'[s] = refused[s]
    BY <1>1, OthersStay, Zenon DEF Shape
  <2>5. /\ live' = 1 .. issued' /\ bare' = {}
        /\ kind' = kind \/ (pc[r] = "idle" /\ \A s \in Requests \ {r} : kind'[s] = kind[s])
        /\ pc'[r] \notin {"tfa", "tfaInstall", "recheck", "rearm", "authError"}
        /\ pc'[r] = "unauthorized" => kind'[r] = "upload"
        /\ refused'[r] = 0
    BY <1>1, <2>2, RequestStaysCalm, Zenon
  <2>6. \A s \in Requests \ {r} : kind'[s] = kind[s]
    BY <2>5, Zenon
  <2>. QED  BY <2>2, <2>3, <2>4, <2>5, <2>6, Zenon DEF Calm
<1>2. ASSUME Shape, UndisturbedInv, ~disturbed', User \/ Environment \/ UNCHANGED vars
      PROVE  Calm'
  <2>0. user \in UserState
    BY <1>2, Zenon DEF Shape
  <2>1. CASE LogoutConfirmed \/ SetTicketRead \/ SetWrite \/ Environment
    BY <1>2, <2>1, Zenon DEF LogoutConfirmed, SetTicketRead, SetWrite, Environment, Age, Revoke
  <2>2. CASE LogoutClear
    <3>1. ~disturbed
      BY <1>2, <2>2, Zenon DEF LogoutClear
    <3>. QED  BY <1>2, <2>2, <3>1, Zenon DEF UndisturbedInv, Calm, LogoutClear
  <2>3. CASE LogoutSend \/ LogoutFails \/ SetCSRFRead \/ UNCHANGED vars
    <3>1. UNCHANGED <<requests, server, history>>
      BY <2>3, Zenon DEF LogoutSend, LogoutFails, SetCSRFRead, vars, requests, server, history
    <3>2. Calm
      BY <1>2, <3>1, Zenon DEF UndisturbedInv, history
    <3>3. user'.pc # "logoutClear"
      <4>1. CASE LogoutSend
        BY <4>1, SMT DEF LogoutSend
      <4>2. CASE LogoutFails
        BY <2>0, <4>2, SMT DEF LogoutFails, UserState
      <4>3. CASE SetCSRFRead
        BY <4>3, SMT DEF SetCSRFRead
      <4>4. CASE UNCHANGED vars
        BY <3>2, <4>4, Zenon DEF vars, Calm
      <4>. QED  BY <2>3, <4>1, <4>2, <4>3, <4>4
    <3>. QED  BY <3>1, <3>2, <3>3, Zenon DEF Calm, requests, server, history
  <2>. QED  BY <1>2, <2>1, <2>2, <2>3, Zenon DEF User
<1>. QED  BY <1>1, <1>2, Zenon DEF Next, UndisturbedInv

\* While the server grants each login and takes no ticket back, every call that
\* can be replayed succeeds, however many requests overtake each other's logins:
\* one that goes out without a ticket is refused, logs in and is replayed with a
\* ticket that is accepted (handleAuthenticationRetry).
THEOREM UndisturbedSucceed == Spec => []UndisturbedCallsSucceed
PROOF
<1>1. UndisturbedInv => UndisturbedCallsSucceed
  BY SMT DEF UndisturbedInv, Calm, UndisturbedCallsSucceed, Results
<1>. QED  BY InitShape, ShapeInductive, InitCredentials, CredentialsInductive, PairedInductive,
             InitUndisturbed, UndisturbedInductive, <1>1, PTL DEF Spec

----
(***************************************************************************)
(* The most steps a request has left from where it is, by what its login   *)
(* is for. A renewal comes first and leads back to the check; the login of *)
(* ensureAuthentication leads on; the replay has a login of its own and no *)
(* way back.                                                               *)
(***************************************************************************)
StepsFrom(where, why) ==
    CASE where = "idle"       -> 17
      [] where = "renewCheck" -> 16
      [] where = "login"      -> IF why = "renew" THEN 15 ELSE IF why = "replay" THEN 4 ELSE 10
      [] where = "install"    -> IF why = "renew" THEN 14 ELSE IF why = "replay" THEN 3 ELSE 8
      [] where = "check"      -> 13
      [] where = "autoLock"   -> 12
      [] where = "ensure"     -> 11
      [] where = "tfa"        -> 9
      [] where = "tfaInstall" -> 8
      [] where = "recheck"    -> 7
      [] where = "rearm"      -> 6
      [] where = "headers"    -> IF why = "replay" THEN 2 ELSE 6
      [] where = "sent"       -> IF why = "replay" THEN 1 ELSE 5
      [] OTHER                -> 0

StepsLeft(r) == StepsFrom(pc[r], purpose[r])

LEMMA StepsTyped == \A where, why : StepsFrom(where, why) \in 0 .. 17
PROOF
  BY SMT DEF StepsFrom

\* Where a step takes a request.
Lands(r, where, why) == pc'[r] = where /\ purpose'[r] = why

LEMMA Landing ==
  ASSUME RequestsTyped, NEW r \in Requests
  PROVE  /\ \A where : Goto(r, where) => Lands(r, where, purpose[r])
         /\ \A where, why : GotoFor(r, where, why) => Lands(r, where, why)
         /\ \A result : End(r, result) => Lands(r, result, "none")
PROOF
<1>1. pc \in [Requests -> PCs] /\ purpose \in [Requests -> Purposes]
  BY Zenon DEF RequestsTyped
<1>. QED  BY <1>1, SMT DEF Goto, GotoFor, End, Lands

\* The ways of a request, by where it is and what its login is for: to its end, in to its headers,
\* through a login, and from the server's answer to the replay.
Ends(r) == pc[r] \notin Results \union {"idle"} /\ \E result \in Results : Lands(r, result, "none")

Enters(r) ==
    \/ pc[r] = "idle" /\ (Lands(r, "ensure", "manual") \/ Lands(r, "renewCheck", "manual"))
    \/ pc[r] = "renewCheck" /\ (Lands(r, "login", "renew") \/ Lands(r, "check", purpose[r]))
    \/ pc[r] = "check" /\ (Lands(r, "autoLock", "manual") \/ Lands(r, "ensure", "manual"))
    \/ pc[r] = "autoLock" /\ Lands(r, "ensure", "auto")
    \/ pc[r] = "ensure" /\ Lands(r, "login", purpose[r])
    \/ pc[r] \in {"autoLock", "ensure", "recheck"} /\ Lands(r, "headers", purpose[r])

LogsIn(r) ==
    \/ pc[r] = "login" /\ Lands(r, "install", purpose[r])
    \/ pc[r] \in {"login", "install"} /\ purpose[r] = "renew" /\ Lands(r, "check", "renew")
    \/ /\ pc[r] = "login" /\ purpose[r] \notin {"renew", "replay"}
       /\ Lands(r, "recheck", purpose[r]) \/ Lands(r, "tfa", purpose[r])
    \/ pc[r] = "install" /\ purpose[r] # "renew" /\ Lands(r, "headers", purpose[r])
    \/ pc[r] = "tfa" /\ (Lands(r, "tfaInstall", purpose[r]) \/ Lands(r, "rearm", purpose[r]))
    \/ pc[r] = "tfaInstall" /\ Lands(r, "recheck", purpose[r])
    \/ pc[r] = "recheck" /\ Lands(r, "rearm", purpose[r])

GoesOut(r) ==
    \/ pc[r] = "headers" /\ Lands(r, "sent", purpose[r])
    \/ pc[r] = "sent" /\ purpose[r] # "replay" /\ Lands(r, "login", "replay")

LEMMA RequestWays ==
  ASSUME Shape, NEW r \in Requests, Start(r) \/ Request(r)
  PROVE  Ends(r) \/ Enters(r) \/ LogsIn(r) \/ GoesOut(r)
PROOF
<1>0. RequestsTyped /\ Flow
  BY DEF Shape
<1>a. /\ \A where : Goto(r, where) => Lands(r, where, purpose[r])
      /\ \A where, why : GotoFor(r, where, why) => Lands(r, where, why)
      /\ \A result : End(r, result) => Lands(r, result, "none")
  BY <1>0, Landing, Zenon
<1>b. "ok" \in Results /\ "unauthorized" \in Results /\ "authError" \in Results
  BY Zenon DEF Results
<1>c. \A where : At(r, where) <=> pc[r] = where
  BY DEF At
<1>d. Ready(r) => Lands(r, "headers", purpose[r]) \/ \E result \in Results : Lands(r, result, "none")
  BY <1>a, <1>b, Zenon DEF Ready
<1>e. AfterFailure(r) => \/ purpose[r] = "renew" /\ Lands(r, "check", "renew")
                         \/ purpose[r] = "replay" /\ Lands(r, "authError", "none")
                         \/ purpose[r] \notin {"renew", "replay"} /\ Lands(r, "recheck", purpose[r])
  <2>1. CASE purpose[r] = "renew"
    BY <1>a, <2>1, SMT DEF AfterFailure
  <2>2. CASE purpose[r] = "replay"
    BY <1>a, <2>2, SMT DEF AfterFailure
  <2>3. CASE purpose[r] \notin {"renew", "replay"}
    BY <1>a, <2>3, SMT DEF AfterFailure
  <2>. QED  BY <2>1, <2>2, <2>3, Zenon
<1>f. \A where \in {"login", "tfa", "tfaInstall", "install", "recheck", "autoLock", "ensure", "rearm",
                     "sent"} : where \notin Results \union {"idle"}
  BY SMT DEF Results
<1>1. CASE Start(r)
  BY <1>1, <1>a, <1>c, Zenon DEF Start, Enters
<1>2. CASE RenewCheck(r) \/ Check(r)
  BY <1>2, <1>a, <1>c, Zenon DEF RenewCheck, Check, Enters
<1>3. CASE AutoLock(r) \/ Ensure(r)
  BY <1>3, <1>a, <1>c, <1>d, <1>f, Zenon DEF AutoLock, TakeMarker, Ensure, Enters, Ends
<1>4. CASE ServerGrants(r)
  BY <1>4, <1>a, <1>c, Zenon DEF ServerGrants, LogsIn
<1>5. CASE ServerRefusesLogin(r)
  BY <1>5, <1>b, <1>c, <1>e, <1>f, Zenon DEF ServerRefusesLogin, LogsIn, Ends
<1>6. CASE ServerChallenges(r)
  <2>1. "auto" \notin {"renew", "replay"} /\ "manual" \notin {"renew", "replay"}
    OBVIOUS
  <2>. QED  BY <1>6, <1>a, <1>b, <1>c, <1>e, <1>f, <2>1, Zenon DEF ServerChallenges, LogsIn, Ends
<1>7. CASE TFAFails(r)
  BY <1>7, <1>a, <1>b, <1>c, <1>f, Zenon DEF TFAFails, LogsIn, Ends
<1>8. CASE Install(r)
  BY <1>8, <1>a, <1>c, <1>d, <1>f, Zenon DEF Install, LogsIn, Ends
<1>9. CASE TFAInstall(r)
  BY <1>9, <1>a, <1>c, Zenon DEF TFAInstall, LogsIn
<1>10. CASE Recheck(r)
  BY <1>10, <1>a, <1>b, <1>c, <1>d, <1>f, Zenon DEF Recheck, LogsIn, Enters, Ends
<1>11. CASE Rearm(r)
  BY <1>11, <1>a, <1>b, <1>c, <1>f, Zenon DEF Rearm, Ends
<1>12. CASE Send(r)
  BY <1>0, <1>12, SMT DEF Send, At, GoesOut, Lands, RequestsTyped
<1>13. CASE Accepted(r)
  BY <1>13, <1>a, <1>b, <1>c, <1>f, Zenon DEF Accepted, Ends
<1>14. CASE RefusedAndReplayed(r)
  <2>1. purpose[r] # "replay"
    BY <1>0, <1>14, SMT DEF RefusedAndReplayed, Replays, At, Flow
  <2>2. Lands(r, "login", "replay")
    BY <1>0, <1>14, SMT DEF RefusedAndReplayed, ForceLogin, Lands, RequestsTyped
  <2>. QED  BY <1>14, <1>c, <2>1, <2>2, Zenon DEF RefusedAndReplayed, GoesOut
<1>15. CASE RefusedForGood(r)
  BY <1>15, <1>a, <1>b, <1>c, <1>f, Zenon DEF RefusedForGood, Ends
<1>. QED  BY <1>1, <1>2, <1>3, <1>4, <1>5, <1>6, <1>7, <1>8, <1>9, <1>10, <1>11, <1>12, <1>13,
             <1>14, <1>15, Zenon DEF Request

\* A renewal is only ever before the check.
RenewFlow == \A r \in Requests : purpose[r] = "renew" => pc[r] \in {"login", "install", "check"}

LEMMA InitRenewFlow == Init => RenewFlow
PROOF
  BY SMT DEF Init, RenewFlow

\* The caller and the passage of time leave requests alone.
LEMMA RequestsAlone ==
  ASSUME [Next]_vars, ~\E r \in Requests : Start(r) \/ Request(r)
  PROVE  pc' = pc /\ purpose' = purpose
PROOF
<1>1. CASE User
  BY <1>1, Zenon DEF User, LogoutSend, LogoutConfirmed, LogoutFails, LogoutClear, SetTicketRead,
     SetCSRFRead, SetWrite, requests
<1>2. CASE Environment
  BY <1>2, Zenon DEF Environment, Age, Revoke, requests
<1>3. CASE UNCHANGED vars
  BY <1>3, Zenon DEF vars, requests
<1>. QED  BY <1>1, <1>2, <1>3, Zenon DEF Next

LEMMA RenewFlowInductive == Shape /\ RenewFlow /\ [Next]_vars => RenewFlow'
PROOF
<1> SUFFICES ASSUME Shape, RenewFlow, [Next]_vars, NEW s \in Requests, purpose'[s] = "renew"
             PROVE  pc'[s] \in {"login", "install", "check"}
  BY Zenon DEF RenewFlow
<1>0. RequestsTyped
  BY DEF Shape
<1>1. CASE Start(s) \/ Request(s)
  BY <1>1, RequestWays, SMT DEF RenewFlow, Ends, Enters, LogsIn, GoesOut, Lands
<1>2. ASSUME NEW r \in Requests \ {s}, Start(r) \/ Request(r)
      PROVE  pc'[s] \in {"login", "install", "check"}
  <2>1. pc'[s] = pc[s] /\ purpose'[s] = purpose[s]
    BY <1>0, <1>2, OthersStay, Zenon
  <2>. QED  BY <2>1, Zenon DEF RenewFlow
<1>3. CASE ~\E r \in Requests : Start(r) \/ Request(r)
  BY <1>3, RequestsAlone, Zenon DEF RenewFlow
<1>. QED  BY <1>1, <1>2, <1>3, Zenon

LEMMA StepOn ==
  ASSUME Shape, RenewFlow, NEW r \in Requests, Start(r) \/ Request(r)
  PROVE  StepsLeft(r)' < StepsLeft(r)
PROOF
<1>0. /\ purpose[r] = "renew" => pc[r] \in {"login", "install", "check"}
      /\ purpose[r] = "replay" => pc[r] \in {"login", "install", "headers", "sent"}
  BY Zenon DEF Shape, Flow, RenewFlow
<1> DEFINE p == pc[r]
           w == purpose[r]
           q == pc'[r]
           v == purpose'[r]
<1>1. CASE Ends(r)
  <2>1. q \in Results /\ p \in PCs \ (Results \union {"idle"})
    BY <1>1, Zenon DEF Ends, Lands, Shape, RequestsTyped
  <2>. QED  BY <2>1, SMT DEF StepsLeft, StepsFrom, PCs, Results
<1>2. CASE Enters(r)
  BY <1>0, <1>2, SMT DEF Enters, Lands, StepsLeft, StepsFrom
<1>3. CASE LogsIn(r)
  BY <1>0, <1>3, SMT DEF LogsIn, Lands, StepsLeft, StepsFrom
<1>4. CASE GoesOut(r)
  BY <1>0, <1>4, SMT DEF GoesOut, Lands, StepsLeft, StepsFrom
<1>. QED  BY <1>1, <1>2, <1>3, <1>4, RequestWays, Zenon

\* What the steps of a request, and those of everybody else, do to the steps it has left.
EachStepCounts ==
    \A r \in Requests :
        /\ StepsLeft(r) \in 0 .. 17
        /\ (Start(r) \/ Request(r)) => StepsLeft(r)' < StepsLeft(r)
        /\ ~(Start(r) \/ Request(r)) => StepsLeft(r)' = StepsLeft(r)

\* The part of RequestsEnd that needs no fairness: a request ends after at most 17 steps of its own,
\* its replay and up to three logins included, and nothing that other requests, the caller or the
\* server do to the session sends it back (authMiddleware, handleAuthenticationRetry).
THEOREM NoEndlessRequest == Spec => [][EachStepCounts]_vars
PROOF
<1>1. ASSUME Shape, RenewFlow, [Next]_vars  PROVE EachStepCounts
  <2> SUFFICES ASSUME NEW s \in Requests
               PROVE  /\ (Start(s) \/ Request(s)) => StepsLeft(s)' < StepsLeft(s)
                      /\ ~(Start(s) \/ Request(s)) => StepsLeft(s)' = StepsLeft(s)
    BY StepsTyped, Zenon DEF EachStepCounts, StepsLeft
  <2>1. CASE Start(s) \/ Request(s)
    BY <1>1, <2>1, StepOn, Zenon
  <2>2. ASSUME ~(Start(s) \/ Request(s))  PROVE StepsLeft(s)' = StepsLeft(s)
    <3>1. pc'[s] = pc[s] /\ purpose'[s] = purpose[s]
      <4>1. ASSUME NEW r \in Requests, Start(r) \/ Request(r)
            PROVE  pc'[s] = pc[s] /\ purpose'[s] = purpose[s]
        BY <1>1, <2>2, <4>1, OthersStay, Zenon DEF Shape
      <4>2. CASE ~\E r \in Requests : Start(r) \/ Request(r)
        BY <1>1, <4>2, RequestsAlone, Zenon
      <4>. QED  BY <4>1, <4>2
    <3>. QED  BY <3>1, Zenon DEF StepsLeft
  <2>. QED  BY <2>1, <2>2
<1>2. Shape /\ RenewFlow /\ [Next]_vars => [EachStepCounts]_vars
  BY <1>1, Zenon
<1>. QED  BY InitShape, ShapeInductive, InitRenewFlow, RenewFlowInductive, <1>2, PTL DEF Spec
====
