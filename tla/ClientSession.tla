---- MODULE ClientSession ----
(*****************************************************************************)
(* The session that concurrent requests share: one TicketAuthenticator, the  *)
(* client's auto-login marker, and the steps authMiddleware takes for each   *)
(* request (renewal, login with or without TFA, headers, one replay after a  *)
(* 401), while the caller logs out or sets tickets and the server ages and   *)
(* revokes them. A step is one critical section of the code, or one answer   *)
(* of the server; every login is a network exchange outside any lock.        *)
(*                                                                           *)
(* Below authMiddleware a send is a single exchange: RequestPipeline models  *)
(* the retries under it.                                                     *)
(*****************************************************************************)
EXTENDS Naturals, FiniteSets

CONSTANTS
    Requests,    \* goroutines that use the client
    Kinds,       \* what they do: a subset of {"call", "upload", "login"}
    MaxTickets,  \* bound on the tickets the server issues
    MaxUserOps,  \* bound on the logouts and ticket updates of the caller
    MaxUpsets    \* bound on the tickets that come without a token, age a step or are revoked

ASSUME KindsAssumption == Kinds \subseteq {"call", "upload", "login"}
ASSUME MaxTicketsAssumption == MaxTickets \in Nat \ {0}
ASSUME MaxUserOpsAssumption == MaxUserOps \in Nat
ASSUME MaxUpsetsAssumption == MaxUpsets \in Nat

VARIABLES
    config,          \* how the client was built: AutoLogin, Login() or a ticket; TFA handler
    ticket,          \* TicketAuthenticator.ticket
    loginAttempted,  \* Client.loginAttempted
    \* The requests:
    pc,              \* where each is
    kind,            \* what it does
    purpose,         \* what its login is for
    got,             \* the ticket it was granted and has not installed yet
    hdr,             \* the authentication headers it carries
    sends,           \* how often it went out
    refused,         \* the ticket its first send carried, when that was refused
    user,            \* the caller's logout or ticket update
    \* The server and the clock:
    issued,          \* tickets issued so far, numbered from 1
    live,            \* tickets the server accepts
    bare,            \* tickets that came without a CSRF token
    age,             \* their age by the client's clock
    upsets,          \* how often one came so, aged or was revoked, up to MaxUpsets
    \* What has happened so far, for the properties:
    everTicket,      \* some ticket was held
    setterUsed,      \* the caller set a ticket or a CSRF token
    meddled,         \* replaying requests since whose 401 the caller touched the ticket
    disturbed        \* a login was refused, or a ticket came without its token, aged, was
                     \* revoked or replaced

session == <<config, ticket, loginAttempted>>
requests == <<pc, kind, purpose, got, hdr, sends, refused>>
server == <<issued, live, bare, age, upsets>>
history == <<everTicket, setterUsed, meddled, disturbed>>
vars == <<config, ticket, loginAttempted, pc, kind, purpose, got, hdr, sends, refused, user,
          issued, live, bare, age, upsets, everTicket, setterUsed, meddled, disturbed>>

TicketIds == 1 .. MaxTickets

\* A ticket, or the pair of headers made from it: its value and the CSRF token
\* beside it, each named by the ticket it was issued with; 0 stands for none.
Credentials == [id : 0 .. MaxTickets, csrf : 0 .. MaxTickets]
None == [id |-> 0, csrf |-> 0]

Results == {"ok", "unauthorized", "authError"}
PCs == {"idle", "renewCheck", "check", "autoLock", "ensure", "login", "tfa", "install",
        "tfaInstall", "recheck", "rearm", "headers", "sent"} \union Results
Purposes == {"none", "renew", "auto", "manual", "replay"}

UserState == [pc : {"idle", "logoutSent", "logoutClear", "setWrite"},
              held : Credentials, ops : 0 .. MaxUserOps]

TypeOK ==
    /\ config \in [login : {"auto", "explicit", "seeded"}, tfa : BOOLEAN]
    /\ ticket \in Credentials
    /\ loginAttempted \in BOOLEAN
    /\ pc \in [Requests -> PCs]
    /\ kind \in [Requests -> Kinds \union {"none"}]
    /\ purpose \in [Requests -> Purposes]
    /\ got \in [Requests -> 0 .. MaxTickets]
    /\ hdr \in [Requests -> Credentials]
    /\ sends \in [Requests -> 0 .. 2]
    /\ refused \in [Requests -> 0 .. MaxTickets]
    /\ user \in UserState
    /\ issued \in 0 .. MaxTickets
    /\ live \subseteq 1 .. issued
    /\ bare \subseteq 1 .. issued
    /\ age \in [TicketIds -> {"fresh", "aging", "expired"}]
    /\ upsets \in 0 .. MaxUpsets
    /\ everTicket \in BOOLEAN
    /\ setterUsed \in BOOLEAN
    /\ meddled \subseteq Requests
    /\ disturbed \in BOOLEAN

\* The CSRF token that came with a ticket, if one did.
Token(t) == IF t \in bare THEN 0 ELSE t

----
\* A ticket that the client is built from may lack its token (options.CSRFToken).
Init ==
    /\ config \in [login : {"auto", "explicit", "seeded"}, tfa : BOOLEAN]
    /\ IF config.login = "seeded"
       THEN /\ issued = 1 /\ live = {1} /\ bare \in {{}, {1}}
            /\ ticket = [id |-> 1, csrf |-> Token(1)] /\ everTicket = TRUE
       ELSE /\ issued = 0 /\ live = {} /\ bare = {}
            /\ ticket = None /\ everTicket = FALSE
    /\ loginAttempted = FALSE
    /\ pc = [r \in Requests |-> "idle"]
    /\ kind = [r \in Requests |-> "none"]
    /\ purpose = [r \in Requests |-> "none"]
    /\ got = [r \in Requests |-> 0]
    /\ hdr = [r \in Requests |-> None]
    /\ sends = [r \in Requests |-> 0]
    /\ refused = [r \in Requests |-> 0]
    /\ user = [pc |-> "idle", held |-> None, ops |-> 0]
    /\ age = [t \in TicketIds |-> "fresh"]
    /\ upsets = 0
    /\ setterUsed = FALSE
    /\ meddled = {}
    /\ disturbed = (bare # {})

\* TicketAuthenticator.IsAuthenticated.
IsAuthenticated == ticket.id # 0 /\ age[ticket.id] # "expired"

\* Ticket.ShouldRenew for tickets that carry their creation time, as PVE's do.
ShouldRenew == ticket.id # 0 /\ age[ticket.id] # "fresh"

\* shouldAutoLogin: the option is on and a username and password are there.
ShouldAutoLogin == config.login = "auto" /\ ~IsAuthenticated

At(r, where) == pc[r] = where

Goto(r, where) ==
    /\ pc' = [pc EXCEPT ![r] = where]
    /\ UNCHANGED <<purpose, hdr, sends, refused>>

GotoFor(r, where, why) ==
    /\ pc' = [pc EXCEPT ![r] = where]
    /\ purpose' = [purpose EXCEPT ![r] = why]
    /\ UNCHANGED <<hdr, sends, refused>>

\* The goroutine ends; of its request only the kind and the result matter now.
End(r, result) ==
    /\ pc' = [pc EXCEPT ![r] = result]
    /\ purpose' = [purpose EXCEPT ![r] = "none"]
    /\ hdr' = [hdr EXCEPT ![r] = None]
    /\ sends' = [sends EXCEPT ![r] = 0]
    /\ refused' = [refused EXCEPT ![r] = 0]

\* Authentication is settled: a call goes on to its headers, Login() returns.
Ready(r) == IF kind[r] = "login" THEN End(r, "ok") ELSE Goto(r, "headers")

----
Start(r) ==
    /\ At(r, "idle")
    /\ \E k \in Kinds :
        /\ kind' = [kind EXCEPT ![r] = k]
        /\ GotoFor(r, IF k = "login" THEN "ensure" ELSE "renewCheck", "manual")
    /\ UNCHANGED <<got, session, user, server, history>>

\* renewTicketIfNeeded
RenewCheck(r) ==
    /\ At(r, "renewCheck")
    /\ IF ShouldRenew
       THEN GotoFor(r, "login", "renew")
       ELSE Goto(r, "check")
    /\ UNCHANGED <<kind, got, session, user, server, history>>

\* handleAuthentication
Check(r) ==
    /\ At(r, "check")
    /\ GotoFor(r, IF ShouldAutoLogin THEN "autoLock" ELSE "ensure", "manual")
    /\ UNCHANGED <<kind, got, session, user, server, history>>

TakeMarker(r) ==
    /\ loginAttempted' = TRUE
    /\ GotoFor(r, "ensure", "auto")

\* A plausible slip: the marker is not looked at under the lock.
AutoLockUnchecked(r) ==
    /\ At(r, "autoLock")
    /\ \/ IsAuthenticated /\ Ready(r) /\ UNCHANGED loginAttempted
       \/ ~IsAuthenticated /\ TakeMarker(r)
    /\ UNCHANGED <<kind, got, config, ticket, user, server, history>>

\* A plausible slip: a request that finds a login under way waits for it.
AutoLockWaits(r) ==
    /\ At(r, "autoLock")
    /\ \/ IsAuthenticated /\ Ready(r) /\ UNCHANGED loginAttempted
       \/ ~IsAuthenticated /\ ~loginAttempted /\ TakeMarker(r)
    /\ UNCHANGED <<kind, got, config, ticket, user, server, history>>

\* performAutoLogin under loginMutex. A request that finds the marker set goes
\* on at once, with whatever ticket there is.
AutoLock(r) ==
    /\ At(r, "autoLock")
    /\ \/ /\ IsAuthenticated \/ loginAttempted
          /\ Ready(r)
          /\ UNCHANGED loginAttempted
       \/ /\ ~IsAuthenticated
          /\ ~loginAttempted
          /\ TakeMarker(r)
    /\ UNCHANGED <<kind, got, config, ticket, user, server, history>>

\* ensureAuthentication up to the login request.
Ensure(r) ==
    /\ At(r, "ensure")
    /\ IF IsAuthenticated THEN Ready(r) ELSE Goto(r, "login")
    /\ UNCHANGED <<kind, got, session, user, server, history>>

\* What follows a login that brought no ticket. A failed renewal is only
\* logged; a failed forced login ends the request; ensureAuthentication looks
\* again whether another goroutine has logged in.
AfterFailure(r) ==
    CASE purpose[r] = "renew"  -> Goto(r, "check")
      [] purpose[r] = "replay" -> End(r, "authError")
      [] OTHER                 -> Goto(r, "recheck")

\* A client built from a bare ticket has no user name to log in with
\* (createAuthenticator, prepareLoginData): the server never grants it a login.
\* An answer without a CSRF token is a login like any other (buildLoginResult).
ServerGrants(r) ==
    /\ At(r, "login") \/ At(r, "tfa")
    /\ config.login # "seeded"
    /\ issued < MaxTickets
    /\ issued' = issued + 1
    /\ live' = live \union {issued + 1}
    /\ \/ UNCHANGED <<bare, upsets, disturbed>>
       \/ /\ upsets < MaxUpsets
          /\ upsets' = upsets + 1
          /\ bare' = bare \union {issued + 1}
          /\ disturbed' = TRUE
    /\ Goto(r, IF At(r, "tfa") THEN "tfaInstall" ELSE "install")
    /\ got' = [got EXCEPT ![r] = issued + 1]
    /\ UNCHANGED <<kind, session, user, age, everTicket, setterUsed, meddled>>

ServerRefusesLogin(r) ==
    /\ At(r, "login")
    /\ AfterFailure(r)
    /\ disturbed' = TRUE
    /\ UNCHANGED <<kind, got, session, user, server, everTicket, setterUsed, meddled>>

\* The server answers with a TFA challenge: only ensureAuthentication knows
\* what to do with it, and only with a handler.
ServerChallenges(r) ==
    /\ At(r, "login")
    /\ IF purpose[r] \in {"auto", "manual"} /\ config.tfa
       THEN Goto(r, "tfa")
       ELSE AfterFailure(r)
    /\ disturbed' = TRUE
    /\ UNCHANGED <<kind, got, session, user, server, everTicket, setterUsed, meddled>>

\* The handler gives up, or the server rejects its answer.
TFAFails(r) ==
    /\ At(r, "tfa")
    /\ IF purpose[r] = "auto" THEN Goto(r, "rearm") ELSE End(r, "authError")
    /\ UNCHANGED <<kind, got, session, user, server, history>>

\* Authenticate or RefreshForce stores the ticket it was given, over whatever
\* is there by now.
Install(r) ==
    /\ At(r, "install")
    /\ ticket' = [id |-> got[r], csrf |-> Token(got[r])]
    /\ everTicket' = TRUE
    /\ got' = [got EXCEPT ![r] = 0]
    /\ IF purpose[r] = "renew" THEN Goto(r, "check") ELSE Ready(r)
    /\ UNCHANGED <<kind, config, loginAttempted, user, server, setterUsed, meddled, disturbed>>

\* CompleteTFA does the same; ensureAuthentication then looks at the session.
TFAInstall(r) ==
    /\ At(r, "tfaInstall")
    /\ ticket' = [id |-> got[r], csrf |-> Token(got[r])]
    /\ everTicket' = TRUE
    /\ got' = [got EXCEPT ![r] = 0]
    /\ Goto(r, "recheck")
    /\ UNCHANGED <<kind, config, loginAttempted, user, server, setterUsed, meddled, disturbed>>

Recheck(r) ==
    /\ At(r, "recheck")
    /\ \/ IsAuthenticated /\ Ready(r)
       \/ ~IsAuthenticated /\ purpose[r] = "auto" /\ Goto(r, "rearm")
       \/ ~IsAuthenticated /\ purpose[r] # "auto" /\ End(r, "authError")
    /\ UNCHANGED <<kind, got, session, user, server, history>>

\* A plausible slip: the marker stays set after a failed login.
RearmForgotten(r) ==
    /\ At(r, "rearm")
    /\ End(r, "authError")
    /\ UNCHANGED <<kind, got, session, user, server, history>>

\* performAutoLogin clears the marker after a failed login.
Rearm(r) ==
    /\ At(r, "rearm")
    /\ loginAttempted' = FALSE
    /\ End(r, "authError")
    /\ UNCHANGED <<kind, got, config, ticket, user, server, history>>

\* A plausible slip: only the Cookie header is renewed for the replay.
SetCookieOnly(old, held) ==
    [id |-> IF held.id = 0 THEN old.id ELSE held.id,
     csrf |-> IF held.csrf = 0 \/ old.csrf # 0 THEN old.csrf ELSE held.csrf]

\* applyAuthHeaders: what the ticket has replaces the header of that name,
\* what it lacks leaves the header as it was.
SetHeaders(old, held) ==
    [id |-> IF held.id = 0 THEN old.id ELSE held.id,
     csrf |-> IF held.csrf = 0 THEN old.csrf ELSE held.csrf]

Send(r) ==
    /\ At(r, "headers")
    /\ pc' = [pc EXCEPT ![r] = "sent"]
    /\ hdr' = [hdr EXCEPT ![r] = SetHeaders(@, ticket)]
    /\ sends' = [sends EXCEPT ![r] = @ + 1]
    /\ UNCHANGED <<kind, purpose, got, refused, session, user, server, history>>

\* The request carries a ticket the server accepts.
Accepted(r) ==
    /\ At(r, "sent")
    /\ hdr[r].id \in live
    /\ End(r, "ok")
    /\ UNCHANGED <<kind, got, session, user, server, history>>

Rejectable(r) == hdr[r].id \notin live \/ hdr[r].csrf # hdr[r].id

\* A plausible slip: a 401 goes straight back to the caller.
NeverReplays(r) == FALSE

\* handleAuthenticationRetry replays once, and no streamed body.
Replays(r) == sends[r] = 1 /\ kind[r] # "upload"

\* A plausible slip: the 401 is answered by Refresh, which leaves a ticket that
\* looks valid alone.
RefreshIfExpired(r) ==
    /\ pc' = [pc EXCEPT ![r] = IF IsAuthenticated THEN "headers" ELSE "login"]
    /\ purpose' = [purpose EXCEPT ![r] = "replay"]
    /\ refused' = [refused EXCEPT ![r] = hdr[r].id]
    /\ UNCHANGED <<hdr, sends>>

\* forceReauthenticate
ForceLogin(r) ==
    /\ pc' = [pc EXCEPT ![r] = "login"]
    /\ purpose' = [purpose EXCEPT ![r] = "replay"]
    /\ refused' = [refused EXCEPT ![r] = hdr[r].id]
    /\ UNCHANGED <<hdr, sends>>

RefusedAndReplayed(r) ==
    /\ At(r, "sent")
    /\ Rejectable(r)
    /\ Replays(r)
    /\ ForceLogin(r)
    /\ UNCHANGED <<kind, got, session, user, server, history>>

RefusedForGood(r) ==
    /\ At(r, "sent")
    /\ Rejectable(r)
    /\ ~Replays(r)
    /\ End(r, "unauthorized")
    /\ UNCHANGED <<kind, got, session, user, server, history>>

----
Replaying == {r \in Requests : purpose[r] = "replay"}

\* The caller. Logout sends the headers of the ticket it finds.
LogoutSend ==
    /\ user.pc = "idle"
    /\ user.ops < MaxUserOps
    /\ ticket.id # 0
    /\ user' = [pc |-> "logoutSent", held |-> ticket, ops |-> user.ops + 1]
    /\ UNCHANGED <<session, requests, server, history>>

\* The server confirms; it may or may not revoke the ticket.
LogoutConfirmed ==
    /\ user.pc = "logoutSent"
    /\ live' \in {live, live \ {user.held.id}}
    /\ user' = [user EXCEPT !.pc = "logoutClear"]
    /\ disturbed' = TRUE
    /\ UNCHANGED <<session, requests, issued, bare, age, upsets, everTicket, setterUsed, meddled>>

LogoutFails ==
    /\ user.pc = "logoutSent"
    /\ user' = [user EXCEPT !.pc = "idle"]
    /\ UNCHANGED <<session, requests, server, history>>

\* Logout drops the ticket that is there now, not the one it sent.
LogoutClear ==
    /\ user.pc = "logoutClear"
    /\ ticket' = None
    /\ meddled' = Replaying
    /\ user' = [user EXCEPT !.pc = "idle"]
    /\ UNCHANGED <<config, loginAttempted, requests, server, everTicket, setterUsed, disturbed>>

\* SetTicketValue with a ticket obtained elsewhere: its CSRF token beside it, an
\* earlier one the caller's options still hold, or none, which keeps the one at hand.
SetTicketRead ==
    /\ user.pc = "idle"
    /\ user.ops < MaxUserOps
    /\ issued < MaxTickets
    /\ issued' = issued + 1
    /\ live' = live \union {issued + 1}
    /\ \E csrf \in 1 .. issued + 1 \union {ticket.csrf} :
        user' = [pc |-> "setWrite", held |-> [id |-> issued + 1, csrf |-> csrf], ops |-> user.ops + 1]
    /\ disturbed' = TRUE
    /\ UNCHANGED <<session, requests, bare, age, upsets, everTicket, setterUsed, meddled>>

\* SetCSRFToken with a token the server has given to someone, or with none.
SetCSRFRead ==
    /\ user.pc = "idle"
    /\ user.ops < MaxUserOps
    /\ ticket.id # 0
    /\ \E csrf \in 0 .. issued :
        user' = [pc |-> "setWrite", held |-> [ticket EXCEPT !.csrf = csrf], ops |-> user.ops + 1]
    /\ UNCHANGED <<session, requests, server, history>>

\* Both end in SetTicket, made from what was read before.
SetWrite ==
    /\ user.pc = "setWrite"
    /\ ticket' = user.held
    /\ everTicket' = TRUE
    /\ setterUsed' = TRUE
    /\ meddled' = Replaying
    /\ disturbed' = TRUE
    /\ user' = [user EXCEPT !.pc = "idle"]
    /\ UNCHANGED <<config, loginAttempted, requests, server>>

----
\* Time passes: renewal is due after one hour, validity ends after two.
Age(t) ==
    /\ upsets < MaxUpsets
    /\ upsets' = upsets + 1
    /\ t <= issued
    /\ age[t] # "expired"
    /\ age' = [age EXCEPT ![t] = IF @ = "fresh" THEN "aging" ELSE "expired"]
    /\ disturbed' = TRUE
    /\ UNCHANGED <<session, requests, user, issued, live, bare, everTicket, setterUsed, meddled>>

Revoke(t) ==
    /\ upsets < MaxUpsets
    /\ upsets' = upsets + 1
    /\ t \in live
    /\ live' = live \ {t}
    /\ disturbed' = TRUE
    /\ UNCHANGED <<session, requests, user, issued, bare, age, everTicket, setterUsed, meddled>>

----
Request(r) ==
    \/ RenewCheck(r) \/ Check(r) \/ AutoLock(r) \/ Ensure(r)
    \/ ServerGrants(r) \/ ServerRefusesLogin(r) \/ ServerChallenges(r) \/ TFAFails(r)
    \/ Install(r) \/ TFAInstall(r) \/ Recheck(r) \/ Rearm(r)
    \/ Send(r) \/ Accepted(r) \/ RefusedAndReplayed(r) \/ RefusedForGood(r)

User == LogoutSend \/ LogoutConfirmed \/ LogoutFails \/ LogoutClear
        \/ SetTicketRead \/ SetCSRFRead \/ SetWrite

Environment == \E t \in TicketIds : Age(t) \/ Revoke(t)

Next ==
    \/ \E r \in Requests : Start(r) \/ Request(r)
    \/ User
    \/ Environment

\* A goroutine runs on, and every exchange with the server ends in an answer or
\* in the HTTP client's timeout.
Fairness == \A r \in Requests : WF_vars(Request(r))

Spec == Init /\ [][Next]_vars /\ Fairness

----
AutoLoggingIn(r) ==
    /\ purpose[r] = "auto"
    /\ pc[r] \in {"ensure", "login", "tfa", "install", "tfaInstall", "recheck", "rearm"}

\* At most one request is inside an automatic login, and the marker is set as
\* long as one is: loginMutex only covers the test of the marker, the login
\* itself runs outside it (client.go:1448-1460).
OneAutoLogin ==
    /\ \A r, s \in Requests : AutoLoggingIn(r) /\ AutoLoggingIn(s) => r = s
    /\ (\E r \in Requests : AutoLoggingIn(r)) => loginAttempted

\* A failed login never disables automatic login (client.go:1461-1470): with no
\* automatic login under way, a set marker means that a ticket was obtained.
FailedLoginRearms ==
    loginAttempted => everTicket \/ \E r \in Requests : AutoLoggingIn(r)

\* The replay after a 401 does not carry the ticket that was just refused
\* (client.go:1228-1232), however the logins of concurrent requests interleave,
\* unless the caller cleared or set the ticket in between.
ReplayNotWithRefused ==
    \A r \in Requests :
        At(r, "sent") /\ sends[r] = 2 /\ r \notin meddled => hdr[r].id # refused[r]

\* A request carries the token of the ticket it carries, or none when that came
\* without one, whatever is installed, renewed or cleared while it is prepared, as
\* long as the caller does not set tickets or tokens by hand. Only the replay with a
\* ticket that has no token differs, for applyAuthHeaders removes no header
\* (client.go:1183): it carries the token of the ticket that was refused, no other.
HeadersFromOneTicket ==
    ~setterUsed => \A r \in Requests :
        \/ hdr[r].csrf = Token(hdr[r].id)
        \/ sends[r] = 2 /\ hdr[r].id \in bare /\ hdr[r].csrf = Token(refused[r])

\* While the server grants every login with its token and nothing expires, each call
\* succeeds, in any interleaving of first requests: one that overtakes the automatic
\* login goes out without credentials and is repaired by its replay. Uploads have no
\* replay and are not promised this.
UndisturbedCallsSucceed ==
    ~disturbed => \A r \in Requests :
        pc[r] \in Results /\ kind[r] # "upload" => pc[r] = "ok"

\* Every request that is started ends.
RequestsEnd == \A r \in Requests : pc[r] # "idle" ~> pc[r] \in Results
====
