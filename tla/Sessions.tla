------------------------------ MODULE Sessions ------------------------------
(***************************************************************************)
(* Browser sessions of one person: the login that ends with a session row  *)
(* in Redis and a cookie, the requests that resolve the cookie and refresh *)
(* the tokens behind it at Keycloak, the stamp of the first login, logout, *)
(* expiry and crashes.  Several pods serve requests over one Redis; what   *)
(* keeps the requests of one pod from refreshing twice is a map of that    *)
(* process.                                                                *)
(*                                                                         *)
(* A command to Redis and a call of Keycloak are steps of their own.  What *)
(* a process does between two of them is part of the step before: reading  *)
(* a session and looking into the map are one step.                        *)
(*                                                                         *)
(* Access and refresh token of a session are minted together and numbered: *)
(* generation 1 at login, the next one with every refresh.  As in          *)
(* Connections, a Bug operator is a wrong version of the next one.         *)
(***************************************************************************)
EXTENDS Naturals, FiniteSets

CONSTANTS
  Browser,
  Flow,        \* bound: the values of state that are ever minted
  Session,     \* bound: the session ids that are ever minted
  Pod,         \* processes
  Handler,     \* requests that may be in flight at the same time
  MaxGen,      \* bound: generations of tokens of one session
  Rotates,     \* Keycloak honours a refresh token once
  MaxFaults,   \* bound: failures, crashes, ended grants, expired sessions
  Calls,       \* bound: the requests browsers send
  NoBrowser, NoFlow, NoSession, NoPod

ASSUME SessionAssumption ==
  /\ MaxGen \in Nat \ {0}
  /\ Rotates \in BOOLEAN
  /\ MaxFaults \in Nat
  /\ Calls \subseteq {"request", "me", "logout"}
  /\ NoBrowser \notin Browser
  /\ NoFlow \notin Flow
  /\ NoSession \notin Session
  /\ NoPod \notin Pod

VARIABLES
  flow,        \* flow[f]: the login under way with state f
  flowCookie,  \* flowCookie[b]: the cookie oidc_flow of browser b
  cookie,      \* cookie[b]: the cookie sid of browser b
  session,     \* session[s]: the row of session s in Redis
  inflight,    \* inflight[p]: the sessions pod p is refreshing
  minted,      \* at Keycloak: the newest generation of tokens of session s
  revoked,     \* at Keycloak: the sessions whose grant has ended
  old,         \* generations of session s up to old[s] are at or near expiry
  claimed,     \* user.tags has app_first_login_at
  handler,     \* handler[h]: progress and reads of the request h serves
  opened,      \* history: opened[s] is the login that opened session s
  told,        \* history: the sessions that were told they are the first
  faults,      \* the number of faults so far
  disturbed,   \* history: the sessions whose rotation met a known race
  lost         \* history: the sessions ended although their grant was alive

vars == <<flow, flowCookie, cookie, session, inflight, minted, revoked, old, claimed,
          handler, opened, told, faults, disturbed, lost>>

-----------------------------------------------------------------------------
(* Rows and handlers *)

NoLogin == [flow |-> NoFlow, browser |-> NoBrowser]
Login == [flow: Flow, browser: Browser] \cup {NoLogin}

NewFlow == [state |-> "new", browser |-> NoBrowser]
FlowRow == [state: {"new", "open", "gone"}, browser: Browser \cup {NoBrowser}]

NoRow == [gen |-> 0, first |-> "unset"]
Row == [gen: 1 .. MaxGen, first: {"unset", "yes", "no"}] \cup {NoRow}

Idle == [pc |-> "idle", pod |-> NoPod, browser |-> NoBrowser, flow |-> NoFlow,
         sid |-> NoSession, call |-> "none", row |-> NoRow, gen |-> 0]

HandlerState ==
  [pc: {"idle", "consume", "create", "wait", "refresh", "storeread", "store", "rejected",
        "destroy", "verify", "me", "claim", "stampread", "stamp"},
   pod: Pod \cup {NoPod}, browser: Browser \cup {NoBrowser}, flow: Flow \cup {NoFlow},
   sid: Session \cup {NoSession}, call: {"none", "request", "me"}, row: Row, gen: 0 .. MaxGen]

At(h, pc) == handler[h].pc = pc
Begin(h, r) == handler' = [handler EXCEPT ![h] = r]
Goto(h, pc) == Begin(h, [handler[h] EXCEPT !.pc = pc])
Finish(h) == Begin(h, Idle)

ForgetCookie(b) == cookie' = [cookie EXCEPT ![b] = NoSession]

keycloak == <<minted, revoked, old>>
flows == <<flow, flowCookie, opened>>
history == <<faults, disturbed, lost>>

Fault == faults < MaxFaults /\ faults' = faults + 1

\* At or near expiry: refreshed before use.
Stale(s, gen) == gen <= old[s]

\* The steps of a refresh, from its start to its outcome.
Refreshing == {"refresh", "storeread", "store", "rejected", "destroy"}
Leads(h, p, s) == handler[h].pc \in Refreshing /\ handler[h].pod = p /\ handler[h].sid = s

Init ==
  /\ flow = [f \in Flow |-> NewFlow]
  /\ flowCookie = [b \in Browser |-> NoFlow]
  /\ cookie = [b \in Browser |-> NoSession]
  /\ session = [s \in Session |-> NoRow]
  /\ inflight = [p \in Pod |-> {}]
  /\ minted = [s \in Session |-> 0]
  /\ revoked = {}
  /\ old = [s \in Session |-> 0]
  /\ claimed = FALSE
  /\ handler = [h \in Handler |-> Idle]
  /\ opened = [s \in Session |-> NoLogin]
  /\ told = {}
  /\ faults = 0
  /\ disturbed = {}
  /\ lost = {}

-----------------------------------------------------------------------------
(* Logging in *)

\* GET /session/login: the flow is stored and its state goes into a cookie.
StartLogin(b, f) ==
  /\ flow[f] = NewFlow
  /\ flow' = [flow EXCEPT ![f] = [state |-> "open", browser |-> b]]
  /\ flowCookie' = [flowCookie EXCEPT ![b] = f]
  /\ UNCHANGED <<cookie, session, inflight, keycloak, claimed, handler, opened, told, history>>

\* The browser holds the state that Keycloak sends back.
BugBoundTo(b, f) == TRUE
BoundTo(b, f) == flowCookie[b] = f

\* GET /session/callback, in whichever browser, once or again.
CallbackBegin(h, b, f) ==
  /\ At(h, "idle")
  /\ flow[f] # NewFlow
  /\ IF BoundTo(b, f)
     THEN /\ Begin(h, [Idle EXCEPT !.pc = "consume", !.browser = b, !.flow = f])
          /\ UNCHANGED flowCookie
     ELSE /\ flowCookie' = [flowCookie EXCEPT ![b] = NoFlow]
          /\ UNCHANGED handler
  /\ UNCHANGED <<flow, cookie, session, inflight, keycloak, claimed, opened, told, history>>

\* GETDEL
BugConsumed(f) == flow
Consumed(f) == [flow EXCEPT ![f].state = "gone"]

\* A flow that was redeemed before, or has expired, is a failed login; one
\* that expires is as good as one whose exchange fails.
ConsumeFlow(h) ==
  LET r == handler[h]
  IN /\ At(h, "consume")
     /\ flow' = Consumed(r.flow)
     /\ IF flow[r.flow].state = "open"
        THEN Goto(h, "create") /\ UNCHANGED flowCookie
        ELSE Finish(h) /\ flowCookie' = [flowCookie EXCEPT ![r.browser] = NoFlow]
     /\ UNCHANGED <<cookie, session, inflight, keycloak, claimed, opened, told, history>>

\* Keycloak exchanges the code, and the session is stored.
CreateSession(h, s) ==
  LET r == handler[h]
  IN /\ At(h, "create")
     /\ opened[s] = NoLogin
     /\ session' = [session EXCEPT ![s] = [gen |-> 1, first |-> "unset"]]
     /\ minted' = [minted EXCEPT ![s] = 1]
     /\ cookie' = [cookie EXCEPT ![r.browser] = s]
     /\ flowCookie' = [flowCookie EXCEPT ![r.browser] = NoFlow]
     /\ opened' = [opened EXCEPT ![s] = [flow |-> r.flow, browser |-> r.browser]]
     /\ Finish(h)
     /\ UNCHANGED <<flow, inflight, revoked, old, claimed, told, history>>

\* Or it fails: the exchange did, or the nonce is another one.
LoginFails(h) ==
  /\ At(h, "create")
  /\ Fault
  /\ flowCookie' = [flowCookie EXCEPT ![handler[h].browser] = NoFlow]
  /\ Finish(h)
  /\ UNCHANGED <<flow, cookie, session, inflight, keycloak, claimed, opened, told, disturbed, lost>>

-----------------------------------------------------------------------------
(* A request with a cookie *)

\* Another request of this pod is refreshing the session.
BugSharesRefresh(p, s) == FALSE
SharesRefresh(p, s) == s \in inflight[p]

\* resolveBrowserSession reads the row and decides what to do about its token.
RequestBegin(h, p, b, call) ==
  LET s == cookie[b]
      r == [Idle EXCEPT !.pod = p, !.browser = b, !.sid = s, !.call = call]
  IN /\ At(h, "idle")
     /\ call \in Calls \ {"logout"}
     /\ s # NoSession
     /\ \/ /\ session[s] = NoRow
           /\ ForgetCookie(b)
           /\ UNCHANGED <<handler, inflight>>
        \/ /\ session[s] # NoRow
           /\ ~Stale(s, session[s].gen)
           /\ Begin(h, [r EXCEPT !.pc = "verify"])
           /\ UNCHANGED <<cookie, inflight>>
        \/ /\ session[s] # NoRow
           /\ Stale(s, session[s].gen)
           /\ SharesRefresh(p, s)
           /\ Begin(h, [r EXCEPT !.pc = "wait"])
           /\ UNCHANGED <<cookie, inflight>>
        \/ /\ session[s] # NoRow
           /\ Stale(s, session[s].gen)
           /\ ~SharesRefresh(p, s)
           /\ Begin(h, [r EXCEPT !.pc = "refresh", !.row = session[s]])
           /\ inflight' = [inflight EXCEPT ![p] = @ \cup {s}]
           /\ UNCHANGED cookie
     /\ UNCHANGED <<flows, session, keycloak, claimed, told, history>>

\* The requests that wait for the outcome of the refresh of h.
BugFollowers(h) == {}
Followers(h) ==
  {g \in Handler : /\ At(g, "wait")
                   /\ handler[g].pod = handler[h].pod /\ handler[g].sid = handler[h].sid}

\* The refresh of h ends: with a token, with the end of the session, which
\* clears the cookies, or with an outage, which clears nothing.
Settle(h, outcome) ==
  LET done == Followers(h) \cup {h}
  IN /\ handler' = [g \in Handler |->
          IF g \notin done THEN handler[g]
          ELSE IF outcome = "token" THEN [handler[g] EXCEPT !.pc = "verify", !.row = NoRow, !.gen = 0]
          ELSE Idle]
     /\ cookie' = [b \in Browser |->
          IF outcome = "over" /\ \E g \in done : handler[g].browser = b
          THEN NoSession ELSE cookie[b]]
     /\ inflight' = [inflight EXCEPT ![handler[h].pod] = @ \ {handler[h].sid}]

\* Keycloak honours the refresh token of generation gen.
Honoured(s, gen) == s \notin revoked /\ (Rotates => gen = minted[s])

\* Another pod is refreshing the same session.
OtherPodRefreshes(h) ==
  \E g \in Handler : /\ handler[g].pc \in Refreshing
                     /\ handler[g].sid = handler[h].sid /\ handler[g].pod # handler[h].pod

RefreshCall(h) ==
  LET s == handler[h].sid
  IN /\ At(h, "refresh")
     /\ IF Honoured(s, handler[h].row.gen)
        THEN /\ minted[s] < MaxGen
             /\ minted' = [minted EXCEPT ![s] = @ + 1]
             /\ Begin(h, [handler[h] EXCEPT !.pc = "storeread", !.row = NoRow, !.gen = minted[s] + 1])
        ELSE Goto(h, "rejected") /\ UNCHANGED minted
     /\ disturbed' = IF OtherPodRefreshes(h) THEN disturbed \cup {s} ELSE disturbed
     /\ UNCHANGED <<flows, cookie, session, inflight, revoked, old, claimed, told, lost, faults>>

\* The grant has ended at Keycloak: its own logout, an administrator, its expiry.
RefreshRevoked(h) ==
  LET s == handler[h].sid
  IN /\ At(h, "refresh")
     /\ s \notin revoked
     /\ Fault
     /\ revoked' = revoked \cup {s}
     /\ Goto(h, "rejected")
     /\ UNCHANGED <<flows, cookie, session, inflight, minted, old, claimed, told, disturbed, lost>>

\* Keycloak is unwell; it may have rotated the token all the same.
RefreshFails(h) ==
  LET s == handler[h].sid
  IN /\ At(h, "refresh")
     /\ Fault
     /\ \/ UNCHANGED <<minted, disturbed>>
        \/ /\ Honoured(s, handler[h].row.gen)
           /\ minted[s] < MaxGen
           /\ minted' = [minted EXCEPT ![s] = @ + 1]
           /\ disturbed' = disturbed \cup {s}
     /\ Settle(h, "outage")
     /\ UNCHANGED <<flows, session, revoked, old, claimed, told, lost>>

\* updateSession finds nothing to update.
BugVanished(s) == FALSE
Vanished(s) == session[s] = NoRow

\* updateSession reads the row: it may have gone ...
StoreRead(h) ==
  LET s == handler[h].sid
  IN /\ At(h, "storeread")
     /\ IF Vanished(s) THEN Settle(h, "over")
        ELSE /\ Begin(h, [handler[h] EXCEPT !.pc = "store", !.row = session[s]])
             /\ UNCHANGED <<cookie, inflight>>
     /\ UNCHANGED <<flows, session, keycloak, claimed, told, history>>

\* ... and writes it back with the new tokens.
StoreWrite(h) ==
  LET r == handler[h]
  IN /\ At(h, "store")
     /\ session' = [session EXCEPT ![r.sid] = [r.row EXCEPT !.gen = r.gen]]
     /\ Settle(h, "token")
     /\ UNCHANGED <<flows, keycloak, claimed, told, history>>

\* A rejected grant: if the row has moved on, its token will do.
MovedOn(h) ==
  LET r == handler[h]
  IN session[r.sid] # NoRow /\ session[r.sid].gen # r.row.gen

RejectedRead(h) ==
  /\ At(h, "rejected")
  /\ IF MovedOn(h) THEN Settle(h, "token")
     ELSE Goto(h, "destroy") /\ UNCHANGED <<cookie, inflight>>
  /\ UNCHANGED <<flows, session, keycloak, claimed, told, history>>

DestroyRejected(h) ==
  LET s == handler[h].sid
  IN /\ At(h, "destroy")
     /\ session' = [session EXCEPT ![s] = NoRow]
     /\ lost' = IF session[s] # NoRow /\ s \notin revoked THEN lost \cup {s} ELSE lost
     /\ Settle(h, "over")
     /\ UNCHANGED <<flows, keycloak, claimed, told, disturbed, faults>>

\* The access token is accepted, refused for good, or cannot be judged now.
Verify(h) ==
  LET r == handler[h]
  IN /\ At(h, "verify")
     /\ \/ /\ IF r.call = "me" THEN Goto(h, "me") ELSE Finish(h)
           /\ UNCHANGED <<cookie, session, faults>>
        \/ /\ Fault
           /\ Finish(h)
           /\ session' = [session EXCEPT ![r.sid] = NoRow]
           /\ ForgetCookie(r.browser)
        \/ /\ Fault
           /\ Finish(h)
           /\ UNCHANGED <<cookie, session>>
     /\ UNCHANGED <<flows, inflight, keycloak, claimed, told, disturbed, lost>>

-----------------------------------------------------------------------------
(* GET /auth/me: is this the first login? *)

MeRead(h) ==
  LET s == handler[h].sid
  IN /\ At(h, "me")
     /\ IF session[s] # NoRow /\ session[s].first = "unset"
        THEN Begin(h, [handler[h] EXCEPT !.pc = "claim", !.row = session[s]])
        ELSE Finish(h)
     /\ told' = IF session[s].first = "yes" THEN told \cup {s} ELSE told
     /\ UNCHANGED <<flows, cookie, session, inflight, keycloak, claimed, history>>

\* One UPDATE: the marker is set unless it is there.
BugMayClaim(h) == handler[h].row.first = "unset"
MayClaim(h) == ~claimed

Claim(h) ==
  /\ At(h, "claim")
  /\ claimed' = TRUE
  /\ Begin(h, [handler[h] EXCEPT !.pc = "stampread",
                                 !.row.first = IF MayClaim(h) THEN "yes" ELSE "no"])
  /\ UNCHANGED <<flows, cookie, session, inflight, keycloak, told, history>>

Answer(h) ==
  /\ told' = IF handler[h].row.first = "yes" THEN told \cup {handler[h].sid} ELSE told
  /\ Finish(h)

\* updateSession again: the row is read, if it is there ...
StampRead(h) ==
  LET s == handler[h].sid
  IN /\ At(h, "stampread")
     /\ IF Vanished(s) THEN Answer(h)
        ELSE /\ Begin(h, [handler[h] EXCEPT !.pc = "stamp", !.row.gen = session[s].gen])
             /\ UNCHANGED told
     /\ UNCHANGED <<flows, cookie, session, inflight, keycloak, claimed, history>>

\* ... and written back with the stamp, its tokens as they were read.
StampWrite(h) ==
  LET r == handler[h]
  IN /\ At(h, "stamp")
     /\ session' = [session EXCEPT ![r.sid] = r.row]
     /\ disturbed' = IF session[r.sid].gen # r.row.gen THEN disturbed \cup {r.sid} ELSE disturbed
     /\ Answer(h)
     /\ UNCHANGED <<flows, cookie, inflight, keycloak, claimed, lost, faults>>

-----------------------------------------------------------------------------
(* Logout, time, crashes *)

\* POST /session/logout
Logout(b) ==
  /\ "logout" \in Calls
  /\ cookie[b] # NoSession
  /\ session' = [session EXCEPT ![cookie[b]] = NoRow]
  /\ ForgetCookie(b)
  /\ UNCHANGED <<flows, inflight, keycloak, claimed, handler, told, history>>

\* The tokens in a row get old, in the order they were minted.
GetOld(s) ==
  /\ session[s] # NoRow
  /\ old[s] < minted[s]
  /\ minted[s] < MaxGen
  /\ old' = [old EXCEPT ![s] = @ + 1]
  /\ UNCHANGED <<flows, cookie, session, inflight, minted, revoked, claimed, handler, told, history>>

ExpireSession(s) ==
  /\ Fault
  /\ session[s] # NoRow
  /\ session' = [session EXCEPT ![s] = NoRow]
  /\ UNCHANGED <<flows, cookie, inflight, keycloak, claimed, handler, told, disturbed, lost>>

\* A process dies with its requests and its map; tokens it has not stored are lost.
Crash(p) ==
  LET died == {h \in Handler : handler[h].pod = p}
  IN /\ Fault
     /\ died # {}
     /\ handler' = [h \in Handler |-> IF h \in died THEN Idle ELSE handler[h]]
     /\ inflight' = [inflight EXCEPT ![p] = {}]
     /\ disturbed' = disturbed \cup
          {handler[h].sid : h \in {g \in died : handler[g].pc \in {"storeread", "store"}}}
     /\ UNCHANGED <<flows, cookie, session, keycloak, claimed, told, lost>>

-----------------------------------------------------------------------------
(* The specification *)

Call(h) ==
  \E b \in Browser :
    \/ \E f \in Flow : CallbackBegin(h, b, f)
    \/ \E p \in Pod, call \in Calls : RequestBegin(h, p, b, call)

Serve(h) ==
  \/ ConsumeFlow(h) \/ LoginFails(h)
  \/ \E s \in Session : CreateSession(h, s)
  \/ RefreshCall(h) \/ RefreshRevoked(h) \/ RefreshFails(h) \/ StoreRead(h) \/ StoreWrite(h)
  \/ RejectedRead(h) \/ DestroyRejected(h) \/ Verify(h)
  \/ MeRead(h) \/ Claim(h) \/ StampRead(h) \/ StampWrite(h)

Elsewhere ==
  \/ \E b \in Browser : Logout(b) \/ \E f \in Flow : StartLogin(b, f)
  \/ \E s \in Session : GetOld(s) \/ ExpireSession(s)
  \/ \E p \in Pod : Crash(p)

Next ==
  \/ \E h \in Handler : Call(h) \/ Serve(h)
  \/ Elsewhere

Spec == Init /\ [][Next]_vars

-----------------------------------------------------------------------------
(* Properties *)

\* Rows, cookies and handlers have the shapes the code gives them.
TypeOK ==
  /\ flow \in [Flow -> FlowRow]
  /\ flowCookie \in [Browser -> Flow \cup {NoFlow}]
  /\ cookie \in [Browser -> Session \cup {NoSession}]
  /\ session \in [Session -> Row]
  /\ inflight \in [Pod -> SUBSET Session]
  /\ minted \in [Session -> 0 .. MaxGen]
  /\ revoked \subseteq Session
  /\ old \in [Session -> 0 .. MaxGen]
  /\ claimed \in BOOLEAN
  /\ handler \in [Handler -> HandlerState]
  /\ opened \in [Session -> Login]
  /\ told \subseteq Session
  /\ faults \in 0 .. MaxFaults
  /\ disturbed \subseteq Session
  /\ lost \subseteq Session

\* A login opens one session at most, and opens it in the browser that started
\* the login, whoever presents the callback and however often.
OneSessionPerLogin ==
  \A s \in Session : opened[s] # NoLogin =>
    /\ flow[opened[s].flow].browser = opened[s].browser
    /\ \A t \in Session \ {s} : opened[t].flow # opened[s].flow

\* The person is told of a first login in one session only, whatever sessions
\* and requests ask at the same time.
FirstLoginOnce == \A s, t \in told : s = t

\* No request waits for a refresh that nobody performs: the map of the process
\* names exactly the sessions some request of it is refreshing.
WaitersHaveLeader ==
  /\ \A p \in Pod : inflight[p] = {s \in Session : \E h \in Handler : Leads(h, p, s)}
  /\ \A h \in Handler : At(h, "wait") => \E g \in Handler : Leads(g, handler[h].pod, handler[h].sid)

\* A session whose grant is alive is ended as rejected only if two pods have
\* refreshed it at once, a stamp has written former tokens back, or tokens were
\* lost with a crash or an answer.  One process on its own never does it.
LossIsExplained == lost \subseteq disturbed
=============================================================================
