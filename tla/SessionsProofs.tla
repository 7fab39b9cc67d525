--------------------------- MODULE SessionsProofs ---------------------------
(***************************************************************************)
(* Proofs about Sessions, for any number of browsers, processes, sessions  *)
(* and requests, and whether Keycloak rotates its refresh tokens or not.   *)
(***************************************************************************)
EXTENDS Sessions, TLAPS

-----------------------------------------------------------------------------
(* Types.  TypeOK is not inductive: a request writes into Redis what it
   remembers, so its fields are typed by how far it has come, and whatever
   names a session names one that a login has opened. *)

LoginSteps == {"consume", "create"}
RequestSteps == {"wait", "refresh", "storeread", "store", "rejected", "destroy", "verify", "me",
                 "claim", "stampread", "stamp"}
RowSteps == {"refresh", "store", "rejected", "destroy", "claim", "stampread", "stamp"}

RecordInv(r) ==
  /\ r.pc \in LoginSteps => r.browser \in Browser /\ r.flow \in Flow
  /\ r.pc \in RequestSteps => r.pod \in Pod /\ r.browser \in Browser /\ r.sid \in Session
  /\ r.pc \notin RequestSteps => r.sid = NoSession /\ r.row = NoRow
  /\ r.pc \in RowSteps => r.row # NoRow
  /\ r.pc \in {"storeread", "store"} => r.gen \in 1 .. MaxGen

OpenInv ==
  /\ \A s \in Session : session[s] # NoRow => opened[s] # NoLogin
  /\ \A b \in Browser : cookie[b] # NoSession => opened[cookie[b]] # NoLogin
  /\ \A h \in Handler : handler[h].sid # NoSession => opened[handler[h].sid] # NoLogin
  /\ \A s \in revoked \cup disturbed : opened[s] # NoLogin

TypeInv == TypeOK /\ (\A h \in Handler : RecordInv(handler[h])) /\ OpenInv

LEMMA HandlerFacts ==
  ASSUME TypeInv, NEW h \in Handler
  PROVE  /\ handler[h] \in HandlerState /\ RecordInv(handler[h])
         /\ handler[h].pc \in RequestSteps =>
              /\ handler[h].pod \in Pod /\ handler[h].browser \in Browser
              /\ handler[h].sid \in Session
  BY DEF TypeInv, TypeOK, RecordInv

\* A step of handler h leaves the record r behind, which is in order.
Moves(h, r) ==
  /\ handler' = [handler EXCEPT ![h] = r]
  /\ r \in HandlerState /\ RecordInv(r)

SameRequest(r, q) == r.pod = q.pod /\ r.browser = q.browser /\ r.flow = q.flow /\ r.sid = q.sid

LEMMA MovesKeep ==
  ASSUME TypeInv, NEW h \in Handler, NEW r, Moves(h, r)
  PROVE  /\ handler' \in [Handler -> HandlerState]
         /\ handler'[h] = r
         /\ \A g \in Handler \ {h} : handler'[g] = handler[g]
         /\ \A g \in Handler : RecordInv(handler'[g])
  BY DEF Moves, TypeInv, TypeOK

LEMMA IdleFacts ==
  /\ Idle \in HandlerState /\ RecordInv(Idle)
  /\ Idle.pc = "idle" /\ Idle.pod = NoPod /\ Idle.browser = NoBrowser /\ Idle.flow = NoFlow
  /\ Idle.sid = NoSession /\ Idle.row = NoRow /\ Idle.gen = 0
<1>1. /\ Idle \in HandlerState
      /\ Idle.pc = "idle" /\ Idle.pod = NoPod /\ Idle.browser = NoBrowser /\ Idle.flow = NoFlow
      /\ Idle.sid = NoSession /\ Idle.row = NoRow /\ Idle.gen = 0
  BY SessionAssumption DEF Idle, HandlerState, Row, NoRow
<1>. QED
  BY <1>1 DEF RecordInv, LoginSteps, RequestSteps, RowSteps

LEMMA FinishMoves ==
  ASSUME TypeInv, NEW h \in Handler, Finish(h)
  PROVE  Moves(h, Idle)
  BY IdleFacts DEF Finish, Begin, Moves

\* A step that goes on with what it knows.
LEMMA GotoMoves ==
  ASSUME TypeInv, NEW h \in Handler,
         NEW pc \in {"create", "rejected", "destroy", "me"}, Goto(h, pc),
         pc = "create" <=> handler[h].pc = "consume",
         pc # "create" => handler[h].pc \in RequestSteps,
         pc \in {"rejected", "destroy"} => handler[h].pc \in RowSteps
  PROVE  \E r : /\ Moves(h, r) /\ r.pc = pc /\ SameRequest(r, handler[h])
                /\ r.row = handler[h].row /\ r.gen = handler[h].gen
<1>. DEFINE r == [handler[h] EXCEPT !.pc = pc]
<1>1. handler[h] \in HandlerState /\ RecordInv(handler[h])
  BY HandlerFacts
<1>2. /\ r \in HandlerState /\ r.pc = pc
      /\ r.pod = handler[h].pod /\ r.browser = handler[h].browser
      /\ r.flow = handler[h].flow /\ r.sid = handler[h].sid
      /\ r.row = handler[h].row /\ r.gen = handler[h].gen
  BY <1>1 DEF HandlerState
<1>3. RecordInv(r)
  BY <1>1, <1>2 DEF RecordInv, LoginSteps, RequestSteps, RowSteps
<1>4. handler' = [handler EXCEPT ![h] = r]
  BY DEF Goto, Begin
<1>. QED
  BY <1>2, <1>3, <1>4 DEF Moves, SameRequest

LEMMA CallbackMoves ==
  ASSUME TypeInv, NEW h \in Handler, NEW b \in Browser, NEW f \in Flow,
         CallbackBegin(h, b, f), BoundTo(b, f)
  PROVE  \E r : /\ Moves(h, r) /\ r.pc = "consume" /\ r.browser = b /\ r.flow = f
                /\ r.sid = NoSession /\ r.row = NoRow
<1>. DEFINE r == [Idle EXCEPT !.pc = "consume", !.browser = b, !.flow = f]
<1>1. /\ r \in HandlerState /\ r.pc = "consume" /\ r.browser = b /\ r.flow = f
      /\ r.sid = NoSession /\ r.row = NoRow
  BY IdleFacts DEF HandlerState
<1>2. RecordInv(r)
  BY <1>1 DEF RecordInv, LoginSteps, RequestSteps, RowSteps
<1>. QED
  BY <1>1, <1>2 DEF CallbackBegin, Moves, Begin

LEMMA RowFacts ==
  /\ NoRow \in Row /\ NoRow.gen = 0 /\ NoRow.first = "unset"
  /\ \A r \in Row : r # NoRow => r.gen \in 1 .. MaxGen /\ r.first \in {"unset", "yes", "no"}
  /\ \A r \in Row : r.gen \in 0 .. MaxGen /\ (r.gen = 0 <=> r = NoRow)
  /\ \A g \in 1 .. MaxGen, f \in {"unset", "yes", "no"} : 
       [gen |-> g, first |-> f] \in Row /\ [gen |-> g, first |-> f] # NoRow
  BY SessionAssumption DEF Row, NoRow

\* A request begins: it goes on with its token, waits, or refreshes.
LEMMA RequestMoves ==
  ASSUME TypeInv, NEW h \in Handler, NEW p \in Pod, NEW b \in Browser, NEW call \in Calls,
         RequestBegin(h, p, b, call)
  PROVE  LET s == cookie[b] IN
         /\ s \in Session
         /\ \/ handler' = handler /\ inflight' = inflight
            \/ \E r : /\ Moves(h, r) /\ r.pod = p /\ r.browser = b /\ r.sid = s
                      /\ session[s] # NoRow /\ UNCHANGED cookie
                      /\ \/ r.pc = "verify" /\ r.row = NoRow /\ UNCHANGED inflight
                         \/ r.pc = "wait" /\ r.row = NoRow /\ s \in inflight[p] /\ UNCHANGED inflight
                         \/ /\ r.pc = "refresh" /\ r.row = session[s] /\ s \notin inflight[p]
                            /\ inflight' = [inflight EXCEPT ![p] = @ \cup {s}]
<1>. DEFINE s == cookie[b]
            q == [Idle EXCEPT !.pod = p, !.browser = b, !.sid = s, !.call = call]
<1>1. s \in Session /\ call \in {"request", "me"} /\ session[s] \in Row
  BY SessionAssumption DEF RequestBegin, TypeInv, TypeOK
<1>2. /\ q \in HandlerState /\ q.pod = p /\ q.browser = b /\ q.sid = s /\ q.row = NoRow
  BY <1>1, IdleFacts DEF HandlerState
<1>3. ASSUME NEW pc \in {"verify", "wait"}, Begin(h, [q EXCEPT !.pc = pc])
      PROVE  \E r : /\ Moves(h, r) /\ r.pod = p /\ r.browser = b /\ r.sid = s
                    /\ r.pc = pc /\ r.row = NoRow
  <2>. DEFINE r == [q EXCEPT !.pc = pc]
  <2>1. /\ r \in HandlerState /\ r.pc = pc /\ r.pod = p /\ r.browser = b /\ r.sid = s /\ r.row = NoRow
    BY <1>2 DEF HandlerState
  <2>2. RecordInv(r)
    BY <1>1, <2>1 DEF RecordInv, LoginSteps, RequestSteps, RowSteps
  <2>. HIDE DEF q
  <2>. QED
    BY <1>3, <2>1, <2>2 DEF Moves, Begin
<1>4. ASSUME Begin(h, [q EXCEPT !.pc = "refresh", !.row = session[s]]), session[s] # NoRow
      PROVE  \E r : /\ Moves(h, r) /\ r.pod = p /\ r.browser = b /\ r.sid = s
                    /\ r.pc = "refresh" /\ r.row = session[s]
  <2>. DEFINE r == [q EXCEPT !.pc = "refresh", !.row = session[s]]
  <2>1. /\ r \in HandlerState /\ r.pc = "refresh" /\ r.pod = p /\ r.browser = b /\ r.sid = s
        /\ r.row = session[s]
    BY <1>1, <1>2 DEF HandlerState
  <2>2. RecordInv(r)
    BY <1>1, <1>4, <2>1 DEF RecordInv, LoginSteps, RequestSteps, RowSteps
  <2>. HIDE DEF q
  <2>. QED
    BY <1>4, <2>1, <2>2 DEF Moves, Begin
<1>5. CASE session[s] = NoRow
  BY <1>1, <1>5 DEF RequestBegin
<1>6. CASE session[s] # NoRow /\ ~Stale(s, session[s].gen)
  <2>1. Begin(h, [q EXCEPT !.pc = "verify"]) /\ UNCHANGED <<cookie, inflight>>
    BY <1>6 DEF RequestBegin
  <2>. HIDE DEF q
  <2>. QED
    BY <1>1, <1>3, <1>6, <2>1
<1>7. CASE session[s] # NoRow /\ Stale(s, session[s].gen) /\ s \in inflight[p]
  <2>1. Begin(h, [q EXCEPT !.pc = "wait"]) /\ UNCHANGED <<cookie, inflight>>
    BY <1>7 DEF RequestBegin, SharesRefresh
  <2>. HIDE DEF q
  <2>. QED
    BY <1>1, <1>3, <1>7, <2>1
<1>8. CASE session[s] # NoRow /\ Stale(s, session[s].gen) /\ s \notin inflight[p]
  <2>1. /\ Begin(h, [q EXCEPT !.pc = "refresh", !.row = session[s]]) /\ UNCHANGED cookie
        /\ inflight' = [inflight EXCEPT ![p] = @ \cup {s}]
    BY <1>8 DEF RequestBegin, SharesRefresh
  <2>. HIDE DEF q
  <2>. QED
    BY <1>1, <1>4, <1>8, <2>1
<1>. QED
  BY <1>5, <1>6, <1>7, <1>8

LEMMA RefreshCallMoves ==
  ASSUME TypeInv, NEW h \in Handler, RefreshCall(h)
  PROVE  LET s == handler[h].sid IN
         \E r : /\ Moves(h, r) /\ SameRequest(r, handler[h])
                /\ \/ /\ Honoured(s, handler[h].row.gen)
                      /\ r.pc = "storeread" /\ r.row = NoRow /\ r.gen = minted[s] + 1
                      /\ minted[s] + 1 \in 1 .. MaxGen /\ minted' = [minted EXCEPT ![s] = @ + 1]
                   \/ /\ ~Honoured(s, handler[h].row.gen)
                      /\ r.pc = "rejected" /\ r.row = handler[h].row /\ minted' = minted
<1>. DEFINE s == handler[h].sid
            n == minted[s] + 1
            r == [handler[h] EXCEPT !.pc = "storeread", !.row = NoRow, !.gen = n]
<1>1. /\ handler[h] \in HandlerState /\ RecordInv(handler[h]) /\ handler[h].pc = "refresh"
      /\ s \in Session /\ minted[s] \in 0 .. MaxGen /\ NoRow \in Row
  BY HandlerFacts, RowFacts DEF RefreshCall, At, RequestSteps, TypeInv, TypeOK
<1>2. CASE Honoured(s, handler[h].row.gen)
  <2>1. n \in 1 .. MaxGen /\ n \in 0 .. MaxGen
    BY <1>1, <1>2, SessionAssumption DEF RefreshCall
  <2>2. /\ handler' = [handler EXCEPT ![h] = r]
        /\ minted' = [minted EXCEPT ![s] = @ + 1]
    BY <1>2 DEF RefreshCall, Begin
  <2>3. n = minted[s] + 1
    OBVIOUS
  <2>. HIDE DEF n
  <2>4. /\ r \in HandlerState /\ r.pc = "storeread" /\ r.row = NoRow /\ r.gen = n
        /\ r.pod = handler[h].pod /\ r.browser = handler[h].browser
        /\ r.flow = handler[h].flow /\ r.sid = handler[h].sid
    BY <1>1, <2>1 DEF HandlerState
  <2>5. RecordInv(r)
    BY <1>1, <2>1, <2>4 DEF RecordInv, LoginSteps, RequestSteps, RowSteps
  <2>6. Moves(h, r) /\ SameRequest(r, handler[h])
    BY <2>2, <2>4, <2>5 DEF Moves, SameRequest
  <2>. QED
    BY <1>2, <2>1, <2>2, <2>3, <2>4, <2>6
<1>3. CASE ~Honoured(s, handler[h].row.gen)
  <2>1. Goto(h, "rejected") /\ minted' = minted
    BY <1>3 DEF RefreshCall
  <2>. QED
    BY <1>1, <1>3, <2>1, GotoMoves DEF RequestSteps, RowSteps
<1>. QED
  BY <1>2, <1>3

\* The end of a refresh, for the one that performed it and for those that wait.
LEMMA SettleMoves ==
  ASSUME TypeInv, NEW h \in Handler, NEW outcome, Settle(h, outcome),
         handler[h].pc \in RequestSteps
  PROVE  /\ handler' \in [Handler -> HandlerState]
         /\ \A g \in Handler : RecordInv(handler'[g])
         /\ \A g \in Handler : g \notin Followers(h) \cup {h} => handler'[g] = handler[g]
         /\ \A g \in Followers(h) \cup {h} :
              handler'[g] = Idle \/ /\ handler'[g].pc = "verify"
                                    /\ SameRequest(handler'[g], handler[g])
                                    /\ handler'[g].row = NoRow
<1>. DEFINE done == Followers(h) \cup {h}
            q(g) == [handler[g] EXCEPT !.pc = "verify", !.row = NoRow, !.gen = 0]
<1>1. /\ \A g \in Handler : handler[g] \in HandlerState /\ RecordInv(handler[g])
      /\ NoRow \in Row /\ 0 \in 0 .. MaxGen
  BY HandlerFacts, RowFacts, SessionAssumption
<1>2. \A g \in done : g \in Handler /\ handler[g].pc \in RequestSteps
  BY DEF Followers, At, RequestSteps
<1>3. ASSUME NEW g \in done
      PROVE  /\ q(g) \in HandlerState /\ RecordInv(q(g)) /\ q(g).pc = "verify"
             /\ SameRequest(q(g), handler[g]) /\ q(g).row = NoRow
  <2>1. /\ q(g) \in HandlerState /\ q(g).pc = "verify" /\ q(g).row = NoRow
        /\ q(g).pod = handler[g].pod /\ q(g).browser = handler[g].browser
        /\ q(g).flow = handler[g].flow /\ q(g).sid = handler[g].sid
    BY <1>1, <1>2 DEF HandlerState
  <2>. QED
    BY <1>1, <1>2, <2>1 DEF RecordInv, LoginSteps, RequestSteps, RowSteps, SameRequest
<1>4. handler' = [g \in Handler |->
          IF g \notin done THEN handler[g] ELSE IF outcome = "token" THEN q(g) ELSE Idle]
  BY DEF Settle
<1>5. \A g \in Handler : handler'[g] =
          IF g \notin done THEN handler[g] ELSE IF outcome = "token" THEN q(g) ELSE Idle
  BY <1>4
<1>. HIDE DEF done, q
<1>6. handler' \in [Handler -> HandlerState] /\ \A g \in Handler : RecordInv(handler'[g])
  BY <1>1, <1>3, <1>4, IdleFacts
<1>. QED
  BY <1>2, <1>3, <1>5, <1>6 DEF done

\* updateSession has read the row of the session.
LEMMA StoreReadMoves ==
  ASSUME TypeInv, NEW h \in Handler, StoreRead(h), ~Vanished(handler[h].sid)
  PROVE  \E r : /\ Moves(h, r) /\ SameRequest(r, handler[h]) /\ r.pc = "store"
                /\ r.row = session[handler[h].sid] /\ r.gen = handler[h].gen
                /\ UNCHANGED <<cookie, inflight>>
<1>. DEFINE s == handler[h].sid
            r == [handler[h] EXCEPT !.pc = "store", !.row = session[s]]
<1>1. /\ handler[h] \in HandlerState /\ RecordInv(handler[h]) /\ handler[h].pc = "storeread"
      /\ s \in Session /\ session[s] \in Row /\ session[s] # NoRow
  BY HandlerFacts DEF StoreRead, At, RequestSteps, TypeInv, TypeOK, Vanished
<1>2. /\ r \in HandlerState /\ r.pc = "store" /\ r.row = session[s] /\ r.gen = handler[h].gen
      /\ r.pod = handler[h].pod /\ r.browser = handler[h].browser
      /\ r.flow = handler[h].flow /\ r.sid = handler[h].sid
  BY <1>1 DEF HandlerState
<1>3. RecordInv(r)
  BY <1>1, <1>2 DEF RecordInv, LoginSteps, RequestSteps, RowSteps
<1>. QED
  BY <1>2, <1>3 DEF StoreRead, Moves, Begin, SameRequest

LEMMA MeReadMoves ==
  ASSUME TypeInv, NEW h \in Handler, MeRead(h)
  PROVE  LET s == handler[h].sid IN
         \/ Moves(h, Idle)
         \/ \E r : /\ Moves(h, r) /\ SameRequest(r, handler[h]) /\ r.pc = "claim"
                   /\ r.row = session[s] /\ session[s] # NoRow /\ session[s].first = "unset"
<1>. DEFINE s == handler[h].sid
            r == [handler[h] EXCEPT !.pc = "claim", !.row = session[s]]
<1>1. /\ handler[h] \in HandlerState /\ RecordInv(handler[h]) /\ handler[h].pc = "me"
      /\ s \in Session /\ session[s] \in Row
  BY HandlerFacts DEF MeRead, At, RequestSteps, TypeInv, TypeOK
<1>2. CASE session[s] # NoRow /\ session[s].first = "unset"
  <2>1. /\ r \in HandlerState /\ r.pc = "claim" /\ r.row = session[s]
        /\ r.pod = handler[h].pod /\ r.browser = handler[h].browser
        /\ r.flow = handler[h].flow /\ r.sid = handler[h].sid
    BY <1>1 DEF HandlerState
  <2>2. RecordInv(r)
    BY <1>1, <1>2, <2>1 DEF RecordInv, LoginSteps, RequestSteps, RowSteps
  <2>. QED
    BY <1>2, <2>1, <2>2 DEF MeRead, Moves, Begin, SameRequest
<1>3. CASE ~(session[s] # NoRow /\ session[s].first = "unset")
  <2>1. Finish(h)
    BY <1>3 DEF MeRead
  <2>. QED
    BY <2>1, FinishMoves
<1>. QED
  BY <1>2, <1>3

LEMMA ClaimMoves ==
  ASSUME TypeInv, NEW h \in Handler, Claim(h)
  PROVE  \E r : /\ Moves(h, r) /\ SameRequest(r, handler[h]) /\ r.pc = "stampread"
                /\ r.row.gen = handler[h].row.gen
                /\ r.row.first = IF MayClaim(h) THEN "yes" ELSE "no"
<1>. DEFINE f == IF MayClaim(h) THEN "yes" ELSE "no"
            q == [handler[h].row EXCEPT !.first = f]
            r == [handler[h] EXCEPT !.pc = "stampread", !.row = q]
<1>1. /\ handler[h] \in HandlerState /\ RecordInv(handler[h]) /\ handler[h].pc = "claim"
      /\ handler[h].row \in Row /\ handler[h].row # NoRow /\ handler[h].sid \in Session
  BY HandlerFacts DEF Claim, At, RequestSteps, RecordInv, RowSteps, HandlerState
<1>2. handler' = [handler EXCEPT ![h] = r]
  BY <1>1 DEF Claim, Begin
<1>3. q \in Row /\ q # NoRow /\ q.gen = handler[h].row.gen /\ q.first = f
  BY <1>1, SessionAssumption DEF Row, NoRow
<1>. HIDE DEF q, f
<1>4. /\ r \in HandlerState /\ r.pc = "stampread" /\ r.row = q
      /\ r.pod = handler[h].pod /\ r.browser = handler[h].browser
      /\ r.flow = handler[h].flow /\ r.sid = handler[h].sid
  BY <1>1, <1>3 DEF HandlerState
<1>5. RecordInv(r)
  BY <1>1, <1>3, <1>4 DEF RecordInv, LoginSteps, RequestSteps, RowSteps
<1>. QED
  BY <1>2, <1>3, <1>4, <1>5 DEF Moves, SameRequest, f

LEMMA StampReadMoves ==
  ASSUME TypeInv, NEW h \in Handler, StampRead(h), ~Vanished(handler[h].sid)
  PROVE  \E r : /\ Moves(h, r) /\ SameRequest(r, handler[h]) /\ r.pc = "stamp"
                /\ r.row.gen = session[handler[h].sid].gen /\ r.row.first = handler[h].row.first
                /\ UNCHANGED told
<1>. DEFINE s == handler[h].sid
            q == [handler[h].row EXCEPT !.gen = session[s].gen]
            r == [handler[h] EXCEPT !.pc = "stamp", !.row = q]
<1>1. /\ handler[h] \in HandlerState /\ RecordInv(handler[h]) /\ handler[h].pc = "stampread"
      /\ handler[h].row \in Row /\ handler[h].row # NoRow /\ s \in Session
      /\ session[s] \in Row /\ session[s] # NoRow
  BY HandlerFacts DEF StampRead, At, RequestSteps, RecordInv, RowSteps, HandlerState, TypeInv,
     TypeOK, Vanished
<1>2. handler' = [handler EXCEPT ![h] = r]
  BY <1>1 DEF StampRead, Begin
<1>3. q \in Row /\ q # NoRow /\ q.gen = session[s].gen /\ q.first = handler[h].row.first
  BY <1>1, SessionAssumption DEF Row, NoRow
<1>. HIDE DEF q
<1>4. /\ r \in HandlerState /\ r.pc = "stamp" /\ r.row = q
      /\ r.pod = handler[h].pod /\ r.browser = handler[h].browser
      /\ r.flow = handler[h].flow /\ r.sid = handler[h].sid
  BY <1>1, <1>3 DEF HandlerState
<1>5. RecordInv(r)
  BY <1>1, <1>3, <1>4 DEF RecordInv, LoginSteps, RequestSteps, RowSteps
<1>. QED
  BY <1>2, <1>3, <1>4, <1>5 DEF StampRead, Moves, SameRequest

\* What a step does to the requests, as far as their types go.
Kept ==
  /\ handler' \in [Handler -> HandlerState]
  /\ \A g \in Handler : RecordInv(handler'[g])
  /\ \A g \in Handler : handler'[g].sid # NoSession => opened[handler'[g].sid] # NoLogin

LEMMA MovesKept ==
  ASSUME TypeInv, NEW h \in Handler, NEW r, Moves(h, r),
         r.sid = NoSession \/ r.sid = handler[h].sid \/ opened[r.sid] # NoLogin
  PROVE  Kept
<1>1. /\ handler' \in [Handler -> HandlerState] /\ handler'[h] = r
      /\ \A g \in Handler \ {h} : handler'[g] = handler[g]
      /\ \A g \in Handler : RecordInv(handler'[g])
  BY MovesKeep
<1>2. ASSUME NEW g \in Handler, handler'[g].sid # NoSession
      PROVE  opened[handler'[g].sid] # NoLogin
  <2>1. \A k \in Handler : handler[k].sid # NoSession => opened[handler[k].sid] # NoLogin
    BY DEF TypeInv, OpenInv
  <2>2. CASE g = h
    BY <1>1, <1>2, <2>1, <2>2
  <2>3. CASE g # h
    BY <1>1, <1>2, <2>1, <2>3
  <2>. QED
    BY <2>2, <2>3
<1>. QED
  BY <1>1, <1>2 DEF Kept

LEMMA SameKept ==
  ASSUME TypeInv, UNCHANGED handler
  PROVE  Kept
  BY DEF TypeInv, TypeOK, OpenInv, Kept

LEMMA SettleKept ==
  ASSUME TypeInv, NEW h \in Handler, NEW outcome, Settle(h, outcome),
         handler[h].pc \in RequestSteps
  PROVE  /\ Kept
         /\ cookie' \in [Browser -> Session \cup {NoSession}]
         /\ \A b \in Browser : cookie'[b] \in {NoSession, cookie[b]}
         /\ inflight' \in [Pod -> SUBSET Session]
<1>1. /\ handler' \in [Handler -> HandlerState]
      /\ \A g \in Handler : RecordInv(handler'[g])
      /\ \A g \in Handler : g \notin Followers(h) \cup {h} => handler'[g] = handler[g]
      /\ \A g \in Followers(h) \cup {h} :
           handler'[g] = Idle \/ SameRequest(handler'[g], handler[g])
  BY SettleMoves
<1>2. ASSUME NEW g \in Handler, handler'[g].sid # NoSession
      PROVE  opened[handler'[g].sid] # NoLogin
  <2>1. handler'[g].sid = handler[g].sid
    BY <1>1, <1>2, IdleFacts DEF SameRequest
  <2>. QED
    BY <1>2, <2>1 DEF TypeInv, OpenInv
<1>3. /\ cookie' \in [Browser -> Session \cup {NoSession}]
      /\ \A b \in Browser : cookie'[b] \in {NoSession, cookie[b]}
  BY DEF Settle, TypeInv, TypeOK
<1>4. inflight' \in [Pod -> SUBSET Session]
  BY DEF Settle, TypeInv, TypeOK
<1>. QED
  BY <1>1, <1>2, <1>3, <1>4 DEF Kept

LEMMA CrashMoves ==
  ASSUME TypeInv, NEW p \in Pod, Crash(p)
  PROVE  /\ handler' \in [Handler -> HandlerState]
         /\ \A g \in Handler : RecordInv(handler'[g])
         /\ \A g \in Handler : handler'[g] = IF handler[g].pod = p THEN Idle ELSE handler[g]
<1>1. \A g \in Handler : handler[g] \in HandlerState /\ RecordInv(handler[g])
  BY HandlerFacts
<1>2. handler' = [g \in Handler |-> IF handler[g].pod = p THEN Idle ELSE handler[g]]
  BY DEF Crash
<1>. QED
  BY <1>1, <1>2, IdleFacts

\* The rest of the type invariant, for a step that opens no session.
LEMMA KeptType ==
  ASSUME TypeInv, Kept, UNCHANGED opened,
         flow' \in [Flow -> FlowRow], flowCookie' \in [Browser -> Flow \cup {NoFlow}],
         cookie' \in [Browser -> Session \cup {NoSession}],
         \A b \in Browser : cookie'[b] \in {NoSession, cookie[b]},
         session' \in [Session -> Row],
         \A s \in Session : session'[s] # NoRow => opened[s] # NoLogin,
         inflight' \in [Pod -> SUBSET Session],
         minted' \in [Session -> 0 .. MaxGen], old' \in [Session -> 0 .. MaxGen],
         revoked' \subseteq Session, disturbed' \subseteq Session, lost' \subseteq Session,
         \A s \in revoked' \cup disturbed' : opened[s] # NoLogin,
         claimed' \in BOOLEAN, told' \subseteq Session, faults' \in 0 .. MaxFaults
  PROVE  TypeInv'
<1>1. TypeOK'
  BY DEF TypeOK, TypeInv, Kept
<1>2. \A h \in Handler : RecordInv(handler'[h])
  BY DEF Kept
<1>3. OpenInv'
  <2>1. \A b \in Browser : cookie'[b] # NoSession => opened[cookie'[b]] # NoLogin
    BY DEF TypeInv, OpenInv
  <2>. QED
    BY <2>1 DEF OpenInv, Kept
<1>. QED
  BY <1>1, <1>2, <1>3 DEF TypeInv, RecordInv

LEMMA TypeInit == Init => TypeInv
<1>. SUFFICES ASSUME Init PROVE TypeInv
  OBVIOUS
<1>1. /\ NoRow \in Row /\ Idle \in HandlerState /\ RecordInv(Idle) /\ Idle.sid = NoSession
      /\ NoLogin \in Login
  BY IdleFacts, RowFacts DEF Login
<1>2. NewFlow \in FlowRow
  BY DEF NewFlow, FlowRow
<1>3. TypeOK
  <2>1. 0 \in 0 .. MaxGen /\ 0 \in 0 .. MaxFaults
    BY SessionAssumption
  <2>2. claimed \in BOOLEAN /\ faults \in 0 .. MaxFaults
    BY <2>1 DEF Init
  <2>3. /\ session \in [Session -> Row] /\ handler \in [Handler -> HandlerState]
        /\ flow \in [Flow -> FlowRow] /\ opened \in [Session -> Login]
    BY <1>1, <1>2 DEF Init
  <2>4. /\ flowCookie \in [Browser -> Flow \cup {NoFlow}]
        /\ cookie \in [Browser -> Session \cup {NoSession}]
        /\ minted \in [Session -> 0 .. MaxGen] /\ old \in [Session -> 0 .. MaxGen]
        /\ inflight \in [Pod -> SUBSET Session]
        /\ revoked \subseteq Session /\ told \subseteq Session
        /\ disturbed \subseteq Session /\ lost \subseteq Session
    BY <2>1 DEF Init
  <2>. QED
    BY <2>2, <2>3, <2>4 DEF TypeOK
<1>4. OpenInv
  BY <1>1 DEF Init, OpenInv
<1>. QED
  BY <1>1, <1>3, <1>4 DEF TypeInv, Init

\* Every step keeps the types.  The steps of a request, then the others.
LEMMA LoginKeepsType ==
  ASSUME TypeInv
  PROVE  /\ \A b \in Browser, f \in Flow : StartLogin(b, f) => TypeInv'
         /\ \A h \in Handler, b \in Browser, f \in Flow : CallbackBegin(h, b, f) => TypeInv'
         /\ \A h \in Handler : ConsumeFlow(h) \/ LoginFails(h) => TypeInv'
<1>1. /\ flow \in [Flow -> FlowRow] /\ flowCookie \in [Browser -> Flow \cup {NoFlow}]
      /\ \A h \in Handler : handler[h].pc \in LoginSteps =>
           handler[h].browser \in Browser /\ handler[h].flow \in Flow
  BY HandlerFacts DEF TypeInv, TypeOK, RecordInv
<1>2. ASSUME Kept, flow' \in [Flow -> FlowRow], flowCookie' \in [Browser -> Flow \cup {NoFlow}],
             UNCHANGED <<cookie, session, inflight, keycloak, claimed, opened, told, disturbed, lost>>,
             faults' \in 0 .. MaxFaults
      PROVE  TypeInv'
  <2>1. \A s \in Session : session[s] # NoRow => opened[s] # NoLogin
    BY DEF TypeInv, OpenInv
  <2>2. \A s \in revoked \cup disturbed : opened[s] # NoLogin
    BY DEF TypeInv, OpenInv
  <2>. QED
    BY <1>2, <2>1, <2>2, KeptType DEF TypeInv, TypeOK, keycloak
<1>3. ASSUME NEW b \in Browser, NEW f \in Flow, StartLogin(b, f) PROVE TypeInv'
  <2>1. flow' \in [Flow -> FlowRow] /\ flowCookie' \in [Browser -> Flow \cup {NoFlow}]
    BY <1>1, <1>3 DEF StartLogin, FlowRow
  <2>. QED
    BY <1>2, <1>3, <2>1, SameKept DEF StartLogin, history, TypeInv, TypeOK
<1>4. ASSUME NEW h \in Handler, NEW b \in Browser, NEW f \in Flow, CallbackBegin(h, b, f)
      PROVE  TypeInv'
  <2>1. Kept
    <3>1. CASE BoundTo(b, f)
      <4>1. PICK r : Moves(h, r) /\ r.sid = NoSession
        BY <1>4, <3>1, CallbackMoves
      <4>. QED
        BY <4>1, MovesKept
    <3>2. CASE ~BoundTo(b, f)
      BY <1>4, <3>2, SameKept DEF CallbackBegin
    <3>. QED
      BY <3>1, <3>2
  <2>2. flowCookie' \in [Browser -> Flow \cup {NoFlow}]
    BY <1>1, <1>4 DEF CallbackBegin
  <2>. QED
    BY <1>1, <1>2, <1>4, <2>1, <2>2 DEF CallbackBegin, history, TypeInv, TypeOK
<1>5. ASSUME NEW h \in Handler, ConsumeFlow(h) PROVE TypeInv'
  <2>1. handler[h].pc = "consume"
    BY <1>5 DEF ConsumeFlow, At
  <2>2. ASSUME Goto(h, "create") PROVE Kept
    <3>1. PICK r : Moves(h, r) /\ SameRequest(r, handler[h])
      BY <2>1, <2>2, GotoMoves
    <3>. QED
      BY <3>1, MovesKept DEF SameRequest
  <2>3. ASSUME Finish(h) PROVE Kept
    BY <2>3, FinishMoves, MovesKept, IdleFacts
  <2>4. Kept
    BY <1>5, <2>2, <2>3 DEF ConsumeFlow
  <2>5. flow' \in [Flow -> FlowRow] /\ flowCookie' \in [Browser -> Flow \cup {NoFlow}]
    BY <1>1, <1>5, <2>1 DEF ConsumeFlow, Consumed, FlowRow, LoginSteps
  <2>. QED
    BY <1>2, <1>5, <2>4, <2>5 DEF ConsumeFlow, history, TypeInv, TypeOK
<1>6. ASSUME NEW h \in Handler, LoginFails(h) PROVE TypeInv'
  <2>1. Kept
    BY <1>6, FinishMoves, MovesKept, IdleFacts DEF LoginFails
  <2>2. flowCookie' \in [Browser -> Flow \cup {NoFlow}]
    BY <1>1, <1>6 DEF LoginFails, LoginSteps, At
  <2>3. faults' \in 0 .. MaxFaults
    BY <1>6, SessionAssumption DEF LoginFails, Fault, TypeInv, TypeOK
  <2>. QED
    BY <1>1, <1>2, <1>6, <2>1, <2>2, <2>3 DEF LoginFails
<1>. QED
  BY <1>3, <1>4, <1>5, <1>6

LEMMA CreateKeepsType ==
  ASSUME TypeInv, NEW h \in Handler, NEW s \in Session, CreateSession(h, s)
  PROVE  TypeInv'
<1>1. /\ handler[h].pc = "create" /\ handler[h].browser \in Browser /\ handler[h].flow \in Flow
  BY HandlerFacts DEF CreateSession, At, RecordInv, LoginSteps
<1>2. Kept
  BY FinishMoves, MovesKept, IdleFacts DEF CreateSession
<1>3. /\ [gen |-> 1, first |-> "unset"] \in Row
      /\ [flow |-> handler[h].flow, browser |-> handler[h].browser] \in Login
      /\ [flow |-> handler[h].flow, browser |-> handler[h].browser] # NoLogin
      /\ 1 \in 0 .. MaxGen
  BY <1>1, SessionAssumption DEF Row, Login, NoLogin
<1>4. /\ session' \in [Session -> Row] /\ minted' \in [Session -> 0 .. MaxGen]
      /\ opened' \in [Session -> Login] /\ opened'[s] # NoLogin
      /\ \A t \in Session \ {s} : opened'[t] = opened[t] /\ session'[t] = session[t]
  BY <1>3 DEF CreateSession, TypeInv, TypeOK
<1>5. /\ cookie' \in [Browser -> Session \cup {NoSession}]
      /\ \A b \in Browser : cookie'[b] \in {s, cookie[b]}
      /\ flowCookie' \in [Browser -> Flow \cup {NoFlow}]
  BY <1>1 DEF CreateSession, TypeInv, TypeOK
<1>6. UNCHANGED <<flow, inflight, revoked, old, claimed, told, faults, disturbed, lost>>
  BY DEF CreateSession, history
<1>7. TypeOK'
  BY <1>2, <1>4, <1>5, <1>6 DEF TypeInv, TypeOK, Kept
<1>8. \A t \in Session : opened[t] # NoLogin => opened'[t] # NoLogin
  BY <1>4
<1>9. OpenInv'
  <2>1. \A t \in Session : session'[t] # NoRow => opened'[t] # NoLogin
    BY <1>4 DEF TypeInv, OpenInv
  <2>2. \A b \in Browser : cookie'[b] # NoSession => opened'[cookie'[b]] # NoLogin
    BY <1>4, <1>5, <1>8 DEF TypeInv, OpenInv
  <2>3. \A g \in Handler : handler'[g].sid # NoSession => opened'[handler'[g].sid] # NoLogin
    <3>1. \A g \in Handler : handler'[g].sid \in Session \cup {NoSession}
      BY <1>2 DEF Kept, HandlerState
    <3>. QED
      BY <1>2, <1>8, <3>1 DEF Kept
  <2>4. \A t \in revoked' \cup disturbed' : opened'[t] # NoLogin
    BY <1>6, <1>8 DEF TypeInv, TypeOK, OpenInv
  <2>. QED
    BY <2>1, <2>2, <2>3, <2>4 DEF OpenInv
<1>. QED
  BY <1>2, <1>7, <1>9 DEF TypeInv, Kept, RecordInv

\* The steps of a request with a cookie leave the login flows alone.
LEMMA RequestKeepsType ==
  ASSUME TypeInv, Kept, UNCHANGED <<flows, claimed>>,
         cookie' \in [Browser -> Session \cup {NoSession}],
         \A b \in Browser : cookie'[b] \in {NoSession, cookie[b]},
         inflight' \in [Pod -> SUBSET Session],
         session' \in [Session -> Row],
         \A s \in Session : session'[s] # NoRow => opened[s] # NoLogin,
         minted' \in [Session -> 0 .. MaxGen], old' \in [Session -> 0 .. MaxGen],
         NEW s \in Session, opened[s] # NoLogin,
         revoked' \subseteq revoked \cup {s}, disturbed' \subseteq disturbed \cup {s},
         told' \subseteq told \cup {s}, lost' \subseteq lost \cup {s}, faults' \in 0 .. MaxFaults
  PROVE  TypeInv'
<1>1. \A t \in revoked' \cup disturbed' : opened[t] # NoLogin
  BY DEF TypeInv, OpenInv
<1>2. /\ revoked' \subseteq Session /\ disturbed' \subseteq Session
      /\ told' \subseteq Session /\ lost' \subseteq Session
  BY DEF TypeInv, TypeOK
<1>3. /\ flow' \in [Flow -> FlowRow] /\ flowCookie' \in [Browser -> Flow \cup {NoFlow}]
      /\ claimed' \in BOOLEAN /\ UNCHANGED opened
  BY DEF TypeInv, TypeOK, flows
<1>. QED
  BY <1>1, <1>2, <1>3, KeptType

\* What the steps of a request find in the state.
LEMMA RequestFacts ==
  ASSUME TypeInv, NEW h \in Handler, handler[h].pc \in RequestSteps
  PROVE  LET s == handler[h].sid IN
         /\ s \in Session /\ opened[s] # NoLogin /\ session[s] \in Row
         /\ handler[h].pod \in Pod /\ handler[h].browser \in Browser
         /\ \A t \in Session : session[t] # NoRow => opened[t] # NoLogin
         /\ cookie \in [Browser -> Session \cup {NoSession}] /\ inflight \in [Pod -> SUBSET Session]
         /\ session \in [Session -> Row] /\ minted \in [Session -> 0 .. MaxGen]
         /\ old \in [Session -> 0 .. MaxGen] /\ faults \in 0 .. MaxFaults
<1>1. handler[h].sid \in Session /\ handler[h].pod \in Pod /\ handler[h].browser \in Browser
  BY HandlerFacts
<1>2. opened[handler[h].sid] # NoLogin
  BY <1>1, SessionAssumption DEF TypeInv, OpenInv
<1>. QED
  BY <1>1, <1>2 DEF TypeInv, TypeOK, OpenInv

LEMMA FaultType ==
  ASSUME TypeInv, Fault
  PROVE  faults' \in 0 .. MaxFaults
  BY SessionAssumption DEF TypeInv, TypeOK, Fault

LEMMA BeginKeepsType ==
  ASSUME TypeInv, NEW h \in Handler, NEW p \in Pod, NEW b \in Browser, NEW call \in Calls,
         RequestBegin(h, p, b, call)
  PROVE  TypeInv'
<1>. DEFINE s == cookie[b]
<1>1. s \in Session /\ s # NoSession /\ opened[s] # NoLogin
  BY RequestMoves DEF RequestBegin, TypeInv, OpenInv
<1>2. Kept
  <2>1. CASE handler' = handler
    BY <2>1, SameKept
  <2>2. CASE \E r : Moves(h, r) /\ r.sid = s
    BY <1>1, <2>2, MovesKept
  <2>. QED
    BY <2>1, <2>2, RequestMoves
<1>3. /\ UNCHANGED <<flows, session, keycloak, claimed, told, history>>
      /\ cookie' \in [Browser -> Session \cup {NoSession}]
      /\ \A c \in Browser : cookie'[c] \in {NoSession, cookie[c]}
  BY DEF RequestBegin, ForgetCookie, TypeInv, TypeOK
<1>4. inflight' \in [Pod -> SUBSET Session]
  BY <1>1 DEF RequestBegin, TypeInv, TypeOK
<1>5. /\ session' \in [Session -> Row] /\ minted' \in [Session -> 0 .. MaxGen]
      /\ old' \in [Session -> 0 .. MaxGen] /\ faults' \in 0 .. MaxFaults
      /\ \A t \in Session : session'[t] # NoRow => opened[t] # NoLogin
      /\ revoked' = revoked /\ disturbed' = disturbed /\ told' = told /\ lost' = lost
  BY <1>3 DEF keycloak, history, TypeInv, TypeOK, OpenInv
<1>. QED
  BY <1>1, <1>2, <1>3, <1>4, <1>5, RequestKeepsType

LEMMA RefreshKeepsType ==
  ASSUME TypeInv, NEW h \in Handler
  PROVE  /\ RefreshCall(h) => TypeInv'
         /\ RefreshRevoked(h) => TypeInv'
         /\ RefreshFails(h) => TypeInv'
<1>. DEFINE s == handler[h].sid
<1>1. ASSUME At(h, "refresh")
      PROVE  /\ handler[h].pc \in RequestSteps /\ handler[h].pc \in RowSteps
             /\ s \in Session /\ opened[s] # NoLogin
             /\ \A t \in Session : session[t] # NoRow => opened[t] # NoLogin
             /\ cookie \in [Browser -> Session \cup {NoSession}]
             /\ inflight \in [Pod -> SUBSET Session]
             /\ session \in [Session -> Row] /\ minted \in [Session -> 0 .. MaxGen]
             /\ old \in [Session -> 0 .. MaxGen] /\ faults \in 0 .. MaxFaults
  BY <1>1, RequestFacts DEF At, RequestSteps, RowSteps
<1>2. ASSUME RefreshCall(h) PROVE TypeInv'
  <2>1. At(h, "refresh")
    BY <1>2 DEF RefreshCall
  <2>2. PICK r : /\ Moves(h, r) /\ SameRequest(r, handler[h])
                 /\ \/ minted[s] + 1 \in 1 .. MaxGen /\ minted' = [minted EXCEPT ![s] = @ + 1]
                    \/ minted' = minted
    BY <1>2, RefreshCallMoves
  <2>3. Kept
    BY <2>2, MovesKept DEF SameRequest
  <2>4. minted' \in [Session -> 0 .. MaxGen]
    BY <1>1, <2>1, <2>2
  <2>5. /\ UNCHANGED <<flows, cookie, session, inflight, revoked, old, claimed, told, lost, faults>>
        /\ disturbed' \subseteq disturbed \cup {s}
    BY <1>2 DEF RefreshCall
  <2>. QED
    BY <1>1, <2>1, <2>3, <2>4, <2>5, RequestKeepsType
<1>3. ASSUME RefreshRevoked(h) PROVE TypeInv'
  <2>1. At(h, "refresh") /\ Goto(h, "rejected") /\ Fault
    BY <1>3 DEF RefreshRevoked
  <2>2. PICK r : Moves(h, r) /\ SameRequest(r, handler[h])
    BY <1>1, <2>1, GotoMoves DEF At
  <2>3. Kept
    BY <2>2, MovesKept DEF SameRequest
  <2>4. /\ UNCHANGED <<flows, cookie, session, inflight, minted, old, claimed, told, disturbed, lost>>
        /\ revoked' \subseteq revoked \cup {s}
    BY <1>3 DEF RefreshRevoked
  <2>. QED
    BY <1>1, <2>1, <2>3, <2>4, FaultType, RequestKeepsType
<1>4. ASSUME RefreshFails(h) PROVE TypeInv'
  <2>1. At(h, "refresh") /\ Settle(h, "outage") /\ Fault
    BY <1>4 DEF RefreshFails
  <2>2. /\ Kept /\ cookie' \in [Browser -> Session \cup {NoSession}]
        /\ \A b \in Browser : cookie'[b] \in {NoSession, cookie[b]}
        /\ inflight' \in [Pod -> SUBSET Session]
    BY <1>1, <2>1, SettleKept
  <2>3. /\ UNCHANGED <<flows, session, revoked, old, claimed, told, lost>>
        /\ disturbed' \subseteq disturbed \cup {s}
    BY <1>4 DEF RefreshFails
  <2>4. minted' \in [Session -> 0 .. MaxGen]
    <3>1. CASE minted' = minted
      BY <1>1, <2>1, <3>1
    <3>2. CASE minted[s] < MaxGen /\ minted' = [minted EXCEPT ![s] = @ + 1]
      <4>1. minted[s] + 1 \in 0 .. MaxGen
        BY <1>1, <2>1, <3>2, SessionAssumption
      <4>. QED
        BY <1>1, <2>1, <3>2, <4>1
    <3>. QED
      BY <1>4, <3>1, <3>2 DEF RefreshFails
  <2>. QED
    BY <1>1, <2>1, <2>2, <2>3, <2>4, FaultType, RequestKeepsType
<1>. QED
  BY <1>2, <1>3, <1>4

LEMMA StoreKeepsType ==
  ASSUME TypeInv, NEW h \in Handler
  PROVE  /\ StoreRead(h) => TypeInv'
         /\ StoreWrite(h) => TypeInv'
         /\ RejectedRead(h) => TypeInv'
         /\ DestroyRejected(h) => TypeInv'
<1>. DEFINE s == handler[h].sid
<1>1. ASSUME handler[h].pc \in RequestSteps, Kept,
             cookie' \in [Browser -> Session \cup {NoSession}],
             \A b \in Browser : cookie'[b] \in {NoSession, cookie[b]},
             inflight' \in [Pod -> SUBSET Session],
             NEW w \in Row, session' = session \/ session' = [session EXCEPT ![s] = w],
             UNCHANGED <<flows, keycloak, claimed, told, disturbed, faults>>,
             lost' \subseteq lost \cup {s}
      PROVE  TypeInv'
  <2>1. /\ s \in Session /\ opened[s] # NoLogin
        /\ \A t \in Session : session[t] # NoRow => opened[t] # NoLogin
        /\ session \in [Session -> Row] /\ minted \in [Session -> 0 .. MaxGen]
        /\ old \in [Session -> 0 .. MaxGen] /\ faults \in 0 .. MaxFaults
    BY <1>1, RequestFacts
  <2>2. /\ session' \in [Session -> Row]
        /\ \A t \in Session : session'[t] # NoRow => opened[t] # NoLogin
    BY <1>1, <2>1
  <2>3. /\ UNCHANGED <<minted, old, revoked>>
    BY <1>1 DEF keycloak
  <2>. QED
    BY <1>1, <2>1, <2>2, <2>3, RequestKeepsType
<1>2. ASSUME NEW outcome, handler[h].pc \in RequestSteps, Settle(h, outcome)
      PROVE  /\ Kept /\ cookie' \in [Browser -> Session \cup {NoSession}]
             /\ \A b \in Browser : cookie'[b] \in {NoSession, cookie[b]}
             /\ inflight' \in [Pod -> SUBSET Session]
  BY <1>2, SettleKept
<1>3. /\ cookie \in [Browser -> Session \cup {NoSession}]
      /\ inflight \in [Pod -> SUBSET Session] /\ NoRow \in Row
  BY RowFacts DEF TypeInv, TypeOK
<1>4. ASSUME NEW r, Moves(h, r), SameRequest(r, handler[h])
      PROVE  Kept
  BY <1>4, MovesKept DEF SameRequest
<1>5. ASSUME StoreRead(h) PROVE TypeInv'
  <2>1. /\ handler[h].pc \in RequestSteps
        /\ UNCHANGED <<flows, session, keycloak, claimed, told, disturbed, faults, lost>>
    BY <1>5 DEF StoreRead, At, RequestSteps, history
  <2>2. CASE Vanished(s)
    <3>1. Settle(h, "over")
      BY <1>5, <2>2 DEF StoreRead
    <3>. QED
      BY <1>1, <1>2, <1>3, <2>1, <3>1
  <2>3. CASE ~Vanished(s)
    <3>1. UNCHANGED <<cookie, inflight>> /\ \E r : Moves(h, r) /\ SameRequest(r, handler[h])
      BY <1>5, <2>3, StoreReadMoves
    <3>. QED
      BY <1>1, <1>3, <1>4, <2>1, <3>1
  <2>. QED
    BY <2>2, <2>3
<1>6. ASSUME StoreWrite(h) PROVE TypeInv'
  <2>1. /\ handler[h].pc \in RequestSteps /\ Settle(h, "token")
        /\ UNCHANGED <<flows, keycloak, claimed, told, disturbed, faults, lost>>
        /\ session' = [session EXCEPT ![s] = [handler[h].row EXCEPT !.gen = handler[h].gen]]
    BY <1>6 DEF StoreWrite, At, RequestSteps, history
  <2>2. [handler[h].row EXCEPT !.gen = handler[h].gen] \in Row
    <3>1. /\ handler[h] \in HandlerState /\ handler[h].row # NoRow
          /\ handler[h].gen \in 1 .. MaxGen
      BY <1>6, HandlerFacts DEF StoreWrite, At, RecordInv, RowSteps
    <3>2. handler[h].row \in Row
      BY <3>1 DEF HandlerState
    <3>. QED
      BY <3>1, <3>2 DEF Row
  <2>. HIDE DEF s
  <2>. QED
    BY <1>1, <1>2, <2>1, <2>2 DEF s
<1>7. ASSUME RejectedRead(h) PROVE TypeInv'
  <2>1. /\ handler[h].pc \in RequestSteps /\ handler[h].pc \in RowSteps
        /\ handler[h].pc = "rejected"
        /\ UNCHANGED <<flows, session, keycloak, claimed, told, disturbed, faults, lost>>
    BY <1>7 DEF RejectedRead, At, RequestSteps, RowSteps, history
  <2>2. CASE MovedOn(h)
    <3>1. Settle(h, "token")
      BY <1>7, <2>2 DEF RejectedRead
    <3>. QED
      BY <1>1, <1>2, <1>3, <2>1, <3>1
  <2>3. CASE ~MovedOn(h)
    <3>1. Goto(h, "destroy") /\ UNCHANGED <<cookie, inflight>>
      BY <1>7, <2>3 DEF RejectedRead
    <3>2. \E r : Moves(h, r) /\ SameRequest(r, handler[h])
      BY <2>1, <3>1, GotoMoves
    <3>. QED
      BY <1>1, <1>3, <1>4, <2>1, <3>1, <3>2
  <2>. QED
    BY <2>2, <2>3
<1>8. ASSUME DestroyRejected(h) PROVE TypeInv'
  <2>1. /\ handler[h].pc \in RequestSteps /\ Settle(h, "over")
        /\ UNCHANGED <<flows, keycloak, claimed, told, disturbed, faults>>
        /\ session' = [session EXCEPT ![s] = NoRow] /\ lost' \subseteq lost \cup {s}
    BY <1>8 DEF DestroyRejected, At, RequestSteps
  <2>. QED
    BY <1>1, <1>2, <1>3, <2>1
<1>. QED
  BY <1>5, <1>6, <1>7, <1>8

LEMMA AnswerKept ==
  ASSUME TypeInv, NEW h \in Handler, handler[h].sid \in Session, Answer(h)
  PROVE  Kept /\ told' \subseteq told \cup {handler[h].sid}
  BY FinishMoves, MovesKept, IdleFacts DEF Answer

LEMMA MeKeepsType ==
  ASSUME TypeInv, NEW h \in Handler
  PROVE  /\ Verify(h) => TypeInv'
         /\ MeRead(h) => TypeInv'
         /\ StampRead(h) => TypeInv'
         /\ StampWrite(h) => TypeInv'
<1>. DEFINE s == handler[h].sid
<1>1. ASSUME handler[h].pc \in RequestSteps, Kept,
             cookie' \in [Browser -> Session \cup {NoSession}],
             \A b \in Browser : cookie'[b] \in {NoSession, cookie[b]},
             NEW w \in Row, session' = session \/ session' = [session EXCEPT ![s] = w],
             UNCHANGED <<flows, inflight, keycloak, claimed, lost>>,
             disturbed' \subseteq disturbed \cup {s}, told' \subseteq told \cup {s},
             faults' \in 0 .. MaxFaults
      PROVE  TypeInv'
  <2>1. /\ s \in Session /\ opened[s] # NoLogin
        /\ \A t \in Session : session[t] # NoRow => opened[t] # NoLogin
        /\ session \in [Session -> Row] /\ minted \in [Session -> 0 .. MaxGen]
        /\ old \in [Session -> 0 .. MaxGen] /\ inflight \in [Pod -> SUBSET Session]
    BY <1>1, RequestFacts
  <2>2. /\ session' \in [Session -> Row]
        /\ \A t \in Session : session'[t] # NoRow => opened[t] # NoLogin
    BY <1>1, <2>1
  <2>3. /\ UNCHANGED <<minted, old, revoked>>
    BY <1>1 DEF keycloak
  <2>. QED
    BY <1>1, <2>1, <2>2, <2>3, RequestKeepsType
<1>2. /\ cookie \in [Browser -> Session \cup {NoSession}]
      /\ NoRow \in Row /\ faults \in 0 .. MaxFaults
  BY RowFacts DEF TypeInv, TypeOK
<1>3. ASSUME NEW r, Moves(h, r), SameRequest(r, handler[h]) \/ r = Idle
      PROVE  Kept
  BY <1>3, MovesKept, IdleFacts DEF SameRequest
<1>4. ASSUME Verify(h) PROVE TypeInv'
  <2>1. /\ handler[h].pc \in RequestSteps /\ handler[h].pc = "verify"
        /\ UNCHANGED <<flows, inflight, keycloak, claimed, lost, told, disturbed>>
    BY <1>4 DEF Verify, At, RequestSteps
  <2>2. Kept
    <3>1. CASE Finish(h)
      BY <1>3, <3>1, FinishMoves
    <3>2. CASE Goto(h, "me")
      BY <1>3, <2>1, <3>2, GotoMoves
    <3>. QED
      BY <1>4, <3>1, <3>2 DEF Verify
  <2>3. /\ cookie' \in [Browser -> Session \cup {NoSession}]
        /\ \A b \in Browser : cookie'[b] \in {NoSession, cookie[b]}
        /\ session' = session \/ session' = [session EXCEPT ![s] = NoRow]
    BY <1>2, <1>4 DEF Verify, ForgetCookie
  <2>4. faults' \in 0 .. MaxFaults
    BY <1>2, <1>4, FaultType DEF Verify
  <2>. QED
    BY <1>1, <1>2, <2>1, <2>2, <2>3, <2>4
<1>5. ASSUME MeRead(h) PROVE TypeInv'
  <2>1. /\ handler[h].pc \in RequestSteps /\ told' \subseteq told \cup {s}
        /\ UNCHANGED <<flows, cookie, session, inflight, keycloak, claimed, faults, disturbed, lost>>
    BY <1>5 DEF MeRead, At, RequestSteps, history
  <2>2. Kept
    BY <1>3, <1>5, MeReadMoves
  <2>. QED
    BY <1>1, <1>2, <2>1, <2>2
<1>6. ASSUME StampRead(h) PROVE TypeInv'
  <2>1. /\ handler[h].pc \in RequestSteps
        /\ UNCHANGED <<flows, cookie, session, inflight, keycloak, claimed, faults, disturbed, lost>>
    BY <1>6 DEF StampRead, At, RequestSteps, history
  <2>2. CASE Vanished(s)
    BY <1>1, <1>2, <1>6, <2>1, <2>2, AnswerKept, RequestFacts DEF StampRead
  <2>3. CASE ~Vanished(s)
    <3>1. UNCHANGED told /\ \E r : Moves(h, r) /\ SameRequest(r, handler[h])
      BY <1>6, <2>3, StampReadMoves
    <3>. QED
      BY <1>1, <1>2, <1>3, <2>1, <3>1
  <2>. QED
    BY <2>2, <2>3
<1>7. ASSUME StampWrite(h) PROVE TypeInv'
  <2>1. /\ handler[h].pc \in RequestSteps /\ Answer(h) /\ disturbed' \subseteq disturbed \cup {s}
        /\ UNCHANGED <<flows, cookie, inflight, keycloak, claimed, lost, faults>>
        /\ session' = [session EXCEPT ![s] = handler[h].row]
    BY <1>7 DEF StampWrite, At, RequestSteps
  <2>2. handler[h].row \in Row /\ s \in Session
    BY <2>1, HandlerFacts DEF HandlerState
  <2>3. Kept /\ told' \subseteq told \cup {s}
    BY <2>1, <2>2, AnswerKept
  <2>. QED
    BY <1>1, <1>2, <2>1, <2>2, <2>3
<1>. QED
  BY <1>4, <1>5, <1>6, <1>7

LEMMA ElsewhereKeepsType ==
  ASSUME TypeInv
  PROVE  /\ \A h \in Handler : Claim(h) => TypeInv'
         /\ \A b \in Browser : Logout(b) => TypeInv'
         /\ \A s \in Session : GetOld(s) \/ ExpireSession(s) => TypeInv'
         /\ \A p \in Pod : Crash(p) => TypeInv'
<1>1. /\ flow \in [Flow -> FlowRow] /\ flowCookie \in [Browser -> Flow \cup {NoFlow}]
      /\ cookie \in [Browser -> Session \cup {NoSession}]
      /\ session \in [Session -> Row] /\ inflight \in [Pod -> SUBSET Session]
      /\ \A s \in Session : session[s] # NoRow => opened[s] # NoLogin
      /\ minted \in [Session -> 0 .. MaxGen] /\ old \in [Session -> 0 .. MaxGen]
      /\ revoked \subseteq Session /\ disturbed \subseteq Session /\ lost \subseteq Session
      /\ \A s \in revoked \cup disturbed : opened[s] # NoLogin
      /\ told \subseteq Session /\ faults \in 0 .. MaxFaults /\ NoRow \in Row
  BY RowFacts DEF TypeInv, TypeOK, OpenInv
<1>2. claimed \in BOOLEAN
  BY DEF TypeInv, TypeOK
<1>3. ASSUME NEW h \in Handler, Claim(h) PROVE TypeInv'
  <2>1. Kept
    BY <1>3, ClaimMoves, MovesKept DEF SameRequest
  <2>2. claimed' \in BOOLEAN
    BY <1>3 DEF Claim
  <2>. QED
    BY <1>1, <1>3, <2>1, <2>2, KeptType DEF Claim, flows, keycloak, history
<1>4. ASSUME NEW b \in Browser, Logout(b) PROVE TypeInv'
  <2>1. cookie[b] \in Session
    BY <1>1, <1>4 DEF Logout
  <2>2. /\ session' \in [Session -> Row]
        /\ \A s \in Session : session'[s] # NoRow => opened[s] # NoLogin
        /\ cookie' \in [Browser -> Session \cup {NoSession}]
        /\ \A c \in Browser : cookie'[c] \in {NoSession, cookie[c]}
    BY <1>1, <1>4, <2>1 DEF Logout, ForgetCookie
  <2>3. UNCHANGED <<flow, flowCookie, opened, inflight, minted, old, revoked, claimed, handler, told,
                    faults, disturbed, lost>>
    BY <1>4 DEF Logout, flows, keycloak, history
  <2>. QED
    BY <1>1, <1>2, <2>2, <2>3, SameKept, KeptType
<1>5. ASSUME NEW s \in Session, GetOld(s) PROVE TypeInv'
  <2>1. old[s] + 1 \in 0 .. MaxGen
    BY <1>1, <1>5, SessionAssumption DEF GetOld
  <2>2. old' \in [Session -> 0 .. MaxGen]
    BY <1>1, <1>5, <2>1 DEF GetOld
  <2>3. UNCHANGED <<flow, flowCookie, opened, cookie, session, inflight, minted, revoked, claimed,
                    handler, told, faults, disturbed, lost>>
    BY <1>5 DEF GetOld, flows, history
  <2>. QED
    BY <1>1, <1>2, <2>2, <2>3, SameKept, KeptType
<1>6. ASSUME NEW s \in Session, ExpireSession(s) PROVE TypeInv'
  <2>1. /\ session' \in [Session -> Row]
        /\ \A t \in Session : session'[t] # NoRow => opened[t] # NoLogin
    BY <1>1, <1>6 DEF ExpireSession
  <2>2. UNCHANGED <<flow, flowCookie, opened, cookie, inflight, minted, old, revoked, claimed,
                    handler, told, disturbed, lost>> /\ faults' \in 0 .. MaxFaults
    BY <1>6, FaultType DEF ExpireSession, flows, keycloak
  <2>. QED
    BY <1>1, <1>2, <2>1, <2>2, SameKept, KeptType
<1>7. ASSUME NEW p \in Pod, Crash(p) PROVE TypeInv'
  <2>1. /\ handler' \in [Handler -> HandlerState]
        /\ \A g \in Handler : RecordInv(handler'[g])
        /\ \A g \in Handler : handler'[g] = IF handler[g].pod = p THEN Idle ELSE handler[g]
    BY <1>7, CrashMoves
  <2>2. Kept
    BY <2>1, IdleFacts DEF Kept, TypeInv, OpenInv
  <2>3. /\ disturbed' = disturbed \cup
             {handler[h].sid : h \in {g \in Handler : /\ handler[g].pod = p
                                                     /\ handler[g].pc \in {"storeread", "store"}}}
    BY <1>7 DEF Crash
  <2>4. \A g \in Handler : handler[g].pc \in {"storeread", "store"} =>
          handler[g].sid \in Session /\ opened[handler[g].sid] # NoLogin
    BY RequestFacts DEF RequestSteps
  <2>5. /\ disturbed' \subseteq Session
        /\ \A s \in revoked \cup disturbed' : opened[s] # NoLogin
    BY <1>1, <2>3, <2>4
  <2>6. inflight' \in [Pod -> SUBSET Session] /\ faults' \in 0 .. MaxFaults
    BY <1>1, <1>7, FaultType DEF Crash
  <2>7. UNCHANGED <<flow, flowCookie, opened, cookie, session, minted, old, revoked, claimed, told, lost>>
    BY <1>7 DEF Crash, flows, keycloak
  <2>. QED
    BY <1>1, <1>2, <2>2, <2>5, <2>6, <2>7, KeptType
<1>. QED
  BY <1>3, <1>4, <1>5, <1>6, <1>7

LEMMA TypeStep == TypeInv /\ [Next]_vars => TypeInv'
<1>. SUFFICES ASSUME TypeInv, [Next]_vars PROVE TypeInv'
  OBVIOUS
<1>1. ASSUME NEW h \in Handler, Call(h) PROVE TypeInv'
  BY <1>1, LoginKeepsType, BeginKeepsType DEF Call
<1>2. ASSUME NEW h \in Handler, Serve(h) PROVE TypeInv'
  <2>1. CASE ConsumeFlow(h) \/ LoginFails(h)
    BY <2>1, LoginKeepsType
  <2>2. CASE \E s \in Session : CreateSession(h, s)
    BY <2>2, CreateKeepsType
  <2>3. CASE RefreshCall(h) \/ RefreshRevoked(h) \/ RefreshFails(h)
    BY <2>3, RefreshKeepsType
  <2>4. CASE StoreRead(h) \/ StoreWrite(h) \/ RejectedRead(h) \/ DestroyRejected(h)
    BY <2>4, StoreKeepsType
  <2>5. CASE Verify(h) \/ MeRead(h) \/ StampRead(h) \/ StampWrite(h)
    BY <2>5, MeKeepsType
  <2>6. CASE Claim(h)
    BY <2>6, ElsewhereKeepsType
  <2>. QED
    BY <1>2, <2>1, <2>2, <2>3, <2>4, <2>5, <2>6 DEF Serve
<1>3. ASSUME Elsewhere PROVE TypeInv'
  BY <1>3, ElsewhereKeepsType, LoginKeepsType DEF Elsewhere
<1>4. ASSUME UNCHANGED vars PROVE TypeInv'
  BY <1>4 DEF vars, TypeInv, TypeOK, OpenInv, RecordInv
<1>. QED
  BY <1>1, <1>2, <1>3, <1>4 DEF Next

-----------------------------------------------------------------------------
(* A login opens one session, in the browser that started it.  The cookie
   oidc_flow of a browser names a flow of its own; a flow that is being turned
   into a session is gone from Redis, by one request only, and no session
   stems from it yet. *)

FlowInv ==
  /\ \A b \in Browser : flowCookie[b] # NoFlow =>
       flow[flowCookie[b]].state # "new" /\ flow[flowCookie[b]].browser = b
  /\ \A h \in Handler : handler[h].pc \in LoginSteps =>
       /\ flow[handler[h].flow].state # "new"
       /\ flow[handler[h].flow].browser = handler[h].browser
  /\ \A h \in Handler : At(h, "create") =>
       /\ flow[handler[h].flow].state = "gone"
       /\ \A s \in Session : opened[s].flow # handler[h].flow
       /\ \A g \in Handler : At(g, "create") /\ handler[g].flow = handler[h].flow => g = h
  /\ \A s \in Session : opened[s] # NoLogin =>
       /\ flow[opened[s].flow].state = "gone"
       /\ flow[opened[s].flow].browser = opened[s].browser
  /\ OneSessionPerLogin

\* A step that leaves the logins under way alone.
NoLoginStep ==
  /\ UNCHANGED flows
  /\ \A g \in Handler : handler'[g].pc \in LoginSteps => handler'[g] = handler[g]

LEMMA NoLoginKeepsFlow ==
  ASSUME TypeInv, FlowInv, NoLoginStep
  PROVE  FlowInv'
<1>1. /\ UNCHANGED <<flow, flowCookie, opened>>
      /\ \A g \in Handler : handler'[g].pc \in LoginSteps => handler'[g] = handler[g]
  BY DEF NoLoginStep, flows
<1>2. \A g \in Handler : handler'[g].pc = "create" => handler'[g] = handler[g]
  BY <1>1 DEF LoginSteps
<1>. QED
  BY <1>1, <1>2 DEF FlowInv, OneSessionPerLogin, At

LEMMA MovesNoLogin ==
  ASSUME TypeInv, NEW h \in Handler, NEW r, Moves(h, r), r.pc \notin LoginSteps, UNCHANGED flows
  PROVE  NoLoginStep
  BY MovesKeep DEF NoLoginStep

LEMMA SettleNoLogin ==
  ASSUME TypeInv, NEW h \in Handler, NEW outcome, Settle(h, outcome),
         handler[h].pc \in RequestSteps, UNCHANGED flows
  PROVE  NoLoginStep
  BY SettleMoves, IdleFacts DEF NoLoginStep, LoginSteps

LEMMA ServeNoLogin ==
  ASSUME TypeInv, NEW h \in Handler
  PROVE  /\ \A p \in Pod, b \in Browser, call \in Calls : RequestBegin(h, p, b, call) => NoLoginStep
         /\ RefreshCall(h) \/ RefreshRevoked(h) \/ RefreshFails(h) => NoLoginStep
         /\ StoreRead(h) \/ StoreWrite(h) => NoLoginStep
         /\ RejectedRead(h) \/ DestroyRejected(h) => NoLoginStep
         /\ Verify(h) \/ MeRead(h) => NoLoginStep
         /\ Claim(h) \/ StampRead(h) \/ StampWrite(h) => NoLoginStep
<1>1. ASSUME NEW p \in Pod, NEW b \in Browser, NEW call \in Calls, RequestBegin(h, p, b, call)
      PROVE  NoLoginStep
  <2>1. UNCHANGED flows
    BY <1>1 DEF RequestBegin
  <2>2. CASE handler' = handler
    BY <2>1, <2>2 DEF NoLoginStep
  <2>3. CASE \E r : Moves(h, r) /\ r.pc \in {"verify", "wait", "refresh"}
    BY <2>1, <2>3, MovesNoLogin DEF LoginSteps
  <2>. QED
    BY <1>1, <2>2, <2>3, RequestMoves
<1>2. ASSUME Finish(h), UNCHANGED flows PROVE NoLoginStep
  BY <1>2, FinishMoves, MovesNoLogin, IdleFacts DEF LoginSteps
<1>3. ASSUME NEW pc \in {"rejected", "destroy", "me"}, Goto(h, pc), handler[h].pc \in RequestSteps,
             pc # "me" => handler[h].pc \in RowSteps, UNCHANGED flows
      PROVE  NoLoginStep
  <2>1. PICK r : Moves(h, r) /\ r.pc = pc
    BY <1>3, GotoMoves DEF RequestSteps
  <2>. QED
    BY <1>3, <2>1, MovesNoLogin DEF LoginSteps
<1>4. ASSUME RefreshCall(h) PROVE NoLoginStep
  BY <1>4, RefreshCallMoves, MovesNoLogin DEF RefreshCall, LoginSteps
<1>5. ASSUME RefreshRevoked(h) PROVE NoLoginStep
  BY <1>3, <1>5 DEF RefreshRevoked, At, RequestSteps, RowSteps
<1>6. ASSUME RefreshFails(h) PROVE NoLoginStep
  BY <1>6, SettleNoLogin DEF RefreshFails, At, RequestSteps
<1>7. ASSUME StoreRead(h) PROVE NoLoginStep
  <2>1. CASE Vanished(handler[h].sid)
    BY <1>7, <2>1, SettleNoLogin DEF StoreRead, At, RequestSteps
  <2>2. CASE ~Vanished(handler[h].sid)
    BY <1>7, <2>2, StoreReadMoves, MovesNoLogin DEF StoreRead, LoginSteps
  <2>. QED
    BY <2>1, <2>2
<1>8. ASSUME StoreWrite(h) PROVE NoLoginStep
  BY <1>8, SettleNoLogin DEF StoreWrite, At, RequestSteps
<1>9. ASSUME RejectedRead(h) PROVE NoLoginStep
  <2>1. CASE Settle(h, "token")
    BY <1>9, <2>1, SettleNoLogin DEF RejectedRead, At, RequestSteps
  <2>2. CASE Goto(h, "destroy")
    BY <1>3, <1>9, <2>2 DEF RejectedRead, At, RequestSteps, RowSteps
  <2>. QED
    BY <1>9, <2>1, <2>2 DEF RejectedRead
<1>10. ASSUME DestroyRejected(h) PROVE NoLoginStep
  BY <1>10, SettleNoLogin DEF DestroyRejected, At, RequestSteps
<1>11. ASSUME Verify(h) PROVE NoLoginStep
  <2>1. CASE Goto(h, "me")
    BY <1>3, <1>11, <2>1 DEF Verify, At, RequestSteps
  <2>2. CASE Finish(h)
    BY <1>2, <1>11, <2>2 DEF Verify
  <2>. QED
    BY <1>11, <2>1, <2>2 DEF Verify
<1>12. ASSUME MeRead(h) PROVE NoLoginStep
  BY <1>12, MeReadMoves, MovesNoLogin, IdleFacts DEF MeRead, LoginSteps
<1>13. ASSUME Claim(h) PROVE NoLoginStep
  BY <1>13, ClaimMoves, MovesNoLogin DEF Claim, LoginSteps
<1>14. ASSUME StampRead(h) PROVE NoLoginStep
  <2>1. CASE Vanished(handler[h].sid)
    BY <1>2, <1>14, <2>1 DEF StampRead, Answer
  <2>2. CASE ~Vanished(handler[h].sid)
    BY <1>14, <2>2, StampReadMoves, MovesNoLogin DEF StampRead, LoginSteps
  <2>. QED
    BY <2>1, <2>2
<1>15. ASSUME StampWrite(h) PROVE NoLoginStep
  BY <1>2, <1>15 DEF StampWrite, Answer
<1>. QED
  BY <1>1, <1>4, <1>5, <1>6, <1>7, <1>8, <1>9, <1>10, <1>11, <1>12, <1>13, <1>14, <1>15

LEMMA ElsewhereNoLogin ==
  ASSUME TypeInv
  PROVE  /\ \A b \in Browser : Logout(b) => NoLoginStep
         /\ \A s \in Session : GetOld(s) \/ ExpireSession(s) => NoLoginStep
         /\ \A p \in Pod : Crash(p) => NoLoginStep
<1>1. ASSUME NEW p \in Pod, Crash(p) PROVE NoLoginStep
  BY <1>1, CrashMoves, IdleFacts DEF Crash, NoLoginStep, LoginSteps
<1>. QED
  BY <1>1 DEF Logout, GetOld, ExpireSession, NoLoginStep

LEMMA FlowInit == TypeInv /\ Init => FlowInv
<1>. SUFFICES ASSUME Init PROVE FlowInv
  OBVIOUS
<1>1. /\ \A b \in Browser : flowCookie[b] = NoFlow
      /\ \A h \in Handler : handler[h].pc = "idle"
      /\ \A s \in Session : opened[s] = NoLogin
  BY IdleFacts DEF Init
<1>. QED
  BY <1>1 DEF FlowInv, OneSessionPerLogin, At, LoginSteps

LEMMA StartKeepsFlow ==
  ASSUME TypeInv, FlowInv, NEW b \in Browser, NEW f \in Flow, StartLogin(b, f)
  PROVE  FlowInv'
<1>1. /\ UNCHANGED <<handler, opened>> /\ flow[f].state = "new"
      /\ flow'[f].state = "open" /\ flow'[f].browser = b
      /\ \A g \in Flow \ {f} : flow'[g] = flow[g]
      /\ flowCookie'[b] = f /\ \A c \in Browser \ {b} : flowCookie'[c] = flowCookie[c]
  BY DEF StartLogin, TypeInv, TypeOK, NewFlow
<1>2. \A c \in Browser : flowCookie'[c] # NoFlow =>
        flow'[flowCookie'[c]].state # "new" /\ flow'[flowCookie'[c]].browser = c
  BY <1>1 DEF FlowInv, TypeInv, TypeOK
<1>3. \A h \in Handler : handler[h].pc \in LoginSteps =>
        handler[h].flow \in Flow \ {f}
  BY <1>1, HandlerFacts DEF FlowInv, RecordInv
<1>4. \A s \in Session : opened[s] # NoLogin => opened[s].flow \in Flow \ {f}
  <2>1. \A s \in Session : opened[s] # NoLogin => opened[s].flow \in Flow
    BY DEF TypeInv, TypeOK, Login
  <2>. QED
    BY <1>1, <2>1 DEF FlowInv
<1>5. \A h \in Handler : handler'[h].pc \in LoginSteps => flow'[handler'[h].flow] = flow[handler[h].flow]
  BY <1>1, <1>3
<1>6. \A s \in Session : opened'[s] # NoLogin => flow'[opened'[s].flow] = flow[opened[s].flow]
  BY <1>1, <1>4
<1>7. \A h \in Handler : At(h, "create") => handler[h].pc \in LoginSteps
  BY DEF At, LoginSteps
<1>. QED
  BY <1>1, <1>2, <1>5, <1>6, <1>7 DEF FlowInv, OneSessionPerLogin, At

LEMMA CallbackKeepsFlow ==
  ASSUME TypeInv, FlowInv, NEW h \in Handler, NEW b \in Browser, NEW f \in Flow,
         CallbackBegin(h, b, f)
  PROVE  FlowInv'
<1>1. UNCHANGED <<flow, opened>>
  BY DEF CallbackBegin
<1>2. CASE BoundTo(b, f)
  <2>1. PICK r : Moves(h, r) /\ r.pc = "consume" /\ r.browser = b /\ r.flow = f
    BY <1>2, CallbackMoves
  <2>2. handler'[h] = r /\ \A g \in Handler \ {h} : handler'[g] = handler[g]
    BY <2>1, MovesKeep
  <2>3. /\ UNCHANGED flowCookie /\ flow[f].state # "new" /\ flow[f].browser = b
    BY <1>2, SessionAssumption DEF CallbackBegin, BoundTo, FlowInv
  <2>4. \A g \in Handler : handler'[g].pc = "create" => handler'[g] = handler[g]
    BY <2>1, <2>2
  <2>. QED
    BY <1>1, <2>1, <2>2, <2>3, <2>4 DEF FlowInv, OneSessionPerLogin, At
<1>3. CASE ~BoundTo(b, f)
  <2>1. UNCHANGED handler /\ \A c \in Browser : flowCookie'[c] \in {NoFlow, flowCookie[c]}
    BY <1>3 DEF CallbackBegin, TypeInv, TypeOK
  <2>. QED
    BY <1>1, <2>1 DEF FlowInv, OneSessionPerLogin, At
<1>. QED
  BY <1>2, <1>3

LEMMA ConsumeKeepsFlow ==
  ASSUME TypeInv, FlowInv, NEW h \in Handler, ConsumeFlow(h)
  PROVE  FlowInv'
<1>. DEFINE f == handler[h].flow
<1>1. /\ handler[h].pc = "consume" /\ f \in Flow /\ handler[h].browser \in Browser
      /\ UNCHANGED opened
  BY HandlerFacts DEF ConsumeFlow, At, RecordInv, LoginSteps
<1>2. /\ flow'[f].state = "gone" /\ flow'[f].browser = flow[f].browser
      /\ \A g \in Flow \ {f} : flow'[g] = flow[g]
  BY <1>1 DEF ConsumeFlow, Consumed, TypeInv, TypeOK, FlowRow
<1>3. \A g \in Flow : flow[g].state # "new" => flow'[g].state # "new"
  BY <1>2
<1>4. \A g \in Flow : flow'[g].browser = flow[g].browser
  BY <1>2
<1>5. \A g \in Flow : flow[g].state = "gone" => flow'[g].state = "gone"
  BY <1>2
<1>6. /\ \A c \in Browser : flowCookie'[c] \in {NoFlow, flowCookie[c]}
      /\ \A c \in Browser : flowCookie[c] \in Flow \cup {NoFlow}
  BY <1>1 DEF ConsumeFlow, TypeInv, TypeOK
<1>7. \A s \in Session : opened[s] # NoLogin => opened[s].flow \in Flow
  BY DEF TypeInv, TypeOK, Login
<1>8. \A g \in Handler : handler[g].pc \in LoginSteps => handler[g].flow \in Flow
  BY HandlerFacts DEF RecordInv
<1>9. /\ \A c \in Browser : flowCookie'[c] # NoFlow =>
           flow'[flowCookie'[c]].state # "new" /\ flow'[flowCookie'[c]].browser = c
      /\ \A s \in Session : opened[s] # NoLogin =>
           /\ flow'[opened[s].flow].state = "gone"
           /\ flow'[opened[s].flow].browser = opened[s].browser
           /\ \A t \in Session \ {s} : opened[t].flow # opened[s].flow
  BY <1>3, <1>4, <1>5, <1>6, <1>7 DEF FlowInv, OneSessionPerLogin
<1>10. CASE flow[f].state = "open"
  <2>1. PICK r : Moves(h, r) /\ r.pc = "create" /\ SameRequest(r, handler[h])
    BY <1>1, <1>10, GotoMoves DEF ConsumeFlow
  <2>2. /\ handler'[h].pc = "create" /\ handler'[h].flow = f
        /\ handler'[h].browser = handler[h].browser
        /\ \A g \in Handler \ {h} : handler'[g] = handler[g]
    BY <2>1, MovesKeep DEF SameRequest
  <2>3. \A g \in Handler \ {h} : handler[g].pc = "create" => handler[g].flow # f
    BY <1>10 DEF FlowInv, At
  <2>4. \A s \in Session : opened[s].flow # f
    <3>1. \A s \in Session : opened[s] # NoLogin => opened[s].flow # f
      BY <1>10 DEF FlowInv
    <3>2. NoLogin.flow \notin Flow
      BY SessionAssumption DEF NoLogin
    <3>. QED
      BY <1>1, <3>1, <3>2
  <2>5. \A g \in Handler : handler'[g].pc \in LoginSteps =>
           /\ flow'[handler'[g].flow].state # "new"
           /\ flow'[handler'[g].flow].browser = handler'[g].browser
    BY <1>1, <1>3, <1>4, <1>8, <2>2 DEF FlowInv, LoginSteps
  <2>6. \A g \in Handler : handler'[g].pc = "create" =>
           /\ flow'[handler'[g].flow].state = "gone"
           /\ \A s \in Session : opened[s].flow # handler'[g].flow
           /\ \A k \in Handler : handler'[k].pc = "create" /\ handler'[k].flow = handler'[g].flow => k = g
    <3>1. \A g \in Handler : handler[g].pc = "create" =>
             flow[handler[g].flow].state = "gone" /\ handler[g].flow \in Flow
      BY <1>8 DEF FlowInv, At, LoginSteps
    <3>. QED
      BY <1>2, <1>5, <2>2, <2>3, <2>4, <3>1 DEF FlowInv, At
  <2>. QED
    BY <1>1, <1>9, <2>5, <2>6 DEF FlowInv, OneSessionPerLogin, At
<1>11. CASE flow[f].state # "open"
  <2>1. Finish(h)
    BY <1>11 DEF ConsumeFlow
  <2>2. \A g \in Handler : handler'[g].pc \in LoginSteps => handler'[g] = handler[g]
    BY <2>1, FinishMoves, MovesKeep, IdleFacts DEF LoginSteps
  <2>3. \A g \in Handler : handler'[g].pc \in LoginSteps =>
           /\ flow'[handler'[g].flow].state # "new"
           /\ flow'[handler'[g].flow].browser = handler'[g].browser
    BY <1>3, <1>4, <1>8, <2>2 DEF FlowInv
  <2>4. \A g \in Handler : handler'[g].pc = "create" =>
           /\ handler'[g] = handler[g] /\ flow'[handler'[g].flow].state = "gone"
    BY <1>5, <1>8, <2>2 DEF FlowInv, LoginSteps, At
  <2>. QED
    BY <1>1, <1>9, <2>3, <2>4 DEF FlowInv, OneSessionPerLogin, At
<1>. QED
  BY <1>10, <1>11

LEMMA CreateKeepsFlow ==
  ASSUME TypeInv, FlowInv, NEW h \in Handler, NEW s \in Session, CreateSession(h, s)
  PROVE  FlowInv'
<1>1. /\ handler[h].pc = "create" /\ handler[h].browser \in Browser /\ handler[h].flow \in Flow
  BY HandlerFacts DEF CreateSession, At, RecordInv, LoginSteps
<1>2. /\ flow[handler[h].flow].state = "gone"
      /\ flow[handler[h].flow].browser = handler[h].browser
      /\ \A t \in Session : opened[t].flow # handler[h].flow
      /\ \A g \in Handler \ {h} : handler[g].pc = "create" => handler[g].flow # handler[h].flow
  BY <1>1 DEF FlowInv, At, LoginSteps
<1>3. /\ UNCHANGED flow
      /\ opened'[s].flow = handler[h].flow /\ opened'[s].browser = handler[h].browser
      /\ \A t \in Session \ {s} : opened'[t] = opened[t]
      /\ \A c \in Browser : flowCookie'[c] \in {NoFlow, flowCookie[c]}
  BY DEF CreateSession, TypeInv, TypeOK
<1>4. \A g \in Handler : handler'[g].pc \in LoginSteps => handler'[g] = handler[g] /\ g # h
  BY FinishMoves, MovesKeep, IdleFacts DEF CreateSession, LoginSteps
<1>5. \A g \in Handler : handler'[g].pc = "create" =>
         handler'[g] = handler[g] /\ g # h
  BY <1>4 DEF LoginSteps
<1>6. /\ \A c \in Browser : flowCookie'[c] # NoFlow =>
           flow'[flowCookie'[c]].state # "new" /\ flow'[flowCookie'[c]].browser = c
      /\ \A g \in Handler : handler'[g].pc \in LoginSteps =>
           /\ flow'[handler'[g].flow].state # "new"
           /\ flow'[handler'[g].flow].browser = handler'[g].browser
  BY <1>3, <1>4 DEF FlowInv
<1>7. \A g \in Handler : handler'[g].pc = "create" =>
         /\ flow'[handler'[g].flow].state = "gone"
         /\ \A t \in Session : opened'[t].flow # handler'[g].flow
         /\ \A k \in Handler : handler'[k].pc = "create" /\ handler'[k].flow = handler'[g].flow => k = g
  BY <1>2, <1>3, <1>5 DEF FlowInv, At
<1>8. \A t \in Session : opened'[t] # NoLogin =>
         /\ flow'[opened'[t].flow].state = "gone"
         /\ flow'[opened'[t].flow].browser = opened'[t].browser
         /\ \A u \in Session \ {t} : opened'[u].flow # opened'[t].flow
  BY <1>2, <1>3 DEF FlowInv, OneSessionPerLogin
<1>. QED
  BY <1>6, <1>7, <1>8 DEF FlowInv, OneSessionPerLogin, At

LEMMA FailsKeepsFlow ==
  ASSUME TypeInv, FlowInv, NEW h \in Handler, LoginFails(h)
  PROVE  FlowInv'
<1>1. /\ UNCHANGED <<flow, opened>>
      /\ \A c \in Browser : flowCookie'[c] \in {NoFlow, flowCookie[c]}
  BY DEF LoginFails, TypeInv, TypeOK
<1>2. \A g \in Handler : handler'[g].pc \in LoginSteps => handler'[g] = handler[g]
  BY FinishMoves, MovesKeep, IdleFacts DEF LoginFails, LoginSteps
<1>3. \A g \in Handler : handler'[g].pc = "create" => handler'[g] = handler[g]
  BY <1>2 DEF LoginSteps
<1>. QED
  BY <1>1, <1>2, <1>3 DEF FlowInv, OneSessionPerLogin, At

LEMMA FlowStep == TypeInv /\ FlowInv /\ [Next]_vars => FlowInv'
<1>. SUFFICES ASSUME TypeInv, FlowInv, [Next]_vars PROVE FlowInv'
  OBVIOUS
<1>1. ASSUME NEW h \in Handler, Call(h) PROVE FlowInv'
  BY <1>1, CallbackKeepsFlow, ServeNoLogin, NoLoginKeepsFlow DEF Call
<1>2. ASSUME NEW h \in Handler, Serve(h) PROVE FlowInv'
  BY <1>2, ConsumeKeepsFlow, CreateKeepsFlow, FailsKeepsFlow, ServeNoLogin, NoLoginKeepsFlow DEF Serve
<1>3. ASSUME Elsewhere PROVE FlowInv'
  BY <1>3, StartKeepsFlow, ElsewhereNoLogin, NoLoginKeepsFlow DEF Elsewhere
<1>4. CASE UNCHANGED vars
  BY <1>4, NoLoginKeepsFlow DEF vars, NoLoginStep, flows
<1>. QED
  BY <1>1, <1>2, <1>3, <1>4 DEF Next

-----------------------------------------------------------------------------
(* One session is told of the first login.  Not only what was told counts, but
   what a row or a request may still tell. *)

ToldFirst(s) ==
  \/ session[s].first = "yes"
  \/ \E h \in Handler : handler[h].sid = s /\ handler[h].row.first = "yes"
  \/ s \in told

FirstInv ==
  /\ \A s, t \in Session : ToldFirst(s) /\ ToldFirst(t) => s = t
  /\ \A s \in Session : ToldFirst(s) => claimed

\* A step that tells of a first login only where it was known before.
NoNews ==
  /\ UNCHANGED claimed
  /\ \A s \in Session : session'[s].first = "yes" => ToldFirst(s)
  /\ \A h \in Handler : handler'[h].row.first = "yes" => ToldFirst(handler'[h].sid)
  /\ \A s \in told' : ToldFirst(s)

LEMMA NoNewsKeepsFirst ==
  ASSUME TypeInv, FirstInv, NoNews
  PROVE  FirstInv'
<1>1. \A s \in Session : ToldFirst(s)' => ToldFirst(s)
  BY DEF ToldFirst, NoNews
<1>. QED
  BY <1>1 DEF FirstInv, NoNews

LEMMA KnownFirst ==
  ASSUME TypeInv
  PROVE  /\ \A s \in Session : session[s].first = "yes" => ToldFirst(s)
         /\ \A h \in Handler : handler[h].row.first = "yes" => ToldFirst(handler[h].sid)
         /\ \A s \in told : ToldFirst(s)
  BY DEF ToldFirst

LEMMA MovesNoNews ==
  ASSUME TypeInv, NEW h \in Handler, NEW r, Moves(h, r), r.row.first = "yes" => ToldFirst(r.sid)
  PROVE  \A g \in Handler : handler'[g].row.first = "yes" => ToldFirst(handler'[g].sid)
  BY MovesKeep, KnownFirst

LEMMA IdleNoNews ==
  ASSUME TypeInv, NEW h \in Handler, Moves(h, Idle)
  PROVE  \A g \in Handler : handler'[g].row.first = "yes" => ToldFirst(handler'[g].sid)
  BY MovesNoNews, IdleFacts, RowFacts

LEMMA SameNoNews ==
  ASSUME TypeInv, NEW h \in Handler,
         \E r : /\ Moves(h, r) /\ SameRequest(r, handler[h])
               /\ \/ r.row = NoRow \/ r.row = handler[h].row
                  \/ r.row.first = handler[h].row.first
                  \/ r.sid \in Session /\ r.row = session[r.sid]
  PROVE  \A g \in Handler : handler'[g].row.first = "yes" => ToldFirst(handler'[g].sid)
<1>1. PICK r : /\ Moves(h, r) /\ SameRequest(r, handler[h])
               /\ \/ r.row = NoRow \/ r.row = handler[h].row
                  \/ r.row.first = handler[h].row.first
                  \/ r.sid \in Session /\ r.row = session[r.sid]
  OBVIOUS
<1>2. r.sid = handler[h].sid
  BY <1>1 DEF SameRequest
<1>3. r.row.first = "yes" => ToldFirst(r.sid)
  BY <1>1, <1>2, KnownFirst, RowFacts
<1>. QED
  BY <1>1, <1>3, MovesNoNews

LEMMA SettleNoNews ==
  ASSUME TypeInv, NEW h \in Handler, NEW outcome, Settle(h, outcome),
         handler[h].pc \in RequestSteps
  PROVE  \A g \in Handler : handler'[g].row.first = "yes" => ToldFirst(handler'[g].sid)
<1>1. \A g \in Handler : \/ handler'[g] = handler[g]
                         \/ handler'[g] = Idle
                         \/ handler'[g].row = NoRow
  BY SettleMoves
<1>2. NoRow.first = "unset" /\ Idle.row = NoRow
  BY RowFacts, IdleFacts
<1>. QED
  BY <1>1, <1>2, KnownFirst

LEMMA LoginNoNews ==
  ASSUME TypeInv
  PROVE  /\ \A b \in Browser, f \in Flow : StartLogin(b, f) => NoNews
         /\ \A h \in Handler, b \in Browser, f \in Flow : CallbackBegin(h, b, f) => NoNews
         /\ \A h \in Handler : ConsumeFlow(h) \/ LoginFails(h) => NoNews
         /\ \A h \in Handler, s \in Session : CreateSession(h, s) => NoNews
<1>1. ASSUME NEW b \in Browser, NEW f \in Flow, StartLogin(b, f) PROVE NoNews
  BY <1>1, KnownFirst DEF StartLogin, NoNews
<1>2. ASSUME NEW h \in Handler, NEW b \in Browser, NEW f \in Flow, CallbackBegin(h, b, f)
      PROVE  NoNews
  <2>1. UNCHANGED <<session, claimed, told>>
    BY <1>2 DEF CallbackBegin
  <2>2. CASE BoundTo(b, f)
    <3>1. PICK r : Moves(h, r) /\ r.row = NoRow
      BY <1>2, <2>2, CallbackMoves
    <3>. QED
      BY <2>1, <3>1, KnownFirst, MovesNoNews, RowFacts DEF NoNews
  <2>3. CASE ~BoundTo(b, f)
    BY <1>2, <2>1, <2>3, KnownFirst DEF CallbackBegin, NoNews
  <2>. QED
    BY <2>2, <2>3
<1>3. ASSUME NEW h \in Handler, ConsumeFlow(h) PROVE NoNews
  <2>1. handler[h].pc = "consume" /\ UNCHANGED <<session, claimed, told>>
    BY <1>3 DEF ConsumeFlow, At
  <2>2. CASE Goto(h, "create")
    <3>1. PICK r : Moves(h, r) /\ SameRequest(r, handler[h]) /\ r.row = handler[h].row
      BY <2>1, <2>2, GotoMoves
    <3>. QED
      BY <2>1, <3>1, KnownFirst, SameNoNews DEF NoNews
  <2>3. CASE Finish(h)
    BY <2>1, <2>3, FinishMoves, IdleNoNews, KnownFirst DEF NoNews
  <2>. QED
    BY <1>3, <2>2, <2>3 DEF ConsumeFlow
<1>4. ASSUME NEW h \in Handler, LoginFails(h) PROVE NoNews
  BY <1>4, FinishMoves, IdleNoNews, KnownFirst DEF LoginFails, NoNews
<1>5. ASSUME NEW h \in Handler, NEW s \in Session, CreateSession(h, s) PROVE NoNews
  <2>1. /\ session'[s].first = "unset" /\ \A t \in Session \ {s} : session'[t] = session[t]
        /\ UNCHANGED <<claimed, told>> /\ Finish(h)
    BY <1>5 DEF CreateSession, TypeInv, TypeOK
  <2>. QED
    BY <2>1, FinishMoves, IdleNoNews, KnownFirst DEF NoNews
<1>. QED
  BY <1>1, <1>2, <1>3, <1>4, <1>5

LEMMA RefreshNoNews ==
  ASSUME TypeInv, NEW h \in Handler
  PROVE  /\ \A p \in Pod, b \in Browser, call \in Calls : RequestBegin(h, p, b, call) => NoNews
         /\ RefreshCall(h) \/ RefreshRevoked(h) \/ RefreshFails(h) => NoNews
         /\ StoreRead(h) \/ StoreWrite(h) => NoNews
         /\ RejectedRead(h) \/ DestroyRejected(h) => NoNews
<1>. DEFINE s == handler[h].sid
<1>1. ASSUME NEW p \in Pod, NEW b \in Browser, NEW call \in Calls, RequestBegin(h, p, b, call)
      PROVE  NoNews
  <2>1. UNCHANGED <<session, claimed, told>> /\ cookie[b] \in Session
    BY <1>1, RequestMoves DEF RequestBegin
  <2>2. CASE handler' = handler
    BY <2>1, <2>2, KnownFirst DEF NoNews
  <2>3. CASE \E r : Moves(h, r) /\ r.sid = cookie[b] /\ r.row \in {NoRow, session[cookie[b]]}
    BY <2>1, <2>3, MovesNoNews, KnownFirst, RowFacts DEF NoNews
  <2>. QED
    BY <1>1, <2>2, <2>3, RequestMoves
<1>2. ASSUME handler[h].pc \in RequestSteps, \E outcome : Settle(h, outcome),
             UNCHANGED <<claimed, told>>, NEW w \in Row, w.first = "yes" => ToldFirst(s),
             session' = session \/ session' = [session EXCEPT ![s] = w]
      PROVE  NoNews
  <2>1. s \in Session /\ session \in [Session -> Row]
    BY <1>2, RequestFacts
  <2>2. \A t \in Session : session'[t].first = "yes" => ToldFirst(t)
    BY <1>2, <2>1, KnownFirst
  <2>. QED
    BY <1>2, <2>2, SettleNoNews, KnownFirst DEF NoNews
<1>3. ASSUME \E r : /\ Moves(h, r) /\ SameRequest(r, handler[h])
                   /\ \/ r.row = NoRow \/ r.row = handler[h].row
                      \/ r.sid \in Session /\ r.row = session[r.sid],
             UNCHANGED <<session, claimed, told>>
      PROVE  NoNews
  BY <1>3, SameNoNews, KnownFirst DEF NoNews
<1>4. NoRow \in Row /\ NoRow.first = "unset"
  BY RowFacts
<1>5. ASSUME RefreshCall(h) PROVE NoNews
  <2>1. \E r : /\ Moves(h, r) /\ SameRequest(r, handler[h])
              /\ \/ r.row = NoRow \/ r.row = handler[h].row
                 \/ r.sid \in Session /\ r.row = session[r.sid]
    BY <1>5, RefreshCallMoves
  <2>2. UNCHANGED <<session, claimed, told>>
    BY <1>5 DEF RefreshCall
  <2>. QED
    BY <1>3, <2>1, <2>2
<1>6. ASSUME RefreshRevoked(h) PROVE NoNews
  <2>1. \E r : Moves(h, r) /\ SameRequest(r, handler[h]) /\ r.row = handler[h].row
    BY <1>6, GotoMoves DEF RefreshRevoked, At, RequestSteps, RowSteps
  <2>. QED
    BY <1>3, <1>6, <2>1 DEF RefreshRevoked
<1>7. ASSUME RefreshFails(h) PROVE NoNews
  BY <1>2, <1>4, <1>7 DEF RefreshFails, At, RequestSteps
<1>8. ASSUME StoreRead(h) PROVE NoNews
  <2>1. CASE Vanished(s)
    BY <1>2, <1>4, <1>8, <2>1 DEF StoreRead, At, RequestSteps
  <2>2. CASE ~Vanished(s)
    <3>1. s \in Session
      BY <1>8, RequestFacts DEF StoreRead, At, RequestSteps
    <3>2. \E r : Moves(h, r) /\ SameRequest(r, handler[h]) /\ r.row = session[s]
      BY <1>8, <2>2, StoreReadMoves
    <3>. QED
      BY <1>3, <1>8, <3>1, <3>2 DEF StoreRead, SameRequest
  <2>. QED
    BY <2>1, <2>2
<1>9. ASSUME StoreWrite(h) PROVE NoNews
  <2>. DEFINE w == [handler[h].row EXCEPT !.gen = handler[h].gen]
  <2>1. /\ handler[h].pc \in RequestSteps /\ Settle(h, "token") /\ UNCHANGED <<claimed, told>>
        /\ session' = [session EXCEPT ![s] = w]
    BY <1>9 DEF StoreWrite, At, RequestSteps
  <2>2. w \in Row /\ w.first = handler[h].row.first
    <3>1. /\ handler[h].row \in Row /\ handler[h].row # NoRow /\ handler[h].gen \in 1 .. MaxGen
      BY <1>9, HandlerFacts DEF StoreWrite, At, RecordInv, RowSteps, HandlerState
    <3>. QED
      BY <3>1 DEF Row
  <2>. HIDE DEF w
  <2>. QED
    BY <1>2, <2>1, <2>2, KnownFirst
<1>10. ASSUME RejectedRead(h) PROVE NoNews
  <2>1. CASE Settle(h, "token")
    BY <1>2, <1>4, <1>10, <2>1 DEF RejectedRead, At, RequestSteps
  <2>2. CASE Goto(h, "destroy")
    <3>1. \E r : Moves(h, r) /\ SameRequest(r, handler[h]) /\ r.row = handler[h].row
      BY <1>10, <2>2, GotoMoves DEF RejectedRead, At, RequestSteps, RowSteps
    <3>. QED
      BY <1>3, <1>10, <3>1 DEF RejectedRead
  <2>. QED
    BY <1>10, <2>1, <2>2 DEF RejectedRead
<1>11. ASSUME DestroyRejected(h) PROVE NoNews
  BY <1>2, <1>4, <1>11 DEF DestroyRejected, At, RequestSteps
<1>. QED
  BY <1>1, <1>5, <1>6, <1>7, <1>8, <1>9, <1>10, <1>11

LEMMA MeNoNews ==
  ASSUME TypeInv, NEW h \in Handler
  PROVE  /\ Verify(h) \/ MeRead(h) => NoNews
         /\ StampRead(h) \/ StampWrite(h) => NoNews
<1>. DEFINE s == handler[h].sid
<1>1. NoRow \in Row /\ NoRow.first = "unset"
  BY RowFacts
<1>2. ASSUME handler[h].pc \in RequestSteps, UNCHANGED claimed,
             \A g \in Handler : handler'[g].row.first = "yes" => ToldFirst(handler'[g].sid),
             \A t \in told' : t \in told \/ ToldFirst(t),
             NEW w \in Row, w.first = "yes" => ToldFirst(s),
             session' = session \/ session' = [session EXCEPT ![s] = w]
      PROVE  NoNews
  <2>1. s \in Session /\ session \in [Session -> Row]
    BY <1>2, RequestFacts
  <2>2. \A t \in Session : session'[t].first = "yes" => ToldFirst(t)
    BY <1>2, <2>1, KnownFirst
  <2>. QED
    BY <1>2, <2>2, KnownFirst DEF NoNews
<1>3. ASSUME Verify(h) PROVE NoNews
  <2>1. /\ handler[h].pc \in RequestSteps /\ handler[h].pc = "verify"
        /\ UNCHANGED <<claimed, told>>
        /\ session' = session \/ session' = [session EXCEPT ![s] = NoRow]
    BY <1>3 DEF Verify, At, RequestSteps
  <2>2. CASE Finish(h)
    BY <1>1, <1>2, <2>1, <2>2, FinishMoves, IdleNoNews
  <2>3. CASE Goto(h, "me")
    <3>1. \E r : Moves(h, r) /\ SameRequest(r, handler[h]) /\ r.row = handler[h].row
      BY <2>1, <2>3, GotoMoves
    <3>. QED
      BY <1>1, <1>2, <2>1, <3>1, SameNoNews
  <2>. QED
    BY <1>3, <2>2, <2>3 DEF Verify
<1>4. ASSUME MeRead(h) PROVE NoNews
  <2>1. /\ handler[h].pc \in RequestSteps /\ UNCHANGED <<claimed, session>>
        /\ told' = IF session[s].first = "yes" THEN told \cup {s} ELSE told
    BY <1>4 DEF MeRead, At, RequestSteps
  <2>2. s \in Session
    BY <2>1, RequestFacts
  <2>3. \A t \in told' : t \in told \/ ToldFirst(t)
    BY <2>1, <2>2, KnownFirst
  <2>4. CASE Moves(h, Idle)
    BY <1>1, <1>2, <2>1, <2>3, <2>4, IdleNoNews
  <2>5. CASE \E r : Moves(h, r) /\ SameRequest(r, handler[h]) /\ r.row = session[s]
    <3>1. \A g \in Handler : handler'[g].row.first = "yes" => ToldFirst(handler'[g].sid)
      BY <2>2, <2>5, SameNoNews DEF SameRequest
    <3>. QED
      BY <1>1, <1>2, <2>1, <2>3, <3>1
  <2>. QED
    BY <1>4, <2>4, <2>5, MeReadMoves
<1>5. ASSUME Answer(h), handler[h].pc \in RequestSteps, UNCHANGED claimed,
             NEW w \in Row, w.first = "yes" => ToldFirst(s),
             session' = session \/ session' = [session EXCEPT ![s] = w]
      PROVE  NoNews
  <2>1. \A t \in told' : t \in told \/ ToldFirst(t)
    BY <1>5, KnownFirst DEF Answer
  <2>. QED
    BY <1>2, <1>5, <2>1, FinishMoves, IdleNoNews DEF Answer
<1>6. ASSUME StampRead(h) PROVE NoNews
  <2>1. /\ handler[h].pc \in RequestSteps /\ UNCHANGED <<claimed, session>>
    BY <1>6 DEF StampRead, At, RequestSteps
  <2>2. CASE Vanished(s)
    BY <1>1, <1>5, <1>6, <2>1, <2>2 DEF StampRead
  <2>3. CASE ~Vanished(s)
    <3>1. UNCHANGED told /\ \E r : /\ Moves(h, r) /\ SameRequest(r, handler[h])
                                   /\ r.row.first = handler[h].row.first
      BY <1>6, <2>3, StampReadMoves
    <3>. QED
      BY <1>1, <1>2, <2>1, <3>1, SameNoNews
  <2>. QED
    BY <2>2, <2>3
<1>7. ASSUME StampWrite(h) PROVE NoNews
  <2>1. /\ handler[h].pc \in RequestSteps /\ UNCHANGED claimed /\ Answer(h)
        /\ session' = [session EXCEPT ![s] = handler[h].row]
    BY <1>7 DEF StampWrite, At, RequestSteps
  <2>2. handler[h].row \in Row
    BY HandlerFacts DEF HandlerState
  <2>. QED
    BY <1>5, <2>1, <2>2, KnownFirst
<1>. QED
  BY <1>3, <1>4, <1>6, <1>7

LEMMA ElsewhereNoNews ==
  ASSUME TypeInv
  PROVE  /\ \A b \in Browser : Logout(b) => NoNews
         /\ \A s \in Session : GetOld(s) \/ ExpireSession(s) => NoNews
         /\ \A p \in Pod : Crash(p) => NoNews
<1>1. NoRow.first = "unset" /\ session \in [Session -> Row]
  BY RowFacts DEF TypeInv, TypeOK
<1>2. ASSUME UNCHANGED <<handler, claimed, told>>,
             session' = session \/ \E s \in Session : session' = [session EXCEPT ![s] = NoRow]
      PROVE  NoNews
  BY <1>1, <1>2, KnownFirst DEF NoNews
<1>3. ASSUME NEW p \in Pod, Crash(p) PROVE NoNews
  <2>1. \A g \in Handler : handler'[g] \in {handler[g], Idle}
    BY <1>3, CrashMoves
  <2>. QED
    BY <1>1, <1>3, <2>1, IdleFacts, KnownFirst DEF Crash, NoNews
<1>4. ASSUME NEW b \in Browser, Logout(b) PROVE NoNews
  BY <1>2, <1>4 DEF Logout, TypeInv, TypeOK
<1>5. ASSUME NEW s \in Session, GetOld(s) \/ ExpireSession(s) PROVE NoNews
  BY <1>2, <1>5 DEF GetOld, ExpireSession
<1>. QED
  BY <1>3, <1>4, <1>5

\* The one step that makes a session the first: no other was before.
LEMMA ClaimKeepsFirst ==
  ASSUME TypeInv, FirstInv, NEW h \in Handler, Claim(h)
  PROVE  FirstInv'
<1>1. PICK r : /\ Moves(h, r) /\ SameRequest(r, handler[h])
               /\ r.row.first = IF MayClaim(h) THEN "yes" ELSE "no"
  BY ClaimMoves
<1>2. /\ handler'[h].sid = handler[h].sid
      /\ handler'[h].row.first = IF claimed THEN "no" ELSE "yes"
      /\ \A g \in Handler \ {h} : handler'[g] = handler[g]
      /\ UNCHANGED <<session, told>> /\ claimed' = TRUE
  BY <1>1, MovesKeep DEF Claim, MayClaim, SameRequest
<1>3. CASE claimed
  <2>1. \A s \in Session : ToldFirst(s)' => ToldFirst(s)
    BY <1>2, <1>3 DEF ToldFirst
  <2>. QED
    BY <1>2, <2>1 DEF FirstInv
<1>4. CASE ~claimed
  <2>1. \A s \in Session : ToldFirst(s)' => s = handler[h].sid
    BY <1>2, <1>4 DEF FirstInv, ToldFirst
  <2>. QED
    BY <1>2, <2>1 DEF FirstInv
<1>. QED
  BY <1>3, <1>4

LEMMA FirstInit == TypeInv /\ Init => FirstInv
<1>. SUFFICES ASSUME Init PROVE FirstInv
  OBVIOUS
<1>1. /\ \A h \in Handler : handler[h].row.first = "unset"
      /\ \A s \in Session : session[s].first = "unset"
      /\ told = {}
  BY IdleFacts, RowFacts DEF Init
<1>. QED
  BY <1>1 DEF FirstInv, ToldFirst

LEMMA FirstStep == TypeInv /\ FirstInv /\ [Next]_vars => FirstInv'
<1>. SUFFICES ASSUME TypeInv, FirstInv, [Next]_vars PROVE FirstInv'
  OBVIOUS
<1>1. ASSUME NEW h \in Handler, Call(h) PROVE FirstInv'
  BY <1>1, LoginNoNews, RefreshNoNews, NoNewsKeepsFirst DEF Call
<1>2. ASSUME NEW h \in Handler, Serve(h) PROVE FirstInv'
  BY <1>2, LoginNoNews, RefreshNoNews, MeNoNews, ClaimKeepsFirst, NoNewsKeepsFirst DEF Serve
<1>3. ASSUME Elsewhere PROVE FirstInv'
  BY <1>3, LoginNoNews, ElsewhereNoNews, NoNewsKeepsFirst DEF Elsewhere
<1>4. CASE UNCHANGED vars
  BY <1>4, KnownFirst, NoNewsKeepsFirst DEF vars, NoNews
<1>. QED
  BY <1>1, <1>2, <1>3, <1>4 DEF Next

-----------------------------------------------------------------------------
(* One request of a process refreshes a session, and those that wait wait for
   it.  That there is but one makes the end of its refresh empty the map. *)

LeaderInv ==
  /\ WaitersHaveLeader
  /\ \A g, h \in Handler, p \in Pod, s \in Session : Leads(g, p, s) /\ Leads(h, p, s) => g = h

SameProcess(r, q) == r.pod = q.pod /\ r.sid = q.sid

\* A step after which the same requests refresh and no other ones wait.
LeadersStay ==
  /\ UNCHANGED inflight
  /\ \A g \in Handler : handler'[g].pc \in Refreshing <=> handler[g].pc \in Refreshing
  /\ \A g \in Handler : handler[g].pc \in Refreshing => SameRequest(handler'[g], handler[g])
  /\ \A g \in Handler : handler'[g].pc = "wait" => handler'[g] = handler[g]

LEMMA LeadersStayKeep ==
  ASSUME TypeInv, LeaderInv, LeadersStay
  PROVE  LeaderInv'
<1>1. \A g \in Handler, p \in Pod, s \in Session : Leads(g, p, s)' <=> Leads(g, p, s)
  BY DEF Leads, LeadersStay, SameRequest
<1>2. \A p \in Pod : inflight'[p] = {s \in Session : \E h \in Handler : Leads(h, p, s)'}
  BY <1>1 DEF LeaderInv, WaitersHaveLeader, LeadersStay
<1>3. \A h \in Handler : handler'[h].pc = "wait" =>
        \E g \in Handler : /\ handler'[g].pc \in Refreshing
                              /\ SameProcess(handler'[g], handler'[h])
  <2>. SUFFICES ASSUME NEW h \in Handler, handler'[h].pc = "wait"
                PROVE  \E g \in Handler : /\ handler'[g].pc \in Refreshing
                              /\ SameProcess(handler'[g], handler'[h])
    OBVIOUS
  <2>1. handler'[h] = handler[h] /\ handler[h].pod \in Pod /\ handler[h].sid \in Session
    BY HandlerFacts DEF LeadersStay, RequestSteps
  <2>2. PICK g \in Handler : Leads(g, handler[h].pod, handler[h].sid)
    BY <2>1 DEF LeaderInv, WaitersHaveLeader, At
  <2>. QED
    BY <1>1, <2>1, <2>2 DEF Leads, SameProcess
<1>4. \A g, h \in Handler, p \in Pod, s \in Session : Leads(g, p, s)' /\ Leads(h, p, s)' => g = h
  BY <1>1 DEF LeaderInv
<1>. QED
  BY <1>2, <1>3, <1>4 DEF LeaderInv, WaitersHaveLeader, At, Leads, SameProcess

LEMMA MovesStay ==
  ASSUME TypeInv, NEW h \in Handler, UNCHANGED inflight,
         \E r : /\ Moves(h, r) /\ r.pc # "wait"
                /\ r.pc \in Refreshing <=> handler[h].pc \in Refreshing
                /\ r.pc \in Refreshing => SameRequest(r, handler[h])
  PROVE  LeadersStay
<1>1. PICK r : /\ Moves(h, r) /\ r.pc # "wait"
               /\ r.pc \in Refreshing <=> handler[h].pc \in Refreshing
               /\ r.pc \in Refreshing => SameRequest(r, handler[h])
  OBVIOUS
<1>2. handler'[h] = r /\ \A g \in Handler \ {h} : handler'[g] = handler[g]
  BY <1>1, MovesKeep
<1>. QED
  BY <1>1, <1>2 DEF LeadersStay, SameRequest

LEMMA SettleKeepsLeader ==
  ASSUME TypeInv, LeaderInv, NEW h \in Handler, NEW outcome, Settle(h, outcome),
         handler[h].pc \in Refreshing
  PROVE  LeaderInv'
<1>. DEFINE done == Followers(h) \cup {h}
            p0 == handler[h].pod
            s0 == handler[h].sid
<1>1. p0 \in Pod /\ s0 \in Session /\ Leads(h, p0, s0)
  BY HandlerFacts DEF Refreshing, RequestSteps, Leads
<1>2. \A g \in Handler : g \notin done => handler'[g] = handler[g]
  BY HandlerFacts, SettleMoves DEF Refreshing, RequestSteps
<1>3. \A g \in done : handler'[g].pc \in {"idle", "verify"}
  BY HandlerFacts, SettleMoves, IdleFacts DEF Refreshing, RequestSteps
<1>4. \A g \in Handler, p \in Pod, s \in Session : Leads(g, p, s)' <=> Leads(g, p, s) /\ g # h
  <2>1. \A g \in Followers(h) : handler[g].pc \notin Refreshing
    BY DEF Followers, At, Refreshing
  <2>2. \A g \in done : handler'[g].pc \notin Refreshing
    BY <1>3 DEF Refreshing
  <2>. QED
    BY <1>2, <2>1, <2>2 DEF Leads
<1>5. \A p \in Pod : inflight'[p] = IF p = p0 THEN inflight[p] \ {s0} ELSE inflight[p]
  BY DEF Settle, TypeInv, TypeOK
<1>6. \A g \in Handler, p \in Pod, s \in Session : Leads(g, p, s) /\ Leads(h, p, s) => g = h
  BY DEF LeaderInv
<1>7. \A p \in Pod, s \in Session : Leads(h, p, s) <=> p = p0 /\ s = s0
  BY <1>1 DEF Leads
<1>8. \A p \in Pod : inflight'[p] = {s \in Session : \E g \in Handler : Leads(g, p, s)'}
  <2>. SUFFICES ASSUME NEW p \in Pod
                PROVE  inflight'[p] = {s \in Session : \E g \in Handler : Leads(g, p, s)'}
    OBVIOUS
  <2>1. \A s \in Session : (\E g \in Handler : Leads(g, p, s)') <=>
                           (\E g \in Handler : Leads(g, p, s)) /\ ~(p = p0 /\ s = s0)
    BY <1>4, <1>6, <1>7
  <2>2. inflight[p] = {s \in Session : \E g \in Handler : Leads(g, p, s)}
    BY DEF LeaderInv, WaitersHaveLeader
  <2>3. \A s : s \in inflight'[p] <=> s \in inflight[p] /\ ~(p = p0 /\ s = s0)
    BY <1>5
  <2>. HIDE DEF p0, s0
  <2>. QED
    BY <2>1, <2>2, <2>3
<1>9. \A k \in Handler : handler'[k].pc = "wait" =>
        \E g \in Handler : /\ handler'[g].pc \in Refreshing
                              /\ SameProcess(handler'[g], handler'[k])
  <2>. SUFFICES ASSUME NEW k \in Handler, handler'[k].pc = "wait"
                PROVE  \E g \in Handler : /\ handler'[g].pc \in Refreshing
                              /\ SameProcess(handler'[g], handler'[k])
    OBVIOUS
  <2>1. k \notin done /\ handler'[k] = handler[k]
    BY <1>2, <1>3
  <2>2. /\ handler[k].pod \in Pod /\ handler[k].sid \in Session
        /\ ~(handler[k].pod = p0 /\ handler[k].sid = s0)
    BY <2>1, HandlerFacts DEF RequestSteps, Followers, At
  <2>3. PICK g \in Handler : Leads(g, handler[k].pod, handler[k].sid)
    BY <2>1 DEF LeaderInv, WaitersHaveLeader, At
  <2>. QED
    BY <1>4, <1>7, <2>1, <2>2, <2>3 DEF Leads, SameProcess
<1>10. \A g, k \in Handler, p \in Pod, s \in Session : Leads(g, p, s)' /\ Leads(k, p, s)' => g = k
  BY <1>4 DEF LeaderInv
<1>. QED
  BY <1>8, <1>9, <1>10 DEF LeaderInv, WaitersHaveLeader, At, Leads, SameProcess

LEMMA CrashKeepsLeader ==
  ASSUME TypeInv, LeaderInv, NEW q \in Pod, Crash(q)
  PROVE  LeaderInv'
<1>1. \A g \in Handler : handler'[g] = IF handler[g].pod = q THEN Idle ELSE handler[g]
  BY CrashMoves
<1>2. \A p \in Pod : inflight'[p] = IF p = q THEN {} ELSE inflight[p]
  BY DEF Crash, TypeInv, TypeOK
<1>3. \A g \in Handler, p \in Pod, s \in Session : Leads(g, p, s)' <=> Leads(g, p, s) /\ p # q
  BY <1>1, IdleFacts DEF Leads, Refreshing
<1>4. \A p \in Pod : inflight'[p] = {s \in Session : \E g \in Handler : Leads(g, p, s)'}
  <2>. SUFFICES ASSUME NEW p \in Pod
                PROVE  inflight'[p] = {s \in Session : \E g \in Handler : Leads(g, p, s)'}
    OBVIOUS
  <2>1. inflight[p] = {s \in Session : \E g \in Handler : Leads(g, p, s)}
    BY DEF LeaderInv, WaitersHaveLeader
  <2>. QED
    BY <1>2, <1>3, <2>1
<1>5. \A k \in Handler : handler'[k].pc = "wait" =>
        \E g \in Handler : /\ handler'[g].pc \in Refreshing
                              /\ SameProcess(handler'[g], handler'[k])
  <2>. SUFFICES ASSUME NEW k \in Handler, handler'[k].pc = "wait"
                PROVE  \E g \in Handler : /\ handler'[g].pc \in Refreshing
                              /\ SameProcess(handler'[g], handler'[k])
    OBVIOUS
  <2>1. handler'[k] = handler[k] /\ handler[k].pod # q
    BY <1>1, IdleFacts
  <2>2. handler[k].pod \in Pod /\ handler[k].sid \in Session
    BY <2>1, HandlerFacts DEF RequestSteps
  <2>3. PICK g \in Handler : Leads(g, handler[k].pod, handler[k].sid)
    BY <2>1 DEF LeaderInv, WaitersHaveLeader, At
  <2>. QED
    BY <1>3, <2>1, <2>2, <2>3 DEF Leads, SameProcess
<1>6. \A g, k \in Handler, p \in Pod, s \in Session : Leads(g, p, s)' /\ Leads(k, p, s)' => g = k
  BY <1>3 DEF LeaderInv
<1>. QED
  BY <1>4, <1>5, <1>6 DEF LeaderInv, WaitersHaveLeader, At, Leads, SameProcess

LEMMA BeginKeepsLeader ==
  ASSUME TypeInv, LeaderInv, NEW h \in Handler, NEW p \in Pod, NEW b \in Browser,
         NEW call \in Calls, RequestBegin(h, p, b, call)
  PROVE  LeaderInv'
<1>. DEFINE s == cookie[b]
<1>1. handler[h].pc = "idle" /\ s \in Session
  BY RequestMoves DEF RequestBegin, At
<1>2. CASE handler' = handler /\ inflight' = inflight
  BY <1>2, LeadersStayKeep DEF LeadersStay, SameRequest
<1>3. CASE inflight' = inflight /\ \E r : Moves(h, r) /\ r.pc = "verify"
  BY <1>1, <1>3, MovesStay, LeadersStayKeep DEF Refreshing
<1>4. CASE /\ inflight' = inflight /\ s \in inflight[p]
           /\ \E r : Moves(h, r) /\ r.pc = "wait" /\ r.pod = p /\ r.sid = s
  <2>1. PICK r : Moves(h, r) /\ r.pc = "wait" /\ r.pod = p /\ r.sid = s
    BY <1>4
  <2>2. handler'[h] = r /\ \A g \in Handler \ {h} : handler'[g] = handler[g]
    BY <2>1, MovesKeep
  <2>3. \A g \in Handler, q \in Pod, t \in Session : Leads(g, q, t)' <=> Leads(g, q, t)
    BY <1>1, <2>1, <2>2 DEF Leads, Refreshing
  <2>4. \A q \in Pod : inflight'[q] = {t \in Session : \E g \in Handler : Leads(g, q, t)'}
    BY <1>4, <2>3 DEF LeaderInv, WaitersHaveLeader
  <2>5. \A k \in Handler : handler'[k].pc = "wait" =>
          \E g \in Handler : /\ handler'[g].pc \in Refreshing
                              /\ SameProcess(handler'[g], handler'[k])
    <3>1. \E g \in Handler : Leads(g, p, s)
      BY <1>4 DEF LeaderInv, WaitersHaveLeader
    <3>2. \A k \in Handler : handler[k].pc = "wait" =>
            /\ handler[k].pod \in Pod /\ handler[k].sid \in Session
            /\ \E g \in Handler : Leads(g, handler[k].pod, handler[k].sid)
      BY HandlerFacts DEF LeaderInv, WaitersHaveLeader, At, RequestSteps
    <3>. QED
      BY <1>1, <2>1, <2>2, <2>3, <3>1, <3>2 DEF Leads, SameProcess
  <2>6. \A g, k \in Handler, q \in Pod, t \in Session : Leads(g, q, t)' /\ Leads(k, q, t)' => g = k
    BY <2>3 DEF LeaderInv
  <2>. QED
    BY <2>4, <2>5, <2>6 DEF LeaderInv, WaitersHaveLeader, At, Leads, SameProcess
<1>5. CASE /\ inflight' = [inflight EXCEPT ![p] = @ \cup {s}] /\ s \notin inflight[p]
           /\ \E r : Moves(h, r) /\ r.pc = "refresh" /\ r.pod = p /\ r.sid = s
  <2>1. PICK r : Moves(h, r) /\ r.pc = "refresh" /\ r.pod = p /\ r.sid = s
    BY <1>5
  <2>2. handler'[h] = r /\ \A g \in Handler \ {h} : handler'[g] = handler[g]
    BY <2>1, MovesKeep
  <2>3. \A g \in Handler, q \in Pod, t \in Session :
          (Leads(g, q, t))' <=> (Leads(g, q, t) \/ (g = h /\ q = p /\ t = s))
    BY <1>1, <2>1, <2>2 DEF Leads, Refreshing
  <2>4. \A q \in Pod : inflight'[q] = IF q = p THEN inflight[q] \cup {s} ELSE inflight[q]
    BY <1>5 DEF TypeInv, TypeOK
  <2>5. \A g \in Handler : ~Leads(g, p, s)
    BY <1>1, <1>5 DEF LeaderInv, WaitersHaveLeader
  <2>6. \A q \in Pod : inflight'[q] = {t \in Session : \E g \in Handler : Leads(g, q, t)'}
    <3>. SUFFICES ASSUME NEW q \in Pod
                  PROVE  inflight'[q] = {t \in Session : \E g \in Handler : Leads(g, q, t)'}
      OBVIOUS
    <3>1. inflight[q] = {t \in Session : \E g \in Handler : Leads(g, q, t)}
      BY DEF LeaderInv, WaitersHaveLeader
    <3>2. \A t \in Session : (\E g \in Handler : Leads(g, q, t)') <=>
                             ((\E g \in Handler : Leads(g, q, t)) \/ (q = p /\ t = s))
      BY <2>3
    <3>3. \A t : t \in inflight'[q] <=> (t \in inflight[q] \/ (q = p /\ t = s))
      BY <2>4
    <3>. HIDE DEF s
    <3>. QED
      BY <1>1, <3>1, <3>2, <3>3
  <2>7. \A k \in Handler : handler'[k].pc = "wait" =>
          \E g \in Handler : /\ handler'[g].pc \in Refreshing
                              /\ SameProcess(handler'[g], handler'[k])
    <3>1. \A k \in Handler : handler[k].pc = "wait" =>
            /\ handler[k].pod \in Pod /\ handler[k].sid \in Session
            /\ \E g \in Handler : Leads(g, handler[k].pod, handler[k].sid)
      BY HandlerFacts DEF LeaderInv, WaitersHaveLeader, At, RequestSteps
    <3>2. \A k \in Handler : handler'[k].pc = "wait" => handler'[k] = handler[k]
      BY <2>1, <2>2
    <3>. QED
      BY <2>3, <3>1, <3>2 DEF Leads, SameProcess
  <2>8. \A g, k \in Handler, q \in Pod, t \in Session : Leads(g, q, t)' /\ Leads(k, q, t)' => g = k
    <3>. HIDE DEF s
    <3>. QED
      BY <2>3, <2>5 DEF LeaderInv
  <2>. QED
    BY <2>6, <2>7, <2>8 DEF LeaderInv, WaitersHaveLeader, At, Leads, SameProcess
<1>. QED
  BY <1>2, <1>3, <1>4, <1>5, RequestMoves

LEMMA FinishStay ==
  ASSUME TypeInv, NEW h \in Handler, UNCHANGED inflight, Finish(h), handler[h].pc \notin Refreshing
  PROVE  LeadersStay
<1>1. Moves(h, Idle) /\ Idle.pc = "idle"
  BY FinishMoves, IdleFacts
<1>. QED
  BY <1>1, MovesStay DEF Refreshing

LEMMA LoginStay ==
  ASSUME TypeInv
  PROVE  /\ \A b \in Browser, f \in Flow : StartLogin(b, f) => LeadersStay
         /\ \A h \in Handler, b \in Browser, f \in Flow : CallbackBegin(h, b, f) => LeadersStay
         /\ \A h \in Handler : ConsumeFlow(h) \/ LoginFails(h) => LeadersStay
         /\ \A h \in Handler, s \in Session : CreateSession(h, s) => LeadersStay
<1>1. ASSUME UNCHANGED <<handler, inflight>> PROVE LeadersStay
  BY <1>1 DEF LeadersStay, SameRequest
<1>2. ASSUME NEW h \in Handler, NEW b \in Browser, NEW f \in Flow, CallbackBegin(h, b, f)
      PROVE  LeadersStay
  <2>1. handler[h].pc = "idle" /\ UNCHANGED inflight
    BY <1>2 DEF CallbackBegin, At
  <2>2. CASE BoundTo(b, f)
    <3>1. \E r : Moves(h, r) /\ r.pc = "consume"
      BY <1>2, <2>2, CallbackMoves
    <3>. QED
      BY <2>1, <3>1, MovesStay DEF Refreshing
  <2>3. CASE ~BoundTo(b, f)
    BY <1>1, <1>2, <2>1, <2>3 DEF CallbackBegin
  <2>. QED
    BY <2>2, <2>3
<1>3. ASSUME NEW h \in Handler, ConsumeFlow(h) PROVE LeadersStay
  <2>1. handler[h].pc = "consume" /\ UNCHANGED inflight
    BY <1>3 DEF ConsumeFlow, At
  <2>2. CASE Goto(h, "create")
    <3>1. \E r : Moves(h, r) /\ r.pc = "create"
      BY <2>1, <2>2, GotoMoves
    <3>. QED
      BY <2>1, <3>1, MovesStay DEF Refreshing
  <2>3. CASE Finish(h)
    BY <2>1, <2>3, FinishStay DEF Refreshing
  <2>. QED
    BY <1>3, <2>2, <2>3 DEF ConsumeFlow
<1>4. ASSUME NEW h \in Handler, LoginFails(h) PROVE LeadersStay
  BY <1>4, FinishStay DEF LoginFails, At, Refreshing
<1>5. ASSUME NEW h \in Handler, NEW s \in Session, CreateSession(h, s) PROVE LeadersStay
  BY <1>5, FinishStay DEF CreateSession, At, Refreshing
<1>. QED
  BY <1>1, <1>2, <1>3, <1>4, <1>5 DEF StartLogin

LEMMA RefreshStay ==
  ASSUME TypeInv, NEW h \in Handler
  PROVE  /\ RefreshCall(h) \/ RefreshRevoked(h) => LeadersStay
         /\ StoreRead(h) /\ ~Vanished(handler[h].sid) => LeadersStay
         /\ RejectedRead(h) /\ ~MovedOn(h) => LeadersStay
<1>1. ASSUME NEW r, Moves(h, r), SameRequest(r, handler[h]), handler[h].pc \in Refreshing,
             r.pc \in {"storeread", "store", "rejected", "destroy"}, UNCHANGED inflight
      PROVE  LeadersStay
  BY <1>1, MovesStay DEF Refreshing
<1>2. ASSUME RefreshCall(h) PROVE LeadersStay
  <2>1. handler[h].pc \in Refreshing /\ UNCHANGED inflight
    BY <1>2 DEF RefreshCall, At, Refreshing
  <2>2. PICK r : Moves(h, r) /\ SameRequest(r, handler[h]) /\ r.pc \in {"storeread", "rejected"}
    BY <1>2, RefreshCallMoves
  <2>. QED
    BY <1>1, <2>1, <2>2
<1>3. ASSUME RefreshRevoked(h) PROVE LeadersStay
  <2>1. handler[h].pc = "refresh" /\ UNCHANGED inflight /\ Goto(h, "rejected")
    BY <1>3 DEF RefreshRevoked, At
  <2>2. PICK r : Moves(h, r) /\ SameRequest(r, handler[h]) /\ r.pc = "rejected"
    BY <2>1, GotoMoves DEF RequestSteps, RowSteps
  <2>. QED
    BY <1>1, <2>1, <2>2 DEF Refreshing
<1>4. ASSUME StoreRead(h), ~Vanished(handler[h].sid) PROVE LeadersStay
  <2>1. handler[h].pc \in Refreshing
    BY <1>4 DEF StoreRead, At, Refreshing
  <2>2. PICK r : /\ Moves(h, r) /\ SameRequest(r, handler[h]) /\ r.pc = "store"
                 /\ UNCHANGED <<cookie, inflight>>
    BY <1>4, StoreReadMoves
  <2>. QED
    BY <1>1, <2>1, <2>2
<1>5. ASSUME RejectedRead(h), ~MovedOn(h) PROVE LeadersStay
  <2>1. handler[h].pc = "rejected" /\ UNCHANGED inflight /\ Goto(h, "destroy")
    BY <1>5 DEF RejectedRead, At
  <2>2. PICK r : Moves(h, r) /\ SameRequest(r, handler[h]) /\ r.pc = "destroy"
    BY <2>1, GotoMoves DEF RequestSteps, RowSteps
  <2>. QED
    BY <1>1, <2>1, <2>2 DEF Refreshing
<1>. QED
  BY <1>2, <1>3, <1>4, <1>5

LEMMA MeStay ==
  ASSUME TypeInv, NEW h \in Handler
  PROVE  Verify(h) \/ MeRead(h) \/ Claim(h) \/ StampRead(h) \/ StampWrite(h) => LeadersStay
<1>1. ASSUME handler[h].pc \notin Refreshing, UNCHANGED inflight,
             NEW r, Moves(h, r), r.pc \notin Refreshing \cup {"wait"}
      PROVE  LeadersStay
  BY <1>1, MovesStay
<1>2. ASSUME Verify(h) PROVE LeadersStay
  <2>1. handler[h].pc = "verify" /\ UNCHANGED inflight
    BY <1>2 DEF Verify, At
  <2>2. CASE Finish(h)
    BY <2>1, <2>2, FinishStay DEF Refreshing
  <2>3. CASE Goto(h, "me")
    <3>1. PICK r : Moves(h, r) /\ r.pc = "me"
      BY <2>1, <2>3, GotoMoves DEF RequestSteps
    <3>. QED
      BY <1>1, <2>1, <3>1 DEF Refreshing
  <2>. QED
    BY <1>2, <2>2, <2>3 DEF Verify
<1>3. ASSUME MeRead(h) PROVE LeadersStay
  <2>1. handler[h].pc = "me" /\ UNCHANGED inflight
    BY <1>3 DEF MeRead, At
  <2>2. PICK r : Moves(h, r) /\ r.pc \in {"idle", "claim"}
    BY <1>3, MeReadMoves, IdleFacts
  <2>. QED
    BY <1>1, <2>1, <2>2 DEF Refreshing
<1>4. ASSUME Claim(h) PROVE LeadersStay
  <2>1. handler[h].pc = "claim" /\ UNCHANGED inflight
    BY <1>4 DEF Claim, At
  <2>2. PICK r : Moves(h, r) /\ r.pc = "stampread"
    BY <1>4, ClaimMoves
  <2>. QED
    BY <1>1, <2>1, <2>2 DEF Refreshing
<1>5. ASSUME StampRead(h) PROVE LeadersStay
  <2>1. handler[h].pc = "stampread" /\ UNCHANGED inflight
    BY <1>5 DEF StampRead, At
  <2>2. CASE Vanished(handler[h].sid)
    BY <1>5, <2>1, <2>2, FinishStay DEF StampRead, Answer, Refreshing
  <2>3. CASE ~Vanished(handler[h].sid)
    <3>1. PICK r : Moves(h, r) /\ r.pc = "stamp"
      BY <1>5, <2>3, StampReadMoves
    <3>. QED
      BY <1>1, <2>1, <3>1 DEF Refreshing
  <2>. QED
    BY <2>2, <2>3
<1>6. ASSUME StampWrite(h) PROVE LeadersStay
  BY <1>6, FinishStay DEF StampWrite, Answer, At, Refreshing
<1>. QED
  BY <1>2, <1>3, <1>4, <1>5, <1>6

LEMMA ElsewhereStay ==
  /\ \A b \in Browser : Logout(b) => LeadersStay
  /\ \A s \in Session : GetOld(s) \/ ExpireSession(s) => LeadersStay
  /\ UNCHANGED vars => LeadersStay
  BY DEF Logout, GetOld, ExpireSession, vars, LeadersStay, SameRequest

LEMMA LeaderInit == TypeInv /\ Init => LeaderInv
<1>. SUFFICES ASSUME Init PROVE LeaderInv
  OBVIOUS
<1>1. /\ \A h \in Handler : handler[h].pc = "idle"
      /\ \A p \in Pod : inflight[p] = {}
  BY IdleFacts DEF Init
<1>. QED
  BY <1>1 DEF LeaderInv, WaitersHaveLeader, Leads, Refreshing, At

LEMMA LeaderStep == TypeInv /\ LeaderInv /\ [Next]_vars => LeaderInv'
<1>. SUFFICES ASSUME TypeInv, LeaderInv, [Next]_vars PROVE LeaderInv'
  OBVIOUS
<1>1. ASSUME NEW h \in Handler, Call(h) PROVE LeaderInv'
  BY <1>1, LoginStay, LeadersStayKeep, BeginKeepsLeader DEF Call
<1>2. ASSUME NEW h \in Handler, Serve(h) PROVE LeaderInv'
  <2>1. ASSUME StoreRead(h) PROVE LeaderInv'
    BY <2>1, RefreshStay, LeadersStayKeep, SettleKeepsLeader DEF StoreRead, At, Refreshing
  <2>2. ASSUME RejectedRead(h) PROVE LeaderInv'
    BY <2>2, RefreshStay, LeadersStayKeep, SettleKeepsLeader DEF RejectedRead, At, Refreshing
  <2>3. ASSUME RefreshFails(h) \/ StoreWrite(h) \/ DestroyRejected(h) PROVE LeaderInv'
    BY <2>3, SettleKeepsLeader DEF RefreshFails, StoreWrite, DestroyRejected, At, Refreshing
  <2>. QED
    BY <1>2, <2>1, <2>2, <2>3, LoginStay, RefreshStay, MeStay, LeadersStayKeep DEF Serve
<1>3. ASSUME Elsewhere PROVE LeaderInv'
  BY <1>3, LoginStay, ElsewhereStay, CrashKeepsLeader, LeadersStayKeep DEF Elsewhere
<1>4. CASE UNCHANGED vars
  BY <1>4, ElsewhereStay, LeadersStayKeep
<1>. QED
  BY <1>1, <1>2, <1>3, <1>4 DEF Next

-----------------------------------------------------------------------------
(* A session that nothing disturbs does not lose its rotation.  While a session
   is calm, its row holds the newest tokens or a request is bringing them; such
   a request is the only one that has called Keycloak for the session; a token
   that was rejected is not the one of the row; and what is about to be
   destroyed is no longer there. *)

Holds(h) == handler[h].pc \in {"storeread", "store"}
Called(h) == handler[h].pc \in {"storeread", "store", "rejected", "destroy"}
Calm(s) == s \notin disturbed \cup revoked

RotationInv ==
  /\ \A s \in Session : Calm(s) =>
       \/ session[s] = NoRow
       \/ session[s].gen = minted[s]
       \/ \E h \in Handler : Holds(h) /\ handler[h].sid = s
  /\ \A h \in Handler : Calm(handler[h].sid) =>
       /\ Holds(h) => handler[h].gen = minted[handler[h].sid]
       /\ At(h, "rejected") => ~(/\ session[handler[h].sid] # NoRow
                                 /\ session[handler[h].sid].gen = handler[h].row.gen)
       /\ At(h, "destroy") => session[handler[h].sid] = NoRow
       /\ Called(h) => \A g \in Handler : Called(g) /\ handler[g].sid = handler[h].sid => g = h
  /\ LossIsExplained

HoldSteps == {"storeread", "store"}
CalledSteps == HoldSteps \cup {"rejected", "destroy"}

\* The step leaves the newest tokens of s in its row, and no request that has
\* called Keycloak for it.
Written(s) ==
  /\ session'[s].gen = minted'[s]
  /\ \A g \in Handler : handler'[g].pc \in CalledSteps => handler'[g].sid # s

\* A step that, for every session still calm after it, rotates nothing.
RotationStays ==
  /\ disturbed \subseteq disturbed' /\ revoked \subseteq revoked' /\ lost' \subseteq disturbed'
  /\ \A s \in Session : s \notin disturbed' \cup revoked' =>
       \/ /\ minted'[s] = minted[s]
          /\ \/ session'[s] = NoRow
             \/ session[s] # NoRow /\ session'[s].gen = session[s].gen
       \/ Written(s)
  /\ \A g \in Handler :
       handler'[g].pc \in CalledSteps /\ handler'[g].sid \notin disturbed' \cup revoked' =>
         /\ handler[g].pc \in CalledSteps /\ handler'[g].sid = handler[g].sid
         /\ handler'[g].pc \in HoldSteps => /\ handler[g].pc \in HoldSteps
                                            /\ handler'[g].gen = handler[g].gen
         /\ handler'[g].pc = "rejected" => /\ handler[g].pc = "rejected"
                                           /\ handler'[g].row = handler[g].row
         /\ handler'[g].pc = "destroy" => \/ handler[g].pc = "destroy"
                                          \/ session[handler[g].sid] = NoRow
  /\ \A g \in Handler :
       handler[g].pc \in HoldSteps /\ handler[g].sid \notin disturbed' \cup revoked' =>
         \/ handler'[g].pc \in HoldSteps /\ handler'[g].sid = handler[g].sid
         \/ session'[handler[g].sid] = NoRow
         \/ session'[handler[g].sid].gen = minted'[handler[g].sid]

LEMMA RotationFacts ==
  ASSUME TypeInv, RotationInv
  PROVE  /\ \A s \in Session : s \notin disturbed \cup revoked =>
              \/ session[s] = NoRow
              \/ session[s].gen = minted[s]
              \/ \E h \in Handler : handler[h].pc \in HoldSteps /\ handler[h].sid = s
         /\ \A h \in Handler :
              handler[h].pc \in CalledSteps /\ handler[h].sid \notin disturbed \cup revoked =>
                /\ handler[h].sid \in Session
                /\ handler[h].pc \in HoldSteps => handler[h].gen = minted[handler[h].sid]
                /\ handler[h].pc = "rejected" =>
                     ~(/\ session[handler[h].sid] # NoRow
                       /\ session[handler[h].sid].gen = handler[h].row.gen)
                /\ handler[h].pc = "destroy" => session[handler[h].sid] = NoRow
                /\ \A g \in Handler : handler[g].pc \in CalledSteps
                                      /\ handler[g].sid = handler[h].sid => g = h
         /\ lost \subseteq disturbed
<1>1. \A h \in Handler : handler[h].pc \in CalledSteps => handler[h].sid \in Session
  BY HandlerFacts DEF CalledSteps, HoldSteps, RequestSteps
<1>. QED
  BY <1>1 DEF RotationInv, LossIsExplained, Calm, Holds, Called, At, CalledSteps, HoldSteps

LEMMA RotationStaysKeep ==
  ASSUME TypeInv, TypeInv', RotationInv, RotationStays
  PROVE  RotationInv'
<1>. DEFINE calm(s) == s \notin disturbed' \cup revoked'
<1>1. \A g \in Handler : handler'[g].pc \in CalledSteps => handler'[g].sid \in Session
  BY DEF CalledSteps, HoldSteps, RequestSteps, TypeInv, RecordInv
<1>2. \A s : calm(s) => s \notin disturbed \cup revoked
  BY DEF RotationStays
<1>3. ASSUME NEW s \in Session, calm(s)
      PROVE  \/ session'[s] = NoRow
             \/ session'[s].gen = minted'[s]
             \/ \E h \in Handler : handler'[h].pc \in HoldSteps /\ handler'[h].sid = s
  <2>1. CASE Written(s)
    BY <2>1 DEF Written
  <2>2. CASE session[s] = NoRow \/ session[s].gen = minted[s]
    BY <1>3, <2>1, <2>2 DEF RotationStays
  <2>3. CASE \E h \in Handler : handler[h].pc \in HoldSteps /\ handler[h].sid = s
    BY <1>3, <2>3 DEF RotationStays
  <2>. QED
    BY <1>2, <1>3, <2>2, <2>3, RotationFacts
<1>4. ASSUME NEW h \in Handler, handler'[h].pc \in CalledSteps, calm(handler'[h].sid)
      PROVE  /\ handler'[h].pc \in HoldSteps => handler'[h].gen = minted'[handler'[h].sid]
             /\ handler'[h].pc = "rejected" =>
                  ~(/\ session'[handler'[h].sid] # NoRow
                    /\ session'[handler'[h].sid].gen = handler'[h].row.gen)
             /\ handler'[h].pc = "destroy" => session'[handler'[h].sid] = NoRow
             /\ \A g \in Handler : handler'[g].pc \in CalledSteps
                                   /\ handler'[g].sid = handler'[h].sid => g = h
  <2>. DEFINE s == handler'[h].sid
  <2>1. /\ s \in Session /\ ~Written(s) /\ s \notin disturbed \cup revoked
        /\ handler[h].pc \in CalledSteps /\ handler[h].sid = s
    BY <1>1, <1>2, <1>4 DEF Written, RotationStays
  <2>2. /\ minted'[s] = minted[s]
        /\ session'[s] = NoRow \/ (session[s] # NoRow /\ session'[s].gen = session[s].gen)
    <3>1. s \notin disturbed' \cup revoked'
      BY <1>4
    <3>. HIDE DEF s
    <3>. QED
      BY <2>1, <3>1 DEF RotationStays
  <2>3. handler'[h].pc \in HoldSteps => handler'[h].gen = minted'[s]
    BY <1>4, <2>1, <2>2, RotationFacts DEF RotationStays
  <2>4. handler'[h].pc = "rejected" =>
          ~(session'[s] # NoRow /\ session'[s].gen = handler'[h].row.gen)
    BY <1>4, <2>1, <2>2, RotationFacts DEF RotationStays
  <2>5. handler'[h].pc = "destroy" => session'[s] = NoRow
    BY <1>4, <2>1, <2>2, RotationFacts DEF RotationStays
  <2>6. ASSUME NEW g \in Handler, handler'[g].pc \in CalledSteps, handler'[g].sid = s
        PROVE  g = h
    <3>1. handler[g].pc \in CalledSteps /\ handler[g].sid = s
      BY <1>4, <2>6 DEF RotationStays
    <3>. QED
      BY <2>1, <3>1, RotationFacts
  <2>. QED
    BY <2>3, <2>4, <2>5, <2>6
<1>5. lost' \subseteq disturbed'
  BY DEF RotationStays
<1>. QED
  BY <1>3, <1>4, <1>5
     DEF RotationInv, LossIsExplained, Calm, Holds, Called, At, CalledSteps, HoldSteps

\* A step that has nothing to do with a refresh that has called Keycloak.
LEMMA QuietStays ==
  ASSUME TypeInv, RotationInv, UNCHANGED <<minted, lost>>,
         disturbed \subseteq disturbed', revoked \subseteq revoked',
         \A s \in Session : session'[s] \in {session[s], NoRow},
         \A g \in Handler : handler'[g].pc \in CalledSteps => handler'[g] = handler[g],
         \A g \in Handler : handler[g].pc \in HoldSteps =>
                              handler'[g] = handler[g] \/ handler[g].sid \in disturbed'
  PROVE  RotationStays
<1>1. lost' \subseteq disturbed'
  BY RotationFacts
<1>2. \A s \in Session :
        /\ minted'[s] = minted[s]
        /\ session'[s] = NoRow \/ (session[s] # NoRow /\ session'[s].gen = session[s].gen)
  OBVIOUS
<1>. QED
  BY <1>1, <1>2 DEF RotationStays

LEMMA MovesQuiet ==
  ASSUME TypeInv, RotationInv, NEW h \in Handler, handler[h].pc \notin HoldSteps,
         \E r : Moves(h, r) /\ r.pc \notin CalledSteps,
         UNCHANGED <<minted, lost, disturbed, revoked>>,
         \A s \in Session : session'[s] \in {session[s], NoRow}
  PROVE  RotationStays
<1>1. PICK r : Moves(h, r) /\ r.pc \notin CalledSteps
  OBVIOUS
<1>2. handler'[h] = r /\ \A g \in Handler \ {h} : handler'[g] = handler[g]
  BY <1>1, MovesKeep
<1>. QED
  BY <1>1, <1>2, QuietStays

LEMMA SameQuiet ==
  ASSUME TypeInv, RotationInv, UNCHANGED <<handler, minted, lost, disturbed, revoked>>,
         \A s \in Session : session'[s] \in {session[s], NoRow}
  PROVE  RotationStays
  BY QuietStays

LEMMA FinishQuiet ==
  ASSUME TypeInv, RotationInv, NEW h \in Handler, handler[h].pc \notin HoldSteps, Finish(h),
         UNCHANGED <<minted, lost, disturbed, revoked>>,
         \A s \in Session : session'[s] \in {session[s], NoRow}
  PROVE  RotationStays
<1>1. Moves(h, Idle) /\ Idle.pc \notin CalledSteps
  BY FinishMoves, IdleFacts DEF CalledSteps, HoldSteps
<1>. QED
  BY <1>1, MovesQuiet

LEMMA LoginQuiet ==
  ASSUME TypeInv, RotationInv
  PROVE  /\ \A b \in Browser, f \in Flow : StartLogin(b, f) => RotationStays
         /\ \A h \in Handler, b \in Browser, f \in Flow : CallbackBegin(h, b, f) => RotationStays
         /\ \A h \in Handler : ConsumeFlow(h) \/ LoginFails(h) => RotationStays
<1>1. ASSUME NEW b \in Browser, NEW f \in Flow, StartLogin(b, f) PROVE RotationStays
  BY <1>1, SameQuiet DEF StartLogin, keycloak, history
<1>2. ASSUME NEW h \in Handler, NEW b \in Browser, NEW f \in Flow, CallbackBegin(h, b, f)
      PROVE  RotationStays
  <2>1. /\ handler[h].pc = "idle" /\ UNCHANGED <<session, minted, revoked, disturbed, lost>>
    BY <1>2 DEF CallbackBegin, At, keycloak, history
  <2>2. CASE BoundTo(b, f)
    <3>1. \E r : Moves(h, r) /\ r.pc = "consume"
      BY <1>2, <2>2, CallbackMoves
    <3>. QED
      BY <2>1, <3>1, MovesQuiet DEF CalledSteps, HoldSteps
  <2>3. CASE ~BoundTo(b, f)
    BY <1>2, <2>1, <2>3, SameQuiet DEF CallbackBegin
  <2>. QED
    BY <2>2, <2>3
<1>3. ASSUME NEW h \in Handler, ConsumeFlow(h) PROVE RotationStays
  <2>1. /\ handler[h].pc = "consume" /\ UNCHANGED <<session, minted, revoked, disturbed, lost>>
    BY <1>3 DEF ConsumeFlow, At, keycloak, history
  <2>2. CASE Goto(h, "create")
    <3>1. \E r : Moves(h, r) /\ r.pc = "create"
      BY <2>1, <2>2, GotoMoves
    <3>. QED
      BY <2>1, <3>1, MovesQuiet DEF CalledSteps, HoldSteps
  <2>3. CASE Finish(h)
    BY <2>1, <2>3, FinishQuiet DEF HoldSteps
  <2>. QED
    BY <1>3, <2>2, <2>3 DEF ConsumeFlow
<1>4. ASSUME NEW h \in Handler, LoginFails(h) PROVE RotationStays
  BY <1>4, FinishQuiet DEF LoginFails, At, keycloak, HoldSteps
<1>. QED
  BY <1>1, <1>2, <1>3, <1>4

LEMMA CreateStays ==
  ASSUME TypeInv, RotationInv, NEW h \in Handler, NEW s \in Session, CreateSession(h, s)
  PROVE  RotationStays
<1>1. handler[h].pc = "create"
  BY DEF CreateSession, At
<1>2. handler'[h].pc = "idle" /\ \A g \in Handler \ {h} : handler'[g] = handler[g]
  BY FinishMoves, MovesKeep, IdleFacts DEF CreateSession
<1>3. /\ UNCHANGED <<revoked, disturbed, lost>>
      /\ minted'[s] = 1 /\ session'[s].gen = 1
      /\ \A t \in Session \ {s} : minted'[t] = minted[t] /\ session'[t] = session[t]
  BY DEF CreateSession, history, TypeInv, TypeOK
<1>4. \A g \in Handler : handler[g].pc \in CalledSteps => handler[g].sid # s
  <2>1. \A g \in Handler : handler[g].pc \in CalledSteps => opened[handler[g].sid] # NoLogin
    BY RequestFacts DEF CalledSteps, HoldSteps, RequestSteps
  <2>. QED
    BY <2>1 DEF CreateSession
<1>5. \A g \in Handler : handler'[g].pc \in CalledSteps => handler'[g] = handler[g]
  BY <1>2 DEF CalledSteps, HoldSteps
<1>6. \A g \in Handler : handler[g].pc \in HoldSteps => handler'[g] = handler[g]
  BY <1>1, <1>2 DEF HoldSteps
<1>7. Written(s)
  BY <1>3, <1>4, <1>5 DEF Written
<1>8. \A t \in Session \ {s} :
        /\ minted'[t] = minted[t]
        /\ session'[t] = NoRow \/ (session[t] # NoRow /\ session'[t].gen = session[t].gen)
  BY <1>3
<1>9. lost' \subseteq disturbed'
  BY <1>3, RotationFacts
<1>. QED
  BY <1>3, <1>5, <1>6, <1>7, <1>8, <1>9 DEF RotationStays

LEMMA RequestQuiet ==
  ASSUME TypeInv, RotationInv, NEW h \in Handler
  PROVE  /\ \A p \in Pod, b \in Browser, call \in Calls :
              RequestBegin(h, p, b, call) => RotationStays
         /\ Verify(h) \/ MeRead(h) \/ Claim(h) \/ StampRead(h) => RotationStays
<1>1. ASSUME handler[h].pc \notin HoldSteps, NEW r, Moves(h, r), r.pc \notin CalledSteps,
             UNCHANGED <<minted, lost, disturbed, revoked>>,
             \A s \in Session : session'[s] \in {session[s], NoRow}
      PROVE  RotationStays
  BY <1>1, MovesQuiet
<1>2. ASSUME NEW p \in Pod, NEW b \in Browser, NEW call \in Calls, RequestBegin(h, p, b, call)
      PROVE  RotationStays
  <2>1. handler[h].pc = "idle" /\ UNCHANGED <<session, minted, revoked, disturbed, lost>>
    BY <1>2 DEF RequestBegin, At, keycloak, history
  <2>2. CASE handler' = handler
    BY <2>1, <2>2, SameQuiet
  <2>3. ASSUME NEW r, Moves(h, r), r.pc \in {"verify", "wait", "refresh"} PROVE RotationStays
    BY <1>1, <2>1, <2>3 DEF CalledSteps, HoldSteps
  <2>. QED
    BY <1>2, <2>2, <2>3, RequestMoves
<1>3. ASSUME Verify(h) PROVE RotationStays
  <2>1. handler[h].pc = "verify" /\ UNCHANGED <<minted, revoked, disturbed, lost>>
    BY <1>3 DEF Verify, At, keycloak
  <2>2. \A s \in Session : session'[s] \in {session[s], NoRow}
    BY <1>3 DEF Verify, TypeInv, TypeOK
  <2>3. CASE Finish(h)
    BY <2>1, <2>2, <2>3, FinishQuiet DEF HoldSteps
  <2>4. CASE Goto(h, "me")
    <3>1. PICK r : Moves(h, r) /\ r.pc = "me"
      BY <2>1, <2>4, GotoMoves DEF RequestSteps
    <3>. QED
      BY <1>1, <2>1, <2>2, <3>1 DEF CalledSteps, HoldSteps
  <2>. QED
    BY <1>3, <2>3, <2>4 DEF Verify
<1>4. ASSUME MeRead(h) PROVE RotationStays
  <2>1. handler[h].pc = "me" /\ UNCHANGED <<session, minted, revoked, disturbed, lost>>
    BY <1>4 DEF MeRead, At, keycloak, history
  <2>2. PICK r : Moves(h, r) /\ r.pc \in {"idle", "claim"}
    BY <1>4, MeReadMoves, IdleFacts
  <2>. QED
    BY <1>1, <2>1, <2>2 DEF CalledSteps, HoldSteps
<1>5. ASSUME Claim(h) PROVE RotationStays
  <2>1. handler[h].pc = "claim" /\ UNCHANGED <<session, minted, revoked, disturbed, lost>>
    BY <1>5 DEF Claim, At, keycloak, history
  <2>2. PICK r : Moves(h, r) /\ r.pc = "stampread"
    BY <1>5, ClaimMoves
  <2>. QED
    BY <1>1, <2>1, <2>2 DEF CalledSteps, HoldSteps
<1>6. ASSUME StampRead(h) PROVE RotationStays
  <2>1. handler[h].pc = "stampread" /\ UNCHANGED <<session, minted, revoked, disturbed, lost>>
    BY <1>6 DEF StampRead, At, keycloak, history
  <2>2. CASE Vanished(handler[h].sid)
    BY <1>6, <2>1, <2>2, FinishQuiet DEF StampRead, Answer, HoldSteps
  <2>3. CASE ~Vanished(handler[h].sid)
    <3>1. PICK r : Moves(h, r) /\ r.pc = "stamp"
      BY <1>6, <2>3, StampReadMoves
    <3>. QED
      BY <1>1, <2>1, <3>1 DEF CalledSteps, HoldSteps
  <2>. QED
    BY <2>2, <2>3
<1>. QED
  BY <1>2, <1>3, <1>4, <1>5, <1>6

LEMMA ElsewhereQuiet ==
  ASSUME TypeInv, RotationInv
  PROVE  /\ \A b \in Browser : Logout(b) => RotationStays
         /\ \A s \in Session : GetOld(s) \/ ExpireSession(s) => RotationStays
         /\ \A p \in Pod : Crash(p) => RotationStays
<1>1. ASSUME NEW b \in Browser, Logout(b) PROVE RotationStays
  <2>1. \A s \in Session : session'[s] \in {session[s], NoRow}
    BY <1>1 DEF Logout, TypeInv, TypeOK
  <2>. QED
    BY <1>1, <2>1, SameQuiet DEF Logout, keycloak, history
<1>2. ASSUME NEW s \in Session, GetOld(s) PROVE RotationStays
  BY <1>2, SameQuiet DEF GetOld, history
<1>3. ASSUME NEW s \in Session, ExpireSession(s) PROVE RotationStays
  <2>1. \A t \in Session : session'[t] \in {session[t], NoRow}
    BY <1>3 DEF ExpireSession, TypeInv, TypeOK
  <2>. QED
    BY <1>3, <2>1, SameQuiet DEF ExpireSession, keycloak
<1>4. ASSUME NEW p \in Pod, Crash(p) PROVE RotationStays
  <2>1. \A g \in Handler : handler'[g] = IF handler[g].pod = p THEN Idle ELSE handler[g]
    BY <1>4, CrashMoves
  <2>2. \A g \in Handler : handler'[g].pc \in CalledSteps => handler'[g] = handler[g]
    BY <2>1, IdleFacts DEF CalledSteps, HoldSteps
  <2>3. \A g \in Handler : handler[g].pc \in HoldSteps =>
           handler'[g] = handler[g] \/ handler[g].sid \in disturbed'
    BY <1>4, <2>1 DEF Crash, HoldSteps
  <2>. QED
    BY <1>4, <2>2, <2>3, QuietStays DEF Crash, keycloak
<1>. QED
  BY <1>1, <1>2, <1>3, <1>4

LEMMA SettleCalled ==
  ASSUME TypeInv, NEW h \in Handler, NEW outcome, Settle(h, outcome),
         handler[h].pc \in RequestSteps
  PROVE  /\ \A g \in Handler : handler'[g].pc \in CalledSteps => g # h /\ handler'[g] = handler[g]
         /\ \A g \in Handler \ {h} : handler[g].pc \in CalledSteps => handler'[g] = handler[g]
<1>1. /\ \A g \in Handler : g \notin Followers(h) \cup {h} => handler'[g] = handler[g]
      /\ \A g \in Followers(h) \cup {h} : handler'[g].pc \in {"idle", "verify"}
  BY SettleMoves, IdleFacts
<1>2. \A g \in Followers(h) : handler[g].pc = "wait"
  BY DEF Followers, At
<1>. QED
  BY <1>1, <1>2 DEF CalledSteps, HoldSteps

LEMMA RefreshedStays ==
  ASSUME TypeInv, RotationInv, NEW h \in Handler
  PROVE  /\ RefreshRevoked(h) => RotationStays
         /\ RefreshFails(h) => RotationStays
         /\ StampWrite(h) => RotationStays
<1>. DEFINE s == handler[h].sid
<1>1. lost \subseteq disturbed
  BY RotationFacts
<1>2. ASSUME RefreshRevoked(h) PROVE RotationStays
  <2>1. /\ handler[h].pc = "refresh" /\ UNCHANGED <<session, minted, disturbed, lost>>
        /\ revoked' = revoked \cup {s} /\ Goto(h, "rejected")
    BY <1>2 DEF RefreshRevoked, At
  <2>2. PICK r : Moves(h, r) /\ r.pc = "rejected" /\ SameRequest(r, handler[h])
    BY <2>1, GotoMoves DEF RequestSteps, RowSteps
  <2>3. /\ handler'[h].pc = "rejected" /\ handler'[h].sid = s
        /\ \A g \in Handler \ {h} : handler'[g] = handler[g]
    BY <2>2, MovesKeep DEF SameRequest
  <2>4. \A g \in Handler : handler[g].pc \in HoldSteps => handler'[g] = handler[g]
    BY <2>1, <2>3 DEF HoldSteps
  <2>5. \A g \in Handler : handler'[g].sid \notin revoked' => handler'[g] = handler[g]
    BY <2>1, <2>3
  <2>. HIDE DEF s
  <2>. QED
    BY <1>1, <2>1, <2>4, <2>5 DEF RotationStays
<1>3. ASSUME RefreshFails(h) PROVE RotationStays
  <2>1. /\ handler[h].pc = "refresh" /\ Settle(h, "outage")
        /\ UNCHANGED <<session, revoked, lost>>
        /\ \/ UNCHANGED <<minted, disturbed>>
           \/ /\ minted' = [minted EXCEPT ![s] = @ + 1]
              /\ disturbed' = disturbed \cup {s}
    BY <1>3 DEF RefreshFails, At
  <2>2. \A t \in Session : t \notin disturbed' => minted'[t] = minted[t]
    BY <2>1 DEF TypeInv, TypeOK
  <2>3. /\ \A g \in Handler : handler'[g].pc \in CalledSteps => handler'[g] = handler[g]
        /\ \A g \in Handler : handler[g].pc \in HoldSteps => handler'[g] = handler[g]
    BY <2>1, SettleCalled DEF RequestSteps, CalledSteps, HoldSteps
  <2>4. disturbed \subseteq disturbed'
    BY <2>1
  <2>. QED
    BY <1>1, <2>1, <2>2, <2>3, <2>4 DEF RotationStays
<1>4. ASSUME StampWrite(h) PROVE RotationStays
  <2>1. /\ handler[h].pc = "stamp" /\ Finish(h) /\ UNCHANGED <<minted, revoked, lost>>
        /\ session' = [session EXCEPT ![s] = handler[h].row]
        /\ disturbed' = IF session[s].gen # handler[h].row.gen THEN disturbed \cup {s} ELSE disturbed
    BY <1>4 DEF StampWrite, Answer, At, keycloak
  <2>2. /\ handler[h].row \in Row /\ handler[h].row # NoRow /\ s \in Session
    BY <2>1, HandlerFacts DEF RecordInv, RowSteps, RequestSteps, HandlerState
  <2>3. handler[h].row.gen # 0 /\ NoRow.gen = 0
    BY <2>2, RowFacts
  <2>4. \A t \in Session : t \notin disturbed' =>
          session'[t] = NoRow \/ (session[t] # NoRow /\ session'[t].gen = session[t].gen)
    <3>. SUFFICES ASSUME NEW t \in Session, t \notin disturbed'
                  PROVE  session'[t] = NoRow \/ (session[t] # NoRow /\ session'[t].gen = session[t].gen)
      OBVIOUS
    <3>1. CASE t = s
      BY <2>1, <2>2, <2>3, <3>1 DEF TypeInv, TypeOK
    <3>2. CASE t # s
      BY <2>1, <3>2 DEF TypeInv, TypeOK
    <3>. QED
      BY <3>1, <3>2
  <2>5. handler'[h].pc = "idle" /\ \A g \in Handler \ {h} : handler'[g] = handler[g]
    BY <2>1, FinishMoves, MovesKeep, IdleFacts
  <2>6. /\ \A g \in Handler : handler'[g].pc \in CalledSteps => handler'[g] = handler[g]
        /\ \A g \in Handler : handler[g].pc \in HoldSteps => handler'[g] = handler[g]
    BY <2>1, <2>5 DEF CalledSteps, HoldSteps
  <2>7. disturbed \subseteq disturbed'
    BY <2>1
  <2>. QED
    BY <1>1, <2>1, <2>4, <2>6, <2>7 DEF RotationStays
<1>. QED
  BY <1>2, <1>3, <1>4

LEMMA StoreStays ==
  ASSUME TypeInv, RotationInv, NEW h \in Handler
  PROVE  /\ StoreRead(h) => RotationStays
         /\ StoreWrite(h) => RotationStays
         /\ RejectedRead(h) => RotationStays
         /\ DestroyRejected(h) => RotationStays
<1>. DEFINE s == handler[h].sid
<1>1. lost \subseteq disturbed
  BY RotationFacts
<1>2. ASSUME StoreRead(h) PROVE RotationStays
  <2>1. /\ handler[h].pc = "storeread" /\ UNCHANGED <<session, minted, revoked, disturbed, lost>>
    BY <1>2 DEF StoreRead, At, keycloak, history
  <2>2. CASE Vanished(s)
    <3>1. Settle(h, "over") /\ session[s] = NoRow
      BY <1>2, <2>2 DEF StoreRead, Vanished
    <3>2. /\ \A g \in Handler : handler'[g].pc \in CalledSteps => handler'[g] = handler[g]
          /\ \A g \in Handler \ {h} : handler[g].pc \in HoldSteps => handler'[g] = handler[g]
      BY <2>1, <3>1, SettleCalled DEF RequestSteps, CalledSteps
    <3>. QED
      BY <1>1, <2>1, <3>1, <3>2 DEF RotationStays
  <2>3. CASE ~Vanished(s)
    <3>1. PICK r : /\ Moves(h, r) /\ SameRequest(r, handler[h]) /\ r.pc = "store"
                   /\ r.gen = handler[h].gen
      BY <1>2, <2>3, StoreReadMoves
    <3>2. /\ handler'[h].pc = "store" /\ handler'[h].sid = s /\ handler'[h].gen = handler[h].gen
          /\ \A g \in Handler \ {h} : handler'[g] = handler[g]
      BY <3>1, MovesKeep DEF SameRequest
    <3>. QED
      BY <1>1, <2>1, <3>2 DEF RotationStays, CalledSteps, HoldSteps
  <2>. QED
    BY <2>2, <2>3
<1>3. ASSUME StoreWrite(h) PROVE RotationStays
  <2>. DEFINE w == [handler[h].row EXCEPT !.gen = handler[h].gen]
  <2>1. /\ handler[h].pc = "store" /\ Settle(h, "token")
        /\ UNCHANGED <<minted, revoked, disturbed, lost>>
        /\ session' = [session EXCEPT ![s] = w]
    BY <1>3 DEF StoreWrite, At, keycloak, history
  <2>2. w.gen = handler[h].gen
    <3>1. /\ handler[h].row \in Row /\ handler[h].gen \in 1 .. MaxGen /\ handler[h].row # NoRow
      BY <2>1, HandlerFacts DEF RecordInv, RowSteps, HandlerState
    <3>. QED
      BY <3>1 DEF Row
  <2>. HIDE DEF w
  <2>3. s \in Session
    BY <2>1, HandlerFacts DEF RequestSteps
  <2>4. session'[s] = w /\ \A t \in Session \ {s} : session'[t] = session[t]
    BY <2>1, <2>3 DEF TypeInv, TypeOK
  <2>5. /\ \A g \in Handler : handler'[g].pc \in CalledSteps => g # h /\ handler'[g] = handler[g]
        /\ \A g \in Handler \ {h} : handler[g].pc \in HoldSteps => handler'[g] = handler[g]
    BY <2>1, SettleCalled DEF RequestSteps, CalledSteps
  <2>6. s \notin disturbed \cup revoked => Written(s)
    <3>. SUFFICES ASSUME s \notin disturbed \cup revoked PROVE Written(s)
      OBVIOUS
    <3>1. /\ handler[h].pc \in CalledSteps /\ handler[h].pc \in HoldSteps
      BY <2>1 DEF CalledSteps, HoldSteps
    <3>2. handler[h].gen = minted[s]
      BY <3>1, RotationFacts
    <3>3. \A g \in Handler : handler[g].pc \in CalledSteps /\ handler[g].sid = s => g = h
      BY <3>1, RotationFacts
    <3>. QED
      BY <2>1, <2>2, <2>4, <2>5, <3>2, <3>3 DEF Written
  <2>7. s \notin disturbed \cup revoked => session'[s].gen = minted'[s]
    BY <2>6 DEF Written
  <2>8. \A t \in Session \ {s} : minted'[t] = minted[t]
          /\ (session'[t] = NoRow \/ (session[t] # NoRow /\ session'[t].gen = session[t].gen))
    BY <2>1, <2>4
  <2>. QED
    BY <1>1, <2>1, <2>5, <2>6, <2>7, <2>8 DEF RotationStays
<1>4. ASSUME RejectedRead(h) PROVE RotationStays
  <2>1. /\ handler[h].pc = "rejected" /\ UNCHANGED <<session, minted, revoked, disturbed, lost>>
    BY <1>4 DEF RejectedRead, At, keycloak, history
  <2>2. CASE MovedOn(h)
    <3>1. Settle(h, "token")
      BY <1>4, <2>2 DEF RejectedRead
    <3>2. /\ \A g \in Handler : handler'[g].pc \in CalledSteps => handler'[g] = handler[g]
          /\ \A g \in Handler : handler[g].pc \in HoldSteps => handler'[g] = handler[g]
      BY <2>1, <3>1, SettleCalled DEF RequestSteps, CalledSteps, HoldSteps
    <3>. QED
      BY <2>1, <3>2, QuietStays
  <2>3. CASE ~MovedOn(h)
    <3>1. Goto(h, "destroy") /\ (session[s] = NoRow \/ session[s].gen = handler[h].row.gen)
      BY <1>4, <2>3 DEF RejectedRead, MovedOn
    <3>2. PICK r : Moves(h, r) /\ r.pc = "destroy" /\ SameRequest(r, handler[h])
      BY <2>1, <3>1, GotoMoves DEF RequestSteps, RowSteps
    <3>3. /\ handler'[h].pc = "destroy" /\ handler'[h].sid = s
          /\ \A g \in Handler \ {h} : handler'[g] = handler[g]
      BY <3>2, MovesKeep DEF SameRequest
    <3>4. s \notin disturbed \cup revoked => session[s] = NoRow
      BY <2>1, <3>1, RotationFacts DEF CalledSteps
    <3>. QED
      BY <1>1, <2>1, <3>3, <3>4 DEF RotationStays, CalledSteps, HoldSteps
  <2>. QED
    BY <2>2, <2>3
<1>5. ASSUME DestroyRejected(h) PROVE RotationStays
  <2>1. /\ handler[h].pc = "destroy" /\ Settle(h, "over") /\ UNCHANGED <<minted, revoked, disturbed>>
        /\ session' = [session EXCEPT ![s] = NoRow]
        /\ lost' = IF session[s] # NoRow /\ s \notin revoked THEN lost \cup {s} ELSE lost
    BY <1>5 DEF DestroyRejected, At, keycloak
  <2>2. s \notin disturbed \cup revoked => session[s] = NoRow
    BY <2>1, RotationFacts DEF CalledSteps
  <2>3. lost' \subseteq disturbed'
    BY <1>1, <2>1, <2>2
  <2>4. \A t \in Session : session'[t] \in {session[t], NoRow}
    BY <2>1 DEF TypeInv, TypeOK
  <2>5. /\ \A g \in Handler : handler'[g].pc \in CalledSteps => handler'[g] = handler[g]
        /\ \A g \in Handler : handler[g].pc \in HoldSteps => handler'[g] = handler[g]
    BY <2>1, SettleCalled DEF RequestSteps, CalledSteps, HoldSteps
  <2>. QED
    BY <2>1, <2>3, <2>4, <2>5 DEF RotationStays
<1>. QED
  BY <1>2, <1>3, <1>4, <1>5

\* A refresh token that Keycloak is shown: the one step that rotates.  A request
\* of the same process cannot be ahead of it, one of another marks the session.
LEMMA CallKeepsRotation ==
  ASSUME TypeInv, TypeInv', LeaderInv, RotationInv, NEW h \in Handler, RefreshCall(h)
  PROVE  RotationInv'
<1>. DEFINE s == handler[h].sid
<1>1. /\ handler[h].pc = "refresh" /\ s \in Session /\ handler[h].pod \in Pod
      /\ UNCHANGED <<session, revoked, lost>>
      /\ disturbed' = IF OtherPodRefreshes(h) THEN disturbed \cup {s} ELSE disturbed
  BY HandlerFacts DEF RefreshCall, At, RequestSteps
<1>2. PICK r : /\ Moves(h, r) /\ SameRequest(r, handler[h])
               /\ \/ /\ Honoured(s, handler[h].row.gen)
                     /\ r.pc = "storeread" /\ r.gen = minted[s] + 1
                     /\ minted' = [minted EXCEPT ![s] = @ + 1]
                  \/ /\ ~Honoured(s, handler[h].row.gen)
                     /\ r.pc = "rejected" /\ r.row = handler[h].row /\ minted' = minted
  BY RefreshCallMoves
<1>3. /\ handler'[h] = r /\ r.sid = s
      /\ \A g \in Handler \ {h} : handler'[g] = handler[g]
  BY <1>2, MovesKeep DEF SameRequest
<1>4. /\ disturbed \subseteq disturbed' /\ lost' \subseteq disturbed'
      /\ \A t \in Session \ {s} : minted'[t] = minted[t]
  BY <1>1, <1>2, RotationFacts DEF TypeInv, TypeOK
<1>5. ASSUME s \notin disturbed'
      PROVE  \A g \in Handler \ {h} : handler[g].pc \in CalledSteps => handler[g].sid # s
  <2>. SUFFICES ASSUME NEW g \in Handler \ {h}, handler[g].pc \in CalledSteps, handler[g].sid = s
                PROVE  FALSE
    OBVIOUS
  <2>1. handler[g].pc \in Refreshing
    BY DEF CalledSteps, HoldSteps, Refreshing
  <2>2. handler[g].pod = handler[h].pod
    BY <1>1, <1>5, <2>1 DEF OtherPodRefreshes
  <2>3. Leads(g, handler[h].pod, s) /\ Leads(h, handler[h].pod, s)
    BY <1>1, <2>1, <2>2 DEF Leads, Refreshing
  <2>. QED
    BY <1>1, <2>3 DEF LeaderInv
<1>6. \A g \in Handler : handler'[g].pc \in CalledSteps => handler'[g].sid \in Session
  BY DEF CalledSteps, HoldSteps, RequestSteps, TypeInv, RecordInv
<1>. HIDE DEF s
<1>7. ASSUME NEW t \in Session, t \notin disturbed' \cup revoked'
      PROVE  \/ session'[t] = NoRow
             \/ session'[t].gen = minted'[t]
             \/ \E k \in Handler : handler'[k].pc \in HoldSteps /\ handler'[k].sid = t
  <2>1. CASE t # s
    <3>1. \A k \in Handler : handler[k].pc \in HoldSteps => handler'[k] = handler[k]
      BY <1>1, <1>3 DEF HoldSteps
    <3>2. \/ session[t] = NoRow \/ session[t].gen = minted[t]
          \/ \E k \in Handler : handler[k].pc \in HoldSteps /\ handler[k].sid = t
      BY <1>1, <1>4, <1>7, RotationFacts
    <3>. QED
      BY <1>1, <1>4, <2>1, <3>1, <3>2
  <2>2. CASE t = s /\ Honoured(s, handler[h].row.gen)
    BY <1>2, <1>3, <2>2 DEF HoldSteps
  <2>3. CASE t = s /\ ~Honoured(s, handler[h].row.gen)
    <3>1. \A k \in Handler : handler[k].pc \in HoldSteps => handler[k].sid # s
      BY <1>1, <1>5, <1>7, <2>3 DEF CalledSteps, HoldSteps
    <3>2. session[s] = NoRow \/ session[s].gen = minted[s]
      BY <1>1, <1>4, <1>7, <2>3, <3>1, RotationFacts
    <3>. QED
      BY <1>1, <1>2, <2>3, <3>2
  <2>. QED
    BY <2>1, <2>2, <2>3
<1>8. ASSUME NEW k \in Handler, handler'[k].pc \in CalledSteps,
             handler'[k].sid \notin disturbed' \cup revoked'
      PROVE  /\ handler'[k].pc \in HoldSteps => handler'[k].gen = minted'[handler'[k].sid]
             /\ handler'[k].pc = "rejected" =>
                  ~(/\ session'[handler'[k].sid] # NoRow
                    /\ session'[handler'[k].sid].gen = handler'[k].row.gen)
             /\ handler'[k].pc = "destroy" => session'[handler'[k].sid] = NoRow
             /\ \A g \in Handler : handler'[g].pc \in CalledSteps
                                   /\ handler'[g].sid = handler'[k].sid => g = k
  <2>1. CASE k # h
    <3>1. /\ handler'[k] = handler[k] /\ handler[k].sid \in Session
          /\ handler[k].sid \notin disturbed \cup revoked
      BY <1>1, <1>3, <1>4, <1>6, <1>8, <2>1
    <3>2. handler[k].sid # s
      BY <1>5, <1>8, <2>1, <3>1
    <3>3. ASSUME NEW g \in Handler, handler'[g].pc \in CalledSteps, handler'[g].sid = handler[k].sid
          PROVE  g = k
      BY <1>3, <1>8, <3>1, <3>2, <3>3, RotationFacts
    <3>. QED
      BY <1>1, <1>4, <1>8, <3>1, <3>2, <3>3, RotationFacts
  <2>2. CASE k = h
    <3>1. handler'[k] = r /\ r.sid = s /\ s \notin disturbed' \cup revoked'
      BY <1>3, <1>8, <2>2
    <3>2. \A g \in Handler : handler'[g].pc \in CalledSteps /\ handler'[g].sid = s => g = h
      BY <1>3, <1>5, <3>1
    <3>3. CASE Honoured(s, handler[h].row.gen)
      <4>1. r.pc = "storeread" /\ r.gen = minted'[s]
        BY <1>1, <1>2, <3>3 DEF TypeInv, TypeOK
      <4>. QED
        BY <2>2, <3>1, <3>2, <4>1 DEF HoldSteps
    <3>4. CASE ~Honoured(s, handler[h].row.gen)
      <4>1. r.pc = "rejected" /\ r.row = handler[h].row /\ minted' = minted
        BY <1>2, <3>4
      <4>2. handler[h].row.gen # minted[s]
        BY <1>1, <3>1, <3>4 DEF Honoured
      <4>3. \A g \in Handler : handler[g].pc \in HoldSteps => handler[g].sid # s
        BY <1>1, <1>5, <3>1 DEF CalledSteps, HoldSteps
      <4>4. session[s] = NoRow \/ session[s].gen = minted[s]
        BY <1>1, <1>4, <3>1, <4>3, RotationFacts
      <4>. QED
        BY <1>1, <2>2, <3>1, <3>2, <4>1, <4>2, <4>4 DEF HoldSteps
    <3>. QED
      BY <3>3, <3>4
  <2>. QED
    BY <2>1, <2>2
<1>. QED
  BY <1>4, <1>7, <1>8
     DEF RotationInv, LossIsExplained, Calm, Holds, Called, At, CalledSteps, HoldSteps

LEMMA RotationInit == TypeInv /\ Init => RotationInv
<1>. SUFFICES ASSUME Init PROVE RotationInv
  OBVIOUS
<1>1. /\ \A h \in Handler : handler[h].pc = "idle"
      /\ \A s \in Session : session[s] = NoRow
      /\ lost = {}
  BY IdleFacts DEF Init
<1>. QED
  BY <1>1 DEF RotationInv, LossIsExplained, Holds, Called, At

LEMMA RotationStep ==
  TypeInv /\ LeaderInv /\ RotationInv /\ [Next]_vars => RotationInv'
<1>. SUFFICES ASSUME TypeInv, LeaderInv, RotationInv, [Next]_vars PROVE RotationInv'
  OBVIOUS
<1>1. TypeInv'
  BY TypeStep
<1>2. ASSUME NEW h \in Handler, Call(h) PROVE RotationInv'
  BY <1>1, <1>2, LoginQuiet, RequestQuiet, RotationStaysKeep DEF Call
<1>3. ASSUME NEW h \in Handler, Serve(h) PROVE RotationInv'
  BY <1>1, <1>3, LoginQuiet, CreateStays, RequestQuiet, RefreshedStays, StoreStays,
     CallKeepsRotation, RotationStaysKeep DEF Serve
<1>4. ASSUME Elsewhere PROVE RotationInv'
  BY <1>1, <1>4, LoginQuiet, ElsewhereQuiet, RotationStaysKeep DEF Elsewhere
<1>5. CASE UNCHANGED vars
  BY <1>1, <1>5, SameQuiet, RotationStaysKeep DEF vars
<1>. QED
  BY <1>2, <1>3, <1>4, <1>5 DEF Next

-----------------------------------------------------------------------------
(* The theorems *)

\* Everything the invariants need of one another.
SessionInv == TypeInv /\ FlowInv /\ FirstInv /\ LeaderInv /\ RotationInv

LEMMA SessionInvariant == Spec => []SessionInv
<1>1. Init => SessionInv
  BY TypeInit, FlowInit, FirstInit, LeaderInit, RotationInit DEF SessionInv
<1>2. SessionInv /\ [Next]_vars => SessionInv'
  BY TypeStep, FlowStep, FirstStep, LeaderStep, RotationStep DEF SessionInv
<1>. QED
  BY <1>1, <1>2, PTL DEF Spec

\* Rows, cookies and handlers always have the shapes the code gives them.
THEOREM SessionsTypes == Spec => []TypeOK
<1>1. SessionInv => TypeOK
  BY DEF SessionInv, TypeInv
<1>. QED
  BY <1>1, SessionInvariant, PTL

\* A callback presented twice, or in another browser, never opens a second
\* session for a login, nor one in a browser that did not start it: the cookie
\* oidc_flow and the GETDEL of the flow suffice, whatever happens in between.
THEOREM OneSessionTheorem == Spec => []OneSessionPerLogin
<1>1. SessionInv => OneSessionPerLogin
  BY DEF SessionInv, FlowInv
<1>. QED
  BY <1>1, SessionInvariant, PTL

\* GET /auth/me tells at most one session that it is the first, however many
\* sessions and requests ask at once: the conditional UPDATE decides alone.
THEOREM FirstLoginTheorem == Spec => []FirstLoginOnce
<1>1. SessionInv => FirstLoginOnce
  BY DEF SessionInv, TypeInv, TypeOK, FirstInv, ToldFirst, FirstLoginOnce
<1>. QED
  BY <1>1, SessionInvariant, PTL

\* The map of a process names exactly the sessions it is refreshing: a request
\* that waits has one to wait for, with whatever failures and crashes.
THEOREM LeadersTheorem == Spec => []WaitersHaveLeader
<1>1. SessionInv => WaitersHaveLeader
  BY DEF SessionInv, LeaderInv
<1>. QED
  BY <1>1, SessionInvariant, PTL

\* A session with a living grant is ended as rejected only after one of the
\* known races: two processes, a stamp over newer tokens, or tokens lost.
THEOREM LossTheorem == Spec => []LossIsExplained
<1>1. SessionInv => LossIsExplained
  BY DEF SessionInv, RotationInv
<1>. QED
  BY <1>1, SessionInvariant, PTL
=============================================================================
