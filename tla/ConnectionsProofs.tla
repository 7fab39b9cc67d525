------------------------- MODULE ConnectionsProofs -------------------------
(***************************************************************************)
(* Proofs about Connections, for any number of items, users, instances,    *)
(* handlers and actions.                                                   *)
(***************************************************************************)
EXTENDS Connections, FiniteSetTheorems, TLAPS

-----------------------------------------------------------------------------
(* Types.  TypeOK is not inductive: an event is built from what its handler
   remembers, so the handlers' fields are typed by how far they have come. *)

PerformSteps == {"p_target", "p_source", "p_lock", "p_insert", "p_publish", "p_guardian"}
UpdateSteps == {"target", "source", "update"}
ContactSteps == {"c_other", "c_caller", "c_reveal"}

RowInv == \A a \in ActionId : Exists(a) => Source(a) \in Item /\ Target(a) \in Item

HandlerInv == \A h \in Handler :
  /\ handler[h].pc \in PerformSteps => handler[h].source \in Item /\ handler[h].target \in Item
  /\ handler[h].pc \in UpdateSteps \cup ContactSteps \cup {"publish", "p_publish", "p_guardian"}
       => /\ handler[h].action \in ActionId
          /\ handler[h].status \in Status
          /\ Exists(handler[h].action)
  /\ handler[h].pc \in ContactSteps => handler[h].target \in Item
  /\ handler[h].seen \subseteq {a \in ActionId : Exists(a)}

TypeInv == TypeOK /\ RowInv /\ HandlerInv

LEMMA RetireStatusType == RetireStatus \in Status
  BY StatusAssumption DEF RetireStatus

LEMMA TypeInit == Init => TypeInv
  BY ItemAssumption, StatusAssumption
  DEF Init, TypeInv, TypeOK, RowInv, HandlerInv, LifecycleStatus, ActionRow, NoRow, Consent,
      Event, Transition, HandlerState, Idle, ProgramCounter, Exists, PerformSteps, UpdateSteps,
      ContactSteps

\* A step that only moves its handler to another place, or to Idle.
LEMMA TypeReadOnly ==
  ASSUME TypeInv, ReadOnly, NEW h \in Handler,
         \/ Finish(h)
         \/ \E pc \in ProgramCounter :
              /\ Goto(h, pc)
              /\ <<handler[h].pc, pc>> \in
                   {<<"p_target", "p_source">>, <<"p_source", "p_lock">>, <<"p_lock", "p_insert">>,
                    <<"target", "source">>, <<"source", "update">>,
                    <<"c_other", "c_caller">>, <<"c_caller", "c_reveal">>}
  PROVE  TypeInv'
  BY StatusAssumption, ItemAssumption
  DEF TypeInv, TypeOK, RowInv, HandlerInv, ReadOnly, Finish, Goto, Exists, Source, Target,
      Idle, HandlerState, ProgramCounter, PerformSteps, UpdateSteps, ContactSteps


LEMMA TypeStep ==
  ASSUME TypeInv, [Next]_vars
  PROVE  TypeInv'
<1>. USE DEF PerformSteps, UpdateSteps, ContactSteps
<1>1. CASE UNCHANGED vars
  BY <1>1 DEF vars, TypeInv, TypeOK, RowInv, HandlerInv, Exists, Source, Target
<1>2. ASSUME NEW h \in Handler, Call(h) PROVE TypeInv'
  <2>1. ASSUME NEW i \in Item, NEW j \in Item, PerformProxy(h, i, j) PROVE TypeInv'
    BY <2>1, ItemAssumption, StatusAssumption
    DEF PerformProxy, ReadOnly, At, Idle, TypeInv, TypeOK, RowInv, HandlerInv, HandlerState,
        ProgramCounter, Exists, Source, Target
  <2>2. ASSUME NEW a \in ActionId, NEW s \in Requestable, UpdateRead(h, a, s) PROVE TypeInv'
    <3>1. /\ ReadOnly /\ Exists(a) /\ s \in Status /\ actions[a].count \in Nat
          /\ \E pc \in {"update", "target"} :
               handler' = [handler EXCEPT ![h] =
                 [Idle EXCEPT !.pc = pc, !.action = a, !.status = s, !.count = actions[a].count]]
      BY <2>2, StatusAssumption DEF UpdateRead, TypeInv, TypeOK, ActionRow
    <3>2. TypeOK'
      <4>1. PICK pc \in {"update", "target"} :
              handler' = [handler EXCEPT ![h] =
                [pc |-> pc, action |-> a, status |-> s, count |-> actions[a].count,
                 source |-> NoItem, target |-> NoItem, seen |-> {}]]
        BY <3>1 DEF Idle
      <4>2. handler' \in [Handler -> HandlerState]
        BY <3>1, <4>1 DEF TypeInv, TypeOK, HandlerState, ProgramCounter
      <4>. QED
        BY <3>1, <4>2 DEF ReadOnly, TypeInv, TypeOK
    <3>3. HandlerInv'
      BY <3>1 DEF ReadOnly, Idle, TypeInv, TypeOK, HandlerInv, HandlerState, Exists
    <3>. QED
      BY <3>1, <3>2, <3>3 DEF ReadOnly, TypeInv, RowInv, Exists, Source, Target
  <2>3. ASSUME NEW a \in ActionId, NEW i \in Item, NEW j \in Item, ContactRead(h, a, i, j)
        PROVE  TypeInv'
    <3>1. PICK r : /\ r = [Idle EXCEPT !.pc = "c_other", !.action = a,
                                        !.status = actions[a].status, !.source = i, !.target = j]
                   /\ handler' = [handler EXCEPT ![h] = r]
      BY <2>3, Zenon DEF ContactRead
    <3>2. ReadOnly /\ Exists(a) /\ actions[a].status \in Status
      BY <2>3 DEF ContactRead, Exists, TypeInv, TypeOK, ActionRow
    <3>3. /\ r \in HandlerState
          /\ r.pc = "c_other" /\ r.action = a /\ r.status \in Status /\ r.target = j /\ r.seen = {}
      BY <3>1, <3>2 DEF Idle, HandlerState, ProgramCounter
    <3>4. TypeOK'
      <4>1. handler' \in [Handler -> HandlerState]
        BY <3>1, <3>3 DEF TypeInv, TypeOK
      <4>. QED
        BY <3>2, <4>1 DEF ReadOnly, TypeInv, TypeOK
    <3>5. HandlerInv'
      BY <3>1, <3>2, <3>3 DEF ReadOnly, TypeInv, TypeOK, HandlerInv, Exists
    <3>. QED
      BY <3>2, <3>4, <3>5 DEF ReadOnly, TypeInv, RowInv, Exists, Source, Target
  <2>4. ASSUME NEW i \in Item, NEW pc \in {"l_pause", "l_unpause", "l_select"},
               LifecycleRead(h, i, pc)
        PROVE  TypeInv'
    BY <2>4, ItemAssumption, StatusAssumption
    DEF LifecycleRead, ReadOnly, At, Idle, TypeInv, TypeOK, RowInv, HandlerInv, HandlerState,
        ProgramCounter, Exists, Source, Target
  <2>. QED
    BY <1>2, <2>1, <2>2, <2>3, <2>4 DEF Call
<1>3. ASSUME NEW h \in Handler, Serve(h) PROVE TypeInv'
  <2>1. CASE \/ PerformReadTarget(h) \/ PerformReadSource(h) \/ AssertPairCapAvailable(h)
             \/ UpdateReadTarget(h) \/ UpdateReadSource(h)
             \/ ContactReadOther(h) \/ ContactReadCaller(h) \/ UpdateConflict(h)
    BY <2>1, TypeReadOnly
    DEF PerformReadTarget, PerformReadSource, AssertPairCapAvailable, UpdateReadTarget,
        UpdateReadSource, ContactReadOther, ContactReadCaller, UpdateConflict, At, ProgramCounter
  <2>2. ASSUME NEW a \in ActionId, PerformInsert(h, a) PROVE TypeInv'
    <3>1. /\ handler[h].source \in Item /\ handler[h].target \in Item
          /\ "created" \in Status /\ "created" # "none"
      BY <2>2, StatusAssumption DEF PerformInsert, At, TypeInv, HandlerInv
    <3>2. InitiateConsent(h, a) \subseteq Consent
      BY <3>1, ItemAssumption DEF InitiateConsent, Consent
    <3>3. TypeOK'
      <4>1. /\ actions' \in [ActionId -> ActionRow]
            /\ consents' \subseteq Consent /\ log' \subseteq Transition
        BY <2>2, <3>1, <3>2 DEF PerformInsert, TypeInv, TypeOK, ActionRow, Transition
      <4>2. handler' \in [Handler -> HandlerState]
        <5>1. [handler[h] EXCEPT !.pc = "p_publish", !.action = a, !.status = "created"]
                \in HandlerState
          BY <3>1 DEF TypeInv, TypeOK, HandlerState, ProgramCounter
        <5>. QED
          BY <2>2, <5>1 DEF PerformInsert, TypeInv, TypeOK
      <4>. QED
        BY <2>2, <4>1, <4>2 DEF PerformInsert, TypeInv, TypeOK
    <3>4. RowInv'
      BY <2>2, <3>1 DEF PerformInsert, TypeInv, TypeOK, RowInv, Exists, Source, Target
    <3>5. HandlerInv'
      BY <2>2, <3>1 DEF PerformInsert, At, TypeInv, TypeOK, HandlerInv, HandlerState, Exists
    <3>. QED
      BY <3>3, <3>4, <3>5 DEF TypeInv
  <2>3. InsertActionEvent(h) /\ handler[h].pc \in {"publish", "p_publish"}
          => events' \subseteq Event /\ mirrors' \subseteq Event
    BY
    DEF InsertActionEvent, Record, EventOf, Event, TypeInv, TypeOK, HandlerInv, HandlerState
  <2>4. CASE PerformPublish(h) \/ UpdatePublish(h)
    <3>1. /\ UNCHANGED <<lifecycle, actions, consents, stored, log, disclosed>>
          /\ InsertActionEvent(h) /\ handler[h].pc \in {"publish", "p_publish"}
          /\ \/ Finish(h)
             \/ handler[h].pc = "p_publish" /\ Goto(h, "p_guardian")
      BY <2>4, Zenon DEF PerformPublish, UpdatePublish, At
    <3>2. TypeOK'
      BY <2>3, <3>1 DEF Goto, Finish, Idle, TypeInv, TypeOK, HandlerState, ProgramCounter
    <3>3. RowInv'
      BY <3>1 DEF TypeInv, RowInv, Exists, Source, Target
    <3>4. HandlerInv'
      BY <3>1 DEF Goto, Finish, Idle, TypeInv, TypeOK, HandlerInv, HandlerState, Exists
    <3>. QED
      BY <3>2, <3>3, <3>4 DEF TypeInv
  <2>5. CASE PerformGuardianRow(h)
    BY <2>5, ItemAssumption, StatusAssumption
    DEF PerformGuardianRow, At, Finish, Idle, TypeInv, TypeOK, RowInv, HandlerInv,
        HandlerState, Consent, ProgramCounter, Exists, Source, Target
  <2>6. CASE UpdateCommit(h)
    <3>. DEFINE a == handler[h].action
    <3>1. /\ a \in ActionId /\ handler[h].status \in Status /\ handler[h].count \in Nat
          /\ Exists(a) /\ Target(a) \in Item
      BY <2>6 DEF UpdateCommit, At, TypeInv, TypeOK, RowInv, HandlerInv, HandlerState
    <3>2. AcceptConsent(h) \subseteq Consent
      BY <3>1, ItemAssumption DEF AcceptConsent, TargetOwner, Consent
    <3>3. TypeOK'
      <4>1. PICK m \in Nat : m = handler[h].count + 1
        BY <3>1
      <4>2. /\ [actions[a] EXCEPT !.status = handler[h].status, !.count = m] \in ActionRow
            /\ [handler[h] EXCEPT !.pc = "publish", !.count = m] \in HandlerState
            /\ \A side \in {"source", "target"} :
                 [action |-> a, count |-> m, status |-> handler[h].status, by |-> side]
                   \in Transition
        <5>1. actions[a] \in ActionRow /\ handler[h] \in HandlerState
          BY <3>1 DEF TypeInv, TypeOK
        <5>2. [actions[a] EXCEPT !.status = handler[h].status, !.count = m] \in ActionRow
          BY <3>1, <5>1 DEF ActionRow
        <5>3. [handler[h] EXCEPT !.pc = "publish", !.count = m] \in HandlerState
          BY <5>1 DEF HandlerState, ProgramCounter
        <5>. QED
          BY <3>1, <5>2, <5>3 DEF Transition
      <4>3. /\ actions' = [actions EXCEPT ![a] =
                            [@ EXCEPT !.status = handler[h].status, !.count = m]]
            /\ handler' = [handler EXCEPT ![h] = [@ EXCEPT !.pc = "publish", !.count = m]]
            /\ \E side \in {"source", "target"} : log' = log \cup
                 {[action |-> a, count |-> m, status |-> handler[h].status, by |-> side]}
            /\ consents' = consents \cup AcceptConsent(h)
            /\ UNCHANGED <<lifecycle, events, mirrors, stored, disclosed>>
        BY <2>6, <4>1 DEF UpdateCommit
      <4>. QED
        BY <3>2, <4>2, <4>3 DEF TypeInv, TypeOK
    <3>4. \A b \in ActionId :
            /\ Exists(b) => Exists(b)'
            /\ Source(b)' = Source(b) /\ Target(b)' = Target(b)
            /\ Exists(b)' => Exists(b)
      BY <2>6, <3>1, StatusAssumption
      DEF UpdateCommit, TypeInv, TypeOK, ActionRow, Exists, Source, Target
    <3>5. HandlerInv'
      BY <2>6, <3>1, <3>4 DEF UpdateCommit, At, TypeInv, TypeOK, HandlerInv, HandlerState
    <3>. QED
      BY <3>3, <3>4, <3>5 DEF TypeInv, RowInv
  <2>7. CASE ContactReveal(h)
    BY <2>7, ItemAssumption, StatusAssumption
    DEF ContactReveal, At, Finish, Idle, TypeInv, TypeOK, RowInv, HandlerInv, HandlerState,
        ProgramCounter, Exists, Source, Target
  <2>8. CASE PauseCommit(h) \/ UnpauseCommit(h)
    BY <2>8, ItemAssumption, StatusAssumption
    DEF PauseCommit, UnpauseCommit, SetLifecycle, At, Finish, Idle, TypeInv, TypeOK, RowInv,
        HandlerInv, HandlerState, ProgramCounter, LifecycleStatus, Exists, Source, Target
  <2>9. CASE RetireSelect(h)
    <3>1. /\ ReadOnly
          /\ \E S \in SUBSET {a \in ActionId : Exists(a)} :
               handler' = [handler EXCEPT ![h] = [@ EXCEPT !.pc = "l_retire", !.seen = S]]
      BY <2>9 DEF RetireSelect, OpenConnections, Touches
    <3>2. TypeOK'
      <4>1. PICK S \in SUBSET ActionId :
              handler' = [handler EXCEPT ![h] = [@ EXCEPT !.pc = "l_retire", !.seen = S]]
        BY <3>1
      <4>2. [handler[h] EXCEPT !.pc = "l_retire", !.seen = S] \in HandlerState
        BY DEF TypeInv, TypeOK, HandlerState, ProgramCounter
      <4>3. handler' \in [Handler -> HandlerState]
        BY <4>1, <4>2 DEF TypeInv, TypeOK
      <4>. QED
        BY <3>1, <4>3 DEF ReadOnly, TypeInv, TypeOK
    <3>3. HandlerInv'
      BY <3>1 DEF ReadOnly, TypeInv, TypeOK, HandlerInv, HandlerState, Exists, PerformSteps,
                  UpdateSteps, ContactSteps
    <3>. QED
      BY <3>1, <3>2, <3>3 DEF ReadOnly, TypeInv, RowInv, Exists, Source, Target
  <2>10. CASE RetireCommit(h)
    <3>1. TypeOK'
      <4>1. actions' \in [ActionId -> ActionRow]
        BY <2>10, RetireStatusType DEF RetireCommit, TypeInv, TypeOK, ActionRow
      <4>2. lifecycle' \in [Item -> LifecycleStatus]
        BY <2>10 DEF RetireCommit, SetLifecycle, TypeInv, TypeOK, LifecycleStatus
      <4>3. handler' \in [Handler -> HandlerState]
        BY <2>10 DEF RetireCommit, Finish, Idle, TypeInv, TypeOK, HandlerState, ProgramCounter
      <4>. QED
        BY <2>10, <4>1, <4>2, <4>3 DEF RetireCommit, TypeInv, TypeOK
    <3>2. \A a \in ActionId :
            /\ Exists(a)' <=> Exists(a)
            /\ Source(a)' = Source(a) /\ Target(a)' = Target(a)
      BY <2>10, RetireStatusType, StatusAssumption
      DEF RetireCommit, TypeInv, TypeOK, HandlerInv, ActionRow, Exists, Source, Target
    <3>3. HandlerInv'
      BY <2>10, <3>2 DEF RetireCommit, Finish, Idle, TypeInv, TypeOK, HandlerInv, HandlerState
    <3>. QED
      BY <3>1, <3>2, <3>3 DEF TypeInv, RowInv
  <2>. QED
    BY <1>3, <2>1, <2>2, <2>4, <2>5, <2>6, <2>7, <2>8, <2>9, <2>10 DEF Serve
<1>4. ASSUME NEW h \in Handler, Abandon(h) PROVE TypeInv'
  BY <1>4, TypeReadOnly DEF Abandon
<1>5. ASSUME NEW e \in mirrors, StoreEvent(e) \/ LoseMirror(e) PROVE TypeInv'
  BY <1>5 DEF StoreEvent, LoseMirror, Record, TypeInv, TypeOK, RowInv, HandlerInv, Exists,
              Source, Target
<1>6. ASSUME NEW i \in Item, DeleteItem(i) PROVE TypeInv'
  BY <1>6 DEF DeleteItem, TypeInv, TypeOK, RowInv, HandlerInv, LifecycleStatus, Exists, Source,
              Target
<1>. QED
  BY <1>1, <1>2, <1>3, <1>4, <1>5, <1>6 DEF Next

LEMMA TypeInvariant == Spec => []TypeInv
  BY TypeInit, TypeStep, PTL DEF Spec

\* The rows, the events and the handlers keep their types in every instance,
\* whatever the requests and however they interleave.
THEOREM TypeCorrect == Spec => []TypeOK
  BY TypeInvariant, PTL DEF TypeInv

-----------------------------------------------------------------------------
(* The compare-and-swap.  The log never runs ahead of the rows, a handler
   never remembers a count its row has not had, and after a withdrawal every
   handler still at work on the row remembers the count before it. *)

Withdrawal(e) == e.by = "source" /\ e.count > 0

LogInv == \A e \in log :
  /\ Exists(e.action)
  /\ e.count <= actions[e.action].count
  /\ Withdrawal(e) => /\ actions[e.action].count = e.count
                      /\ actions[e.action].status \in CancelBucket

MemoryInv == \A h \in Handler : handler[h].pc \in UpdateSteps =>
  /\ handler[h].count <= actions[handler[h].action].count
  /\ IsCancellation(handler[h].status) => handler[h].count = 0
  /\ \A e \in log : Withdrawal(e) /\ e.action = handler[h].action => handler[h].count < e.count

\* A withdrawal is the first move.
FirstInv == \A e, f \in log :
  Withdrawal(e) /\ f.action = e.action /\ f.count > 0 => f.by = "source"

CasInv == LogInv /\ MemoryInv /\ FirstInv /\ TransitionPerCount

\* A step that leaves rows and log alone, and under which every handler in an
\* update remembers what it did before.
Frame ==
  /\ UNCHANGED <<actions, log>>
  /\ \A g \in Handler : handler'[g].pc \in UpdateSteps =>
       /\ handler[g].pc \in UpdateSteps
       /\ handler'[g].action = handler[g].action
       /\ handler'[g].status = handler[g].status
       /\ handler'[g].count = handler[g].count

LEMMA CasFrame ==
  ASSUME CasInv, Frame
  PROVE  CasInv'
  BY DEF CasInv, LogInv, MemoryInv, FirstInv, TransitionPerCount, Frame, Withdrawal, Exists,
         IsCancellation

LEMMA CasInit == Init => CasInv
  BY DEF Init, CasInv, LogInv, MemoryInv, FirstInv, TransitionPerCount, Idle, UpdateSteps

LEMMA FrameGoto ==
  ASSUME TypeOK, NEW h \in Handler, UNCHANGED <<actions, log>>,
         \/ Finish(h)
         \/ \E pc \in ProgramCounter :
              /\ Goto(h, pc)
              /\ pc \in UpdateSteps => handler[h].pc \in UpdateSteps
  PROVE  Frame
  BY DEF TypeOK, Finish, Goto, Idle, HandlerState, Frame, UpdateSteps

LEMMA CasInsert ==
  ASSUME TypeInv, CasInv, NEW h \in Handler, NEW a \in ActionId, PerformInsert(h, a)
  PROVE  CasInv'
<1>1. /\ \A e \in log : e.action # a
      /\ \A b \in ActionId \ {a} : actions'[b] = actions[b]
      /\ actions'[a].status = "created" /\ actions'[a].count = 0
      /\ log' = log \cup {[action |-> a, count |-> 0, status |-> "created", by |-> "source"]}
  BY DEF PerformInsert, TypeInv, TypeOK, CasInv, LogInv, Exists
<1>2. \A e \in log : e.action \in ActionId /\ e.count \in Nat
  BY DEF TypeInv, TypeOK, Transition
<1>3. LogInv' /\ FirstInv' /\ TransitionPerCount'
  BY <1>1, <1>2 DEF CasInv, LogInv, FirstInv, TransitionPerCount, Withdrawal, Exists
<1>4. \A g \in Handler : handler'[g].pc \in UpdateSteps => g # h /\ handler'[g] = handler[g]
  BY DEF PerformInsert, TypeInv, TypeOK, HandlerState, UpdateSteps
<1>5. \A g \in Handler : handler[g].pc \in UpdateSteps =>
        handler[g].action \in ActionId \ {a} /\ handler[g].count \in Nat
  BY DEF PerformInsert, TypeInv, TypeOK, HandlerInv, HandlerState
<1>6. MemoryInv'
  BY <1>1, <1>2, <1>4, <1>5 DEF CasInv, MemoryInv, Withdrawal, IsCancellation
<1>. QED
  BY <1>3, <1>6 DEF CasInv

LEMMA CasRead ==
  ASSUME TypeInv, CasInv, NEW h \in Handler, NEW a \in ActionId, NEW s \in Requestable,
         UpdateRead(h, a, s)
  PROVE  CasInv'
<1>1. /\ UNCHANGED <<actions, log>>
      /\ actions[a].status \notin CancelBucket
      /\ IsCancellation(s) => actions[a].count = 0
      /\ actions[a].count \in Nat
      /\ handler'[h].action = a /\ handler'[h].status = s
      /\ handler'[h].count = actions[a].count
      /\ \A g \in Handler \ {h} : handler'[g] = handler[g]
  BY DEF UpdateRead, MayUpdate, ReadOnly, Idle, TypeInv, TypeOK, ActionRow
<1>2. \A e \in log : Withdrawal(e) => e.action # a
  BY <1>1 DEF CasInv, LogInv
<1>3. MemoryInv'
  BY <1>1, <1>2 DEF CasInv, MemoryInv, IsCancellation
<1>4. LogInv' /\ FirstInv' /\ TransitionPerCount'
  BY <1>1 DEF CasInv, LogInv, FirstInv, TransitionPerCount, Exists
<1>. QED
  BY <1>3, <1>4 DEF CasInv

LEMMA CasCommit ==
  ASSUME TypeInv, CasInv, NEW h \in Handler, UpdateCommit(h)
  PROVE  CasInv'
<1>1. PICK a \in ActionId, n \in Nat, s \in Status :
        /\ a = handler[h].action /\ n = handler[h].count /\ s = handler[h].status
        /\ Exists(a) /\ actions[a].count = n
        /\ IsCancellation(s) => n = 0
        /\ handler[h].pc = "update"
  BY DEF UpdateCommit, CountMatches, At, TypeInv, TypeOK, HandlerInv, HandlerState, CasInv,
         MemoryInv, UpdateSteps
<1>. DEFINE t == [action |-> a, count |-> n + 1, status |-> s,
                  by |-> IF IsCancellation(s) THEN "source" ELSE "target"]
<1>2. log' = log \cup {t}
  BY <1>1 DEF UpdateCommit
<1>3. /\ \A b \in ActionId \ {a} : actions'[b] = actions[b]
      /\ actions'[a].status = s /\ actions'[a].count = n + 1
  BY <1>1 DEF UpdateCommit, TypeInv, TypeOK, ActionRow
<1>4. \A e \in log : /\ e.action \in ActionId /\ e.count \in Nat
                     /\ e.action = a => e.count <= n /\ ~Withdrawal(e)
  <2>. SUFFICES ASSUME NEW e \in log
                PROVE  /\ e.action \in ActionId /\ e.count \in Nat
                       /\ e.action = a => e.count <= n /\ ~Withdrawal(e)
    OBVIOUS
  <2>1. e.action \in ActionId /\ e.count \in Nat
    BY DEF TypeInv, TypeOK, Transition
  <2>2. e.action = a => e.count <= n
    BY <1>1 DEF CasInv, LogInv
  <2>3. Withdrawal(e) /\ e.action = a => n < e.count
    BY <1>1 DEF CasInv, MemoryInv, UpdateSteps
  <2>. QED
    BY <1>1, <2>1, <2>2, <2>3
<1>5. Withdrawal(t) => n = 0 /\ s \in CancelBucket
  BY <1>1 DEF Withdrawal, IsCancellation
<1>6. LogInv'
  <2>1. ASSUME NEW e \in log
        PROVE  /\ Exists(e.action)'
               /\ e.count <= actions'[e.action].count
               /\ Withdrawal(e) => /\ actions'[e.action].count = e.count
                                   /\ actions'[e.action].status \in CancelBucket
    <3>1. CASE e.action = a
      <4>1. e.count \in Nat /\ e.count <= n /\ ~Withdrawal(e)
        BY <1>4, <3>1
      <4>2. e.count <= n + 1
        BY <1>1, <4>1
      <4>3. Exists(e.action)'
        BY <1>1, <1>3, <3>1, StatusAssumption DEF Exists
      <4>. QED
        BY <1>3, <3>1, <4>1, <4>2, <4>3
    <3>2. CASE e.action # a
      <4>1. actions'[e.action] = actions[e.action]
        BY <1>3, <1>4, <3>2
      <4>. QED
        BY <4>1 DEF CasInv, LogInv, Exists
    <3>. QED
      BY <3>1, <3>2
  <2>2. /\ Exists(a)'
        /\ t.count <= actions'[a].count
        /\ Withdrawal(t) => actions'[a].count = t.count /\ actions'[a].status \in CancelBucket
    BY <1>1, <1>3, <1>5, StatusAssumption DEF Exists
  <2>. QED
    BY <1>2, <2>1, <2>2 DEF LogInv, Withdrawal
<1>7. FirstInv'
  BY <1>1, <1>2, <1>4, <1>5 DEF CasInv, FirstInv, Withdrawal
<1>8. TransitionPerCount'
  BY <1>1, <1>2, <1>4 DEF CasInv, TransitionPerCount
<1>9. MemoryInv'
  <2>1. \A g \in Handler : handler'[g].pc \in UpdateSteps => g # h /\ handler'[g] = handler[g]
    BY DEF UpdateCommit, TypeInv, TypeOK, HandlerState, UpdateSteps
  <2>2. \A g \in Handler : handler[g].pc \in UpdateSteps =>
          handler[g].action \in ActionId /\ handler[g].count \in Nat
    BY DEF TypeInv, TypeOK, HandlerInv, HandlerState
  <2>. QED
    BY <1>1, <1>2, <1>3, <1>4, <1>5, <2>1, <2>2 DEF CasInv, MemoryInv, Withdrawal, IsCancellation
<1>. QED
  BY <1>6, <1>7, <1>8, <1>9 DEF CasInv

LEMMA CasRetire ==
  ASSUME TypeInv, CasInv, NEW h \in Handler, RetireCommit(h)
  PROVE  CasInv'
<1>1. CancelBucket # {} => RetireStatus \in CancelBucket
  BY DEF RetireStatus
<1>2. /\ log' = log
      /\ \A a \in ActionId :
           /\ actions'[a].count = actions[a].count
           /\ Exists(a) => Exists(a)'
           /\ \/ actions'[a].status = actions[a].status
              \/ actions'[a].status = RetireStatus
  BY RetireStatusType, StatusAssumption DEF RetireCommit, TypeInv, TypeOK, ActionRow, Exists
<1>3. \A g \in Handler : handler'[g].pc \in UpdateSteps => handler'[g] = handler[g]
  BY DEF RetireCommit, Finish, Idle, TypeInv, TypeOK, UpdateSteps
<1>4. LogInv'
  BY <1>1, <1>2 DEF CasInv, LogInv, Withdrawal, TypeInv, TypeOK, Transition
<1>5. MemoryInv'
  BY <1>2, <1>3 DEF CasInv, MemoryInv, IsCancellation, TypeInv, HandlerInv
<1>6. FirstInv' /\ TransitionPerCount'
  BY <1>2 DEF CasInv, FirstInv, TransitionPerCount
<1>. QED
  BY <1>4, <1>5, <1>6 DEF CasInv

LEMMA CasStep ==
  ASSUME TypeInv, CasInv, [Next]_vars
  PROVE  CasInv'
<1>1. CASE UNCHANGED vars
  BY <1>1, CasFrame DEF vars, Frame
<1>2. ASSUME NEW h \in Handler, Call(h) PROVE CasInv'
  <2>1. ASSUME NEW i \in Item, NEW j \in Item, PerformProxy(h, i, j) PROVE CasInv'
    BY <2>1, CasFrame DEF PerformProxy, ReadOnly, Idle, TypeInv, TypeOK, Frame, UpdateSteps
  <2>2. ASSUME NEW a \in ActionId, NEW i \in Item, NEW j \in Item, ContactRead(h, a, i, j)
        PROVE  CasInv'
    BY <2>2, CasFrame DEF ContactRead, ReadOnly, Idle, TypeInv, TypeOK, Frame, UpdateSteps
  <2>3. ASSUME NEW i \in Item, NEW pc \in {"l_pause", "l_unpause", "l_select"},
               LifecycleRead(h, i, pc)
        PROVE  CasInv'
    BY <2>3, CasFrame DEF LifecycleRead, ReadOnly, Idle, TypeInv, TypeOK, Frame, UpdateSteps
  <2>. QED
    BY <1>2, <2>1, <2>2, <2>3, CasRead DEF Call
<1>3. ASSUME NEW h \in Handler, Serve(h) PROVE CasInv'
  <2>1. CASE \/ PerformReadTarget(h) \/ PerformReadSource(h) \/ AssertPairCapAvailable(h)
             \/ UpdateReadTarget(h) \/ UpdateReadSource(h) \/ UpdateConflict(h)
             \/ ContactReadOther(h) \/ ContactReadCaller(h)
    BY <2>1, CasFrame, FrameGoto
    DEF PerformReadTarget, PerformReadSource, AssertPairCapAvailable, UpdateReadTarget,
        UpdateReadSource, ContactReadOther, ContactReadCaller, UpdateConflict, At, ReadOnly,
        TypeInv, ProgramCounter, UpdateSteps
  <2>2. CASE \/ PerformPublish(h) \/ PerformGuardianRow(h) \/ UpdatePublish(h) \/ ContactReveal(h)
             \/ PauseCommit(h) \/ UnpauseCommit(h)
    <3>1. /\ UNCHANGED <<actions, log>>
          /\ Finish(h) \/ Goto(h, "p_guardian")
      BY <2>2
      DEF PerformPublish, PerformGuardianRow, UpdatePublish, ContactReveal, PauseCommit,
          UnpauseCommit
    <3>. QED
      BY <3>1, CasFrame, FrameGoto DEF TypeInv, ProgramCounter, UpdateSteps
  <2>3. CASE RetireSelect(h)
    BY <2>3, CasFrame DEF RetireSelect, ReadOnly, TypeInv, TypeOK, HandlerState, Frame, UpdateSteps
  <2>. QED
    BY <1>3, <2>1, <2>2, <2>3, CasInsert, CasCommit, CasRetire DEF Serve
<1>4. ASSUME NEW h \in Handler, Abandon(h) PROVE CasInv'
  BY <1>4, CasFrame, FrameGoto DEF Abandon, ReadOnly, TypeInv
<1>5. ASSUME NEW e \in mirrors, StoreEvent(e) \/ LoseMirror(e) PROVE CasInv'
  BY <1>5, CasFrame DEF StoreEvent, LoseMirror, Frame
<1>6. ASSUME NEW i \in Item, DeleteItem(i) PROVE CasInv'
  BY <1>6, CasFrame DEF DeleteItem, Frame
<1>. QED
  BY <1>1, <1>2, <1>3, <1>4, <1>5, <1>6 DEF Next

LEMMA CasInvariant == Spec => []CasInv
  BY TypeInvariant, CasInit, CasStep, PTL DEF Spec

\* Of the handlers that read the same update_count of an action, at most one
\* commits: no two transitions of an action have one count, in any instance.
THEOREM OneTransitionPerCount == Spec => []TransitionPerCount
  BY CasInvariant, PTL DEF CasInv

\* An application that its source withdrew is never answered, and one that was
\* answered is never withdrawn, whatever interleaves with the two requests.
THEOREM WithdrawalAndAnswerExclude == Spec => []WithdrawnOrAnswered
<1>1. TypeInv /\ CasInv => WithdrawnOrAnswered
  BY DEF TypeInv, TypeOK, Transition, CasInv, FirstInv, Withdrawal, WithdrawnOrAnswered
<1>. QED
  BY <1>1, TypeInvariant, CasInvariant, PTL

-----------------------------------------------------------------------------
(* Consents.  What was agreed stays on record, a revealing status is written
   only with the agreement, and a viewer's handler that has read one acts on
   an agreement that still stands. *)

Agreed(a) ==
  /\ Exists(a)
  /\ [action |-> a, user |-> TargetOwner(a), stage |-> "accept", by |-> "action"] \in consents
  /\ TargetOwner(a) \in Minor =>
       [action |-> a, user |-> TargetOwner(a), stage |-> "accept", by |-> "guardian"] \in consents
  /\ \E e \in log : e.action = a /\ e.by = "target" /\ e.status \in RevealStatus

Initiated(a) ==
  [action |-> a, user |-> SourceOwner(a), stage |-> "initiate", by |-> "action"] \in consents

ConsentInv ==
  /\ \A a \in ActionId : Exists(a) /\ RevealStatus # {} => Initiated(a)
  /\ \A a \in ActionId : actions[a].status \in RevealStatus => Agreed(a)

ViewerInv ==
  /\ \A h \in Handler :
       /\ handler[h].pc \in ContactSteps /\ handler[h].status \in RevealStatus
            => Agreed(handler[h].action)
       /\ handler[h].pc \in {"c_caller", "c_reveal"} => handler[h].status \in RevealStatus
  /\ \A d \in disclosed : Agreed(d.action)

\* Rows, consents and the log are only ever added to, and an action keeps its
\* two items.
Growth ==
  /\ consents \subseteq consents' /\ log \subseteq log'
  /\ \A a \in ActionId : Exists(a) =>
       /\ Exists(a)'
       /\ Source(a)' = Source(a)
       /\ Target(a)' = Target(a)

LEMMA Grows ==
  ASSUME TypeInv, [Next]_vars
  PROVE  Growth
<1>1. CASE UNCHANGED <<actions, consents, log>>
  BY <1>1 DEF Growth, Exists, Source, Target
<1>2. ASSUME NEW h \in Handler, NEW a \in ActionId, PerformInsert(h, a) PROVE Growth
  BY <1>2 DEF PerformInsert, TypeInv, TypeOK, Growth, Exists, Source, Target
<1>3. ASSUME NEW h \in Handler, PerformGuardianRow(h) PROVE Growth
  BY <1>3 DEF PerformGuardianRow, Growth, Exists, Source, Target
<1>4. ASSUME NEW h \in Handler, UpdateCommit(h) PROVE Growth
  <2>1. handler[h].action \in ActionId /\ handler[h].status \in Status
    BY <1>4 DEF UpdateCommit, At, TypeInv, HandlerInv, UpdateSteps
  <2>. QED
    BY <1>4, <2>1, StatusAssumption
    DEF UpdateCommit, TypeInv, TypeOK, ActionRow, Growth, Exists, Source, Target
<1>5. ASSUME NEW h \in Handler, RetireCommit(h) PROVE Growth
  BY <1>5, RetireStatusType, StatusAssumption
  DEF RetireCommit, TypeInv, TypeOK, ActionRow, Growth, Exists, Source, Target
<1>6. CASE UNCHANGED vars
  BY <1>1, <1>6 DEF vars
<1>7. ASSUME NEW h \in Handler, Call(h) PROVE UNCHANGED <<actions, consents, log>>
  BY <1>7 DEF Call, PerformProxy, UpdateRead, ContactRead, LifecycleRead, ReadOnly
<1>8. ASSUME NEW h \in Handler, Serve(h), ~PerformGuardianRow(h), ~UpdateCommit(h),
             ~RetireCommit(h), \A a \in ActionId : ~PerformInsert(h, a)
      PROVE  UNCHANGED <<actions, consents, log>>
  BY <1>8
  DEF Serve, PerformReadTarget, PerformReadSource, AssertPairCapAvailable, PerformPublish,
      UpdateReadTarget, UpdateReadSource, UpdateConflict, UpdatePublish, ContactReadOther,
      ContactReadCaller, ContactReveal, PauseCommit, UnpauseCommit, RetireSelect, ReadOnly
<1>9. CASE \/ \E h \in Handler : Abandon(h)
           \/ \E e \in mirrors : StoreEvent(e) \/ LoseMirror(e)
           \/ \E i \in Item : DeleteItem(i)
  BY <1>1, <1>9 DEF Abandon, ReadOnly, StoreEvent, LoseMirror, DeleteItem
<1>. QED
  BY <1>1, <1>2, <1>3, <1>4, <1>5, <1>6, <1>7, <1>8, <1>9 DEF Next

LEMMA AgreedStays ==
  ASSUME TypeInv, [Next]_vars, NEW a \in ActionId
  PROVE  /\ Agreed(a) => Agreed(a)'
         /\ Exists(a) /\ Initiated(a) => Initiated(a)'
  BY Grows DEF Growth, Agreed, Initiated, Exists, SourceOwner, TargetOwner

LEMMA ConsentStep ==
  ASSUME TypeInv, ConsentInv, [Next]_vars
  PROVE  ConsentInv'
<1>1. ASSUME \A a \in ActionId :
               /\ Exists(a)' => Exists(a)
               /\ \/ actions'[a].status \notin RevealStatus
                  \/ actions'[a].status = actions[a].status
      PROVE  ConsentInv'
  <2>1. ASSUME NEW a \in ActionId, Exists(a)', RevealStatus # {} PROVE Initiated(a)'
    BY <1>1, <2>1, AgreedStays DEF ConsentInv
  <2>2. ASSUME NEW a \in ActionId, actions'[a].status \in RevealStatus PROVE Agreed(a)'
    <3>1. actions[a].status \in RevealStatus
      BY <1>1, <2>2
    <3>2. Agreed(a)
      BY <3>1 DEF ConsentInv
    <3>. QED
      BY <3>2, AgreedStays
  <2>. QED
    BY <2>1, <2>2 DEF ConsentInv
<1>2. CASE UNCHANGED actions
  BY <1>1, <1>2 DEF Exists
<1>3. ASSUME NEW h \in Handler, NEW a \in ActionId, PerformInsert(h, a) PROVE ConsentInv'
  <2>1. /\ \A b \in ActionId \ {a} : actions'[b] = actions[b]
        /\ actions'[a].status = "created" /\ Source(a)' = handler[h].source
    BY <1>3 DEF PerformInsert, TypeInv, TypeOK, Source
  <2>2. RevealStatus # {} => Initiated(a)'
    BY <1>3, <2>1 DEF PerformInsert, InitiateConsent, Initiated, SourceOwner
  <2>3. ASSUME NEW b \in ActionId, b # a
        PROVE  /\ Exists(b)' /\ RevealStatus # {} => Initiated(b)'
               /\ actions'[b].status \in RevealStatus => Agreed(b)'
    BY <2>1, <2>3, AgreedStays DEF ConsentInv, Exists
  <2>. QED
    BY <2>1, <2>2, <2>3, StatusAssumption DEF ConsentInv
<1>4. ASSUME NEW h \in Handler, UpdateCommit(h) PROVE ConsentInv'
  <2>1. PICK a \in ActionId, n \in Nat, s \in Status :
          /\ a = handler[h].action /\ n = handler[h].count /\ s = handler[h].status /\ Exists(a)
    BY <1>4 DEF UpdateCommit, At, TypeInv, TypeOK, HandlerInv, HandlerState, UpdateSteps
  <2>2. /\ \A b \in ActionId \ {a} : actions'[b] = actions[b]
        /\ actions'[a].status = s
    BY <1>4, <2>1 DEF UpdateCommit, TypeInv, TypeOK, ActionRow
  <2>3. CASE s \in RevealStatus
    <3>1. RevealsPii(s) /\ ~IsCancellation(s)
      BY <2>3, StatusAssumption DEF RevealsPii, IsCancellation
    <3>2. /\ consents' = consents \cup AcceptConsent(h)
          /\ [action |-> a, count |-> n + 1, status |-> s, by |-> "target"] \in log'
      BY <1>4, <2>1, <3>1 DEF UpdateCommit
    <3>3. /\ [action |-> a, user |-> TargetOwner(a), stage |-> "accept", by |-> "action"]
               \in consents'
          /\ TargetOwner(a) \in Minor =>
               [action |-> a, user |-> TargetOwner(a), stage |-> "accept", by |-> "guardian"]
                 \in consents'
      BY <2>1, <3>1, <3>2 DEF AcceptConsent
    <3>4. Target(a)' = Target(a) /\ Exists(a)'
      BY <2>1, Grows DEF Growth
    <3>5. Agreed(a)'
      BY <2>3, <3>2, <3>3, <3>4 DEF Agreed, TargetOwner
    <3>6. ASSUME NEW b \in ActionId
          PROVE  /\ Exists(b)' /\ RevealStatus # {} => Initiated(b)'
                 /\ actions'[b].status \in RevealStatus => Agreed(b)'
      BY <2>1, <2>2, <3>5, AgreedStays DEF ConsentInv, Exists
    <3>. QED
      BY <3>6 DEF ConsentInv
  <2>4. CASE s \notin RevealStatus
    BY <1>1, <2>1, <2>2, <2>4 DEF Exists
  <2>. QED
    BY <2>3, <2>4
<1>5. ASSUME NEW h \in Handler, RetireCommit(h) PROVE ConsentInv'
  <2>1. RetireStatus \notin RevealStatus
    BY StatusAssumption DEF RetireStatus
  <2>2. \A a \in ActionId :
          \/ actions'[a] = actions[a]
          \/ Exists(a) /\ actions'[a].status = RetireStatus
    BY <1>5 DEF RetireCommit, TypeInv, TypeOK, HandlerInv, ActionRow
  <2>. QED
    BY <1>1, <2>1, <2>2 DEF Exists
<1>6. CASE UNCHANGED vars
  BY <1>2, <1>6 DEF vars
<1>7. ASSUME NEW h \in Handler, Call(h) PROVE UNCHANGED actions
  BY <1>7 DEF Call, PerformProxy, UpdateRead, ContactRead, LifecycleRead, ReadOnly
<1>8. ASSUME NEW h \in Handler, Serve(h), ~UpdateCommit(h), ~RetireCommit(h),
             \A a \in ActionId : ~PerformInsert(h, a)
      PROVE  UNCHANGED actions
  BY <1>8
  DEF Serve, PerformReadTarget, PerformReadSource, AssertPairCapAvailable, PerformPublish,
      PerformGuardianRow, UpdateReadTarget, UpdateReadSource, UpdateConflict, UpdatePublish,
      ContactReadOther, ContactReadCaller, ContactReveal, PauseCommit, UnpauseCommit,
      RetireSelect, ReadOnly
<1>9. CASE \/ \E h \in Handler : Abandon(h)
           \/ \E e \in mirrors : StoreEvent(e) \/ LoseMirror(e)
           \/ \E i \in Item : DeleteItem(i)
  BY <1>2, <1>9 DEF Abandon, ReadOnly, StoreEvent, LoseMirror, DeleteItem
<1>. QED
  BY <1>2, <1>3, <1>4, <1>5, <1>6, <1>7, <1>8, <1>9 DEF Next

LEMMA ConsentInit == Init => ConsentInv /\ ViewerInv
  BY StatusAssumption DEF Init, ConsentInv, ViewerInv, NoRow, Idle, Exists, ContactSteps

\* A step under which every viewer's handler remembers what it did before,
\* goes past the check of the status only if it passes, and shows nothing
\* without having passed it.
ViewerFrame ==
  /\ \A g \in Handler : handler'[g].pc \in ContactSteps =>
       /\ handler[g].pc \in ContactSteps
       /\ handler'[g].action = handler[g].action
       /\ handler'[g].status = handler[g].status
  /\ \A g \in Handler : handler'[g].pc \in {"c_caller", "c_reveal"} =>
       \/ handler[g].pc \in {"c_caller", "c_reveal"}
       \/ handler[g].status \in RevealStatus
  /\ \A d \in disclosed' :
       \/ d \in disclosed
       \/ \E g \in Handler : handler[g].pc = "c_reveal" /\ d.action = handler[g].action

LEMMA ViewerFrameKeeps ==
  ASSUME TypeInv, ViewerInv, [Next]_vars, ViewerFrame
  PROVE  ViewerInv'
<1>1. ASSUME NEW g \in Handler, handler'[g].pc \in ContactSteps,
             handler'[g].status \in RevealStatus
      PROVE  Agreed(handler[g].action)' /\ handler'[g].action = handler[g].action
  <2>1. PICK a \in ActionId : a = handler[g].action /\ Agreed(a)
    BY <1>1 DEF ViewerFrame, ViewerInv, TypeInv, HandlerInv
  <2>2. Agreed(a)'
    BY <2>1, AgreedStays
  <2>. QED
    BY <1>1, <2>1, <2>2 DEF ViewerFrame
<1>2. ASSUME NEW g \in Handler, handler'[g].pc \in {"c_caller", "c_reveal"}
      PROVE  handler'[g].status \in RevealStatus
  BY <1>2 DEF ViewerFrame, ViewerInv, ContactSteps
<1>3. ASSUME NEW d \in disclosed'
      PROVE  Agreed(d.action)'
  <2>1. d.action \in ActionId /\ Agreed(d.action)
    BY <1>3 DEF ViewerFrame, ViewerInv, TypeInv, TypeOK, HandlerInv, ContactSteps
  <2>. QED
    BY <2>1, AgreedStays
<1>. QED
  BY <1>1, <1>2, <1>3 DEF ViewerInv

LEMMA ViewerFrameGoto ==
  ASSUME TypeOK, NEW h \in Handler, UNCHANGED disclosed,
         \/ Finish(h)
         \/ \E pc \in ProgramCounter \ ContactSteps : Goto(h, pc)
  PROVE  ViewerFrame
  BY DEF TypeOK, Finish, Goto, Idle, HandlerState, ViewerFrame, ContactSteps

LEMMA ViewerStep ==
  ASSUME TypeInv, ConsentInv, ViewerInv, [Next]_vars
  PROVE  ViewerInv'
<1>1. CASE UNCHANGED <<handler, disclosed>>
  BY <1>1, ViewerFrameKeeps DEF ViewerFrame
<1>2. ASSUME NEW h \in Handler, Call(h) PROVE ViewerInv'
  <2>1. ASSUME NEW i \in Item, NEW j \in Item, PerformProxy(h, i, j) PROVE ViewerFrame
    BY <2>1 DEF PerformProxy, ReadOnly, Idle, TypeInv, TypeOK, ViewerFrame, ContactSteps
  <2>2. ASSUME NEW a \in ActionId, NEW s \in Requestable, UpdateRead(h, a, s)
        PROVE  ViewerFrame
    BY <2>2 DEF UpdateRead, ReadOnly, Idle, TypeInv, TypeOK, ViewerFrame, ContactSteps
  <2>3. ASSUME NEW i \in Item, NEW pc \in {"l_pause", "l_unpause", "l_select"},
               LifecycleRead(h, i, pc)
        PROVE  ViewerFrame
    BY <2>3 DEF LifecycleRead, ReadOnly, Idle, TypeInv, TypeOK, ViewerFrame, ContactSteps
  <2>4. ASSUME NEW a \in ActionId, NEW i \in Item, NEW j \in Item, ContactRead(h, a, i, j)
        PROVE  ViewerInv'
    <3>1. /\ handler'[h].pc = "c_other" /\ handler'[h].action = a
          /\ handler'[h].status = actions[a].status
          /\ \A g \in Handler \ {h} : handler'[g] = handler[g]
          /\ disclosed' = disclosed
      BY <2>4 DEF ContactRead, ReadOnly, Idle, TypeInv, TypeOK
    <3>2. actions[a].status \in RevealStatus => Agreed(a)'
      BY AgreedStays DEF ConsentInv
    <3>3. ASSUME NEW g \in Handler, g # h, handler[g].pc \in ContactSteps,
                 handler[g].status \in RevealStatus
          PROVE  Agreed(handler[g].action)'
      <4>1. PICK b \in ActionId : b = handler[g].action /\ Agreed(b)
        BY <3>3 DEF ViewerInv, TypeInv, HandlerInv
      <4>2. Agreed(b)'
        BY <4>1, AgreedStays
      <4>. QED
        BY <3>1, <3>3, <4>1, <4>2
    <3>4. ASSUME NEW d \in disclosed PROVE Agreed(d.action)'
      BY AgreedStays DEF ViewerInv, TypeInv, TypeOK
    <3>. QED
      BY <3>1, <3>2, <3>3, <3>4 DEF ViewerInv, ContactSteps
  <2>. QED
    BY <1>2, <2>1, <2>2, <2>3, <2>4, ViewerFrameKeeps DEF Call
<1>3. ASSUME NEW h \in Handler, Serve(h) PROVE ViewerFrame
  <2>1. CASE \/ PerformReadTarget(h) \/ PerformReadSource(h) \/ AssertPairCapAvailable(h)
             \/ UpdateReadTarget(h) \/ UpdateReadSource(h) \/ UpdateConflict(h)
    BY <2>1, ViewerFrameGoto
    DEF PerformReadTarget, PerformReadSource, AssertPairCapAvailable, UpdateReadTarget,
        UpdateReadSource, UpdateConflict, ReadOnly, TypeInv, ProgramCounter, ContactSteps
  <2>2. CASE \/ PerformPublish(h) \/ PerformGuardianRow(h) \/ UpdatePublish(h)
             \/ PauseCommit(h) \/ UnpauseCommit(h) \/ RetireCommit(h)
    <3>1. /\ UNCHANGED disclosed
          /\ Finish(h) \/ Goto(h, "p_guardian")
      BY <2>2
      DEF PerformPublish, PerformGuardianRow, UpdatePublish, PauseCommit, UnpauseCommit,
          RetireCommit
    <3>. QED
      BY <3>1, ViewerFrameGoto DEF TypeInv, ProgramCounter, ContactSteps
  <2>3. ASSUME NEW a \in ActionId, PerformInsert(h, a) PROVE ViewerFrame
    BY <2>3 DEF PerformInsert, TypeInv, TypeOK, HandlerState, ViewerFrame, ContactSteps
  <2>4. CASE UpdateCommit(h)
    <3>1. UNCHANGED disclosed
      BY <2>4 DEF UpdateCommit
    <3>2. PICK m : handler' = [handler EXCEPT ![h] = [@ EXCEPT !.pc = "publish", !.count = m]]
      BY <2>4 DEF UpdateCommit
    <3>. QED
      BY <3>1, <3>2 DEF TypeInv, TypeOK, HandlerState, ViewerFrame, ContactSteps
  <2>5. CASE RetireSelect(h)
    BY <2>5 DEF RetireSelect, ReadOnly, TypeInv, TypeOK, HandlerState, ViewerFrame, ContactSteps
  <2>6. CASE ContactReadOther(h) \/ ContactReadCaller(h)
    BY <2>6
    DEF ContactReadOther, ContactReadCaller, MayReveal, At, Goto, ReadOnly, TypeInv, TypeOK,
        HandlerState, ViewerFrame, ContactSteps
  <2>7. CASE ContactReveal(h)
    BY <2>7 DEF ContactReveal, At, Finish, Idle, TypeInv, TypeOK, ViewerFrame, ContactSteps
  <2>. QED
    BY <1>3, <2>1, <2>2, <2>3, <2>4, <2>5, <2>6, <2>7 DEF Serve
<1>4. ASSUME NEW h \in Handler, Abandon(h) PROVE ViewerFrame
  BY <1>4, ViewerFrameGoto DEF Abandon, ReadOnly, TypeInv
<1>5. CASE \/ \E e \in mirrors : StoreEvent(e) \/ LoseMirror(e)
           \/ \E i \in Item : DeleteItem(i)
  BY <1>1, <1>5 DEF StoreEvent, LoseMirror, DeleteItem
<1>6. CASE UNCHANGED vars
  BY <1>1, <1>6 DEF vars
<1>. QED
  BY <1>2, <1>3, <1>4, <1>5, <1>6, ViewerFrameKeeps DEF Next

LEMMA ConsentInvariant == Spec => [](ConsentInv /\ ViewerInv)
  BY TypeInvariant, ConsentInit, ConsentStep, ViewerStep, PTL DEF Spec

\* An action is never in a status that reveals contact details without the
\* consents of its two sides, and a minor receiver's guardian's, on record.
THEOREM RevealIsConsented == Spec => []RevealNeedsBothConsents
<1>1. TypeInv /\ ConsentInv => RevealNeedsBothConsents
  BY StatusAssumption
  DEF TypeInv, TypeOK, ConsentInv, Agreed, Initiated, RevealNeedsBothConsents, Exists
<1>. QED
  BY <1>1, TypeInvariant, ConsentInvariant, PTL

\* Contact details leave the server only for an action whose receiver had
\* committed a revealing answer and consented to it, however many statements
\* lie between reading the status and fetching the details.
THEOREM DisclosureIsConsented == Spec => []DisclosureConsented
<1>1. ViewerInv => DisclosureConsented
  BY DEF ViewerInv, Agreed, DisclosureConsented
<1>. QED
  BY <1>1, ConsentInvariant, PTL

-----------------------------------------------------------------------------
(* Events.  What is about to be published, is published, is on its way to the
   other instance or has arrived there was committed first. *)

Told(e) == \E t \in log : t.action = e.action /\ t.count = e.count /\ t.status = e.status

OncePerCount(S) == \A e, f \in S : e.action = f.action /\ e.count = f.count => e = f

EventInv ==
  /\ \A h \in Handler :
       /\ handler[h].pc \in PerformSteps => handler[h].count = 0
       /\ handler[h].pc \in {"publish", "p_publish"} => Told(EventOf(h))
  /\ \A e \in events \cup mirrors \cup stored : Told(e)
  /\ OncePerCount(events) /\ OncePerCount(stored)

LEMMA EventInit == Init => EventInv
  BY DEF Init, EventInv, OncePerCount, Idle, PerformSteps

\* A second insert of the same count does nothing.
LEMMA RecordOnce ==
  ASSUME NEW S, NEW e, OncePerCount(S)
  PROVE  OncePerCount(Record(S, e)) /\ Record(S, e) \subseteq S \cup {e}
  BY DEF OncePerCount, Record

\* A step that neither publishes nor delivers, and under which every handler
\* in a request or about to publish remembers what it did before.
EventFrame ==
  /\ UNCHANGED <<events, stored>>
  /\ mirrors' \subseteq mirrors
  /\ \A g \in Handler :
       /\ handler'[g].pc \in PerformSteps =>
            \/ handler'[g].count = 0
            \/ handler[g].pc \in PerformSteps /\ handler'[g].count = handler[g].count
       /\ handler'[g].pc \in {"publish", "p_publish"} =>
            /\ handler[g].pc \in {"publish", "p_publish"}
            /\ handler'[g] = handler[g]

LEMMA EventFrameKeeps ==
  ASSUME EventInv, log \subseteq log', EventFrame
  PROVE  EventInv'
<1>1. \A e : Told(e) => Told(e)'
  BY DEF Told
<1>2. ASSUME NEW g \in Handler, handler'[g].pc \in {"publish", "p_publish"}
      PROVE  Told(EventOf(g))'
  <2>1. EventOf(g)' = EventOf(g) /\ Told(EventOf(g))
    BY <1>2 DEF EventFrame, EventInv, EventOf
  <2>. QED
    BY <2>1 DEF Told
<1>3. \A g \in Handler : handler'[g].pc \in PerformSteps => handler'[g].count = 0
  BY DEF EventFrame, EventInv
<1>4. \A e \in events' \cup mirrors' \cup stored' : Told(e)'
  BY <1>1 DEF EventFrame, EventInv
<1>5. OncePerCount(events)' /\ OncePerCount(stored)'
  BY DEF EventFrame, EventInv, OncePerCount
<1>. QED
  BY <1>2, <1>3, <1>4, <1>5 DEF EventInv

LEMMA EventFrameGoto ==
  ASSUME TypeOK, NEW h \in Handler, UNCHANGED <<events, mirrors, stored>>,
         \/ Finish(h)
         \/ \E pc \in ProgramCounter \ {"publish", "p_publish"} :
              Goto(h, pc) /\ (pc \in PerformSteps => handler[h].pc \in PerformSteps)
  PROVE  EventFrame
  BY DEF TypeOK, Finish, Goto, Idle, HandlerState, EventFrame, PerformSteps

LEMMA EventStep ==
  ASSUME TypeInv, EventInv, [Next]_vars
  PROVE  EventInv'
<1>. USE DEF PerformSteps
<1>1. log \subseteq log'
  BY Grows DEF Growth
<1>2. \A e : Told(e) => Told(e)'
  BY <1>1 DEF Told
<1>3. CASE UNCHANGED <<events, mirrors, stored, handler>>
  BY <1>1, <1>3, EventFrameKeeps DEF EventFrame
<1>4. ASSUME NEW h \in Handler, Call(h) PROVE EventFrame
  <2>1. ASSUME NEW i \in Item, NEW j \in Item, PerformProxy(h, i, j) PROVE EventFrame
    BY <2>1 DEF PerformProxy, ReadOnly, Idle, TypeInv, TypeOK, EventFrame
  <2>2. ASSUME NEW a \in ActionId, NEW s \in Requestable, UpdateRead(h, a, s)
        PROVE  EventFrame
    BY <2>2 DEF UpdateRead, ReadOnly, Idle, TypeInv, TypeOK, EventFrame
  <2>3. ASSUME NEW a \in ActionId, NEW i \in Item, NEW j \in Item, ContactRead(h, a, i, j)
        PROVE  EventFrame
    BY <2>3 DEF ContactRead, ReadOnly, Idle, TypeInv, TypeOK, EventFrame
  <2>4. ASSUME NEW i \in Item, NEW pc \in {"l_pause", "l_unpause", "l_select"},
               LifecycleRead(h, i, pc)
        PROVE  EventFrame
    BY <2>4 DEF LifecycleRead, ReadOnly, Idle, TypeInv, TypeOK, EventFrame
  <2>. QED
    BY <1>4, <2>1, <2>2, <2>3, <2>4 DEF Call
<1>5. ASSUME NEW h \in Handler, Serve(h) PROVE EventInv'
  <2>1. CASE \/ PerformReadTarget(h) \/ PerformReadSource(h) \/ AssertPairCapAvailable(h)
             \/ UpdateReadTarget(h) \/ UpdateReadSource(h) \/ UpdateConflict(h)
             \/ ContactReadOther(h) \/ ContactReadCaller(h)
             \/ ContactReveal(h) \/ PauseCommit(h) \/ UnpauseCommit(h) \/ RetireCommit(h)
             \/ PerformGuardianRow(h)
    BY <1>1, <2>1, EventFrameGoto, EventFrameKeeps
    DEF PerformReadTarget, PerformReadSource, AssertPairCapAvailable, UpdateReadTarget,
        UpdateReadSource, UpdateConflict, ContactReadOther, ContactReadCaller, ContactReveal,
        PauseCommit, UnpauseCommit, RetireCommit, PerformGuardianRow, At, ReadOnly, TypeInv,
        ProgramCounter
  <2>2. CASE RetireSelect(h)
    BY <1>1, <2>2, EventFrameKeeps
    DEF RetireSelect, ReadOnly, TypeInv, TypeOK, HandlerState, EventFrame
  <2>3. ASSUME NEW a \in ActionId, PerformInsert(h, a) PROVE EventInv'
    <3>1. /\ \A g \in Handler \ {h} : handler'[g] = handler[g]
          /\ handler'[h].pc = "p_publish" /\ handler'[h].action = a
          /\ handler'[h].status = "created" /\ handler'[h].count = handler[h].count
          /\ handler[h].count = 0
          /\ [action |-> a, count |-> 0, status |-> "created", by |-> "source"] \in log'
          /\ UNCHANGED <<events, mirrors, stored>>
      BY <2>3 DEF PerformInsert, At, EventInv, TypeInv, TypeOK, HandlerState
    <3>2. Told(EventOf(h))'
      BY <3>1 DEF Told, EventOf
    <3>3. ASSUME NEW g \in Handler \ {h}, handler'[g].pc \in {"publish", "p_publish"}
          PROVE  Told(EventOf(g))'
      <4>1. EventOf(g)' = EventOf(g) /\ Told(EventOf(g))
        BY <3>1, <3>3 DEF EventInv, EventOf
      <4>. QED
        BY <4>1, <1>1 DEF Told
    <3>. QED
      BY <1>2, <3>1, <3>2, <3>3 DEF EventInv, OncePerCount
  <2>4. CASE UpdateCommit(h)
    <3>. DEFINE n == handler[h].count + 1
    <3>1. /\ \A g \in Handler \ {h} : handler'[g] = handler[g]
          /\ handler'[h].pc = "publish" /\ handler'[h].action = handler[h].action
          /\ handler'[h].status = handler[h].status /\ handler'[h].count = n
          /\ \E side \in {"source", "target"} :
               [action |-> handler[h].action, count |-> n, status |-> handler[h].status,
                by |-> side] \in log'
          /\ UNCHANGED <<events, mirrors, stored>>
      BY <2>4 DEF UpdateCommit, TypeInv, TypeOK, HandlerState
    <3>2. Told(EventOf(h))'
      BY <3>1 DEF Told, EventOf
    <3>3. ASSUME NEW g \in Handler \ {h}, handler'[g].pc \in {"publish", "p_publish"}
          PROVE  Told(EventOf(g))'
      <4>1. EventOf(g)' = EventOf(g) /\ Told(EventOf(g))
        BY <3>1, <3>3 DEF EventInv, EventOf
      <4>. QED
        BY <4>1, <1>1 DEF Told
    <3>. QED
      BY <1>2, <3>1, <3>2, <3>3 DEF EventInv, OncePerCount
  <2>5. CASE PerformPublish(h) \/ UpdatePublish(h)
    <3>1. /\ handler[h].pc \in {"publish", "p_publish"}
          /\ events' = Record(events, EventOf(h))
          /\ mirrors' \subseteq mirrors \cup {EventOf(h)}
          /\ stored' = stored
          /\ \/ Finish(h)
             \/ handler[h].pc = "p_publish" /\ Goto(h, "p_guardian")
      BY <2>5, Zenon DEF PerformPublish, UpdatePublish, InsertActionEvent, At
    <3>2. Told(EventOf(h)) /\ OncePerCount(events) /\ OncePerCount(stored)
      BY <3>1 DEF EventInv
    <3>3. OncePerCount(events)' /\ events' \subseteq events \cup {EventOf(h)}
      BY <3>1, <3>2, RecordOnce DEF OncePerCount
    <3>4. \A e \in events' \cup mirrors' \cup stored' : Told(e)'
      BY <1>2, <3>1, <3>2, <3>3 DEF EventInv
    <3>5. \A g \in Handler :
            /\ handler'[g].pc \in PerformSteps => handler'[g].count = 0
            /\ handler'[g].pc \in {"publish", "p_publish"} =>
                 handler[g].pc \in {"publish", "p_publish"} /\ handler'[g] = handler[g]
      <4>1. handler \in [Handler -> HandlerState]
        BY DEF TypeInv, TypeOK
      <4>2. CASE Finish(h)
        BY <4>1, <4>2 DEF Finish, Idle, EventInv
      <4>3. CASE handler[h].pc = "p_publish" /\ Goto(h, "p_guardian")
        BY <4>1, <4>3 DEF Goto, EventInv, HandlerState
      <4>. QED
        BY <3>1, <4>2, <4>3
    <3>6. ASSUME NEW g \in Handler, handler'[g].pc \in {"publish", "p_publish"}
          PROVE  Told(EventOf(g))'
      <4>1. EventOf(g)' = EventOf(g) /\ Told(EventOf(g))
        BY <3>5, <3>6 DEF EventInv, EventOf
      <4>. QED
        BY <4>1, <1>1 DEF Told
    <3>. QED
      BY <3>1, <3>2, <3>3, <3>4, <3>5, <3>6 DEF EventInv, OncePerCount
  <2>. QED
    BY <1>5, <2>1, <2>2, <2>3, <2>4, <2>5 DEF Serve
<1>6. ASSUME NEW h \in Handler, Abandon(h) PROVE EventFrame
  BY <1>6, EventFrameGoto DEF Abandon, ReadOnly, TypeInv
<1>7. ASSUME NEW e \in mirrors, StoreEvent(e) PROVE EventInv'
  <2>1. /\ stored' = Record(stored, e) /\ mirrors' \subseteq mirrors
        /\ UNCHANGED <<events, handler, log>>
    BY <1>7 DEF StoreEvent
  <2>2. OncePerCount(stored)' /\ stored' \subseteq stored \cup {e}
    BY <2>1, RecordOnce DEF EventInv, OncePerCount
  <2>. QED
    BY <1>7, <2>1, <2>2 DEF EventInv, OncePerCount, Told, EventOf
<1>8. CASE \/ \E e \in mirrors : LoseMirror(e)
           \/ \E i \in Item : DeleteItem(i)
  BY <1>1, <1>8, EventFrameKeeps DEF LoseMirror, DeleteItem, EventFrame
<1>9. CASE UNCHANGED vars
  BY <1>3, <1>9 DEF vars
<1>. QED
  BY <1>1, <1>3, <1>4, <1>5, <1>6, <1>7, <1>8, <1>9, EventFrameKeeps DEF Next

LEMMA EventInvariant == Spec => []EventInv
  BY TypeInvariant, EventInit, EventStep, PTL DEF Spec

\* An event, here or at the instance of the source item, is that of a committed
\* transition, and each instance keeps at most one for each update_count, in
\* whatever order the mirrored ones arrive.
THEOREM EventsAreCommitted == Spec => []EventsTellTheLog
<1>1. EventInv => EventsTellTheLog
  BY DEF EventInv, EventsTellTheLog, Told, OncePerCount
<1>. QED
  BY <1>1, EventInvariant, PTL

-----------------------------------------------------------------------------
(* The cap on the open actions of a pair.  It holds in each database, as long
   as no client reopens an action; and so for a pair of one instance. *)

\* Clients only send statuses that free the pair.
NoReopening == Requestable \subseteq TerminalStatuses

\* All items live on one instance.
OneDatabase == \A i, j \in Item : Home[i] = Home[j]

\* Handlers g and h work on one pair in one database.
SamePair(g, h) ==
  /\ {handler[g].source, handler[g].target} = {handler[h].source, handler[h].target}
  /\ Home[handler[g].target] = Home[handler[h].target]

CapInv ==
  /\ \A h \in Handler : handler[h].pc \in UpdateSteps => handler[h].status \in Requestable
  /\ \A i, j \in Item :
       IsFiniteSet(OpenBetween(i, j)) /\ Cardinality(OpenBetween(i, j)) <= Cap
  /\ \A h \in Handler : At(h, "p_insert") => PairHasRoom(h)
  /\ \A g, h \in Handler : At(g, "p_insert") /\ At(h, "p_insert") /\ SamePair(g, h) => g = h

\* The statuses a retire gives free the pair.
LEMMA RetireFrees == RetireStatus \in TerminalStatuses
  BY DEF RetireStatus, TerminalStatuses

LEMMA CapInit == Init => CapInv
<1>. SUFFICES ASSUME Init PROVE CapInv
  OBVIOUS
<1>1. \A i, j \in Item : OpenBetween(i, j) = {}
  BY DEF Init, OpenBetween, Between, Exists, NoRow
<1>2. \A i, j \in Item :
        IsFiniteSet(OpenBetween(i, j)) /\ Cardinality(OpenBetween(i, j)) <= Cap
  BY <1>1, FS_EmptySet, BoundAssumption
<1>. QED
  BY <1>2 DEF Init, CapInv, At, Idle, UpdateSteps

\* A step that opens no action and lets no handler into the insert.
CapFrame ==
  /\ \A a \in ActionId :
       \/ actions'[a] = actions[a]
       \/ actions'[a].status \in TerminalStatuses
  /\ \A g \in Handler :
       /\ handler'[g].pc \in UpdateSteps =>
            \/ handler'[g].status \in Requestable
            \/ handler[g].pc \in UpdateSteps /\ handler'[g].status = handler[g].status
       /\ handler'[g].pc = "p_insert" => handler'[g] = handler[g]

LEMMA CapFrameKeeps ==
  ASSUME CapInv, CapFrame, TypeInv
  PROVE  CapInv'
<1>1. \A i, j \in Item : OpenBetween(i, j)' \subseteq OpenBetween(i, j)
  BY DEF CapFrame, OpenBetween, Between, Exists, Source, Target
<1>2. ASSUME NEW i \in Item, NEW j \in Item
      PROVE  /\ IsFiniteSet(OpenBetween(i, j)')
             /\ Cardinality(OpenBetween(i, j)') <= Cardinality(OpenBetween(i, j))
             /\ Cardinality(OpenBetween(i, j)') \in Nat
             /\ Cardinality(OpenBetween(i, j)) \in Nat
             /\ Cardinality(OpenBetween(i, j)) <= Cap
  <2>1. IsFiniteSet(OpenBetween(i, j)) /\ Cardinality(OpenBetween(i, j)) <= Cap
    BY DEF CapInv
  <2>. QED
    BY <1>1, <2>1, FS_Subset, FS_CardinalityType
<1>3. ASSUME NEW i \in Item, NEW j \in Item
      PROVE  IsFiniteSet(OpenBetween(i, j)') /\ Cardinality(OpenBetween(i, j)') <= Cap
  BY <1>2, BoundAssumption
<1>4. ASSUME NEW h \in Handler, handler'[h].pc = "p_insert"
      PROVE  /\ handler'[h] = handler[h] /\ At(h, "p_insert")
             /\ PairHasRoom(h)'
  <2>1. handler'[h] = handler[h] /\ At(h, "p_insert")
    BY <1>4 DEF CapFrame, At
  <2>2. PairHasRoom(h) /\ handler[h].source \in Item /\ handler[h].target \in Item
    BY <2>1 DEF CapInv, TypeInv, HandlerInv, At, PerformSteps
  <2>3. PICK i \in Item, j \in Item : i = handler[h].source /\ j = handler[h].target
    BY <2>2
  <2>4. Cardinality(OpenBetween(i, j)') < Cap
    BY <1>2, <2>2, <2>3, BoundAssumption DEF PairHasRoom
  <2>. QED
    BY <2>1, <2>3, <2>4 DEF PairHasRoom
<1>5. \A g, h \in Handler :
        handler'[g].pc = "p_insert" /\ handler'[h].pc = "p_insert" /\ SamePair(g, h)' => g = h
  BY <1>4 DEF CapInv, SamePair
<1>6. \A h \in Handler : handler'[h].pc \in UpdateSteps => handler'[h].status \in Requestable
  BY DEF CapFrame, CapInv
<1>. QED
  BY <1>3, <1>4, <1>5, <1>6 DEF CapInv, At

\* Under the lock of its pair a handler that has found room is alone with it.
LEMMA CapLock ==
  ASSUME CapInv, TypeInv, NEW h \in Handler, AssertPairCapAvailable(h)
  PROVE  CapInv'
<1>1. /\ actions' = actions
      /\ \A g \in Handler \ {h} : handler'[g] = handler[g]
      /\ handler'[h] = [handler[h] EXCEPT !.pc = "p_insert"]
      /\ handler'[h].pc = "p_insert"
      /\ handler'[h].source = handler[h].source /\ handler'[h].target = handler[h].target
  BY DEF AssertPairCapAvailable, Goto, ReadOnly, TypeInv, TypeOK, HandlerState
<1>2. \A i, j \in Item : OpenBetween(i, j)' = OpenBetween(i, j)
  BY <1>1 DEF OpenBetween, Between, Exists, Source, Target
<1>3. ASSUME NEW g \in Handler, At(g, "p_insert")' PROVE PairHasRoom(g)'
  <2>1. PairHasRoom(g)
    BY <1>1, <1>3 DEF AssertPairCapAvailable, CapInv, At
  <2>2. handler[g].pc \in PerformSteps
    BY <1>1, <1>3 DEF AssertPairCapAvailable, At, PerformSteps
  <2>3. PICK i \in Item, j \in Item : i = handler[g].source /\ j = handler[g].target
    BY <2>2 DEF TypeInv, HandlerInv
  <2>4. handler'[g].source = i /\ handler'[g].target = j
    BY <1>1, <2>3
  <2>. QED
    BY <1>2, <2>1, <2>3, <2>4 DEF PairHasRoom
<1>4. ASSUME NEW f \in Handler, NEW g \in Handler,
             At(f, "p_insert")', At(g, "p_insert")', SamePair(f, g)'
      PROVE  f = g
  <2>1. SamePair(f, g) /\ SamePair(g, f)
    BY <1>1, <1>4 DEF SamePair
  <2>2. ASSUME NEW e \in Handler \ {h}, At(e, "p_insert")'
        PROVE  At(e, "p_insert") /\ ~SamePair(e, h)
    BY <1>1, <2>2 DEF At, AssertPairCapAvailable, PairLocked, SamePair
  <2>3. CASE f = h \/ g = h
    BY <1>4, <2>1, <2>2, <2>3
  <2>4. CASE f # h /\ g # h
    BY <1>4, <2>1, <2>2, <2>4 DEF CapInv
  <2>. QED
    BY <2>3, <2>4
<1>5. \A i, j \in Item :
        IsFiniteSet(OpenBetween(i, j)') /\ Cardinality(OpenBetween(i, j)') <= Cap
  BY <1>2 DEF CapInv
<1>6. \A g \in Handler : handler'[g].pc \in UpdateSteps => handler'[g].status \in Requestable
  BY <1>1 DEF CapInv, UpdateSteps
<1>. QED
  BY <1>3, <1>4, <1>5, <1>6 DEF CapInv

LEMMA CapInsert ==
  ASSUME CapInv, TypeInv, NEW h \in Handler, NEW a \in ActionId, PerformInsert(h, a)
  PROVE  CapInv'
<1>1. PICK x \in Item, y \in Item : x = handler[h].source /\ y = handler[h].target
  BY DEF PerformInsert, At, TypeInv, HandlerInv, PerformSteps
<1>2. /\ \A b \in ActionId \ {a} : actions'[b] = actions[b]
      /\ Source(a)' = x /\ Target(a)' = y
      /\ \A g \in Handler \ {h} : handler'[g] = handler[g]
      /\ handler'[h].pc = "p_publish"
  BY <1>1 DEF PerformInsert, TypeInv, TypeOK, HandlerState, Source, Target
\* The new action counts for its own pair in its own database only.
<1>3. ASSUME NEW i \in Item, NEW j \in Item
      PROVE  \/ OpenBetween(i, j)' \subseteq OpenBetween(i, j)
             \/ /\ {i, j} = {x, y} /\ Home[j] = Home[y]
                /\ OpenBetween(i, j)' \subseteq OpenBetween(i, j) \cup {a}
  <2>1. OpenBetween(i, j)' \subseteq OpenBetween(i, j) \cup {a}
    BY <1>2 DEF OpenBetween, Between, Exists, Source, Target
  <2>2. a \in OpenBetween(i, j)' => {i, j} = {x, y} /\ Home[j] = Home[y]
    BY <1>2 DEF OpenBetween, Between
  <2>. QED
    BY <2>1, <2>2
<1>4. ASSUME NEW i \in Item, NEW j \in Item
      PROVE  IsFiniteSet(OpenBetween(i, j)') /\ Cardinality(OpenBetween(i, j)') <= Cap
  <2>1. /\ IsFiniteSet(OpenBetween(i, j)) /\ Cardinality(OpenBetween(i, j)) <= Cap
        /\ Cardinality(OpenBetween(i, j)) \in Nat
    BY FS_CardinalityType DEF CapInv
  <2>2. CASE OpenBetween(i, j)' \subseteq OpenBetween(i, j)
    <3>1. /\ IsFiniteSet(OpenBetween(i, j)')
          /\ Cardinality(OpenBetween(i, j)') <= Cardinality(OpenBetween(i, j))
      BY <2>1, <2>2, FS_Subset
    <3>2. Cardinality(OpenBetween(i, j)') \in Nat
      BY <3>1, FS_CardinalityType
    <3>. QED
      BY <2>1, <3>1, <3>2, BoundAssumption
  <2>3. CASE /\ {i, j} = {x, y} /\ Home[j] = Home[y]
             /\ OpenBetween(i, j)' \subseteq OpenBetween(i, j) \cup {a}
    <3>1. OpenBetween(i, j) = OpenBetween(x, y)
      BY <2>3 DEF OpenBetween, Between
    <3>2. Cardinality(OpenBetween(i, j)) < Cap
      BY <1>1, <3>1 DEF PerformInsert, CapInv, PairHasRoom
    <3>3. /\ IsFiniteSet(OpenBetween(i, j) \cup {a})
          /\ Cardinality(OpenBetween(i, j) \cup {a}) \in Nat
          /\ Cardinality(OpenBetween(i, j) \cup {a}) <= Cardinality(OpenBetween(i, j)) + 1
      <4>1. /\ IsFiniteSet(OpenBetween(i, j) \cup {a})
            /\ Cardinality(OpenBetween(i, j) \cup {a}) =
                 IF a \in OpenBetween(i, j) THEN Cardinality(OpenBetween(i, j))
                 ELSE Cardinality(OpenBetween(i, j)) + 1
        BY <2>1, FS_AddElement
      <4>2. Cardinality(OpenBetween(i, j) \cup {a}) \in Nat
        BY <4>1, FS_CardinalityType
      <4>. QED
        BY <2>1, <4>1, <4>2
    <3>4. /\ IsFiniteSet(OpenBetween(i, j)')
          /\ Cardinality(OpenBetween(i, j)') <= Cardinality(OpenBetween(i, j) \cup {a})
      BY <2>3, <3>3, FS_Subset
    <3>5. Cardinality(OpenBetween(i, j)') \in Nat
      BY <3>4, FS_CardinalityType
    <3>. QED
      BY <2>1, <3>2, <3>3, <3>4, <3>5, BoundAssumption
  <2>. QED
    BY <1>3, <2>2, <2>3
\* No other handler inside its insert has this pair, so its room is untouched.
<1>5. ASSUME NEW g \in Handler, At(g, "p_insert")'
      PROVE  /\ At(g, "p_insert") /\ handler'[g] = handler[g]
             /\ PairHasRoom(g)'
  <2>1. g # h /\ At(g, "p_insert") /\ handler'[g] = handler[g]
    BY <1>2, <1>5 DEF At
  <2>2. ~SamePair(g, h)
    BY <2>1 DEF CapInv, PerformInsert
  <2>3. PICK i \in Item, j \in Item : i = handler[g].source /\ j = handler[g].target
    BY <2>1 DEF At, TypeInv, HandlerInv, PerformSteps
  <2>4. OpenBetween(i, j)' \subseteq OpenBetween(i, j)
    BY <1>1, <1>3, <2>2, <2>3 DEF SamePair
  <2>5. Cardinality(OpenBetween(i, j)) < Cap
    BY <2>1, <2>3 DEF CapInv, PairHasRoom
  <2>6. /\ IsFiniteSet(OpenBetween(i, j)) /\ Cardinality(OpenBetween(i, j)) \in Nat
        /\ IsFiniteSet(OpenBetween(i, j)') /\ Cardinality(OpenBetween(i, j)') \in Nat
    BY <1>4, FS_CardinalityType DEF CapInv
  <2>7. Cardinality(OpenBetween(i, j)') <= Cardinality(OpenBetween(i, j))
    BY <2>4, <2>6, FS_Subset
  <2>8. Cardinality(OpenBetween(i, j)') < Cap
    BY <2>5, <2>6, <2>7, BoundAssumption
  <2>. QED
    BY <2>1, <2>3, <2>8 DEF PairHasRoom
<1>6. \A f, g \in Handler : At(f, "p_insert")' /\ At(g, "p_insert")' /\ SamePair(f, g)' => f = g
  BY <1>5 DEF CapInv, SamePair
<1>7. \A g \in Handler : handler'[g].pc \in UpdateSteps => handler'[g].status \in Requestable
  BY <1>2 DEF CapInv, UpdateSteps
<1>. QED
  BY <1>4, <1>5, <1>6, <1>7 DEF CapInv

LEMMA CapStep ==
  ASSUME NoReopening, TypeInv, CapInv, [Next]_vars
  PROVE  CapInv'
<1>1. CASE UNCHANGED <<actions, handler>>
  BY <1>1, CapFrameKeeps DEF CapFrame
<1>2. ASSUME NEW h \in Handler, Call(h) PROVE CapFrame
  <2>1. UNCHANGED actions
    BY <1>2 DEF Call, PerformProxy, UpdateRead, ContactRead, LifecycleRead, ReadOnly
  <2>2. \A g \in Handler \ {h} : handler'[g] = handler[g]
    BY <1>2 DEF Call, PerformProxy, UpdateRead, ContactRead, LifecycleRead, TypeInv, TypeOK
  <2>3. \/ handler'[h].pc \notin UpdateSteps \cup {"p_insert"}
        \/ handler'[h].pc \in UpdateSteps /\ handler'[h].status \in Requestable
    <3>1. ASSUME NEW a \in ActionId, NEW s \in Requestable, UpdateRead(h, a, s)
          PROVE  handler'[h].pc \in UpdateSteps /\ handler'[h].status \in Requestable
      BY <3>1 DEF UpdateRead, Idle, TypeInv, TypeOK, UpdateSteps
    <3>2. ASSUME NEW i \in Item, NEW j \in Item, PerformProxy(h, i, j)
          PROVE  handler'[h].pc \notin UpdateSteps \cup {"p_insert"}
      BY <3>2 DEF PerformProxy, Idle, TypeInv, TypeOK, UpdateSteps
    <3>3. ASSUME NEW a \in ActionId, NEW i \in Item, NEW j \in Item, ContactRead(h, a, i, j)
          PROVE  handler'[h].pc \notin UpdateSteps \cup {"p_insert"}
      BY <3>3 DEF ContactRead, Idle, TypeInv, TypeOK, UpdateSteps
    <3>4. ASSUME NEW i \in Item, NEW pc \in {"l_pause", "l_unpause", "l_select"},
                 LifecycleRead(h, i, pc)
          PROVE  handler'[h].pc \notin UpdateSteps \cup {"p_insert"}
      BY <3>4 DEF LifecycleRead, Idle, TypeInv, TypeOK, UpdateSteps
    <3>. QED
      BY <1>2, <3>1, <3>2, <3>3, <3>4 DEF Call
  <2>. QED
    BY <2>1, <2>2, <2>3 DEF CapFrame, UpdateSteps
<1>3. ASSUME NEW h \in Handler, Serve(h) PROVE CapInv'
  <2>1. CASE \/ PerformReadTarget(h) \/ PerformReadSource(h)
             \/ PerformPublish(h) \/ PerformGuardianRow(h)
             \/ UpdateReadTarget(h) \/ UpdateReadSource(h) \/ UpdateConflict(h)
             \/ UpdatePublish(h) \/ ContactReadOther(h) \/ ContactReadCaller(h)
             \/ ContactReveal(h) \/ PauseCommit(h) \/ UnpauseCommit(h)
    <3>1. /\ UNCHANGED actions
          /\ \/ Finish(h)
             \/ \E pc \in ProgramCounter \ {"p_insert"} :
                  Goto(h, pc) /\ (pc \in UpdateSteps => handler[h].pc \in UpdateSteps)
      BY <2>1
      DEF PerformReadTarget, PerformReadSource, PerformPublish, PerformGuardianRow,
          UpdateReadTarget, UpdateReadSource, UpdateConflict, UpdatePublish, ContactReadOther,
          ContactReadCaller, ContactReveal, PauseCommit, UnpauseCommit, At, ReadOnly,
          ProgramCounter, UpdateSteps
    <3>2. CapFrame
      BY <3>1 DEF Finish, Goto, Idle, CapFrame, TypeInv, TypeOK, HandlerState, UpdateSteps
    <3>. QED
      BY <3>2, CapFrameKeeps
  <2>2. CASE RetireSelect(h)
    <3>1. CapFrame
      BY <2>2 DEF RetireSelect, ReadOnly, CapFrame, TypeInv, TypeOK, HandlerState, UpdateSteps
    <3>. QED
      BY <3>1, CapFrameKeeps
  <2>3. CASE RetireCommit(h)
    <3>1. \A a \in ActionId :
            actions'[a] = actions[a] \/ actions'[a].status \in TerminalStatuses
      BY <2>3, RetireFrees DEF RetireCommit, TypeInv, TypeOK, ActionRow
    <3>2. CapFrame
      BY <2>3, <3>1 DEF RetireCommit, Finish, Idle, CapFrame, TypeInv, TypeOK, UpdateSteps
    <3>. QED
      BY <3>2, CapFrameKeeps
  <2>4. CASE UpdateCommit(h)
    <3>1. /\ handler[h].action \in ActionId
          /\ handler[h].status \in TerminalStatuses
      BY <2>4 DEF UpdateCommit, At, CapInv, NoReopening, TypeInv, HandlerInv, UpdateSteps
    <3>2. \A a \in ActionId :
            actions'[a] = actions[a] \/ actions'[a].status \in TerminalStatuses
      BY <2>4, <3>1 DEF UpdateCommit, TypeInv, TypeOK, ActionRow
    <3>3. PICK m : handler' = [handler EXCEPT ![h] = [@ EXCEPT !.pc = "publish", !.count = m]]
      BY <2>4 DEF UpdateCommit
    <3>4. CapFrame
      BY <3>2, <3>3 DEF CapFrame, TypeInv, TypeOK, HandlerState, UpdateSteps
    <3>. QED
      BY <3>4, CapFrameKeeps
  <2>. QED
    BY <1>3, <2>1, <2>2, <2>3, <2>4, CapLock, CapInsert DEF Serve
<1>4. ASSUME NEW h \in Handler, Abandon(h) PROVE CapFrame
  BY <1>4 DEF Abandon, ReadOnly, Finish, Idle, CapFrame, TypeInv, TypeOK, UpdateSteps
<1>5. CASE \/ \E e \in mirrors : StoreEvent(e) \/ LoseMirror(e)
           \/ \E i \in Item : DeleteItem(i)
           \/ UNCHANGED vars
  BY <1>1, <1>5 DEF StoreEvent, LoseMirror, DeleteItem, vars
<1>. QED
  BY <1>2, <1>3, <1>4, <1>5, CapFrameKeeps DEF Next

LEMMA CapInvariant ==
  ASSUME NoReopening
  PROVE  Spec => []CapInv
  BY TypeInvariant, CapInit, CapStep, PTL DEF Spec

\* Between two items of one instance there are never more than Cap open
\* actions, in either direction and however many submits race, if no receiver
\* sets an action back to an open status.
THEOREM PairCapHolds ==
  ASSUME NoReopening, OneDatabase
  PROVE  Spec => []PairWithinCap
<1>1. TypeInv /\ CapInv => PairWithinCap
  <2>. SUFFICES ASSUME TypeInv, CapInv, NEW i \in Item, NEW j \in Item
                PROVE  Cardinality(OpenOfPair(i, j)) <= Cap
    BY DEF PairWithinCap
  <2>1. OpenOfPair(i, j) = OpenBetween(i, j)
    BY DEF OpenOfPair, OpenBetween, Between, TypeInv, RowInv, Target, OneDatabase
  <2>. QED
    BY <2>1 DEF CapInv
<1>. QED
  BY <1>1, TypeInvariant, CapInvariant, PTL

-----------------------------------------------------------------------------
(* A retired item has no open connection, as long as no submit or answer about
   the item is on its way past the check that it is live while a retire is
   between the selection of the open connections and its commit. *)

Submits(r) == r.pc \in {"p_source", "p_lock", "p_insert"}
Answers(r) == r.pc \in {"source", "update"} /\ ~IsCancellation(r.status)

RetireApart ==
  \A g, h \in Handler : At(g, "l_retire") =>
    /\ Submits(handler[h]) => handler[g].target \notin {handler[h].source, handler[h].target}
    /\ Answers(handler[h]) =>
         handler[g].target \notin {Source(handler[h].action), Target(handler[h].action)}

Unretired(i) == lifecycle[i] # "retired"

\* What request r has found: items that are not retired, or the connections
\* that are open.
RetireMemory(r) ==
  /\ r.pc \in {"l_pause", "l_unpause", "l_select", "l_retire"} => r.target \in Item
  /\ Submits(r) =>
       /\ Unretired(r.target)
       /\ r.pc # "p_source" /\ Home[r.source] = Home[r.target] => Unretired(r.source)
  /\ Answers(r) =>
       /\ Unretired(Target(r.action))
       /\ r.pc = "update" /\ SourceIsLocal(r.action) => Unretired(Source(r.action))
  /\ r.pc = "l_retire" => OpenConnections(r.target) \subseteq r.seen

RetireInv == RetiredHasNoOpenConnections /\ \A h \in Handler : RetireMemory(handler[h])

LEMMA RetireIdle == RetireMemory(Idle)
  BY DEF RetireMemory, Idle, Submits, Answers

LEMMA RetireInit == Init => RetireInv
  BY RetireIdle DEF Init, RetireInv, RetiredHasNoOpenConnections

\* A step that retires nothing and leaves the connections alone.
LEMMA RetireFrame ==
  ASSUME TypeInv, TypeInv', RetireInv, actions' = actions,
         \A i \in Item : lifecycle'[i] = "retired" => lifecycle[i] = "retired",
         \A g \in Handler : RetireMemory(handler'[g])
  PROVE  RetireInv'
<1>1. RetiredHasNoOpenConnections'
  BY DEF RetireInv, RetiredHasNoOpenConnections, Touches, Exists, Source, Target
<1>2. ASSUME NEW g \in Handler
      PROVE  RetireMemory(handler[g])'
  <2>. DEFINE r == handler'[g]
  <2>1. RetireMemory(r)
    OBVIOUS
  <2>2. \A i \in Item : Unretired(i) => lifecycle'[i] # "retired"
    BY DEF Unretired
  <2>3. Submits(r) => r.source \in Item /\ r.target \in Item
    BY DEF Submits, TypeInv, HandlerInv, PerformSteps
  <2>4. Answers(r) => Source(r.action) \in Item /\ Target(r.action) \in Item
    BY DEF Answers, TypeInv, HandlerInv, RowInv, UpdateSteps, Exists, Source, Target
  <2>. QED
    BY <2>1, <2>2, <2>3, <2>4
    DEF RetireMemory, Unretired, Submits, Answers, IsCancellation, SourceIsLocal, Source, Target,
        OpenConnections, Touches, Exists
<1>. QED
  BY <1>1, <1>2 DEF RetireInv

\* Of such a step of one handler only that handler's record is to be looked at.
LEMMA RetireReads ==
  ASSUME TypeInv, TypeInv', RetireInv, actions' = actions, NEW h \in Handler,
         \A g \in Handler \ {h} : handler'[g] = handler[g], RetireMemory(handler'[h]),
         \A i \in Item : lifecycle'[i] = "retired" => lifecycle[i] = "retired"
  PROVE  RetireInv'
<1>1. \A g \in Handler : RetireMemory(handler'[g])
  BY DEF RetireInv
<1>. QED
  BY <1>1, RetireFrame

LEMMA RetireCall ==
  ASSUME TypeInv, TypeInv', RetireInv, NEW h \in Handler, Call(h)
  PROVE  RetireInv'
<1>1. UNCHANGED <<actions, lifecycle>> /\ \A g \in Handler \ {h} : handler'[g] = handler[g]
  BY DEF Call, PerformProxy, UpdateRead, ContactRead, LifecycleRead, ReadOnly, TypeInv, TypeOK
<1>2. RetireMemory(handler'[h])
  <2>1. ASSUME NEW i \in Item, NEW j \in Item, PerformProxy(h, i, j)
        PROVE  handler'[h].pc = "p_target"
    BY <2>1 DEF PerformProxy, Idle, TypeInv, TypeOK
  <2>2. ASSUME NEW a \in ActionId, NEW s \in Requestable, UpdateRead(h, a, s)
        PROVE  \/ handler'[h].pc = "target"
               \/ handler'[h].pc = "update" /\ IsCancellation(handler'[h].status)
    BY <2>2 DEF UpdateRead, Idle, TypeInv, TypeOK
  <2>3. ASSUME NEW a \in ActionId, NEW i \in Item, NEW j \in Item, ContactRead(h, a, i, j)
        PROVE  handler'[h].pc = "c_other"
    BY <2>3 DEF ContactRead, Idle, TypeInv, TypeOK
  <2>4. ASSUME NEW i \in Item, NEW pc \in {"l_pause", "l_unpause", "l_select"},
               LifecycleRead(h, i, pc)
        PROVE  handler'[h].pc \in {"l_pause", "l_unpause", "l_select"} /\ handler'[h].target \in Item
    BY <2>4 DEF LifecycleRead, Idle, TypeInv, TypeOK
  <2>5. \/ handler'[h].pc \in {"p_target", "target", "c_other"}
        \/ handler'[h].pc = "update" /\ IsCancellation(handler'[h].status)
        \/ handler'[h].pc \in {"l_pause", "l_unpause", "l_select"} /\ handler'[h].target \in Item
    BY <2>1, <2>2, <2>3, <2>4 DEF Call
  <2>. QED
    BY <2>5 DEF RetireMemory, Submits, Answers
<1>. QED
  BY <1>1, <1>2, RetireReads

\* The steps that check, and those after the commit.
LEMMA RetireGoes ==
  ASSUME TypeInv, RetireInv, NEW h \in Handler,
         \/ PerformReadTarget(h) \/ PerformReadSource(h) \/ AssertPairCapAvailable(h)
         \/ UpdateReadTarget(h) \/ UpdateReadSource(h) \/ ContactReadOther(h) \/ ContactReadCaller(h)
         \/ PerformPublish(h)
  PROVE  /\ UNCHANGED <<actions, lifecycle>> /\ \A g \in Handler \ {h} : handler'[g] = handler[g]
         /\ RetireMemory(handler'[h])
<1>. DEFINE r == handler[h]
<1>0. handler \in [Handler -> HandlerState] /\ RetireMemory(r)
  BY DEF TypeInv, TypeOK, RetireInv
<1>1. /\ UNCHANGED <<actions, lifecycle>> /\ \A g \in Handler \ {h} : handler'[g] = handler[g]
      /\ (Finish(h) \/ \E pc \in ProgramCounter : Goto(h, pc))
  BY <1>0 DEF PerformReadTarget, PerformReadSource, AssertPairCapAvailable, UpdateReadTarget,
       UpdateReadSource, ContactReadOther, ContactReadCaller, PerformPublish, ReadOnly, Goto, Finish,
       ProgramCounter
<1>2. CASE Finish(h)
  <2>1. handler'[h] = Idle
    BY <1>0, <1>2 DEF Finish
  <2>. QED
    BY <1>1, <2>1, RetireIdle
<1>3. ASSUME NEW pc, Goto(h, pc)
      PROVE  /\ handler'[h].pc = pc /\ handler'[h].source = r.source /\ handler'[h].target = r.target
             /\ handler'[h].action = r.action /\ handler'[h].status = r.status
  BY <1>0, <1>3 DEF Goto, HandlerState
<1>4. CASE PerformReadTarget(h)
  <2>1. Goto(h, "p_source") /\ Unretired(r.target)
    BY <1>4 DEF PerformReadTarget, IsLive, Unretired
  <2>. QED
    BY <1>1, <1>3, <2>1 DEF RetireMemory, Submits, Answers
<1>5. CASE PerformReadSource(h)
  <2>1. Goto(h, "p_lock") /\ r.pc = "p_source" /\ (Home[r.source] = Home[r.target] => Unretired(r.source))
    BY <1>5 DEF PerformReadSource, MayConnect, IsLive, Unretired, At
  <2>. QED
    BY <1>0, <1>1, <1>3, <2>1 DEF RetireMemory, Submits, Answers
<1>6. CASE AssertPairCapAvailable(h)
  <2>1. Goto(h, "p_insert") /\ r.pc = "p_lock"
    BY <1>6 DEF AssertPairCapAvailable, At
  <2>. QED
    BY <1>0, <1>1, <1>3, <2>1 DEF RetireMemory, Submits, Answers
<1>7. CASE UpdateReadTarget(h)
  <2>1. Goto(h, "source") /\ Unretired(Target(r.action))
    BY <1>7 DEF UpdateReadTarget, IsLive, Unretired
  <2>. QED
    BY <1>1, <1>3, <2>1 DEF RetireMemory, Submits, Answers
<1>8. CASE UpdateReadSource(h)
  <2>1. /\ Goto(h, "update") /\ r.pc = "source"
        /\ SourceIsLocal(r.action) => Unretired(Source(r.action))
    BY <1>8 DEF UpdateReadSource, SourceAllows, IsLive, Unretired, At
  <2>. QED
    BY <1>0, <1>1, <1>3, <2>1 DEF RetireMemory, Submits, Answers
<1>9. CASE ContactReadOther(h) \/ ContactReadCaller(h) \/ PerformPublish(h)
  <2>1. Finish(h) \/ \E pc \in {"c_caller", "c_reveal", "p_guardian"} : Goto(h, pc)
    BY <1>9 DEF ContactReadOther, ContactReadCaller, PerformPublish
  <2>. QED
    BY <1>1, <1>2, <1>3, <2>1 DEF RetireMemory, Submits, Answers
<1>. QED
  BY <1>4, <1>5, <1>6, <1>7, <1>8, <1>9

\* A submit inserts an action between items that are not retired, the source
\* item of another instance excepted.
LEMMA RetireInsert ==
  ASSUME TypeInv, TypeInv', RetireInv, RetireApart, NEW h \in Handler, NEW a \in ActionId,
         PerformInsert(h, a)
  PROVE  RetireInv'
<1>. DEFINE r == handler[h]
<1>0. /\ r.pc = "p_insert" /\ r.source \in Item /\ r.target \in Item /\ RetireMemory(r)
      /\ ~Exists(a) /\ lifecycle' = lifecycle
  BY DEF PerformInsert, At, TypeInv, HandlerInv, PerformSteps, RetireInv
<1>1. /\ actions'[a] = [status |-> "created", count |-> 0, source |-> r.source, target |-> r.target]
      /\ \A b \in ActionId \ {a} : actions'[b] = actions[b]
      /\ \A g \in Handler \ {h} : handler'[g] = handler[g]
      /\ handler'[h].pc = "p_publish"
  BY DEF PerformInsert, TypeInv, TypeOK, HandlerState
<1>2. RetiredHasNoOpenConnections'
  <2>1. ASSUME NEW i \in Item, lifecycle[i] = "retired", i \in {r.source, r.target},
               Home[r.target] = Home[i]
        PROVE  FALSE
    BY <1>0, <2>1 DEF RetireMemory, Submits, Unretired
  <2>. QED
    BY <1>0, <1>1, <2>1 DEF RetireInv, RetiredHasNoOpenConnections, Touches, Exists, Source, Target
<1>3. ASSUME NEW g \in Handler
      PROVE  RetireMemory(handler[g])'
  <2>1. CASE g = h
    BY <1>1, <2>1 DEF RetireMemory, Submits, Answers
  <2>2. CASE g # h
    <3>. DEFINE q == handler[g]
    <3>1. handler'[g] = q /\ RetireMemory(q)
      BY <1>1, <2>2 DEF RetireInv
    <3>2. Answers(q) => q.action \in ActionId \ {a}
      BY <1>0 DEF Answers, TypeInv, HandlerInv, UpdateSteps
    <3>3. q.pc = "l_retire" => q.target \notin {r.source, r.target}
      BY <1>0 DEF RetireApart, Submits, At
    <3>4. q.pc = "l_retire" => OpenConnections(q.target)' \subseteq OpenConnections(q.target)
      BY <1>0, <1>1, <3>1, <3>3 DEF OpenConnections, Touches, Exists, Source, Target
    <3>. QED
      BY <1>0, <1>1, <3>1, <3>2, <3>4
      DEF RetireMemory, Unretired, Submits, Answers, IsCancellation, SourceIsLocal, Source, Target
  <2>. QED
    BY <2>1, <2>2
<1>. QED
  BY <1>2, <1>3 DEF RetireInv

\* An answer is given while the items of its own instance are not retired, and a
\* cancellation leaves nothing open.
LEMMA RetireUpdate ==
  ASSUME TypeInv, TypeInv', RetireInv, RetireApart, NEW h \in Handler, UpdateCommit(h)
  PROVE  RetireInv'
<1>. DEFINE r == handler[h]
            a == r.action
<1>0. /\ r.pc = "update" /\ a \in ActionId /\ RetireMemory(r) /\ lifecycle' = lifecycle
      /\ Exists(a) /\ Source(a) \in Item /\ Target(a) \in Item
  BY DEF UpdateCommit, At, TypeInv, HandlerInv, RowInv, UpdateSteps, RetireInv
<1>1. /\ actions'[a].status = r.status
      /\ actions'[a].source = actions[a].source /\ actions'[a].target = actions[a].target
      /\ \A b \in ActionId \ {a} : actions'[b] = actions[b]
      /\ \A g \in Handler \ {h} : handler'[g] = handler[g]
      /\ handler'[h].pc = "publish"
  BY <1>0 DEF UpdateCommit, TypeInv, TypeOK, HandlerState, ActionRow
<1>2. \A b \in ActionId : Source(b)' = Source(b) /\ Target(b)' = Target(b)
  BY <1>1 DEF Source, Target
<1>3. IsCancellation(r.status) => r.status \in RetireTerminal
  BY DEF IsCancellation, RetireTerminal
<1>4. RetiredHasNoOpenConnections'
  <2>1. ASSUME NEW i \in Item, lifecycle[i] = "retired", i \in {Source(a), Target(a)},
               Home[Target(a)] = Home[i]
        PROVE  r.status \in RetireTerminal
    BY <1>0, <1>3, <2>1 DEF RetireMemory, Answers, Unretired, SourceIsLocal
  <2>2. ASSUME NEW b \in ActionId, NEW i \in Item, lifecycle[i] = "retired", Touches(b, i)',
               Home[Target(b)'] = Home[i]
        PROVE  actions'[b].status \in RetireTerminal
    <3>1. CASE b = a
      BY <1>1, <1>2, <2>1, <2>2, <3>1 DEF Touches
    <3>2. CASE b # a
      BY <1>1, <1>2, <2>2, <3>2 DEF Touches, Exists, RetireInv, RetiredHasNoOpenConnections
    <3>. QED
      BY <3>1, <3>2
  <2>. QED
    BY <1>0, <2>2 DEF RetiredHasNoOpenConnections
<1>5. ASSUME NEW g \in Handler
      PROVE  RetireMemory(handler[g])'
  <2>1. CASE g = h
    BY <1>1, <2>1 DEF RetireMemory, Submits, Answers
  <2>2. CASE g # h
    <3>. DEFINE q == handler[g]
    <3>1. handler'[g] = q /\ RetireMemory(q)
      BY <1>1, <2>2 DEF RetireInv
    <3>2. Answers(q) => q.action \in ActionId
      BY DEF Answers, TypeInv, HandlerInv, UpdateSteps
    <3>3. q.pc = "l_retire" => OpenConnections(q.target)' \subseteq OpenConnections(q.target)
      <4>1. SUFFICES ASSUME q.pc = "l_retire", NEW b \in OpenConnections(q.target)'
                     PROVE  b \in OpenConnections(q.target)
        BY <3>1
      <4>2. CASE b # a
        BY <1>1, <1>2, <3>1, <4>1, <4>2 DEF OpenConnections, Touches, Exists
      <4>3. CASE b = a
        <5>1. r.status \notin RetireTerminal /\ q.target \in {Source(a), Target(a)}
          BY <1>1, <1>2, <3>1, <4>1, <4>3 DEF OpenConnections, Touches
        <5>2. Answers(r)
          BY <1>0, <1>3, <5>1 DEF Answers
        <5>. QED
          BY <4>1, <5>1, <5>2 DEF RetireApart, At
      <4>. QED
        BY <4>2, <4>3
    <3>. QED
      BY <1>0, <1>2, <3>1, <3>2, <3>3
      DEF RetireMemory, Unretired, Submits, Answers, IsCancellation, SourceIsLocal
  <2>. QED
    BY <2>1, <2>2
<1>. QED
  BY <1>4, <1>5 DEF RetireInv

LEMMA RetireEnds == RetireStatus \in RetireTerminal
  BY DEF RetireStatus, RetireTerminal

\* A retire leaves none of the connections open that it has selected, and there
\* are no others.
LEMMA RetireRetires ==
  ASSUME TypeInv, TypeInv', RetireInv, RetireApart, NEW h \in Handler, RetireCommit(h)
  PROVE  RetireInv'
<1>. DEFINE r == handler[h]
            i == r.target
<1>0. r.pc = "l_retire" /\ i \in Item /\ RetireMemory(r)
  BY DEF RetireCommit, At, RetireInv, RetireMemory
<1>1. /\ \A b \in ActionId : actions'[b].source = actions[b].source
                             /\ actions'[b].target = actions[b].target
                             /\ (Exists(b)' <=> Exists(b))
      /\ \A b \in ActionId : IF b \in r.seen THEN actions'[b].status = RetireStatus
                             ELSE actions'[b] = actions[b]
  BY StatusAssumption, RetireStatusType DEF RetireCommit, TypeInv, TypeOK, ActionRow, HandlerInv, Exists
<1>2. /\ \A g \in Handler \ {h} : handler'[g] = handler[g]
      /\ handler'[h] = Idle
      /\ \A j \in Item : lifecycle'[j] = "retired" => (lifecycle[j] = "retired" \/ j = i)
  BY <1>0 DEF RetireCommit, Finish, SetLifecycle, TypeInv, TypeOK
<1>3. \A b \in ActionId : Source(b)' = Source(b) /\ Target(b)' = Target(b)
  BY <1>1 DEF Source, Target
<1>4. RetiredHasNoOpenConnections'
  <2>1. ASSUME NEW b \in ActionId, NEW j \in Item, lifecycle'[j] = "retired", Touches(b, j)',
               Home[Target(b)'] = Home[j], b \notin r.seen
        PROVE  actions[b].status \in RetireTerminal
    <3>1. Touches(b, j) /\ Home[Target(b)] = Home[j]
      BY <1>1, <1>3, <2>1 DEF Touches
    <3>2. CASE lifecycle[j] = "retired"
      BY <3>1, <3>2 DEF RetireInv, RetiredHasNoOpenConnections
    <3>3. CASE j = i
      BY <1>0, <2>1, <3>1, <3>3 DEF RetireMemory, OpenConnections
    <3>. QED
      BY <1>2, <2>1, <3>2, <3>3
  <2>. QED
    BY <1>1, <2>1, RetireEnds DEF RetiredHasNoOpenConnections
<1>5. ASSUME NEW g \in Handler
      PROVE  RetireMemory(handler[g])'
  <2>1. CASE g = h
    BY <1>2, <2>1 DEF RetireMemory, Submits, Answers, Idle
  <2>2. CASE g # h
    <3>. DEFINE q == handler[g]
    <3>1. handler'[g] = q /\ RetireMemory(q)
      BY <1>2, <2>2 DEF RetireInv
    <3>2. /\ Submits(q) => q.source \in Item \ {i} /\ q.target \in Item \ {i}
          /\ Answers(q) => /\ q.action \in ActionId
                           /\ Source(q.action) \in Item \ {i} /\ Target(q.action) \in Item \ {i}
      BY <1>0 DEF RetireApart, Submits, Answers, At, TypeInv, HandlerInv, RowInv, PerformSteps,
                  UpdateSteps
    <3>3. \A j \in Item \ {i} : Unretired(j) => lifecycle'[j] # "retired"
      BY <1>2 DEF Unretired
    <3>4. q.pc = "l_retire" => OpenConnections(q.target)' \subseteq OpenConnections(q.target)
      BY <1>1, <1>3, <3>1, RetireEnds DEF OpenConnections, Touches
    <3>. QED
      BY <1>3, <3>1, <3>2, <3>3, <3>4
      DEF RetireMemory, Unretired, Submits, Answers, IsCancellation, SourceIsLocal
  <2>. QED
    BY <2>1, <2>2
<1>. QED
  BY <1>4, <1>5 DEF RetireInv

LEMMA RetireStep ==
  ASSUME TypeInv, TypeInv', RetireInv, RetireApart, [Next]_vars
  PROVE  RetireInv'
<1>0. /\ handler \in [Handler -> HandlerState] /\ lifecycle \in [Item -> LifecycleStatus]
      /\ \A h \in Handler : RetireMemory(handler[h])
  BY DEF TypeInv, TypeOK, RetireInv
<1>1. ASSUME NEW h \in Handler,
             \/ PerformGuardianRow(h) \/ UpdateConflict(h) \/ UpdatePublish(h) \/ ContactReveal(h)
             \/ PauseCommit(h) \/ UnpauseCommit(h) \/ Abandon(h)
      PROVE  RetireInv'
  <2>1. actions' = actions /\ Finish(h)
    BY <1>1 DEF PerformGuardianRow, UpdateConflict, UpdatePublish, ContactReveal, PauseCommit,
                UnpauseCommit, Abandon, ReadOnly
  <2>2. handler'[h] = Idle /\ \A g \in Handler \ {h} : handler'[g] = handler[g]
    BY <1>0, <2>1 DEF Finish
  <2>3. \A i \in Item : lifecycle'[i] = "retired" => lifecycle[i] = "retired"
    <3>1. CASE PauseCommit(h) \/ UnpauseCommit(h)
      <4>1. handler[h].target \in Item
        BY <1>0, <3>1 DEF PauseCommit, UnpauseCommit, At, RetireMemory
      <4>2. \E s \in {"paused", "live", "draft"} : SetLifecycle(handler[h].target, s)
        BY <3>1 DEF PauseCommit, UnpauseCommit
      <4>. QED
        BY <1>0, <4>1, <4>2 DEF SetLifecycle
    <3>2. CASE ~(PauseCommit(h) \/ UnpauseCommit(h))
      <4>1. lifecycle' = lifecycle
        BY <1>1, <3>2 DEF PerformGuardianRow, UpdateConflict, UpdatePublish, ContactReveal, Abandon,
                          ReadOnly
      <4>. QED
        BY <4>1
    <3>. QED
      BY <3>1, <3>2
  <2>. QED
    BY <2>1, <2>2, <2>3, RetireIdle, RetireReads
<1>2. ASSUME NEW h \in Handler, RetireSelect(h)
      PROVE  RetireInv'
  <2>1. /\ handler'[h].pc = "l_retire" /\ handler'[h].target = handler[h].target
        /\ handler'[h].seen = OpenConnections(handler[h].target)
        /\ handler[h].pc = "l_select"
        /\ \A g \in Handler \ {h} : handler'[g] = handler[g]
        /\ UNCHANGED <<actions, lifecycle>>
    BY <1>0, <1>2 DEF RetireSelect, HandlerState, ReadOnly, At
  <2>2. RetireMemory(handler'[h])
    BY <1>0, <2>1 DEF RetireMemory, Submits, Answers
  <2>. QED
    BY <2>1, <2>2, RetireReads
<1>3. ASSUME NEW h \in Handler, Serve(h)
      PROVE  RetireInv'
  BY <1>1, <1>2, <1>3, RetireGoes, RetireReads, RetireInsert, RetireUpdate, RetireRetires DEF Serve
<1>4. CASE \/ \E e \in mirrors : StoreEvent(e) \/ LoseMirror(e)
           \/ \E i \in Item : DeleteItem(i)
           \/ UNCHANGED vars
  <2>1. UNCHANGED <<actions, handler>>
        /\ \A i \in Item : lifecycle'[i] = "retired" => lifecycle[i] = "retired"
    BY <1>0, <1>4 DEF StoreEvent, LoseMirror, DeleteItem, vars
  <2>. QED
    BY <1>0, <2>1, RetireFrame
<1>. QED
  BY <1>1, <1>3, <1>4, RetireCall DEF Next

\* A retired item has no open connection in the database of its instance, for any
\* number of items, instances and requests that overlap, if no submit or answer
\* has found the item live while its retire is under way (RetireApart): the
\* selection misses nothing else, and nothing opens a connection afterwards.
THEOREM RetiredAreDisconnected ==
  Spec /\ []RetireApart => []RetiredHasNoOpenConnections
<1>1. RetireInv => RetiredHasNoOpenConnections
  BY DEF RetireInv
<1>. QED
  BY <1>1, RetireInit, RetireStep, TypeInvariant, PTL DEF Spec
=============================================================================
