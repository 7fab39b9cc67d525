----------------------- MODULE ConnectionsRefinement -----------------------
(***************************************************************************)
(* The server keeps the promise of Negotiation, for any number of items,   *)
(* users, instances, handlers and actions.                                 *)
(***************************************************************************)
EXTENDS ConnectionsProofs

\* What the two sides of action a can tell of it.
Phases == [a \in ActionId |-> PhaseOf(a)]
Turns == [a \in ActionId |-> actions[a].count]
Consented == {c.action : c \in {d \in consents : d.stage = "accept"}}
Shown == {d.action : d \in disclosed}

\* No row, no count.
BlankInv == \A a \in ActionId : ~Exists(a) => actions[a].count = 0

LEMMA BlankInit == Init => BlankInv
  BY DEF Init, BlankInv, NoRow

\* A step that takes no turn: every action still exists if it did, has the
\* count and the log it had, and nobody has consented or been shown anything.
Silent ==
  /\ \A a \in ActionId : Exists(a)' = Exists(a) /\ actions'[a].count = actions[a].count
  /\ UNCHANGED <<log, disclosed>>
  /\ Consented' = Consented

LEMMA SilentStutters ==
  ASSUME Silent
  PROVE  UNCHANGED <<Phases, Turns, Consented, Shown>>
<1>1. \A a \in ActionId : PhaseOf(a)' = PhaseOf(a)
  BY DEF Silent, PhaseOf, Moved
<1>. QED
  BY <1>1 DEF Silent, Phases, Turns, Shown

\* Every other action than the one a step moves stays as it was.
LEMMA OthersStay ==
  ASSUME NEW a \in ActionId, NEW b \in ActionId, a # b, actions'[b] = actions[b],
         NEW t, t.action = a, log' = log \cup {t}
  PROVE  PhaseOf(b)' = PhaseOf(b)
  BY DEF PhaseOf, Moved, Exists

LEMMA InsertMakes ==
  ASSUME TypeInv, CasInv, BlankInv, NEW h \in Handler, NEW a \in ActionId, PerformInsert(h, a)
  PROVE  Promise!Make(a)
<1>. DEFINE t == [action |-> a, count |-> 0, status |-> "created", by |-> "source"]
<1>1. /\ ~Exists(a) /\ actions[a].count = 0
      /\ actions'[a].status = "created" /\ actions'[a].count = 0
      /\ \A b \in ActionId \ {a} : actions'[b] = actions[b]
      /\ log' = log \cup {t} /\ disclosed' = disclosed
      /\ consents' = consents \cup InitiateConsent(h, a)
  BY DEF PerformInsert, TypeInv, TypeOK, BlankInv
<1>2. \A e \in log : e.action # a
  BY <1>1 DEF CasInv, LogInv
<1>3. PhaseOf(a) = "absent"
  BY <1>1 DEF PhaseOf
<1>4. PhaseOf(a)' = "open"
  <2>1. Exists(a)'
    BY <1>1 DEF Exists
  <2>2. ~Moved(a, "target")' /\ ~Moved(a, "source")'
    BY <1>1, <1>2 DEF Moved
  <2>. QED
    BY <2>1, <2>2 DEF PhaseOf
<1>5. \A b \in ActionId \ {a} : PhaseOf(b)' = PhaseOf(b)
  BY <1>1, OthersStay
<1>6. Consented' = Consented
  BY <1>1 DEF InitiateConsent, Consented
<1>7. Phases' = [Phases EXCEPT ![a] = "open"]
  BY <1>4, <1>5 DEF Phases
<1>8. Turns' = Turns /\ Shown' = Shown
  BY <1>1 DEF Turns, Shown
<1>. QED
  BY <1>3, <1>6, <1>7, <1>8 DEF Promise!Make, Phases, Turns, Consented, Shown

LEMMA CommitMoves ==
  ASSUME TypeInv, CasInv, NEW h \in Handler, UpdateCommit(h)
  PROVE  \E a \in ActionId : Promise!Withdraw(a) \/ Promise!Answer(a)
<1>1. PICK a \in ActionId, n \in Nat, s \in Status :
        /\ a = handler[h].action /\ n = handler[h].count /\ s = handler[h].status
        /\ Exists(a) /\ actions[a].count = n
        /\ IsCancellation(s) => n = 0
        /\ handler[h].pc = "update"
  BY DEF UpdateCommit, CountMatches, At, TypeInv, TypeOK, HandlerInv, HandlerState, CasInv,
         MemoryInv, UpdateSteps
<1>. DEFINE side == IF IsCancellation(s) THEN "source" ELSE "target"
            t == [action |-> a, count |-> n + 1, status |-> s, by |-> side]
<1>2. /\ log' = log \cup {t} /\ disclosed' = disclosed
      /\ consents' = consents \cup AcceptConsent(h)
      /\ \A b \in ActionId \ {a} : actions'[b] = actions[b]
      /\ actions'[a].status = s /\ actions'[a].count = n + 1
  BY <1>1 DEF UpdateCommit, TypeInv, TypeOK, ActionRow
<1>3. Exists(a)'
  BY <1>1, <1>2, StatusAssumption DEF Exists
\* A handler that may commit remembers a count no withdrawal has followed.
<1>4. ~Moved(a, "source")
  BY <1>1 DEF CasInv, MemoryInv, Moved, Withdrawal, UpdateSteps, TypeInv, TypeOK, Transition,
              LogInv
<1>5. n = 0 => ~Moved(a, "target")
  BY <1>1 DEF CasInv, LogInv, Moved, TypeInv, TypeOK, Transition
<1>6. PhaseOf(a) = IF Moved(a, "target") THEN "answered" ELSE "open"
  BY <1>1, <1>4 DEF PhaseOf
<1>7. Moved(a, side)' /\ \A x : Moved(a, x) => Moved(a, x)'
  <2>1. t \in log' /\ t.action = a /\ t.count > 0 /\ t.by = side
    BY <1>2
  <2>2. log \subseteq log'
    BY <1>2
  <2>. HIDE DEF t, side
  <2>3. Moved(a, side)'
    BY <2>1 DEF Moved
  <2>. QED
    BY <2>2, <2>3 DEF Moved
<1>8. \A x : x # side => (Moved(a, x)' <=> Moved(a, x))
  BY <1>2 DEF Moved
<1>9. /\ \A b \in ActionId \ {a} : PhaseOf(b)' = PhaseOf(b)
      /\ Turns' = [Turns EXCEPT ![a] = Turns[a] + 1]
      /\ Shown' = Shown
  <2>1. \A b \in ActionId \ {a} : PhaseOf(b)' = PhaseOf(b)
    BY <1>2, OthersStay
  <2>2. Turns' = [Turns EXCEPT ![a] = Turns[a] + 1]
    BY <1>1, <1>2 DEF Turns
  <2>. QED
    BY <1>2, <2>1, <2>2 DEF Shown
<1>10. CASE IsCancellation(s)
  <2>1. PhaseOf(a) = "open"
    BY <1>1, <1>5, <1>6, <1>10
  <2>2. PhaseOf(a)' = "withdrawn"
    BY <1>1, <1>3, <1>5, <1>7, <1>8, <1>10 DEF PhaseOf
  <2>3. Consented' = Consented
    BY <1>1, <1>2, <1>10 DEF AcceptConsent, RevealsPii, IsCancellation, Consented
  <2>4. Phases' = [Phases EXCEPT ![a] = "withdrawn"]
    BY <1>9, <2>2 DEF Phases
  <2>5. Promise!Withdraw(a)
    BY <1>9, <2>1, <2>3, <2>4 DEF Promise!Withdraw, Phases, Turns, Consented, Shown
  <2>. QED
    BY <2>5
<1>11. CASE ~IsCancellation(s)
  <2>1. PhaseOf(a) \in {"open", "answered"}
    BY <1>6
  <2>2. PhaseOf(a)' = "answered"
    BY <1>3, <1>7, <1>11 DEF PhaseOf
  <2>3. Consented' \in {Consented, Consented \cup {a}}
    <3>1. CASE RevealsPii(s)
      <4>1. \A c \in AcceptConsent(h) : c.action = a /\ c.stage = "accept"
        BY <1>1, <3>1 DEF AcceptConsent
      <4>2. \E c \in AcceptConsent(h) : c.action = a /\ c.stage = "accept"
        <5>1. [action |-> a, user |-> TargetOwner(a), stage |-> "accept", by |-> "action"]
                \in AcceptConsent(h)
          BY <1>1, <3>1 DEF AcceptConsent
        <5>. QED
          BY <5>1
      <4>. QED
        BY <1>2, <4>1, <4>2 DEF Consented
    <3>2. CASE ~RevealsPii(s)
      BY <1>1, <1>2, <3>2 DEF AcceptConsent, Consented
    <3>. QED
      BY <3>1, <3>2
  <2>4. Phases' = [Phases EXCEPT ![a] = "answered"]
    BY <1>9, <2>2 DEF Phases
  <2>5. Promise!Answer(a)
    BY <1>9, <2>1, <2>3, <2>4 DEF Promise!Answer, Phases, Turns, Consented, Shown
  <2>. QED
    BY <2>5
<1>. QED
  BY <1>10, <1>11

LEMMA RevealShows ==
  ASSUME TypeInv, ViewerInv, NEW h \in Handler, ContactReveal(h)
  PROVE  (\E a \in ActionId : Promise!Show(a)) \/ Silent
<1>1. PICK a \in ActionId : a = handler[h].action
  BY DEF ContactReveal, At, TypeInv, HandlerInv, ContactSteps
<1>2. /\ UNCHANGED <<actions, consents, log>>
      /\ \/ disclosed' = disclosed
         \/ disclosed' = disclosed \cup {[action |-> a, item |-> handler[h].target]}
  BY <1>1 DEF ContactReveal
<1>3. a \in Consented
  <2>1. Agreed(a)
    BY <1>1 DEF ContactReveal, At, ViewerInv, ContactSteps
  <2>. QED
    BY <2>1 DEF Agreed, Consented
<1>4. UNCHANGED <<Phases, Turns, Consented>>
  BY <1>2 DEF Phases, PhaseOf, Moved, Exists, Turns, Consented
<1>5. CASE disclosed' = disclosed
  BY <1>2, <1>5 DEF Silent, Exists, Consented
<1>6. CASE disclosed' = disclosed \cup {[action |-> a, item |-> handler[h].target]}
  <2>1. Shown' = Shown \cup {a}
    <3>. DEFINE d == [action |-> a, item |-> handler[h].target]
    <3>1. d.action = a /\ disclosed' = disclosed \cup {d}
      BY <1>6
    <3>. HIDE DEF d
    <3>. QED
      BY <3>1 DEF Shown
  <2>2. Promise!Show(a)
    BY <1>3, <1>4, <2>1 DEF Promise!Show, Phases, Turns, Consented, Shown
  <2>. QED
    BY <2>2
<1>. QED
  BY <1>2, <1>5, <1>6

\* Retiring an item is no move of either side: it takes no turn.
LEMMA RetireIsSilent ==
  ASSUME TypeInv, NEW h \in Handler, RetireCommit(h)
  PROVE  Silent
  BY RetireStatusType, StatusAssumption
  DEF RetireCommit, Silent, Consented, TypeInv, TypeOK, HandlerInv, ActionRow, Exists

LEMMA GuardianRowIsSilent ==
  ASSUME NEW h \in Handler, PerformGuardianRow(h)
  PROVE  Silent
<1>. DEFINE g == [action |-> handler[h].action, user |-> Owner[handler[h].source],
                  stage |-> "initiate", by |-> "guardian"]
<1>1. /\ UNCHANGED <<actions, log, disclosed>>
      /\ consents' = consents \cup {g} /\ g.stage # "accept"
  BY DEF PerformGuardianRow
<1>. HIDE DEF g
<1>. QED
  BY <1>1 DEF Silent, Consented, Exists

LEMMA OtherStepsAreSilent ==
  ASSUME UNCHANGED <<actions, consents, log, disclosed>>
  PROVE  Silent
  BY DEF Silent, Consented, Exists

Moves == \E a \in ActionId :
  Promise!Make(a) \/ Promise!Withdraw(a) \/ Promise!Answer(a) \/ Promise!Show(a)

LEMMA EveryStep ==
  ASSUME TypeInv, CasInv, ViewerInv, BlankInv, [Next]_vars
  PROVE  Moves \/ Silent
<1>1. ASSUME NEW h \in Handler, Call(h) PROVE Silent
  BY <1>1, OtherStepsAreSilent
  DEF Call, PerformProxy, UpdateRead, ContactRead, LifecycleRead, ReadOnly
<1>2. ASSUME NEW h \in Handler, Serve(h) PROVE Moves \/ Silent
  <2>1. CASE \/ PerformReadTarget(h) \/ PerformReadSource(h) \/ AssertPairCapAvailable(h)
             \/ PerformPublish(h) \/ UpdateReadTarget(h) \/ UpdateReadSource(h)
             \/ UpdateConflict(h) \/ UpdatePublish(h)
             \/ ContactReadOther(h) \/ ContactReadCaller(h)
             \/ PauseCommit(h) \/ UnpauseCommit(h) \/ RetireSelect(h)
    BY <2>1, OtherStepsAreSilent
    DEF PerformReadTarget, PerformReadSource, AssertPairCapAvailable, PerformPublish,
        UpdateReadTarget, UpdateReadSource, UpdateConflict, UpdatePublish, ContactReadOther,
        ContactReadCaller, PauseCommit, UnpauseCommit, RetireSelect, ReadOnly
  <2>. QED
    BY <1>2, <2>1, InsertMakes, CommitMoves, RevealShows, RetireIsSilent, GuardianRowIsSilent
    DEF Serve, Moves
<1>3. CASE \/ \E h \in Handler : Abandon(h)
           \/ \E e \in mirrors : StoreEvent(e) \/ LoseMirror(e)
           \/ \E i \in Item : DeleteItem(i)
           \/ UNCHANGED vars
  BY <1>3, OtherStepsAreSilent DEF Abandon, ReadOnly, StoreEvent, LoseMirror, DeleteItem, vars
<1>. QED
  BY <1>1, <1>2, <1>3 DEF Next

LEMMA BlankStep ==
  ASSUME TypeInv, BlankInv, [Next]_vars
  PROVE  BlankInv'
<1>1. CASE UNCHANGED actions
  BY <1>1 DEF BlankInv, Exists
<1>2. ASSUME NEW h \in Handler, NEW a \in ActionId, PerformInsert(h, a) PROVE BlankInv'
  BY <1>2 DEF PerformInsert, BlankInv, TypeInv, TypeOK, Exists
<1>3. ASSUME NEW h \in Handler, UpdateCommit(h) PROVE BlankInv'
  <2>1. handler[h].action \in ActionId /\ handler[h].status \in Status
    BY <1>3 DEF UpdateCommit, At, TypeInv, HandlerInv, UpdateSteps
  <2>. QED
    BY <1>3, <2>1, StatusAssumption DEF UpdateCommit, BlankInv, TypeInv, TypeOK, ActionRow, Exists
<1>4. ASSUME NEW h \in Handler, RetireCommit(h) PROVE BlankInv'
  BY <1>4, RetireIsSilent DEF Silent, BlankInv
<1>5. ASSUME NEW h \in Handler, Call(h) PROVE UNCHANGED actions
  BY <1>5 DEF Call, PerformProxy, UpdateRead, ContactRead, LifecycleRead, ReadOnly
<1>6. ASSUME NEW h \in Handler, Serve(h), ~UpdateCommit(h), ~RetireCommit(h),
             \A a \in ActionId : ~PerformInsert(h, a)
      PROVE  UNCHANGED actions
  BY <1>6
  DEF Serve, PerformReadTarget, PerformReadSource, AssertPairCapAvailable, PerformPublish,
      PerformGuardianRow, UpdateReadTarget, UpdateReadSource, UpdateConflict, UpdatePublish,
      ContactReadOther, ContactReadCaller, ContactReveal, PauseCommit, UnpauseCommit,
      RetireSelect, ReadOnly
<1>7. CASE \/ \E h \in Handler : Abandon(h)
           \/ \E e \in mirrors : StoreEvent(e) \/ LoseMirror(e)
           \/ \E i \in Item : DeleteItem(i)
           \/ UNCHANGED vars
  BY <1>1, <1>7 DEF Abandon, ReadOnly, StoreEvent, LoseMirror, DeleteItem, vars
<1>. QED
  BY <1>1, <1>2, <1>3, <1>4, <1>5, <1>6, <1>7 DEF Next

LEMMA BlankInvariant == Spec => []BlankInv
  BY TypeInvariant, BlankInit, BlankStep, PTL DEF Spec

LEMMA PromiseInit == Init => Promise!Init
<1>. SUFFICES ASSUME Init PROVE Promise!Init
  OBVIOUS
<1>1. \A a \in ActionId : PhaseOf(a) = "absent" /\ actions[a].count = 0
  BY DEF Init, PhaseOf, Exists, NoRow
<1>2. Consented = {} /\ Shown = {}
  BY DEF Init, Consented, Shown
<1>. QED
  BY <1>1, <1>2 DEF Promise!Init, Consented, Shown

LEMMA PromiseStep ==
  ASSUME TypeInv, CasInv, ViewerInv, BlankInv, [Next]_vars
  PROVE  [Promise!Next]_(Promise!nvars)
<1>1. CASE Moves
  BY <1>1 DEF Moves, Promise!Next
<1>2. CASE Silent
  BY <1>2, SilentStutters DEF Promise!nvars, Phases, Turns, Consented, Shown
<1>. QED
  BY <1>1, <1>2, EveryStep

\* The server implements the negotiation: seen through the map from rows, log
\* and consents to phases, each of its steps is a request, a withdrawal, an
\* answer, a showing of details, or nothing.
THEOREM ServerKeepsPromise == Spec => KeepsPromise
  BY TypeInvariant, CasInvariant, ConsentInvariant, BlankInvariant, PromiseInit, PromiseStep, PTL
  DEF Spec, KeepsPromise, Promise!Spec
=============================================================================
