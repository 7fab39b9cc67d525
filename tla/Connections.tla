---------------------------- MODULE Connections ----------------------------
(***************************************************************************)
(* Connection requests ("actions") between two profiles ("items"), as the  *)
(* API server of Signals keeps them in Postgres: POST /action/perform with *)
(* the write endpoint /network/action/perform, POST /action/update-status, *)
(* POST /item/lifecycle (pause, unpause, retire with the cancellation of   *)
(* open connections), DELETE /item, the reveal of contact details, and the *)
(* mirroring of action events to the instance of the source item.          *)
(*                                                                         *)
(* A request is served by a handler that runs one database statement (or   *)
(* one transaction) per step.  The isolation level is READ COMMITTED and   *)
(* no statement locks a row it only reads, so whatever a handler has read  *)
(* may be out of date at its next step.  A transaction whose only effects  *)
(* on others happen at its commit is one step.                             *)
(*                                                                         *)
(* An operator whose name begins with Bug is a wrong version of the one    *)
(* that follows it.  The specification uses none of them: PROJECT.json     *)
(* says which property TLC finds violated when one takes its place.        *)
(***************************************************************************)
EXTENDS Naturals, FiniteSets

CONSTANTS
  Item,           \* items.item_id
  User,           \* users
  Instance,       \* deployed API instances, each with its own database
  Handler,        \* requests that may be in flight at the same time
  ActionId,       \* item_actions.action_id
  Owner,          \* Owner[i]: items.created_by
  Home,           \* Home[i]: items.item_instance_url
  Minor,          \* users whose steps need a verified guardian OTP
  Status,         \* the values of action_status that occur
  Requestable,    \* those that clients of update-status send
  AcceptBucket,   \* metric_categories.accept of the interaction
  RejectBucket,   \* metric_categories.reject
  CancelBucket,   \* metric_categories.cancel
  RevealStatus,   \* reveals_pii_on_status
  Cap,            \* max_actions_per_pair
  PauseEnabled,   \* pause_enabled of the network
  MayFail,        \* handlers may crash or have a statement refused
  Endpoints,      \* bound: the requests clients send
  MaxCount,       \* bound: update_count reached by update-status
  NoItem, NoAction

ASSUME ItemAssumption ==
  /\ Owner \in [Item -> User]
  /\ Home \in [Item -> Instance]
  /\ Minor \subseteq User
  /\ NoItem \notin Item
  /\ NoAction \notin ActionId
ASSUME BoundAssumption ==
  /\ Cap \in Nat \ {0}
  /\ MaxCount \in Nat
  /\ Endpoints \subseteq {"perform", "update", "contact", "pause", "unpause", "retire", "delete"}
  /\ PauseEnabled \in BOOLEAN
  /\ MayFail \in BOOLEAN

\* A network lists its buckets over the enum of its event schema, and no
\* network lists a status among the revealing ones that a request has when it
\* is created or that a cancellation writes.
ASSUME StatusAssumption ==
  /\ {"created", "cancelled", "rejected"} \subseteq Status
  /\ "none" \notin Status
  /\ Requestable \subseteq Status
  /\ AcceptBucket \cup RejectBucket \cup CancelBucket \cup RevealStatus \subseteq Status
  /\ "created" \notin RevealStatus \cup CancelBucket
  /\ RevealStatus \cap (CancelBucket \cup {"cancelled"}) = {}

VARIABLES
  lifecycle,   \* lifecycle[i]: items.lifecycle_status
  actions,     \* actions[a]: the row of item_actions
  consents,    \* rows of consent_record in category 'action'
  events,      \* rows of action_events at the instance of the target item
  mirrors,     \* events posted to the instance of the source item, not yet stored
  stored,      \* rows of action_events at the instance of the source item
  handler,     \* handler[h]: progress and reads of the request h serves
  log,         \* history: every transition a handler committed
  disclosed    \* history: contact details that left the server

vars == <<lifecycle, actions, consents, events, mirrors, stored, handler, log, disclosed>>

-----------------------------------------------------------------------------
(* Statuses *)

\* Statuses that free the pair: not counted by assertPairCapAvailable.
TerminalStatuses ==
  {"accepted", "completed", "cancelled", "rejected", "declined", "withdrawn"}
    \cup AcceptBucket \cup RejectBucket \cup CancelBucket

\* Statuses that retiring an item leaves alone.
RetireTerminal == RejectBucket \cup CancelBucket \cup {"cancelled", "rejected"}

\* The status retiring an item gives to its open connections.
BugRetireStatus == "withdrawn"
RetireStatus ==
  IF CancelBucket = {} THEN "cancelled" ELSE CHOOSE s \in CancelBucket : TRUE

RevealsPii(s) == s \in RevealStatus \ CancelBucket

(* Rows *)

LifecycleStatus == {"draft", "live", "paused", "retired", "deleted"}

NoRow == [status |-> "none", count |-> 0, source |-> NoItem, target |-> NoItem]
ActionRow == [status: Status \cup {"none"}, count: Nat,
              source: Item \cup {NoItem}, target: Item \cup {NoItem}]
Consent == [action: ActionId, user: User, stage: {"initiate", "accept"},
            by: {"action", "guardian"}]
Event == [action: ActionId, count: Nat, status: Status]
Transition == [action: ActionId, count: Nat, status: Status,
               by: {"source", "target"}]

Exists(a) == actions[a].status # "none"
Source(a) == actions[a].source
Target(a) == actions[a].target
SourceOwner(a) == Owner[Source(a)]
TargetOwner(a) == Owner[Target(a)]

\* The row of an action is in the database of its target item's instance.
SourceIsLocal(a) == Home[Source(a)] = Home[Target(a)]
Touches(a, i) == Exists(a) /\ i \in {Source(a), Target(a)}

Between(a, i, j) == Exists(a) /\ {Source(a), Target(a)} = {i, j}

\* The open actions of a pair as the database that holds target j sees them.
OpenBetween(i, j) ==
  {a \in ActionId : /\ Between(a, i, j)
                    /\ Home[Target(a)] = Home[j]
                    /\ actions[a].status \notin TerminalStatuses}

(* Handlers *)

ProgramCounter ==
  {"idle",
   "target", "source", "update", "publish",
   "p_target", "p_source", "p_lock", "p_insert", "p_publish", "p_guardian",
   "c_other", "c_caller", "c_reveal",
   "l_pause", "l_unpause", "l_select", "l_retire"}

Idle == [pc |-> "idle", action |-> NoAction, status |-> "none", count |-> 0,
         source |-> NoItem, target |-> NoItem, seen |-> {}]

HandlerState ==
  [pc: ProgramCounter, action: ActionId \cup {NoAction},
   status: Status \cup {"none"}, count: Nat,
   source: Item \cup {NoItem}, target: Item \cup {NoItem},
   seen: SUBSET ActionId]

At(h, pc) == handler[h].pc = pc
Goto(h, pc) == handler' = [handler EXCEPT ![h].pc = pc]
Finish(h) == handler' = [handler EXCEPT ![h] = Idle]

\* A step that changes nothing but the progress of its handler.
ReadOnly == UNCHANGED <<lifecycle, actions, consents, events, mirrors, stored, log, disclosed>>

Init ==
  /\ lifecycle = [i \in Item |-> "live"]
  /\ actions = [a \in ActionId |-> NoRow]
  /\ consents = {}
  /\ events = {} /\ mirrors = {} /\ stored = {}
  /\ handler = [h \in Handler |-> Idle]
  /\ log = {}
  /\ disclosed = {}

-----------------------------------------------------------------------------
(* POST /action/perform: the instance of the source item checks the request
   and posts it to the instance of the target item, which writes it. *)

\* The proxy finds the source item owned by its caller and live.  The guardian
\* of a minor has verified a one-time code; requests it refuses change nothing.
PerformProxy(h, i, j) ==
  /\ At(h, "idle")
  /\ lifecycle[i] = "live"
  /\ handler' = [handler EXCEPT
       ![h] = [Idle EXCEPT !.pc = "p_target", !.source = i, !.target = j]]
  /\ ReadOnly

IsLive(i) == lifecycle[i] = "live"

\* The write endpoint reads the target item.
PerformReadTarget(h) ==
  /\ At(h, "p_target")
  /\ IsLive(handler[h].target)
  /\ Goto(h, "p_source")
  /\ ReadOnly

\* It reads the source item when that is its own, and refuses a request
\* between two items of one owner: of a remote item it knows only the id.
MayConnect(i, j) ==
  /\ i # j
  /\ Home[i] = Home[j] => IsLive(i) /\ Owner[i] # Owner[j]

PerformReadSource(h) ==
  /\ At(h, "p_source")
  /\ MayConnect(handler[h].source, handler[h].target)
  /\ Goto(h, "p_lock")
  /\ ReadOnly

\* Another handler is inside its insert transaction for the same pair, on the
\* same database.
BugPairLocked(h) == FALSE
PairLocked(h) ==
  \E g \in Handler \ {h} :
    /\ At(g, "p_insert")
    /\ {handler[g].source, handler[g].target} = {handler[h].source, handler[h].target}
    /\ Home[handler[g].target] = Home[handler[h].target]

PairHasRoom(h) == Cardinality(OpenBetween(handler[h].source, handler[h].target)) < Cap

\* The insert transaction takes the lock of the pair, then counts.
AssertPairCapAvailable(h) ==
  /\ At(h, "p_lock")
  /\ ~PairLocked(h)
  /\ PairHasRoom(h)
  /\ Goto(h, "p_insert")
  /\ ReadOnly

\* The consent of the initiator, required when the interaction reveals anything.
InitiateConsent(h, a) ==
  IF RevealStatus = {} THEN {}
  ELSE {[action |-> a, user |-> Owner[handler[h].source],
         stage |-> "initiate", by |-> "action"]}

\* It inserts the action and the initiator's consent, and commits.
PerformInsert(h, a) ==
  /\ At(h, "p_insert")
  /\ ~Exists(a)
  /\ actions' = [actions EXCEPT
       ![a] = [status |-> "created", count |-> 0,
               source |-> handler[h].source, target |-> handler[h].target]]
  /\ consents' = consents \cup InitiateConsent(h, a)
  /\ log' = log \cup {[action |-> a, count |-> 0, status |-> "created", by |-> "source"]}
  /\ handler' = [handler EXCEPT
       ![h] = [@ EXCEPT !.pc = "p_publish", !.action = a, !.status = "created"]]
  /\ UNCHANGED <<lifecycle, events, mirrors, stored, disclosed>>

BugEventOf(h) ==
  [action |-> handler[h].action, count |-> handler[h].count,
   status |-> actions[handler[h].action].status]
EventOf(h) ==
  [action |-> handler[h].action, count |-> handler[h].count, status |-> handler[h].status]

\* Inserting an event into a table with a unique index on action and
\* update_count: a second insert does nothing.
BugRecord(S, e) ==
  IF \E f \in S : f.action = e.action THEN S ELSE S \cup {e}
Record(S, e) ==
  IF \E f \in S : f.action = e.action /\ f.count = e.count THEN S ELSE S \cup {e}

\* insertActionEvent, then the mirror when the source item lives elsewhere.
InsertActionEvent(h) ==
  LET e == EventOf(h)
  IN /\ events' = Record(events, e)
     /\ mirrors' = IF SourceIsLocal(e.action) THEN mirrors ELSE mirrors \cup {e}

BugForMinor(h) == Owner[handler[h].target] \in Minor
ForMinor(h) == Owner[handler[h].source] \in Minor

PerformPublish(h) ==
  /\ At(h, "p_publish")
  /\ InsertActionEvent(h)
  /\ IF ForMinor(h) THEN Goto(h, "p_guardian") ELSE Finish(h)
  /\ UNCHANGED <<lifecycle, actions, consents, stored, log, disclosed>>

\* Back at the proxy, after the answer: the guardian's consent for a minor.
PerformGuardianRow(h) ==
  /\ At(h, "p_guardian")
  /\ consents' = consents \cup
       {[action |-> handler[h].action, user |-> Owner[handler[h].source],
         stage |-> "initiate", by |-> "guardian"]}
  /\ Finish(h)
  /\ UNCHANGED <<lifecycle, actions, events, mirrors, stored, log, disclosed>>

-----------------------------------------------------------------------------
(* POST /action/update-status *)

IsCancellation(s) == s \in CancelBucket

\* A cancelled action is dead.  A cancellation is the source owner's, before
\* any response; anything else is the target owner's.
BugMayUpdateCancelled(a, s) == IsCancellation(s) => actions[a].count = 0
BugMayCancelAnswered(a, s) == actions[a].status \notin CancelBucket
MayUpdate(a, s) ==
  /\ actions[a].status \notin CancelBucket
  /\ IsCancellation(s) => actions[a].count = 0

\* The handler reads the action.
UpdateRead(h, a, s) ==
  /\ At(h, "idle")
  /\ Exists(a)
  /\ actions[a].count < MaxCount
  /\ MayUpdate(a, s)
  /\ handler' = [handler EXCEPT
       ![h] = [Idle EXCEPT !.pc = IF IsCancellation(s) THEN "update" ELSE "target",
                           !.action = a, !.status = s, !.count = actions[a].count]]
  /\ ReadOnly

UpdateReadTarget(h) ==
  /\ At(h, "target")
  /\ IsLive(Target(handler[h].action))
  /\ Goto(h, "source")
  /\ ReadOnly

\* A source item of another instance is not looked at.  The step ends with the
\* guardian gate and the acknowledgement passed; a refusal changes nothing.
SourceAllows(a) == SourceIsLocal(a) => IsLive(Source(a))

UpdateReadSource(h) ==
  /\ At(h, "source")
  /\ SourceAllows(handler[h].action)
  /\ Goto(h, "update")
  /\ ReadOnly

BugAcceptConsent(h) ==
  IF RevealsPii(handler[h].status)
  THEN {[action |-> handler[h].action, user |-> TargetOwner(handler[h].action),
         stage |-> "accept", by |-> "action"]}
  ELSE {}
AcceptConsent(h) ==
  LET u == TargetOwner(handler[h].action)
  IN IF RevealsPii(handler[h].status)
     THEN [action: {handler[h].action}, user: {u}, stage: {"accept"},
           by: {"action"} \cup IF u \in Minor THEN {"guardian"} ELSE {}]
     ELSE {}

\* Nobody has committed a transition since the handler read the action.
BugCountMatches(h) == TRUE
CountMatches(h) == actions[handler[h].action].count = handler[h].count

\* The compare-and-swap on update_count with the consent rows, one transaction.
UpdateCommit(h) ==
  LET a == handler[h].action
      s == handler[h].status
      n == handler[h].count
      side == IF IsCancellation(s) THEN "source" ELSE "target"
  IN /\ At(h, "update")
     /\ CountMatches(h)
     /\ actions' = [actions EXCEPT ![a] = [@ EXCEPT !.status = s, !.count = n + 1]]
     /\ consents' = consents \cup AcceptConsent(h)
     /\ log' = log \cup {[action |-> a, count |-> n + 1, status |-> s, by |-> side]}
     /\ handler' = [handler EXCEPT ![h] = [@ EXCEPT !.pc = "publish", !.count = n + 1]]
     /\ UNCHANGED <<lifecycle, events, mirrors, stored, disclosed>>

\* ACTION_CONFLICT: somebody else's transition came first.
UpdateConflict(h) ==
  /\ At(h, "update")
  /\ ~CountMatches(h)
  /\ Finish(h)
  /\ ReadOnly

UpdatePublish(h) ==
  /\ At(h, "publish")
  /\ InsertActionEvent(h)
  /\ Finish(h)
  /\ UNCHANGED <<lifecycle, actions, consents, stored, log, disclosed>>

-----------------------------------------------------------------------------
(* The mirror: one unacknowledged POST to /event/store of the source item's
   instance, in no order, perhaps never. *)

StoreEvent(e) ==
  /\ e \in mirrors
  /\ mirrors' = mirrors \ {e}
  /\ stored' = Record(stored, e)
  /\ UNCHANGED <<lifecycle, actions, consents, events, handler, log, disclosed>>

LoseMirror(e) ==
  /\ MayFail
  /\ e \in mirrors
  /\ mirrors' = mirrors \ {e}
  /\ UNCHANGED <<lifecycle, actions, consents, events, stored, handler, log, disclosed>>

-----------------------------------------------------------------------------
(* GET contact details: the viewer owns one side and asks for the other. *)

Sides(a) == {<<Source(a), Target(a)>>, <<Target(a), Source(a)>>}

\* The handler reads the action.  Only an item of this instance is shown.
ContactRead(h, a, mine, other) ==
  /\ At(h, "idle")
  /\ Exists(a)
  /\ <<mine, other>> \in Sides(a)
  /\ Home[other] = Home[Target(a)]
  /\ handler' = [handler EXCEPT
       ![h] = [Idle EXCEPT !.pc = "c_other", !.action = a, !.status = actions[a].status,
                           !.source = mine, !.target = other]]
  /\ ReadOnly

\* It reads the masked view of the other item, then looks at the status read.
BugMayReveal(h) == IsLive(handler[h].target)
MayReveal(h) == IsLive(handler[h].target) /\ handler[h].status \in RevealStatus

ContactReadOther(h) ==
  /\ At(h, "c_other")
  /\ MayReveal(h)
  /\ Goto(h, "c_caller")
  /\ ReadOnly

\* The viewer's own item must be live too, when it is of this instance.  A
\* deleted one counts as not of this instance.
CallerAllows(h) ==
  Home[handler[h].source] = Home[Target(handler[h].action)]
    => lifecycle[handler[h].source] \in {"live", "deleted"}

ContactReadCaller(h) ==
  /\ At(h, "c_caller")
  /\ CallerAllows(h)
  /\ Goto(h, "c_reveal")
  /\ ReadOnly

\* It fetches the other item again, now with the private fields: a retired or
\* deleted item has none left.
ContactReveal(h) ==
  /\ At(h, "c_reveal")
  /\ disclosed' = IF lifecycle[handler[h].target] \in {"retired", "deleted"} THEN disclosed
                  ELSE disclosed \cup {[action |-> handler[h].action, item |-> handler[h].target]}
  /\ Finish(h)
  /\ UNCHANGED <<lifecycle, actions, consents, events, mirrors, stored, log>>

-----------------------------------------------------------------------------
(* POST /item/lifecycle and DELETE /item *)

\* What pause, unpause and retire ask of the status they read.
MayMove(i, pc) ==
  \/ pc = "l_pause" /\ PauseEnabled /\ lifecycle[i] = "live"
  \/ pc = "l_unpause" /\ lifecycle[i] = "paused"
  \/ pc = "l_select" /\ lifecycle[i] \notin {"retired", "deleted"}

\* The transaction reads the item.
LifecycleRead(h, i, pc) ==
  /\ At(h, "idle")
  /\ MayMove(i, pc)
  /\ handler' = [handler EXCEPT ![h] = [Idle EXCEPT !.pc = pc, !.target = i]]
  /\ ReadOnly

\* The UPDATE names the row by its id alone; a deleted row is not there.
SetLifecycle(i, s) ==
  lifecycle' = IF lifecycle[i] = "deleted" THEN lifecycle ELSE [lifecycle EXCEPT ![i] = s]

PauseCommit(h) ==
  /\ At(h, "l_pause")
  /\ SetLifecycle(handler[h].target, "paused")
  /\ Finish(h)
  /\ UNCHANGED <<actions, consents, events, mirrors, stored, log, disclosed>>

\* unpause classifies the item anew: live if complete and consented, else draft.
UnpauseCommit(h) ==
  /\ At(h, "l_unpause")
  /\ \E s \in {"live", "draft"} : SetLifecycle(handler[h].target, s)
  /\ Finish(h)
  /\ UNCHANGED <<actions, consents, events, mirrors, stored, log, disclosed>>

\* cancelItemConnections: the actions of the item in this database that are
\* still open.
BugOpenConnections(i) ==
  {a \in ActionId : /\ Touches(a, i)
                    /\ Home[Target(a)] = Home[i]
                    /\ actions[a].status \notin TerminalStatuses}
OpenConnections(i) ==
  {a \in ActionId : /\ Touches(a, i)
                    /\ Home[Target(a)] = Home[i]
                    /\ actions[a].status \notin RetireTerminal}

RetireSelect(h) ==
  /\ At(h, "l_select")
  /\ handler' = [handler EXCEPT
       ![h] = [@ EXCEPT !.pc = "l_retire", !.seen = OpenConnections(handler[h].target)]]
  /\ ReadOnly

\* The rows selected are cancelled, whatever became of them since and without
\* a new update_count; the item is retired and its private data erased.
RetireCommit(h) ==
  /\ At(h, "l_retire")
  /\ actions' = [a \in ActionId |->
       IF a \in handler[h].seen THEN [actions[a] EXCEPT !.status = RetireStatus]
       ELSE actions[a]]
  /\ SetLifecycle(handler[h].target, "retired")
  /\ Finish(h)
  /\ UNCHANGED <<consents, events, mirrors, stored, log, disclosed>>

\* The owner deletes the row.  Its connections are left alone.
DeleteItem(i) ==
  /\ lifecycle[i] # "deleted"
  /\ lifecycle' = [lifecycle EXCEPT ![i] = "deleted"]
  /\ UNCHANGED <<actions, consents, events, mirrors, stored, handler, log, disclosed>>

-----------------------------------------------------------------------------
(* A request that ends early: a check that refuses, a statement that fails
   and rolls its transaction back, a crash of the process. *)

\* The checks that refuse, each with nothing written.
Refused(h) ==
  \/ At(h, "p_target") /\ ~IsLive(handler[h].target)
  \/ At(h, "p_source") /\ ~MayConnect(handler[h].source, handler[h].target)
  \/ At(h, "p_lock") /\ ~PairLocked(h) /\ ~PairHasRoom(h)
  \/ At(h, "target") /\ ~IsLive(Target(handler[h].action))
  \/ At(h, "source") /\ ~SourceAllows(handler[h].action)
  \/ At(h, "c_other") /\ ~MayReveal(h)
  \/ At(h, "c_caller") /\ ~CallerAllows(h)

Abandon(h) ==
  /\ ~At(h, "idle")
  /\ MayFail \/ Refused(h)
  /\ Finish(h)
  /\ ReadOnly

-----------------------------------------------------------------------------
(* The specification *)

\* A user sends a request that passes the first check of its handler.
Call(h) ==
  \/ "perform" \in Endpoints /\ \E i, j \in Item : PerformProxy(h, i, j)
  \/ "update" \in Endpoints /\ \E a \in ActionId, s \in Requestable : UpdateRead(h, a, s)
  \/ "contact" \in Endpoints /\ \E a \in ActionId, i, j \in Item : ContactRead(h, a, i, j)
  \/ "pause" \in Endpoints /\ \E i \in Item : LifecycleRead(h, i, "l_pause")
  \/ "unpause" \in Endpoints /\ \E i \in Item : LifecycleRead(h, i, "l_unpause")
  \/ "retire" \in Endpoints /\ \E i \in Item : LifecycleRead(h, i, "l_select")

\* The server goes on with a request it has accepted.
Serve(h) ==
  \/ PerformReadTarget(h) \/ PerformReadSource(h) \/ AssertPairCapAvailable(h)
  \/ \E a \in ActionId : PerformInsert(h, a)
  \/ PerformPublish(h) \/ PerformGuardianRow(h)
  \/ UpdateReadTarget(h) \/ UpdateReadSource(h)
  \/ UpdateCommit(h) \/ UpdateConflict(h) \/ UpdatePublish(h)
  \/ ContactReadOther(h) \/ ContactReadCaller(h) \/ ContactReveal(h)
  \/ PauseCommit(h) \/ UnpauseCommit(h)
  \/ RetireSelect(h) \/ RetireCommit(h)

Next ==
  \/ \E h \in Handler : Call(h) \/ Serve(h) \/ Abandon(h)
  \/ \E e \in mirrors : StoreEvent(e) \/ LoseMirror(e)
  \/ "delete" \in Endpoints /\ \E i \in Item : DeleteItem(i)

Spec == Init /\ [][Next]_vars

\* A running process goes on with every request it has accepted, and a posted
\* event arrives; nobody has to send a request.
Fairness ==
  /\ \A h \in Handler : WF_vars(Serve(h))
  /\ WF_vars(\E e \in mirrors : StoreEvent(e))

FairSpec == Spec /\ Fairness

-----------------------------------------------------------------------------
(* Properties *)

\* Rows, events and handlers have the shapes the tables and handlers give them;
\* in particular no transition writes a status outside the network's.
TypeOK ==
  /\ lifecycle \in [Item -> LifecycleStatus]
  /\ actions \in [ActionId -> ActionRow]
  /\ consents \subseteq Consent
  /\ events \subseteq Event
  /\ mirrors \subseteq Event
  /\ stored \subseteq Event
  /\ handler \in [Handler -> HandlerState]
  /\ log \subseteq Transition
  /\ disclosed \subseteq [action: ActionId, item: Item]

\* Each update_count of an action names one committed transition: of two
\* handlers that read the same count, one commits and the other conflicts.
TransitionPerCount ==
  \A e, f \in log : e.action = f.action /\ e.count = f.count => e = f

\* The source owner's withdrawal and the target owner's responses exclude each
\* other for good: an application that was pulled is never accepted, and one
\* that was answered is never pulled, however the two requests interleave.
WithdrawnOrAnswered ==
  \A e, f \in log :
    e.action = f.action /\ e.count > 0 /\ f.count > 0 => e.by = f.by

\* A row with a status that reveals contact details has the consents of both
\* sides on record, and for a minor who accepted the guardian's as well.
RevealNeedsBothConsents ==
  \A a \in ActionId : actions[a].status \in RevealStatus =>
    /\ [action |-> a, user |-> SourceOwner(a), stage |-> "initiate", by |-> "action"] \in consents
    /\ [action |-> a, user |-> TargetOwner(a), stage |-> "accept", by |-> "action"] \in consents
    /\ TargetOwner(a) \in Minor =>
         [action |-> a, user |-> TargetOwner(a), stage |-> "accept", by |-> "guardian"] \in consents

\* Contact details that left the server were covered by the receiver's consent
\* to a response that had been committed, although the status is read first
\* and the private fields three statements later.
DisclosureConsented ==
  \A d \in disclosed :
    /\ [action |-> d.action, user |-> TargetOwner(d.action), stage |-> "accept", by |-> "action"]
         \in consents
    /\ \E e \in log : e.action = d.action /\ e.by = "target" /\ e.status \in RevealStatus

\* An event, here or at the source item's instance, tells of a transition that
\* was committed, and no two of one instance tell of the same update_count.
EventsTellTheLog ==
  /\ \A e \in events \cup stored :
       \E t \in log : t.action = e.action /\ t.count = e.count /\ t.status = e.status
  /\ \A S \in {events, stored} : \A e, f \in S :
       e.action = f.action /\ e.count = f.count => e = f

\* At most Cap open actions between two items, in either direction.
OpenOfPair(i, j) ==
  {a \in ActionId : Between(a, i, j) /\ actions[a].status \notin TerminalStatuses}
PairWithinCap ==
  \A i, j \in Item : Cardinality(OpenOfPair(i, j)) <= Cap

\* A retired item has no open connection left in the database of its instance.
RetiredHasNoOpenConnections ==
  \A a \in ActionId, i \in Item :
    lifecycle[i] = "retired" /\ Touches(a, i) /\ Home[Target(a)] = Home[i]
      => actions[a].status \in RetireTerminal

\* The guardian's consent to a minor's request is written after the request
\* itself, by another server; it still follows, when no process crashes.
GuardianRowFollows ==
  \A a \in ActionId :
    Exists(a) /\ SourceOwner(a) \in Minor
      ~> \E c \in consents : c.action = a /\ c.stage = "initiate" /\ c.by = "guardian"

\* Every committed transition is published at the target's instance, and the
\* instance of a remote source item learns of it, when no process crashes and no
\* message is lost.
TransitionArrives ==
  \A a \in ActionId, n \in 0..MaxCount :
    (\E t \in log : t.action = a /\ t.count = n)
      ~> /\ \E e \in events : e.action = a /\ e.count = n
         /\ SourceIsLocal(a) \/ \E e \in stored : e.action = a /\ e.count = n

\* A cancelled action is dead: nobody's transition leads out of the cancel
\* bucket.
CancelledIsFinal ==
  [][\A a \in ActionId : actions[a].status \in CancelBucket
                            => actions'[a].status \in CancelBucket]_vars

(***************************************************************************)
(* The refinement: the phase of a request is what the log says of it.      *)
(***************************************************************************)
Moved(a, side) == \E e \in log : e.action = a /\ e.count > 0 /\ e.by = side

PhaseOf(a) ==
  CASE ~Exists(a) -> "absent"
    [] Exists(a) /\ Moved(a, "target") -> "answered"
    [] Exists(a) /\ ~Moved(a, "target") /\ Moved(a, "source") -> "withdrawn"
    [] OTHER -> "open"

Promise == INSTANCE Negotiation WITH
  Request <- ActionId,
  phase <- [a \in ActionId |-> PhaseOf(a)],
  turn <- [a \in ActionId |-> actions[a].count],
  consented <- {c.action : c \in {d \in consents : d.stage = "accept"}},
  shown <- {d.action : d \in disclosed}

\* Every step of the server is a step of the negotiation or changes nothing
\* the two sides can tell: in particular no answer follows a withdrawal, no
\* withdrawal an answer, and nothing is shown before the target consented.
KeepsPromise == Promise!Spec

=============================================================================
