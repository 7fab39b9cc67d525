------------------------------ MODULE Profiles ------------------------------
(***************************************************************************)
(* Profiles ("items") of the users of one instance of Signals: POST        *)
(* /item/create with the single-domain lock and the per-user limit, PATCH  *)
(* /item/:itemId, the acceptance of profile consent by the owner or, for a *)
(* minor, the guardian, the two routes that record an age, POST            *)
(* /item/lifecycle, DELETE /item/:itemId and POST /user/domains.           *)
(*                                                                         *)
(* A request is served by a handler that runs one database statement, or   *)
(* several that need not be told apart, per step.  The isolation level is  *)
(* READ COMMITTED: a handler sees what others have committed, others see   *)
(* its writes when it commits, and nothing it has read is locked.          *)
(*                                                                         *)
(* Of a profile's data the model keeps whether the required fields are     *)
(* filled in (complete) and whether personal data is stored: the private   *)
(* fields, encrypted, their masks, and the locations (personal).           *)
(*                                                                         *)
(* As in Connections, a Bug operator is a wrong version of the next one.   *)
(***************************************************************************)
EXTENDS Naturals, FiniteSets

CONSTANTS
  Item,            \* items.item_id
  User,            \* users
  Domain,          \* domains served by the instance, with one item type each
  Handler,         \* requests that may be in flight at the same time
  Told,            \* bound: Told[u] are the ages that clients tell of user u
  ConsentDomain,   \* domains that list consent_required in go_live_required
  GuardianDomain,  \* domains with guardian_consent_required
  Limit,           \* max_profiles_per_user
  MayFail,         \* handlers may crash or have a statement refused
  Endpoints,       \* bound: the requests clients send
  NoItem, NoUser, NoDomain

Endpoint == {"create", "domains", "update", "accept", "guardian", "participant", "dob",
             "pause", "unpause", "retire", "delete"}
Age == {"minor", "adult"}

ASSUME ProfileAssumption ==
  /\ Told \in [User -> SUBSET Age]
  /\ ConsentDomain \subseteq Domain
  /\ GuardianDomain \subseteq Domain
  /\ Limit \in Nat \ {0}
  /\ MayFail \in BOOLEAN
  /\ Endpoints \subseteq Endpoint
  /\ NoItem \notin Item
  /\ NoUser \notin User
  /\ NoDomain \notin Domain

VARIABLES
  items,      \* items[i]: the row of items
  consents,   \* rows of consent_record in category 'profile_creation'
  age,        \* age[u]: user.age, as far as it tells minors from adults
  domain,     \* domain[u]: user.domains, which holds one domain or none
  handler,    \* handler[h]: progress and reads of the request h serves
  erased      \* history: the items that have been retired

vars == <<items, consents, age, domain, handler, erased>>

-----------------------------------------------------------------------------
(* Rows *)

Row == [status: {"none", "draft", "live", "paused", "retired", "deleted"},
        owner: User \cup {NoUser}, domain: Domain \cup {NoDomain},
        complete: BOOLEAN, personal: BOOLEAN]
NoRow == [status |-> "none", owner |-> NoUser, domain |-> NoDomain,
          complete |-> FALSE, personal |-> FALSE]

Consent == [item: Item, by: {"profile", "guardian"}]

Exists(i) == items[i].status \notin {"none", "deleted"}
Owned(u) == {i \in Item : Exists(i) /\ items[i].owner = u}

HasAcceptedProfileConsent(i, rows) == \E c \in rows : c.item = i

(* The gates between draft and live *)

ConsentRequired(d) == d \in ConsentDomain \cup GuardianDomain

\* The age gate: an unknown age blocks like a minor's, and nothing but the
\* guardian's own consent opens it for a minor.
GuardianGateBlocks(i, rows, a) ==
  /\ items[i].domain \in GuardianDomain
  /\ \/ a = "unknown"
     \/ a = "minor" /\ [item |-> i, by |-> "guardian"] \notin rows

\* classify_item for a draft or live item.
Classify(d, complete, satisfied) ==
  IF complete /\ (ConsentRequired(d) => satisfied) THEN "live" ELSE "draft"

\* promoteItemOnProfileConsent flips i, given the consents and the age that the
\* transaction sees.
Promotable(i, rows, a) ==
  /\ items[i].status = "draft"
  /\ Classify(items[i].domain, items[i].complete, ~GuardianGateBlocks(i, rows, a)) = "live"

(* Handlers *)

Idle == [pc |-> "idle", user |-> NoUser, item |-> NoItem, domain |-> NoDomain,
         row |-> NoRow, age |-> "unknown", rows |-> {}, seen |-> {}, opts |-> {}]

HandlerState ==
  [pc: {"idle", "claim", "limit", "insert", "accept", "promote", "dob",
        "gates", "write", "move", "retire"},
   user: User \cup {NoUser}, item: Item \cup {NoItem}, domain: Domain \cup {NoDomain},
   row: Row, age: Age \cup {"unknown"}, rows: SUBSET Consent, seen: SUBSET Item,
   opts: SUBSET {"accepted", "promotes", "claimed", "guardian", "locations"}]

At(h, pc) == handler[h].pc = pc
Begin(h, r) == handler' = [handler EXCEPT ![h] = r]
Finish(h) == Begin(h, Idle)

\* A step that changes nothing but the progress of its handler.
ReadOnly == UNCHANGED <<items, consents, age, domain, erased>>

\* The transaction of h has written the row of user u and not yet committed.
LocksUser(h, u) ==
  /\ handler[h].user = u
  /\ \/ "claimed" \in handler[h].opts
     \/ At(h, "promote") /\ handler[h].age # "unknown"

UserLocked(h, u) == \E g \in Handler \ {h} : LocksUser(g, u)

Init ==
  /\ items = [i \in Item |-> NoRow]
  /\ consents = {}
  /\ age \in [User -> Age \cup {"unknown"}]
  /\ domain = [u \in User |-> NoDomain]
  /\ handler = [h \in Handler |-> Idle]
  /\ erased = {}

-----------------------------------------------------------------------------
(* POST /item/create: the domain lock, the limit, the item with its consent *)

\* Consent given with the request promotes, except a minor's or that of a user
\* of unknown age in a domain with guardians.
BugSelfConsentPromotes(u, d) == d \in GuardianDomain => age[u] # "minor"
SelfConsentPromotes(u, d) == d \in GuardianDomain => age[u] = "adult"

\* With consent or, for a caller who acts on behalf of the user, without.  The
\* age is read before the transaction.
CreateBegin(h, u, d) ==
  /\ At(h, "idle")
  /\ \E opts \in {{}, IF SelfConsentPromotes(u, d) THEN {"accepted", "promotes"} ELSE {"accepted"}} :
       Begin(h, [Idle EXCEPT !.pc = "claim", !.user = u, !.domain = d, !.opts = opts])
  /\ ReadOnly

\* The conditional UPDATE of claimDomain would match the row of u.
BugClaimable(u) == Owned(u) = {}
Claimable(u) == domain[u] = NoDomain /\ Owned(u) = {}

\* It matches, waiting for a transaction that has matched before it; or the
\* user's domain is the requested one.
ClaimDomain(h) ==
  LET u == handler[h].user
  IN /\ At(h, "claim")
     /\ \/ /\ Claimable(u)
           /\ ~UserLocked(h, u)
           /\ Begin(h, [handler[h] EXCEPT !.pc = "limit", !.opts = @ \cup {"claimed"}])
        \/ /\ domain[u] = handler[h].domain
           /\ Begin(h, [handler[h] EXCEPT !.pc = "limit"])
     /\ ReadOnly

\* Another create of the same user and domain holds the advisory lock.
BugLimitLocked(h) == FALSE
LimitLocked(h) ==
  \E g \in Handler \ {h} :
    /\ At(g, "insert")
    /\ handler[g].user = handler[h].user /\ handler[g].domain = handler[h].domain

\* The profiles that count towards the limit: not the retired ones.
Counted(u, d) == {i \in Owned(u) : items[i].domain = d /\ items[i].status # "retired"}
HasRoom(h) == Cardinality(Counted(handler[h].user, handler[h].domain)) < Limit

AssertProfileLimit(h) ==
  /\ At(h, "limit")
  /\ ~LimitLocked(h)
  /\ HasRoom(h)
  /\ Begin(h, [handler[h] EXCEPT !.pc = "insert"])
  /\ ReadOnly

\* The item and the consent row, and with the commit the claim of the domain.
CreateInsert(h, i) ==
  LET u == handler[h].user
      d == handler[h].domain
      opts == handler[h].opts
  IN /\ At(h, "insert")
     /\ items[i].status = "none"
     /\ \E complete \in BOOLEAN :
          items' = [items EXCEPT ![i] =
            [status |-> Classify(d, complete, "promotes" \in opts),
             owner |-> u, domain |-> d, complete |-> complete, personal |-> TRUE]]
     /\ consents' = IF "accepted" \in opts THEN consents \cup {[item |-> i, by |-> "profile"]}
                    ELSE consents
     /\ domain' = IF "claimed" \in opts THEN [domain EXCEPT ![u] = d] ELSE domain
     /\ Finish(h)
     /\ UNCHANGED <<age, erased>>

\* POST /user/domains: the same claim, in a statement of its own.
SetDomain(u, d) ==
  /\ Claimable(u)
  /\ \A h \in Handler : ~LocksUser(h, u)
  /\ domain' = [domain EXCEPT ![u] = d]
  /\ UNCHANGED <<items, consents, age, handler, erased>>

-----------------------------------------------------------------------------
(* Consent to a profile, and promotion *)

\* POST /consent/profile-accept by the owner, unless a row is there already.
AcceptCheck(h, i) ==
  /\ At(h, "idle")
  /\ Exists(i)
  /\ ~HasAcceptedProfileConsent(i, consents)
  /\ Begin(h, [Idle EXCEPT !.pc = "accept", !.user = items[i].owner, !.item = i])
  /\ ReadOnly

\* /consent/u18/profile-consent: a minor's guardian has verified a code.
GuardianCheck(h, i) ==
  /\ At(h, "idle")
  /\ Exists(i)
  /\ age[items[i].owner] = "minor"
  /\ Begin(h, [Idle EXCEPT !.pc = "accept", !.user = items[i].owner, !.item = i,
                           !.opts = {"guardian"}])
  /\ ReadOnly

ConsentRow(h) ==
  [item |-> handler[h].item, by |-> IF "guardian" \in handler[h].opts THEN "guardian" ELSE "profile"]

\* The unique index: another transaction is about to commit the same row.
ConsentLocked(h) ==
  \E g \in Handler \ {h} : At(g, "promote") /\ ConsentRow(h) \in handler[g].rows

\* A second row of the owner violates the unique index; the guardian's is an
\* upsert.
AlreadyRecorded(h) == "guardian" \notin handler[h].opts /\ ConsentRow(h) \in consents

\* The transaction inserts the row and reads the item and the gates.
PromoteRead(h) ==
  LET i == handler[h].item
      rows == consents \cup {ConsentRow(h)}
  IN /\ At(h, "accept")
     /\ ~ConsentLocked(h)
     /\ ~AlreadyRecorded(h)
     /\ Begin(h, [handler[h] EXCEPT
          !.pc = "promote", !.rows = {ConsentRow(h)},
          !.seen = IF Promotable(i, rows, age[handler[h].user]) THEN {i} ELSE {}])
     /\ ReadOnly

\* POST /admin/participant records the age of an adult, whatever was recorded
\* before, and reads the drafts that this unblocks.
BugParticipantAge(h, u) ==
  /\ At(h, "idle")
  /\ ~UserLocked(h, u)
  /\ Begin(h, [Idle EXCEPT !.pc = "promote", !.user = u, !.age = "adult"])
  /\ ReadOnly
ParticipantAge(h, u) ==
  /\ At(h, "idle")
  /\ ~UserLocked(h, u)
  /\ Begin(h, [Idle EXCEPT
       !.pc = "promote", !.user = u, !.age = "adult",
       !.seen = {i \in Owned(u) : /\ HasAcceptedProfileConsent(i, consents)
                                  /\ Promotable(i, consents, "adult")}])
  /\ ReadOnly

\* The items found are set live by their ids, and the transaction commits.
PromoteCommit(h) ==
  /\ At(h, "promote")
  /\ items' = [i \in Item |-> IF i \in handler[h].seen /\ Exists(i)
                              THEN [items[i] EXCEPT !.status = "live"] ELSE items[i]]
  /\ consents' = consents \cup handler[h].rows
  /\ age' = IF handler[h].age = "unknown" THEN age
            ELSE [age EXCEPT ![handler[h].user] = handler[h].age]
  /\ Finish(h)
  /\ UNCHANGED <<domain, erased>>

\* POST /consent/u18/dob: no age is recorded yet ...
DobRead(h, u, a) ==
  /\ At(h, "idle")
  /\ a \in Told[u]
  /\ age[u] = "unknown"
  /\ Begin(h, [Idle EXCEPT !.pc = "dob", !.user = u, !.age = a])
  /\ ReadOnly

\* ... and a statement of its own records it.
DobCommit(h) ==
  /\ At(h, "dob")
  /\ ~UserLocked(h, handler[h].user)
  /\ age' = [age EXCEPT ![handler[h].user] = handler[h].age]
  /\ Finish(h)
  /\ UNCHANGED <<items, consents, domain, erased>>

-----------------------------------------------------------------------------
(* PATCH /item/:itemId *)

BugEditable(i) == Exists(i)
Editable(i) == Exists(i) /\ items[i].status # "retired"

\* The handler reads the row of a profile that is not retired, for new state or for new locations alone.
UpdateRead(h, i) ==
  /\ At(h, "idle")
  /\ Editable(i)
  /\ \E r \in {[pc |-> "gates", opts |-> {}], [pc |-> "write", opts |-> {"locations"}]} :
       Begin(h, [Idle EXCEPT !.pc = r.pc, !.opts = r.opts, !.item = i,
                             !.user = items[i].owner, !.row = items[i]])
  /\ ReadOnly

\* A live profile must stay complete.
LatchHolds(row, complete) == row.status = "live" => complete

\* It merges the request into the row, reads the gates and classifies: paused
\* is sticky.
UpdateGates(h, complete) ==
  LET i == handler[h].item
      row == handler[h].row
      satisfied == /\ HasAcceptedProfileConsent(i, consents)
                   /\ ~GuardianGateBlocks(i, consents, age[row.owner])
      next == IF row.status = "paused" THEN "paused"
              ELSE Classify(row.domain, complete, satisfied)
  IN /\ At(h, "gates")
     /\ LatchHolds(row, complete)
     /\ Begin(h, [handler[h] EXCEPT
          !.pc = "write",
          !.row = [row EXCEPT !.status = next, !.complete = complete, !.personal = TRUE]])
     /\ ReadOnly

\* The UPDATE names the row by its id and owner; a deleted row is not there.
UpdateWrite(h) ==
  LET i == handler[h].item
  IN /\ At(h, "write")
     /\ items' = CASE ~Exists(i) -> items
                   [] Exists(i) /\ "locations" \in handler[h].opts ->
                        [items EXCEPT ![i].personal = TRUE]
                   [] OTHER -> [items EXCEPT ![i] = handler[h].row]
     /\ Finish(h)
     /\ UNCHANGED <<consents, age, domain, erased>>

-----------------------------------------------------------------------------
(* POST /item/lifecycle and DELETE /item/:itemId *)

\* What a transition asks of the row it reads, and the status it will write.
\* Resuming classifies with the default gate alone, the required fields.
Moves ==
  [pause   |-> [from |-> {"live"}, pc |-> "move"],
   unpause |-> [from |-> {"paused"}, pc |-> "move"],
   retire  |-> [from |-> {"draft", "live", "paused"}, pc |-> "retire"]]

BugTarget(i, m) == m
Target(i, m) ==
  CASE m = "pause" -> "paused"
    [] m = "unpause" -> IF items[i].complete THEN "live" ELSE "draft"
    [] m = "retire" -> "retired"

LifecycleRead(h, i, m) ==
  /\ At(h, "idle")
  /\ items[i].status \in Moves[m].from
  /\ Begin(h, [Idle EXCEPT !.pc = Moves[m].pc, !.user = items[i].owner, !.item = i,
                           !.row = [items[i] EXCEPT !.status = Target(i, m)]])
  /\ ReadOnly

\* Pause and resume write the status by the item's id.
LifecycleCommit(h) ==
  LET i == handler[h].item
  IN /\ At(h, "move")
     /\ items' = IF Exists(i) THEN [items EXCEPT ![i].status = handler[h].row.status] ELSE items
     /\ Finish(h)
     /\ UNCHANGED <<consents, age, domain, erased>>

\* Retire erases the personal data; required fields may be among it.
RetireCommit(h) ==
  LET i == handler[h].item
  IN /\ At(h, "retire")
     /\ IF Exists(i)
        THEN /\ \E complete \in {FALSE, handler[h].row.complete} :
                  items' = [items EXCEPT ![i] =
                    [@ EXCEPT !.status = "retired", !.complete = complete, !.personal = FALSE]]
             /\ erased' = erased \cup {i}
        ELSE UNCHANGED <<items, erased>>
     /\ Finish(h)
     /\ UNCHANGED <<consents, age, domain>>

DeleteItem(i) ==
  /\ Exists(i)
  /\ items' = [items EXCEPT ![i] =
       [@ EXCEPT !.status = "deleted", !.complete = FALSE, !.personal = FALSE]]
  /\ UNCHANGED <<consents, age, domain, handler, erased>>

-----------------------------------------------------------------------------
(* A request that ends early: refused, failed and rolled back, or crashed. *)

Refused(h) ==
  \/ At(h, "claim") /\ ~Claimable(handler[h].user) /\ domain[handler[h].user] # handler[h].domain
  \/ At(h, "limit") /\ ~LimitLocked(h) /\ ~HasRoom(h)
  \/ At(h, "accept") /\ ~ConsentLocked(h) /\ AlreadyRecorded(h)

Abandon(h) ==
  /\ ~At(h, "idle")
  /\ MayFail \/ Refused(h)
  /\ Finish(h)
  /\ ReadOnly

-----------------------------------------------------------------------------
(* The specification *)

Call(h) ==
  \/ "create" \in Endpoints /\ \E u \in User, d \in Domain : CreateBegin(h, u, d)
  \/ "accept" \in Endpoints /\ \E i \in Item : AcceptCheck(h, i)
  \/ "guardian" \in Endpoints /\ \E i \in Item : GuardianCheck(h, i)
  \/ "participant" \in Endpoints /\ \E u \in User : ParticipantAge(h, u)
  \/ "dob" \in Endpoints /\ \E u \in User, a \in Age : DobRead(h, u, a)
  \/ "update" \in Endpoints /\ \E i \in Item : UpdateRead(h, i)
  \/ \E m \in Endpoints \cap DOMAIN Moves, i \in Item : LifecycleRead(h, i, m)

Serve(h) ==
  \/ ClaimDomain(h) \/ AssertProfileLimit(h)
  \/ \E i \in Item : CreateInsert(h, i)
  \/ PromoteRead(h) \/ PromoteCommit(h) \/ DobCommit(h)
  \/ \E complete \in BOOLEAN : UpdateGates(h, complete)
  \/ UpdateWrite(h) \/ LifecycleCommit(h) \/ RetireCommit(h)

Next ==
  \/ \E h \in Handler : Call(h) \/ Serve(h) \/ Abandon(h)
  \/ "domains" \in Endpoints /\ \E u \in User, d \in Domain : SetDomain(u, d)
  \/ "delete" \in Endpoints /\ \E i \in Item : DeleteItem(i)

Spec == Init /\ [][Next]_vars

-----------------------------------------------------------------------------
(* Properties *)

\* Rows, consents and handlers have the shapes the tables and handlers give them.
TypeOK ==
  /\ items \in [Item -> Row]
  /\ consents \subseteq Consent
  /\ age \in [User -> Age \cup {"unknown"}]
  /\ domain \in [User -> Domain \cup {NoDomain}]
  /\ handler \in [Handler -> HandlerState]
  /\ erased \subseteq Item

\* A user never holds more profiles of a domain than the limit, however many
\* creates race; retired ones do not count.
ProfileLimit ==
  \A u \in User, d \in Domain : Cardinality(Counted(u, d)) <= Limit

\* An account has profiles in one domain, for life: deleted ones bind too.
OneDomain ==
  \A i, j \in Item :
    items[i].status # "none" /\ items[j].status # "none" /\ items[i].owner = items[j].owner
      => items[i].domain = items[j].domain

\* The gates of item i's domain are open for it: consent is on record and, where
\* guardians are required, the owner's age is known and a minor's guardian has
\* consented to this profile.
GatesOpen(i) ==
  /\ ConsentRequired(items[i].domain) => HasAcceptedProfileConsent(i, consents)
  /\ ~GuardianGateBlocks(i, consents, age[items[i].owner])

\* No profile is shown to others before the gates are open, although every
\* status is written on the strength of reads made statements before, and
\* resuming a paused profile does not look at the gates at all.
LiveBehindGates == \A i \in Item : items[i].status = "live" => GatesOpen(i)

\* What retire has erased never comes back.
ErasedStaysErased == \A i \in erased : ~items[i].personal

\* When no request is under way, a live profile has all required fields and no
\* draft is left that could be live: consent, age and data may come and go in any
\* order, and whichever comes last decides.
StatusFitsData ==
  (\A h \in Handler : At(h, "idle")) =>
    \A i \in Item :
      /\ items[i].status = "live" => items[i].complete
      /\ items[i].status = "draft" =>
           ~(items[i].complete /\ HasAcceptedProfileConsent(i, consents) /\ GatesOpen(i))
=============================================================================
