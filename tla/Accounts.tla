------------------------------ MODULE Accounts ------------------------------
(***************************************************************************)
(* How a person gets an account and what is decided about it once: the     *)
(* identity in the realm of Keycloak, the row in "user" that mirrors it,   *)
(* the domain the account is locked to and the aggregator that owns it.    *)
(*                                                                         *)
(* An account starts on either side.  Self-signup creates the identity and *)
(* parks the chosen domain in Redis until the first login creates the row. *)
(* Onboarding by an organization creates the row, with a profile if one is *)
(* sent, and then the identity.  The two are joined by nothing but the id  *)
(* and the identifiers, and no transaction covers both.                    *)
(*                                                                         *)
(* A statement or a transaction on the database, a call of Keycloak and a  *)
(* group of commands to Redis are steps of their own.  As in Connections,  *)
(* a Bug operator is a wrong version of the one that follows it.           *)
(***************************************************************************)
EXTENDS Naturals, FiniteSets

CONSTANTS
  Id,             \* bound: the ids that are ever minted
  Email, Phone, Domain, Org,
  Form,           \* what requests say of a person: see FormType
  DefaultDomain,  \* of a profile whose domain onboarding is not told
  Handler,        \* requests that may be in flight at the same time
  Open,           \* anyone may sign up
  MaxFaults,      \* bound: crashes, lost replies, changes of a phone number
  NoId, NoEmail, NoPhone, NoDomain, NoOrg

FormType == [email: Email \cup {NoEmail}, phone: Phone \cup {NoPhone},
             domain: Domain \cup {NoDomain}]

ASSUME AccountAssumption ==
  /\ Form \subseteq {f \in FormType : f.email # NoEmail \/ f.phone # NoPhone}
  /\ DefaultDomain \in Domain
  /\ Open \in BOOLEAN
  /\ MaxFaults \in Nat
  /\ Email \cap Phone = {}
  /\ NoId \notin Id
  /\ NoEmail \notin Email \cup Phone
  /\ NoPhone \notin Email \cup Phone
  /\ NoDomain \notin Domain
  /\ NoOrg \notin Org

VARIABLES
  identity,     \* identity[i]: the user with id i in the realm
  account,      \* account[i]: the row with id i in "user"
  stash,        \* stash[k]: what is parked in Redis under identifier k
  item,         \* the profiles: pairs of owner and domain
  nominee,      \* nominee[d]: the default aggregator of domain d
  handler,      \* handler[h]: progress and reads of the request h serves
  applied,      \* history: the signup whose stash account i received
  ownedFor,     \* history: the domain whose default aggregator owns account i
  disturbed,    \* history: accounts that met a known race, see the properties
  cutOff,       \* history: accounts whose onboarding stopped before the identity
  faults        \* the number of faults so far

vars == <<identity, account, stash, item, nominee, handler, applied, ownedFor,
          disturbed, cutOff, faults>>

-----------------------------------------------------------------------------
(* Rows and identifiers *)

NoIdentity == [username |-> NoEmail, email |-> NoEmail, phone |-> NoPhone]
Identity == [username: Email \cup Phone, email: Email \cup {NoEmail},
             phone: Phone \cup {NoPhone}] \cup {NoIdentity}

NoAccount == [email |-> NoEmail, phone |-> NoPhone, domain |-> NoDomain,
              owner |-> NoOrg, byDefault |-> FALSE]
Account == [email: Email \cup {NoEmail}, phone: Phone \cup {NoPhone},
            domain: Domain \cup {NoDomain}, owner: Org \cup {NoOrg}, byDefault: BOOLEAN]

NoStash == [id |-> NoId, domain |-> NoDomain, keys |-> {}]
Stash == [id: Id, domain: Domain, keys: SUBSET (Email \cup Phone)] \cup {NoStash}

NoForm == [email |-> NoEmail, phone |-> NoPhone, domain |-> NoDomain]
NoOwner == [org |-> NoOrg, byDefault |-> FALSE]
Owner == [org: Org \cup {NoOrg}, byDefault: BOOLEAN]

Idle == [pc |-> "idle", id |-> NoId, form |-> NoForm, owner |-> NoOwner,
         withItem |-> FALSE, stash |-> NoStash]

HandlerState ==
  [pc: {"idle", "lookup", "import", "park", "refresh", "clash", "insert", "take",
        "delete", "apply", "tag", "held", "onboard", "mint", "orphan", "add"},
   id: Id \cup {NoId}, form: FormType, owner: Owner, withItem: BOOLEAN, stash: Stash]

At(h, pc) == handler[h].pc = pc
Begin(h, r) == handler' = [handler EXCEPT ![h] = r]
Goto(h, pc) == Begin(h, [handler[h] EXCEPT !.pc = pc])
Finish(h) == Begin(h, Idle)

history == <<applied, ownedFor, disturbed, cutOff>>

Fault == faults < MaxFaults /\ faults' = faults + 1

\* A row or an identity r answers to an identifier of f.
Matches(r, f) ==
  \/ r.email # NoEmail /\ r.email = f.email
  \/ r.phone # NoPhone /\ r.phone = f.phone

HasIdentity(i) == identity[i] # NoIdentity

HasAccount(i) == account[i] # NoAccount

Holders(f) == {i \in Id : Matches(account[i], f)}
InRealm(f) == {i \in Id : Matches(identity[i], f)}

Fresh(i) ==
  ~HasIdentity(i) /\ ~HasAccount(i) /\ \A h \in Handler : handler[h].id # i

\* The rows that a request of the person behind i may concern.
LoggedIn(i) == HasIdentity(i) /\ HasAccount(i)

KeysFor(f) == {f.email, f.phone} \ {NoEmail, NoPhone}

\* The user name is the email, or else the phone number.
Username(f) == IF f.email # NoEmail THEN f.email ELSE f.phone
IdentityOf(f) == [username |-> Username(f), email |-> f.email, phone |-> f.phone]

\* An account that is older than the column "domains", or none.
Init ==
  /\ \E l \in Id \cup {NoId}, f \in Form, d \in Domain :
       /\ identity = [i \in Id |-> IF i = l THEN IdentityOf(f) ELSE NoIdentity]
       /\ account = [i \in Id |-> IF i = l THEN [NoAccount EXCEPT !.email = f.email,
                                                                  !.phone = f.phone]
                                  ELSE NoAccount]
       /\ item = (Id \cap {l}) \X {d}
  /\ stash = [k \in Email \cup Phone |-> NoStash]
  /\ nominee = [d \in Domain |-> NoOrg]
  /\ handler = [h \in Handler |-> Idle]
  /\ applied = [i \in Id |-> NoId]
  /\ ownedFor = [i \in Id |-> NoDomain]
  /\ disturbed = {} /\ cutOff = {}
  /\ faults = 0

-----------------------------------------------------------------------------
(* The domain and the owner of an account *)

\* The domains an account is held to: the column, or else its items.
LockedDomains(i) ==
  IF account[i].domain # NoDomain
  THEN {account[i].domain}
  ELSE {d \in Domain : <<i, d>> \in item}

BugMayClaim(i) == HasAccount(i) /\ account[i].domain = NoDomain
MayClaim(i) == HasAccount(i) /\ LockedDomains(i) = {}

\* claimDomain
Claimed(i, d) == IF MayClaim(i) THEN [account EXCEPT ![i].domain = d] ELSE account

BugMayOwn(i, d) == HasAccount(i) /\ nominee[d] # NoOrg
BugMayOwnGone(i, d) == account[i].owner = NoOrg /\ nominee[d] # NoOrg
MayOwn(i, d) == HasAccount(i) /\ account[i].owner = NoOrg /\ nominee[d] # NoOrg

\* tagUserWithDefaultAggregator, over the accounts a.
Tagged(a, i, d) ==
  IF MayOwn(i, d)
  THEN [a EXCEPT ![i].owner = nominee[d], ![i].byDefault = TRUE]
  ELSE a
NoteOwner(i, d) == ownedFor' = IF MayOwn(i, d) THEN [ownedFor EXCEPT ![i] = d] ELSE ownedFor

\* The last step of a first login and of SetDomains.
Tag(h) ==
  LET i == handler[h].id
      d == handler[h].form.domain
  IN /\ At(h, "tag")
     /\ account' = Tagged(account, i, d)
     /\ NoteOwner(i, d)
     /\ Finish(h)
     /\ UNCHANGED <<identity, stash, item, nominee, applied, disturbed, cutOff, faults>>

\* POST /user/domains
SetDomainsBegin(h, i, d) ==
  /\ At(h, "idle")
  /\ LoggedIn(i)
  /\ account' = Claimed(i, d)
  /\ Begin(h, [Idle EXCEPT !.pc = IF MayClaim(i) THEN "tag" ELSE "held",
                           !.id = i, !.form.domain = d])
  /\ UNCHANGED <<identity, stash, item, nominee, history, faults>>

\* Another domain than the one asked for is a refusal.
Allowed(i, d) == MayClaim(i) \/ LockedDomains(i) = {} \/ d \in LockedDomains(i)

ReadLockedDomains(h) ==
  /\ At(h, "held")
  /\ IF Allowed(handler[h].id, handler[h].form.domain)
     THEN Goto(h, "tag")
     ELSE Finish(h)
  /\ UNCHANGED <<identity, account, stash, item, nominee, history, faults>>

\* create_item: one transaction tags the account, claims the domain and inserts
\* the profile; a refused domain rolls all of it back.
BugCreateItem(i, d) ==
  /\ LoggedIn(i)
  /\ account' = Tagged(Claimed(i, d), i, d)
  /\ NoteOwner(i, d)
  /\ item' = IF Allowed(i, d) THEN item \cup {<<i, d>>} ELSE item
  /\ UNCHANGED <<identity, stash, nominee, handler, applied, disturbed, cutOff, faults>>
CreateItem(i, d) ==
  /\ LoggedIn(i)
  /\ Allowed(i, d)
  /\ account' = Tagged(Claimed(i, d), i, d)
  /\ NoteOwner(i, d)
  /\ item' = item \cup {<<i, d>>}
  /\ UNCHANGED <<identity, stash, nominee, handler, applied, disturbed, cutOff, faults>>

\* An operator nominates a default aggregator, or clears it: one per domain.
Nominate(d, o) ==
  /\ IF o = NoOrg THEN nominee[d] # NoOrg ELSE nominee[d] = NoOrg
  /\ nominee' = [nominee EXCEPT ![d] = o]
  /\ UNCHANGED <<identity, account, stash, item, handler, history, faults>>

-----------------------------------------------------------------------------
(* Self-signup *)

\* No row holds an identifier of the form; one that does ends the request.
SignupBegin(h, i, f) ==
  /\ At(h, "idle")
  /\ Open
  /\ Fresh(i)
  /\ Holders(f) = {}
  /\ Begin(h, [Idle EXCEPT !.pc = "lookup", !.id = i, !.form = f])
  /\ UNCHANGED <<identity, account, stash, item, nominee, history, faults>>

FindInRealm(h) ==
  /\ At(h, "lookup")
  /\ IF InRealm(handler[h].form) = {} THEN Goto(h, "import") ELSE Finish(h)
  /\ UNCHANGED <<identity, account, stash, item, nominee, history, faults>>

\* partialImport with SKIP: Keycloak keeps emails and user names apart, and
\* knows nothing of the attribute phoneNumber.
Importable(f) ==
  /\ \A i \in Id : identity[i].username # Username(f)
  /\ f.email # NoEmail => \A i \in Id : identity[i].email # f.email

Import(i, f) == identity' = [identity EXCEPT ![i] = IdentityOf(f)]

SignupImport(h) ==
  LET r == handler[h]
  IN /\ At(h, "import")
     /\ IF Importable(r.form)
        THEN /\ Import(r.id, r.form)
             /\ IF r.form.domain # NoDomain THEN Goto(h, "park") ELSE Finish(h)
        ELSE Finish(h) /\ UNCHANGED identity
     /\ UNCHANGED <<account, stash, item, nominee, history, faults>>

\* The identity is created and the answer lost: SIGNUP_FAILED, nothing is parked.
SignupReplyLost(h) ==
  LET r == handler[h]
  IN /\ At(h, "import")
     /\ Fault
     /\ Importable(r.form)
     /\ Import(r.id, r.form)
     /\ Finish(h)
     /\ UNCHANGED <<account, stash, item, nominee, history>>

StashExtras(h) ==
  LET r == handler[h]
      s == [id |-> r.id, domain |-> r.form.domain, keys |-> KeysFor(r.form)]
  IN /\ At(h, "park")
     /\ stash' = [k \in DOMAIN stash |-> IF k \in s.keys THEN s ELSE stash[k]]
     /\ Finish(h)
     /\ UNCHANGED <<identity, account, item, nominee, history, faults>>

-----------------------------------------------------------------------------
(* A request of a person who has logged in *)

\* The row is read by the subject of the token, which carries the identifiers
\* that Keycloak knows now.  Without a row the self-signup gate comes first.
LoginBegin(h, i) ==
  LET f == [NoForm EXCEPT !.email = identity[i].email, !.phone = identity[i].phone]
      next == IF HasAccount(i)
              THEN IF f.phone # NoPhone /\ f.phone # account[i].phone THEN "refresh" ELSE "none"
              ELSE IF Open THEN "clash" ELSE "none"
  IN /\ At(h, "idle")
     /\ HasIdentity(i)
     /\ next # "none"
     /\ Begin(h, [Idle EXCEPT !.pc = next, !.id = i, !.form = f])
     /\ UNCHANGED <<identity, account, stash, item, nominee, history, faults>>

\* A number that another row holds is refused.
RefreshMirror(h) ==
  LET r == handler[h]
  IN /\ At(h, "refresh")
     /\ account' = IF HasAccount(r.id) /\ \A j \in Id \ {r.id} : account[j].phone # r.form.phone
                   THEN [account EXCEPT ![r.id].phone = r.form.phone]
                   ELSE account
     /\ Finish(h)
     /\ UNCHANGED <<identity, stash, item, nominee, history, faults>>

\* Any row counts, the one a concurrent first login has just written included.
ClashCheck(h) ==
  /\ At(h, "clash")
  /\ IF Holders(handler[h].form) = {} THEN Goto(h, "insert") ELSE Finish(h)
  /\ UNCHANGED <<identity, account, stash, item, nominee, history, faults>>

Insertable(i, f) == ~HasAccount(i) /\ Holders(f) = {}

InsertMirror(h) ==
  LET r == handler[h]
  IN /\ At(h, "insert")
     /\ IF Insertable(r.id, r.form)
        THEN /\ account' = [account EXCEPT ![r.id].email = r.form.email,
                                           ![r.id].phone = r.form.phone]
             /\ Goto(h, "take")
        ELSE Finish(h) /\ UNCHANGED account
     /\ UNCHANGED <<identity, stash, item, nominee, history, faults>>

\* takeSignupExtras: the key of the email first.
Parked(f) ==
  IF f.email # NoEmail /\ stash[f.email] # NoStash THEN stash[f.email]
  ELSE IF f.phone # NoPhone THEN stash[f.phone] ELSE NoStash

TakeRead(h) ==
  LET r == handler[h]
      s == Parked(r.form)
  IN /\ At(h, "take")
     /\ IF s = NoStash
        THEN Finish(h)
        ELSE Begin(h, [r EXCEPT !.pc = "delete", !.stash = s])
     /\ UNCHANGED <<identity, account, stash, item, nominee, history, faults>>

\* The keys of the token and those the stash was written under.
BugKeysToDelete(r) == KeysFor(r.form)
KeysToDelete(r) == KeysFor(r.form) \cup r.stash.keys

TakeDelete(h) ==
  /\ At(h, "delete")
  /\ stash' = [k \in DOMAIN stash |-> IF k \in KeysToDelete(handler[h]) THEN NoStash
                                      ELSE stash[k]]
  /\ Goto(h, "apply")
  /\ UNCHANGED <<identity, account, item, nominee, history, faults>>

\* The column is set whatever it holds.
ApplyExtras(h) ==
  LET r == handler[h]
      i == r.id
      d == r.stash.domain
  IN /\ At(h, "apply")
     /\ account' = IF HasAccount(i) THEN [account EXCEPT ![i].domain = d] ELSE account
     /\ disturbed' = IF Allowed(i, d) THEN disturbed ELSE disturbed \cup {i}
     /\ applied' = [applied EXCEPT ![i] = r.stash.id]
     /\ Begin(h, [Idle EXCEPT !.pc = "tag", !.id = i, !.form.domain = d])
     /\ UNCHANGED <<identity, stash, item, nominee, ownedFor, cutOff, faults>>

\* At Keycloak, once the first login is through.
ChangePhone(i, p) ==
  /\ Fault
  /\ LoggedIn(i)
  /\ identity[i].phone # p
  /\ \A h \in Handler : handler[h].id # i
  /\ identity' = [identity EXCEPT ![i].phone = p]
  /\ UNCHANGED <<account, stash, item, nominee, handler, history>>

-----------------------------------------------------------------------------
(* Onboarding by an organization: POST /admin/participant *)

\* An aggregator owns whom it onboards; a network service, NoOrg here, has to
\* name a domain and leaves the account to the default aggregator.
OnboardingOwner(o, d) ==
  IF o # NoOrg
  THEN [org |-> o, byDefault |-> FALSE]
  ELSE [org |-> nominee[d], byDefault |-> nominee[d] # NoOrg]

OnboardBegin(h, i, f, o, withItem) ==
  /\ At(h, "idle")
  /\ Fresh(i)
  /\ Holders(f) = {}
  /\ o = NoOrg => f.domain # NoDomain
  /\ Begin(h, [Idle EXCEPT !.pc = "onboard", !.id = i, !.form = f,
                           !.owner = OnboardingOwner(o, f.domain), !.withItem = withItem])
  /\ UNCHANGED <<identity, account, stash, item, nominee, history, faults>>

ItemDomain(f) == IF f.domain = NoDomain THEN DefaultDomain ELSE f.domain

\* One transaction: the row, its domain and owner, and the profile, which claims
\* a domain that is not given.
Onboard(h) ==
  LET r == handler[h]
      i == r.id
  IN /\ At(h, "onboard")
     /\ IF Insertable(i, r.form)
        THEN /\ account' = [account EXCEPT ![i] =
                  [email |-> r.form.email, phone |-> r.form.phone,
                   domain |-> IF r.withItem THEN ItemDomain(r.form) ELSE r.form.domain,
                   owner |-> r.owner.org, byDefault |-> r.owner.byDefault]]
             /\ ownedFor' = IF r.owner.byDefault
                            THEN [ownedFor EXCEPT ![i] = r.form.domain] ELSE ownedFor
             /\ item' = IF r.withItem THEN item \cup {<<i, ItemDomain(r.form)>>} ELSE item
             /\ Goto(h, "mint")
        ELSE Finish(h) /\ UNCHANGED <<account, ownedFor, item>>
     /\ UNCHANGED <<identity, stash, nominee, applied, disturbed, cutOff, faults>>

BugAfterConflict == "idle"
AfterConflict == "orphan"

Mint(h) ==
  LET r == handler[h]
  IN /\ At(h, "mint")
     /\ IF Importable(r.form)
        THEN Import(r.id, r.form) /\ Finish(h)
        ELSE Begin(h, [Idle EXCEPT !.pc = AfterConflict, !.id = r.id]) /\ UNCHANGED identity
     /\ UNCHANGED <<account, stash, item, nominee, history, faults>>

\* Keycloak cannot be reached, or its answer is lost.
MintFails(h) ==
  LET r == handler[h]
  IN /\ At(h, "mint")
     /\ Fault
     /\ \/ UNCHANGED identity
        \/ Importable(r.form) /\ Import(r.id, r.form)
     /\ Begin(h, [Idle EXCEPT !.pc = "orphan", !.id = r.id])
     /\ UNCHANGED <<account, stash, item, nominee, history>>

OwnsItems(i) == \E d \in Domain : <<i, d>> \in item

\* ON DELETE RESTRICT: the row of an owner of items stays.
DeleteOrphan(h) ==
  LET i == handler[h].id
  IN /\ At(h, "orphan")
     /\ IF OwnsItems(i)
        THEN UNCHANGED <<account, ownedFor, applied, disturbed>>
        ELSE /\ account' = [account EXCEPT ![i] = NoAccount]
             /\ ownedFor' = [ownedFor EXCEPT ![i] = NoDomain]
             /\ applied' = [applied EXCEPT ![i] = NoId]
             /\ disturbed' = IF HasIdentity(i) THEN disturbed \cup {i} ELSE disturbed
     /\ Finish(h)
     /\ UNCHANGED <<identity, stash, item, nominee, cutOff, faults>>

\* A profile for an account that exists: an aggregator has to own it.
InsertItemBegin(h, i, f, o) ==
  /\ At(h, "idle")
  /\ i \in Holders(f)
  /\ o # NoOrg => account[i].owner = o
  /\ Begin(h, [Idle EXCEPT !.pc = "add", !.id = i, !.form.domain = f.domain])
  /\ UNCHANGED <<identity, account, stash, item, nominee, history, faults>>

\* The domain is claimed or compared; without the row the foreign key refuses.
InsertItem(h) ==
  LET i == handler[h].id
      d == ItemDomain(handler[h].form)
  IN /\ At(h, "add")
     /\ IF HasAccount(i) /\ Allowed(i, d)
        THEN /\ account' = Claimed(i, d)
             /\ item' = item \cup {<<i, d>>}
        ELSE UNCHANGED <<account, item>>
     /\ Finish(h)
     /\ UNCHANGED <<identity, stash, nominee, history, faults>>

\* A process dies or a command fails: the request goes no further.
Crash(h) ==
  /\ ~At(h, "idle")
  /\ Fault
  /\ Finish(h)
  /\ cutOff' = IF handler[h].pc \in {"mint", "orphan"} THEN cutOff \cup {handler[h].id} ELSE cutOff
  /\ UNCHANGED <<identity, account, stash, item, nominee, applied, ownedFor, disturbed>>

-----------------------------------------------------------------------------
Next ==
  \/ \E i \in Id, d \in Domain : CreateItem(i, d)
  \/ \E d \in Domain, o \in Org \cup {NoOrg} : Nominate(d, o)
  \/ \E i \in Id, p \in Phone : ChangePhone(i, p)
  \/ \E h \in Handler :
       \/ \E i \in Id :
            \/ LoginBegin(h, i)
            \/ \E d \in Domain : SetDomainsBegin(h, i, d)
            \/ \E f \in Form :
                 \/ SignupBegin(h, i, f)
                 \/ \E o \in Org \cup {NoOrg} :
                      \/ InsertItemBegin(h, i, f, o)
                      \/ \E w \in BOOLEAN : OnboardBegin(h, i, f, o, w)
       \/ Tag(h) \/ ReadLockedDomains(h)
       \/ FindInRealm(h) \/ SignupImport(h) \/ SignupReplyLost(h) \/ StashExtras(h)
       \/ RefreshMirror(h) \/ ClashCheck(h) \/ InsertMirror(h)
       \/ TakeRead(h) \/ TakeDelete(h) \/ ApplyExtras(h)
       \/ Onboard(h) \/ Mint(h) \/ MintFails(h) \/ DeleteOrphan(h) \/ InsertItem(h)
       \/ Crash(h)

Spec == Init /\ [][Next]_vars

-----------------------------------------------------------------------------
(* Properties *)

\* Rows, identities, parked extras and requests have their shape; a row never
\* consists of a domain or an owner alone, as it would if a statement wrote to
\* an account that a failed onboarding has removed meanwhile.
TypeOK ==
  /\ identity \in [Id -> Identity]
  /\ account \in [Id -> Account]
  /\ \A i \in Id : account[i] # NoAccount => KeysFor(account[i]) # {}
  /\ stash \in [Email \cup Phone -> Stash]
  /\ item \subseteq Id \X Domain
  /\ nominee \in [Domain -> Org \cup {NoOrg}]
  /\ handler \in [Handler -> HandlerState]
  /\ applied \in [Id -> Id \cup {NoId}]
  /\ ownedFor \in [Id -> Domain \cup {NoDomain}]
  /\ disturbed \subseteq Id /\ cutOff \subseteq Id
  /\ faults \in 0 .. MaxFaults

\* The column and the profiles of an account name one domain between them,
\* whichever of signup, the choice of a domain, the first profile and onboarding
\* came first, and also for an account older than the column; the exceptions
\* are an account whose signup extras arrived after the domain was decided, and
\* one that lost its row because the answer about its identity was lost.
SingleDomain ==
  \A i \in Id \ disturbed :
    Cardinality({d \in Domain : account[i].domain = d \/ <<i, d>> \in item}) <= 1

\* A default aggregator owns an account because of the domain the account is
\* locked to, so that no profile is open to the default of another domain.
OwnerFitsDomain ==
  \A i \in Id \ disturbed :
    account[i].byDefault => ownedFor[i] \in LockedDomains(i)

\* What one signup parked reaches one account, although it is kept under two
\* keys and a phone number can pass from one person to another.
ExtrasUsedOnce ==
  \A i, j \in Id : applied[i] # NoId /\ applied[i] = applied[j] => i = j

\* Whose identity could not be created, because another one has the email or the
\* user name or because Keycloak could not be reached or its answer was lost, is
\* left without a row as well: an account without an identity owns a profile, or
\* the request that made it is still at work, or was itself cut off between the
\* row and the identity.  Nothing else makes one, and nobody else is left with one.
LoginlessOwnsItems ==
  \A i \in Id \ cutOff : HasAccount(i) /\ ~HasIdentity(i) =>
    \/ OwnsItems(i)
    \/ \E h \in Handler : handler[h].id = i /\ handler[h].pc \in {"mint", "orphan"}

\* No step gives an account that has an owner another one, nor makes a default of
\* an owner that onboarded the account: not a domain chosen later, not another
\* profile, not a nomination.
OwnerWriteOnce ==
  [][\A i \in Id : account[i].owner # NoOrg /\ account'[i] # NoAccount =>
       <<account'[i].owner, account'[i].byDefault>>
         = <<account[i].owner, account[i].byDefault>>]_vars
=============================================================================
