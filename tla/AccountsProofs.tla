--------------------------- MODULE AccountsProofs ---------------------------
(***************************************************************************)
(* Proofs about Accounts, for any number of people, requests, faults and   *)
(* identifiers, and for every set of forms.                                *)
(***************************************************************************)
EXTENDS Accounts, FiniteSetTheorems, TLAPS

-----------------------------------------------------------------------------
(* Types.  What a request carries depends on how far it has come; whoever has
   an identity or a row has an identifier there. *)

SignupSteps == {"lookup", "import", "park"}
OnboardSteps == {"onboard", "mint"}
TakeSteps == {"take", "delete"}
FirstLoginSteps == {"clash", "insert"} \cup TakeSteps
LoginSteps == {"refresh"} \cup FirstLoginSteps

HasKey(f) == f.email # NoEmail \/ f.phone # NoPhone

RecordInv(r) ==
  /\ r.pc # "idle" => r.id \in Id
  /\ r.pc = "idle" => r.id = NoId
  /\ r.pc \in SignupSteps \cup OnboardSteps \cup FirstLoginSteps => HasKey(r.form)
  /\ r.pc = "refresh" => r.form.phone # NoPhone
  /\ r.pc \in {"park", "tag", "held"} => r.form.domain # NoDomain
  /\ r.pc \in {"delete", "apply"} <=> r.stash # NoStash
  /\ r.pc = "onboard" => (r.owner.byDefault => r.form.domain # NoDomain)

TypeInv ==
  /\ TypeOK
  /\ \A i \in Id : HasIdentity(i) => HasKey(identity[i])
  /\ \A i \in Id : HasAccount(i) => HasKey(account[i])
  /\ \A h \in Handler : RecordInv(handler[h])

LEMMA HandlerFacts ==
  ASSUME TypeInv, NEW h \in Handler
  PROVE  /\ handler[h] \in HandlerState /\ RecordInv(handler[h])
         /\ handler[h].pc # "idle" => handler[h].id \in Id
         /\ handler[h].form \in FormType /\ handler[h].stash \in Stash
         /\ handler[h].owner \in Owner /\ handler[h].withItem \in BOOLEAN
  BY DEF TypeInv, TypeOK, RecordInv, HandlerState

LEMMA KeyFacts ==
  ASSUME NEW f \in FormType
  PROVE  KeysFor(f) # {} <=> HasKey(f)
  BY AccountAssumption DEF KeysFor, HasKey, FormType

LEMMA FormFacts ==
  /\ \A f \in Form : f \in FormType /\ HasKey(f)
  /\ NoForm \in FormType /\ NoForm.email = NoEmail /\ NoForm.phone = NoPhone
  BY AccountAssumption DEF FormType, HasKey, NoForm

\* A step of handler h leaves the record r behind, which is in order.
Moves(h, r) ==
  /\ handler' = [handler EXCEPT ![h] = r]
  /\ r \in HandlerState /\ RecordInv(r)

SameRequest(r, q) == r.id = q.id /\ r.form = q.form /\ r.stash = q.stash

LEMMA MovesKeep ==
  ASSUME TypeInv, NEW h \in Handler, NEW r, Moves(h, r)
  PROVE  /\ handler' \in [Handler -> HandlerState]
         /\ handler'[h] = r
         /\ \A g \in Handler \ {h} : handler'[g] = handler[g]
         /\ \A g \in Handler : RecordInv(handler'[g])
  BY DEF Moves, TypeInv, TypeOK

LEMMA IdleFacts ==
  /\ Idle \in HandlerState /\ RecordInv(Idle)
  /\ Idle.pc = "idle" /\ Idle.id = NoId /\ Idle.form = NoForm /\ Idle.stash = NoStash
  /\ Idle.owner = NoOwner /\ Idle.withItem = FALSE
<1>1. NoOwner \in Owner /\ NoStash \in Stash
  BY DEF NoOwner, Owner, NoStash, Stash
<1>2. /\ Idle.pc = "idle" /\ Idle.id = NoId /\ Idle.form = NoForm /\ Idle.stash = NoStash
      /\ Idle.owner = NoOwner /\ Idle.withItem = FALSE
  BY DEF Idle
<1>3. Idle \in HandlerState
  BY <1>1, FormFacts DEF Idle, HandlerState
<1>. QED
  BY <1>2, <1>3 DEF RecordInv, SignupSteps, OnboardSteps, FirstLoginSteps, TakeSteps

LEMMA FinishMoves ==
  ASSUME TypeInv, NEW h \in Handler, Finish(h)
  PROVE  Moves(h, Idle)
  BY IdleFacts DEF Finish, Begin, Moves

\* A step that goes on with what it knows.
Follows == {<<"held", "tag">>, <<"lookup", "import">>, <<"import", "park">>, <<"clash", "insert">>,
            <<"insert", "take">>, <<"delete", "apply">>, <<"onboard", "mint">>}

LEMMA GotoMoves ==
  ASSUME TypeInv, NEW h \in Handler, NEW pc, Goto(h, pc),
         <<handler[h].pc, pc>> \in Follows,
         pc = "park" => handler[h].form.domain # NoDomain
  PROVE  \E r : Moves(h, r) /\ r.pc = pc /\ SameRequest(r, handler[h])
<1>. DEFINE r == [handler[h] EXCEPT !.pc = pc]
<1>1. handler[h] \in HandlerState /\ RecordInv(handler[h])
  BY HandlerFacts
<1>2. /\ r \in HandlerState /\ r.pc = pc /\ r.id = handler[h].id /\ r.form = handler[h].form
      /\ r.stash = handler[h].stash /\ r.owner = handler[h].owner
  BY <1>1 DEF HandlerState, Follows
<1>3. RecordInv(r)
  BY <1>1, <1>2 DEF RecordInv, SignupSteps, OnboardSteps, FirstLoginSteps, TakeSteps, Follows
<1>4. handler' = [handler EXCEPT ![h] = r]
  BY DEF Goto, Begin
<1>. QED
  BY <1>2, <1>3, <1>4 DEF Moves, SameRequest

\* The requests that begin, or begin again, with a domain alone.
DomainRequest(pc, i, d) == [Idle EXCEPT !.pc = pc, !.id = i, !.form.domain = d]

LEMMA DomainMoves ==
  ASSUME TypeInv, NEW h \in Handler, NEW i \in Id, NEW d \in Domain \cup {NoDomain},
         NEW pc \in {"tag", "held", "add"}, pc # "add" => d # NoDomain,
         Begin(h, DomainRequest(pc, i, d))
  PROVE  \E r : /\ Moves(h, r) /\ r.pc = pc /\ r.id = i /\ r.form.domain = d
                /\ r.stash = NoStash
<1>. DEFINE f == [NoForm EXCEPT !.domain = d]
            r == [Idle EXCEPT !.pc = pc, !.id = i, !.form.domain = d]
<1>1. f \in FormType /\ f.domain = d
  BY FormFacts DEF FormType
<1>2. Idle.form = NoForm
  BY IdleFacts
<1>. HIDE DEF f
<1>3. r = [Idle EXCEPT !.pc = pc, !.id = i, !.form = f]
  BY <1>2, IdleFacts DEF HandlerState, f
<1>4. r \in HandlerState /\ r.pc = pc /\ r.id = i /\ r.form = f /\ r.stash = NoStash
  BY <1>1, <1>3, IdleFacts DEF HandlerState
<1>. HIDE DEF r
<1>5. RecordInv(r)
  BY <1>1, <1>4 DEF RecordInv, SignupSteps, OnboardSteps, FirstLoginSteps, TakeSteps
<1>6. handler' = [handler EXCEPT ![h] = r]
  BY DEF Begin, r, DomainRequest
<1>. QED
  BY <1>1, <1>4, <1>5, <1>6 DEF Moves

LEMMA SignupMoves ==
  ASSUME TypeInv, NEW h \in Handler, NEW i \in Id, NEW f \in Form, SignupBegin(h, i, f)
  PROVE  \E r : Moves(h, r) /\ r.pc = "lookup" /\ r.id = i /\ r.form = f /\ r.stash = NoStash
<1>. DEFINE r == [Idle EXCEPT !.pc = "lookup", !.id = i, !.form = f]
<1>1. r \in HandlerState /\ r.pc = "lookup" /\ r.id = i /\ r.form = f /\ r.stash = NoStash
  BY IdleFacts, FormFacts DEF HandlerState
<1>2. RecordInv(r)
  BY <1>1, FormFacts DEF RecordInv, SignupSteps, OnboardSteps, FirstLoginSteps, TakeSteps
<1>. QED
  BY <1>1, <1>2 DEF Moves, Begin, SignupBegin

LEMMA OnboardMoves ==
  ASSUME TypeInv, NEW h \in Handler, NEW i \in Id, NEW f \in Form, NEW o \in Org \cup {NoOrg},
         NEW w \in BOOLEAN, OnboardBegin(h, i, f, o, w)
  PROVE  \E r : Moves(h, r) /\ r.pc = "onboard" /\ r.id = i /\ r.form = f /\ r.stash = NoStash
<1>. DEFINE q == OnboardingOwner(o, f.domain)
<1>1. f \in FormType /\ HasKey(f)
  BY FormFacts
<1>2. q \in Owner /\ (q.byDefault => f.domain # NoDomain)
  <2>1. CASE o # NoOrg
    BY <2>1 DEF OnboardingOwner, Owner
  <2>2. CASE o = NoOrg
    <3>1. f.domain \in Domain /\ nominee[f.domain] \in Org \cup {NoOrg}
      BY <1>1, <2>2 DEF OnboardBegin, FormType, TypeInv, TypeOK
    <3>. QED
      BY <2>2, <3>1, AccountAssumption DEF OnboardingOwner, Owner, OnboardBegin
  <2>. QED
    BY <2>1, <2>2
<1>. DEFINE r == [Idle EXCEPT !.pc = "onboard", !.id = i, !.form = f, !.owner = q, !.withItem = w]
<1>3. Begin(h, r)
  BY DEF OnboardBegin
<1>. HIDE DEF q
<1>4. /\ r \in HandlerState /\ r.pc = "onboard" /\ r.id = i /\ r.form = f /\ r.stash = NoStash
      /\ r.owner = q
  BY <1>1, <1>2, IdleFacts DEF HandlerState
<1>5. RecordInv(r)
  BY <1>1, <1>2, <1>4 DEF RecordInv, SignupSteps, OnboardSteps, FirstLoginSteps, TakeSteps
<1>. QED
  BY <1>3, <1>4, <1>5 DEF Moves, Begin

LEMMA LoginMoves ==
  ASSUME TypeInv, NEW h \in Handler, NEW i \in Id, LoginBegin(h, i)
  PROVE  \E r : /\ Moves(h, r) /\ r.id = i /\ r.stash = NoStash
                /\ r.form.email = identity[i].email /\ r.form.phone = identity[i].phone
                /\ \/ r.pc = "refresh" /\ HasAccount(i) /\ r.form.phone # NoPhone
                   \/ r.pc = "clash" /\ ~HasAccount(i)
<1>. DEFINE f == [NoForm EXCEPT !.email = identity[i].email, !.phone = identity[i].phone]
            pc == IF HasAccount(i)
                  THEN IF f.phone # NoPhone /\ f.phone # account[i].phone THEN "refresh" ELSE "none"
                  ELSE IF Open THEN "clash" ELSE "none"
            r == [Idle EXCEPT !.pc = pc, !.id = i, !.form = f]
<1>1. identity[i].email \in Email \cup {NoEmail} /\ identity[i].phone \in Phone \cup {NoPhone}
  BY DEF TypeInv, TypeOK, Identity, NoIdentity
<1>2. f \in FormType /\ f.email = identity[i].email /\ f.phone = identity[i].phone
  BY <1>1 DEF FormType, NoForm
<1>3. HasKey(f)
  BY <1>2 DEF LoginBegin, TypeInv, HasKey
<1>4. pc # "none" /\ Begin(h, r)
  BY DEF LoginBegin
<1>. HIDE DEF f
<1>5. \/ pc = "refresh" /\ HasAccount(i) /\ f.phone # NoPhone
      \/ pc = "clash" /\ ~HasAccount(i)
  BY <1>4
<1>. HIDE DEF pc
<1>6. r \in HandlerState /\ r.pc = pc /\ r.id = i /\ r.form = f /\ r.stash = NoStash
  BY <1>2, <1>5, IdleFacts DEF HandlerState
<1>7. RecordInv(r)
  BY <1>3, <1>5, <1>6 DEF RecordInv, SignupSteps, OnboardSteps, FirstLoginSteps, TakeSteps
<1>. QED
  BY <1>2, <1>4, <1>5, <1>6, <1>7 DEF Moves, Begin

\* After a failed onboarding the row is left to be removed.
LEMMA OrphanMoves ==
  ASSUME TypeInv, NEW h \in Handler, NEW i \in Id,
         Begin(h, [Idle EXCEPT !.pc = "orphan", !.id = i])
  PROVE  \E r : Moves(h, r) /\ r.pc = "orphan" /\ r.id = i /\ r.stash = NoStash
<1>. DEFINE r == [Idle EXCEPT !.pc = "orphan", !.id = i]
<1>1. r \in HandlerState /\ r.pc = "orphan" /\ r.id = i /\ r.stash = NoStash
  BY IdleFacts DEF HandlerState
<1>2. RecordInv(r)
  BY <1>1 DEF RecordInv, SignupSteps, OnboardSteps, FirstLoginSteps, TakeSteps
<1>. QED
  BY <1>1, <1>2 DEF Moves, Begin

LEMMA StashFacts ==
  ASSUME TypeInv, NEW f \in FormType
  PROVE  /\ Parked(f) \in Stash
         /\ Parked(f) # NoStash => \E k \in KeysFor(f) : Parked(f) = stash[k]
<1>1. /\ f.email \in Email \cup {NoEmail} /\ f.phone \in Phone \cup {NoPhone}
      /\ NoStash \in Stash
  BY DEF FormType, NoStash, Stash
<1>2. /\ f.email # NoEmail => f.email \in KeysFor(f) /\ stash[f.email] \in Stash
      /\ f.phone # NoPhone => f.phone \in KeysFor(f) /\ stash[f.phone] \in Stash
  BY <1>1, AccountAssumption DEF KeysFor, TypeInv, TypeOK
<1>. QED
  BY <1>1, <1>2 DEF Parked

LEMMA TakeMoves ==
  ASSUME TypeInv, NEW h \in Handler, TakeRead(h)
  PROVE  \/ Moves(h, Idle)
         \/ \E r : /\ Moves(h, r) /\ r.pc = "delete" /\ r.id = handler[h].id
                   /\ r.form = handler[h].form /\ r.stash # NoStash
                   /\ r.stash = Parked(handler[h].form)
<1>. DEFINE s == Parked(handler[h].form)
            r == [handler[h] EXCEPT !.pc = "delete", !.stash = s]
<1>1. /\ handler[h] \in HandlerState /\ RecordInv(handler[h]) /\ handler[h].form \in FormType
      /\ handler[h].pc = "take"
  BY HandlerFacts DEF TakeRead, At
<1>2. s \in Stash
  BY <1>1, StashFacts
<1>3. CASE s = NoStash
  BY <1>3, FinishMoves DEF TakeRead
<1>4. CASE s # NoStash
  <2>1. Begin(h, r)
    BY <1>4 DEF TakeRead
  <2>. HIDE DEF s
  <2>2. /\ r \in HandlerState /\ r.pc = "delete" /\ r.id = handler[h].id
        /\ r.form = handler[h].form /\ r.stash = s
    BY <1>1, <1>2 DEF HandlerState
  <2>3. RecordInv(r)
    BY <1>1, <1>4, <2>2 DEF RecordInv, SignupSteps, OnboardSteps, FirstLoginSteps, TakeSteps
  <2>4. Moves(h, r)
    BY <2>1, <2>2, <2>3 DEF Moves, Begin
  <2>. QED
    BY <1>4, <2>2, <2>4 DEF s
<1>. QED
  BY <1>3, <1>4

LEMMA ApplyMoves ==
  ASSUME TypeInv, NEW h \in Handler, ApplyExtras(h)
  PROVE  /\ handler[h].id \in Id /\ handler[h].stash.id \in Id
         /\ handler[h].stash.domain \in Domain
         /\ \E r : /\ Moves(h, r) /\ r.pc = "tag" /\ r.id = handler[h].id
                   /\ r.form.domain = handler[h].stash.domain /\ r.stash = NoStash
<1>1. /\ handler[h].id \in Id /\ handler[h].stash \in Stash /\ handler[h].stash # NoStash
  BY HandlerFacts DEF ApplyExtras, At, RecordInv
<1>2. handler[h].stash.id \in Id /\ handler[h].stash.domain \in Domain
  BY <1>1 DEF Stash
<1>. DEFINE i == handler[h].id
            d == handler[h].stash.domain
<1>3. i \in Id /\ d \in Domain \cup {NoDomain} /\ d # NoDomain
  BY <1>1, <1>2, AccountAssumption
<1>4. Begin(h, DomainRequest("tag", i, d))
  BY DEF ApplyExtras, DomainRequest
<1>. HIDE DEF i, d
<1>5. \E r : Moves(h, r) /\ r.pc = "tag" /\ r.id = i /\ r.form.domain = d /\ r.stash = NoStash
  BY <1>3, <1>4, DomainMoves
<1>. QED
  BY <1>1, <1>2, <1>5 DEF i, d

-----------------------------------------------------------------------------
(* What a step writes to the rows. *)

LEMMA RowFacts ==
  ASSUME TypeInv, NEW i \in Id
  PROVE  /\ account[i] \in Account /\ identity[i] \in Identity
         /\ HasAccount(i) <=> HasKey(account[i])
         /\ HasIdentity(i) <=> HasKey(identity[i])
         /\ identity[i].email \in Email \cup {NoEmail}
         /\ identity[i].phone \in Phone \cup {NoPhone}
         /\ account[i].email \in Email \cup {NoEmail}
         /\ account[i].phone \in Phone \cup {NoPhone}
         /\ account[i].domain \in Domain \cup {NoDomain}
         /\ account[i].owner \in Org \cup {NoOrg}
         /\ account[i].byDefault \in BOOLEAN
<1>1. account[i] \in Account /\ identity[i] \in Identity
  BY DEF TypeInv, TypeOK
<1>2. /\ HasAccount(i) <=> HasKey(account[i])
      /\ HasIdentity(i) <=> HasKey(identity[i])
  <2>1. ~HasKey(NoAccount) /\ ~HasKey(NoIdentity)
    BY DEF NoAccount, NoIdentity, HasKey
  <2>. QED
    BY <2>1 DEF TypeInv, HasAccount, HasIdentity
<1>. QED
  BY <1>1, <1>2 DEF Account, Identity, NoIdentity

LEMMA NoRowFacts ==
  /\ NoAccount \in Account /\ NoAccount.email = NoEmail /\ NoAccount.phone = NoPhone
  /\ NoAccount.domain = NoDomain /\ NoAccount.owner = NoOrg /\ NoAccount.byDefault = FALSE
  BY DEF NoAccount, Account

\* The rows b are those of account, but for the row a of i.
Rewritten(b, i, a) ==
  /\ b = [account EXCEPT ![i] = a]
  /\ a \in Account
  /\ a # NoAccount => HasKey(a)
Writes(i, a) == Rewritten(account', i, a)
SameKeys(a, i) == a.email = account[i].email /\ a.phone = account[i].phone
SameOwner(a, i) == a.owner = account[i].owner /\ a.byDefault = account[i].byDefault

LEMMA WritesKeep ==
  ASSUME TypeInv, NEW i \in Id, NEW a, Writes(i, a)
  PROVE  /\ account' \in [Id -> Account] /\ account'[i] = a
         /\ \A j \in Id \ {i} : account'[j] = account[j]
         /\ \A j \in Id : account'[j] # NoAccount => HasKey(account'[j])
  BY DEF Writes, Rewritten, TypeInv, TypeOK, HasAccount

LEMMA ClaimWrites ==
  ASSUME TypeInv, NEW i \in Id, NEW d \in Domain
  PROVE  \E a : /\ Rewritten(Claimed(i, d), i, a) /\ SameKeys(a, i) /\ SameOwner(a, i)
                /\ a.domain = (IF MayClaim(i) THEN d ELSE account[i].domain)
                /\ ~HasAccount(i) => a = account[i]
<1>1. account[i] \in Account /\ account \in [Id -> Account]
  BY DEF TypeInv, TypeOK
<1>2. HasAccount(i) <=> HasKey(account[i])
  BY RowFacts
<1>3. CASE MayClaim(i)
  <2>. DEFINE a == [account[i] EXCEPT !.domain = d]
  <2>1. a \in Account /\ SameKeys(a, i) /\ SameOwner(a, i) /\ a.domain = d
    BY <1>1 DEF Account, SameKeys, SameOwner
  <2>2. Claimed(i, d) = [account EXCEPT ![i] = a]
    BY <1>3, <1>1 DEF Claimed
  <2>3. HasAccount(i) /\ HasKey(a)
    BY <1>2, <1>3, <2>1 DEF MayClaim, HasKey, SameKeys
  <2>. QED
    BY <1>3, <2>1, <2>2, <2>3 DEF Rewritten
<1>4. CASE ~MayClaim(i)
  <2>1. Claimed(i, d) = [account EXCEPT ![i] = account[i]]
    BY <1>1, <1>4 DEF Claimed
  <2>2. account[i] # NoAccount => HasKey(account[i])
    BY <1>2 DEF HasAccount
  <2>. QED
    BY <1>1, <1>4, <2>1, <2>2 DEF Rewritten, SameKeys, SameOwner
<1>. QED
  BY <1>3, <1>4

LEMMA TagWrites ==
  ASSUME TypeInv, NEW i \in Id, NEW d \in Domain, NEW b, NEW c,
         Rewritten(b, i, c), SameKeys(c, i), SameOwner(c, i)
  PROVE  \E a : /\ Rewritten(Tagged(b, i, d), i, a) /\ SameKeys(a, i) /\ a.domain = c.domain
                /\ ~MayOwn(i, d) => SameOwner(a, i)
                /\ ~HasAccount(i) => a = c
<1>1. b = [account EXCEPT ![i] = c] /\ c \in Account /\ (c # NoAccount => HasKey(c))
  BY DEF Rewritten
<1>2. account \in [Id -> Account] /\ nominee[d] \in Org \cup {NoOrg}
  BY DEF TypeInv, TypeOK
<1>3. CASE MayOwn(i, d)
  <2>. DEFINE a == [c EXCEPT !.owner = nominee[d], !.byDefault = TRUE]
  <2>1. a \in Account /\ SameKeys(a, i) /\ a.domain = c.domain
    BY <1>1, <1>2 DEF Account, SameKeys
  <2>2. Tagged(b, i, d) = [account EXCEPT ![i] = a]
    <3>1. Tagged(b, i, d) = [b EXCEPT ![i].owner = nominee[d], ![i].byDefault = TRUE]
      BY <1>3 DEF Tagged
    <3>2. b \in [Id -> Account] /\ b[i] = c
      BY <1>1, <1>2
    <3>3. [b EXCEPT ![i].owner = nominee[d], ![i].byDefault = TRUE] = [b EXCEPT ![i] = a]
      BY <3>2 DEF Account
    <3>. QED
      BY <1>1, <3>1, <3>3
  <2>3. HasAccount(i) /\ HasKey(a)
    BY <1>3, <2>1, RowFacts DEF MayOwn, HasKey, SameKeys
  <2>. QED
    BY <1>3, <2>1, <2>2, <2>3 DEF Rewritten
<1>4. CASE ~MayOwn(i, d)
  BY <1>1, <1>4 DEF Tagged, Rewritten
<1>. QED
  BY <1>3, <1>4

LEMMA SetDomainsWrites ==
  ASSUME TypeInv, NEW h \in Handler, NEW i \in Id, NEW d \in Domain, SetDomainsBegin(h, i, d)
  PROVE  \E a : /\ Writes(i, a) /\ SameKeys(a, i) /\ SameOwner(a, i)
                /\ a.domain = (IF MayClaim(i) THEN d ELSE account[i].domain)
                /\ ~HasAccount(i) => a = account[i]
  BY ClaimWrites DEF SetDomainsBegin, Writes

LEMMA CreateWrites ==
  ASSUME TypeInv, NEW i \in Id, NEW d \in Domain, CreateItem(i, d)
  PROVE  \E a : /\ Writes(i, a) /\ SameKeys(a, i)
                /\ a.domain = (IF MayClaim(i) THEN d ELSE account[i].domain)
                /\ ~MayOwn(i, d) => SameOwner(a, i)
<1>1. PICK c : /\ Rewritten(Claimed(i, d), i, c) /\ SameKeys(c, i) /\ SameOwner(c, i)
               /\ c.domain = (IF MayClaim(i) THEN d ELSE account[i].domain)
  BY ClaimWrites
<1>. DEFINE b == Claimed(i, d)
<1>. HIDE DEF b
<1>2. Rewritten(b, i, c) /\ account' = Tagged(b, i, d)
  BY <1>1 DEF b, CreateItem
<1>. QED
  BY <1>1, <1>2, TagWrites DEF Writes

LEMMA TagStepWrites ==
  ASSUME TypeInv, NEW h \in Handler, Tag(h)
  PROVE  LET i == handler[h].id
             d == handler[h].form.domain
         IN /\ i \in Id /\ d \in Domain
            /\ \E a : /\ Writes(i, a) /\ SameKeys(a, i) /\ a.domain = account[i].domain
                      /\ ~MayOwn(i, d) => SameOwner(a, i)
                      /\ ~HasAccount(i) => a = account[i]
<1>. DEFINE i == handler[h].id
            d == handler[h].form.domain
<1>1. i \in Id /\ d \in Domain
  BY HandlerFacts DEF Tag, At, RecordInv, FormType
<1>2. account' = Tagged(account, i, d)
  BY DEF Tag
<1>. HIDE DEF i, d
<1>3. Rewritten(account, i, account[i])
  BY <1>1, RowFacts DEF Rewritten, TypeInv, TypeOK, HasAccount
<1>4. SameKeys(account[i], i) /\ SameOwner(account[i], i)
  BY DEF SameKeys, SameOwner
<1>5. \E a : /\ Writes(i, a) /\ SameKeys(a, i) /\ a.domain = account[i].domain
             /\ ~MayOwn(i, d) => SameOwner(a, i)
             /\ ~HasAccount(i) => a = account[i]
  BY <1>1, <1>2, <1>3, <1>4, TagWrites DEF Writes
<1>. QED
  BY <1>1, <1>5 DEF i, d

LEMMA RefreshWrites ==
  ASSUME TypeInv, NEW h \in Handler, RefreshMirror(h)
  PROVE  LET i == handler[h].id
             p == handler[h].form.phone
         IN /\ i \in Id /\ p # NoPhone
            /\ \/ account' = account
               \/ \E a : /\ Writes(i, a) /\ SameOwner(a, i) /\ a.domain = account[i].domain
                         /\ a.email = account[i].email /\ a.phone = p /\ HasAccount(i)
                         /\ \A j \in Id \ {i} : account[j].phone # p
<1>. DEFINE i == handler[h].id
            p == handler[h].form.phone
            a == [account[i] EXCEPT !.phone = p]
<1>1. i \in Id /\ p \in Phone /\ p # NoPhone
  BY HandlerFacts DEF RefreshMirror, At, RecordInv, FormType
<1>2. account[i] \in Account /\ account \in [Id -> Account]
  BY <1>1 DEF TypeInv, TypeOK
<1>3. \/ account' = account
      \/ /\ HasAccount(i) /\ (\A j \in Id \ {i} : account[j].phone # p)
         /\ account' = [account EXCEPT ![i].phone = p]
  BY DEF RefreshMirror
<1>. HIDE DEF i, p
<1>4. /\ a \in Account /\ SameOwner(a, i) /\ a.domain = account[i].domain
      /\ a.email = account[i].email /\ a.phone = p
  BY <1>1, <1>2 DEF Account, SameOwner
<1>5. HasKey(a)
  BY <1>1, <1>4 DEF HasKey
<1>6. [account EXCEPT ![i].phone = p] = [account EXCEPT ![i] = a]
  BY <1>1, <1>2
<1>. HIDE DEF a
<1>. QED
  BY <1>1, <1>3, <1>4, <1>5, <1>6 DEF Writes, Rewritten, i, p

LEMMA InsertWrites ==
  ASSUME TypeInv, NEW h \in Handler, InsertMirror(h)
  PROVE  LET i == handler[h].id
             f == handler[h].form
         IN /\ i \in Id
            /\ \/ ~Insertable(i, f) /\ account' = account /\ Finish(h)
               \/ /\ Insertable(i, f) /\ Goto(h, "take")
                  /\ \E a : /\ Writes(i, a) /\ SameOwner(a, i) /\ a.domain = account[i].domain
                            /\ a.email = f.email /\ a.phone = f.phone /\ HasKey(a)
<1>. DEFINE i == handler[h].id
            f == handler[h].form
            a == [account[i] EXCEPT !.email = f.email, !.phone = f.phone]
<1>1. i \in Id /\ f \in FormType /\ HasKey(f)
  BY HandlerFacts DEF InsertMirror, At, RecordInv, FirstLoginSteps
<1>2. account[i] \in Account /\ account \in [Id -> Account]
  BY <1>1 DEF TypeInv, TypeOK
<1>3. \/ ~Insertable(i, f) /\ account' = account /\ Finish(h)
      \/ /\ Insertable(i, f) /\ Goto(h, "take")
         /\ account' = [account EXCEPT ![i].email = f.email, ![i].phone = f.phone]
  BY DEF InsertMirror
<1>. HIDE DEF i, f
<1>4. /\ a \in Account /\ SameOwner(a, i) /\ a.domain = account[i].domain
      /\ a.email = f.email /\ a.phone = f.phone
  BY <1>1, <1>2 DEF Account, SameOwner, FormType
<1>5. HasKey(a)
  BY <1>1, <1>4 DEF HasKey
<1>6. [account EXCEPT ![i].email = f.email, ![i].phone = f.phone] = [account EXCEPT ![i] = a]
  BY <1>1, <1>2 DEF Account
<1>. HIDE DEF a
<1>. QED
  BY <1>1, <1>3, <1>4, <1>5, <1>6 DEF Writes, Rewritten, i, f

LEMMA ApplyWrites ==
  ASSUME TypeInv, NEW h \in Handler, ApplyExtras(h)
  PROVE  LET i == handler[h].id
             d == handler[h].stash.domain
         IN \/ ~HasAccount(i) /\ account' = account
            \/ /\ HasAccount(i)
               /\ \E a : Writes(i, a) /\ SameKeys(a, i) /\ SameOwner(a, i) /\ a.domain = d
<1>. DEFINE i == handler[h].id
            d == handler[h].stash.domain
            a == [account[i] EXCEPT !.domain = d]
<1>1. i \in Id /\ d \in Domain
  BY ApplyMoves
<1>2. account[i] \in Account /\ account \in [Id -> Account]
  BY <1>1 DEF TypeInv, TypeOK
<1>3. account' = IF HasAccount(i) THEN [account EXCEPT ![i].domain = d] ELSE account
  BY DEF ApplyExtras
<1>. HIDE DEF i, d
<1>4. a \in Account /\ SameKeys(a, i) /\ SameOwner(a, i) /\ a.domain = d
  BY <1>1, <1>2 DEF Account, SameOwner, SameKeys
<1>5. HasAccount(i) => HasKey(a)
  BY <1>1, <1>4, RowFacts DEF HasKey, SameKeys
<1>6. [account EXCEPT ![i].domain = d] = [account EXCEPT ![i] = a]
  BY <1>1, <1>2
<1>. HIDE DEF a
<1>. QED
  BY <1>3, <1>4, <1>5, <1>6 DEF Writes, Rewritten, i, d

LEMMA OnboardWrites ==
  ASSUME TypeInv, NEW h \in Handler, Onboard(h)
  PROVE  LET i == handler[h].id
             f == handler[h].form
         IN /\ i \in Id /\ f \in FormType /\ HasKey(f) /\ ItemDomain(f) \in Domain
            /\ \/ /\ ~Insertable(i, f) /\ Finish(h)
                  /\ account' = account /\ ownedFor' = ownedFor /\ item' = item
               \/ /\ Insertable(i, f) /\ Goto(h, "mint")
                  /\ \E a : /\ Writes(i, a) /\ HasKey(a)
                            /\ a.email = f.email /\ a.phone = f.phone
                            /\ a.domain = (IF handler[h].withItem THEN ItemDomain(f) ELSE f.domain)
                            /\ a.byDefault = handler[h].owner.byDefault
                  /\ ownedFor' = IF handler[h].owner.byDefault
                                 THEN [ownedFor EXCEPT ![i] = f.domain] ELSE ownedFor
                  /\ item' = IF handler[h].withItem THEN item \cup {<<i, ItemDomain(f)>>} ELSE item
<1>. DEFINE i == handler[h].id
            f == handler[h].form
            w == handler[h].withItem
            o == handler[h].owner
            d == IF w THEN ItemDomain(f) ELSE f.domain
            a == [email |-> f.email, phone |-> f.phone, domain |-> d,
                  owner |-> o.org, byDefault |-> o.byDefault]
<1>1. i \in Id /\ f \in FormType /\ HasKey(f) /\ o \in Owner /\ w \in BOOLEAN
  BY HandlerFacts DEF Onboard, At, RecordInv, OnboardSteps
<1>2. f.domain \in Domain \cup {NoDomain} /\ ItemDomain(f) \in Domain
  BY <1>1, AccountAssumption DEF FormType, ItemDomain
<1>3. \/ /\ ~Insertable(i, f) /\ Finish(h)
         /\ account' = account /\ ownedFor' = ownedFor /\ item' = item
      \/ /\ Insertable(i, f) /\ Goto(h, "mint")
         /\ account' = [account EXCEPT ![i] = a]
         /\ ownedFor' = IF o.byDefault THEN [ownedFor EXCEPT ![i] = f.domain] ELSE ownedFor
         /\ item' = IF w THEN item \cup {<<i, ItemDomain(f)>>} ELSE item
  BY DEF Onboard
<1>. HIDE DEF i, f, w, o
<1>4. d \in Domain \cup {NoDomain}
  BY <1>2
<1>. HIDE DEF d
<1>5. /\ a \in Account /\ a.email = f.email /\ a.phone = f.phone /\ a.domain = d
      /\ a.byDefault = o.byDefault
  BY <1>1, <1>4 DEF Account, FormType, Owner
<1>6. HasKey(a)
  BY <1>1, <1>5 DEF HasKey
<1>. HIDE DEF a
<1>7. account' = [account EXCEPT ![i] = a] => Writes(i, a)
  BY <1>5, <1>6 DEF Writes, Rewritten
<1>8. /\ i \in Id /\ f \in FormType /\ HasKey(f) /\ ItemDomain(f) \in Domain
      /\ \/ /\ ~Insertable(i, f) /\ Finish(h)
            /\ account' = account /\ ownedFor' = ownedFor /\ item' = item
         \/ /\ Insertable(i, f) /\ Goto(h, "mint")
            /\ \E b : /\ Writes(i, b) /\ HasKey(b)
                      /\ b.email = f.email /\ b.phone = f.phone
                      /\ b.domain = (IF w THEN ItemDomain(f) ELSE f.domain)
                      /\ b.byDefault = o.byDefault
            /\ ownedFor' = IF o.byDefault THEN [ownedFor EXCEPT ![i] = f.domain] ELSE ownedFor
            /\ item' = IF w THEN item \cup {<<i, ItemDomain(f)>>} ELSE item
  BY <1>1, <1>2, <1>3, <1>5, <1>6, <1>7 DEF d
<1>. QED
  BY <1>8 DEF i, f, w, o

LEMMA DeleteWrites ==
  ASSUME TypeInv, NEW h \in Handler, DeleteOrphan(h)
  PROVE  /\ handler[h].id \in Id
         /\ ~OwnsItems(handler[h].id) => Writes(handler[h].id, NoAccount)
  BY HandlerFacts, NoRowFacts DEF DeleteOrphan, At, Writes, Rewritten

LEMMA InsertItemWrites ==
  ASSUME TypeInv, NEW h \in Handler, InsertItem(h)
  PROVE  LET i == handler[h].id
             d == ItemDomain(handler[h].form)
         IN /\ i \in Id /\ d \in Domain
            /\ \/ account' = account /\ item' = item
               \/ /\ HasAccount(i) /\ Allowed(i, d)
                  /\ \E a : /\ Writes(i, a) /\ SameKeys(a, i) /\ SameOwner(a, i)
                            /\ a.domain = (IF MayClaim(i) THEN d ELSE account[i].domain)
                  /\ item' = item \cup {<<i, d>>}
<1>. DEFINE i == handler[h].id
            d == ItemDomain(handler[h].form)
<1>1. i \in Id /\ d \in Domain
  BY HandlerFacts, AccountAssumption DEF InsertItem, At, FormType, ItemDomain
<1>2. \/ account' = account /\ item' = item
      \/ /\ HasAccount(i) /\ Allowed(i, d)
         /\ account' = Claimed(i, d) /\ item' = item \cup {<<i, d>>}
  BY DEF InsertItem
<1>. HIDE DEF i, d
<1>3. account' = Claimed(i, d) =>
        \E a : /\ Writes(i, a) /\ SameKeys(a, i) /\ SameOwner(a, i)
               /\ a.domain = (IF MayClaim(i) THEN d ELSE account[i].domain)
  BY <1>1, ClaimWrites DEF Writes
<1>. QED
  BY <1>1, <1>2, <1>3 DEF i, d

\* An identity is created with the identifiers of a form.
LEMMA ImportWrites ==
  ASSUME TypeInv, NEW i \in Id, NEW f \in FormType, HasKey(f), Import(i, f)
  PROVE  /\ identity' \in [Id -> Identity]
         /\ identity'[i].email = f.email /\ identity'[i].phone = f.phone
         /\ identity'[i].username = Username(f)
         /\ identity'[i] # NoIdentity /\ HasKey(identity'[i])
         /\ \A j \in Id \ {i} : identity'[j] = identity[j]
<1>. DEFINE r == IdentityOf(f)
<1>1. identity' = [identity EXCEPT ![i] = r] /\ identity \in [Id -> Identity]
  BY DEF Import, TypeInv, TypeOK
<1>2. Username(f) \in Email \cup Phone
  BY DEF Username, HasKey, FormType
<1>3. r \in Identity /\ r.email = f.email /\ r.phone = f.phone /\ r.username = Username(f)
  BY <1>2 DEF IdentityOf, Identity, FormType
<1>4. HasKey(r) /\ r # NoIdentity
  BY <1>3, AccountAssumption, <1>2 DEF HasKey, NoIdentity
<1>. HIDE DEF r
<1>. QED
  BY <1>1, <1>3, <1>4

LEMMA SetDomainsMoves ==
  ASSUME TypeInv, NEW h \in Handler, NEW i \in Id, NEW d \in Domain, SetDomainsBegin(h, i, d)
  PROVE  \E r : /\ Moves(h, r) /\ r.pc = (IF MayClaim(i) THEN "tag" ELSE "held")
                /\ r.id = i /\ r.form.domain = d /\ r.stash = NoStash
<1>. DEFINE pc == IF MayClaim(i) THEN "tag" ELSE "held"
<1>1. pc \in {"tag", "held", "add"} /\ d \in Domain \cup {NoDomain} /\ d # NoDomain
  BY AccountAssumption
<1>2. Begin(h, DomainRequest(pc, i, d))
  BY DEF SetDomainsBegin, DomainRequest
<1>. HIDE DEF pc
<1>3. \E r : Moves(h, r) /\ r.pc = pc /\ r.id = i /\ r.form.domain = d /\ r.stash = NoStash
  BY <1>1, <1>2, DomainMoves
<1>. QED
  BY <1>3 DEF pc

LEMMA AddMoves ==
  ASSUME TypeInv, NEW h \in Handler, NEW i \in Id, NEW f \in Form, NEW o \in Org \cup {NoOrg},
         InsertItemBegin(h, i, f, o)
  PROVE  \E r : /\ Moves(h, r) /\ r.pc = "add" /\ r.id = i /\ r.form.domain = f.domain
                /\ r.stash = NoStash
<1>. DEFINE d == f.domain
<1>1. d \in Domain \cup {NoDomain}
  BY FormFacts DEF FormType
<1>2. Begin(h, DomainRequest("add", i, d))
  BY DEF InsertItemBegin, DomainRequest
<1>. HIDE DEF d
<1>3. \E r : Moves(h, r) /\ r.pc = "add" /\ r.id = i /\ r.form.domain = d /\ r.stash = NoStash
  BY <1>1, <1>2, DomainMoves
<1>. QED
  BY <1>3 DEF d

\* After the attempt to create the identity of an onboarded person.
LEMMA MintMoves ==
  ASSUME TypeInv, NEW h \in Handler, Mint(h) \/ MintFails(h)
  PROVE  /\ handler[h].id \in Id /\ handler[h].form \in FormType /\ HasKey(handler[h].form)
         /\ handler[h].stash = NoStash
         /\ \/ Mint(h) /\ Import(handler[h].id, handler[h].form) /\ Importable(handler[h].form)
               /\ Moves(h, Idle)
            \/ /\ MintFails(h) \/ UNCHANGED identity
               /\ \/ UNCHANGED identity
                  \/ Import(handler[h].id, handler[h].form) /\ Importable(handler[h].form)
               /\ \E r : /\ Moves(h, r) /\ r.pc = "orphan" /\ r.id = handler[h].id
                         /\ r.stash = NoStash
<1>1. /\ handler[h].id \in Id /\ handler[h].form \in FormType /\ HasKey(handler[h].form)
      /\ handler[h].stash = NoStash
  BY HandlerFacts DEF Mint, MintFails, At, RecordInv, OnboardSteps
<1>. DEFINE i == handler[h].id
<1>. HIDE DEF i
<1>2. Begin(h, [Idle EXCEPT !.pc = "orphan", !.id = i]) =>
        \E r : Moves(h, r) /\ r.pc = "orphan" /\ r.id = i /\ r.stash = NoStash
  BY <1>1, OrphanMoves DEF i
<1>3. CASE Mint(h)
  BY <1>1, <1>2, <1>3, FinishMoves DEF Mint, AfterConflict, i
<1>4. CASE MintFails(h)
  BY <1>1, <1>2, <1>4 DEF MintFails, i
<1>. QED
  BY <1>3, <1>4

\* A step changes the progress of one request, or of none.
StepsMove == handler' = handler \/ \E h \in Handler : \E r : Moves(h, r)

LEMMA HandlerSteps ==
  ASSUME TypeInv, Next
  PROVE  StepsMove
<1>1. ASSUME NEW i \in Id, NEW d \in Domain, CreateItem(i, d)
      PROVE  StepsMove
  BY <1>1 DEF CreateItem, StepsMove
<1>2. ASSUME NEW d \in Domain, NEW o \in Org \cup {NoOrg}, Nominate(d, o)
      PROVE  StepsMove
  BY <1>2 DEF Nominate, StepsMove
<1>3. ASSUME NEW i \in Id, NEW p \in Phone, ChangePhone(i, p)
      PROVE  StepsMove
  BY <1>3 DEF ChangePhone, StepsMove
<1>4. ASSUME NEW h \in Handler, NEW i \in Id, LoginBegin(h, i)
      PROVE  StepsMove
  BY <1>4, LoginMoves DEF StepsMove
<1>5. ASSUME NEW h \in Handler, NEW i \in Id, NEW d \in Domain, SetDomainsBegin(h, i, d)
      PROVE  StepsMove
  BY <1>5, SetDomainsMoves DEF StepsMove
<1>6. ASSUME NEW h \in Handler, NEW i \in Id, NEW f \in Form, SignupBegin(h, i, f)
      PROVE  StepsMove
  BY <1>6, SignupMoves DEF StepsMove
<1>7. ASSUME NEW h \in Handler, NEW i \in Id, NEW f \in Form, NEW o \in Org \cup {NoOrg}, InsertItemBegin(h, i, f, o)
      PROVE  StepsMove
  BY <1>7, AddMoves DEF StepsMove
<1>8. ASSUME NEW h \in Handler, NEW i \in Id, NEW f \in Form, NEW o \in Org \cup {NoOrg},
             NEW w \in BOOLEAN, OnboardBegin(h, i, f, o, w)
      PROVE  StepsMove
  BY <1>8, OnboardMoves DEF StepsMove
<1>9. ASSUME NEW h \in Handler, Tag(h)
      PROVE  StepsMove
  BY <1>9, FinishMoves DEF Tag, StepsMove
<1>10. ASSUME NEW h \in Handler, ReadLockedDomains(h)
      PROVE  StepsMove
  BY <1>10, FinishMoves, GotoMoves DEF ReadLockedDomains, StepsMove, At, Follows
<1>11. ASSUME NEW h \in Handler, FindInRealm(h)
      PROVE  StepsMove
  BY <1>11, FinishMoves, GotoMoves DEF FindInRealm, StepsMove, At, Follows
<1>12. ASSUME NEW h \in Handler, SignupImport(h)
      PROVE  StepsMove
  BY <1>12, FinishMoves, GotoMoves DEF SignupImport, StepsMove, At, Follows
<1>13. ASSUME NEW h \in Handler, SignupReplyLost(h)
      PROVE  StepsMove
  BY <1>13, FinishMoves DEF SignupReplyLost, StepsMove
<1>14. ASSUME NEW h \in Handler, StashExtras(h)
      PROVE  StepsMove
  BY <1>14, FinishMoves DEF StashExtras, StepsMove
<1>15. ASSUME NEW h \in Handler, RefreshMirror(h)
      PROVE  StepsMove
  BY <1>15, FinishMoves DEF RefreshMirror, StepsMove
<1>16. ASSUME NEW h \in Handler, ClashCheck(h)
      PROVE  StepsMove
  BY <1>16, FinishMoves, GotoMoves DEF ClashCheck, StepsMove, At, Follows
<1>17. ASSUME NEW h \in Handler, InsertMirror(h)
      PROVE  StepsMove
  BY <1>17, FinishMoves, GotoMoves DEF InsertMirror, StepsMove, At, Follows
<1>18. ASSUME NEW h \in Handler, TakeRead(h)
      PROVE  StepsMove
  BY <1>18, TakeMoves DEF StepsMove
<1>19. ASSUME NEW h \in Handler, TakeDelete(h)
      PROVE  StepsMove
  BY <1>19, GotoMoves DEF TakeDelete, StepsMove, At, Follows
<1>20. ASSUME NEW h \in Handler, ApplyExtras(h)
      PROVE  StepsMove
  BY <1>20, ApplyMoves DEF StepsMove
<1>21. ASSUME NEW h \in Handler, Onboard(h)
      PROVE  StepsMove
  BY <1>21, FinishMoves, GotoMoves DEF Onboard, StepsMove, At, Follows
<1>22. ASSUME NEW h \in Handler, Mint(h)
      PROVE  StepsMove
  BY <1>22, FinishMoves, MintMoves DEF Mint, StepsMove
<1>23. ASSUME NEW h \in Handler, MintFails(h)
      PROVE  StepsMove
  BY <1>23, MintMoves DEF StepsMove
<1>24. ASSUME NEW h \in Handler, DeleteOrphan(h)
      PROVE  StepsMove
  BY <1>24, FinishMoves DEF DeleteOrphan, StepsMove
<1>25. ASSUME NEW h \in Handler, InsertItem(h)
      PROVE  StepsMove
  BY <1>25, FinishMoves DEF InsertItem, StepsMove
<1>26. ASSUME NEW h \in Handler, Crash(h)
      PROVE  StepsMove
  BY <1>26, FinishMoves DEF Crash, StepsMove
<1>. QED
  BY <1>1, <1>2, <1>3, <1>4, <1>5, <1>6, <1>7, <1>8, <1>9, <1>10, <1>11, <1>12, <1>13, <1>14, <1>15, <1>16, <1>17, <1>18, <1>19, <1>20, <1>21, <1>22, <1>23, <1>24, <1>25, <1>26 DEF Next

\* A step writes to one row of "user", or to none.
RowsMove == account' = account \/ \E i \in Id : \E a : Writes(i, a)

LEMMA RowSteps ==
  ASSUME TypeInv, Next
  PROVE  RowsMove
<1>1. ASSUME NEW i \in Id, NEW d \in Domain, CreateItem(i, d)
      PROVE  RowsMove
  BY <1>1, CreateWrites DEF RowsMove
<1>2. ASSUME NEW d \in Domain, NEW o \in Org \cup {NoOrg}, Nominate(d, o)
      PROVE  RowsMove
  BY <1>2 DEF Nominate, RowsMove
<1>3. ASSUME NEW i \in Id, NEW p \in Phone, ChangePhone(i, p)
      PROVE  RowsMove
  BY <1>3 DEF ChangePhone, RowsMove
<1>4. ASSUME NEW h \in Handler, NEW i \in Id, LoginBegin(h, i)
      PROVE  RowsMove
  BY <1>4 DEF LoginBegin, RowsMove
<1>5. ASSUME NEW h \in Handler, NEW i \in Id, NEW d \in Domain, SetDomainsBegin(h, i, d)
      PROVE  RowsMove
  BY <1>5, SetDomainsWrites DEF RowsMove
<1>6. ASSUME NEW h \in Handler, NEW i \in Id, NEW f \in Form, SignupBegin(h, i, f)
      PROVE  RowsMove
  BY <1>6 DEF SignupBegin, RowsMove
<1>7. ASSUME NEW h \in Handler, NEW i \in Id, NEW f \in Form, NEW o \in Org \cup {NoOrg}, InsertItemBegin(h, i, f, o)
      PROVE  RowsMove
  BY <1>7 DEF InsertItemBegin, RowsMove
<1>8. ASSUME NEW h \in Handler, NEW i \in Id, NEW f \in Form, NEW o \in Org \cup {NoOrg},
             NEW w \in BOOLEAN, OnboardBegin(h, i, f, o, w)
      PROVE  RowsMove
  BY <1>8 DEF OnboardBegin, RowsMove
<1>9. ASSUME NEW h \in Handler, Tag(h)
      PROVE  RowsMove
  BY <1>9, TagStepWrites DEF RowsMove
<1>10. ASSUME NEW h \in Handler, ReadLockedDomains(h)
      PROVE  RowsMove
  BY <1>10 DEF ReadLockedDomains, RowsMove
<1>11. ASSUME NEW h \in Handler, FindInRealm(h)
      PROVE  RowsMove
  BY <1>11 DEF FindInRealm, RowsMove
<1>12. ASSUME NEW h \in Handler, SignupImport(h)
      PROVE  RowsMove
  BY <1>12 DEF SignupImport, RowsMove
<1>13. ASSUME NEW h \in Handler, SignupReplyLost(h)
      PROVE  RowsMove
  BY <1>13 DEF SignupReplyLost, RowsMove
<1>14. ASSUME NEW h \in Handler, StashExtras(h)
      PROVE  RowsMove
  BY <1>14 DEF StashExtras, RowsMove
<1>15. ASSUME NEW h \in Handler, RefreshMirror(h)
      PROVE  RowsMove
  BY <1>15, RefreshWrites DEF RowsMove
<1>16. ASSUME NEW h \in Handler, ClashCheck(h)
      PROVE  RowsMove
  BY <1>16 DEF ClashCheck, RowsMove
<1>17. ASSUME NEW h \in Handler, InsertMirror(h)
      PROVE  RowsMove
  BY <1>17, InsertWrites DEF RowsMove
<1>18. ASSUME NEW h \in Handler, TakeRead(h)
      PROVE  RowsMove
  BY <1>18 DEF TakeRead, RowsMove
<1>19. ASSUME NEW h \in Handler, TakeDelete(h)
      PROVE  RowsMove
  BY <1>19 DEF TakeDelete, RowsMove
<1>20. ASSUME NEW h \in Handler, ApplyExtras(h)
      PROVE  RowsMove
  BY <1>20, ApplyMoves, ApplyWrites DEF RowsMove
<1>21. ASSUME NEW h \in Handler, Onboard(h)
      PROVE  RowsMove
  BY <1>21, OnboardWrites DEF RowsMove
<1>22. ASSUME NEW h \in Handler, Mint(h)
      PROVE  RowsMove
  BY <1>22 DEF Mint, RowsMove
<1>23. ASSUME NEW h \in Handler, MintFails(h)
      PROVE  RowsMove
  BY <1>23 DEF MintFails, RowsMove
<1>24. ASSUME NEW h \in Handler, DeleteOrphan(h)
      PROVE  RowsMove
  BY <1>24, DeleteWrites DEF DeleteOrphan, RowsMove
<1>25. ASSUME NEW h \in Handler, InsertItem(h)
      PROVE  RowsMove
  BY <1>25, InsertItemWrites DEF RowsMove
<1>26. ASSUME NEW h \in Handler, Crash(h)
      PROVE  RowsMove
  BY <1>26 DEF Crash, RowsMove
<1>. QED
  BY <1>1, <1>2, <1>3, <1>4, <1>5, <1>6, <1>7, <1>8, <1>9, <1>10, <1>11, <1>12, <1>13, <1>14, <1>15, <1>16, <1>17, <1>18, <1>19, <1>20, <1>21, <1>22, <1>23, <1>24, <1>25, <1>26 DEF Next

\* A signup creates an identity, or does not; the handler stops at the latter.
LEMMA SignupImports ==
  ASSUME TypeInv, NEW h \in Handler, SignupImport(h) \/ SignupReplyLost(h)
  PROVE  /\ handler[h].id \in Id /\ handler[h].form \in FormType /\ HasKey(handler[h].form)
         /\ handler[h].stash = NoStash
         /\ \/ /\ Import(handler[h].id, handler[h].form) /\ Importable(handler[h].form)
               /\ \/ Moves(h, Idle)
                  \/ \E r : Moves(h, r) /\ r.pc = "park" /\ SameRequest(r, handler[h])
            \/ UNCHANGED identity /\ Moves(h, Idle)
<1>1. /\ handler[h].id \in Id /\ handler[h].form \in FormType /\ HasKey(handler[h].form)
      /\ handler[h].stash = NoStash /\ handler[h].pc = "import"
  BY HandlerFacts DEF SignupImport, SignupReplyLost, At, RecordInv, SignupSteps
<1>2. Goto(h, "park") /\ handler[h].form.domain # NoDomain =>
        \E r : Moves(h, r) /\ r.pc = "park" /\ SameRequest(r, handler[h])
  BY <1>1, GotoMoves DEF Follows
<1>3. CASE SignupImport(h)
  BY <1>1, <1>2, <1>3, FinishMoves DEF SignupImport
<1>4. CASE SignupReplyLost(h)
  BY <1>1, <1>4, FinishMoves DEF SignupReplyLost
<1>. QED
  BY <1>3, <1>4

\* A step creates one identity, changes the phone number of one, or does neither.
RealmMoves ==
  \/ UNCHANGED identity
  \/ \E i \in Id, f \in FormType : Import(i, f) /\ HasKey(f)
  \/ \E i \in Id, p \in Phone : ChangePhone(i, p)

LEMMA RealmSteps ==
  ASSUME TypeInv, Next
  PROVE  RealmMoves
<1>1. ASSUME NEW i \in Id, NEW d \in Domain, CreateItem(i, d)
      PROVE  RealmMoves
  BY <1>1 DEF CreateItem, RealmMoves
<1>2. ASSUME NEW d \in Domain, NEW o \in Org \cup {NoOrg}, Nominate(d, o)
      PROVE  RealmMoves
  BY <1>2 DEF Nominate, RealmMoves
<1>3. ASSUME NEW i \in Id, NEW p \in Phone, ChangePhone(i, p)
      PROVE  RealmMoves
  BY <1>3 DEF ChangePhone, RealmMoves
<1>4. ASSUME NEW h \in Handler, NEW i \in Id, LoginBegin(h, i)
      PROVE  RealmMoves
  BY <1>4 DEF LoginBegin, RealmMoves
<1>5. ASSUME NEW h \in Handler, NEW i \in Id, NEW d \in Domain, SetDomainsBegin(h, i, d)
      PROVE  RealmMoves
  BY <1>5 DEF SetDomainsBegin, RealmMoves
<1>6. ASSUME NEW h \in Handler, NEW i \in Id, NEW f \in Form, SignupBegin(h, i, f)
      PROVE  RealmMoves
  BY <1>6 DEF SignupBegin, RealmMoves
<1>7. ASSUME NEW h \in Handler, NEW i \in Id, NEW f \in Form, NEW o \in Org \cup {NoOrg}, InsertItemBegin(h, i, f, o)
      PROVE  RealmMoves
  BY <1>7 DEF InsertItemBegin, RealmMoves
<1>8. ASSUME NEW h \in Handler, NEW i \in Id, NEW f \in Form, NEW o \in Org \cup {NoOrg},
             NEW w \in BOOLEAN, OnboardBegin(h, i, f, o, w)
      PROVE  RealmMoves
  BY <1>8 DEF OnboardBegin, RealmMoves
<1>9. ASSUME NEW h \in Handler, Tag(h)
      PROVE  RealmMoves
  BY <1>9 DEF Tag, RealmMoves
<1>10. ASSUME NEW h \in Handler, ReadLockedDomains(h)
      PROVE  RealmMoves
  BY <1>10 DEF ReadLockedDomains, RealmMoves
<1>11. ASSUME NEW h \in Handler, FindInRealm(h)
      PROVE  RealmMoves
  BY <1>11 DEF FindInRealm, RealmMoves
<1>12. ASSUME NEW h \in Handler, SignupImport(h)
      PROVE  RealmMoves
  BY <1>12, SignupImports DEF RealmMoves
<1>13. ASSUME NEW h \in Handler, SignupReplyLost(h)
      PROVE  RealmMoves
  BY <1>13, SignupImports DEF RealmMoves
<1>14. ASSUME NEW h \in Handler, StashExtras(h)
      PROVE  RealmMoves
  BY <1>14 DEF StashExtras, RealmMoves
<1>15. ASSUME NEW h \in Handler, RefreshMirror(h)
      PROVE  RealmMoves
  BY <1>15 DEF RefreshMirror, RealmMoves
<1>16. ASSUME NEW h \in Handler, ClashCheck(h)
      PROVE  RealmMoves
  BY <1>16 DEF ClashCheck, RealmMoves
<1>17. ASSUME NEW h \in Handler, InsertMirror(h)
      PROVE  RealmMoves
  BY <1>17 DEF InsertMirror, RealmMoves
<1>18. ASSUME NEW h \in Handler, TakeRead(h)
      PROVE  RealmMoves
  BY <1>18 DEF TakeRead, RealmMoves
<1>19. ASSUME NEW h \in Handler, TakeDelete(h)
      PROVE  RealmMoves
  BY <1>19 DEF TakeDelete, RealmMoves
<1>20. ASSUME NEW h \in Handler, ApplyExtras(h)
      PROVE  RealmMoves
  BY <1>20 DEF ApplyExtras, RealmMoves
<1>21. ASSUME NEW h \in Handler, Onboard(h)
      PROVE  RealmMoves
  BY <1>21 DEF Onboard, RealmMoves
<1>22. ASSUME NEW h \in Handler, Mint(h)
      PROVE  RealmMoves
  BY <1>22, MintMoves DEF Mint, RealmMoves
<1>23. ASSUME NEW h \in Handler, MintFails(h)
      PROVE  RealmMoves
  BY <1>23, MintMoves DEF RealmMoves
<1>24. ASSUME NEW h \in Handler, DeleteOrphan(h)
      PROVE  RealmMoves
  BY <1>24 DEF DeleteOrphan, RealmMoves
<1>25. ASSUME NEW h \in Handler, InsertItem(h)
      PROVE  RealmMoves
  BY <1>25 DEF InsertItem, RealmMoves
<1>26. ASSUME NEW h \in Handler, Crash(h)
      PROVE  RealmMoves
  BY <1>26 DEF Crash, RealmMoves
<1>. QED
  BY <1>1, <1>2, <1>3, <1>4, <1>5, <1>6, <1>7, <1>8, <1>9, <1>10, <1>11, <1>12, <1>13, <1>14, <1>15, <1>16, <1>17, <1>18, <1>19, <1>20, <1>21, <1>22, <1>23, <1>24, <1>25, <1>26 DEF Next

LEMMA ChangeWrites ==
  ASSUME TypeInv, NEW i \in Id, NEW p \in Phone, ChangePhone(i, p)
  PROVE  /\ identity' \in [Id -> Identity]
         /\ identity'[i].email = identity[i].email /\ identity'[i].phone = p
         /\ HasKey(identity'[i]) /\ identity'[i] # NoIdentity
         /\ \A j \in Id \ {i} : identity'[j] = identity[j]
<1>. DEFINE r == [identity[i] EXCEPT !.phone = p]
<1>1. identity[i] \in Identity /\ identity \in [Id -> Identity] /\ HasIdentity(i)
  BY DEF TypeInv, TypeOK, ChangePhone, LoggedIn
<1>2. identity[i].username \in Email \cup Phone
  BY <1>1 DEF HasIdentity, Identity, NoIdentity
<1>3. r \in Identity /\ r.email = identity[i].email /\ r.phone = p
  BY <1>1, <1>2 DEF HasIdentity, Identity
<1>4. HasKey(r) /\ r # NoIdentity
  BY <1>3, AccountAssumption DEF HasKey, NoIdentity
<1>5. identity' = [identity EXCEPT ![i] = r]
  BY <1>1 DEF ChangePhone
<1>. HIDE DEF r
<1>. QED
  BY <1>1, <1>3, <1>4, <1>5

LEMMA NoStashFact == NoStash \in Stash
  BY DEF NoStash, Stash

LEMMA ParkWrites ==
  ASSUME TypeInv, NEW h \in Handler, StashExtras(h)
  PROVE  \E s \in Stash : 
           /\ s # NoStash /\ s.id = handler[h].id /\ s.keys = KeysFor(handler[h].form)
           /\ s.domain = handler[h].form.domain /\ handler[h].id \in Id
           /\ stash' = [k \in Email \cup Phone |-> IF k \in s.keys THEN s ELSE stash[k]]
<1>. DEFINE f == handler[h].form
            s == [id |-> handler[h].id, domain |-> f.domain, keys |-> KeysFor(f)]
<1>1. handler[h].id \in Id /\ f \in FormType /\ f.domain # NoDomain
  BY HandlerFacts DEF StashExtras, At, RecordInv
<1>2. f.domain \in Domain /\ KeysFor(f) \in SUBSET (Email \cup Phone)
  BY <1>1 DEF FormType, KeysFor
<1>3. s \in Stash /\ s # NoStash
  BY <1>1, <1>2, AccountAssumption DEF Stash, NoStash
<1>4. stash' = [k \in Email \cup Phone |-> IF k \in s.keys THEN s ELSE stash[k]]
  BY DEF StashExtras, TypeInv, TypeOK
<1>. QED
  BY <1>1, <1>3, <1>4

RestMoves ==
  /\ stash' \in [Email \cup Phone -> Stash]
  /\ item' \subseteq Id \X Domain
  /\ nominee' \in [Domain -> Org \cup {NoOrg}]
  /\ applied' \in [Id -> Id \cup {NoId}]
  /\ ownedFor' \in [Id -> Domain \cup {NoDomain}]
  /\ disturbed' \subseteq Id /\ cutOff' \subseteq Id
  /\ faults' \in 0 .. MaxFaults

LEMMA FaultFact ==
  ASSUME TypeInv, Fault
  PROVE  faults' \in 0 .. MaxFaults
  BY AccountAssumption DEF TypeInv, TypeOK, Fault

LEMMA RestSteps ==
  ASSUME TypeInv, Next
  PROVE  RestMoves
<1>1. ASSUME NEW i \in Id, NEW d \in Domain, CreateItem(i, d)
      PROVE  RestMoves
  BY <1>1 DEF CreateItem, NoteOwner, RestMoves, TypeInv, TypeOK
<1>2. ASSUME NEW d \in Domain, NEW o \in Org \cup {NoOrg}, Nominate(d, o)
      PROVE  RestMoves
  BY <1>2 DEF Nominate, RestMoves, TypeInv, TypeOK, history
<1>3. ASSUME NEW i \in Id, NEW p \in Phone, ChangePhone(i, p)
      PROVE  RestMoves
  BY <1>3, FaultFact DEF ChangePhone, RestMoves, TypeInv, TypeOK, history
<1>4. ASSUME NEW h \in Handler, NEW i \in Id, LoginBegin(h, i)
      PROVE  RestMoves
  BY <1>4 DEF LoginBegin, RestMoves, TypeInv, TypeOK, history
<1>5. ASSUME NEW h \in Handler, NEW i \in Id, NEW d \in Domain, SetDomainsBegin(h, i, d)
      PROVE  RestMoves
  BY <1>5 DEF SetDomainsBegin, RestMoves, TypeInv, TypeOK, history
<1>6. ASSUME NEW h \in Handler, NEW i \in Id, NEW f \in Form, SignupBegin(h, i, f)
      PROVE  RestMoves
  BY <1>6 DEF SignupBegin, RestMoves, TypeInv, TypeOK, history
<1>7. ASSUME NEW h \in Handler, NEW i \in Id, NEW f \in Form, NEW o \in Org \cup {NoOrg}, InsertItemBegin(h, i, f, o)
      PROVE  RestMoves
  BY <1>7 DEF InsertItemBegin, RestMoves, TypeInv, TypeOK, history
<1>8. ASSUME NEW h \in Handler, NEW i \in Id, NEW f \in Form, NEW o \in Org \cup {NoOrg},
             NEW w \in BOOLEAN, OnboardBegin(h, i, f, o, w)
      PROVE  RestMoves
  BY <1>8 DEF OnboardBegin, RestMoves, TypeInv, TypeOK, history
<1>9. ASSUME NEW h \in Handler, Tag(h)
      PROVE  RestMoves
  BY <1>9, TagStepWrites DEF Tag, NoteOwner, RestMoves, TypeInv, TypeOK
<1>10. ASSUME NEW h \in Handler, ReadLockedDomains(h)
      PROVE  RestMoves
  BY <1>10 DEF ReadLockedDomains, RestMoves, TypeInv, TypeOK, history
<1>11. ASSUME NEW h \in Handler, FindInRealm(h)
      PROVE  RestMoves
  BY <1>11 DEF FindInRealm, RestMoves, TypeInv, TypeOK, history
<1>12. ASSUME NEW h \in Handler, SignupImport(h)
      PROVE  RestMoves
  BY <1>12 DEF SignupImport, RestMoves, TypeInv, TypeOK, history
<1>13. ASSUME NEW h \in Handler, SignupReplyLost(h)
      PROVE  RestMoves
  BY <1>13, FaultFact DEF SignupReplyLost, RestMoves, TypeInv, TypeOK, history
<1>14. ASSUME NEW h \in Handler, StashExtras(h)
      PROVE  RestMoves
  BY <1>14, ParkWrites DEF StashExtras, RestMoves, TypeInv, TypeOK, history
<1>15. ASSUME NEW h \in Handler, RefreshMirror(h)
      PROVE  RestMoves
  BY <1>15 DEF RefreshMirror, RestMoves, TypeInv, TypeOK, history
<1>16. ASSUME NEW h \in Handler, ClashCheck(h)
      PROVE  RestMoves
  BY <1>16 DEF ClashCheck, RestMoves, TypeInv, TypeOK, history
<1>17. ASSUME NEW h \in Handler, InsertMirror(h)
      PROVE  RestMoves
  BY <1>17 DEF InsertMirror, RestMoves, TypeInv, TypeOK, history
<1>18. ASSUME NEW h \in Handler, TakeRead(h)
      PROVE  RestMoves
  BY <1>18 DEF TakeRead, RestMoves, TypeInv, TypeOK, history
<1>19. ASSUME NEW h \in Handler, TakeDelete(h)
      PROVE  RestMoves
  BY <1>19, NoStashFact DEF TakeDelete, RestMoves, TypeInv, TypeOK, history
<1>20. ASSUME NEW h \in Handler, ApplyExtras(h)
      PROVE  RestMoves
  BY <1>20, ApplyMoves DEF ApplyExtras, RestMoves, TypeInv, TypeOK
<1>21. ASSUME NEW h \in Handler, Onboard(h)
      PROVE  RestMoves
  <2>. DEFINE i == handler[h].id
              f == handler[h].form
  <2>1. i \in Id /\ ItemDomain(f) \in Domain /\ f.domain \in Domain \cup {NoDomain}
    BY <1>21, OnboardWrites DEF FormType
  <2>2. ownedFor' \in {ownedFor, [ownedFor EXCEPT ![i] = f.domain]}
    BY <1>21, OnboardWrites
  <2>3. item' \in {item, item \cup {<<i, ItemDomain(f)>>}}
    BY <1>21, OnboardWrites
  <2>. HIDE DEF i, f
  <2>. QED
    BY <1>21, <2>1, <2>2, <2>3 DEF Onboard, RestMoves, TypeInv, TypeOK
<1>22. ASSUME NEW h \in Handler, Mint(h)
      PROVE  RestMoves
  BY <1>22 DEF Mint, RestMoves, TypeInv, TypeOK, history
<1>23. ASSUME NEW h \in Handler, MintFails(h)
      PROVE  RestMoves
  BY <1>23, FaultFact DEF MintFails, RestMoves, TypeInv, TypeOK, history
<1>24. ASSUME NEW h \in Handler, DeleteOrphan(h)
      PROVE  RestMoves
  BY <1>24, HandlerFacts DEF DeleteOrphan, At, RestMoves, TypeInv, TypeOK
<1>25. ASSUME NEW h \in Handler, InsertItem(h)
      PROVE  RestMoves
  BY <1>25, InsertItemWrites DEF InsertItem, RestMoves, TypeInv, TypeOK, history
<1>26. ASSUME NEW h \in Handler, Crash(h)
      PROVE  RestMoves
  BY <1>26, FaultFact, HandlerFacts DEF Crash, At, RestMoves, TypeInv, TypeOK
<1>. QED
  BY <1>1, <1>2, <1>3, <1>4, <1>5, <1>6, <1>7, <1>8, <1>9, <1>10, <1>11, <1>12, <1>13, <1>14, <1>15, <1>16, <1>17, <1>18, <1>19, <1>20, <1>21, <1>22, <1>23, <1>24, <1>25, <1>26 DEF Next

LEMMA TypesKept ==
  ASSUME TypeInv, [Next]_vars
  PROVE  TypeInv'
<1>1. CASE Next
  <2>1. /\ handler' \in [Handler -> HandlerState]
        /\ \A g \in Handler : RecordInv(handler'[g])
    <3>1. CASE handler' = handler
      BY <3>1 DEF TypeInv, TypeOK
    <3>2. CASE \E h \in Handler : \E r : Moves(h, r)
      BY <3>2, MovesKeep
    <3>. QED
      BY <1>1, <3>1, <3>2, HandlerSteps DEF StepsMove
  <2>2. /\ account' \in [Id -> Account]
        /\ \A j \in Id : account'[j] # NoAccount => HasKey(account'[j])
    <3>1. CASE account' = account
      BY <3>1 DEF TypeInv, TypeOK, HasAccount
    <3>2. CASE \E i \in Id : \E a : Writes(i, a)
      BY <3>2, WritesKeep
    <3>. QED
      BY <1>1, <3>1, <3>2, RowSteps DEF RowsMove
  <2>3. /\ identity' \in [Id -> Identity]
        /\ \A j \in Id : identity'[j] # NoIdentity => HasKey(identity'[j])
    <3>1. CASE UNCHANGED identity
      BY <3>1 DEF TypeInv, TypeOK, HasIdentity
    <3>2. CASE \E i \in Id, f \in FormType : Import(i, f) /\ HasKey(f)
      <4>1. PICK i \in Id, f \in FormType : Import(i, f) /\ HasKey(f)
        BY <3>2
      <4>2. /\ identity' \in [Id -> Identity] /\ HasKey(identity'[i])
            /\ \A j \in Id \ {i} : identity'[j] = identity[j]
        BY <4>1, ImportWrites
      <4>. QED
        BY <4>2 DEF TypeInv, HasIdentity
    <3>3. CASE \E i \in Id, p \in Phone : ChangePhone(i, p)
      <4>1. PICK i \in Id, p \in Phone : ChangePhone(i, p)
        BY <3>3
      <4>2. /\ identity' \in [Id -> Identity] /\ HasKey(identity'[i])
            /\ \A j \in Id \ {i} : identity'[j] = identity[j]
        BY <4>1, ChangeWrites
      <4>. QED
        BY <4>2 DEF TypeInv, HasIdentity
    <3>. QED
      BY <1>1, <3>1, <3>2, <3>3, RealmSteps DEF RealmMoves
  <2>4. \A j \in Id : account'[j] # NoAccount => KeysFor(account'[j]) # {}
    <3>1. \A a \in Account : KeysFor(a) # {} <=> HasKey(a)
      BY AccountAssumption DEF KeysFor, HasKey, Account
    <3>. QED
      BY <2>2, <3>1
  <2>5. RestMoves
    BY <1>1, RestSteps
  <2>. QED
    BY <2>1, <2>2, <2>3, <2>4, <2>5 DEF TypeInv, TypeOK, RestMoves, HasAccount, HasIdentity
<1>2. CASE UNCHANGED vars
  BY <1>2 DEF TypeInv, TypeOK, vars, HasAccount, HasIdentity
<1>. QED
  BY <1>1, <1>2

LEMMA InitTypes ==
  ASSUME Init
  PROVE  TypeInv
<1>1. PICK l \in Id \cup {NoId}, f \in Form, d \in Domain :
        /\ identity = [i \in Id |-> IF i = l THEN IdentityOf(f) ELSE NoIdentity]
        /\ account = [i \in Id |-> IF i = l THEN [NoAccount EXCEPT !.email = f.email,
                                                                   !.phone = f.phone]
                                   ELSE NoAccount]
        /\ item = (Id \cap {l}) \X {d}
  BY DEF Init
<1>. DEFINE a == [NoAccount EXCEPT !.email = f.email, !.phone = f.phone]
            r == IdentityOf(f)
<1>2. f \in FormType /\ HasKey(f)
  BY FormFacts
<1>3. a \in Account /\ a.email = f.email /\ a.phone = f.phone
  BY <1>2, NoRowFacts DEF Account, FormType
<1>4. HasKey(a) /\ KeysFor(a) # {}
  <2>1. HasKey(a)
    BY <1>2, <1>3 DEF HasKey
  <2>. HIDE DEF a
  <2>. QED
    BY <2>1, <1>3, AccountAssumption DEF HasKey, KeysFor, Account
<1>5. Username(f) \in Email \cup Phone
  BY <1>2 DEF Username, HasKey, FormType
<1>6. r \in Identity /\ HasKey(r) /\ NoIdentity \in Identity
  BY <1>2, <1>5 DEF IdentityOf, Identity, FormType, HasKey
<1>. HIDE DEF a, r
<1>7. /\ identity = [i \in Id |-> IF i = l THEN r ELSE NoIdentity]
      /\ account = [i \in Id |-> IF i = l THEN a ELSE NoAccount]
  BY <1>1 DEF a, r
<1>8. /\ identity \in [Id -> Identity] /\ account \in [Id -> Account]
      /\ \A i \in Id : HasIdentity(i) => HasKey(identity[i])
      /\ \A i \in Id : HasAccount(i) => HasKey(account[i])
      /\ \A i \in Id : account[i] # NoAccount => KeysFor(account[i]) # {}
  BY <1>3, <1>4, <1>6, <1>7, NoRowFacts DEF HasIdentity, HasAccount
<1>9. /\ handler \in [Handler -> HandlerState] /\ \A h \in Handler : RecordInv(handler[h])
  BY IdleFacts DEF Init
<1>10. /\ stash \in [Email \cup Phone -> Stash] /\ item \subseteq Id \X Domain
       /\ nominee \in [Domain -> Org \cup {NoOrg}] /\ applied \in [Id -> Id \cup {NoId}]
       /\ ownedFor \in [Id -> Domain \cup {NoDomain}] /\ disturbed \subseteq Id
       /\ cutOff \subseteq Id /\ faults \in 0 .. MaxFaults
  BY <1>1, NoStashFact, AccountAssumption DEF Init
<1>. QED
  BY <1>8, <1>9, <1>10 DEF TypeInv, TypeOK

LEMMA TypesInvariant == Spec => []TypeInv
<1>1. Init => TypeInv
  BY InitTypes
<1>2. TypeInv /\ [Next]_vars => TypeInv'
  BY TypesKept
<1>. QED
  BY <1>1, <1>2, PTL DEF Spec

\* Rows, identities, parked extras and requests keep their shape, and a row never
\* consists of a domain or an owner alone: a statement that writes to an account
\* which a failed onboarding has removed finds no row.
THEOREM AccountsTypes == Spec => []TypeOK
<1>1. TypeInv => TypeOK
  BY DEF TypeInv
<1>. QED
  BY <1>1, TypesInvariant, PTL

-----------------------------------------------------------------------------
(* Owners. *)

OwnersStay ==
  \A i \in Id : account[i].owner # NoOrg /\ account'[i] # NoAccount =>
    <<account'[i].owner, account'[i].byDefault>> = <<account[i].owner, account[i].byDefault>>

LEMMA OwnerKept ==
  ASSUME TypeInv, NEW i \in Id, NEW a, Writes(i, a),
         SameOwner(a, i) \/ account[i].owner = NoOrg \/ a = NoAccount
  PROVE  OwnersStay
  BY WritesKeep DEF OwnersStay, SameOwner

LEMMA OwnerSteps ==
  ASSUME TypeInv, Next
  PROVE  OwnersStay
<1>1. ASSUME NEW i \in Id, NEW d \in Domain, CreateItem(i, d)
      PROVE  OwnersStay
  BY <1>1, CreateWrites, OwnerKept DEF MayOwn
<1>2. ASSUME NEW d \in Domain, NEW o \in Org \cup {NoOrg}, Nominate(d, o)
      PROVE  OwnersStay
  BY <1>2 DEF Nominate, OwnersStay
<1>3. ASSUME NEW i \in Id, NEW p \in Phone, ChangePhone(i, p)
      PROVE  OwnersStay
  BY <1>3 DEF ChangePhone, OwnersStay
<1>4. ASSUME NEW h \in Handler, NEW i \in Id, LoginBegin(h, i)
      PROVE  OwnersStay
  BY <1>4 DEF LoginBegin, OwnersStay
<1>5. ASSUME NEW h \in Handler, NEW i \in Id, NEW d \in Domain, SetDomainsBegin(h, i, d)
      PROVE  OwnersStay
  BY <1>5, SetDomainsWrites, OwnerKept
<1>6. ASSUME NEW h \in Handler, NEW i \in Id, NEW f \in Form, SignupBegin(h, i, f)
      PROVE  OwnersStay
  BY <1>6 DEF SignupBegin, OwnersStay
<1>7. ASSUME NEW h \in Handler, NEW i \in Id, NEW f \in Form, NEW o \in Org \cup {NoOrg}, InsertItemBegin(h, i, f, o)
      PROVE  OwnersStay
  BY <1>7 DEF InsertItemBegin, OwnersStay
<1>8. ASSUME NEW h \in Handler, NEW i \in Id, NEW f \in Form, NEW o \in Org \cup {NoOrg},
             NEW w \in BOOLEAN, OnboardBegin(h, i, f, o, w)
      PROVE  OwnersStay
  BY <1>8 DEF OnboardBegin, OwnersStay
<1>9. ASSUME NEW h \in Handler, Tag(h)
      PROVE  OwnersStay
  BY <1>9, TagStepWrites, OwnerKept DEF MayOwn
<1>10. ASSUME NEW h \in Handler, ReadLockedDomains(h)
      PROVE  OwnersStay
  BY <1>10 DEF ReadLockedDomains, OwnersStay
<1>11. ASSUME NEW h \in Handler, FindInRealm(h)
      PROVE  OwnersStay
  BY <1>11 DEF FindInRealm, OwnersStay
<1>12. ASSUME NEW h \in Handler, SignupImport(h)
      PROVE  OwnersStay
  BY <1>12 DEF SignupImport, OwnersStay
<1>13. ASSUME NEW h \in Handler, SignupReplyLost(h)
      PROVE  OwnersStay
  BY <1>13 DEF SignupReplyLost, OwnersStay
<1>14. ASSUME NEW h \in Handler, StashExtras(h)
      PROVE  OwnersStay
  BY <1>14 DEF StashExtras, OwnersStay
<1>15. ASSUME NEW h \in Handler, RefreshMirror(h)
      PROVE  OwnersStay
  BY <1>15, RefreshWrites, OwnerKept DEF OwnersStay
<1>16. ASSUME NEW h \in Handler, ClashCheck(h)
      PROVE  OwnersStay
  BY <1>16 DEF ClashCheck, OwnersStay
<1>17. ASSUME NEW h \in Handler, InsertMirror(h)
      PROVE  OwnersStay
  BY <1>17, InsertWrites, OwnerKept DEF OwnersStay
<1>18. ASSUME NEW h \in Handler, TakeRead(h)
      PROVE  OwnersStay
  BY <1>18 DEF TakeRead, OwnersStay
<1>19. ASSUME NEW h \in Handler, TakeDelete(h)
      PROVE  OwnersStay
  BY <1>19 DEF TakeDelete, OwnersStay
<1>20. ASSUME NEW h \in Handler, ApplyExtras(h)
      PROVE  OwnersStay
  BY <1>20, ApplyMoves, ApplyWrites, OwnerKept DEF OwnersStay
<1>21. ASSUME NEW h \in Handler, Onboard(h)
      PROVE  OwnersStay
  BY <1>21, OnboardWrites, OwnerKept, NoRowFacts DEF OwnersStay, Insertable, HasAccount
<1>22. ASSUME NEW h \in Handler, Mint(h)
      PROVE  OwnersStay
  BY <1>22 DEF Mint, OwnersStay
<1>23. ASSUME NEW h \in Handler, MintFails(h)
      PROVE  OwnersStay
  BY <1>23 DEF MintFails, OwnersStay
<1>24. ASSUME NEW h \in Handler, DeleteOrphan(h)
      PROVE  OwnersStay
  BY <1>24, DeleteWrites, OwnerKept DEF DeleteOrphan, OwnersStay
<1>25. ASSUME NEW h \in Handler, InsertItem(h)
      PROVE  OwnersStay
  BY <1>25, InsertItemWrites, OwnerKept DEF OwnersStay
<1>26. ASSUME NEW h \in Handler, Crash(h)
      PROVE  OwnersStay
  BY <1>26 DEF Crash, OwnersStay
<1>. QED
  BY <1>1, <1>2, <1>3, <1>4, <1>5, <1>6, <1>7, <1>8, <1>9, <1>10, <1>11, <1>12, <1>13, <1>14, <1>15, <1>16, <1>17, <1>18, <1>19, <1>20, <1>21, <1>22, <1>23, <1>24, <1>25, <1>26 DEF Next

\* No step gives an account that has an owner another one, nor makes a default of
\* an owner that onboarded the account, however the requests about it overlap.
THEOREM OwnerTheorem == Spec => OwnerWriteOnce
<1>1. TypeInv /\ [Next]_vars => [OwnersStay]_vars
  BY OwnerSteps
<1>2. OwnersStay <=>
        \A i \in Id : account[i].owner # NoOrg /\ account'[i] # NoAccount =>
          <<account'[i].owner, account'[i].byDefault>> = <<account[i].owner, account[i].byDefault>>
  BY DEF OwnersStay
<1>. QED
  BY <1>1, <1>2, TypesInvariant, PTL DEF Spec, OwnerWriteOnce, OwnersStay

-----------------------------------------------------------------------------
(* The domain of an account.  While an account is undisturbed, the column and
   the profiles name the same domain; whoever has passed the first login or has
   chosen a domain has a row; and who is about to tag it with the owner of a
   domain is holding a domain it is locked to. *)

\* The locks of accounts, without regard to where they are kept.
Named(i) == {d \in Domain : account[i].domain = d \/ <<i, d>> \in item}
OneName(i) == \A d, e \in Named(i) : d = e

Settled == {"take", "delete", "apply", "tag", "held"}

AccountLock(i) ==
  /\ OwnsItems(i) => HasAccount(i)
  /\ i \notin disturbed =>
       OneName(i) /\ (account[i].byDefault => ownedFor[i] \in Named(i))

RequestLock(r) ==
  /\ r.pc \in LoginSteps \cup Settled => HasIdentity(r.id)
  /\ r.pc \in Settled /\ r.id \notin disturbed =>
       /\ HasAccount(r.id)
       /\ r.pc = "held" => Named(r.id) # {}
       /\ r.pc = "tag" => r.form.domain \in Named(r.id)

LockInv ==
  /\ \A i \in Id : AccountLock(i)
  /\ \A h \in Handler : RequestLock(handler[h])

LEMMA LockedFacts ==
  ASSUME TypeInv, NEW i \in Id
  PROVE  /\ LockedDomains(i) \subseteq Named(i)
         /\ LockedDomains(i) = {} <=> Named(i) = {}
         /\ OneName(i) => LockedDomains(i) = Named(i)
<1>1. account[i].domain \in Domain \cup {NoDomain} /\ NoDomain \notin Domain
  BY RowFacts, AccountAssumption
<1>2. CASE account[i].domain = NoDomain
  BY <1>1, <1>2 DEF LockedDomains, Named
<1>3. CASE account[i].domain # NoDomain
  <2>1. LockedDomains(i) = {account[i].domain} /\ account[i].domain \in Named(i)
    BY <1>1, <1>3 DEF LockedDomains, Named
  <2>. QED
    BY <2>1 DEF OneName
<1>. QED
  BY <1>2, <1>3

\* What an undisturbed account is locked to when a domain is allowed.
LEMMA AllowedFacts ==
  ASSUME TypeInv, LockInv, NEW i \in Id \ disturbed, NEW d \in Domain, Allowed(i, d), HasAccount(i)
  PROVE  /\ MayClaim(i) <=> Named(i) = {}
         /\ Named(i) # {} => Named(i) = {d}
<1>1. LockedDomains(i) = Named(i) /\ OneName(i)
  BY LockedFacts DEF LockInv, AccountLock
<1>. QED
  BY <1>1 DEF Allowed, MayClaim, OneName

\* No step takes a domain from an undisturbed account, or the row from one that
\* can log in.
LocksStay ==
  /\ disturbed \subseteq disturbed'
  /\ \A i \in Id : HasIdentity(i) => HasIdentity(i)'
  /\ \A i \in Id \ disturbed' :
       HasIdentity(i) => Named(i) \subseteq Named(i)' /\ (HasAccount(i) => HasAccount(i)')

LEMMA RequestKept ==
  ASSUME TypeInv, LocksStay, NEW r, r.pc # "idle" => r.id \in Id, RequestLock(r)
  PROVE  RequestLock(r)'
<1>1. r.pc \in Settled => r.id \in Id
  BY DEF Settled
<1>2. r.pc \in LoginSteps => r.id \in Id
  BY DEF LoginSteps, FirstLoginSteps, TakeSteps
<1>. QED
  BY <1>1, <1>2 DEF RequestLock, LocksStay

LEMMA LockFrame ==
  ASSUME TypeInv, LockInv, LocksStay, \A i \in Id : AccountLock(i)',
         \/ handler' = handler
         \/ \E h \in Handler : \E r : Moves(h, r) /\ RequestLock(r)'
  PROVE  LockInv'
<1>1. \A g \in Handler : handler'[g] = handler[g] => RequestLock(handler[g])'
  <2>1. SUFFICES ASSUME NEW g \in Handler, handler'[g] = handler[g]
                 PROVE  RequestLock(handler[g])'
    OBVIOUS
  <2>. DEFINE r == handler[g]
  <2>2. RequestLock(r) /\ (r.pc # "idle" => r.id \in Id)
    BY HandlerFacts DEF LockInv
  <2>3. \A q : q = r => RequestLock(q)'
    BY <2>2, RequestKept
  <2>. QED
    BY <2>1, <2>3 DEF RequestLock
<1>2. ASSUME NEW h \in Handler, NEW r, Moves(h, r), RequestLock(r)'
      PROVE  \A g \in Handler : RequestLock(handler[g])'
  <2>1. handler'[h] = r /\ \A g \in Handler \ {h} : handler'[g] = handler[g]
    BY <1>2, MovesKeep
  <2>2. RequestLock(handler[h])'
    BY <1>2, <2>1 DEF RequestLock
  <2>. QED
    BY <1>1, <2>1, <2>2
<1>3. \A g \in Handler : RequestLock(handler[g])'
  BY <1>1, <1>2
<1>. QED
  BY <1>3 DEF LockInv

\* Steps that write to no row and create or change identities at most.
Quiet ==
  /\ UNCHANGED <<account, item, ownedFor, disturbed>>
  /\ \A i \in Id : HasIdentity(i) => HasIdentity(i)'

LEMMA QuietLocks ==
  ASSUME LockInv, Quiet
  PROVE  LocksStay /\ \A i \in Id : AccountLock(i)'
  BY DEF LockInv, Quiet, LocksStay, AccountLock, Named, OneName, OwnsItems, HasAccount

\* Steps that write to the row of i alone.
LEMMA RowLocks ==
  ASSUME TypeInv, LockInv, NEW i \in Id, NEW a, Writes(i, a),
         identity' = identity,
         disturbed \subseteq disturbed', disturbed' \subseteq disturbed \cup {i},
         item \subseteq item',
         \A j \in Id \ {i}, d \in Domain : <<j, d>> \in item' => <<j, d>> \in item,
         \A j \in Id \ {i} : ownedFor'[j] = ownedFor[j],
         AccountLock(i)',
         i \notin disturbed' /\ HasIdentity(i) =>
           Named(i) \subseteq Named(i)' /\ (HasAccount(i) => a # NoAccount)
  PROVE  LocksStay /\ \A j \in Id : AccountLock(j)'
<1>1. account'[i] = a /\ \A j \in Id \ {i} : account'[j] = account[j]
  BY WritesKeep
<1>2. ASSUME NEW j \in Id \ {i}
      PROVE  /\ Named(j)' = Named(j) /\ (HasAccount(j)' <=> HasAccount(j))
             /\ (OwnsItems(j)' <=> OwnsItems(j)) /\ (j \in disturbed' <=> j \in disturbed)
  BY <1>1 DEF Named, HasAccount, OwnsItems
<1>3. ASSUME NEW j \in Id \ {i}
      PROVE  AccountLock(j)'
  BY <1>1, <1>2 DEF LockInv, AccountLock, OneName
<1>4. LocksStay
  BY <1>1, <1>2 DEF LocksStay, HasIdentity, HasAccount
<1>. QED
  BY <1>3, <1>4

LEMMA RealmGrows ==
  ASSUME TypeInv, Next
  PROVE  \A i \in Id : HasIdentity(i) => HasIdentity(i)'
<1>1. CASE UNCHANGED identity
  BY <1>1 DEF HasIdentity
<1>2. CASE \E i \in Id, f \in FormType : Import(i, f) /\ HasKey(f)
  <2>1. PICK i \in Id, f \in FormType : Import(i, f) /\ HasKey(f)
    BY <1>2
  <2>2. identity'[i] # NoIdentity /\ \A j \in Id \ {i} : identity'[j] = identity[j]
    BY <2>1, ImportWrites
  <2>. QED
    BY <2>2 DEF HasIdentity
<1>3. CASE \E i \in Id, p \in Phone : ChangePhone(i, p)
  <2>1. PICK i \in Id, p \in Phone : ChangePhone(i, p)
    BY <1>3
  <2>2. identity'[i] # NoIdentity /\ \A j \in Id \ {i} : identity'[j] = identity[j]
    BY <2>1, ChangeWrites
  <2>. QED
    BY <2>2 DEF HasIdentity
<1>. QED
  BY <1>1, <1>2, <1>3, RealmSteps DEF RealmMoves

\* What the request of h becomes keeps to the locks.
GoesOn == \/ handler' = handler
          \/ \E h \in Handler : \E r : Moves(h, r) /\ RequestLock(r)'

\* A request that is not in, or past, a first login has nothing to keep to.
LEMMA FreeRequest ==
  ASSUME NEW r, r.pc \notin LoginSteps \cup Settled
  PROVE  RequestLock(r)'
  BY DEF RequestLock

LEMMA FreeSteps ==
  /\ Idle.pc \notin LoginSteps \cup Settled
  /\ \A pc \in {"lookup", "import", "park", "onboard", "mint", "orphan", "add"} :
        pc \notin LoginSteps \cup Settled
  BY IdleFacts DEF LoginSteps, FirstLoginSteps, TakeSteps, Settled

LEMMA FinishGoesOn ==
  ASSUME NEW h \in Handler, Moves(h, Idle)
  PROVE  GoesOn
  BY FreeSteps, FreeRequest DEF GoesOn

\* A request that goes on with the same person, while nothing is taken away.
LEMMA SamePerson ==
  ASSUME TypeInv, LockInv, LocksStay, NEW h \in Handler, NEW r, Moves(h, r),
         r.id = handler[h].id, r.pc # "held", r.pc # "tag",
         \/ r.pc \in Settled /\ handler[h].pc \in Settled
         \/ r.pc \in LoginSteps \ Settled /\ handler[h].pc \in LoginSteps
  PROVE  GoesOn
<1>1. RequestLock(handler[h]) /\ RecordInv(r)
  BY DEF LockInv, Moves
<1>2. RequestLock(r)
  BY <1>1 DEF RequestLock
<1>3. RequestLock(r)'
  BY <1>1, <1>2, RequestKept DEF RecordInv
<1>. QED
  BY <1>3 DEF GoesOn

LEMMA ReadLockedGoesOn ==
  ASSUME TypeInv, LockInv, LocksStay, NEW h \in Handler, ReadLockedDomains(h)
  PROVE  GoesOn
<1>. DEFINE i == handler[h].id
            d == handler[h].form.domain
<1>1. /\ i \in Id /\ d \in Domain /\ RequestLock(handler[h]) /\ handler[h].pc = "held"
  BY HandlerFacts DEF ReadLockedDomains, At, RecordInv, FormType, LockInv
<1>2. \/ Moves(h, Idle)
      \/ /\ Allowed(i, d)
         /\ \E r : Moves(h, r) /\ r.pc = "tag" /\ SameRequest(r, handler[h])
  BY <1>1, FinishMoves, GotoMoves DEF ReadLockedDomains, Follows
<1>3. ASSUME Allowed(i, d), NEW r, Moves(h, r), r.pc = "tag", SameRequest(r, handler[h])
      PROVE  GoesOn
  <2>1. r.id = i /\ r.form.domain = d
    BY <1>3 DEF SameRequest
  <2>2. HasIdentity(i)
    BY <1>1 DEF RequestLock, Settled
  <2>3. i \notin disturbed => HasAccount(i) /\ Named(i) = {d}
    BY <1>1, <1>3, AllowedFacts DEF RequestLock, Settled
  <2>. HIDE DEF i, d
  <2>4. RequestLock(r)
    BY <1>3, <2>1, <2>2, <2>3 DEF RequestLock
  <2>5. RequestLock(r)'
    BY <1>1, <1>3, <2>1, <2>4, RequestKept
  <2>. QED
    BY <1>3, <2>5 DEF GoesOn
<1>. QED
  BY <1>2, <1>3, FinishGoesOn

LEMMA LoginGoesOn ==
  ASSUME TypeInv, LocksStay, NEW h \in Handler, NEW i \in Id, LoginBegin(h, i)
  PROVE  GoesOn
<1>1. PICK r : Moves(h, r) /\ r.id = i /\ r.pc \in {"refresh", "clash"}
  BY LoginMoves
<1>2. RequestLock(r)
  BY <1>1 DEF RequestLock, LoginBegin, Settled
<1>3. RequestLock(r)'
  BY <1>1, <1>2, RequestKept
<1>. QED
  BY <1>1, <1>3 DEF GoesOn

LEMMA TakeGoesOn ==
  ASSUME TypeInv, LockInv, LocksStay, NEW h \in Handler, TakeRead(h) \/ TakeDelete(h)
  PROVE  GoesOn
<1>1. \/ Moves(h, Idle)
      \/ \E r : Moves(h, r) /\ r.id = handler[h].id /\ r.pc \in {"delete", "apply"}
  BY TakeMoves, GotoMoves DEF TakeDelete, At, Follows, SameRequest
<1>2. handler[h].pc \in Settled
  BY DEF TakeRead, TakeDelete, At, Settled
<1>3. \A pc \in {"delete", "apply"} : pc \in Settled
  BY DEF Settled
<1>. QED
  BY <1>1, <1>2, <1>3, FinishGoesOn, SamePerson

LEMMA ClashGoesOn ==
  ASSUME TypeInv, LockInv, LocksStay, NEW h \in Handler, ClashCheck(h)
  PROVE  GoesOn
<1>1. \/ Moves(h, Idle)
      \/ \E r : Moves(h, r) /\ r.id = handler[h].id /\ r.pc = "insert"
  BY FinishMoves, GotoMoves DEF ClashCheck, At, Follows, SameRequest
<1>2. handler[h].pc \in LoginSteps /\ "insert" \in LoginSteps \ Settled
  BY DEF ClashCheck, At, LoginSteps, FirstLoginSteps, Settled
<1>. QED
  BY <1>1, <1>2, FinishGoesOn, SamePerson

\* The other requests that move without writing to a row.
LEMMA FreeGoesOn ==
  ASSUME TypeInv,
         \/ \E h \in Handler :
              \/ \E r : Moves(h, r) /\ r.pc \in {"lookup", "import", "park", "onboard", "mint",
                                                "orphan", "add"}
              \/ Moves(h, Idle)
         \/ handler' = handler
  PROVE  GoesOn
  BY FreeSteps, FreeRequest DEF GoesOn

\* A row of which nothing but the identifiers changes.
LEMMA KeysLocks ==
  ASSUME TypeInv, LockInv, NEW i \in Id, NEW a, Writes(i, a), HasKey(a),
         a.domain = account[i].domain, SameOwner(a, i),
         UNCHANGED <<identity, item, ownedFor, disturbed>>
  PROVE  LocksStay /\ \A j \in Id : AccountLock(j)'
<1>1. account'[i] = a /\ a # NoAccount
  BY WritesKeep, NoRowFacts DEF HasKey
<1>2. Named(i)' = Named(i)
  BY <1>1 DEF Named
<1>3. AccountLock(i)'
  BY <1>1, <1>2 DEF LockInv, AccountLock, OneName, HasAccount, SameOwner
<1>. QED
  BY <1>1, <1>2, <1>3, RowLocks

\* A row that holds the domain d from now on, as one that allowed d.
LEMMA ClaimLocks ==
  ASSUME TypeInv, LockInv, NEW i \in Id, NEW d \in Domain, HasAccount(i),
         NEW a, Writes(i, a), HasKey(a),
         Allowed(i, d) => \/ a.domain = d
                          \/ ~MayClaim(i) /\ a.domain = account[i].domain,
         item' = item \/ item' = item \cup {<<i, d>>},
         UNCHANGED identity,
         IF Allowed(i, d)
         THEN /\ disturbed' = disturbed
              /\ \/ a.byDefault = account[i].byDefault /\ ownedFor' = ownedFor
                 \/ ownedFor' = [ownedFor EXCEPT ![i] = d]
         ELSE disturbed' = disturbed \cup {i} /\ ownedFor' = ownedFor
  PROVE  /\ LocksStay /\ \A j \in Id : AccountLock(j)'
         /\ i \notin disturbed' => Named(i)' = {d}
<1>1. account'[i] = a /\ a # NoAccount /\ account'[i] # NoAccount
  BY WritesKeep, NoRowFacts DEF HasKey
<1>2. ASSUME i \notin disturbed'
      PROVE  /\ Allowed(i, d) /\ i \notin disturbed
             /\ MayClaim(i) <=> Named(i) = {}
             /\ Named(i) # {} => Named(i) = {d}
             /\ account[i].byDefault => ownedFor[i] \in Named(i)
             /\ ownedFor' = ownedFor \/ ownedFor'[i] = d
             /\ (a.byDefault = account[i].byDefault /\ ownedFor' = ownedFor) \/ ownedFor'[i] = d
  <2>1. Allowed(i, d) /\ i \notin disturbed
    BY <1>2
  <2>2. ownedFor' = [ownedFor EXCEPT ![i] = d] => ownedFor'[i] = d
    BY DEF TypeInv, TypeOK
  <2>. QED
    BY <2>1, <2>2, AllowedFacts DEF LockInv, AccountLock
<1>3. i \notin disturbed' => Named(i)' = {d} /\ Named(i) \subseteq Named(i)'
  <2>1. SUFFICES ASSUME i \notin disturbed'
                 PROVE  Named(i)' = {d}
    BY <1>2
  <2>2. Named(i)' = {e \in Domain : a.domain = e \/ <<i, e>> \in item'}
    BY <1>1 DEF Named
  <2>3. CASE Named(i) = {}
    <3>1. a.domain = d /\ \A e \in Domain : <<i, e>> \notin item
      BY <1>2, <2>1, <2>3 DEF Named
    <3>. QED
      BY <2>2, <3>1
  <2>4. CASE Named(i) # {}
    <3>1. Named(i) = {d} /\ ~MayClaim(i)
      BY <1>2, <2>1, <2>4
    <3>2. /\ \A e \in Domain : (account[i].domain = e \/ <<i, e>> \in item) <=> e = d
          /\ a.domain = d \/ a.domain = account[i].domain
      BY <1>2, <2>1, <3>1 DEF Named
    <3>3. \A e \in Domain : (a.domain = e \/ <<i, e>> \in item') <=> e = d
      BY <3>2
    <3>. QED
      BY <2>2, <3>3
  <2>. QED
    BY <2>3, <2>4
<1>4. AccountLock(i)'
  BY <1>1, <1>2, <1>3 DEF AccountLock, OneName, HasAccount
<1>5. /\ disturbed \subseteq disturbed' /\ disturbed' \subseteq disturbed \cup {i}
      /\ item \subseteq item'
      /\ \A j \in Id \ {i}, e \in Domain : <<j, e>> \in item' => <<j, e>> \in item
      /\ \A j \in Id \ {i} : ownedFor'[j] = ownedFor[j]
  BY DEF TypeInv, TypeOK
<1>. QED
  BY <1>1, <1>3, <1>4, <1>5, RowLocks

\* A row that appears: it has owned nothing and held no domain.
LEMMA NewRowLocks ==
  ASSUME TypeInv, LockInv, NEW i \in Id, ~HasAccount(i), NEW a, Writes(i, a), HasKey(a),
         UNCHANGED <<identity, disturbed>>,
         \/ item' = item
         \/ a.domain \in Domain /\ item' = item \cup {<<i, a.domain>>},
         \/ ~a.byDefault /\ ownedFor' = ownedFor
         \/ a.domain \in Domain /\ ownedFor' = [ownedFor EXCEPT ![i] = a.domain]
  PROVE  LocksStay /\ \A j \in Id : AccountLock(j)'
<1>1. account'[i] = a /\ a # NoAccount /\ account'[i] # NoAccount
  BY WritesKeep, NoRowFacts DEF HasKey
<1>2. \A e \in Domain : account[i].domain # e /\ <<i, e>> \notin item
  BY AccountAssumption, NoRowFacts DEF HasAccount, LockInv, AccountLock, OwnsItems
<1>3. Named(i) = {} /\ Named(i)' \subseteq {a.domain} /\ (a.domain \in Domain => a.domain \in Named(i)')
  BY <1>1, <1>2 DEF Named
<1>4. a.byDefault => ownedFor'[i] = a.domain /\ a.domain \in Domain
  BY DEF TypeInv, TypeOK
<1>5. AccountLock(i)'
  BY <1>1, <1>3, <1>4 DEF AccountLock, OneName, HasAccount
<1>6. /\ item \subseteq item'
      /\ \A j \in Id \ {i}, e \in Domain : <<j, e>> \in item' => <<j, e>> \in item
      /\ \A j \in Id \ {i} : ownedFor'[j] = ownedFor[j]
  BY DEF TypeInv, TypeOK
<1>. QED
  BY <1>1, <1>3, <1>5, <1>6, RowLocks

LEMMA DeleteLocks ==
  ASSUME TypeInv, LockInv, NEW h \in Handler, DeleteOrphan(h)
  PROVE  LocksStay /\ \A j \in Id : AccountLock(j)'
<1>. PICK i \in Id : i = handler[h].id
  BY DeleteWrites
<1>1. CASE OwnsItems(i)
  BY <1>1, QuietLocks DEF DeleteOrphan, Quiet, HasIdentity
<1>2. CASE ~OwnsItems(i)
  <2>1. i \in Id /\ Writes(i, NoAccount)
    BY <1>2, DeleteWrites
  <2>2. /\ UNCHANGED <<identity, item>>
        /\ disturbed' = IF HasIdentity(i) THEN disturbed \cup {i} ELSE disturbed
        /\ ownedFor' = [ownedFor EXCEPT ![i] = NoDomain]
    BY <1>2 DEF DeleteOrphan
  <2>3. account'[i] = NoAccount
    BY <2>1, WritesKeep
  <2>4. Named(i)' = {} /\ ~OwnsItems(i)'
    BY <1>2, <2>2, <2>3, NoRowFacts, AccountAssumption DEF Named, OwnsItems
  <2>5. AccountLock(i)'
    BY <2>3, <2>4, NoRowFacts DEF AccountLock, OneName
  <2>6. \A j \in Id \ {i} : ownedFor'[j] = ownedFor[j]
    BY <2>2 DEF TypeInv, TypeOK
  <2>. QED
    BY <2>1, <2>2, <2>5, <2>6, RowLocks
<1>. QED
  BY <1>1, <1>2

\* The domain of an account is where it was, and the requests keep to it.
LocksKept == LocksStay /\ (\A i \in Id : AccountLock(i)') /\ GoesOn

LEMMA CreateLocks ==
  ASSUME TypeInv, LockInv, NEW i \in Id, NEW d \in Domain, CreateItem(i, d)
  PROVE  LocksKept
<1>1. PICK a : /\ Writes(i, a) /\ SameKeys(a, i)
               /\ a.domain = (IF MayClaim(i) THEN d ELSE account[i].domain)
               /\ ~MayOwn(i, d) => SameOwner(a, i)
  BY CreateWrites
<1>2. HasAccount(i) /\ HasKey(a)
  BY <1>1, RowFacts DEF CreateItem, LoggedIn, SameKeys, HasKey
<1>3. /\ item' = item \cup {<<i, d>>} /\ UNCHANGED <<identity, disturbed, handler>> /\ Allowed(i, d)
      /\ ownedFor' = IF MayOwn(i, d) THEN [ownedFor EXCEPT ![i] = d] ELSE ownedFor
  BY DEF CreateItem, NoteOwner
<1>4. (a.byDefault = account[i].byDefault /\ ownedFor' = ownedFor)
      \/ ownedFor' = [ownedFor EXCEPT ![i] = d]
  BY <1>1, <1>3 DEF SameOwner
<1>5. LocksStay /\ \A j \in Id : AccountLock(j)'
  BY <1>1, <1>2, <1>3, <1>4, ClaimLocks
<1>. QED
  BY <1>3, <1>5 DEF LocksKept, GoesOn

LEMMA TagLocks ==
  ASSUME TypeInv, LockInv, NEW h \in Handler, Tag(h)
  PROVE  LocksKept
<1>. PICK i \in Id, d \in Domain : i = handler[h].id /\ d = handler[h].form.domain
  BY TagStepWrites
<1>1. /\ i \in Id /\ d \in Domain
      /\ \E a : /\ Writes(i, a) /\ SameKeys(a, i) /\ a.domain = account[i].domain
                /\ ~MayOwn(i, d) => SameOwner(a, i)
                /\ ~HasAccount(i) => a = account[i]
  BY TagStepWrites
<1>2. /\ UNCHANGED <<identity, disturbed, item>> /\ Moves(h, Idle)
      /\ ownedFor' = IF MayOwn(i, d) THEN [ownedFor EXCEPT ![i] = d] ELSE ownedFor
  BY FinishMoves DEF Tag, NoteOwner
<1>3. i \notin disturbed => HasAccount(i) /\ d \in Named(i)
  BY DEF LockInv, RequestLock, Tag, At, Settled
<1>4. PICK a : /\ Writes(i, a) /\ SameKeys(a, i) /\ a.domain = account[i].domain
               /\ ~MayOwn(i, d) => SameOwner(a, i)
               /\ ~HasAccount(i) => a = account[i]
  BY <1>1
<1>5. account'[i] = a /\ (HasAccount(i) => HasKey(a) /\ a # NoAccount)
  BY <1>1, <1>4, WritesKeep, RowFacts, NoRowFacts DEF SameKeys, HasKey
<1>6. Named(i)' = Named(i)
  BY <1>1, <1>2, <1>4, <1>5 DEF Named
<1>7. AccountLock(i)'
  <2>1. ownedFor'[i] = IF MayOwn(i, d) THEN d ELSE ownedFor[i]
    BY <1>1, <1>2 DEF TypeInv, TypeOK
  <2>2. OwnsItems(i)' => HasAccount(i)'
    BY <1>1, <1>2, <1>5 DEF OwnsItems, LockInv, AccountLock, HasAccount
  <2>3. ASSUME i \notin disturbed
        PROVE  a.byDefault => ownedFor'[i] \in Named(i)
    BY <1>1, <1>3, <1>4, <2>1, <2>3 DEF SameOwner, LockInv, AccountLock
  <2>4. i \notin disturbed => OneName(i)
    BY <1>1 DEF LockInv, AccountLock
  <2>. QED
    BY <1>2, <1>5, <1>6, <2>2, <2>3, <2>4 DEF AccountLock, OneName
<1>8. \A j \in Id \ {i} : ownedFor'[j] = ownedFor[j]
  BY <1>2 DEF TypeInv, TypeOK
<1>9. LocksStay /\ \A j \in Id : AccountLock(j)'
  BY <1>1, <1>2, <1>4, <1>5, <1>6, <1>7, <1>8, RowLocks
<1>. QED
  BY <1>2, <1>9, FinishGoesOn DEF LocksKept

LEMMA SetDomainsLocks ==
  ASSUME TypeInv, LockInv, NEW h \in Handler, NEW i \in Id, NEW d \in Domain, SetDomainsBegin(h, i, d)
  PROVE  LocksKept
<1>1. PICK a : /\ Writes(i, a) /\ SameKeys(a, i) /\ SameOwner(a, i)
               /\ a.domain = (IF MayClaim(i) THEN d ELSE account[i].domain)
  BY SetDomainsWrites
<1>2. HasAccount(i) /\ HasIdentity(i) /\ HasKey(a)
  BY <1>1, RowFacts DEF SetDomainsBegin, LoggedIn, SameKeys, HasKey
<1>3. UNCHANGED <<identity, disturbed, item, ownedFor>>
  BY DEF SetDomainsBegin, history
<1>4. PICK r : /\ Moves(h, r) /\ r.pc = (IF MayClaim(i) THEN "tag" ELSE "held")
               /\ r.id = i /\ r.form.domain = d
  BY SetDomainsMoves
<1>5. account'[i] = a /\ a # NoAccount
  BY <1>1, <1>2, WritesKeep, NoRowFacts DEF HasKey
<1>6. CASE MayClaim(i)
  <2>1. Allowed(i, d) /\ a.domain = d
    BY <1>1, <1>6 DEF Allowed
  <2>2. a.byDefault = account[i].byDefault
    BY <1>1 DEF SameOwner
  <2>3. LocksStay /\ \A j \in Id : AccountLock(j)'
    BY <1>1, <1>2, <1>3, <2>1, <2>2, ClaimLocks
  <2>4. d \in Named(i)'
    BY <1>5, <2>1 DEF Named
  <2>5. RequestLock(r)'
    BY <1>2, <1>3, <1>4, <1>5, <1>6, <2>4 DEF RequestLock, HasIdentity, HasAccount
  <2>. QED
    BY <1>4, <2>3, <2>5 DEF LocksKept, GoesOn
<1>7. CASE ~MayClaim(i)
  <2>1. LocksStay /\ \A j \in Id : AccountLock(j)'
    BY <1>1, <1>2, <1>3, <1>7, KeysLocks
  <2>2. Named(i) # {}
    BY <1>2, <1>7, LockedFacts DEF MayClaim
  <2>3. Named(i)' = Named(i)
    BY <1>1, <1>3, <1>5, <1>7 DEF Named
  <2>4. RequestLock(r)'
    BY <1>2, <1>3, <1>4, <1>5, <1>7, <2>2, <2>3 DEF RequestLock, HasIdentity, HasAccount
  <2>. QED
    BY <1>4, <2>1, <2>4 DEF LocksKept, GoesOn
<1>. QED
  BY <1>6, <1>7

LEMMA RefreshLocks ==
  ASSUME TypeInv, LockInv, NEW h \in Handler, RefreshMirror(h)
  PROVE  LocksKept
<1>. PICK i \in Id : i = handler[h].id
  BY RefreshWrites
<1>1. UNCHANGED <<identity, disturbed, item, ownedFor>> /\ Moves(h, Idle)
  BY FinishMoves DEF RefreshMirror, history
<1>2. CASE account' = account
  BY <1>1, <1>2, QuietLocks, FinishGoesOn DEF Quiet, LocksKept, HasIdentity
<1>3. CASE account' # account
  <2>1. PICK a : /\ Writes(i, a) /\ SameOwner(a, i) /\ a.domain = account[i].domain
                 /\ a.phone # NoPhone
    BY <1>3, RefreshWrites
  <2>. QED
    BY <1>1, <2>1, KeysLocks, FinishGoesOn DEF LocksKept, HasKey
<1>. QED
  BY <1>2, <1>3

LEMMA InsertLocks ==
  ASSUME TypeInv, LockInv, NEW h \in Handler, InsertMirror(h)
  PROVE  LocksKept
<1>. PICK i \in Id : i = handler[h].id
  BY InsertWrites
<1>1. UNCHANGED <<identity, disturbed, item, ownedFor>> /\ handler[h].pc = "insert"
  BY DEF InsertMirror, history, At
<1>2. CASE ~Insertable(i, handler[h].form)
  BY <1>1, <1>2, InsertWrites, FinishMoves, QuietLocks, FinishGoesOn
     DEF Quiet, LocksKept, HasIdentity
<1>3. CASE Insertable(i, handler[h].form)
  <2>1. PICK a : /\ Writes(i, a) /\ SameOwner(a, i) /\ a.domain = account[i].domain /\ HasKey(a)
    BY <1>3, InsertWrites
  <2>2. PICK r : Moves(h, r) /\ r.pc = "take" /\ r.id = i
    BY <1>1, <1>3, InsertWrites, GotoMoves DEF Follows, SameRequest
  <2>3. HasIdentity(i)
    BY <1>1 DEF LockInv, RequestLock, LoginSteps, FirstLoginSteps
  <2>4. account'[i] = a /\ a # NoAccount
    BY <2>1, WritesKeep, NoRowFacts DEF HasKey
  <2>5. RequestLock(r)'
    BY <1>1, <2>2, <2>3, <2>4 DEF RequestLock, HasIdentity, HasAccount
  <2>6. LocksStay /\ \A j \in Id : AccountLock(j)'
    BY <1>1, <2>1, KeysLocks
  <2>. QED
    BY <2>2, <2>5, <2>6 DEF LocksKept, GoesOn
<1>. QED
  BY <1>2, <1>3

LEMMA ApplyLocks ==
  ASSUME TypeInv, LockInv, NEW h \in Handler, ApplyExtras(h)
  PROVE  LocksKept
<1>. PICK i \in Id, d \in Domain : i = handler[h].id /\ d = handler[h].stash.domain
  BY ApplyMoves
<1>1. /\ UNCHANGED <<identity, item, ownedFor>> /\ handler[h].pc = "apply"
      /\ disturbed' = IF Allowed(i, d) THEN disturbed ELSE disturbed \cup {i}
  BY DEF ApplyExtras, At
<1>2. PICK r : Moves(h, r) /\ r.pc = "tag" /\ r.id = i /\ r.form.domain = d
  BY ApplyMoves
<1>3. HasIdentity(i) /\ (i \notin disturbed => HasAccount(i))
  BY <1>1 DEF LockInv, RequestLock, Settled
<1>4. CASE ~HasAccount(i)
  <2>1. account' = account /\ i \in disturbed
    BY <1>3, <1>4, ApplyWrites
  <2>2. disturbed' = disturbed
    BY <1>1, <2>1, <1>4 DEF TypeInv, TypeOK
  <2>3. RequestLock(r)'
    BY <1>1, <1>2, <1>3, <2>1, <2>2 DEF RequestLock, HasIdentity
  <2>. QED
    BY <1>1, <1>2, <2>1, <2>2, <2>3, QuietLocks DEF Quiet, LocksKept, GoesOn, HasIdentity
<1>5. CASE HasAccount(i)
  <2>1. PICK a : Writes(i, a) /\ SameKeys(a, i) /\ SameOwner(a, i) /\ a.domain = d
    BY <1>5, ApplyWrites
  <2>2. HasKey(a) /\ a.byDefault = account[i].byDefault
    BY <1>5, <2>1, RowFacts DEF SameKeys, SameOwner, HasKey
  <2>3. /\ LocksStay /\ \A j \in Id : AccountLock(j)'
        /\ i \notin disturbed' => Named(i)' = {d}
    BY <1>1, <1>5, <2>1, <2>2, ClaimLocks
  <2>4. account'[i] = a /\ a # NoAccount
    BY <2>1, <2>2, WritesKeep, NoRowFacts DEF HasKey
  <2>5. RequestLock(r)'
    BY <1>1, <1>2, <1>3, <2>3, <2>4 DEF RequestLock, HasIdentity, HasAccount
  <2>. QED
    BY <1>2, <2>3, <2>5 DEF LocksKept, GoesOn
<1>. QED
  BY <1>4, <1>5

LEMMA OnboardLocks ==
  ASSUME TypeInv, LockInv, NEW h \in Handler, Onboard(h)
  PROVE  LocksKept
<1>. PICK i \in Id : i = handler[h].id
  BY OnboardWrites
<1>. DEFINE f == handler[h].form
<1>1. UNCHANGED <<identity, disturbed>> /\ handler[h].pc = "onboard"
  BY DEF Onboard, At
<1>2. GoesOn
  <2>1. Goto(h, "mint") => \E r : Moves(h, r) /\ r.pc = "mint"
    BY <1>1, GotoMoves DEF Follows
  <2>. QED
    BY <2>1, OnboardWrites, FinishMoves, FreeGoesOn
<1>3. CASE ~Insertable(i, f)
  BY <1>1, <1>2, <1>3, OnboardWrites, QuietLocks DEF Quiet, LocksKept, HasIdentity
<1>4. CASE Insertable(i, f)
  <2>1. PICK a : /\ Writes(i, a) /\ HasKey(a)
                 /\ a.domain = (IF handler[h].withItem THEN ItemDomain(f) ELSE f.domain)
                 /\ a.byDefault = handler[h].owner.byDefault
    BY <1>4, OnboardWrites
  <2>2. /\ ownedFor' = IF handler[h].owner.byDefault
                       THEN [ownedFor EXCEPT ![i] = f.domain] ELSE ownedFor
        /\ item' = IF handler[h].withItem THEN item \cup {<<i, ItemDomain(f)>>} ELSE item
        /\ f \in FormType /\ ItemDomain(f) \in Domain
    BY <1>4, OnboardWrites
  <2>3. handler[h].owner.byDefault => f.domain # NoDomain /\ f.domain = a.domain /\ f.domain \in Domain
    BY <1>1, <2>1, <2>2, HandlerFacts DEF RecordInv, ItemDomain, FormType
  <2>4. ~HasAccount(i)
    BY <1>4 DEF Insertable
  <2>5. \/ item' = item
        \/ a.domain \in Domain /\ item' = item \cup {<<i, a.domain>>}
    BY <2>1, <2>2
  <2>6. \/ ~a.byDefault /\ ownedFor' = ownedFor
        \/ a.domain \in Domain /\ ownedFor' = [ownedFor EXCEPT ![i] = a.domain]
    BY <2>1, <2>2, <2>3
  <2>. QED
    BY <1>1, <1>2, <2>1, <2>4, <2>5, <2>6, NewRowLocks DEF LocksKept
<1>. QED
  BY <1>3, <1>4

LEMMA InsertItemLocks ==
  ASSUME TypeInv, LockInv, NEW h \in Handler, InsertItem(h)
  PROVE  LocksKept
<1>. PICK i \in Id, d \in Domain : i = handler[h].id /\ d = ItemDomain(handler[h].form)
  BY InsertItemWrites
<1>1. UNCHANGED <<identity, disturbed, ownedFor>> /\ Moves(h, Idle)
  BY FinishMoves DEF InsertItem, history
<1>2. CASE account' = account /\ item' = item
  BY <1>1, <1>2, QuietLocks, FinishGoesOn DEF Quiet, LocksKept, HasIdentity
<1>3. CASE ~(account' = account /\ item' = item)
  <2>1. /\ HasAccount(i) /\ Allowed(i, d) /\ item' = item \cup {<<i, d>>}
        /\ \E a : /\ Writes(i, a) /\ SameKeys(a, i) /\ SameOwner(a, i)
                  /\ a.domain = (IF MayClaim(i) THEN d ELSE account[i].domain)
    BY <1>3, InsertItemWrites
  <2>2. PICK a : /\ Writes(i, a) /\ SameKeys(a, i) /\ SameOwner(a, i)
                 /\ a.domain = (IF MayClaim(i) THEN d ELSE account[i].domain)
    BY <2>1
  <2>3. HasKey(a) /\ a.byDefault = account[i].byDefault
    BY <2>1, <2>2, RowFacts DEF SameKeys, SameOwner, HasKey
  <2>4. LocksStay /\ \A j \in Id : AccountLock(j)'
    BY <1>1, <2>1, <2>2, <2>3, ClaimLocks
  <2>. QED
    BY <1>1, <2>4, FinishGoesOn DEF LocksKept
<1>. QED
  BY <1>2, <1>3

LEMMA LockSteps ==
  ASSUME TypeInv, LockInv, Next
  PROVE  LocksKept
<1>0. \A i \in Id : HasIdentity(i) => HasIdentity(i)'
  BY RealmGrows
<1>1. ASSUME NEW i \in Id, NEW d \in Domain, CreateItem(i, d)
      PROVE  LocksKept
  BY <1>1, CreateLocks
<1>2. ASSUME NEW d \in Domain, NEW o \in Org \cup {NoOrg}, Nominate(d, o)
      PROVE  LocksKept
  BY <1>2, <1>0, QuietLocks, FreeGoesOn DEF Nominate, Quiet, LocksKept, history
<1>3. ASSUME NEW i \in Id, NEW p \in Phone, ChangePhone(i, p)
      PROVE  LocksKept
  BY <1>3, <1>0, QuietLocks, FreeGoesOn DEF ChangePhone, Quiet, LocksKept, history
<1>4. ASSUME NEW h \in Handler, NEW i \in Id, LoginBegin(h, i)
      PROVE  LocksKept
  BY <1>4, <1>0, QuietLocks, LoginGoesOn DEF LoginBegin, Quiet, LocksKept, history
<1>5. ASSUME NEW h \in Handler, NEW i \in Id, NEW d \in Domain, SetDomainsBegin(h, i, d)
      PROVE  LocksKept
  BY <1>5, SetDomainsLocks
<1>6. ASSUME NEW h \in Handler, NEW i \in Id, NEW f \in Form, SignupBegin(h, i, f)
      PROVE  LocksKept
  <2>1. Quiet
    BY <1>0, <1>6 DEF SignupBegin, Quiet, history
  <2>2. GoesOn
    BY <1>6, SignupMoves, FreeGoesOn
  <2>. QED
    BY <2>1, <2>2, QuietLocks DEF LocksKept
<1>7. ASSUME NEW h \in Handler, NEW i \in Id, NEW f \in Form, NEW o \in Org \cup {NoOrg}, InsertItemBegin(h, i, f, o)
      PROVE  LocksKept
  <2>1. Quiet
    BY <1>0, <1>7 DEF InsertItemBegin, Quiet, history
  <2>2. GoesOn
    BY <1>7, AddMoves, FreeGoesOn
  <2>. QED
    BY <2>1, <2>2, QuietLocks DEF LocksKept
<1>8. ASSUME NEW h \in Handler, NEW i \in Id, NEW f \in Form, NEW o \in Org \cup {NoOrg},
             NEW w \in BOOLEAN, OnboardBegin(h, i, f, o, w)
      PROVE  LocksKept
  <2>1. Quiet
    BY <1>0, <1>8 DEF OnboardBegin, Quiet, history
  <2>2. GoesOn
    BY <1>8, OnboardMoves, FreeGoesOn
  <2>. QED
    BY <2>1, <2>2, QuietLocks DEF LocksKept
<1>9. ASSUME NEW h \in Handler, Tag(h)
      PROVE  LocksKept
  BY <1>9, TagLocks
<1>10. ASSUME NEW h \in Handler, ReadLockedDomains(h)
      PROVE  LocksKept
  BY <1>10, <1>0, QuietLocks, ReadLockedGoesOn DEF ReadLockedDomains, Quiet, LocksKept, history
<1>11. ASSUME NEW h \in Handler, FindInRealm(h)
      PROVE  LocksKept
  BY <1>11, <1>0, QuietLocks, FinishMoves, GotoMoves, FreeGoesOn DEF FindInRealm, Quiet, LocksKept, history, At, Follows
<1>12. ASSUME NEW h \in Handler, SignupImport(h)
      PROVE  LocksKept
  BY <1>12, <1>0, QuietLocks, SignupImports, FreeGoesOn DEF SignupImport, Quiet, LocksKept, history
<1>13. ASSUME NEW h \in Handler, SignupReplyLost(h)
      PROVE  LocksKept
  BY <1>13, <1>0, QuietLocks, SignupImports, FreeGoesOn DEF SignupReplyLost, Quiet, LocksKept, history
<1>14. ASSUME NEW h \in Handler, StashExtras(h)
      PROVE  LocksKept
  BY <1>14, <1>0, QuietLocks, FinishMoves, FreeGoesOn DEF StashExtras, Quiet, LocksKept, history
<1>15. ASSUME NEW h \in Handler, RefreshMirror(h)
      PROVE  LocksKept
  BY <1>15, RefreshLocks
<1>16. ASSUME NEW h \in Handler, ClashCheck(h)
      PROVE  LocksKept
  BY <1>16, <1>0, QuietLocks, ClashGoesOn DEF ClashCheck, Quiet, LocksKept, history
<1>17. ASSUME NEW h \in Handler, InsertMirror(h)
      PROVE  LocksKept
  BY <1>17, InsertLocks
<1>18. ASSUME NEW h \in Handler, TakeRead(h)
      PROVE  LocksKept
  BY <1>18, <1>0, QuietLocks, TakeGoesOn DEF TakeRead, Quiet, LocksKept, history
<1>19. ASSUME NEW h \in Handler, TakeDelete(h)
      PROVE  LocksKept
  BY <1>19, <1>0, QuietLocks, TakeGoesOn DEF TakeDelete, Quiet, LocksKept, history
<1>20. ASSUME NEW h \in Handler, ApplyExtras(h)
      PROVE  LocksKept
  BY <1>20, ApplyLocks
<1>21. ASSUME NEW h \in Handler, Onboard(h)
      PROVE  LocksKept
  BY <1>21, OnboardLocks
<1>22. ASSUME NEW h \in Handler, Mint(h)
      PROVE  LocksKept
  BY <1>22, <1>0, QuietLocks, MintMoves, FreeGoesOn DEF Mint, Quiet, LocksKept, history
<1>23. ASSUME NEW h \in Handler, MintFails(h)
      PROVE  LocksKept
  BY <1>23, <1>0, QuietLocks, MintMoves, FreeGoesOn DEF MintFails, Quiet, LocksKept, history
<1>24. ASSUME NEW h \in Handler, DeleteOrphan(h)
      PROVE  LocksKept
  BY <1>24, DeleteLocks, FinishMoves, FreeGoesOn DEF DeleteOrphan, LocksKept
<1>25. ASSUME NEW h \in Handler, InsertItem(h)
      PROVE  LocksKept
  BY <1>25, InsertItemLocks
<1>26. ASSUME NEW h \in Handler, Crash(h)
      PROVE  LocksKept
  BY <1>26, <1>0, QuietLocks, FinishMoves, FreeGoesOn DEF Crash, Quiet, LocksKept, history
<1>. QED
  BY <1>1, <1>2, <1>3, <1>4, <1>5, <1>6, <1>7, <1>8, <1>9, <1>10, <1>11, <1>12, <1>13, <1>14, <1>15, <1>16, <1>17, <1>18, <1>19, <1>20, <1>21, <1>22, <1>23, <1>24, <1>25, <1>26 DEF Next

LEMMA LockInvariant == Spec => []LockInv
<1>1. Init /\ TypeInv => LockInv
  <2>1. SUFFICES ASSUME Init, TypeInv
                 PROVE  LockInv
    OBVIOUS
  <2>2. PICK l \in Id \cup {NoId}, f \in Form, d \in Domain :
          /\ identity = [i \in Id |-> IF i = l THEN IdentityOf(f) ELSE NoIdentity]
          /\ account = [i \in Id |-> IF i = l THEN [NoAccount EXCEPT !.email = f.email,
                                                                     !.phone = f.phone]
                                     ELSE NoAccount]
          /\ item = (Id \cap {l}) \X {d}
    BY <2>1 DEF Init
  <2>. DEFINE a == [NoAccount EXCEPT !.email = f.email, !.phone = f.phone]
  <2>3. /\ a.email = f.email /\ a.phone = f.phone /\ a.domain = NoDomain /\ a.byDefault = FALSE
        /\ HasKey(f)
    BY NoRowFacts, FormFacts DEF Account
  <2>4. a # NoAccount
    BY <2>3, NoRowFacts DEF HasKey
  <2>. HIDE DEF a
  <2>5. account = [i \in Id |-> IF i = l THEN a ELSE NoAccount]
    BY <2>2 DEF a
  <2>6. ASSUME NEW i \in Id
        PROVE  AccountLock(i)
    <3>1. account[i].domain = NoDomain /\ account[i].byDefault = FALSE
      BY <2>3, <2>5, NoRowFacts
    <3>2. OwnsItems(i) => HasAccount(i)
      BY <2>2, <2>4, <2>5 DEF OwnsItems, HasAccount
    <3>3. Named(i) \subseteq {d}
      BY <2>2, <3>1, AccountAssumption DEF Named
    <3>. QED
      BY <3>1, <3>2, <3>3 DEF AccountLock, OneName
  <2>7. \A h \in Handler : RequestLock(handler[h])
    BY <2>1, FreeSteps DEF Init, RequestLock
  <2>. QED
    BY <2>6, <2>7 DEF LockInv
<1>2. TypeInv /\ LockInv /\ [Next]_vars => LockInv'
  <2>1. ASSUME TypeInv, LockInv, Next
        PROVE  LockInv'
    BY <2>1, LockSteps, LockFrame DEF LocksKept, GoesOn
  <2>2. ASSUME TypeInv, LockInv, UNCHANGED vars
        PROVE  LockInv'
    <3>1. Quiet /\ handler' = handler
      BY <2>2 DEF vars, Quiet, HasIdentity
    <3>. QED
      BY <2>2, <3>1, QuietLocks, LockFrame
  <2>. QED
    BY <2>1, <2>2
<1>3. Init => TypeInv
  BY InitTypes
<1>. QED
  BY <1>1, <1>2, <1>3, TypesInvariant, PTL DEF Spec

\* The column and the profiles of an account name one domain between them,
\* whichever of signup, the choice of a domain, the first profile and onboarding
\* came first, for every account but those that met one of the two known races.
THEOREM DomainTheorem == Spec => []SingleDomain
<1>1. ASSUME LockInv, NEW i \in Id \ disturbed
      PROVE  Cardinality(Named(i)) <= 1
  <2>1. OneName(i)
    BY <1>1 DEF LockInv, AccountLock
  <2>2. Named(i) = {} \/ \E d : Named(i) = {d}
    BY <2>1 DEF OneName
  <2>3. Cardinality(Named(i)) = 0 \/ Cardinality(Named(i)) = 1
    BY <2>2, FS_EmptySet, FS_Singleton
  <2>. HIDE DEF Named
  <2>. QED
    BY <2>3
<1>2. LockInv => SingleDomain
  BY <1>1, Zenon DEF SingleDomain, Named
<1>. QED
  BY <1>2, LockInvariant, PTL

\* A default aggregator owns an account because of the domain the account is
\* locked to: between the choice of the domain and the tag, and between the tag
\* and the profile, no other domain gets in.
THEOREM OwnerDomainTheorem == Spec => []OwnerFitsDomain
<1>1. TypeInv /\ LockInv => OwnerFitsDomain
  BY LockedFacts DEF OwnerFitsDomain, LockInv, AccountLock
<1>. QED
  BY <1>1, TypesInvariant, LockInvariant, PTL

-----------------------------------------------------------------------------
(* Accounts without an identity.  One is at the steps of the onboarding that
   created it, owns a profile, or was left by a request that was cut off. *)

Leaving == {"mint", "orphan"}
Excused(i) == OwnsItems(i) \/ \E h \in Handler : handler[h].id = i /\ handler[h].pc \in Leaving

\* A step that creates no such account and moves no such request.
NoNews ==
  /\ \A i \in Id : HasAccount(i)' => HasAccount(i)
  /\ item \subseteq item'
  /\ cutOff' = cutOff
  /\ \/ handler' = handler
     \/ \E h \in Handler : \E r : Moves(h, r) /\ handler[h].pc \notin Leaving

LEMMA OldRow ==
  ASSUME TypeInv, NEW i \in Id, NEW a, Writes(i, a), HasAccount(i) \/ a = account[i]
  PROVE  \A j \in Id : HasAccount(j)' => HasAccount(j)
  BY WritesKeep DEF HasAccount

LEMMA ExcusedStay ==
  ASSUME TypeInv, item \subseteq item',
         \/ handler' = handler
         \/ \E h \in Handler : \E r : Moves(h, r) /\ handler[h].pc \notin Leaving
  PROVE  \A i \in Id : Excused(i) => Excused(i)'
<1>1. \A h \in Handler : handler[h].pc \in Leaving => handler'[h] = handler[h]
  BY MovesKeep
<1>. QED
  BY <1>1 DEF Excused, OwnsItems

LEMMA NewsFrame ==
  ASSUME TypeInv, LoginlessOwnsItems, NoNews, \A i \in Id : HasIdentity(i) => HasIdentity(i)'
  PROVE  LoginlessOwnsItems'
<1>1. \A i \in Id : Excused(i) => Excused(i)'
  BY ExcusedStay DEF NoNews
<1>2. cutOff' = cutOff /\ \A i \in Id : HasAccount(i)' => HasAccount(i)
  BY DEF NoNews
<1>3. \A i \in Id \ cutOff : HasAccount(i) /\ ~HasIdentity(i) => Excused(i)
  BY DEF LoginlessOwnsItems, Excused, Leaving
<1>4. \A i \in Id \ cutOff' : HasAccount(i)' /\ ~HasIdentity(i)' => Excused(i)'
  BY <1>1, <1>2, <1>3
<1>. QED
  BY <1>4 DEF LoginlessOwnsItems, Excused, Leaving

\* Most steps are of this kind.
NoNewsNext ==
  \/ \E i \in Id, d \in Domain : CreateItem(i, d)
  \/ \E d \in Domain, o \in Org \cup {NoOrg} : Nominate(d, o)
  \/ \E h \in Handler :
       \/ \E i \in Id :
            \/ LoginBegin(h, i)
            \/ \E d \in Domain : SetDomainsBegin(h, i, d)
            \/ \E f \in Form :
                 \/ SignupBegin(h, i, f)
                 \/ \E o \in Org \cup {NoOrg} :
                      \/ InsertItemBegin(h, i, f, o)
                      \/ \E w \in BOOLEAN : OnboardBegin(h, i, f, o, w)
       \/ Tag(h) \/ ReadLockedDomains(h) \/ FindInRealm(h) \/ SignupImport(h) \/ StashExtras(h)
       \/ RefreshMirror(h) \/ ClashCheck(h) \/ TakeRead(h) \/ TakeDelete(h) \/ ApplyExtras(h)
       \/ InsertItem(h)

LEMMA NoNewsSteps ==
  ASSUME TypeInv, NoNewsNext
  PROVE  NoNews
<1>1. ASSUME NEW i \in Id, NEW d \in Domain, CreateItem(i, d)
      PROVE  NoNews
  BY <1>1, CreateWrites, OldRow DEF CreateItem, LoggedIn, NoNews, Leaving
<1>2. ASSUME NEW d \in Domain, NEW o \in Org \cup {NoOrg}, Nominate(d, o)
      PROVE  NoNews
  BY <1>2 DEF Nominate, NoNews, Leaving, history, HasAccount
<1>3. ASSUME NEW h \in Handler, NEW i \in Id, LoginBegin(h, i)
      PROVE  NoNews
  <2>1. \E r : Moves(h, r)
    BY <1>3, LoginMoves
  <2>2. handler[h].pc = "idle" /\ UNCHANGED <<account, item, cutOff>>
    BY <1>3 DEF LoginBegin, At, history
  <2>. QED
    BY <2>1, <2>2 DEF NoNews, Leaving, HasAccount
<1>4. ASSUME NEW h \in Handler, NEW i \in Id, NEW d \in Domain, SetDomainsBegin(h, i, d)
      PROVE  NoNews
  <2>1. \E r : Moves(h, r)
    BY <1>4, SetDomainsMoves
  <2>2. handler[h].pc = "idle" /\ HasAccount(i) /\ UNCHANGED <<item, cutOff>>
    BY <1>4 DEF SetDomainsBegin, LoggedIn, At, history
  <2>3. \A j \in Id : HasAccount(j)' => HasAccount(j)
    BY <1>4, <2>2, SetDomainsWrites, OldRow
  <2>. QED
    BY <2>1, <2>2, <2>3 DEF NoNews, Leaving
<1>5. ASSUME NEW h \in Handler, NEW i \in Id, NEW f \in Form, SignupBegin(h, i, f)
      PROVE  NoNews
  <2>1. \E r : Moves(h, r)
    BY <1>5, SignupMoves
  <2>2. handler[h].pc = "idle" /\ UNCHANGED <<account, item, cutOff>>
    BY <1>5 DEF SignupBegin, At, history
  <2>. QED
    BY <2>1, <2>2 DEF NoNews, Leaving, HasAccount
<1>6. ASSUME NEW h \in Handler, NEW i \in Id, NEW f \in Form, NEW o \in Org \cup {NoOrg}, InsertItemBegin(h, i, f, o)
      PROVE  NoNews
  <2>1. \E r : Moves(h, r)
    BY <1>6, AddMoves
  <2>2. handler[h].pc = "idle" /\ UNCHANGED <<account, item, cutOff>>
    BY <1>6 DEF InsertItemBegin, At, history
  <2>. QED
    BY <2>1, <2>2 DEF NoNews, Leaving, HasAccount
<1>7. ASSUME NEW h \in Handler, NEW i \in Id, NEW f \in Form, NEW o \in Org \cup {NoOrg},
             NEW w \in BOOLEAN, OnboardBegin(h, i, f, o, w)
      PROVE  NoNews
  <2>1. \E r : Moves(h, r)
    BY <1>7, OnboardMoves
  <2>2. handler[h].pc = "idle" /\ UNCHANGED <<account, item, cutOff>>
    BY <1>7 DEF OnboardBegin, At, history
  <2>. QED
    BY <2>1, <2>2 DEF NoNews, Leaving, HasAccount
<1>8. ASSUME NEW h \in Handler, Tag(h)
      PROVE  NoNews
  BY <1>8, TagStepWrites, OldRow, FinishMoves DEF Tag, At, NoNews, Leaving, HasAccount
<1>9. ASSUME NEW h \in Handler, ReadLockedDomains(h)
      PROVE  NoNews
  BY <1>9, FinishMoves, GotoMoves DEF ReadLockedDomains, NoNews, Leaving, history, HasAccount, At, Follows
<1>10. ASSUME NEW h \in Handler, FindInRealm(h)
      PROVE  NoNews
  BY <1>10, FinishMoves, GotoMoves DEF FindInRealm, NoNews, Leaving, history, HasAccount, At, Follows
<1>11. ASSUME NEW h \in Handler, SignupImport(h)
      PROVE  NoNews
  BY <1>11, SignupImports DEF SignupImport, NoNews, Leaving, history, HasAccount, At
<1>12. ASSUME NEW h \in Handler, StashExtras(h)
      PROVE  NoNews
  BY <1>12, FinishMoves DEF StashExtras, NoNews, Leaving, history, HasAccount, At
<1>13. ASSUME NEW h \in Handler, RefreshMirror(h)
      PROVE  NoNews
  BY <1>13, RefreshWrites, OldRow, FinishMoves DEF RefreshMirror, At, NoNews, Leaving, history, HasAccount
<1>14. ASSUME NEW h \in Handler, ClashCheck(h)
      PROVE  NoNews
  BY <1>14, FinishMoves, GotoMoves DEF ClashCheck, NoNews, Leaving, history, HasAccount, At, Follows
<1>15. ASSUME NEW h \in Handler, TakeRead(h)
      PROVE  NoNews
  BY <1>15, TakeMoves DEF TakeRead, NoNews, Leaving, history, HasAccount, At
<1>16. ASSUME NEW h \in Handler, TakeDelete(h)
      PROVE  NoNews
  BY <1>16, GotoMoves DEF TakeDelete, NoNews, Leaving, history, HasAccount, At, Follows
<1>17. ASSUME NEW h \in Handler, ApplyExtras(h)
      PROVE  NoNews
  BY <1>17, ApplyMoves, ApplyWrites, OldRow DEF ApplyExtras, At, NoNews, Leaving, HasAccount
<1>18. ASSUME NEW h \in Handler, InsertItem(h)
      PROVE  NoNews
  BY <1>18, InsertItemWrites, OldRow, FinishMoves DEF InsertItem, At, NoNews, Leaving, history, HasAccount
<1>. QED
  BY <1>1, <1>2, <1>3, <1>4, <1>5, <1>6, <1>7, <1>8, <1>9, <1>10, <1>11, <1>12, <1>13, <1>14, <1>15, <1>16, <1>17, <1>18 DEF NoNewsNext

LEMMA InsertNews ==
  ASSUME TypeInv, LockInv, LoginlessOwnsItems, NEW h \in Handler, InsertMirror(h)
  PROVE  LoginlessOwnsItems'
<1>. PICK i \in Id : i = handler[h].id
  BY InsertWrites
<1>1. /\ HasIdentity(i) /\ handler[h].pc = "insert" /\ UNCHANGED <<identity, item, cutOff>>
  BY DEF InsertMirror, At, LockInv, RequestLock, LoginSteps, FirstLoginSteps, history
<1>2. \E r : Moves(h, r)
  BY <1>1, InsertWrites, FinishMoves, GotoMoves DEF Follows
<1>3. \A j \in Id \ {i} : account'[j] = account[j]
  BY InsertWrites, WritesKeep
<1>4. \A j \in Id : Excused(j) => Excused(j)'
  BY <1>1, <1>2, ExcusedStay DEF Leaving
<1>5. \A j \in Id \ cutOff : HasAccount(j) /\ ~HasIdentity(j) => Excused(j)
  BY DEF LoginlessOwnsItems, Excused, Leaving
<1>6. \A j \in Id \ cutOff' : HasAccount(j)' /\ ~HasIdentity(j)' => Excused(j)'
  BY <1>1, <1>3, <1>4, <1>5 DEF HasAccount, HasIdentity
<1>. QED
  BY <1>6 DEF LoginlessOwnsItems, Excused, Leaving

LEMMA OnboardNews ==
  ASSUME TypeInv, LoginlessOwnsItems, NEW h \in Handler, Onboard(h)
  PROVE  LoginlessOwnsItems'
<1>. PICK i \in Id : i = handler[h].id
  BY OnboardWrites
<1>1. handler[h].pc = "onboard" /\ UNCHANGED <<identity, cutOff>> /\ item \subseteq item'
  BY DEF Onboard, At
<1>2. \/ account' = account /\ Moves(h, Idle)
      \/ /\ \A j \in Id \ {i} : account'[j] = account[j]
         /\ \E r : Moves(h, r) /\ r.pc = "mint" /\ r.id = i
  BY <1>1, OnboardWrites, WritesKeep, FinishMoves, GotoMoves DEF Follows, SameRequest
<1>3. \A j \in Id : Excused(j) => Excused(j)'
  BY <1>1, <1>2, ExcusedStay DEF Leaving
<1>4. account' = account \/ (Excused(i)' /\ \A j \in Id \ {i} : account'[j] = account[j])
  BY <1>2, MovesKeep DEF Excused, Leaving
<1>5. \A j \in Id \ cutOff : HasAccount(j) /\ ~HasIdentity(j) => Excused(j)
  BY DEF LoginlessOwnsItems, Excused, Leaving
<1>6. \A j \in Id \ cutOff' : HasAccount(j)' /\ ~HasIdentity(j)' => Excused(j)'
  BY <1>1, <1>3, <1>4, <1>5 DEF HasAccount, HasIdentity
<1>. QED
  BY <1>6 DEF LoginlessOwnsItems, Excused, Leaving

\* The request of h lets go of i, which it has an excuse for no longer.
LEMMA LeavingNews ==
  ASSUME TypeInv, LoginlessOwnsItems, NEW h \in Handler, NEW i \in Id, i = handler[h].id,
         NEW r, Moves(h, r), UNCHANGED <<item, cutOff>>,
         \A j \in Id : HasIdentity(j) => HasIdentity(j)',
         \A j \in Id \ {i} : account'[j] = account[j],
         \/ HasIdentity(i)'
         \/ ~HasAccount(i)'
         \/ OwnsItems(i)
         \/ r.pc \in Leaving /\ r.id = i
  PROVE  LoginlessOwnsItems'
<1>1. handler'[h] = r /\ \A g \in Handler \ {h} : handler'[g] = handler[g]
  BY MovesKeep
<1>2. \A j \in Id \ {i} : Excused(j) => Excused(j)'
  BY <1>1 DEF Excused, OwnsItems
<1>3. HasIdentity(i)' \/ ~HasAccount(i)' \/ Excused(i)'
  BY <1>1 DEF Excused, OwnsItems
<1>5. \A j \in Id \ cutOff : HasAccount(j) /\ ~HasIdentity(j) => Excused(j)
  BY DEF LoginlessOwnsItems, Excused, Leaving
<1>6. \A j \in Id \ cutOff' : HasAccount(j)' /\ ~HasIdentity(j)' => Excused(j)'
  BY <1>2, <1>3, <1>5 DEF HasAccount
<1>. QED
  BY <1>6 DEF LoginlessOwnsItems, Excused, Leaving

LEMMA MintNews ==
  ASSUME TypeInv, LoginlessOwnsItems, NEW h \in Handler, Mint(h) \/ MintFails(h),
         \A j \in Id : HasIdentity(j) => HasIdentity(j)'
  PROVE  LoginlessOwnsItems'
<1>. PICK i \in Id : i = handler[h].id
  BY MintMoves
<1>1. UNCHANGED <<account, item, cutOff>>
  BY DEF Mint, MintFails, history
<1>2. \E r : Moves(h, r) /\ (HasIdentity(i)' \/ (r.pc \in Leaving /\ r.id = i))
  BY MintMoves, ImportWrites DEF HasIdentity, Leaving
<1>. QED
  BY <1>1, <1>2, LeavingNews

LEMMA DeleteNews ==
  ASSUME TypeInv, LoginlessOwnsItems, NEW h \in Handler, DeleteOrphan(h), 
         \A j \in Id : HasIdentity(j) => HasIdentity(j)'
  PROVE  LoginlessOwnsItems'
<1>. PICK i \in Id : i = handler[h].id
  BY DeleteWrites
<1>1. UNCHANGED <<item, cutOff>> /\ Moves(h, Idle)
  BY FinishMoves DEF DeleteOrphan
<1>2. CASE OwnsItems(i)
  <2>1. account' = account
    BY <1>2 DEF DeleteOrphan
  <2>. QED
    BY <1>1, <1>2, <2>1, LeavingNews
<1>3. CASE ~OwnsItems(i)
  <2>1. account'[i] = NoAccount /\ \A j \in Id \ {i} : account'[j] = account[j]
    BY <1>3, DeleteWrites, WritesKeep
  <2>2. ~HasAccount(i)'
    BY <2>1 DEF HasAccount
  <2>. QED
    BY <1>1, <2>1, <2>2, LeavingNews
<1>. QED
  BY <1>2, <1>3

\* Faults.
LEMMA CrashNews ==
  ASSUME TypeInv, LoginlessOwnsItems, NEW h \in Handler, Crash(h)
  PROVE  LoginlessOwnsItems'
<1>1. Moves(h, Idle) /\ UNCHANGED <<account, identity, item>>
  BY FinishMoves DEF Crash
<1>2. \A g \in Handler \ {h} : handler'[g] = handler[g]
  BY <1>1, MovesKeep
<1>3. cutOff' = IF handler[h].pc \in Leaving THEN cutOff \cup {handler[h].id} ELSE cutOff
  BY DEF Crash, Leaving
<1>4. \A i \in Id \ cutOff' : i \notin cutOff /\ (Excused(i) => Excused(i)')
  BY <1>1, <1>2, <1>3 DEF Excused, OwnsItems
<1>5. \A j \in Id \ cutOff : HasAccount(j) /\ ~HasIdentity(j) => Excused(j)
  BY DEF LoginlessOwnsItems, Excused, Leaving
<1>6. \A j \in Id \ cutOff' : HasAccount(j)' /\ ~HasIdentity(j)' => Excused(j)'
  BY <1>1, <1>4, <1>5 DEF HasAccount, HasIdentity
<1>. QED
  BY <1>6 DEF LoginlessOwnsItems, Excused, Leaving

LEMMA LostNews ==
  ASSUME TypeInv, LoginlessOwnsItems, NEW h \in Handler, SignupReplyLost(h),
         \A i \in Id : HasIdentity(i) => HasIdentity(i)'
  PROVE  LoginlessOwnsItems'
<1>1. NoNews
  BY FinishMoves DEF SignupReplyLost, At, NoNews, Leaving, history, HasAccount
<1>. QED
  BY <1>1, NewsFrame

LEMMA ChangeNews ==
  ASSUME TypeInv, LoginlessOwnsItems, NEW i \in Id, NEW p \in Phone, ChangePhone(i, p),
         \A j \in Id : HasIdentity(j) => HasIdentity(j)'
  PROVE  LoginlessOwnsItems'
<1>1. NoNews
  BY DEF ChangePhone, NoNews, history, HasAccount
<1>. QED
  BY <1>1, NewsFrame

\* An account without an identity owns a profile, or the request that onboards it
\* is still at work or was cut off between the row and the identity: the row of
\* everyone else whose identity could not be created has been removed, when
\* Keycloak fails or its answer is lost, and when requests of several people
\* overlap.
THEOREM LoginlessTheorem == Spec => []LoginlessOwnsItems
<1>1. Init => LoginlessOwnsItems
  <2>1. SUFFICES ASSUME Init
                 PROVE  LoginlessOwnsItems
    OBVIOUS
  <2>2. PICK l \in Id \cup {NoId}, f \in Form, d \in Domain :
          /\ identity = [i \in Id |-> IF i = l THEN IdentityOf(f) ELSE NoIdentity]
          /\ account = [i \in Id |-> IF i = l THEN [NoAccount EXCEPT !.email = f.email,
                                                                     !.phone = f.phone]
                                     ELSE NoAccount]
          /\ item = (Id \cap {l}) \X {d}
    BY <2>1 DEF Init
  <2>3. IdentityOf(f) # NoIdentity
    BY FormFacts DEF IdentityOf, NoIdentity, HasKey
  <2>. QED
    BY <2>2, <2>3 DEF LoginlessOwnsItems, HasAccount, HasIdentity
<1>2. TypeInv /\ LockInv /\ LoginlessOwnsItems /\ [Next]_vars => LoginlessOwnsItems'
  <2>1. SUFFICES ASSUME TypeInv, LockInv, LoginlessOwnsItems, [Next]_vars
                 PROVE  LoginlessOwnsItems'
    OBVIOUS
  <2>2. CASE Next
    <3>1. \A i \in Id : HasIdentity(i) => HasIdentity(i)'
      BY <2>1, <2>2, RealmGrows
    <3>2. CASE NoNewsNext
      BY <2>1, <3>1, <3>2, NoNewsSteps, NewsFrame
    <3>3. ASSUME NEW h \in Handler, InsertMirror(h)
          PROVE  LoginlessOwnsItems'
      BY <2>1, <3>3, InsertNews
    <3>4. ASSUME NEW h \in Handler, Onboard(h)
          PROVE  LoginlessOwnsItems'
      BY <2>1, <3>4, OnboardNews
    <3>5. ASSUME NEW h \in Handler, Mint(h)
          PROVE  LoginlessOwnsItems'
      BY <2>1, <3>1, <3>5, MintNews
    <3>6. ASSUME NEW h \in Handler, DeleteOrphan(h)
          PROVE  LoginlessOwnsItems'
      BY <2>1, <3>1, <3>6, DeleteNews
    <3>7. ASSUME NEW h \in Handler, SignupReplyLost(h) \/ MintFails(h) \/ Crash(h)
          PROVE  LoginlessOwnsItems'
      BY <2>1, <3>1, <3>7, LostNews, MintNews, CrashNews
    <3>8. ASSUME NEW i \in Id, NEW p \in Phone, ChangePhone(i, p)
          PROVE  LoginlessOwnsItems'
      BY <2>1, <3>1, <3>8, ChangeNews
    <3>. QED
      BY <2>2, <3>2, <3>3, <3>4, <3>5, <3>6, <3>7, <3>8 DEF Next, NoNewsNext
  <2>3. CASE UNCHANGED vars
    <3>1. UNCHANGED <<account, identity, item, handler, cutOff>>
      BY <2>3 DEF vars
    <3>. QED
      BY <2>1, <3>1 DEF LoginlessOwnsItems, HasAccount, HasIdentity, OwnsItems
  <2>. QED
    BY <2>1, <2>2, <2>3
<1>. QED
  BY <1>1, <1>2, TypesInvariant, LockInvariant, PTL DEF Spec

-----------------------------------------------------------------------------
(* Persons.  An identifier belongs to one row, an email to one identity; what a
   request read of its person holds on; and requests about one person that would
   be in each other's way are never in flight together. *)

Removable == OnboardSteps \cup {"orphan"}
Beginning == SignupSteps \cup Removable

\* What a request at r relies on.
RequestInv(r) ==
  /\ r.pc \in {"lookup", "import"} \cup OnboardSteps => ~HasIdentity(r.id)
  /\ r.pc \in {"mint", "orphan"} => HasAccount(r.id)
  /\ r.pc \in LoginSteps =>
       r.form.email = identity[r.id].email /\ r.form.phone = identity[r.id].phone
  /\ r.pc \in TakeSteps =>
       r.form.email = account[r.id].email /\ r.form.phone = account[r.id].phone

\* What two requests about one person do not do at the same time.
Apart(q, r) ==
  q.id = r.id =>
    /\ q.pc \in Beginning => r.pc \notin Beginning
    /\ q.pc \in FirstLoginSteps => r.pc \notin Removable
    /\ r.pc \in FirstLoginSteps => q.pc \notin Removable
    /\ q.pc \in TakeSteps => r.pc \notin TakeSteps

\* Keycloak has an email once, "user" an email and a phone number.
EmailsOnce ==
  \A i, j \in Id : identity[i].email # NoEmail /\ identity[i].email = identity[j].email => i = j
RowsOnce == \A i, j \in Id : Matches(account[i], account[j]) => i = j

PersonInv ==
  /\ EmailsOnce /\ RowsOnce
  /\ \A h \in Handler : RequestInv(handler[h])
  /\ \A g, h \in Handler : g # h => Apart(handler[g], handler[h])

Quieter == {"idle", "tag", "held", "add"}

LEMMA QuieterFacts ==
  ASSUME NEW r, r.pc \in Quieter
  PROVE  /\ r.pc \notin Beginning /\ r.pc \notin Removable /\ r.pc \notin LoginSteps
         /\ r.pc \notin FirstLoginSteps /\ r.pc \notin TakeSteps
         /\ r.pc \notin {"lookup", "import"} \cup OnboardSteps /\ r.pc \notin {"mint", "orphan"}
  BY DEF Quieter, Beginning, Removable, SignupSteps, OnboardSteps, LoginSteps, FirstLoginSteps,
         TakeSteps

\* The steps of a request that stays in each of its classes, or leaves them.
Onward == {<<"lookup", "import">>, <<"import", "park">>, <<"clash", "insert">>, <<"take", "delete">>,
           <<"delete", "apply">>, <<"onboard", "mint">>, <<"mint", "orphan">>}

LEMMA OnwardApart ==
  ASSUME TypeInv, PersonInv, NEW h \in Handler, NEW r,
         \/ r.pc \in Quieter
         \/ r.id = handler[h].id /\ <<handler[h].pc, r.pc>> \in Onward
  PROVE  \A g \in Handler \ {h} : Apart(handler[g], r)
<1>1. CASE r.pc \in Quieter
  BY <1>1, QuieterFacts DEF Apart
<1>2. CASE r.id = handler[h].id /\ <<handler[h].pc, r.pc>> \in Onward
  <2>1. /\ r.pc \in Beginning => handler[h].pc \in Beginning
        /\ r.pc \in Removable => handler[h].pc \in Removable
        /\ r.pc \in FirstLoginSteps => handler[h].pc \in FirstLoginSteps
        /\ r.pc \in TakeSteps => handler[h].pc \in TakeSteps
    BY <1>2 DEF Onward, Beginning, Removable, SignupSteps, OnboardSteps, FirstLoginSteps, TakeSteps
  <2>2. \A g \in Handler \ {h} : Apart(handler[g], handler[h])
    BY DEF PersonInv
  <2>. QED
    BY <1>2, <2>1, <2>2 DEF Apart
<1>. QED
  BY <1>1, <1>2

LEMMA ApartSymmetric ==
  ASSUME NEW q, NEW r, Apart(q, r)
  PROVE  Apart(r, q)
  BY DEF Apart

StepsApart ==
  \/ handler' = handler /\ \A g \in Handler : RequestInv(handler[g])'
  \/ \E h \in Handler : \E r :
       /\ Moves(h, r) /\ RequestInv(r)'
       /\ \A g \in Handler \ {h} : RequestInv(handler[g])' /\ Apart(handler[g], r)

LEMMA PersonFrame ==
  ASSUME TypeInv, PersonInv, EmailsOnce', RowsOnce', StepsApart
  PROVE  PersonInv'
<1>1. CASE handler' = handler /\ \A g \in Handler : RequestInv(handler[g])'
  BY <1>1 DEF PersonInv
<1>2. ASSUME NEW h \in Handler, NEW r, Moves(h, r), RequestInv(r)',
             \A g \in Handler \ {h} : RequestInv(handler[g])' /\ Apart(handler[g], r)
      PROVE  PersonInv'
  <2>1. handler'[h] = r /\ \A g \in Handler \ {h} : handler'[g] = handler[g]
    BY <1>2, MovesKeep
  <2>2. RequestInv(handler[h])'
    BY <1>2, <2>1 DEF RequestInv
  <2>3. \A g \in Handler \ {h} : Apart(handler'[g], handler'[h]) /\ Apart(handler'[h], handler'[g])
    BY <1>2, <2>1, ApartSymmetric
  <2>4. \A g, k \in Handler : g # k => Apart(handler'[g], handler'[k])
    BY <2>1, <2>3 DEF PersonInv
  <2>. QED
    BY <1>2, <2>2, <2>4 DEF PersonInv, Apart
<1>. QED
  BY <1>1, <1>2 DEF StepsApart

\* No identity and no identifier changes.
PeopleStay ==
  /\ identity' = identity
  /\ \A i \in Id : /\ account'[i].email = account[i].email /\ account'[i].phone = account[i].phone
                   /\ HasAccount(i)' <=> HasAccount(i)

LEMMA PeopleOnce ==
  ASSUME PersonInv, PeopleStay
  PROVE  EmailsOnce' /\ RowsOnce'
  BY DEF PersonInv, PeopleStay, EmailsOnce, RowsOnce, Matches

LEMMA PeopleRequest ==
  ASSUME PeopleStay, NEW r, r.pc # "idle" => r.id \in Id, RequestInv(r)
  PROVE  RequestInv(r)'
  BY DEF PeopleStay, RequestInv, HasIdentity, OnboardSteps, LoginSteps, FirstLoginSteps, TakeSteps

LEMMA PeopleOthers ==
  ASSUME TypeInv, PersonInv, PeopleStay, NEW g \in Handler, handler'[g] = handler[g]
  PROVE  RequestInv(handler[g])'
<1>. DEFINE r == handler[g]
<1>1. RequestInv(r) /\ (r.pc # "idle" => r.id \in Id)
  BY HandlerFacts DEF PersonInv
<1>2. \A q : q = r => RequestInv(q)'
  BY <1>1, PeopleRequest
<1>. QED
  BY <1>2 DEF RequestInv

\* A request that begins, or goes on, with the right to while no person changes.
LEMMA PeopleSteps ==
  ASSUME TypeInv, PersonInv, PeopleStay,
         \/ handler' = handler
         \/ \E h \in Handler : \E r : /\ Moves(h, r) /\ RequestInv(r)
                                   /\ \A g \in Handler \ {h} : Apart(handler[g], r)
  PROVE  EmailsOnce' /\ RowsOnce' /\ StepsApart
<1>1. CASE handler' = handler
  BY <1>1, PeopleOnce, PeopleOthers DEF StepsApart
<1>2. ASSUME NEW h \in Handler, NEW r, Moves(h, r), RequestInv(r),
             \A g \in Handler \ {h} : Apart(handler[g], r)
      PROVE  StepsApart
  <2>1. \A g \in Handler \ {h} : RequestInv(handler[g])'
    BY <1>2, MovesKeep, PeopleOthers
  <2>2. RequestInv(r)'
    BY <1>2, PeopleRequest DEF Moves, RecordInv
  <2>. QED
    BY <1>2, <2>1, <2>2 DEF StepsApart
<1>. QED
  BY <1>1, <1>2, PeopleOnce

LEMMA QuieterSteps ==
  ASSUME TypeInv, PersonInv, PeopleStay, NEW h \in Handler, NEW r, Moves(h, r),
         \/ r.pc \in Quieter
         \/ SameRequest(r, handler[h]) /\ <<handler[h].pc, r.pc>> \in Onward \ {<<"onboard", "mint">>}
         \/ /\ r.id = handler[h].id
            /\ <<handler[h].pc, r.pc>> \in {<<"delete", "apply">>, <<"mint", "orphan">>}
         \/ r.id = handler[h].id /\ r.form = handler[h].form /\ r.pc = "delete" /\ At(h, "take")
  PROVE  EmailsOnce' /\ RowsOnce' /\ StepsApart
<1>1. RequestInv(handler[h])
  BY DEF PersonInv
<1>2. RequestInv(r)
  <2>1. CASE r.pc \in Quieter
    BY <2>1, QuieterFacts DEF RequestInv
  <2>2. CASE r.pc \notin Quieter
    BY <1>1, <2>2 DEF RequestInv, SameRequest, Onward, OnboardSteps, LoginSteps, FirstLoginSteps,
                      TakeSteps, At
  <2>. QED
    BY <2>1, <2>2
<1>3. \A g \in Handler \ {h} : Apart(handler[g], r)
  BY OnwardApart DEF SameRequest, Onward, At
<1>. QED
  BY <1>2, <1>3, PeopleSteps

PersonsKept == EmailsOnce' /\ RowsOnce' /\ StepsApart

LEMMA SameKeysStay ==
  ASSUME TypeInv, UNCHANGED identity, NEW i \in Id, NEW a, Writes(i, a), SameKeys(a, i)
  PROVE  PeopleStay
<1>1. account' \in [Id -> Account] /\ account'[i] = a /\ \A j \in Id \ {i} : account'[j] = account[j]
  BY WritesKeep
<1>2. a # NoAccount => HasKey(a)
  BY DEF Writes, Rewritten
<1>3. HasKey(a) <=> HasKey(account[i])
  BY DEF SameKeys, HasKey
<1>4. a # NoAccount <=> HasKey(a)
  BY <1>2, NoRowFacts DEF HasKey
<1>. QED
  BY <1>1, <1>3, <1>4, RowFacts DEF PeopleStay, SameKeys, HasAccount

LEMMA FreshApart ==
  ASSUME TypeInv, PersonInv, PeopleStay, NEW h \in Handler, NEW i \in Id, Fresh(i),
         NEW r, Moves(h, r), r.id = i, r.pc \in {"lookup", "onboard"}
  PROVE  PersonsKept
<1>1. RequestInv(r)
  BY DEF RequestInv, Fresh, LoginSteps, FirstLoginSteps, TakeSteps
<1>2. \A g \in Handler \ {h} : Apart(handler[g], r)
  BY DEF Apart, Fresh
<1>. QED
  BY <1>1, <1>2, PeopleSteps DEF PersonsKept

LEMMA LoginApart ==
  ASSUME TypeInv, PersonInv, NEW h \in Handler, NEW i \in Id, LoginBegin(h, i)
  PROVE  PersonsKept
<1>1. PICK r : /\ Moves(h, r) /\ r.id = i
               /\ r.form.email = identity[i].email /\ r.form.phone = identity[i].phone
               /\ r.pc = "refresh" \/ (r.pc = "clash" /\ ~HasAccount(i))
  BY LoginMoves
<1>2. HasIdentity(i) /\ UNCHANGED <<identity, account>>
  BY DEF LoginBegin
<1>3. RequestInv(r)
  BY <1>1, <1>2 DEF RequestInv, OnboardSteps, TakeSteps
<1>4. ASSUME NEW g \in Handler \ {h}, handler[g].id = i, r.pc = "clash"
      PROVE  handler[g].pc \notin Removable
  <2>1. RequestInv(handler[g]) /\ ~HasAccount(i)
    BY <1>1, <1>4 DEF PersonInv
  <2>. QED
    BY <1>2, <1>4, <2>1 DEF RequestInv, Removable, OnboardSteps
<1>5. /\ r.pc \notin Beginning /\ r.pc \notin Removable /\ r.pc \notin TakeSteps
      /\ r.pc \in FirstLoginSteps => r.pc = "clash"
  BY <1>1 DEF Beginning, Removable, SignupSteps, OnboardSteps, FirstLoginSteps, TakeSteps
<1>6. \A g \in Handler \ {h} : Apart(handler[g], r)
  BY <1>1, <1>4, <1>5 DEF Apart
<1>7. PeopleStay
  BY <1>2 DEF PeopleStay, HasAccount
<1>. QED
  BY <1>1, <1>3, <1>6, <1>7, PeopleSteps DEF PersonsKept

\* The steps that change no person.
PeopleNext ==
  \/ \E i \in Id, d \in Domain : CreateItem(i, d)
  \/ \E d \in Domain, o \in Org \cup {NoOrg} : Nominate(d, o)
  \/ \E h \in Handler :
       \/ \E i \in Id :
            \/ \E d \in Domain : SetDomainsBegin(h, i, d)
            \/ \E f \in Form :
                 \/ SignupBegin(h, i, f)
                 \/ \E o \in Org \cup {NoOrg} :
                      \/ InsertItemBegin(h, i, f, o)
                      \/ \E w \in BOOLEAN : OnboardBegin(h, i, f, o, w)
       \/ Tag(h) \/ ReadLockedDomains(h) \/ FindInRealm(h) \/ StashExtras(h)
       \/ ClashCheck(h) \/ TakeRead(h) \/ TakeDelete(h) \/ ApplyExtras(h)
       \/ InsertItem(h) \/ Crash(h)

LEMMA PeopleNextStay ==
  ASSUME TypeInv, PeopleNext
  PROVE  PeopleStay
<1>1. ASSUME NEW i \in Id, NEW d \in Domain, CreateItem(i, d)
      PROVE  PeopleStay
  BY <1>1, CreateWrites, SameKeysStay DEF CreateItem, PeopleStay, HasAccount
<1>2. ASSUME NEW d \in Domain, NEW o \in Org \cup {NoOrg}, Nominate(d, o)
      PROVE  PeopleStay
  BY <1>2 DEF Nominate, PeopleStay, HasAccount, history
<1>3. ASSUME NEW h \in Handler, NEW i \in Id, NEW d \in Domain, SetDomainsBegin(h, i, d)
      PROVE  PeopleStay
  BY <1>3, SetDomainsWrites, SameKeysStay DEF SetDomainsBegin, PeopleStay, HasAccount, history
<1>4. ASSUME NEW h \in Handler, NEW i \in Id, NEW f \in Form, SignupBegin(h, i, f)
      PROVE  PeopleStay
  BY <1>4 DEF SignupBegin, PeopleStay, HasAccount, history
<1>5. ASSUME NEW h \in Handler, NEW i \in Id, NEW f \in Form,
             NEW o \in Org \cup {NoOrg}, InsertItemBegin(h, i, f, o)
      PROVE  PeopleStay
  BY <1>5 DEF InsertItemBegin, PeopleStay, HasAccount, history
<1>6. ASSUME NEW h \in Handler, NEW i \in Id, NEW f \in Form, NEW o \in Org \cup {NoOrg},
             NEW w \in BOOLEAN, OnboardBegin(h, i, f, o, w)
      PROVE  PeopleStay
  BY <1>6 DEF OnboardBegin, PeopleStay, HasAccount, history
<1>7. ASSUME NEW h \in Handler, Tag(h)
      PROVE  PeopleStay
  BY <1>7, TagStepWrites, SameKeysStay DEF Tag, PeopleStay, HasAccount
<1>8. ASSUME NEW h \in Handler, ApplyExtras(h)
      PROVE  PeopleStay
  BY <1>8, ApplyMoves, ApplyWrites, SameKeysStay DEF ApplyExtras, PeopleStay, HasAccount
<1>9. ASSUME NEW h \in Handler, InsertItem(h)
      PROVE  PeopleStay
  BY <1>9, InsertItemWrites, SameKeysStay DEF InsertItem, PeopleStay, HasAccount, history
<1>10. ASSUME NEW h \in Handler, ReadLockedDomains(h) \/ FindInRealm(h) \/ StashExtras(h) \/ ClashCheck(h)
      PROVE  PeopleStay
  BY <1>10 DEF ReadLockedDomains, FindInRealm, StashExtras, ClashCheck, PeopleStay, HasAccount, history
<1>11. ASSUME NEW h \in Handler, TakeRead(h) \/ TakeDelete(h) \/ Crash(h)
      PROVE  PeopleStay
  BY <1>11 DEF TakeRead, TakeDelete, Crash, PeopleStay, HasAccount, history
<1>. QED
  BY <1>1, <1>2, <1>3, <1>4, <1>5, <1>6, <1>7, <1>8, <1>9, <1>10, <1>11 DEF PeopleNext

LEMMA IdleQuieter == Idle.pc \in Quieter /\ \A pc \in {"tag", "held", "add"} : pc \in Quieter
  BY IdleFacts DEF Quieter

LEMMA PeopleNextPersons ==
  ASSUME TypeInv, PersonInv, PeopleNext
  PROVE  PersonsKept
<1>0. PeopleStay
  BY PeopleNextStay
<1>1. ASSUME NEW i \in Id, NEW d \in Domain, CreateItem(i, d)
      PROVE  PersonsKept
  BY <1>0, <1>1, PeopleSteps DEF CreateItem, PersonsKept
<1>2. ASSUME NEW d \in Domain, NEW o \in Org \cup {NoOrg}, Nominate(d, o)
      PROVE  PersonsKept
  BY <1>0, <1>2, PeopleSteps DEF Nominate, PersonsKept
<1>3. ASSUME NEW h \in Handler, NEW i \in Id, NEW d \in Domain, SetDomainsBegin(h, i, d)
      PROVE  PersonsKept
  <2>1. \E r : Moves(h, r) /\ r.pc \in Quieter
    BY <1>3, SetDomainsMoves, IdleQuieter
  <2>. QED
    BY <1>0, <2>1, QuieterSteps DEF PersonsKept
<1>4. ASSUME NEW h \in Handler, NEW i \in Id, NEW f \in Form, SignupBegin(h, i, f)
      PROVE  PersonsKept
  <2>1. Fresh(i)
    BY <1>4 DEF SignupBegin
  <2>2. \E r : Moves(h, r) /\ r.id = i /\ r.pc \in {"lookup", "onboard"}
    BY <1>4, SignupMoves
  <2>. QED
    BY <1>0, <2>1, <2>2, FreshApart
<1>5. ASSUME NEW h \in Handler, NEW i \in Id, NEW f \in Form,
             NEW o \in Org \cup {NoOrg}, InsertItemBegin(h, i, f, o)
      PROVE  PersonsKept
  <2>1. \E r : Moves(h, r) /\ r.pc \in Quieter
    BY <1>5, AddMoves, IdleQuieter
  <2>. QED
    BY <1>0, <2>1, QuieterSteps DEF PersonsKept
<1>6. ASSUME NEW h \in Handler, NEW i \in Id, NEW f \in Form, NEW o \in Org \cup {NoOrg},
             NEW w \in BOOLEAN, OnboardBegin(h, i, f, o, w)
      PROVE  PersonsKept
  <2>1. Fresh(i)
    BY <1>6 DEF OnboardBegin
  <2>2. \E r : Moves(h, r) /\ r.id = i /\ r.pc \in {"lookup", "onboard"}
    BY <1>6, OnboardMoves
  <2>. QED
    BY <1>0, <2>1, <2>2, FreshApart
<1>7. ASSUME NEW h \in Handler, Tag(h) \/ StashExtras(h) \/ InsertItem(h) \/ Crash(h)
      PROVE  PersonsKept
  BY <1>0, <1>7, FinishMoves, IdleQuieter, QuieterSteps DEF Tag, StashExtras, InsertItem, Crash, PersonsKept
<1>8. ASSUME NEW h \in Handler, ApplyExtras(h)
      PROVE  PersonsKept
  <2>1. PICK r : Moves(h, r) /\ r.pc \in Quieter
    BY <1>8, ApplyMoves, IdleQuieter
  <2>. QED
    BY <1>0, <2>1, QuieterSteps DEF PersonsKept
<1>9. ASSUME NEW h \in Handler, ReadLockedDomains(h)
      PROVE  PersonsKept
  <2>1. Finish(h) \/ (Goto(h, "tag") /\ handler[h].pc = "held")
    BY <1>9 DEF ReadLockedDomains, At
  <2>2. PICK r : Moves(h, r) /\ r.pc \in Quieter
    BY <2>1, FinishMoves, GotoMoves, IdleQuieter DEF Follows
  <2>. QED
    BY <1>0, <2>2, QuieterSteps DEF PersonsKept
<1>10. ASSUME NEW h \in Handler, FindInRealm(h)
      PROVE  PersonsKept
  <2>1. \/ Moves(h, Idle)
        \/ \E r : Moves(h, r) /\ SameRequest(r, handler[h]) /\ r.pc = "import"
    BY <1>10, FinishMoves, GotoMoves DEF FindInRealm, At, Follows
  <2>2. handler[h].pc = "lookup"
    BY <1>10 DEF FindInRealm, At
  <2>3. <<"lookup", "import">> \in Onward \ {<<"onboard", "mint">>}
    BY DEF Onward
  <2>. QED
    BY <1>0, <2>1, <2>2, <2>3, IdleQuieter, QuieterSteps DEF PersonsKept
<1>11. ASSUME NEW h \in Handler, ClashCheck(h)
      PROVE  PersonsKept
  <2>1. \/ Moves(h, Idle)
        \/ \E r : Moves(h, r) /\ SameRequest(r, handler[h]) /\ r.pc = "insert"
    BY <1>11, FinishMoves, GotoMoves DEF ClashCheck, At, Follows
  <2>2. handler[h].pc = "clash"
    BY <1>11 DEF ClashCheck, At
  <2>3. <<"clash", "insert">> \in Onward \ {<<"onboard", "mint">>}
    BY DEF Onward
  <2>. QED
    BY <1>0, <2>1, <2>2, <2>3, IdleQuieter, QuieterSteps DEF PersonsKept
<1>12. ASSUME NEW h \in Handler, TakeRead(h)
      PROVE  PersonsKept
  <2>1. At(h, "take")
    BY <1>12 DEF TakeRead
  <2>. QED
    BY <1>0, <1>12, <2>1, TakeMoves, IdleQuieter, QuieterSteps DEF PersonsKept
<1>13. ASSUME NEW h \in Handler, TakeDelete(h)
      PROVE  PersonsKept
  <2>1. handler[h].pc = "delete" /\ \E r : Moves(h, r) /\ SameRequest(r, handler[h]) /\ r.pc = "apply"
    BY <1>13, GotoMoves DEF TakeDelete, At, Follows
  <2>. QED
    BY <1>0, <2>1, QuieterSteps DEF PersonsKept, SameRequest
<1>. QED
  BY <1>1, <1>2, <1>3, <1>4, <1>5, <1>6, <1>7, <1>8, <1>9, <1>10, <1>11, <1>12, <1>13 DEF PeopleNext

\* A request of h creates the identity of its person, and stops or goes on.
LEMMA ImportPersons ==
  ASSUME TypeInv, LockInv, PersonInv, NEW h \in Handler, NEW i \in Id, NEW f \in FormType,
         i = handler[h].id, f = handler[h].form, HasKey(f), handler[h].pc \in {"import", "mint"},
         Import(i, f), Importable(f), UNCHANGED account,
         NEW r, Moves(h, r),
         \/ r.pc = "idle"
         \/ r.pc = "park" /\ r.id = i /\ handler[h].pc = "import"
         \/ r.pc = "orphan" /\ r.id = i /\ handler[h].pc = "mint"
  PROVE  PersonsKept
<1>1. /\ identity'[i].email = f.email /\ identity'[i].phone = f.phone /\ identity'[i] # NoIdentity
      /\ \A j \in Id \ {i} : identity'[j] = identity[j]
  BY ImportWrites
<1>2. /\ RequestInv(handler[h]) /\ \A g \in Handler \ {h} : Apart(handler[g], handler[h])
  BY DEF PersonInv
<1>3. ~HasIdentity(i)
  BY <1>2 DEF RequestInv, OnboardSteps
<1>4. EmailsOnce'
  BY <1>1 DEF Importable, EmailsOnce, PersonInv
<1>5. RowsOnce'
  BY DEF PersonInv, RowsOnce, Matches
<1>6. ASSUME NEW g \in Handler \ {h}
      PROVE  RequestInv(handler[g])'
  <2>1. handler'[g] = handler[g] /\ RequestInv(handler[g]) /\ RequestLock(handler[g])
    BY MovesKeep DEF PersonInv, LockInv
  <2>2. handler[g].id = i => /\ handler[g].pc \notin {"lookup", "import"} \cup OnboardSteps
                             /\ handler[g].pc \notin LoginSteps
    <3>1. handler[h].pc \in Beginning
      BY DEF Beginning, SignupSteps, Removable, OnboardSteps
    <3>2. \A pc \in {"lookup", "import"} \cup OnboardSteps : pc \in Beginning
      BY DEF Beginning, SignupSteps, Removable
    <3>. QED
      BY <1>2, <1>3, <2>1, <3>1, <3>2 DEF Apart, RequestLock
  <2>3. handler[g].pc # "idle" => handler[g].id \in Id
    BY HandlerFacts
  <2>4. handler[g].pc \in TakeSteps => handler[g].pc \in LoginSteps
    BY DEF LoginSteps, FirstLoginSteps
  <2>5. handler[g].pc = "idle" => handler[g].pc \notin LoginSteps \cup {"lookup", "import", "mint", "orphan"} \cup OnboardSteps
    BY DEF LoginSteps, FirstLoginSteps, TakeSteps, OnboardSteps
  <2>. QED
    BY <1>1, <2>1, <2>2, <2>3, <2>4, <2>5 DEF RequestInv, HasIdentity, HasAccount
<1>7. RequestInv(r)'
  BY <1>2 DEF RequestInv, OnboardSteps, LoginSteps, FirstLoginSteps, TakeSteps, HasAccount
<1>8. \A g \in Handler \ {h} : Apart(handler[g], r)
  BY OnwardApart, IdleQuieter DEF Onward, Quieter
<1>. QED
  BY <1>4, <1>5, <1>6, <1>7, <1>8 DEF PersonsKept, StepsApart

LEMMA ChangePersons ==
  ASSUME TypeInv, PersonInv, NEW i \in Id, NEW p \in Phone, ChangePhone(i, p)
  PROVE  PersonsKept
<1>1. /\ identity'[i].email = identity[i].email /\ HasIdentity(i)
      /\ \A j \in Id \ {i} : identity'[j] = identity[j]
      /\ UNCHANGED <<account, handler>> /\ \A h \in Handler : handler[h].id # i
  BY ChangeWrites DEF ChangePhone, LoggedIn
<1>2. EmailsOnce' /\ RowsOnce'
  BY <1>1 DEF PersonInv, EmailsOnce, RowsOnce, Matches
<1>3. ASSUME NEW g \in Handler
      PROVE  RequestInv(handler[g])'
  <2>1. RequestInv(handler[g]) /\ (handler[g].pc # "idle" => handler[g].id \in Id \ {i})
    BY <1>1, HandlerFacts DEF PersonInv
  <2>. QED
    BY <1>1, <2>1 DEF RequestInv, HasIdentity, HasAccount, OnboardSteps, LoginSteps, FirstLoginSteps, TakeSteps
<1>. QED
  BY <1>1, <1>2, <1>3 DEF PersonsKept, StepsApart

\* A request that ends while no person changes.
LEMMA EndPersons ==
  ASSUME TypeInv, PersonInv, UNCHANGED <<identity, account>>, NEW h \in Handler, Moves(h, Idle)
  PROVE  PersonsKept
<1>1. PeopleStay
  BY DEF PeopleStay, HasAccount
<1>. QED
  BY <1>1, IdleQuieter, QuieterSteps DEF PersonsKept

LEMMA SignupPersons ==
  ASSUME TypeInv, LockInv, PersonInv, NEW h \in Handler, SignupImport(h) \/ SignupReplyLost(h)
  PROVE  PersonsKept
<1>1. /\ handler[h].id \in Id /\ handler[h].form \in FormType /\ HasKey(handler[h].form)
      /\ \/ /\ Import(handler[h].id, handler[h].form) /\ Importable(handler[h].form)
            /\ \/ Moves(h, Idle)
               \/ \E r : Moves(h, r) /\ r.pc = "park" /\ SameRequest(r, handler[h])
         \/ UNCHANGED identity /\ Moves(h, Idle)
  BY SignupImports
<1>2. UNCHANGED account /\ handler[h].pc = "import"
  BY DEF SignupImport, SignupReplyLost, At
<1>3. PICK i \in Id, f \in FormType : i = handler[h].id /\ f = handler[h].form
  BY <1>1
<1>4. CASE UNCHANGED identity /\ Moves(h, Idle)
  BY <1>2, <1>4, EndPersons
<1>5. CASE Import(i, f) /\ Importable(f)
  <2>1. \E r : Moves(h, r) /\ (r.pc = "idle" \/ (r.pc = "park" /\ r.id = i))
    BY <1>1, <1>3, IdleFacts, <1>5, <1>4 DEF SameRequest
  <2>. QED
    BY <1>1, <1>2, <1>3, <1>5, <2>1, ImportPersons
<1>. QED
  BY <1>1, <1>3, <1>4, <1>5

LEMMA MintPersons ==
  ASSUME TypeInv, LockInv, PersonInv, NEW h \in Handler, Mint(h) \/ MintFails(h)
  PROVE  PersonsKept
<1>1. /\ handler[h].id \in Id /\ handler[h].form \in FormType /\ HasKey(handler[h].form)
      /\ \/ Import(handler[h].id, handler[h].form) /\ Importable(handler[h].form)
         \/ UNCHANGED identity
      /\ \E r : Moves(h, r) /\ (r.pc = "idle" \/ (r.pc = "orphan" /\ r.id = handler[h].id))
  BY MintMoves, IdleFacts
<1>2. UNCHANGED account /\ handler[h].pc = "mint"
  BY DEF Mint, MintFails, At
<1>3. PICK i \in Id, f \in FormType : i = handler[h].id /\ f = handler[h].form
  BY <1>1
<1>4. CASE UNCHANGED identity
  <2>1. PeopleStay
    BY <1>2, <1>4 DEF PeopleStay, HasAccount
  <2>2. PICK r : Moves(h, r) /\ (r.pc = "idle" \/ (r.pc = "orphan" /\ r.id = handler[h].id))
    BY <1>1
  <2>. QED
    BY <1>2, <2>1, <2>2, QuieterSteps DEF PersonsKept, Quieter
<1>5. CASE Import(i, f) /\ Importable(f)
  BY <1>1, <1>2, <1>3, <1>5, ImportPersons
<1>. QED
  BY <1>1, <1>3, <1>4, <1>5

LEMMA RefreshPersons ==
  ASSUME TypeInv, PersonInv, NEW h \in Handler, RefreshMirror(h)
  PROVE  PersonsKept
<1>1. PICK i \in Id, p \in Phone : i = handler[h].id /\ p = handler[h].form.phone
  BY RefreshWrites, HandlerFacts DEF FormType
<1>2. /\ handler[h].pc = "refresh" /\ identity' = identity /\ Moves(h, Idle)
      /\ identity[i].phone = p
  BY <1>1, FinishMoves DEF RefreshMirror, At, PersonInv, RequestInv, LoginSteps
<1>3. CASE account' = account
  BY <1>2, <1>3, EndPersons
<1>4. ASSUME NEW a, Writes(i, a), a.email = account[i].email, a.phone = p, HasAccount(i),
             \A j \in Id \ {i} : account[j].phone # p
      PROVE  PersonsKept
  <2>1. /\ account'[i] = a /\ \A j \in Id \ {i} : account'[j] = account[j]
    BY <1>4, WritesKeep
  <2>2. RowsOnce'
    BY <1>4, <2>1 DEF PersonInv, RowsOnce, Matches
  <2>3. EmailsOnce'
    BY <1>2 DEF PersonInv, EmailsOnce
  <2>4. a # NoAccount
    BY <1>4, NoRowFacts, AccountAssumption DEF HasKey
  <2>5. ASSUME NEW g \in Handler \ {h}
        PROVE  RequestInv(handler[g])'
    <3>1. handler'[g] = handler[g] /\ RequestInv(handler[g])
      BY <1>2, MovesKeep DEF PersonInv
    <3>2. handler[g].pc # "idle" => handler[g].id \in Id
      BY HandlerFacts
    <3>3. handler[g].pc \in TakeSteps => handler[g].pc \in LoginSteps
      BY DEF LoginSteps, FirstLoginSteps
    <3>4. handler[g].pc = "idle" =>
            handler[g].pc \notin LoginSteps \cup {"lookup", "import", "mint", "orphan"} \cup OnboardSteps
      BY DEF LoginSteps, FirstLoginSteps, TakeSteps, OnboardSteps
    <3>. QED
      BY <1>2, <1>4, <2>1, <2>4, <3>1, <3>2, <3>3, <3>4 DEF RequestInv, HasIdentity, HasAccount
  <2>6. RequestInv(Idle)' /\ \A g \in Handler \ {h} : Apart(handler[g], Idle)
    BY IdleQuieter, QuieterFacts, OnwardApart DEF RequestInv
  <2>. QED
    BY <1>2, <2>2, <2>3, <2>5, <2>6 DEF PersonsKept, StepsApart
<1>. QED
  BY <1>1, <1>3, <1>4, RefreshWrites

\* A row is new, with identifiers that no other row holds.
LEMMA NewRowPersons ==
  ASSUME TypeInv, PersonInv, NEW i \in Id, NEW f \in FormType, HasKey(f), Insertable(i, f),
         NEW a, Writes(i, a), HasKey(a), a.email = f.email, a.phone = f.phone,
         UNCHANGED identity, NEW h \in Handler, NEW r, Moves(h, r)
  PROVE  /\ EmailsOnce' /\ RowsOnce' /\ HasAccount(i)'
         /\ account'[i] = a
         /\ \A g \in Handler \ {h} : /\ RequestInv(handler[g])'
                                     /\ handler[g].id = i => handler[g].pc \notin TakeSteps
<1>1. account'[i] = a /\ \A j \in Id \ {i} : account'[j] = account[j]
  BY WritesKeep
<1>2. a # NoAccount /\ ~HasAccount(i)
  BY NoRowFacts DEF HasKey, Insertable
<1>3. EmailsOnce'
  BY DEF PersonInv, EmailsOnce
<1>4. \A j \in Id : ~Matches(account[j], f)
  BY DEF Insertable, Holders
<1>5. RowsOnce'
  BY <1>1, <1>4 DEF PersonInv, RowsOnce, Matches
<1>6. account[i].email = NoEmail /\ account[i].phone = NoPhone
  BY <1>2 DEF HasAccount, NoAccount
<1>7. ASSUME NEW g \in Handler \ {h}
      PROVE  RequestInv(handler[g])' /\ (handler[g].id = i => handler[g].pc \notin TakeSteps)
  <2>1. handler'[g] = handler[g] /\ RequestInv(handler[g]) /\ RecordInv(handler[g])
    BY MovesKeep DEF PersonInv, TypeInv
  <2>2. handler[g].id = i => handler[g].pc \notin TakeSteps
    BY <1>6, <2>1 DEF RequestInv, RecordInv, HasKey, FirstLoginSteps
  <2>3. handler[g].pc # "idle" => handler[g].id \in Id
    BY HandlerFacts
  <2>4. handler[g].pc = "idle" =>
          handler[g].pc \notin LoginSteps \cup TakeSteps \cup {"mint", "orphan"}
    BY DEF LoginSteps, FirstLoginSteps, TakeSteps
  <2>5. handler[g].pc = "idle" =>
          handler[g].pc \notin {"lookup", "import"} \cup OnboardSteps
    BY DEF OnboardSteps
  <2>. QED
    BY <1>1, <1>2, <2>1, <2>2, <2>3, <2>4, <2>5 DEF RequestInv, HasIdentity, HasAccount
<1>. QED
  BY <1>1, <1>2, <1>3, <1>5, <1>7 DEF HasAccount

LEMMA InsertPersons ==
  ASSUME TypeInv, PersonInv, NEW h \in Handler, InsertMirror(h)
  PROVE  PersonsKept
<1>1. PICK i \in Id, f \in FormType : i = handler[h].id /\ f = handler[h].form
  BY InsertWrites, HandlerFacts
<1>2. HasKey(f) /\ handler[h].pc = "insert" /\ UNCHANGED identity
  BY <1>1, HandlerFacts DEF InsertMirror, At, RecordInv, FirstLoginSteps
<1>3. CASE account' = account /\ Finish(h)
  BY <1>2, <1>3, FinishMoves, EndPersons
<1>4. ASSUME Insertable(i, f), Goto(h, "take"), NEW a, Writes(i, a), HasKey(a),
             a.email = f.email, a.phone = f.phone
      PROVE  PersonsKept
  <2>1. PICK r : Moves(h, r) /\ r.pc = "take" /\ SameRequest(r, handler[h])
    BY <1>2, <1>4, GotoMoves DEF Follows
  <2>2. /\ EmailsOnce' /\ RowsOnce' /\ HasAccount(i)' /\ account'[i] = a
        /\ \A g \in Handler \ {h} : /\ RequestInv(handler[g])'
                                    /\ handler[g].id = i => handler[g].pc \notin TakeSteps
    BY <1>2, <1>4, <2>1, NewRowPersons
  <2>3. RequestInv(r)'
    <3>1. f.email = identity[i].email /\ f.phone = identity[i].phone
      BY <1>1, <1>2 DEF PersonInv, RequestInv, LoginSteps, FirstLoginSteps
    <3>. QED
      BY <1>1, <1>2, <1>4, <2>1, <2>2, <3>1 DEF SameRequest, RequestInv, OnboardSteps
  <2>4. ASSUME NEW g \in Handler \ {h}
        PROVE  Apart(handler[g], r)
    <3>1. Apart(handler[g], handler[h])
      BY <2>4 DEF PersonInv
    <3>2. handler[h].pc \in FirstLoginSteps /\ r.pc \notin Beginning /\ r.pc \notin Removable
      BY <1>2, <2>1 DEF FirstLoginSteps, Beginning, SignupSteps, Removable, OnboardSteps
    <3>. QED
      BY <1>1, <2>1, <2>2, <3>1, <3>2 DEF SameRequest, Apart
  <2>. QED
    BY <2>1, <2>2, <2>3, <2>4 DEF PersonsKept, StepsApart
<1>. QED
  BY <1>1, <1>3, <1>4, InsertWrites

LEMMA OnboardPersons ==
  ASSUME TypeInv, PersonInv, NEW h \in Handler, Onboard(h)
  PROVE  PersonsKept
<1>1. PICK i \in Id, f \in FormType : i = handler[h].id /\ f = handler[h].form /\ HasKey(f)
  BY OnboardWrites
<1>2. handler[h].pc = "onboard" /\ UNCHANGED identity
  BY DEF Onboard, At
<1>3. CASE account' = account /\ Finish(h)
  BY <1>2, <1>3, FinishMoves, EndPersons
<1>4. ASSUME Insertable(i, f), Goto(h, "mint"), NEW a, Writes(i, a), HasKey(a),
             a.email = f.email, a.phone = f.phone
      PROVE  PersonsKept
  <2>1. PICK r : Moves(h, r) /\ r.pc = "mint" /\ SameRequest(r, handler[h])
    BY <1>2, <1>4, GotoMoves DEF Follows
  <2>2. /\ EmailsOnce' /\ RowsOnce' /\ HasAccount(i)'
        /\ \A g \in Handler \ {h} : RequestInv(handler[g])'
    BY <1>1, <1>2, <1>4, <2>1, NewRowPersons
  <2>3. RequestInv(r)'
    <3>1. ~HasIdentity(i)
      BY <1>1, <1>2 DEF PersonInv, RequestInv, OnboardSteps
    <3>. QED
      BY <1>1, <1>2, <2>1, <2>2, <3>1
         DEF SameRequest, RequestInv, HasIdentity, LoginSteps, FirstLoginSteps, TakeSteps
  <2>4. \A g \in Handler \ {h} : Apart(handler[g], r)
    BY <1>2, <2>1, OnwardApart DEF SameRequest, Onward
  <2>. QED
    BY <2>1, <2>2, <2>3, <2>4 DEF PersonsKept, StepsApart
<1>. QED
  BY <1>1, <1>3, <1>4, OnboardWrites

LEMMA DeletePersons ==
  ASSUME TypeInv, PersonInv, NEW h \in Handler, DeleteOrphan(h)
  PROVE  PersonsKept
<1>1. PICK i \in Id : i = handler[h].id
  BY DeleteWrites
<1>2. handler[h].pc = "orphan" /\ UNCHANGED identity /\ Moves(h, Idle)
  BY FinishMoves DEF DeleteOrphan, At
<1>3. CASE OwnsItems(i)
  BY <1>1, <1>2, <1>3, EndPersons DEF DeleteOrphan
<1>4. CASE ~OwnsItems(i)
  <2>1. /\ account'[i] = NoAccount /\ \A j \in Id \ {i} : account'[j] = account[j]
    BY <1>1, <1>4, DeleteWrites, WritesKeep
  <2>2. EmailsOnce' /\ RowsOnce'
    BY <1>2, <2>1 DEF PersonInv, EmailsOnce, RowsOnce, Matches, NoAccount
  <2>3. ASSUME NEW g \in Handler \ {h}
        PROVE  RequestInv(handler[g])'
    <3>1. handler'[g] = handler[g] /\ RequestInv(handler[g]) /\ Apart(handler[g], handler[h])
      BY <1>2, MovesKeep DEF PersonInv
    <3>2. handler[g].id = i => handler[g].pc \notin {"mint", "orphan"} \cup TakeSteps
      BY <1>1, <1>2, <3>1 DEF Apart, Beginning, Removable, OnboardSteps, FirstLoginSteps
    <3>3. handler[g].pc # "idle" => handler[g].id \in Id
      BY HandlerFacts
    <3>4. handler[g].pc = "idle" =>
            handler[g].pc \notin TakeSteps \cup {"mint", "orphan"}
      BY DEF TakeSteps
    <3>. QED
      BY <1>2, <2>1, <3>1, <3>2, <3>3, <3>4 DEF RequestInv, HasIdentity, HasAccount
  <2>4. RequestInv(Idle)' /\ \A g \in Handler \ {h} : Apart(handler[g], Idle)
    BY IdleQuieter, QuieterFacts, OnwardApart DEF RequestInv
  <2>. QED
    BY <1>2, <2>2, <2>3, <2>4 DEF PersonsKept, StepsApart
<1>. QED
  BY <1>3, <1>4

LEMMA PersonSteps ==
  ASSUME TypeInv, LockInv, PersonInv, Next
  PROVE  PersonInv'
<1>1. CASE PeopleNext
  BY <1>1, PeopleNextPersons, PersonFrame DEF PersonsKept
<1>2. CASE \E i \in Id, p \in Phone : ChangePhone(i, p)
  BY <1>2, ChangePersons, PersonFrame DEF PersonsKept
<1>3. CASE \E h \in Handler, i \in Id : LoginBegin(h, i)
  BY <1>3, LoginApart, PersonFrame DEF PersonsKept
<1>4. ASSUME NEW h \in Handler, SignupImport(h) \/ SignupReplyLost(h) \/ Mint(h) \/ MintFails(h)
      PROVE  PersonInv'
  BY <1>4, SignupPersons, MintPersons, PersonFrame DEF PersonsKept
<1>5. ASSUME NEW h \in Handler, RefreshMirror(h) \/ InsertMirror(h)
      PROVE  PersonInv'
  BY <1>5, RefreshPersons, InsertPersons, PersonFrame DEF PersonsKept
<1>6. ASSUME NEW h \in Handler, Onboard(h) \/ DeleteOrphan(h)
      PROVE  PersonInv'
  BY <1>6, OnboardPersons, DeletePersons, PersonFrame DEF PersonsKept
<1>. QED
  BY <1>1, <1>2, <1>3, <1>4, <1>5, <1>6 DEF Next, PeopleNext

LEMMA PersonInvariant == Spec => []PersonInv
<1>1. Init => PersonInv
  <2>1. SUFFICES ASSUME Init PROVE PersonInv
    OBVIOUS
  <2>2. /\ handler = [h \in Handler |-> Idle] /\ Idle.pc \in Quieter /\ Idle.id = NoId
    BY IdleQuieter, IdleFacts, <2>1 DEF Init
  <2>3. PICK l \in Id \cup {NoId}, f \in Form :
          /\ identity = [i \in Id |-> IF i = l THEN IdentityOf(f) ELSE NoIdentity]
          /\ account = [i \in Id |-> IF i = l THEN [NoAccount EXCEPT !.email = f.email,
                                                                     !.phone = f.phone]
                                     ELSE NoAccount]
    BY <2>1 DEF Init
  <2>4. \A i \in Id \ {l} : /\ identity[i].email = NoEmail
                            /\ account[i].email = NoEmail /\ account[i].phone = NoPhone
    BY <2>3 DEF NoIdentity, NoAccount
  <2>5. EmailsOnce /\ RowsOnce
    BY <2>4 DEF EmailsOnce, RowsOnce, Matches
  <2>6. \A h \in Handler : RequestInv(handler[h])
    BY <2>2, QuieterFacts DEF RequestInv
  <2>7. \A g, h \in Handler : Apart(handler[g], handler[h])
    BY <2>2, QuieterFacts DEF Apart
  <2>. QED
    BY <2>5, <2>6, <2>7 DEF PersonInv
<1>2. TypeInv /\ LockInv /\ PersonInv /\ [Next]_vars => PersonInv'
  <2>1. SUFFICES ASSUME TypeInv, LockInv, PersonInv, UNCHANGED vars PROVE PersonInv'
    BY PersonSteps
  <2>. QED
    BY <2>1 DEF vars, PersonInv, EmailsOnce, RowsOnce, Matches, RequestInv, HasIdentity, HasAccount,
                Apart
<1>. QED
  BY <1>1, <1>2, TypesInvariant, LockInvariant, PTL DEF Spec

-----------------------------------------------------------------------------
(* What signups park.  A token is what one signup has parked: it lies in the
   stash under the identifiers of that signup, or one request has taken it, or
   an account has received it. *)

\* A step takes a request from q to r.
Proceeds(q, r) ==
  \/ r.pc \in Quieter \cup {"lookup", "onboard", "refresh"}
  \/ r.pc = "clash" /\ ~HasAccount(r.id)
  \/ r.id = q.id /\ <<q.pc, r.pc>> \in Onward \cup {<<"insert", "take">>}

TokenSteps == {"park", "delete", "apply"}

\* A step that moves no token: an account that is removed forgets its own.
PlainStep ==
  /\ stash' = stash
  /\ \A i \in Id : applied'[i] \in {applied[i], NoId}
  /\ \/ handler' = handler
     \/ \E h \in Handler : \E r :
          Moves(h, r) /\ Proceeds(handler[h], r) /\ r.pc \notin TokenSteps

LEMMA ProceedFacts ==
  /\ \A pc \in Quieter \cup {"lookup", "onboard", "refresh"} : pc \notin TokenSteps
  /\ Idle.pc \in Quieter
  /\ \A pc \in {"import", "clash", "insert", "take", "mint", "orphan"} : pc \notin TokenSteps
  BY IdleFacts DEF Quieter, TokenSteps

LEMMA PlainEnd ==
  ASSUME TypeInv, stash' = stash, \A i \in Id : applied'[i] \in {applied[i], NoId},
         NEW h \in Handler, Finish(h)
  PROVE  PlainStep
  BY FinishMoves, ProceedFacts DEF PlainStep, Proceeds

LEMMA PlainBegin ==
  ASSUME TypeInv, stash' = stash, UNCHANGED history,
         NEW h \in Handler, \E r : Moves(h, r) /\ r.pc \in Quieter \cup {"lookup", "onboard", "refresh"}
  PROVE  PlainStep
<1>1. PICK r : Moves(h, r) /\ r.pc \in Quieter \cup {"lookup", "onboard", "refresh"}
  OBVIOUS
<1>2. Proceeds(handler[h], r) /\ r.pc \notin TokenSteps
  BY <1>1, ProceedFacts DEF Proceeds
<1>. QED
  BY <1>1, <1>2 DEF PlainStep, history

LEMMA PlainOnward ==
  ASSUME TypeInv, stash' = stash, UNCHANGED history, NEW h \in Handler, NEW pc,
         <<handler[h].pc, pc>> \in Onward \cup {<<"insert", "take">>}, pc \notin TokenSteps,
         \E r : Moves(h, r) /\ r.pc = pc /\ r.id = handler[h].id
  PROVE  PlainStep
<1>1. PICK r : Moves(h, r) /\ r.pc = pc /\ r.id = handler[h].id
  OBVIOUS
<1>2. Proceeds(handler[h], r)
  BY <1>1 DEF Proceeds
<1>. QED
  BY <1>1, <1>2 DEF PlainStep, history

\* The steps that move a token.
TokenNext ==
  \E h \in Handler : \/ SignupImport(h) \/ StashExtras(h)
                     \/ TakeRead(h) \/ TakeDelete(h) \/ ApplyExtras(h)

LEMMA PlainSteps ==
  ASSUME TypeInv, Next
  PROVE  PlainStep \/ TokenNext
<1>1. ASSUME NEW i \in Id, NEW d \in Domain, CreateItem(i, d)
      PROVE  PlainStep \/ TokenNext
  BY <1>1 DEF CreateItem, PlainStep, history
<1>2. ASSUME NEW d \in Domain, NEW o \in Org \cup {NoOrg}, Nominate(d, o)
      PROVE  PlainStep \/ TokenNext
  BY <1>2 DEF Nominate, PlainStep, history
<1>3. ASSUME NEW i \in Id, NEW p \in Phone, ChangePhone(i, p)
      PROVE  PlainStep \/ TokenNext
  BY <1>3 DEF ChangePhone, PlainStep, history
<1>4. ASSUME NEW h \in Handler, NEW i \in Id, LoginBegin(h, i)
      PROVE  PlainStep \/ TokenNext
  <2>1. PICK r : /\ Moves(h, r) /\ r.id = i
                 /\ r.pc = "refresh" \/ (r.pc = "clash" /\ ~HasAccount(i))
    BY <1>4, LoginMoves
  <2>2. Proceeds(handler[h], r) /\ r.pc \notin TokenSteps
    BY <2>1, ProceedFacts DEF Proceeds
  <2>. QED
    BY <1>4, <2>1, <2>2 DEF LoginBegin, PlainStep, history
<1>5. ASSUME NEW h \in Handler, NEW i \in Id, NEW d \in Domain, SetDomainsBegin(h, i, d)
      PROVE  PlainStep \/ TokenNext
  <2>1. \E r : Moves(h, r) /\ r.pc \in Quieter
    BY <1>5, SetDomainsMoves, IdleQuieter
  <2>. QED
    BY <1>5, <2>1, PlainBegin DEF SetDomainsBegin
<1>6. ASSUME NEW h \in Handler, NEW i \in Id, NEW f \in Form, SignupBegin(h, i, f)
      PROVE  PlainStep \/ TokenNext
  <2>1. \E r : Moves(h, r) /\ r.pc \in Quieter \cup {"lookup", "onboard", "refresh"}
    BY <1>6, SignupMoves
  <2>. QED
    BY <1>6, <2>1, PlainBegin DEF SignupBegin
<1>7. ASSUME NEW h \in Handler, NEW i \in Id, NEW f \in Form, NEW o \in Org \cup {NoOrg}, InsertItemBegin(h, i, f, o)
      PROVE  PlainStep \/ TokenNext
  <2>1. \E r : Moves(h, r) /\ r.pc \in Quieter
    BY <1>7, AddMoves, IdleQuieter
  <2>. QED
    BY <1>7, <2>1, PlainBegin DEF InsertItemBegin
<1>8. ASSUME NEW h \in Handler, NEW i \in Id, NEW f \in Form, NEW o \in Org \cup {NoOrg},
             NEW w \in BOOLEAN, OnboardBegin(h, i, f, o, w)
      PROVE  PlainStep \/ TokenNext
  <2>1. \E r : Moves(h, r) /\ r.pc \in Quieter \cup {"lookup", "onboard", "refresh"}
    BY <1>8, OnboardMoves
  <2>. QED
    BY <1>8, <2>1, PlainBegin DEF OnboardBegin
<1>9. ASSUME NEW h \in Handler, Tag(h)
      PROVE  PlainStep \/ TokenNext
  BY <1>9, PlainEnd DEF Tag, history
<1>10. ASSUME NEW h \in Handler, ReadLockedDomains(h)
      PROVE  PlainStep \/ TokenNext
  <2>1. Finish(h) \/ (Goto(h, "tag") /\ handler[h].pc = "held")
    BY <1>10 DEF ReadLockedDomains, At
  <2>2. \E r : Moves(h, r) /\ r.pc \in Quieter
    BY <2>1, FinishMoves, GotoMoves, IdleQuieter DEF Follows
  <2>. QED
    BY <1>10, <2>2, PlainBegin DEF ReadLockedDomains
<1>11. ASSUME NEW h \in Handler, FindInRealm(h)
      PROVE  PlainStep \/ TokenNext
  <2>1. Finish(h) \/ (Goto(h, "import") /\ handler[h].pc = "lookup")
    BY <1>11 DEF FindInRealm, At
  <2>2. CASE Goto(h, "import") /\ handler[h].pc = "lookup"
    BY <1>11, <2>2, GotoMoves, PlainOnward, ProceedFacts DEF Follows, Onward, SameRequest, FindInRealm
  <2>. QED
    BY <1>11, <2>1, <2>2, PlainEnd DEF FindInRealm, history
<1>12. ASSUME NEW h \in Handler, SignupImport(h)
      PROVE  PlainStep \/ TokenNext
  BY <1>12 DEF TokenNext
<1>13. ASSUME NEW h \in Handler, SignupReplyLost(h)
      PROVE  PlainStep \/ TokenNext
  BY <1>13, PlainEnd DEF SignupReplyLost, history
<1>14. ASSUME NEW h \in Handler, StashExtras(h)
      PROVE  PlainStep \/ TokenNext
  BY <1>14 DEF TokenNext
<1>15. ASSUME NEW h \in Handler, RefreshMirror(h)
      PROVE  PlainStep \/ TokenNext
  BY <1>15, PlainEnd DEF RefreshMirror, history
<1>16. ASSUME NEW h \in Handler, ClashCheck(h)
      PROVE  PlainStep \/ TokenNext
  <2>1. Finish(h) \/ (Goto(h, "insert") /\ handler[h].pc = "clash")
    BY <1>16 DEF ClashCheck, At
  <2>2. CASE Goto(h, "insert") /\ handler[h].pc = "clash"
    BY <1>16, <2>2, GotoMoves, PlainOnward, ProceedFacts DEF Follows, Onward, SameRequest, ClashCheck
  <2>. QED
    BY <1>16, <2>1, <2>2, PlainEnd DEF ClashCheck, history
<1>17. ASSUME NEW h \in Handler, InsertMirror(h)
      PROVE  PlainStep \/ TokenNext
  <2>1. Finish(h) \/ (Goto(h, "take") /\ handler[h].pc = "insert")
    BY <1>17 DEF InsertMirror, At
  <2>2. CASE Goto(h, "take") /\ handler[h].pc = "insert"
    BY <1>17, <2>2, GotoMoves, PlainOnward, ProceedFacts DEF Follows, Onward, SameRequest, InsertMirror
  <2>. QED
    BY <1>17, <2>1, <2>2, PlainEnd DEF InsertMirror, history
<1>18. ASSUME NEW h \in Handler, TakeRead(h)
      PROVE  PlainStep \/ TokenNext
  BY <1>18 DEF TokenNext
<1>19. ASSUME NEW h \in Handler, TakeDelete(h)
      PROVE  PlainStep \/ TokenNext
  BY <1>19 DEF TokenNext
<1>20. ASSUME NEW h \in Handler, ApplyExtras(h)
      PROVE  PlainStep \/ TokenNext
  BY <1>20 DEF TokenNext
<1>21. ASSUME NEW h \in Handler, Onboard(h)
      PROVE  PlainStep \/ TokenNext
  <2>1. Finish(h) \/ (Goto(h, "mint") /\ handler[h].pc = "onboard")
    BY <1>21 DEF Onboard, At
  <2>2. stash' = stash /\ applied' = applied
    BY <1>21 DEF Onboard
  <2>3. CASE Goto(h, "mint") /\ handler[h].pc = "onboard"
    <3>1. PICK r : Moves(h, r) /\ r.pc = "mint" /\ r.id = handler[h].id
      BY <2>3, GotoMoves DEF Follows, SameRequest
    <3>2. Proceeds(handler[h], r) /\ r.pc \notin TokenSteps
      BY <2>3, <3>1, ProceedFacts DEF Proceeds, Onward
    <3>. QED
      BY <2>2, <3>1, <3>2 DEF PlainStep
  <2>. QED
    BY <2>1, <2>2, <2>3, PlainEnd
<1>22. ASSUME NEW h \in Handler, Mint(h)
      PROVE  PlainStep \/ TokenNext
  <2>1. PICK r : Moves(h, r) /\ (r.pc = "idle" \/ (r.pc = "orphan" /\ r.id = handler[h].id))
    BY <1>22, MintMoves, IdleFacts
  <2>2. Proceeds(handler[h], r) /\ r.pc \notin TokenSteps
    BY <1>22, <2>1 DEF Proceeds, Mint, At, Onward, Quieter, TokenSteps
  <2>. QED
    BY <1>22, <2>1, <2>2 DEF Mint, PlainStep, history
<1>23. ASSUME NEW h \in Handler, MintFails(h)
      PROVE  PlainStep \/ TokenNext
  <2>1. PICK r : Moves(h, r) /\ (r.pc = "idle" \/ (r.pc = "orphan" /\ r.id = handler[h].id))
    BY <1>23, MintMoves, IdleFacts
  <2>2. Proceeds(handler[h], r) /\ r.pc \notin TokenSteps
    BY <1>23, <2>1 DEF Proceeds, MintFails, At, Onward, Quieter, TokenSteps
  <2>. QED
    BY <1>23, <2>1, <2>2 DEF MintFails, PlainStep, history
<1>24. ASSUME NEW h \in Handler, DeleteOrphan(h)
      PROVE  PlainStep \/ TokenNext
  <2>1. \A i \in Id : applied'[i] \in {applied[i], NoId}
    BY <1>24 DEF DeleteOrphan, TypeInv, TypeOK
  <2>. QED
    BY <1>24, <2>1, PlainEnd DEF DeleteOrphan
<1>25. ASSUME NEW h \in Handler, InsertItem(h)
      PROVE  PlainStep \/ TokenNext
  BY <1>25, PlainEnd DEF InsertItem, history
<1>26. ASSUME NEW h \in Handler, Crash(h)
      PROVE  PlainStep \/ TokenNext
  BY <1>26, PlainEnd DEF Crash, history
<1>. QED
  BY <1>1, <1>2, <1>3, <1>4, <1>5, <1>6, <1>7, <1>8, <1>9, <1>10, <1>11, <1>12, <1>13, <1>14, <1>15, <1>16, <1>17, <1>18, <1>19, <1>20, <1>21, <1>22, <1>23, <1>24, <1>25, <1>26 DEF Next

\* The steps that move a token, for the request that takes them.
LEMMA TokenProceeds ==
  ASSUME TypeInv, TokenNext
  PROVE  \E h \in Handler : \E r : Moves(h, r) /\ Proceeds(handler[h], r)
<1>1. ASSUME NEW h \in Handler, SignupImport(h)
      PROVE  \E r : Moves(h, r) /\ Proceeds(handler[h], r)
  <2>1. PICK r : Moves(h, r) /\ (r.pc = "idle" \/ (r.pc = "park" /\ r.id = handler[h].id))
    BY <1>1, SignupImports, IdleFacts DEF SameRequest
  <2>. QED
    BY <1>1, <2>1 DEF Proceeds, SignupImport, At, Onward, Quieter
<1>2. ASSUME NEW h \in Handler, StashExtras(h)
      PROVE  \E r : Moves(h, r) /\ Proceeds(handler[h], r)
  BY <1>2, FinishMoves, IdleQuieter DEF StashExtras, Proceeds
<1>3. ASSUME NEW h \in Handler, TakeRead(h)
      PROVE  \E r : Moves(h, r) /\ Proceeds(handler[h], r)
  <2>1. PICK r : Moves(h, r) /\ (r.pc = "idle" \/ (r.pc = "delete" /\ r.id = handler[h].id))
    BY <1>3, TakeMoves, IdleFacts
  <2>. QED
    BY <1>3, <2>1 DEF Proceeds, TakeRead, At, Onward, Quieter
<1>4. ASSUME NEW h \in Handler, TakeDelete(h)
      PROVE  \E r : Moves(h, r) /\ Proceeds(handler[h], r)
  <2>1. handler[h].pc = "delete" /\ \E r : Moves(h, r) /\ SameRequest(r, handler[h]) /\ r.pc = "apply"
    BY <1>4, GotoMoves DEF TakeDelete, At, Follows
  <2>. QED
    BY <2>1 DEF Proceeds, SameRequest, Onward
<1>5. ASSUME NEW h \in Handler, ApplyExtras(h)
      PROVE  \E r : Moves(h, r) /\ Proceeds(handler[h], r)
  <2>1. PICK r : Moves(h, r) /\ r.pc \in Quieter
    BY <1>5, ApplyMoves, IdleQuieter
  <2>. QED
    BY <2>1 DEF Proceeds
<1>. QED
  BY <1>1, <1>2, <1>3, <1>4, <1>5 DEF TokenNext

\* A request that removes a row, or is in a first login, was so before, unless
\* the person it has begun for has no row.
LEMMA FirstSteps ==
  ASSUME TypeInv, Next, NEW g \in Handler
  PROVE  /\ handler'[g].pc = "orphan" =>
              handler'[g].id = handler[g].id /\ handler[g].pc \in {"mint", "orphan"}
         /\ handler'[g].pc \in FirstLoginSteps =>
              \/ handler'[g].id = handler[g].id /\ handler[g].pc \in FirstLoginSteps
              \/ ~HasAccount(handler'[g].id)
<1>1. \/ handler' = handler
      \/ \E h \in Handler : \E r : Moves(h, r) /\ Proceeds(handler[h], r)
  BY PlainSteps, TokenProceeds DEF PlainStep
<1>2. ASSUME NEW r, Moves(g, r), Proceeds(handler[g], r)
      PROVE  /\ r.pc = "orphan" => r.id = handler[g].id /\ handler[g].pc \in {"mint", "orphan"}
             /\ r.pc \in FirstLoginSteps =>
                  \/ r.id = handler[g].id /\ handler[g].pc \in FirstLoginSteps
                  \/ ~HasAccount(r.id)
  BY <1>2 DEF Proceeds, Quieter, Onward, FirstLoginSteps, TakeSteps
<1>3. ASSUME NEW h \in Handler, NEW r, Moves(h, r)
      PROVE  handler'[g] = handler[g] \/ (h = g /\ handler'[g] = r)
  BY <1>3, MovesKeep
<1>. QED
  BY <1>1, <1>2, <1>3

\* An identity keeps its email; its number changes while no request of the person
\* is in flight.
LEMMA RealmKept ==
  ASSUME TypeInv, PersonInv, Next, NEW i \in Id, HasIdentity(i)
  PROVE  /\ HasIdentity(i)' /\ identity'[i].email = identity[i].email
         /\ \/ identity'[i].phone = identity[i].phone
            \/ HasAccount(i) /\ (\A h \in Handler : handler[h].id # i) /\ UNCHANGED <<account, handler>>
<1>1. HasIdentity(i)'
  BY RealmGrows
<1>2. CASE PeopleNext
  BY <1>1, <1>2, PeopleNextStay DEF PeopleStay
<1>3. ASSUME NEW j \in Id, NEW p \in Phone, ChangePhone(j, p)
      PROVE  /\ identity'[i].email = identity[i].email
             /\ \/ identity'[i].phone = identity[i].phone
                \/ /\ HasAccount(i) /\ (\A h \in Handler : handler[h].id # i)
                   /\ UNCHANGED <<account, handler>>
  <2>1. /\ identity'[j].email = identity[j].email /\ HasAccount(j)
        /\ \A k \in Id \ {j} : identity'[k] = identity[k]
        /\ UNCHANGED <<account, handler>> /\ \A h \in Handler : handler[h].id # j
    BY <1>3, ChangeWrites DEF ChangePhone, LoggedIn
  <2>. QED
    BY <2>1
<1>4. ASSUME NEW h \in Handler, SignupImport(h) \/ SignupReplyLost(h) \/ Mint(h) \/ MintFails(h)
      PROVE  identity'[i] = identity[i]
  <2>1. PICK j \in Id, f \in FormType :
          /\ j = handler[h].id /\ HasKey(f)
          /\ Import(j, f) \/ UNCHANGED identity
    BY <1>4, SignupImports, MintMoves
  <2>2. ~HasIdentity(j)
    BY <1>4, <2>1 DEF PersonInv, RequestInv, SignupImport, SignupReplyLost, Mint, MintFails, At,
                      OnboardSteps
  <2>. QED
    BY <2>1, <2>2, ImportWrites
<1>5. ASSUME NEW h \in Handler,
             \/ RefreshMirror(h) \/ InsertMirror(h) \/ Onboard(h) \/ DeleteOrphan(h)
             \/ \E j \in Id : LoginBegin(h, j)
      PROVE  identity' = identity
  BY <1>5 DEF RefreshMirror, InsertMirror, Onboard, DeleteOrphan, LoginBegin
<1>. QED
  BY <1>1, <1>2, <1>3, <1>4, <1>5 DEF Next, PeopleNext

\* A row is removed by the request that onboarded it alone.
LEMMA RowsKept ==
  ASSUME TypeInv, Next, NEW i \in Id, HasAccount(i),
         \A h \in Handler : handler[h].id = i => handler[h].pc # "orphan"
  PROVE  HasAccount(i)'
<1>1. CASE PeopleNext
  BY <1>1, PeopleNextStay DEF PeopleStay
<1>2. CASE UNCHANGED account
  BY <1>2 DEF HasAccount
<1>3. ASSUME NEW j \in Id, NEW a, Writes(j, a), HasKey(a)
      PROVE  HasAccount(i)'
  <2>1. account'[j] = a /\ \A k \in Id \ {j} : account'[k] = account[k]
    BY <1>3, WritesKeep
  <2>2. a # NoAccount
    BY <1>3, NoRowFacts DEF HasKey
  <2>. QED
    BY <2>1, <2>2 DEF HasAccount
<1>4. ASSUME NEW h \in Handler, RefreshMirror(h)
      PROVE  HasAccount(i)'
  BY <1>2, <1>3, <1>4, RefreshWrites DEF HasKey
<1>5. ASSUME NEW h \in Handler, InsertMirror(h) \/ Onboard(h)
      PROVE  HasAccount(i)'
  BY <1>2, <1>3, <1>5, InsertWrites, OnboardWrites
<1>6. ASSUME NEW h \in Handler, DeleteOrphan(h)
      PROVE  HasAccount(i)'
  <2>1. handler[h].pc = "orphan" /\ handler[h].id # i
    BY <1>6 DEF DeleteOrphan, At
  <2>2. PICK j \in Id : j = handler[h].id
    BY <1>6, DeleteWrites
  <2>. QED
    BY <1>2, <1>6, <2>1, <2>2, DeleteWrites, WritesKeep DEF DeleteOrphan, HasAccount
<1>7. ASSUME NEW h \in Handler, \/ SignupImport(h) \/ SignupReplyLost(h) \/ Mint(h) \/ MintFails(h)
                                \/ \E j \in Id : LoginBegin(h, j)
      PROVE  UNCHANGED account
  BY <1>7 DEF SignupImport, SignupReplyLost, Mint, MintFails, LoginBegin
<1>8. ASSUME NEW j \in Id, NEW p \in Phone, ChangePhone(j, p)
      PROVE  UNCHANGED account
  BY <1>8 DEF ChangePhone
<1>. QED
  BY <1>1, <1>2, <1>4, <1>5, <1>6, <1>7, <1>8 DEF Next, PeopleNext

\* The signup s has left its first login behind, or the account was onboarded.
Past(s) ==
  /\ HasAccount(s)
  /\ \A h \in Handler : handler[h].id = s => handler[h].pc \notin FirstLoginSteps

\* K are the identifiers that s signed up with.
SignedUp(s, K) ==
  /\ HasIdentity(s)
  /\ \A h \in Handler : handler[h].id = s => handler[h].pc \notin Removable
  /\ \A k \in K \cap Email : identity[s].email = k
  /\ \A k \in K \cap Phone : identity[s].phone = k \/ Past(s)
  /\ \A k, l \in K \cap Phone : k = l

LEMMA SignedUpKept ==
  ASSUME TypeInv, PersonInv, PersonInv', Next, NEW s \in Id, NEW K, SignedUp(s, K)
  PROVE  SignedUp(s, K)'
<1>1. /\ HasIdentity(s)' /\ identity'[s].email = identity[s].email
      /\ \/ identity'[s].phone = identity[s].phone
         \/ HasAccount(s) /\ (\A h \in Handler : handler[h].id # s) /\ UNCHANGED <<account, handler>>
  BY RealmKept DEF SignedUp
<1>2. ASSUME NEW g \in Handler, handler'[g].id = s
      PROVE  handler'[g].pc \notin Removable
  <2>1. handler'[g].pc \notin OnboardSteps
    BY <1>1, <1>2 DEF PersonInv, RequestInv, HasIdentity
  <2>2. handler'[g].pc # "orphan"
    <3>1. SUFFICES ASSUME handler'[g].pc = "orphan" PROVE FALSE
      OBVIOUS
    <3>2. handler[g].id = s /\ handler[g].pc \in Removable
      BY <1>2, <3>1, FirstSteps DEF Removable, OnboardSteps
    <3>. QED
      BY <3>2 DEF SignedUp
  <2>. QED
    BY <2>1, <2>2 DEF Removable
<1>3. Past(s) => Past(s)'
  <2>1. SUFFICES ASSUME Past(s) PROVE Past(s)'
    OBVIOUS
  <2>2. HasAccount(s)'
    BY <2>1, RowsKept DEF Past, SignedUp, Removable
  <2>3. ASSUME NEW g \in Handler, handler'[g].id = s
        PROVE  handler'[g].pc \notin FirstLoginSteps
    BY <2>1, <2>3, FirstSteps DEF Past
  <2>. QED
    BY <2>2, <2>3 DEF Past
<1>4. identity'[s].phone # identity[s].phone => Past(s)'
  BY <1>1 DEF Past, HasAccount
<1>. QED
  BY <1>1, <1>2, <1>3, <1>4 DEF SignedUp

Key == Email \cup Phone
Token == Stash \ {NoStash}

Used(s) ==
  \/ \E k \in Key : stash[k].id = s
  \/ \E h \in Handler : handler[h].stash.id = s
  \/ \E i \in Id : applied[i] = s

\* What lies in the stash.
StashKnown ==
  \A k \in Key, t \in Token : stash[k] = t =>
    /\ k \in t.keys /\ SignedUp(t.id, t.keys)
    /\ \A l \in Key : stash[l].id = t.id => stash[l] = t

\* What request h is about to park, or has taken.
ParkInv(h) ==
  \A s \in Id, f \in FormType :
    At(h, "park") /\ handler[h].id = s /\ handler[h].form = f =>
      SignedUp(s, KeysFor(f)) /\ ~Used(s)
CarryInv(h) ==
  \A t \in Token : handler[h].stash = t =>
    /\ At(h, "delete") =>
         /\ SignedUp(t.id, t.keys)
         /\ \E k \in t.keys : k \in KeysFor(handler[h].form)
         /\ \A k \in Key : stash[k].id = t.id => stash[k] = t
    /\ At(h, "apply") => \A k \in Key : stash[k].id # t.id
OneCarrier ==
  \A g, h \in Handler, t \in Token : handler[g].stash = t /\ handler[h].stash.id = t.id => g = h

\* What accounts have received.
AppliedGone ==
  \A i, s \in Id : applied[i] = s =>
    (\A k \in Key : stash[k].id # s) /\ (\A h \in Handler : handler[h].stash.id # s)

StashInv ==
  /\ StashKnown
  /\ \A h \in Handler : ParkInv(h) /\ CarryInv(h)
  /\ OneCarrier /\ AppliedGone /\ ExtrasUsedOnce
  /\ \A s \in Id : Used(s) => HasIdentity(s)

LEMMA TokenFacts ==
  /\ NoStash.id = NoId /\ NoId \notin Id
  /\ \A t \in Stash : t \in Token \/ t = NoStash
  /\ \A t \in Token : t.id \in Id /\ t.keys \subseteq Key /\ t # NoStash
  BY AccountAssumption DEF NoStash, Token, Stash, Key

LEMMA StashTypes ==
  ASSUME TypeInv
  PROVE  /\ \A k \in Key : stash[k] \in Stash
         /\ \A h \in Handler : /\ handler[h].stash \in Stash /\ handler[h].form \in FormType
                               /\ handler[h].pc \notin {"delete", "apply"} => handler[h].stash = NoStash
         /\ \A i \in Id : applied[i] \in Id \cup {NoId}
  BY HandlerFacts DEF TypeInv, TypeOK, RecordInv, Key

\* Nothing new is used by a step that moves no token.
LEMMA PlainStash ==
  ASSUME TypeInv, TypeInv', PersonInv, PersonInv', StashInv, Next, PlainStep
  PROVE  StashInv'
<1>1. /\ stash' = stash
      /\ \A i \in Id : applied'[i] \in {applied[i], NoId}
      /\ \A g \in Handler : handler'[g] = handler[g] \/ handler'[g].pc \notin TokenSteps
  BY MovesKeep DEF PlainStep
<1>2. /\ \A g \in Handler : /\ handler'[g] = handler[g] \/ handler'[g].stash = NoStash
                            /\ handler'[g].pc \in TokenSteps => handler'[g] = handler[g]
  BY <1>1 DEF TypeInv, RecordInv, TokenSteps
<1>3. ASSUME NEW s \in Id, Used(s)'
      PROVE  Used(s)
  BY <1>1, <1>2, <1>3, TokenFacts DEF Used
<1>4. \A s \in Id : Used(s)' => HasIdentity(s)'
  BY <1>3, RealmGrows DEF StashInv
<1>5. \A t \in Token : SignedUp(t.id, t.keys) => SignedUp(t.id, t.keys)'
  BY TokenFacts, SignedUpKept
<1>6. StashKnown'
  BY <1>1, <1>5 DEF StashInv, StashKnown
<1>7. ASSUME NEW h \in Handler
      PROVE  ParkInv(h)'
  <2>1. SUFFICES ASSUME NEW s \in Id, NEW f \in FormType, At(h, "park")',
                        handler'[h].id = s, handler'[h].form = f
                 PROVE  SignedUp(s, KeysFor(f))' /\ ~Used(s)'
    BY DEF ParkInv
  <2>2. SignedUp(s, KeysFor(f)) /\ ~Used(s)
    BY <1>2, <2>1 DEF StashInv, ParkInv, At, TokenSteps
  <2>. QED
    BY <1>3, <2>2, SignedUpKept
<1>8. ASSUME NEW h \in Handler
      PROVE  CarryInv(h)'
  BY <1>1, <1>2, <1>5 DEF StashInv, CarryInv, At, TokenSteps
<1>9. OneCarrier'
  BY <1>2, TokenFacts DEF StashInv, OneCarrier
<1>10. AppliedGone' /\ ExtrasUsedOnce'
  BY <1>1, <1>2, TokenFacts DEF StashInv, AppliedGone, ExtrasUsedOnce
<1>. QED
  BY <1>4, <1>6, <1>7, <1>8, <1>9, <1>10 DEF StashInv

\* A signup that has just created its identity is about to park.
LEMMA ImportStash ==
  ASSUME TypeInv, TypeInv', PersonInv, PersonInv', StashInv, Next, NEW h \in Handler, SignupImport(h)
  PROVE  StashInv'
<1>1. /\ stash' = stash /\ applied' = applied /\ handler[h].stash = NoStash
      /\ handler[h].pc = "import"
      /\ \/ /\ Import(handler[h].id, handler[h].form)
            /\ \/ Moves(h, Idle)
               \/ \E r : Moves(h, r) /\ r.pc = "park" /\ SameRequest(r, handler[h])
         \/ Moves(h, Idle)
  BY SignupImports DEF SignupImport, history, At
<1>2. CASE Moves(h, Idle)
  <2>1. PlainStep
    BY <1>1, <1>2, ProceedFacts DEF PlainStep, Proceeds
  <2>. QED
    BY <2>1, PlainStash
<1>3. ASSUME Import(handler[h].id, handler[h].form),
             NEW r, Moves(h, r), r.pc = "park", SameRequest(r, handler[h])
      PROVE  StashInv'
  <2>1. PICK i \in Id, f \in FormType : i = handler[h].id /\ f = handler[h].form /\ HasKey(f)
    BY SignupImports
  <2>2. /\ handler'[h] = r /\ \A g \in Handler \ {h} : handler'[g] = handler[g]
    BY <1>3, MovesKeep
  <2>3. /\ r.id = i /\ r.form = f /\ r.stash = NoStash
    BY <1>1, <1>3, <2>1 DEF SameRequest
  <2>4. ~HasIdentity(i)
    BY <1>1, <2>1 DEF PersonInv, RequestInv
  <2>5. \A s \in Id : Used(s)' => Used(s)
    BY <1>1, <2>2, <2>3 DEF Used
  <2>6. ~Used(i) /\ ~Used(i)'
    BY <2>4, <2>5 DEF StashInv
  <2>7. SignedUp(i, KeysFor(f))'
    <3>1. identity'[i].email = f.email /\ identity'[i].phone = f.phone /\ identity'[i] # NoIdentity
      BY <1>3, <2>1, ImportWrites
    <3>2. \A k \in KeysFor(f) : /\ k \in Email => k = f.email
                                /\ k \in Phone => k = f.phone
      BY AccountAssumption DEF KeysFor, FormType
    <3>3. ASSUME NEW g \in Handler, handler'[g].id = i
          PROVE  handler'[g].pc \notin Removable
      <4>1. CASE g = h
        BY <1>3, <2>2, <4>1 DEF Removable, OnboardSteps
      <4>2. CASE g # h
        <5>1. Apart(handler[h], handler[g])
          BY <4>2 DEF PersonInv
        <5>2. handler[h].pc \in Beginning
          BY <1>1 DEF Beginning, SignupSteps
        <5>. QED
          BY <2>1, <2>2, <3>3, <4>2, <5>1, <5>2 DEF Apart, Beginning
      <4>. QED
        BY <4>1, <4>2
    <3>. QED
      BY <3>1, <3>2, <3>3 DEF SignedUp, HasIdentity
  <2>8. \A s \in Id : Used(s)' => HasIdentity(s)'
    BY <2>5, RealmGrows DEF StashInv
  <2>9. \A t \in Token : SignedUp(t.id, t.keys) => SignedUp(t.id, t.keys)'
    BY TokenFacts, SignedUpKept
  <2>10. StashKnown'
    BY <1>1, <2>9 DEF StashInv, StashKnown
  <2>11. ASSUME NEW g \in Handler
         PROVE  ParkInv(g)'
    <3>1. SUFFICES ASSUME NEW s \in Id, NEW q \in FormType, At(g, "park")',
                          handler'[g].id = s, handler'[g].form = q
                   PROVE  SignedUp(s, KeysFor(q))' /\ ~Used(s)'
      BY DEF ParkInv
    <3>2. CASE g = h
      BY <2>2, <2>3, <2>6, <2>7, <3>1, <3>2
    <3>3. CASE g # h
      <4>1. SignedUp(s, KeysFor(q)) /\ ~Used(s)
        BY <2>2, <3>1, <3>3 DEF StashInv, ParkInv, At
      <4>. QED
        BY <2>5, <4>1, SignedUpKept
    <3>. QED
      BY <3>2, <3>3
  <2>12. ASSUME NEW g \in Handler
         PROVE  CarryInv(g)'
    BY <1>1, <1>3, <2>2, <2>3, <2>9, TokenFacts DEF StashInv, CarryInv, At
  <2>13. OneCarrier'
    BY <2>2, <2>3, TokenFacts DEF StashInv, OneCarrier
  <2>14. AppliedGone' /\ ExtrasUsedOnce'
    BY <1>1, <2>2, <2>3, TokenFacts DEF StashInv, AppliedGone, ExtrasUsedOnce
  <2>. QED
    BY <2>8, <2>10, <2>11, <2>12, <2>13, <2>14 DEF StashInv
<1>. QED
  BY <1>1, <1>2, <1>3

LEMMA ParkStash ==
  ASSUME TypeInv, TypeInv', PersonInv, PersonInv', StashInv, Next, NEW h \in Handler, StashExtras(h)
  PROVE  StashInv'
<1>1. PICK t \in Stash :
        /\ t # NoStash /\ t.id = handler[h].id /\ t.keys = KeysFor(handler[h].form)
        /\ handler[h].id \in Id
        /\ stash' = [k \in Key |-> IF k \in t.keys THEN t ELSE stash[k]]
  BY ParkWrites DEF Key
<1>2. /\ applied' = applied /\ handler[h].pc = "park" /\ Moves(h, Idle)
  BY FinishMoves DEF StashExtras, history, At
<1>3. /\ handler'[h] = Idle /\ Idle.stash = NoStash /\ Idle.pc = "idle"
      /\ \A g \in Handler \ {h} : handler'[g] = handler[g]
  BY <1>2, MovesKeep, IdleFacts
<1>4. t \in Token /\ \A k \in Key : stash'[k] = IF k \in t.keys THEN t ELSE stash[k]
  BY <1>1 DEF Token
<1>5. SignedUp(t.id, t.keys) /\ ~Used(t.id)
  BY <1>1, <1>2, StashTypes DEF StashInv, ParkInv, At
<1>6. /\ \A k \in Key : stash[k].id # t.id
      /\ \A g \in Handler : handler[g].stash.id # t.id
      /\ \A i \in Id : applied[i] # t.id
  BY <1>5 DEF Used
<1>7. \A s \in Id : Used(s)' => Used(s) \/ s = t.id
  BY <1>2, <1>3, <1>4, TokenFacts DEF Used
<1>8. \A s \in Id : Used(s)' => HasIdentity(s)'
  BY <1>5, <1>7, RealmGrows DEF StashInv, SignedUp
<1>9. \A u \in Token : SignedUp(u.id, u.keys) => SignedUp(u.id, u.keys)'
  BY TokenFacts, SignedUpKept
<1>10. StashKnown'
  BY <1>4, <1>5, <1>6, <1>9, TokenFacts DEF StashInv, StashKnown
<1>11. ASSUME NEW g \in Handler
       PROVE  ParkInv(g)'
  <2>1. SUFFICES ASSUME NEW s \in Id, NEW q \in FormType, At(g, "park")',
                        handler'[g].id = s, handler'[g].form = q
                 PROVE  SignedUp(s, KeysFor(q))' /\ ~Used(s)'
    BY DEF ParkInv
  <2>2. g # h /\ handler'[g] = handler[g]
    BY <1>3, <2>1 DEF At
  <2>3. SignedUp(s, KeysFor(q)) /\ ~Used(s)
    BY <2>1, <2>2 DEF StashInv, ParkInv, At
  <2>4. s # t.id
    <3>1. Apart(handler[h], handler[g])
      BY <2>2 DEF PersonInv
    <3>. QED
      BY <1>1, <1>2, <2>1, <2>2, <3>1 DEF Apart, Beginning, SignupSteps, At
  <2>. QED
    BY <1>7, <2>3, <2>4, SignedUpKept
<1>12. ASSUME NEW g \in Handler
       PROVE  CarryInv(g)'
  <2>1. SUFFICES ASSUME NEW u \in Token, handler'[g].stash = u, g # h, handler'[g] = handler[g],
                        u.id # t.id
                 PROVE  /\ At(g, "delete")' =>
                             /\ SignedUp(u.id, u.keys)'
                             /\ \E k \in u.keys : k \in KeysFor(handler[g].form)
                             /\ \A k \in Key : stash'[k].id = u.id => stash'[k] = u
                        /\ At(g, "apply")' => \A k \in Key : stash'[k].id # u.id
    BY <1>3, <1>6, TokenFacts DEF CarryInv
  <2>. QED
    BY <1>4, <1>9, <2>1 DEF StashInv, CarryInv, At
<1>13. OneCarrier'
  BY <1>3, TokenFacts DEF StashInv, OneCarrier
<1>14. AppliedGone' /\ ExtrasUsedOnce'
  BY <1>2, <1>3, <1>4, <1>6, TokenFacts DEF StashInv, AppliedGone, ExtrasUsedOnce
<1>. QED
  BY <1>8, <1>10, <1>11, <1>12, <1>13, <1>14 DEF StashInv

\* Two requests that read, and are about to delete, what one signup has parked,
\* are requests of one person.
LEMMA OneTaker ==
  ASSUME TypeInv, PersonInv, StashInv, NEW h \in Handler, NEW g \in Handler \ {h},
         At(h, "take"), At(g, "delete"),
         NEW k \in KeysFor(handler[h].form), NEW t \in Token, stash[k] = t,
         handler[g].stash.id = t.id
  PROVE  FALSE
<1>1. PICK i \in Id, j \in Id, e \in FormType, f \in FormType :
        i = handler[h].id /\ j = handler[g].id /\ e = handler[h].form /\ f = handler[g].form
  BY HandlerFacts DEF At
<1>2. k \in Key
  BY <1>1, AccountAssumption DEF KeysFor, FormType, Key
<1>3. handler[g].stash \in Token
  BY StashTypes, TokenFacts
<1>4. stash[k] = handler[g].stash
  BY <1>2, <1>3 DEF StashInv, CarryInv
<1>5. /\ k \in t.keys /\ SignedUp(t.id, t.keys)
      /\ \E l \in t.keys : l \in KeysFor(f)
  BY <1>1, <1>2, <1>3, <1>4 DEF StashInv, StashKnown, CarryInv
<1>6. PICK l \in t.keys : l \in KeysFor(f)
  BY <1>5
<1>7. /\ e.email = identity[i].email /\ e.phone = identity[i].phone
      /\ e.email = account[i].email /\ e.phone = account[i].phone
      /\ f.email = identity[j].email /\ f.phone = identity[j].phone
      /\ f.email = account[j].email /\ f.phone = account[j].phone
  BY <1>1 DEF PersonInv, RequestInv, At, LoginSteps, FirstLoginSteps, TakeSteps
<1>8. i # j
  <2>1. Apart(handler[g], handler[h]) /\ handler[g].pc \in TakeSteps /\ handler[h].pc \in TakeSteps
    BY DEF PersonInv, At, TakeSteps
  <2>. QED
    BY <1>1, <2>1 DEF Apart
<1>9. PICK u \in Id : u = t.id
  BY TokenFacts
<1>10. ~Past(i) /\ ~Past(j)
  BY <1>1 DEF Past, At, FirstLoginSteps, TakeSteps
<1>11. /\ k \in Email => k = e.email /\ identity[u].email = k
       /\ l \in Email => l = f.email /\ identity[u].email = l
       /\ k \in Phone => k = e.phone /\ (identity[u].phone = k \/ Past(u))
       /\ l \in Phone => l = f.phone /\ (identity[u].phone = l \/ Past(u))
       /\ k \in Phone /\ l \in Phone => k = l
       /\ k \in Email \cup Phone /\ l \in Email \cup Phone
  <2>1. \A q \in FormType : \A m \in KeysFor(q) :
          /\ m \in Email => m = q.email
          /\ m \in Phone => m = q.phone
          /\ m \in Email \cup Phone
    BY AccountAssumption DEF KeysFor, FormType
  <2>2. k \in KeysFor(e)
    BY <1>1
  <2>. QED
    BY <1>1, <1>5, <1>6, <1>9, <2>1, <2>2 DEF SignedUp
<1>12. \A m \in Email : m # NoEmail
  BY AccountAssumption
<1>13. \A m \in Phone : m # NoPhone
  BY AccountAssumption
<1>14. EmailsOnce /\ RowsOnce
  BY DEF PersonInv
<1>15. k \in Email => u = i
  BY <1>7, <1>11, <1>12, <1>14 DEF EmailsOnce
<1>16. l \in Email => u = j
  BY <1>7, <1>11, <1>12, <1>14 DEF EmailsOnce
<1>17. account[i].phone # NoPhone => account[i].phone # account[j].phone
  BY <1>8, <1>14 DEF RowsOnce, Matches
<1>18. CASE k \in Email /\ l \in Email
  BY <1>8, <1>15, <1>16, <1>18
<1>19. CASE k \in Email /\ l \in Phone
  BY <1>7, <1>10, <1>11, <1>13, <1>15, <1>17, <1>19
<1>20. CASE k \in Phone /\ l \in Email
  BY <1>7, <1>10, <1>11, <1>13, <1>16, <1>17, <1>20
<1>21. CASE k \in Phone /\ l \in Phone
  BY <1>7, <1>11, <1>13, <1>17, <1>21
<1>. QED
  BY <1>11, <1>18, <1>19, <1>20, <1>21

LEMMA TakeStash ==
  ASSUME TypeInv, TypeInv', PersonInv, PersonInv', StashInv, Next, NEW h \in Handler, TakeRead(h)
  PROVE  StashInv'
<1>1. stash' = stash /\ applied' = applied /\ At(h, "take")
  BY DEF TakeRead, history
<1>2. CASE Moves(h, Idle)
  <2>1. PlainStep
    BY <1>1, <1>2, ProceedFacts DEF PlainStep, Proceeds
  <2>. QED
    BY <2>1, PlainStash
<1>3. ASSUME NEW r, Moves(h, r), r.pc = "delete", r.form = handler[h].form,
             r.stash # NoStash, r.stash = Parked(handler[h].form)
      PROVE  StashInv'
  <2>1. PICK f \in FormType : f = handler[h].form
    BY HandlerFacts
  <2>2. PICK k \in KeysFor(f) : Parked(f) = stash[k]
    BY <1>3, <2>1, StashFacts
  <2>3. k \in Key
    BY <2>1, AccountAssumption DEF KeysFor, FormType, Key
  <2>4. PICK t \in Token : t = stash[k]
    BY <1>3, <2>1, <2>2, <2>3, StashTypes, TokenFacts
  <2>5. /\ handler'[h] = r /\ r.stash = t /\ \A g \in Handler \ {h} : handler'[g] = handler[g]
    BY <1>3, <2>1, <2>2, <2>4, MovesKeep
  <2>6. /\ k \in t.keys /\ SignedUp(t.id, t.keys) /\ t.id \in Id
        /\ \A l \in Key : stash[l].id = t.id => stash[l] = t
    BY <2>3, <2>4, TokenFacts DEF StashInv, StashKnown
  <2>7. ASSUME NEW g \in Handler \ {h}
        PROVE  handler[g].stash.id # t.id
    <3>1. CASE At(g, "delete")
      BY <1>1, <2>1, <2>2, <2>4, <3>1, OneTaker
    <3>2. CASE At(g, "apply")
      <4>1. handler[g].stash \in Token
        BY StashTypes, TokenFacts, <3>2 DEF TypeInv, RecordInv, At
      <4>. QED
        BY <2>3, <2>4, <3>2, <4>1 DEF StashInv, CarryInv
    <3>3. CASE handler[g].pc \notin {"delete", "apply"}
      BY <2>6, <3>3, StashTypes, TokenFacts
    <3>. QED
      BY <3>1, <3>2, <3>3 DEF At
  <2>8. \A s \in Id : Used(s)' => Used(s)
    BY <1>1, <2>3, <2>4, <2>5 DEF Used
  <2>9. \A u \in Token : SignedUp(u.id, u.keys) => SignedUp(u.id, u.keys)'
    BY TokenFacts, SignedUpKept
  <2>10. StashKnown'
    BY <1>1, <2>9 DEF StashInv, StashKnown
  <2>11. ASSUME NEW g \in Handler
         PROVE  ParkInv(g)'
    <3>1. SUFFICES ASSUME NEW s \in Id, NEW q \in FormType, At(g, "park")',
                          handler'[g].id = s, handler'[g].form = q
                   PROVE  SignedUp(s, KeysFor(q))' /\ ~Used(s)'
      BY DEF ParkInv
    <3>2. g # h /\ handler'[g] = handler[g]
      BY <1>3, <2>5, <3>1 DEF At
    <3>3. SignedUp(s, KeysFor(q)) /\ ~Used(s)
      BY <3>1, <3>2 DEF StashInv, ParkInv, At
    <3>. QED
      BY <2>8, <3>3, SignedUpKept
  <2>12. CarryInv(h)'
    BY <1>1, <1>3, <2>1, <2>2, <2>5, <2>6, <2>9 DEF CarryInv, At
  <2>13. ASSUME NEW g \in Handler \ {h}
         PROVE  CarryInv(g)'
    BY <1>1, <2>5, <2>9 DEF StashInv, CarryInv, At
  <2>14. OneCarrier'
    BY <2>5, <2>7 DEF StashInv, OneCarrier
  <2>15. AppliedGone' /\ ExtrasUsedOnce'
    BY <1>1, <2>3, <2>4, <2>5 DEF StashInv, AppliedGone, ExtrasUsedOnce
  <2>16. \A s \in Id : Used(s)' => HasIdentity(s)'
    BY <2>8, RealmGrows DEF StashInv
  <2>. QED
    BY <2>10, <2>11, <2>12, <2>13, <2>14, <2>15, <2>16 DEF StashInv
<1>. QED
  BY <1>2, <1>3, TakeMoves

LEMMA DeleteStash ==
  ASSUME TypeInv, TypeInv', PersonInv, PersonInv', StashInv, Next, NEW h \in Handler, TakeDelete(h)
  PROVE  StashInv'
<1>1. applied' = applied /\ At(h, "delete")
  BY DEF TakeDelete, history
<1>2. PICK r : Moves(h, r) /\ r.pc = "apply" /\ r.stash = handler[h].stash
  BY <1>1, GotoMoves DEF TakeDelete, At, Follows, SameRequest
<1>3. /\ handler'[h] = r /\ \A g \in Handler \ {h} : handler'[g] = handler[g]
  BY <1>2, MovesKeep
<1>4. PICK t \in Token : t = handler[h].stash
  BY <1>1, StashTypes, TokenFacts DEF TypeInv, RecordInv, At
<1>5. /\ \A k \in Key : stash'[k] \in {stash[k], NoStash}
      /\ \A k \in Key : k \in t.keys => stash'[k] = NoStash
  BY <1>4 DEF TakeDelete, KeysToDelete, TypeInv, TypeOK, Key
<1>6. \A k \in Key : stash[k].id = t.id => k \in t.keys
  BY <1>1, <1>4 DEF StashInv, StashKnown, CarryInv
<1>7. \A k \in Key : stash'[k].id # t.id
  BY <1>5, <1>6, TokenFacts
<1>8. \A s \in Id : Used(s)' => Used(s)
  BY <1>1, <1>2, <1>3, <1>5, TokenFacts DEF Used
<1>9. \A s \in Id : Used(s)' => HasIdentity(s)'
  BY <1>8, RealmGrows DEF StashInv
<1>10. \A u \in Token : SignedUp(u.id, u.keys) => SignedUp(u.id, u.keys)'
  BY TokenFacts, SignedUpKept
<1>11. StashKnown'
  BY <1>5, <1>10, TokenFacts DEF StashInv, StashKnown
<1>12. ASSUME NEW g \in Handler
       PROVE  ParkInv(g)'
  <2>1. SUFFICES ASSUME NEW s \in Id, NEW q \in FormType, At(g, "park")',
                        handler'[g].id = s, handler'[g].form = q
                 PROVE  SignedUp(s, KeysFor(q))' /\ ~Used(s)'
    BY DEF ParkInv
  <2>2. g # h /\ handler'[g] = handler[g]
    BY <1>2, <1>3, <2>1 DEF At
  <2>3. SignedUp(s, KeysFor(q)) /\ ~Used(s)
    BY <2>1, <2>2 DEF StashInv, ParkInv, At
  <2>. QED
    BY <1>8, <2>3, SignedUpKept
<1>13. CarryInv(h)'
  BY <1>2, <1>3, <1>4, <1>7 DEF CarryInv, At
<1>14. ASSUME NEW g \in Handler \ {h}
       PROVE  CarryInv(g)'
  BY <1>3, <1>5, <1>10, TokenFacts DEF StashInv, CarryInv, At
<1>15. OneCarrier'
  BY <1>2, <1>3 DEF StashInv, OneCarrier
<1>16. AppliedGone' /\ ExtrasUsedOnce'
  BY <1>1, <1>2, <1>3, <1>5, TokenFacts DEF StashInv, AppliedGone, ExtrasUsedOnce
<1>. QED
  BY <1>9, <1>11, <1>12, <1>13, <1>14, <1>15, <1>16 DEF StashInv

LEMMA ApplyStash ==
  ASSUME TypeInv, TypeInv', PersonInv, PersonInv', StashInv, Next, NEW h \in Handler, ApplyExtras(h)
  PROVE  StashInv'
<1>1. stash' = stash /\ At(h, "apply")
  BY DEF ApplyExtras
<1>2. PICK r : Moves(h, r) /\ r.pc = "tag" /\ r.stash = NoStash
  BY ApplyMoves
<1>3. /\ handler'[h] = r /\ \A g \in Handler \ {h} : handler'[g] = handler[g]
  BY <1>2, MovesKeep
<1>4. PICK t \in Token : t = handler[h].stash
  BY <1>1, StashTypes, TokenFacts DEF TypeInv, RecordInv, At
<1>5. PICK i \in Id : i = handler[h].id
  BY ApplyMoves
<1>6. applied' = [applied EXCEPT ![i] = t.id] /\ t.id \in Id
  BY <1>4, <1>5, TokenFacts DEF ApplyExtras
<1>7. applied'[i] = t.id /\ \A j \in Id \ {i} : applied'[j] = applied[j]
  BY <1>6 DEF TypeInv, TypeOK
<1>8. /\ \A k \in Key : stash[k].id # t.id
      /\ \A g \in Handler \ {h} : handler[g].stash.id # t.id
      /\ \A j \in Id : applied[j] # t.id
  BY <1>1, <1>4, <1>6 DEF StashInv, CarryInv, OneCarrier, AppliedGone
<1>9. \A s \in Id : Used(s)' => Used(s)
  BY <1>1, <1>2, <1>3, <1>4, <1>7, TokenFacts DEF Used
<1>10. \A s \in Id : Used(s)' => HasIdentity(s)'
  BY <1>9, RealmGrows DEF StashInv
<1>11. \A u \in Token : SignedUp(u.id, u.keys) => SignedUp(u.id, u.keys)'
  BY TokenFacts, SignedUpKept
<1>12. StashKnown'
  BY <1>1, <1>11 DEF StashInv, StashKnown
<1>13. ASSUME NEW g \in Handler
       PROVE  ParkInv(g)'
  <2>1. SUFFICES ASSUME NEW s \in Id, NEW q \in FormType, At(g, "park")',
                        handler'[g].id = s, handler'[g].form = q
                 PROVE  SignedUp(s, KeysFor(q))' /\ ~Used(s)'
    BY DEF ParkInv
  <2>2. g # h /\ handler'[g] = handler[g]
    BY <1>2, <1>3, <2>1 DEF At
  <2>3. SignedUp(s, KeysFor(q)) /\ ~Used(s)
    BY <2>1, <2>2 DEF StashInv, ParkInv, At
  <2>. QED
    BY <1>9, <2>3, SignedUpKept
<1>14. ASSUME NEW g \in Handler
       PROVE  CarryInv(g)'
  <2>1. CASE g = h
    BY <1>2, <1>3, <2>1, TokenFacts DEF CarryInv
  <2>2. CASE g # h
    BY <1>1, <1>3, <1>11, <2>2 DEF StashInv, CarryInv, At
  <2>. QED
    BY <2>1, <2>2
<1>15. OneCarrier'
  BY <1>2, <1>3, TokenFacts DEF StashInv, OneCarrier
<1>16. AppliedGone'
  <2>1. ASSUME NEW j \in Id, NEW s \in Id, applied'[j] = s
        PROVE  (\A k \in Key : stash'[k].id # s) /\ (\A g \in Handler : handler'[g].stash.id # s)
    BY <1>1, <1>2, <1>3, <1>7, <1>8, <2>1, TokenFacts DEF StashInv, AppliedGone
  <2>. QED
    BY <2>1 DEF AppliedGone
<1>17. ExtrasUsedOnce'
  <2>1. ASSUME NEW j \in Id, NEW k \in Id, applied'[j] # NoId, applied'[j] = applied'[k]
        PROVE  j = k
    BY <1>7, <1>8, <2>1 DEF StashInv, ExtrasUsedOnce
  <2>. QED
    BY <2>1 DEF ExtrasUsedOnce
<1>. QED
  BY <1>10, <1>12, <1>13, <1>14, <1>15, <1>16, <1>17 DEF StashInv

LEMMA StashSteps ==
  ASSUME TypeInv, TypeInv', PersonInv, PersonInv', StashInv, Next
  PROVE  StashInv'
<1>1. ASSUME NEW h \in Handler, SignupImport(h) \/ StashExtras(h) \/ TakeRead(h)
      PROVE  StashInv'
  BY <1>1, ImportStash, ParkStash, TakeStash
<1>2. ASSUME NEW h \in Handler, TakeDelete(h) \/ ApplyExtras(h)
      PROVE  StashInv'
  BY <1>2, DeleteStash, ApplyStash
<1>. QED
  BY <1>1, <1>2, PlainSteps, PlainStash DEF TokenNext

LEMMA InitStash ==
  ASSUME Init
  PROVE  StashInv
<1>1. /\ \A k \in Key : stash[k] = NoStash
      /\ \A h \in Handler : handler[h].stash = NoStash /\ handler[h].pc = "idle"
      /\ \A i \in Id : applied[i] = NoId
  BY IdleFacts DEF Init, Key
<1>. QED
  BY <1>1, TokenFacts DEF StashInv, StashKnown, ParkInv, CarryInv, OneCarrier, AppliedGone,
                          ExtrasUsedOnce, Used, At

LEMMA StashStutters ==
  ASSUME StashInv, UNCHANGED vars
  PROVE  StashInv'
  BY DEF StashInv, StashKnown, ParkInv, CarryInv, OneCarrier, AppliedGone, ExtrasUsedOnce, Used, At,
         SignedUp, Past, HasIdentity, HasAccount, vars

\* What one signup has parked reaches one account, although it lies under two
\* identifiers, a number can pass from one person to another while it does, and
\* reading it and deleting it are two commands: takeSignupExtras of a first login
\* beside every other request.
THEOREM ExtrasTheorem == Spec => []ExtrasUsedOnce
<1>1. Init => StashInv
  BY InitStash
<1>2. /\ TypeInv /\ TypeInv' /\ PersonInv /\ PersonInv' /\ StashInv /\ [Next]_vars
      => StashInv'
  BY StashSteps, StashStutters
<1>3. StashInv => ExtrasUsedOnce
  BY DEF StashInv
<1>. QED
  BY <1>1, <1>2, <1>3, TypesInvariant, PersonInvariant, PTL DEF Spec
=============================================================================
