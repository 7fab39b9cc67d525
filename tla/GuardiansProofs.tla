-------------------------- MODULE GuardiansProofs --------------------------
(***************************************************************************)
(* What Guardians promises, for any number of wards, contacts, codes,      *)
(* handlers and counters, whichever entries expire and requests die.       *)
(***************************************************************************)
EXTENDS Guardians, FiniteSetTheorems, TLAPS

-----------------------------------------------------------------------------
(* Types.  What a handler knows at each of its steps has to be said first: *)
(* the ward, a purpose codes are issued for, the contact and the code.     *)

\* Steps on behalf of a scope that codes are issued for.
ScopeSteps == {"write", "read", "count", "expire", "issue", "compare", "consent", "verified",
               "flip", "token", "effect", "finalize"}

\* Steps that go to a contact, and steps that act upon a code.
ContactSteps == {"write", "lock", "upsert", "issue", "flip"}
CodeSteps == {"compare", "consent", "flip", "token", "effect", "finalize"}
CountSteps == {"count", "expire"}

KnowsContact(r) == r.contact \in Contact
KnowsContactForSignup(r) == r.purpose = "signup" => r.contact \in Contact

RecordInv(r) ==
  /\ r.pc # "idle" => r.ward \in Ward
  /\ r.pc \in ScopeSteps => r.purpose \in Asks[r.ward]
  /\ r.pc \in {"lock", "upsert"} => r.purpose = "signup" \/ r.purpose \in Asks[r.ward]
  /\ r.pc \in ContactSteps => KnowsContact(r)
  /\ r.pc \in CountSteps =>
       /\ r.key \in Key
       /\ r.key[1] # "verify" => KnowsContact(r)
       /\ r.key[1] = "verify" => r.code \in Code /\ KnowsContactForSignup(r)
  /\ r.pc = "compare" => KnowsContactForSignup(r)
  /\ r.pc \in CodeSteps => r.code \in Code
  /\ r.pc \in {"token", "finalize"} => r.purpose = "create"
  /\ r.pc \in {"consent", "verified"} => r.purpose = "guardian"
  /\ r.pc \in {"flip", "hook"} => r.purpose = "signup"

TypeInv ==
  /\ TypeOK
  /\ \A h \in Handler : RecordInv(handler[h])
  /\ \A h \in Handler : At(h, "read") => guardian[handler[h].ward] # NoRow
  /\ \A w \in Ward : token[w] # NoCode => "create" \in Asks[w]

LEMMA ScopeFacts ==
  ASSUME NEW w \in Ward, NEW p \in Asks[w]
  PROVE  ScopeOf(w, p) \in Scope /\ p \in Purpose
  BY GuardianAssumption DEF ScopeOf, Scope

LEMMA KeyFacts ==
  /\ \A k \in Key : k[1] \in {"send", "verify", "contact"} /\ Limit(k) \in Nat \ {0}
  /\ \A s \in Scope : <<"send", s>> \in Key /\ <<"verify", s>> \in Key
  /\ \A c \in Contact : <<"contact", c>> \in Key
<1>1. /\ \A s \in Scope : <<"send", s>> \in Key /\ <<"verify", s>> \in Key
      /\ \A c \in Contact : <<"contact", c>> \in Key
  BY DEF Key
<1>2. \A k \in Key : k[1] \in {"send", "verify", "contact"}
  BY DEF Key
<1>3. \A k \in Key : Limit(k) \in Nat \ {0}
  BY <1>2, GuardianAssumption DEF Limit
<1>. QED
  BY <1>1, <1>2, <1>3

\* A handler about to be counted knows what it needs afterwards.
LEMMA CountingFacts ==
  ASSUME NEW r \in HandlerState, r.ward \in Ward, r.purpose \in Asks[r.ward]
  PROVE  /\ r.contact \in Contact =>
              /\ CountContact(r) \in HandlerState /\ RecordInv(CountContact(r))
              /\ CountContact(r).pc \in {"count", "issue"}
              /\ CountSend(r) \in HandlerState /\ RecordInv(CountSend(r))
              /\ CountSend(r).pc \in {"count", "issue"}
         /\ r.code \in Code /\ KnowsContactForSignup(r) =>
              /\ CountVerify(r) \in HandlerState /\ RecordInv(CountVerify(r))
              /\ CountVerify(r).pc \in {"count", "compare"}
<1>1. ScopeOf(r.ward, r.purpose) \in Scope
  BY ScopeFacts
<1>2. ASSUME NEW k \in Key
      PROVE  /\ Counting(r, k) \in HandlerState
             /\ Counting(r, k).pc = "count" /\ Counting(r, k).key = k
             /\ Counting(r, k).ward = r.ward /\ Counting(r, k).purpose = r.purpose
             /\ Counting(r, k).contact = r.contact /\ Counting(r, k).code = r.code
  BY DEF Counting, HandlerState
<1>3. ASSUME NEW k \in Key, k[1] # "verify" => KnowsContact(r),
             k[1] = "verify" => r.code \in Code /\ KnowsContactForSignup(r)
      PROVE  RecordInv(Counting(r, k))
  BY <1>2, <1>3 DEF RecordInv, ScopeSteps, ContactSteps, CountSteps, CodeSteps, KnowsContact,
     KnowsContactForSignup
<1>4. ASSUME r.contact \in Contact
      PROVE  /\ CountContact(r) \in HandlerState /\ RecordInv(CountContact(r))
             /\ CountContact(r).pc \in {"count", "issue"}
  <2>1. CASE "contact" \in Counted
    <3>1. <<"contact", r.contact>> \in Key /\ <<"contact", r.contact>>[1] = "contact"
      BY <1>4, KeyFacts
    <3>. QED
      BY <1>2, <1>3, <1>4, <2>1, <3>1 DEF CountContact, KnowsContact
  <2>2. CASE "contact" \notin Counted
    <3>. DEFINE q == [r EXCEPT !.pc = "issue", !.key = NoKey]
    <3>1. /\ q \in HandlerState /\ q.pc = "issue" /\ q.ward = r.ward
          /\ q.purpose = r.purpose /\ q.contact = r.contact
      BY DEF HandlerState
    <3>2. RecordInv(q)
      BY <1>4, <3>1 DEF RecordInv, ScopeSteps, ContactSteps, CountSteps, CodeSteps, KnowsContact
    <3>. QED
      BY <2>2, <3>1, <3>2 DEF CountContact
  <2>. QED
    BY <2>1, <2>2
<1>5. ASSUME r.contact \in Contact
      PROVE  /\ CountSend(r) \in HandlerState /\ RecordInv(CountSend(r))
             /\ CountSend(r).pc \in {"count", "issue"}
  <2>. DEFINE k == <<"send", ScopeOf(r.ward, r.purpose)>>
  <2>1. k \in Key /\ k[1] = "send"
    BY <1>1, KeyFacts
  <2>2. Counting(r, k) \in HandlerState /\ RecordInv(Counting(r, k)) /\ Counting(r, k).pc = "count"
    BY <1>2, <1>3, <1>5, <2>1 DEF KnowsContact
  <2>. QED
    BY <1>4, <1>5, <2>2 DEF CountSend
<1>6. ASSUME r.code \in Code, KnowsContactForSignup(r)
      PROVE  /\ CountVerify(r) \in HandlerState /\ RecordInv(CountVerify(r))
             /\ CountVerify(r).pc \in {"count", "compare"}
  <2>1. CASE "verify" \in Counted
    <3>. DEFINE k == <<"verify", ScopeOf(r.ward, r.purpose)>>
    <3>1. k \in Key /\ k[1] = "verify"
      BY <1>1, KeyFacts
    <3>2. Counting(r, k) \in HandlerState /\ RecordInv(Counting(r, k)) /\ Counting(r, k).pc = "count"
      BY <1>2, <1>3, <1>6, <3>1
    <3>. QED
      BY <2>1, <3>2 DEF CountVerify
  <2>2. CASE "verify" \notin Counted
    <3>. DEFINE q == [r EXCEPT !.pc = "compare"]
    <3>1. /\ q \in HandlerState /\ q.pc = "compare" /\ q.ward = r.ward
          /\ q.purpose = r.purpose /\ q.contact = r.contact /\ q.code = r.code
      BY DEF HandlerState
    <3>2. RecordInv(q)
      BY <1>6, <3>1 DEF RecordInv, ScopeSteps, ContactSteps, CountSteps, CodeSteps,
         KnowsContactForSignup
    <3>. QED
      BY <2>2, <3>1, <3>2 DEF CountVerify
  <2>. QED
    BY <2>1, <2>2
<1>. QED
  BY <1>4, <1>5, <1>6

\* And so does one that has been counted.
LEMMA AfterCountFacts ==
  ASSUME NEW r \in HandlerState, RecordInv(r), r.pc \in CountSteps
  PROVE  /\ AfterCount(r) \in HandlerState /\ RecordInv(AfterCount(r))
         /\ AfterCount(r).pc \in {"count", "issue", "compare"}
<1>1. /\ r.ward \in Ward /\ r.purpose \in Asks[r.ward] /\ r.key \in Key
      /\ r.key[1] # "verify" => r.contact \in Contact
      /\ r.key[1] = "verify" => r.code \in Code /\ KnowsContactForSignup(r)
  BY DEF RecordInv, CountSteps, ScopeSteps, KnowsContact
<1>2. CASE r.key[1] = "send"
  <2>1. AfterCount(r) = CountContact(r)
    BY <1>2 DEF AfterCount
  <2>. QED
    BY <1>1, <1>2, <2>1, CountingFacts
<1>3. CASE r.key[1] = "contact"
  <2>. DEFINE q == [r EXCEPT !.pc = "issue", !.key = NoKey]
  <2>1. AfterCount(r) = q
    BY <1>3 DEF AfterCount
  <2>2. /\ q \in HandlerState /\ q.pc = "issue" /\ q.ward = r.ward
        /\ q.purpose = r.purpose /\ q.contact = r.contact
    BY DEF HandlerState
  <2>3. RecordInv(q)
    BY <1>1, <1>3, <2>2 DEF RecordInv, ScopeSteps, ContactSteps, CountSteps, CodeSteps, KnowsContact
  <2>. QED
    BY <2>1, <2>2, <2>3
<1>4. CASE r.key[1] = "verify"
  <2>. DEFINE q == [r EXCEPT !.pc = "compare", !.key = NoKey]
  <2>1. AfterCount(r) = q
    BY <1>4 DEF AfterCount
  <2>2. /\ q \in HandlerState /\ q.pc = "compare" /\ q.ward = r.ward
        /\ q.purpose = r.purpose /\ q.contact = r.contact /\ q.code = r.code
    BY DEF HandlerState
  <2>3. RecordInv(q)
    BY <1>1, <1>4, <2>2 DEF RecordInv, ScopeSteps, ContactSteps, CountSteps, CodeSteps,
       KnowsContactForSignup
  <2>. QED
    BY <2>1, <2>2, <2>3
<1>. QED
  BY <1>1, <1>2, <1>3, <1>4, KeyFacts

LEMMA TypeInit == Init => TypeInv
<1>. SUFFICES ASSUME Init PROVE TypeInv
  OBVIOUS
<1>1. Idle \in HandlerState /\ Idle.pc = "idle"
  BY DEF Idle, HandlerState
<1>2. RecordInv(Idle)
  BY <1>1 DEF RecordInv, ScopeSteps, ContactSteps, CountSteps, CodeSteps
<1>3. handler \in [Handler -> HandlerState]
  BY <1>1 DEF Init
<1>4. TypeOK
  BY <1>3 DEF Init, TypeOK, Row, NoRow
<1>. QED
  BY <1>1, <1>2, <1>4 DEF Init, TypeInv, At

\* A step of handler h: what it leaves behind is a record r that is in order.
Moves(h, r) ==
  /\ handler' = [handler EXCEPT ![h] = r]
  /\ r \in HandlerState /\ RecordInv(r)
  /\ r.pc = "read" => guardian'[r.ward] # NoRow

\* No link is undone.
LinksStay ==
  /\ guardian' \in [Ward -> Row]
  /\ \A w \in Ward : guardian[w] # NoRow => guardian'[w] # NoRow

LEMMA MovesKeep ==
  ASSUME TypeInv, LinksStay, NEW h \in Handler, NEW r, Moves(h, r)
  PROVE  /\ handler' \in [Handler -> HandlerState]
         /\ \A g \in Handler : RecordInv(handler'[g])
         /\ \A g \in Handler : At(g, "read")' => guardian'[handler'[g].ward] # NoRow
<1>1. /\ handler \in [Handler -> HandlerState]
      /\ \A g \in Handler : RecordInv(handler[g])
      /\ \A g \in Handler : handler[g].pc = "read" => guardian[handler[g].ward] # NoRow
  BY DEF TypeInv, TypeOK, At
<1>2. /\ handler' \in [Handler -> HandlerState]
      /\ \A g \in Handler : handler'[g] = IF g = h THEN r ELSE handler[g]
  BY <1>1 DEF Moves
<1>3. \A g \in Handler : handler[g].pc = "read" => handler[g].ward \in Ward
  BY <1>1 DEF RecordInv
<1>. QED
  BY <1>1, <1>2, <1>3 DEF Moves, LinksStay, At

\* A step that goes on with the same knowledge.
LEMMA GotoMoves ==
  ASSUME TypeInv, NEW h \in Handler,
         NEW pc \in {"lock", "upsert", "read", "consent", "verified", "flip", "token", "effect",
                     "drop"},
         Goto(h, pc)
  PROVE  \E r : /\ handler' = [handler EXCEPT ![h] = r]
                /\ r \in HandlerState /\ r.pc = pc
                /\ r.ward = handler[h].ward /\ r.purpose = handler[h].purpose
                /\ r.contact = handler[h].contact /\ r.code = handler[h].code
                /\ r.key = handler[h].key
<1>. DEFINE r == [handler[h] EXCEPT !.pc = pc]
<1>1. handler' = [handler EXCEPT ![h] = r]
  BY DEF Goto, Begin
<1>2. handler[h] \in HandlerState
  BY DEF TypeInv, TypeOK
<1>3. /\ r \in HandlerState /\ r.pc = pc
      /\ r.ward = handler[h].ward /\ r.purpose = handler[h].purpose
      /\ r.contact = handler[h].contact /\ r.code = handler[h].code
      /\ r.key = handler[h].key
  BY <1>2 DEF HandlerState
<1>. QED
  BY <1>1, <1>3

LEMMA FinishMoves ==
  ASSUME TypeInv, NEW h \in Handler, Finish(h)
  PROVE  Moves(h, Idle) /\ Idle.pc = "idle"
<1>1. Idle \in HandlerState /\ Idle.pc = "idle"
  BY DEF Idle, HandlerState
<1>2. RecordInv(Idle)
  BY <1>1 DEF RecordInv, ScopeSteps, ContactSteps, CountSteps, CodeSteps
<1>. QED
  BY <1>1, <1>2 DEF Moves, Finish, Begin

\* Everything but handlers, links and tokens.
OtherTypes ==
  /\ account \subseteq Ward
  /\ consented \subseteq Ward
  /\ pending \in [Ward -> Row]
  /\ code \in [Scope -> Code \cup {NoCode}]
  /\ counter \in [Key -> [n: Nat, timed: BOOLEAN]]
  /\ issued \in [Code -> Issue \cup {NotIssued}]
  /\ effects \in [Code -> Seq(Scope)]
  /\ stuck \subseteq Key

TokenTypes ==
  /\ token \in [Ward -> Code \cup {NoCode}]
  /\ \A w \in Ward : token[w] # NoCode => "create" \in Asks[w]

LEMMA TypeParts ==
  ASSUME TypeInv
  PROVE  /\ OtherTypes /\ TokenTypes
         /\ guardian \in [Ward -> Row] /\ handler \in [Handler -> HandlerState]
         /\ \A h \in Handler : RecordInv(handler[h])
  BY DEF TypeInv, TypeOK, OtherTypes, TokenTypes

LEMMA TypeFrame ==
  ASSUME TypeInv, LinksStay, OtherTypes', TokenTypes',
         NEW h \in Handler, NEW r, Moves(h, r)
  PROVE  TypeInv'
<1>1. /\ handler' \in [Handler -> HandlerState]
      /\ \A g \in Handler : RecordInv(handler'[g])
      /\ \A g \in Handler : At(g, "read")' => guardian'[handler'[g].ward] # NoRow
  BY MovesKeep
<1>. QED
  BY <1>1 DEF TypeInv, TypeOK, LinksStay, OtherTypes, TokenTypes

\* A step that leaves links and tokens alone.
Untouched ==
  guardian' = guardian /\ token' = token

LEMMA UntouchedKeeps ==
  ASSUME TypeInv, Untouched
  PROVE  LinksStay /\ TokenTypes'
  BY TypeParts DEF Untouched, LinksStay, TokenTypes

\* Steps that begin a request, other than those that are counted at once.
LEMMA CallMoves ==
  ASSUME TypeInv, NEW h \in Handler, NEW w \in Ward, NEW c \in Contact,
         LinkBegin(h, w, c) \/ SignupStart(h, w, c)
  PROVE  \E r : Moves(h, r) /\ r.pc \in {"lock", "write"} /\ (r.pc = "lock" => r.purpose = "guardian")
<1>. USE DEF RecordInv, ScopeSteps, ContactSteps, CountSteps, CodeSteps, KnowsContact
<1>1. Idle \in HandlerState
  BY DEF Idle, HandlerState
<1>2. CASE LinkBegin(h, w, c)
  <2>1. PICK r : r = [Idle EXCEPT !.pc = "lock", !.ward = w, !.purpose = "guardian",
                                  !.contact = c]
    OBVIOUS
  <2>2. r.pc = "lock" /\ r.ward = w /\ r.purpose = "guardian" /\ r.contact = c
    BY <2>1 DEF Idle
  <2>3. r \in HandlerState
    BY <1>1, <2>1 DEF HandlerState, Purpose
  <2>4. handler' = [handler EXCEPT ![h] = r] /\ "guardian" \in Asks[w]
    BY <1>2, <2>1 DEF LinkBegin, Begin
  <2>. QED
    BY <2>2, <2>3, <2>4 DEF Moves
<1>3. CASE SignupStart(h, w, c)
  <2>1. PICK r : r = [Idle EXCEPT !.pc = "write", !.ward = w, !.purpose = "signup",
                                  !.contact = c]
    OBVIOUS
  <2>2. r.pc = "write" /\ r.ward = w /\ r.purpose = "signup" /\ r.contact = c
    BY <2>1 DEF Idle
  <2>3. r \in HandlerState
    BY <1>1, <2>1 DEF HandlerState, Purpose
  <2>4. handler' = [handler EXCEPT ![h] = r] /\ "signup" \in Asks[w]
    BY <1>3, <2>1 DEF SignupStart, Begin
  <2>. QED
    BY <2>2, <2>3, <2>4 DEF Moves
<1>. QED
  BY <1>2, <1>3

LEMMA CreateAccountMoves ==
  ASSUME TypeInv, NEW h \in Handler, NEW w \in Ward, CreateAccount(h, w)
  PROVE  \E r : Moves(h, r) /\ r.pc = "hook"
<1>1. PICK r : r = [Idle EXCEPT !.pc = "hook", !.ward = w, !.purpose = "signup"]
  OBVIOUS
<1>2. r \in HandlerState /\ r.pc = "hook" /\ r.ward = w /\ r.purpose = "signup"
  BY <1>1 DEF Idle, HandlerState, Purpose
<1>3. handler' = [handler EXCEPT ![h] = r]
  BY <1>1 DEF CreateAccount, Begin
<1>4. RecordInv(r)
  BY <1>2 DEF RecordInv, ScopeSteps, ContactSteps, CountSteps, CodeSteps
<1>. QED
  BY <1>2, <1>3, <1>4 DEF Moves

LEMMA IssueBeginMoves ==
  ASSUME TypeInv, NEW h \in Handler, NEW w \in Ward, NEW p \in Purpose, IssueBegin(h, w, p)
  PROVE  \E r : Moves(h, r) /\ r.pc \in {"count", "issue"}
<1>1. PICK q : q = [Idle EXCEPT !.ward = w, !.purpose = p, !.contact = guardian[w].contact]
  OBVIOUS
<1>2. guardian[w].contact \in Contact
  BY TypeParts DEF IssueBegin, Row, NoRow
<1>3. q \in HandlerState /\ q.ward = w /\ q.purpose = p /\ q.contact \in Contact
  BY <1>1, <1>2 DEF Idle, HandlerState
<1>4. handler' = [handler EXCEPT ![h] = CountSend(q)] /\ p \in Asks[w]
  BY <1>1 DEF IssueBegin, Begin
<1>5. CountSend(q) \in HandlerState /\ RecordInv(CountSend(q))
      /\ CountSend(q).pc \in {"count", "issue"}
  BY <1>3, <1>4, CountingFacts
<1>. QED
  BY <1>4, <1>5 DEF Moves

LEMMA VerifyBeginMoves ==
  ASSUME TypeInv, NEW h \in Handler, NEW w \in Ward, NEW p \in Purpose, NEW k \in Code,
         VerifyBegin(h, w, p, k)
  PROVE  \E r : Moves(h, r) /\ r.pc \in {"count", "compare"}
<1>1. PICK q : q = [Idle EXCEPT !.ward = w, !.purpose = p, !.code = k,
                   !.contact = IF p = "signup" THEN pending[w].contact ELSE NoContact]
  OBVIOUS
<1>2. p = "signup" => pending[w].contact \in Contact
  BY TypeParts DEF OtherTypes, VerifyBegin, Row, NoRow
<1>3. /\ q \in HandlerState /\ q.ward = w /\ q.purpose = p /\ q.code = k
      /\ KnowsContactForSignup(q)
  BY <1>1, <1>2 DEF Idle, HandlerState, KnowsContactForSignup
<1>4. handler' = [handler EXCEPT ![h] = CountVerify(q)] /\ p \in Asks[w]
  BY <1>1 DEF VerifyBegin, Begin
<1>5. CountVerify(q) \in HandlerState /\ RecordInv(CountVerify(q))
      /\ CountVerify(q).pc \in {"count", "compare"}
  BY <1>3, <1>4, CountingFacts
<1>. QED
  BY <1>4, <1>5 DEF Moves

LEMMA FinalizeTakeMoves ==
  ASSUME TypeInv, NEW h \in Handler, NEW w \in Ward, FinalizeTake(h, w)
  PROVE  \E r : Moves(h, r) /\ r.pc = "finalize" /\ r.ward = w /\ r.code = token[w]
<1>1. PICK r : r = [Idle EXCEPT !.pc = "finalize", !.ward = w, !.purpose = "create",
                               !.code = token[w]]
  OBVIOUS
<1>2. token[w] \in Code /\ "create" \in Asks[w]
  BY TypeParts DEF TokenTypes, FinalizeTake
<1>3. /\ r \in HandlerState /\ r.pc = "finalize" /\ r.ward = w /\ r.purpose = "create"
      /\ r.code = token[w]
  BY <1>1, <1>2 DEF Idle, HandlerState, Purpose
<1>4. handler' = [handler EXCEPT ![h] = r]
  BY <1>1 DEF FinalizeTake, Begin
<1>5. RecordInv(r)
  BY <1>2, <1>3 DEF RecordInv, ScopeSteps, ContactSteps, CountSteps, CodeSteps
<1>. QED
  BY <1>3, <1>4, <1>5 DEF Moves

\* Counting: the handler waits to set the expiry, goes on or is refused.
LEMMA CountHitMoves ==
  ASSUME TypeInv, NEW h \in Handler, CountHit(h)
  PROVE  \E r : /\ Moves(h, r)
                /\ r.pc \in {"expire", "count", "issue", "compare", "idle"}
                /\ FirstHit(counter'[handler[h].key].n) =>
                     r.pc = "expire" /\ r.key = handler[h].key
<1>. DEFINE q == handler[h]
            n == IF counter[q.key].n > Limit(q.key) THEN counter[q.key].n
                 ELSE counter[q.key].n + 1
<1>1. /\ q \in HandlerState /\ RecordInv(q) /\ q.pc \in CountSteps /\ q.pc = "count"
      /\ q.key \in Key
  BY TypeParts DEF CountHit, At, CountSteps, RecordInv
<1>2. counter'[q.key].n = n
  <2>1. counter' = [counter EXCEPT ![q.key].n = n]
    BY DEF CountHit
  <2>. QED
    BY <1>1, <2>1, TypeParts DEF OtherTypes
<1>3. CASE FirstHit(n)
  <2>1. PICK r : r = [q EXCEPT !.pc = "expire"]
    OBVIOUS
  <2>2. handler' = [handler EXCEPT ![h] = r]
    BY <1>3, <2>1 DEF CountHit, Begin
  <2>3. /\ r \in HandlerState /\ r.pc = "expire" /\ r.ward = q.ward /\ r.purpose = q.purpose
        /\ r.contact = q.contact /\ r.code = q.code /\ r.key = q.key
    BY <1>1, <2>1 DEF HandlerState
  <2>4. RecordInv(r)
    BY <1>1, <2>3 DEF RecordInv, ScopeSteps, ContactSteps, CountSteps, CodeSteps, KnowsContact,
       KnowsContactForSignup
  <2>. QED
    BY <2>2, <2>3, <2>4 DEF Moves
<1>4. CASE ~FirstHit(n) /\ n <= Limit(q.key)
  <2>1. handler' = [handler EXCEPT ![h] = AfterCount(q)]
    BY <1>4 DEF CountHit, Begin
  <2>2. /\ AfterCount(q) \in HandlerState /\ RecordInv(AfterCount(q))
        /\ AfterCount(q).pc \in {"count", "issue", "compare"}
    BY <1>1, AfterCountFacts
  <2>. QED
    BY <1>2, <1>4, <2>1, <2>2 DEF Moves
<1>5. CASE ~FirstHit(n) /\ ~(n <= Limit(q.key))
  <2>1. Finish(h)
    BY <1>5 DEF CountHit, Begin, Finish
  <2>. QED
    BY <1>2, <1>5, <2>1, FinishMoves
<1>. QED
  BY <1>3, <1>4, <1>5

LEMMA SetExpiryMoves ==
  ASSUME TypeInv, NEW h \in Handler, SetExpiry(h)
  PROVE  \E r : Moves(h, r) /\ r.pc \in {"count", "issue", "compare"}
<1>1. /\ handler[h] \in HandlerState /\ RecordInv(handler[h]) /\ handler[h].pc \in CountSteps
  BY TypeParts DEF SetExpiry, At, CountSteps
<1>2. handler' = [handler EXCEPT ![h] = AfterCount(handler[h])]
  BY DEF SetExpiry, Begin
<1>3. /\ AfterCount(handler[h]) \in HandlerState /\ RecordInv(AfterCount(handler[h]))
      /\ AfterCount(handler[h]).pc \in {"count", "issue", "compare"}
  BY <1>1, AfterCountFacts
<1>. QED
  BY <1>2, <1>3 DEF Moves

LEMMA AssertWardLimitMoves ==
  ASSUME TypeInv, NEW h \in Handler, AssertWardLimit(h)
  PROVE  \E r : /\ Moves(h, r) /\ r.pc = "upsert"
                /\ r.ward = handler[h].ward /\ r.purpose = handler[h].purpose
                /\ r.contact = handler[h].contact
<1>1. PICK r : /\ handler' = [handler EXCEPT ![h] = r]
               /\ r \in HandlerState /\ r.pc = "upsert"
               /\ r.ward = handler[h].ward /\ r.purpose = handler[h].purpose
               /\ r.contact = handler[h].contact
  <2>1. Goto(h, "upsert")
    BY DEF AssertWardLimit
  <2>. QED
    BY <2>1, GotoMoves
<1>2. RecordInv(handler[h]) /\ handler[h].pc = "lock"
  BY TypeParts DEF AssertWardLimit, At
<1>3. RecordInv(r)
  BY <1>1, <1>2 DEF RecordInv, ScopeSteps, ContactSteps, CountSteps, CodeSteps, KnowsContact
<1>. QED
  BY <1>1, <1>3 DEF Moves

\* The link: one row is written, with a contact.
LEMMA UpsertMoves ==
  ASSUME TypeInv, NEW h \in Handler, Upsert(h)
  PROVE  /\ \E r : Moves(h, r) /\ r.pc \in {"read", "drop"}
         /\ LinksStay
         /\ handler[h].ward \in Ward /\ handler[h].contact \in Contact
         /\ \A w \in Ward : guardian'[w] =
              IF w = handler[h].ward
              THEN [contact |-> handler[h].contact, verified |-> handler[h].purpose = "signup"]
              ELSE guardian[w]
<1>. DEFINE q == handler[h]
            row == [contact |-> q.contact, verified |-> q.purpose = "signup"]
<1>1. RecordInv(q) /\ q.pc = "upsert"
  BY TypeParts DEF Upsert, At
<1>2. q.ward \in Ward /\ q.contact \in Contact /\ (q.purpose = "signup" \/ q.purpose \in Asks[q.ward])
  BY <1>1 DEF RecordInv, ContactSteps, KnowsContact
<1>3. /\ guardian' = [guardian EXCEPT ![q.ward] = row]
      /\ Goto(h, IF q.purpose = "signup" THEN "drop" ELSE "read")
  BY DEF Upsert, OfHook
<1>4. row \in Row /\ row # NoRow
  BY <1>2, GuardianAssumption DEF Row, NoRow
<1>5. /\ guardian \in [Ward -> Row] /\ guardian' \in [Ward -> Row]
      /\ \A w \in Ward : guardian'[w] = IF w = q.ward THEN row ELSE guardian[w]
  BY <1>2, <1>3, <1>4, TypeParts
<1>6. PICK r : /\ handler' = [handler EXCEPT ![h] = r]
               /\ r \in HandlerState /\ r.pc = IF q.purpose = "signup" THEN "drop" ELSE "read"
               /\ r.ward = q.ward /\ r.purpose = q.purpose
  <2>1. CASE q.purpose = "signup"
    BY <1>3, <2>1, GotoMoves
  <2>2. CASE q.purpose # "signup"
    BY <1>3, <2>2, GotoMoves
  <2>. QED
    BY <2>1, <2>2
<1>7. RecordInv(r)
  BY <1>2, <1>6 DEF RecordInv, ScopeSteps, ContactSteps, CountSteps, CodeSteps
<1>8. Moves(h, r)
  BY <1>2, <1>4, <1>5, <1>6, <1>7 DEF Moves
<1>. QED
  BY <1>2, <1>4, <1>5, <1>6, <1>8 DEF LinksStay

LEMMA LinkReadBackMoves ==
  ASSUME TypeInv, NEW h \in Handler, LinkReadBack(h)
  PROVE  \E r : Moves(h, r) /\ r.pc \in {"count", "issue"}
<1>1. PICK q : q = [handler[h] EXCEPT !.contact = guardian[handler[h].ward].contact]
  OBVIOUS
<1>2. /\ handler[h] \in HandlerState /\ handler[h].ward \in Ward
      /\ handler[h].purpose \in Asks[handler[h].ward]
      /\ guardian[handler[h].ward] # NoRow
  BY DEF TypeInv, TypeOK, LinkReadBack, At, RecordInv, ScopeSteps
<1>3. guardian[handler[h].ward].contact \in Contact
  BY <1>2, TypeParts DEF Row
<1>4. /\ q \in HandlerState /\ q.contact \in Contact
      /\ q.ward = handler[h].ward /\ q.purpose = handler[h].purpose
  BY <1>1, <1>2, <1>3 DEF HandlerState
<1>5. handler' = [handler EXCEPT ![h] = CountSend(q)]
  BY <1>1 DEF LinkReadBack, Begin
<1>6. /\ CountSend(q) \in HandlerState /\ RecordInv(CountSend(q))
      /\ CountSend(q).pc \in {"count", "issue"}
  BY <1>2, <1>4, CountingFacts
<1>. QED
  BY <1>5, <1>6 DEF Moves

LEMMA SignupWriteMoves ==
  ASSUME TypeInv, NEW h \in Handler, SignupWrite(h)
  PROVE  /\ \E r : Moves(h, r) /\ r.pc \in {"count", "issue"}
         /\ handler[h].ward \in Ward /\ handler[h].contact \in Contact
<1>1. /\ handler[h] \in HandlerState /\ handler[h].ward \in Ward
      /\ handler[h].purpose \in Asks[handler[h].ward] /\ handler[h].contact \in Contact
  BY DEF TypeInv, TypeOK, SignupWrite, At, RecordInv, ScopeSteps, ContactSteps, KnowsContact
<1>2. handler' = [handler EXCEPT ![h] = CountSend(handler[h])]
  BY DEF SignupWrite, Begin
<1>3. /\ CountSend(handler[h]) \in HandlerState /\ RecordInv(CountSend(handler[h]))
      /\ CountSend(handler[h]).pc \in {"count", "issue"}
  BY <1>1, CountingFacts
<1>. QED
  BY <1>1, <1>2, <1>3 DEF Moves

LEMMA HookReadMoves ==
  ASSUME TypeInv, NEW h \in Handler, HookRead(h)
  PROVE  \E r : /\ Moves(h, r)
                /\ \/ r.pc = "idle"
                   \/ /\ r.pc = "lock" /\ pending[r.ward].verified
                      /\ r.ward = handler[h].ward
<1>1. handler[h] \in HandlerState /\ handler[h].ward \in Ward
  BY DEF TypeInv, TypeOK, HookRead, At, RecordInv
<1>2. CASE ReadyToMaterialize(handler[h].ward)
  <2>1. PICK r : r = [handler[h] EXCEPT !.pc = "lock",
                                       !.contact = pending[handler[h].ward].contact]
    OBVIOUS
  <2>2. handler' = [handler EXCEPT ![h] = r]
    BY <1>2, <2>1 DEF HookRead, Begin
  <2>3. pending[handler[h].ward].contact \in Contact /\ pending[handler[h].ward].verified
    BY <1>1, <1>2, TypeParts DEF OtherTypes, Row, NoRow, ReadyToMaterialize
  <2>4. /\ r \in HandlerState /\ r.pc = "lock" /\ r.ward = handler[h].ward
        /\ r.purpose = handler[h].purpose /\ r.contact \in Contact
    BY <1>1, <2>1, <2>3 DEF HandlerState
  <2>5. handler[h].purpose = "signup"
    BY DEF HookRead, At, TypeInv, RecordInv
  <2>6. RecordInv(r)
    BY <1>1, <2>4, <2>5 DEF RecordInv, ScopeSteps, ContactSteps, CountSteps, CodeSteps, KnowsContact
  <2>. QED
    BY <2>2, <2>3, <2>4, <2>6 DEF Moves
<1>3. CASE ~ReadyToMaterialize(handler[h].ward)
  <2>1. Finish(h)
    BY <1>3 DEF HookRead
  <2>. QED
    BY <2>1, FinishMoves
<1>. QED
  BY <1>2, <1>3

\* A code that matches is followed by the step its purpose calls for.
ActSteps == {"consent", "flip", "token", "effect"}

LEMMA CompareMoves ==
  ASSUME TypeInv, NEW h \in Handler, Compare(h)
  PROVE  /\ ScopeOfHandler(h) \in Scope
         /\ ScopeOfHandler(h) = <<handler[h].ward, handler[h].purpose>>
         /\ \E r : /\ Moves(h, r)
                   /\ IF code[ScopeOfHandler(h)] = handler[h].code
                      THEN /\ r.pc \in ActSteps /\ r.ward = handler[h].ward
                           /\ r.purpose = handler[h].purpose /\ r.code = handler[h].code
                      ELSE r.pc = "idle"
<1>. DEFINE q == handler[h]
<1>1. /\ q \in HandlerState /\ q.ward \in Ward /\ q.purpose \in Asks[q.ward]
      /\ q.code \in Code /\ KnowsContactForSignup(q)
  BY DEF TypeInv, TypeOK, Compare, At, RecordInv, ScopeSteps, CodeSteps
<1>2. ScopeOfHandler(h) \in Scope /\ ScopeOfHandler(h) = <<q.ward, q.purpose>>
  BY <1>1, ScopeFacts DEF ScopeOfHandler, ScopeOf
<1>3. CASE code[ScopeOfHandler(h)] = q.code
  <2>1. PICK pc \in ActSteps : pc = Consequence(q.purpose)
    BY DEF Consequence, ActSteps
  <2>2. Goto(h, pc)
    BY <1>3, <2>1 DEF Compare
  <2>3. PICK r : /\ handler' = [handler EXCEPT ![h] = r]
                 /\ r \in HandlerState /\ r.pc = pc /\ r.ward = q.ward
                 /\ r.purpose = q.purpose /\ r.contact = q.contact /\ r.code = q.code
    BY <2>2, GotoMoves DEF ActSteps
  <2>4. RecordInv(r)
    BY <1>1, <2>1, <2>3 DEF RecordInv, ScopeSteps, ContactSteps, CountSteps, CodeSteps,
       KnowsContact, KnowsContactForSignup, Consequence, ActSteps
  <2>5. r.pc # "read"
    BY <2>3 DEF ActSteps
  <2>. QED
    BY <1>2, <1>3, <2>3, <2>4, <2>5 DEF Moves
<1>4. CASE code[ScopeOfHandler(h)] # q.code
  <2>1. Finish(h)
    BY <1>4 DEF Compare
  <2>. QED
    BY <1>2, <1>4, <2>1, FinishMoves
<1>. QED
  BY <1>3, <1>4

LEMMA ConsentMoves ==
  ASSUME TypeInv, NEW h \in Handler, VerifyConsents(h)
  PROVE  \E r : Moves(h, r) /\ r.pc = "verified" /\ r.ward = handler[h].ward
<1>1. /\ handler[h].ward \in Ward /\ handler[h].purpose \in Asks[handler[h].ward]
      /\ handler[h].purpose = "guardian"
  BY DEF TypeInv, VerifyConsents, At, RecordInv, ScopeSteps
<1>2. Goto(h, "verified")
  BY DEF VerifyConsents
<1>3. PICK r : /\ handler' = [handler EXCEPT ![h] = r]
               /\ r \in HandlerState /\ r.pc = "verified"
               /\ r.ward = handler[h].ward /\ r.purpose = handler[h].purpose
  BY <1>2, GotoMoves
<1>4. RecordInv(r)
  BY <1>1, <1>3 DEF RecordInv, ScopeSteps, ContactSteps, CountSteps, CodeSteps
<1>. QED
  BY <1>3, <1>4 DEF Moves

\* A handler that acts answers a code of its scope.
LEMMA ActFacts ==
  ASSUME TypeInv, NEW h \in Handler, handler[h].pc \in CodeSteps
  PROVE  /\ handler[h].ward \in Ward /\ handler[h].purpose \in Asks[handler[h].ward]
         /\ <<handler[h].ward, handler[h].purpose>> \in Scope /\ handler[h].code \in Code
<1>1. /\ handler[h].ward \in Ward /\ handler[h].purpose \in Asks[handler[h].ward]
      /\ handler[h].code \in Code
  BY DEF TypeInv, RecordInv, ScopeSteps, CodeSteps
<1>. QED
  BY <1>1, ScopeFacts DEF ScopeOf

\* What an action does to the answers.
LEMMA ActTypes ==
  ASSUME TypeInv, NEW h \in Handler, handler[h].pc \in CodeSteps, Act(h)
  PROVE  /\ effects' \in [Code -> Seq(Scope)]
         /\ \A k \in Code : effects'[k] =
              IF k = handler[h].code
              THEN Append(effects[k], <<handler[h].ward, handler[h].purpose>>) ELSE effects[k]
         /\ issued' = issued /\ stuck' = stuck
<1>1. handler[h].code \in Code /\ <<handler[h].ward, handler[h].purpose>> \in Scope
  BY ActFacts
<1>2. effects \in [Code -> Seq(Scope)]
  BY TypeParts DEF OtherTypes
<1>3. effects' = [effects EXCEPT ![handler[h].code] =
                    Append(@, <<handler[h].ward, handler[h].purpose>>)]
  BY DEF Act
<1>4. Append(effects[handler[h].code], <<handler[h].ward, handler[h].purpose>>) \in Seq(Scope)
  BY <1>1, <1>2
<1>. QED
  BY <1>1, <1>2, <1>3, <1>4 DEF Act

-----------------------------------------------------------------------------
(* Type correctness *)

LEMMA CallTypes ==
  ASSUME TypeInv, NEW h \in Handler, Call(h)
  PROVE  TypeInv'
<1>1. ASSUME NEW w \in Ward, NEW c \in Contact,
             LinkBegin(h, w, c) \/ SignupStart(h, w, c)
      PROVE  TypeInv'
  <2>1. PICK r : Moves(h, r)
    BY <1>1, CallMoves
  <2>2. Untouched /\ OtherTypes'
    BY <1>1, TypeParts DEF LinkBegin, SignupStart, tables, redis, history,
       Untouched, OtherTypes
  <2>. QED
    BY <2>1, <2>2, UntouchedKeeps, TypeFrame
<1>2. ASSUME NEW w \in Ward, NEW p \in Purpose, IssueBegin(h, w, p)
      PROVE  TypeInv'
  <2>1. PICK r : Moves(h, r)
    BY <1>2, IssueBeginMoves
  <2>2. Untouched /\ OtherTypes'
    BY <1>2, TypeParts DEF IssueBegin, tables, redis, history, Untouched, OtherTypes
  <2>. QED
    BY <2>1, <2>2, UntouchedKeeps, TypeFrame
<1>3. ASSUME NEW w \in Ward, NEW p \in Purpose, NEW k \in Code, VerifyBegin(h, w, p, k)
      PROVE  TypeInv'
  <2>1. PICK r : Moves(h, r)
    BY <1>3, VerifyBeginMoves
  <2>2. Untouched /\ OtherTypes'
    BY <1>3, TypeParts DEF VerifyBegin, tables, redis, history, Untouched, OtherTypes
  <2>. QED
    BY <2>1, <2>2, UntouchedKeeps, TypeFrame
<1>4. ASSUME NEW w \in Ward, FinalizeTake(h, w)
      PROVE  TypeInv'
  <2>1. PICK r : Moves(h, r)
    BY <1>4, FinalizeTakeMoves
  <2>2. LinksStay /\ OtherTypes' /\ TokenTypes'
    BY <1>4, TypeParts DEF FinalizeTake, Taken, tables, history, LinksStay, OtherTypes, TokenTypes
  <2>. QED
    BY <2>1, <2>2, TypeFrame
\* An account is created with no contact in the request.
<1>5. ASSUME NEW w \in Ward, CreateAccount(h, w)
      PROVE  TypeInv'
  <2>1. PICK r : Moves(h, r)
    BY <1>5, CreateAccountMoves
  <2>2. Untouched /\ OtherTypes'
    BY <1>5, TypeParts DEF CreateAccount, redis, history, Untouched, OtherTypes
  <2>. QED
    BY <2>1, <2>2, UntouchedKeeps, TypeFrame
<1>. QED
  BY <1>1, <1>2, <1>3, <1>4, <1>5 DEF Call

LEMMA ServeTypes ==
  ASSUME TypeInv, NEW h \in Handler, Serve(h)
  PROVE  TypeInv'
<1>1. CASE CountHit(h)
  <2>1. PICK r : Moves(h, r)
    BY <1>1, CountHitMoves
  <2>2. handler[h].key \in Key
    BY <1>1 DEF CountHit, At, TypeInv, RecordInv, CountSteps
  <2>3. PICK n \in Nat : counter' = [counter EXCEPT ![handler[h].key].n = n]
    <3>1. counter[handler[h].key].n \in Nat
      BY <2>2, TypeParts DEF OtherTypes
    <3>2. /\ counter[handler[h].key].n + 1 \in Nat
          /\ counter' = [counter EXCEPT ![handler[h].key].n =
               IF counter[handler[h].key].n > Limit(handler[h].key)
               THEN counter[handler[h].key].n ELSE counter[handler[h].key].n + 1]
      BY <1>1, <3>1 DEF CountHit
    <3>. QED
      BY <3>1, <3>2
  <2>4. counter' \in [Key -> [n: Nat, timed: BOOLEAN]]
    BY <2>2, <2>3, TypeParts DEF OtherTypes
  <2>5. Untouched /\ OtherTypes'
    BY <1>1, <2>4, TypeParts DEF CountHit, tables, history, Untouched, OtherTypes
  <2>. QED
    BY <2>1, <2>5, UntouchedKeeps, TypeFrame
<1>2. CASE SetExpiry(h)
  <2>1. PICK r : Moves(h, r)
    BY <1>2, SetExpiryMoves
  <2>2. handler[h].key \in Key
    BY <1>2 DEF SetExpiry, At, TypeInv, RecordInv, CountSteps
  <2>3. counter' \in [Key -> [n: Nat, timed: BOOLEAN]]
    BY <1>2, <2>2, TypeParts DEF SetExpiry, OtherTypes
  <2>4. Untouched /\ OtherTypes'
    BY <1>2, <2>3, TypeParts DEF SetExpiry, tables, history, Untouched, OtherTypes
  <2>. QED
    BY <2>1, <2>4, UntouchedKeeps, TypeFrame
<1>3. CASE AssertWardLimit(h)
  <2>1. PICK r : Moves(h, r)
    BY <1>3, AssertWardLimitMoves
  <2>2. Untouched /\ OtherTypes'
    BY <1>3, TypeParts DEF AssertWardLimit, tables, redis, history, Untouched, OtherTypes
  <2>. QED
    BY <2>1, <2>2, UntouchedKeeps, TypeFrame
<1>4. CASE Upsert(h)
  <2>1. PICK r : Moves(h, r)
    BY <1>4, UpsertMoves
  <2>2. LinksStay /\ handler[h].ward \in Ward
    BY <1>4, UpsertMoves
  <2>3. OtherTypes' /\ TokenTypes'
    BY <1>4, <2>2, TypeParts DEF Upsert, redis, history, OtherTypes, TokenTypes
  <2>. QED
    BY <2>1, <2>2, <2>3, TypeFrame
<1>5. CASE LinkReadBack(h)
  <2>1. PICK r : Moves(h, r)
    BY <1>5, LinkReadBackMoves
  <2>2. Untouched /\ OtherTypes'
    BY <1>5, TypeParts DEF LinkReadBack, tables, redis, history, Untouched, OtherTypes
  <2>. QED
    BY <2>1, <2>2, UntouchedKeeps, TypeFrame
<1>6. CASE SignupWrite(h)
  <2>1. PICK r : Moves(h, r)
    BY <1>6, SignupWriteMoves
  <2>2. pending' \in [Ward -> Row]
    <3>1. [contact |-> handler[h].contact, verified |-> FALSE] \in Row
      BY <1>6, SignupWriteMoves DEF Row
    <3>. QED
      BY <1>6, <3>1, TypeParts DEF SignupWrite, OtherTypes
  <2>3. Untouched /\ OtherTypes'
    BY <1>6, <2>2, TypeParts DEF SignupWrite, tables, history, Untouched, OtherTypes
  <2>. QED
    BY <2>1, <2>3, UntouchedKeeps, TypeFrame
<1>7. CASE HookRead(h)
  <2>1. PICK r : Moves(h, r)
    BY <1>7, HookReadMoves
  <2>2. Untouched /\ OtherTypes'
    BY <1>7, TypeParts DEF HookRead, tables, redis, history, Untouched, OtherTypes
  <2>. QED
    BY <2>1, <2>2, UntouchedKeeps, TypeFrame
<1>8. CASE HookDropPending(h)
  <2>1. Moves(h, Idle)
    BY <1>8, FinishMoves DEF HookDropPending
  <2>2. Untouched /\ OtherTypes'
    BY <1>8, TypeParts DEF HookDropPending, Row, tables, history, Untouched, OtherTypes
  <2>. QED
    BY <2>1, <2>2, UntouchedKeeps, TypeFrame
<1>9. ASSUME NEW k \in Code, IssueCode(h, k) PROVE TypeInv'
  <2>1. Moves(h, Idle)
    BY <1>9, FinishMoves DEF IssueCode
  <2>2. /\ handler[h].ward \in Ward /\ handler[h].purpose \in Asks[handler[h].ward]
        /\ handler[h].contact \in Contact
    BY <1>9 DEF IssueCode, At, TypeInv, RecordInv, ScopeSteps, ContactSteps, KnowsContact
  <2>3. ScopeOfHandler(h) \in Scope /\ handler[h].purpose \in Purpose
    BY <2>2, ScopeFacts DEF ScopeOfHandler
  <2>4. [ward |-> handler[h].ward, purpose |-> handler[h].purpose,
         contact |-> handler[h].contact] \in Issue
    BY <2>2, <2>3 DEF Issue
  <2>5. Untouched /\ OtherTypes'
    BY <1>9, <2>3, <2>4, TypeParts DEF IssueCode, tables, Untouched, OtherTypes
  <2>. QED
    BY <2>1, <2>5, UntouchedKeeps, TypeFrame
<1>10. CASE Compare(h)
  <2>1. PICK r : Moves(h, r)
    BY <1>10, CompareMoves
  <2>2. code' \in [Scope -> Code \cup {NoCode}]
    BY <1>10, TypeParts DEF Compare, Consumed, OtherTypes
  <2>3. Untouched /\ OtherTypes'
    BY <1>10, <2>2, TypeParts DEF Compare, tables, history, Untouched, OtherTypes
  <2>. QED
    BY <2>1, <2>3, UntouchedKeeps, TypeFrame
<1>11. CASE VerifyConsents(h)
  <2>1. PICK r : Moves(h, r)
    BY <1>11, ConsentMoves
  <2>2. handler[h].pc \in CodeSteps /\ Act(h)
    BY <1>11 DEF VerifyConsents, At, CodeSteps
  <2>3. handler[h].ward \in Ward /\ effects' \in [Code -> Seq(Scope)]
        /\ issued' = issued /\ stuck' = stuck
    BY <2>2, ActFacts, ActTypes
  <2>4. Untouched /\ OtherTypes'
    BY <1>11, <2>3, TypeParts DEF VerifyConsents, redis, Untouched, OtherTypes
  <2>. QED
    BY <2>1, <2>4, UntouchedKeeps, TypeFrame
<1>12. CASE SetGuardianVerified(h)
  <2>1. Moves(h, Idle)
    BY <1>12, FinishMoves DEF SetGuardianVerified
  <2>2. LinksStay
    <3>1. guardian \in [Ward -> Row] /\ handler[h].ward \in Ward
      BY <1>12, TypeParts DEF SetGuardianVerified, At, RecordInv
    <3>2. CASE guardian[handler[h].ward] = NoRow
      BY <1>12, <3>1, <3>2 DEF SetGuardianVerified, LinksStay
    <3>3. CASE guardian[handler[h].ward] # NoRow
      <4>1. /\ guardian[handler[h].ward] \in [contact: Contact, verified: BOOLEAN]
            /\ guardian' = [guardian EXCEPT ![handler[h].ward].verified = TRUE]
        BY <1>12, <3>1, <3>3 DEF SetGuardianVerified, Row
      <4>2. PICK q : q = [guardian[handler[h].ward] EXCEPT !.verified = TRUE]
        OBVIOUS
      <4>3. q \in [contact: Contact, verified: BOOLEAN]
        BY <4>1, <4>2
      <4>4. q \in Row /\ q # NoRow
        BY <4>3, GuardianAssumption DEF Row, NoRow
      <4>5. guardian' = [guardian EXCEPT ![handler[h].ward] = q]
        BY <4>1, <4>2
      <4>. QED
        BY <3>1, <4>4, <4>5 DEF LinksStay
    <3>. QED
      BY <3>2, <3>3
  <2>3. OtherTypes' /\ TokenTypes'
    BY <1>12, TypeParts DEF SetGuardianVerified, redis, history, OtherTypes, TokenTypes
  <2>. QED
    BY <2>1, <2>2, <2>3, TypeFrame
<1>13. CASE SignupFlip(h)
  <2>1. Moves(h, Idle)
    BY <1>13, FinishMoves DEF SignupFlip
  <2>2. handler[h].pc \in CodeSteps /\ Act(h)
    BY <1>13 DEF SignupFlip, At, CodeSteps
  <2>3. /\ effects' \in [Code -> Seq(Scope)] /\ issued' = issued /\ stuck' = stuck
    BY <2>2, ActTypes
  <2>4. handler[h].contact \in Contact
    BY <1>13 DEF SignupFlip, At, TypeInv, RecordInv, ContactSteps, KnowsContact
  <2>5. [contact |-> handler[h].contact, verified |-> TRUE] \in Row
    BY <2>4 DEF Row
  <2>6. pending' \in [Ward -> Row]
    BY <1>13, <2>5, TypeParts DEF SignupFlip, OtherTypes
  <2>7. Untouched /\ OtherTypes'
    BY <1>13, <2>3, <2>6, TypeParts DEF SignupFlip, tables, Untouched, OtherTypes
  <2>. QED
    BY <2>1, <2>7, UntouchedKeeps, TypeFrame
<1>14. CASE Effect(h) \/ FinalizeCommit(h)
  <2>1. Moves(h, Idle)
    BY <1>14, FinishMoves DEF Effect, FinalizeCommit
  <2>2. handler[h].pc \in CodeSteps /\ Act(h)
    BY <1>14 DEF Effect, FinalizeCommit, At, CodeSteps
  <2>3. /\ effects' \in [Code -> Seq(Scope)] /\ issued' = issued /\ stuck' = stuck
    BY <2>2, ActTypes
  <2>4. Untouched /\ OtherTypes'
    BY <1>14, <2>3, TypeParts DEF Effect, FinalizeCommit, tables, redis, Untouched, OtherTypes
  <2>. QED
    BY <2>1, <2>4, UntouchedKeeps, TypeFrame
<1>15. CASE PutToken(h) \/ FinalizePutBack(h)
  <2>1. Moves(h, Idle)
    BY <1>15, FinishMoves DEF PutToken, FinalizePutBack
  <2>2. /\ handler[h].ward \in Ward /\ handler[h].code \in Code
        /\ "create" \in Asks[handler[h].ward]
    <3>1. handler[h].pc \in {"token", "finalize"}
      BY <1>15 DEF PutToken, FinalizePutBack, At
    <3>. QED
      BY <3>1 DEF TypeInv, RecordInv, ScopeSteps, CodeSteps
  <2>3. LinksStay /\ OtherTypes' /\ TokenTypes'
    BY <1>15, <2>2, TypeParts
    DEF PutToken, FinalizePutBack, tables, history, LinksStay, OtherTypes, TokenTypes
  <2>. QED
    BY <2>1, <2>3, TypeFrame
<1>. QED
  BY <1>1, <1>2, <1>3, <1>4, <1>5, <1>6, <1>7, <1>8, <1>9, <1>10, <1>11, <1>12, <1>13, <1>14,
     <1>15 DEF Serve

LEMMA TypeStep == TypeInv /\ [Next]_vars => TypeInv'
<1>. SUFFICES ASSUME TypeInv, [Next]_vars PROVE TypeInv'
  OBVIOUS
<1>1. ASSUME UNCHANGED handler, UNCHANGED guardian, OtherTypes', TokenTypes'
      PROVE  TypeInv'
  BY <1>1 DEF TypeInv, TypeOK, OtherTypes, TokenTypes, At
<1>2. CASE UNCHANGED vars
  BY <1>1, <1>2, TypeParts DEF vars, OtherTypes, TokenTypes
<1>3. ASSUME NEW h \in Handler, Abandon(h) PROVE TypeInv'
  <2>1. Moves(h, Idle)
    BY <1>3, FinishMoves DEF Abandon
  <2>2. At(h, "expire") => handler[h].key \in Key
    BY DEF At, TypeInv, RecordInv, CountSteps
  <2>3. Untouched /\ OtherTypes'
    BY <1>3, <2>2, TypeParts DEF Abandon, tables, redis, Untouched, OtherTypes
  <2>. QED
    BY <2>1, <2>3, UntouchedKeeps, TypeFrame
<1>4. CASE Expiry
  <2>1. ASSUME NEW s \in Scope, ExpireCode(s) PROVE TypeInv'
    BY <1>1, <2>1, TypeParts DEF ExpireCode, tables, history, OtherTypes, TokenTypes
  <2>2. ASSUME NEW w \in Ward, ExpireToken(w) PROVE TypeInv'
    BY <1>1, <2>2, TypeParts DEF ExpireToken, tables, history, OtherTypes, TokenTypes
  <2>3. ASSUME NEW w \in Ward, ExpirePending(w) PROVE TypeInv'
    <3>1. pending' \in [Ward -> Row]
      BY <2>3, TypeParts DEF ExpirePending, OtherTypes, Row
    <3>. QED
      BY <1>1, <2>3, <3>1, TypeParts DEF ExpirePending, tables, history, OtherTypes, TokenTypes
  <2>4. ASSUME NEW k \in Key, ExpireCounter(k) PROVE TypeInv'
    BY <1>1, <2>4, TypeParts DEF ExpireCounter, tables, history, OtherTypes, TokenTypes
  <2>. QED
    BY <1>4, <2>1, <2>2, <2>3, <2>4 DEF Expiry
<1>. QED
  BY <1>2, <1>3, <1>4, CallTypes, ServeTypes DEF Next

LEMMA TypeInvariant == Spec => []TypeInv
  BY TypeInit, TypeStep, PTL DEF Spec

\* Rows, codes, counters and handlers always have the shapes the code gives
\* them: no handler ever lacks the contact, the code or the counter its next
\* step is about.
THEOREM TypeCorrect == Spec => []TypeOK
<1>1. TypeInv => TypeOK
  BY DEF TypeInv
<1>. QED
  BY <1>1, TypeInvariant, PTL

-----------------------------------------------------------------------------
(* The limit of wards.  A handler between its check under the lock and its *)
(* write has room, and is alone with its contact.                          *)

WardInv ==
  /\ \A c \in Contact : IsFiniteSet(WardsOf(c)) /\ Cardinality(WardsOf(c)) <= MaxWards
  /\ \A h \in Handler : At(h, "upsert") => HasRoom(handler[h].contact, handler[h].ward)
  /\ \A g, h \in Handler :
       At(g, "upsert") /\ At(h, "upsert") /\ handler[g].contact = handler[h].contact => g = h

\* A step that links nobody and takes no handler to its write.
WardFrame ==
  /\ \A w \in Ward : guardian'[w].contact = guardian[w].contact
  /\ \A g \in Handler : handler'[g].pc = "upsert" => handler'[g] = handler[g]

LEMMA WardInit == Init => WardInv
<1>. SUFFICES ASSUME Init PROVE WardInv
  OBVIOUS
<1>1. \A c \in Contact : WardsOf(c) = {}
  BY GuardianAssumption DEF Init, WardsOf, NoRow
<1>2. \A h \in Handler : ~At(h, "upsert")
  BY DEF Init, At, Idle
<1>3. \A c \in Contact : IsFiniteSet(WardsOf(c)) /\ Cardinality(WardsOf(c)) <= MaxWards
  BY <1>1, FS_EmptySet, GuardianAssumption
<1>. QED
  BY <1>2, <1>3 DEF WardInv

LEMMA WardFrameKeeps ==
  ASSUME WardInv, WardFrame
  PROVE  WardInv'
<1>1. \A c : WardsOf(c)' = WardsOf(c)
  BY DEF WardFrame, WardsOf
<1>2. \A h \in Handler : At(h, "upsert")' => At(h, "upsert") /\ handler'[h] = handler[h]
  BY DEF WardFrame, At
<1>3. \A h \in Handler : At(h, "upsert")' => HasRoom(handler[h].contact, handler[h].ward)'
  <2>. SUFFICES ASSUME NEW h \in Handler, At(h, "upsert")'
                PROVE  HasRoom(handler[h].contact, handler[h].ward)'
    OBVIOUS
  <2>1. HasRoom(handler[h].contact, handler[h].ward) /\ handler'[h] = handler[h]
    BY <1>2 DEF WardInv
  <2>. QED
    BY <1>1, <2>1 DEF HasRoom
<1>4. \A g, h \in Handler :
        At(g, "upsert")' /\ At(h, "upsert")' /\ handler'[g].contact = handler'[h].contact => g = h
  BY <1>2 DEF WardInv
<1>. QED
  BY <1>1, <1>3, <1>4 DEF WardInv

\* A handler whose next step is r, which is no write.
LEMMA MovesWardFrame ==
  ASSUME TypeInv, NEW h \in Handler, NEW r, Moves(h, r), r.pc # "upsert",
         \A w \in Ward : guardian'[w].contact = guardian[w].contact
  PROVE  WardFrame
<1>1. \A g \in Handler : handler'[g] = IF g = h THEN r ELSE handler[g]
  BY TypeParts DEF Moves
<1>. QED
  BY <1>1 DEF WardFrame

LEMMA WardLock ==
  ASSUME TypeInv, WardInv, NEW h \in Handler, AssertWardLimit(h)
  PROVE  WardInv'
<1>1. PICK r : /\ Moves(h, r) /\ r.pc = "upsert"
               /\ r.ward = handler[h].ward /\ r.contact = handler[h].contact
  BY AssertWardLimitMoves
<1>2. \A g \in Handler : handler'[g] = IF g = h THEN r ELSE handler[g]
  BY <1>1, TypeParts DEF Moves
<1>3. /\ HasRoom(handler[h].contact, handler[h].ward)
      /\ \A g \in Handler \ {h} : At(g, "upsert") => handler[g].contact # handler[h].contact
  BY DEF AssertWardLimit, ContactLocked
<1>4. \A c : WardsOf(c)' = WardsOf(c)
  BY DEF AssertWardLimit, tables, WardsOf
<1>5. ASSUME NEW g \in Handler, At(g, "upsert")'
      PROVE  HasRoom(handler[g].contact, handler[g].ward)'
  <2>1. /\ HasRoom(handler[g].contact, handler[g].ward)
        /\ handler'[g].contact = handler[g].contact /\ handler'[g].ward = handler[g].ward
    BY <1>1, <1>2, <1>3, <1>5 DEF At, WardInv
  <2>. QED
    BY <1>4, <2>1 DEF HasRoom
<1>6. ASSUME NEW f \in Handler, NEW g \in Handler, At(f, "upsert")', At(g, "upsert")',
             handler'[f].contact = handler'[g].contact
      PROVE  f = g
  BY <1>1, <1>2, <1>3, <1>6 DEF At, WardInv
<1>. QED
  BY <1>4, <1>5, <1>6 DEF WardInv

LEMMA WardUpsert ==
  ASSUME TypeInv, WardInv, NEW h \in Handler, Upsert(h)
  PROVE  WardInv'
<1>0. /\ handler[h].ward \in Ward /\ handler[h].contact \in Contact /\ At(h, "upsert")
      /\ \A v \in Ward : guardian'[v] =
           IF v = handler[h].ward
           THEN [contact |-> handler[h].contact, verified |-> handler[h].purpose = "signup"]
           ELSE guardian[v]
  <2>1. At(h, "upsert")
    BY DEF Upsert
  <2>. QED
    BY <2>1, UpsertMoves
<1>1. PICK c \in Contact, w \in Ward :
        /\ c = handler[h].contact /\ w = handler[h].ward
        /\ \A v \in Ward : guardian'[v].contact = IF v = w THEN c ELSE guardian[v].contact
  BY <1>0
<1>2. PICK r : Moves(h, r) /\ r.pc \in {"read", "drop"}
  BY UpsertMoves
<1>3. \A g \in Handler : handler'[g] = IF g = h THEN r ELSE handler[g]
  BY <1>2, TypeParts DEF Moves
<1>4. WardsOf(c)' = (WardsOf(c) \ {w}) \cup {w}
  BY <1>1 DEF WardsOf
<1>5. \A d \in Contact \ {c} : WardsOf(d)' \subseteq WardsOf(d)
  BY <1>1 DEF WardsOf
<1>6. IsFiniteSet(WardsOf(c)') /\ Cardinality(WardsOf(c)') <= MaxWards
  <2>1. IsFiniteSet(WardsOf(c)) /\ HasRoom(c, w)
    BY <1>0, <1>1 DEF WardInv
  <2>2. PICK S : S = WardsOf(c) \ {w}
    OBVIOUS
  <2>3. IsFiniteSet(S)
    BY <2>1, <2>2, FS_RemoveElement
  <2>4. Cardinality(S) \in Nat /\ Cardinality(S) < MaxWards
    BY <2>1, <2>2, <2>3, FS_CardinalityType DEF HasRoom
  <2>5. IsFiniteSet(S \cup {w}) /\ Cardinality(S \cup {w}) = Cardinality(S) + 1
    BY <2>2, <2>3, FS_AddElement
  <2>6. Cardinality(S \cup {w}) <= MaxWards
    BY <2>4, <2>5, GuardianAssumption
  <2>. QED
    BY <1>4, <2>2, <2>5, <2>6
<1>7. \A d \in Contact \ {c} :
        IsFiniteSet(WardsOf(d)') /\ Cardinality(WardsOf(d)') <= Cardinality(WardsOf(d))
        /\ IsFiniteSet(WardsOf(d)) /\ Cardinality(WardsOf(d)) <= MaxWards
  BY <1>5, FS_Subset DEF WardInv
<1>8. ASSUME NEW d \in Contact
      PROVE  IsFiniteSet(WardsOf(d)') /\ Cardinality(WardsOf(d)') <= MaxWards
  <2>1. CASE d = c
    BY <1>6, <2>1
  <2>2. CASE d # c
    <3>1. Cardinality(WardsOf(d)') \in Nat /\ Cardinality(WardsOf(d)) \in Nat
      BY <1>7, <2>2, FS_CardinalityType
    <3>. QED
      BY <1>7, <2>2, <3>1, GuardianAssumption
  <2>. QED
    BY <2>1, <2>2
\* The other handlers at their write have other contacts.
<1>9. ASSUME NEW g \in Handler, At(g, "upsert")'
      PROVE  /\ g # h /\ handler'[g] = handler[g] /\ At(g, "upsert")
             /\ HasRoom(handler[g].contact, handler[g].ward)'
  <2>1. g # h /\ handler'[g] = handler[g] /\ At(g, "upsert")
    BY <1>2, <1>3, <1>9 DEF At
  <2>a. PICK d \in Contact : d = handler[g].contact
    BY <2>1 DEF At, TypeInv, RecordInv, ContactSteps, KnowsContact
  <2>b. PICK v : v = handler[g].ward
    OBVIOUS
  <2>2. d = handler[g].contact /\ v = handler[g].ward
    BY <2>a, <2>b
  <2>3. d # c /\ HasRoom(d, v)
    BY <1>0, <1>1, <2>1, <2>2 DEF WardInv
  <2>4. WardsOf(d)' \ {v} \subseteq WardsOf(d) \ {v} /\ IsFiniteSet(WardsOf(d) \ {v})
    BY <1>5, <1>7, <2>3, FS_RemoveElement
  <2>5. /\ IsFiniteSet(WardsOf(d)' \ {v})
        /\ Cardinality(WardsOf(d)' \ {v}) <= Cardinality(WardsOf(d) \ {v})
    BY <2>4, FS_Subset
  <2>6. Cardinality(WardsOf(d)' \ {v}) < MaxWards
    BY <2>3, <2>4, <2>5, FS_CardinalityType, GuardianAssumption DEF HasRoom
  <2>. QED
    BY <2>1, <2>2, <2>6 DEF HasRoom
<1>10. \A f, g \in Handler :
         At(f, "upsert")' /\ At(g, "upsert")' /\ handler'[f].contact = handler'[g].contact => f = g
  BY <1>9 DEF WardInv
<1>. QED
  BY <1>8, <1>9, <1>10 DEF WardInv

LEMMA WardStep == TypeInv /\ WardInv /\ [Next]_vars => WardInv'
<1>. SUFFICES ASSUME TypeInv, WardInv, [Next]_vars PROVE WardInv'
  OBVIOUS
<1>1. CASE UNCHANGED <<guardian, handler>>
  BY <1>1, WardFrameKeeps DEF WardFrame
<1>2. ASSUME NEW h \in Handler, Call(h) PROVE WardInv'
  <2>1. UNCHANGED guardian
    BY <1>2 DEF Call, LinkBegin, SignupStart, CreateAccount, FinalizeTake, IssueBegin, VerifyBegin,
       tables
  <2>2. PICK r : Moves(h, r) /\ r.pc # "upsert"
    <3>1. ASSUME NEW w \in Ward, NEW c \in Contact, LinkBegin(h, w, c) \/ SignupStart(h, w, c)
          PROVE  \E r : Moves(h, r) /\ r.pc # "upsert"
      BY <3>1, CallMoves
    <3>2. ASSUME NEW w \in Ward, CreateAccount(h, w)
          PROVE  \E r : Moves(h, r) /\ r.pc # "upsert"
      BY <3>2, CreateAccountMoves
    <3>3. ASSUME NEW w \in Ward, FinalizeTake(h, w)
          PROVE  \E r : Moves(h, r) /\ r.pc # "upsert"
      BY <3>3, FinalizeTakeMoves
    <3>4. ASSUME NEW w \in Ward, NEW p \in Purpose, IssueBegin(h, w, p)
          PROVE  \E r : Moves(h, r) /\ r.pc # "upsert"
      BY <3>4, IssueBeginMoves
    <3>5. ASSUME NEW w \in Ward, NEW p \in Purpose, NEW k \in Code, VerifyBegin(h, w, p, k)
          PROVE  \E r : Moves(h, r) /\ r.pc # "upsert"
      BY <3>5, VerifyBeginMoves
    <3>. QED
      BY <1>2, <3>1, <3>2, <3>3, <3>4, <3>5 DEF Call
  <2>. QED
    BY <2>1, <2>2, MovesWardFrame, WardFrameKeeps
<1>3. ASSUME NEW h \in Handler, Serve(h), ~AssertWardLimit(h), ~Upsert(h) PROVE WardInv'
  <2>1. PICK r : Moves(h, r) /\ r.pc # "upsert"
    <3>1. CASE CountHit(h) \/ SetExpiry(h)
      BY <3>1, CountHitMoves, SetExpiryMoves
    <3>2. CASE LinkReadBack(h) \/ SignupWrite(h)
      BY <3>2, LinkReadBackMoves, SignupWriteMoves
    <3>3. CASE HookRead(h)
      BY <3>3, HookReadMoves
    <3>4. CASE Compare(h)
      <4>1. PICK r : Moves(h, r) /\ (r.pc \in ActSteps \/ r.pc = "idle")
        BY <3>4, CompareMoves
      <4>. QED
        BY <4>1 DEF ActSteps
    <3>5. CASE VerifyConsents(h)
      BY <3>5, ConsentMoves
    <3>6. CASE \/ HookDropPending(h) \/ (\E k \in Code : IssueCode(h, k))
               \/ SetGuardianVerified(h) \/ SignupFlip(h) \/ Effect(h) \/ PutToken(h)
               \/ FinalizeCommit(h) \/ FinalizePutBack(h)
      <4>1. Finish(h)
        BY <3>6 DEF HookDropPending, IssueCode, SetGuardianVerified, SignupFlip, Effect,
           PutToken, FinalizeCommit, FinalizePutBack
      <4>. QED
        BY <4>1, FinishMoves
    <3>. QED
      BY <1>3, <3>1, <3>2, <3>3, <3>4, <3>5, <3>6 DEF Serve
  <2>2. \A w \in Ward : guardian'[w].contact = guardian[w].contact
    <3>1. CASE SetGuardianVerified(h)
      <4>1. guardian \in [Ward -> Row] /\ handler[h].ward \in Ward
        BY <3>1, TypeParts DEF SetGuardianVerified, At, RecordInv
      <4>. QED
        BY <3>1, <4>1 DEF SetGuardianVerified, Row, NoRow
    <3>2. CASE ~SetGuardianVerified(h)
      <4>1. UNCHANGED guardian
        BY <1>3, <3>2 DEF Serve, CountHit, SetExpiry, LinkReadBack, SignupWrite, HookRead,
           HookDropPending, IssueCode, Compare, VerifyConsents, SignupFlip, Effect, PutToken,
           FinalizeCommit, FinalizePutBack, tables
      <4>. QED
        BY <4>1
    <3>. QED
      BY <3>1, <3>2
  <2>. QED
    BY <2>1, <2>2, MovesWardFrame, WardFrameKeeps
<1>4. ASSUME NEW h \in Handler, Abandon(h) PROVE WardInv'
  <2>1. Moves(h, Idle) /\ Idle.pc = "idle" /\ UNCHANGED guardian
    BY <1>4, FinishMoves DEF Abandon, tables
  <2>. QED
    BY <2>1, MovesWardFrame, WardFrameKeeps
<1>5. CASE Expiry
  BY <1>1, <1>5 DEF Expiry, ExpireCode, ExpireToken, ExpirePending, ExpireCounter, tables
<1>. QED
  BY <1>1, <1>2, <1>3, <1>4, <1>5, WardLock, WardUpsert DEF Next, vars, Serve

\* No guardian ever has more wards than the limit, however many links and new
\* accounts with the same contact race: the limit is counted again under a lock
\* that is held until the row is written.
THEOREM WardLimitHolds == Spec => []WardLimit
<1>1. Spec => []WardInv
  BY TypeInvariant, WardInit, WardStep, PTL DEF Spec
<1>2. WardInv => WardLimit
  BY DEF WardInv, WardLimit
<1>. QED
  BY <1>1, <1>2, PTL

-----------------------------------------------------------------------------
(* Counters.  The property is inductive: only the handler that counted the *)
(* first hit leaves a counter without an expiry, and it is about to set it.*)

LEMMA CounterInit == Init => CountersExpire
  BY DEF Init, CountersExpire

\* A step that neither counts nor moves a handler about to set an expiry.
CounterFrame ==
  /\ counter' = counter /\ stuck' = stuck
  /\ \A g \in Handler : At(g, "expire") => handler'[g] = handler[g]

LEMMA CounterFrameKeeps ==
  ASSUME CountersExpire, CounterFrame
  PROVE  CountersExpire'
<1>. SUFFICES ASSUME NEW k \in Key, counter[k].n > 0, ~counter[k].timed, k \notin stuck
              PROVE  \E g \in Handler : At(g, "expire")' /\ handler'[g].key = k
  BY DEF CountersExpire, CounterFrame
<1>1. PICK g \in Handler : At(g, "expire") /\ handler[g].key = k
  BY DEF CountersExpire
<1>. QED
  BY <1>1 DEF CounterFrame, At

LEMMA CountHitKeeps ==
  ASSUME TypeInv, CountersExpire, NEW h \in Handler, CountHit(h)
  PROVE  CountersExpire'
<1>1. PICK q \in Key : q = handler[h].key
  BY DEF CountHit, At, TypeInv, RecordInv, CountSteps
<1>2. PICK r : Moves(h, r) /\ (FirstHit(counter'[q].n) => r.pc = "expire" /\ r.key = q)
  BY <1>1, CountHitMoves
<1>3. /\ \A g \in Handler : handler'[g] = IF g = h THEN r ELSE handler[g]
      /\ handler[h].pc = "count" /\ stuck' = stuck
  BY <1>2, TypeParts DEF Moves, CountHit, At, history
<1>4. /\ counter \in [Key -> [n: Nat, timed: BOOLEAN]]
      /\ counter' = [counter EXCEPT ![q].n =
           IF counter[q].n > Limit(q) THEN counter[q].n ELSE counter[q].n + 1]
  BY <1>1, TypeParts DEF CountHit, OtherTypes
<1>5. /\ \A k \in Key \ {q} : counter'[k] = counter[k]
      /\ counter'[q].timed = counter[q].timed
      /\ counter'[q].n = IF counter[q].n > Limit(q) THEN counter[q].n ELSE counter[q].n + 1
      /\ counter[q].n \in Nat
  BY <1>4
<1>. SUFFICES ASSUME NEW k \in Key, counter'[k].n > 0, ~counter'[k].timed, k \notin stuck
              PROVE  \E g \in Handler : At(g, "expire")' /\ handler'[g].key = k
  BY <1>3 DEF CountersExpire
<1>6. CASE k = q /\ FirstHit(counter'[q].n)
  BY <1>2, <1>3, <1>6 DEF At
<1>7. CASE k # q \/ ~FirstHit(counter'[q].n)
  <2>1. counter[k].n > 0 /\ ~counter[k].timed
    BY <1>5, <1>7, KeyFacts DEF FirstHit
  <2>2. PICK g \in Handler : At(g, "expire") /\ handler[g].key = k
    BY <2>1 DEF CountersExpire
  <2>. QED
    BY <1>3, <2>2 DEF At
<1>. QED
  BY <1>6, <1>7

LEMMA CounterStep == TypeInv /\ CountersExpire /\ [Next]_vars => CountersExpire'
<1>. SUFFICES ASSUME TypeInv, CountersExpire, [Next]_vars PROVE CountersExpire'
  OBVIOUS
<1>1. CASE UNCHANGED <<counter, stuck, handler>>
  BY <1>1, CounterFrameKeeps DEF CounterFrame
<1>2. ASSUME NEW h \in Handler, NEW r, handler' = [handler EXCEPT ![h] = r],
             UNCHANGED <<counter, stuck>>, ~At(h, "expire")
      PROVE  CountersExpire'
  <2>1. \A g \in Handler \ {h} : handler'[g] = handler[g]
    BY <1>2, TypeParts
  <2>2. CounterFrame
    BY <1>2, <2>1 DEF CounterFrame
  <2>. QED
    BY <2>2, CounterFrameKeeps
<1>3. ASSUME NEW h \in Handler, Call(h) PROVE CountersExpire'
  <2>1. At(h, "idle") /\ UNCHANGED <<counter, stuck>>
    BY <1>3 DEF Call, LinkBegin, SignupStart, CreateAccount, FinalizeTake, IssueBegin, VerifyBegin,
       redis, history
  <2>2. \E r : handler' = [handler EXCEPT ![h] = r]
    BY <1>3, Zenon DEF Call, LinkBegin, SignupStart, CreateAccount, FinalizeTake, IssueBegin,
       VerifyBegin, Begin
  <2>. QED
    BY <1>2, <2>1, <2>2 DEF At
<1>4. ASSUME NEW h \in Handler, SetExpiry(h) PROVE CountersExpire'
  <2>1. PICK q \in Key : q = handler[h].key
    BY <1>4 DEF SetExpiry, At, TypeInv, RecordInv, CountSteps
  <2>2. PICK r : handler' = [handler EXCEPT ![h] = r]
    BY <1>4, Zenon DEF SetExpiry, Begin
  <2>3. /\ counter'[q].timed /\ \A k \in Key \ {q} : counter'[k] = counter[k]
        /\ stuck' = stuck
    BY <1>4, <2>1, TypeParts DEF SetExpiry, OtherTypes, history
  <2>4. \A g \in Handler \ {h} : handler'[g] = handler[g]
    BY <2>2, TypeParts
  <2>. SUFFICES ASSUME NEW k \in Key, counter'[k].n > 0, ~counter'[k].timed, k \notin stuck
                PROVE  \E g \in Handler : At(g, "expire")' /\ handler'[g].key = k
    BY <2>3 DEF CountersExpire
  <2>5. k # q /\ counter[k].n > 0 /\ ~counter[k].timed
    BY <2>3
  <2>6. PICK g \in Handler : At(g, "expire") /\ handler[g].key = k
    BY <2>5 DEF CountersExpire
  <2>. QED
    BY <2>1, <2>4, <2>5, <2>6 DEF At
<1>5. ASSUME NEW h \in Handler, Serve(h), ~CountHit(h), ~SetExpiry(h) PROVE CountersExpire'
  <2>1. ~At(h, "expire") /\ UNCHANGED <<counter, stuck>>
    BY <1>5 DEF Serve, AssertWardLimit, Upsert, LinkReadBack, SignupWrite, HookRead,
       HookDropPending, IssueCode, Compare, VerifyConsents, SetGuardianVerified, SignupFlip,
       Effect, PutToken, FinalizeCommit, FinalizePutBack, Act, At, redis, history
  <2>2. \E r : handler' = [handler EXCEPT ![h] = r]
    <3>1. CASE AssertWardLimit(h) \/ Upsert(h) \/ LinkReadBack(h) \/ SignupWrite(h)
      BY <3>1, Zenon DEF AssertWardLimit, Upsert, LinkReadBack, SignupWrite, Goto, Begin
    <3>2. CASE HookRead(h) \/ Compare(h)
      BY <3>2, Zenon DEF HookRead, Compare, Goto, Finish, Begin
    <3>3. CASE VerifyConsents(h)
      BY <3>3, Zenon DEF VerifyConsents, Goto, Begin
    <3>4. CASE \/ HookDropPending(h) \/ (\E k \in Code : IssueCode(h, k))
               \/ SetGuardianVerified(h) \/ SignupFlip(h) \/ Effect(h) \/ PutToken(h)
               \/ FinalizeCommit(h) \/ FinalizePutBack(h)
      BY <3>4, Zenon DEF HookDropPending, IssueCode, SetGuardianVerified, SignupFlip, Effect,
         PutToken, FinalizeCommit, FinalizePutBack, Finish, Begin
    <3>. QED
      BY <1>5, <3>1, <3>2, <3>3, <3>4 DEF Serve
  <2>. QED
    BY <1>2, <2>1, <2>2
<1>6. ASSUME NEW h \in Handler, Abandon(h) PROVE CountersExpire'
  <2>1. /\ counter' = counter
        /\ stuck' = IF At(h, "expire") THEN stuck \cup {handler[h].key} ELSE stuck
        /\ \A g \in Handler \ {h} : handler'[g] = handler[g]
    BY <1>6, TypeParts DEF Abandon, Finish, Begin, redis
  <2>. SUFFICES ASSUME NEW k \in Key, counter[k].n > 0, ~counter[k].timed, k \notin stuck'
                PROVE  \E g \in Handler : At(g, "expire")' /\ handler'[g].key = k
    BY <2>1 DEF CountersExpire
  <2>2. PICK g \in Handler : At(g, "expire") /\ handler[g].key = k
    BY <2>1 DEF CountersExpire
  <2>. QED
    BY <2>1, <2>2 DEF At
<1>7. CASE Expiry
  <2>1. ASSUME NEW q \in Key, ExpireCounter(q) PROVE CountersExpire'
    <3>1. /\ \A k \in Key \ {q} : counter'[k] = counter[k]
          /\ counter'[q].n = 0 /\ stuck' = stuck /\ handler' = handler
      BY <2>1, TypeParts DEF ExpireCounter, OtherTypes, history
    <3>. QED
      BY <3>1 DEF CountersExpire, At
  <2>2. CASE ~\E k \in Key : ExpireCounter(k)
    BY <1>1, <1>7, <2>2 DEF Expiry, ExpireCode, ExpireToken, ExpirePending, history
  <2>. QED
    BY <2>1, <2>2
<1>. QED
  BY <1>1, <1>3, <1>4, <1>5, <1>6, <1>7, CountHitKeeps DEF Next, vars, Serve

\* A counter without an expiry, which would refuse for ever, belongs to a
\* request between INCR and EXPIRE, or to one that died there.
THEOREM CountersExpireHolds == Spec => []CountersExpire
  BY TypeInvariant, CounterInit, CounterStep, PTL DEF Spec

-----------------------------------------------------------------------------
(* Codes.  A code is in one place at a time: stored, in the hands of the   *)
(* request that matched it, left as a token, or acted upon; and wherever   *)
(* it is, it stands for the ward and the purpose it was issued for.        *)

\* Steps of a request that has matched a code and not acted upon it yet.
HoldSteps == {"consent", "flip", "token", "effect", "finalize"}
Holds(h, k) == handler[h].pc \in HoldSteps /\ handler[h].code = k

\* What the guardian was asked with code k.
AskedBy(k) == <<issued[k].ward, issued[k].purpose>>

PlacesInv ==
  /\ \A k \in Code, s \in Scope : code[s] = k => AskedBy(k) = s
  /\ \A k \in Code, w \in Ward : token[w] = k => AskedBy(k) = <<w, "create">>
  /\ \A k \in Code, h \in Handler :
       Holds(h, k) => AskedBy(k) = <<handler[h].ward, handler[h].purpose>>
  /\ \A k \in Code : effects[k] # << >> => effects[k] = <<AskedBy(k)>> /\ issued[k] # NotIssued

OnePlaceInv ==
  /\ \A k \in Code, s \in Scope, w \in Ward : ~(code[s] = k /\ token[w] = k)
  /\ \A k \in Code, s \in Scope, h \in Handler : ~(code[s] = k /\ Holds(h, k))
  /\ \A k \in Code, w \in Ward, h \in Handler : ~(token[w] = k /\ Holds(h, k))
  /\ \A k \in Code, g, h \in Handler : Holds(g, k) /\ Holds(h, k) => g = h
  /\ \A k \in Code, s \in Scope : code[s] = k => effects[k] = << >>
  /\ \A k \in Code, w \in Ward : token[w] = k => effects[k] = << >>
  /\ \A k \in Code, h \in Handler : Holds(h, k) => effects[k] = << >>

TicketInv == PlacesInv /\ OnePlaceInv

LEMMA TicketInit == Init => TicketInv
  BY GuardianAssumption
  DEF Init, TicketInv, PlacesInv, OnePlaceInv, Holds, HoldSteps, Idle

\* A step that issues no code, acts upon none and moves none to a new place.
TicketFrame ==
  /\ \A s \in Scope : code'[s] = code[s] \/ code'[s] = NoCode
  /\ \A w \in Ward : token'[w] = token[w] \/ token'[w] = NoCode
  /\ \A g \in Handler : handler'[g].pc \in HoldSteps => handler'[g] = handler[g]
  /\ issued' = issued /\ effects' = effects

LEMMA TicketFrameKeeps ==
  ASSUME TicketInv, TicketFrame
  PROVE  TicketInv'
<1>1. /\ \A k \in Code, s \in Scope : code'[s] = k => code[s] = k
      /\ \A k \in Code, w \in Ward : token'[w] = k => token[w] = k
      /\ \A k \in Code : AskedBy(k)' = AskedBy(k) /\ effects'[k] = effects[k]
  BY GuardianAssumption DEF TicketFrame, AskedBy
<1>2. \A k \in Code, g \in Handler :
        Holds(g, k)' => /\ Holds(g, k) /\ handler'[g].ward = handler[g].ward
                        /\ handler'[g].purpose = handler[g].purpose
  BY DEF TicketFrame, Holds
<1>3. PlacesInv'
  BY <1>1, <1>2 DEF TicketFrame, TicketInv, PlacesInv
<1>4. OnePlaceInv'
  BY <1>1, <1>2 DEF TicketInv, OnePlaceInv
<1>. QED
  BY <1>3, <1>4 DEF TicketInv

\* A code that is nowhere yet takes the place of the scope's former one.
LEMMA IssueTickets ==
  ASSUME TypeInv, TicketInv, NEW h \in Handler, NEW k \in Code, IssueCode(h, k)
  PROVE  TicketInv'
<1>1. /\ handler[h].ward \in Ward /\ handler[h].purpose \in Asks[handler[h].ward]
      /\ handler[h].contact \in Contact
  BY DEF IssueCode, At, TypeInv, RecordInv, ScopeSteps, ContactSteps, KnowsContact
<1>2. PICK t \in Scope : t = <<handler[h].ward, handler[h].purpose>> /\ t = ScopeOfHandler(h)
  BY <1>1, ScopeFacts DEF ScopeOfHandler, ScopeOf
<1>3. /\ issued \in [Code -> Issue \cup {NotIssued}] /\ issued[k] = NotIssued
      /\ issued' = [issued EXCEPT ![k] = [ward |-> handler[h].ward,
                     purpose |-> handler[h].purpose, contact |-> handler[h].contact]]
      /\ code \in [Scope -> Code \cup {NoCode}] /\ code' = [code EXCEPT ![t] = k]
      /\ token' = token /\ effects' = effects
  BY <1>2, TypeParts DEF OtherTypes, IssueCode
<1>4. AskedBy(k)' = t /\ issued'[k] # NotIssued
  BY <1>1, <1>2, <1>3, GuardianAssumption DEF AskedBy, NotIssued
<1>5. /\ \A j \in Code \ {k} : AskedBy(j)' = AskedBy(j) /\ issued'[j] = issued[j]
      /\ \A s \in Scope : code'[s] = IF s = t THEN k ELSE code[s]
  BY <1>3 DEF AskedBy
<1>6. Moves(h, Idle) /\ Idle.pc = "idle"
  BY FinishMoves DEF IssueCode
<1>7. /\ \A g \in Handler : handler'[g] = IF g = h THEN Idle ELSE handler[g]
      /\ \A j \in Code, g \in Handler :
           Holds(g, j)' => /\ Holds(g, j) /\ handler'[g].ward = handler[g].ward
                           /\ handler'[g].purpose = handler[g].purpose
  BY <1>6, TypeParts DEF Moves, Holds, HoldSteps
\* The code was nowhere.
<1>8. AskedBy(k)[1] = NoWard
  BY <1>3 DEF AskedBy, NotIssued
<1>9. /\ \A s \in Scope : code[s] # k
      /\ \A w \in Ward : token[w] # k
      /\ \A g \in Handler : ~Holds(g, k)
      /\ effects[k] = << >>
  <2>1. \A s \in Scope : s[1] \in Ward
    BY DEF Scope
  <2>2. \A s \in Scope : code[s] # k
    BY <1>8, <2>1, GuardianAssumption DEF TicketInv, PlacesInv
  <2>3. \A w \in Ward : token[w] # k
    BY <1>8, GuardianAssumption DEF TicketInv, PlacesInv
  <2>4. ASSUME NEW g \in Handler, Holds(g, k) PROVE FALSE
    <3>1. handler[g].ward \in Ward
      BY <2>4 DEF Holds, HoldSteps, TypeInv, RecordInv
    <3>. QED
      BY <1>8, <2>4, <3>1, GuardianAssumption DEF TicketInv, PlacesInv
  <2>5. effects[k] = << >>
    BY <1>3 DEF TicketInv, PlacesInv
  <2>. QED
    BY <2>2, <2>3, <2>4, <2>5
<1>10. PlacesInv'
  BY <1>3, <1>4, <1>5, <1>7, <1>9 DEF TicketInv, PlacesInv
<1>11. OnePlaceInv'
  BY <1>3, <1>5, <1>7, <1>9 DEF TicketInv, OnePlaceInv
<1>. QED
  BY <1>10, <1>11 DEF TicketInv

\* A match takes the code out of the store and into the hands of the request.
LEMMA CompareTickets ==
  ASSUME TypeInv, TicketInv, NEW h \in Handler, Compare(h)
  PROVE  TicketInv'
<1>1. PICK t \in Scope : t = <<handler[h].ward, handler[h].purpose>> /\ t = ScopeOfHandler(h)
  BY CompareMoves
<1>2. PICK r : /\ Moves(h, r)
               /\ IF code[t] = handler[h].code
                  THEN /\ r.pc \in ActSteps /\ r.ward = handler[h].ward
                       /\ r.purpose = handler[h].purpose /\ r.code = handler[h].code
                  ELSE r.pc = "idle"
  BY <1>1, CompareMoves
<1>3. /\ \A g \in Handler : handler'[g] = IF g = h THEN r ELSE handler[g]
      /\ ~\E k : Holds(h, k)
  BY <1>2, TypeParts DEF Moves, Compare, At, Holds, HoldSteps
<1>4. token' = token /\ issued' = issued /\ effects' = effects
  BY DEF Compare, history
<1>5. CASE code[t] # handler[h].code
  <2>1. code' = code
    BY <1>1, <1>5 DEF Compare
  <2>2. TicketFrame
    BY <1>2, <1>3, <1>4, <1>5, <2>1 DEF TicketFrame, HoldSteps
  <2>. QED
    BY <2>2, TicketFrameKeeps
<1>6. CASE code[t] = handler[h].code
  <2>1. PICK k \in Code : k = handler[h].code
    BY DEF Compare, At, TypeInv, RecordInv, CodeSteps
  <2>2. \A s \in Scope : code'[s] = IF s = t THEN NoCode ELSE code[s]
    BY <1>1, <1>6, TypeParts DEF Compare, Consumed, OtherTypes
  <2>3. /\ \A j \in Code : AskedBy(j)' = AskedBy(j)
        /\ AskedBy(k) = t /\ code[t] = k
        /\ AskedBy(k) = <<handler'[h].ward, handler'[h].purpose>>
    BY <1>1, <1>2, <1>3, <1>4, <1>6, <2>1 DEF AskedBy, TicketInv, PlacesInv
\* It was stored nowhere else.
  <2>4. \A s \in Scope : code'[s] # k
    BY <2>2, <2>3, GuardianAssumption DEF TicketInv, PlacesInv
  <2>5. \A j \in Code, s \in Scope : code'[s] = j => code[s] = j
    BY <2>2, GuardianAssumption
  <2>6. /\ \A j \in Code, g \in Handler : Holds(g, j)' =>
             \/ g = h /\ j = k
             \/ /\ Holds(g, j) /\ handler'[g].ward = handler[g].ward
                /\ handler'[g].purpose = handler[g].purpose
    BY <1>2, <1>3, <1>6, <2>1 DEF Holds
  <2>7. /\ \A w \in Ward : token[w] # k
        /\ \A g \in Handler : ~Holds(g, k)
        /\ effects[k] = << >>
    BY <2>3 DEF TicketInv, OnePlaceInv
  <2>8. PlacesInv'
    BY <1>4, <2>3, <2>5, <2>6 DEF TicketInv, PlacesInv
  <2>9. OnePlaceInv'
    BY <1>4, <2>4, <2>5, <2>6, <2>7 DEF TicketInv, OnePlaceInv
  <2>. QED
    BY <2>8, <2>9 DEF TicketInv
<1>. QED
  BY <1>5, <1>6

\* A handler that acts upon its code gives it up.
LEMMA ActTickets ==
  ASSUME TypeInv, TicketInv, NEW h \in Handler, NEW r, Moves(h, r), r.pc \notin HoldSteps,
         handler[h].pc \in HoldSteps, Act(h), UNCHANGED <<code, token>>
  PROVE  TicketInv'
<1>1. PICK k \in Code : k = handler[h].code /\ Holds(h, k)
  BY ActFacts DEF Holds, HoldSteps, CodeSteps
<1>2. /\ \A j \in Code : effects'[j] =
           IF j = k THEN Append(effects[j], <<handler[h].ward, handler[h].purpose>>)
           ELSE effects[j]
      /\ issued' = issued
  BY <1>1, ActTypes DEF HoldSteps, CodeSteps
<1>3. \A j \in Code : AskedBy(j)' = AskedBy(j) /\ issued'[j] = issued[j]
  BY <1>2 DEF AskedBy
<1>4. effects[k] = << >> /\ AskedBy(k) = <<handler[h].ward, handler[h].purpose>>
  BY <1>1 DEF TicketInv, PlacesInv, OnePlaceInv
<1>5. effects'[k] = <<AskedBy(k)>>
  <2>1. PICK s \in Scope : s = <<handler[h].ward, handler[h].purpose>>
    BY ActFacts DEF HoldSteps, CodeSteps
  <2>2. effects'[k] = Append(<< >>, s) /\ AskedBy(k) = s
    BY <1>2, <1>4, <2>1
  <2>3. Append(<< >>, s) = <<s>>
    OBVIOUS
  <2>. QED
    BY <2>2, <2>3
<1>6. issued[k] # NotIssued
  <2>1. handler[h].ward \in Ward
    BY ActFacts DEF HoldSteps, CodeSteps
  <2>. QED
    BY <1>4, <2>1, GuardianAssumption DEF AskedBy, NotIssued
<1>7. /\ \A g \in Handler : handler'[g] = IF g = h THEN r ELSE handler[g]
      /\ \A j \in Code, g \in Handler :
           Holds(g, j)' => /\ g # h /\ Holds(g, j) /\ handler'[g].ward = handler[g].ward
                           /\ handler'[g].purpose = handler[g].purpose
  BY TypeParts DEF Moves, Holds
<1>8. /\ \A s \in Scope : code[s] # k
      /\ \A w \in Ward : token[w] # k
      /\ \A g \in Handler \ {h} : ~Holds(g, k)
  BY <1>1 DEF TicketInv, OnePlaceInv
<1>9. PlacesInv'
  BY <1>2, <1>3, <1>5, <1>6, <1>7 DEF TicketInv, PlacesInv
<1>10. OnePlaceInv'
  BY <1>2, <1>7, <1>8 DEF TicketInv, OnePlaceInv
<1>. QED
  BY <1>9, <1>10 DEF TicketInv

\* A handler leaves its code as a token, in place of a former one.
LEMMA TokenTickets ==
  ASSUME TypeInv, TicketInv, NEW h \in Handler, PutToken(h) \/ FinalizePutBack(h)
  PROVE  TicketInv'
<1>1. handler[h].pc \in {"token", "finalize"}
  BY DEF PutToken, FinalizePutBack, At
<1>2. PICK k \in Code, v \in Ward : k = handler[h].code /\ v = handler[h].ward /\ Holds(h, k)
  BY <1>1, ActFacts DEF CodeSteps, Holds, HoldSteps
<1>3. AskedBy(k) = <<v, "create">>
  BY <1>1, <1>2 DEF TypeInv, RecordInv, TicketInv, PlacesInv
<1>4. /\ \A w \in Ward : token'[w] = IF w = v THEN k ELSE token[w]
      /\ code' = code /\ issued' = issued /\ effects' = effects
  BY <1>2, TypeParts DEF TokenTypes, PutToken, FinalizePutBack, history
<1>5. Moves(h, Idle) /\ Idle.pc = "idle"
  BY FinishMoves DEF PutToken, FinalizePutBack
<1>6. /\ \A j \in Code : AskedBy(j)' = AskedBy(j) /\ issued'[j] = issued[j]
      /\ \A g \in Handler : handler'[g] = IF g = h THEN Idle ELSE handler[g]
      /\ \A j \in Code, g \in Handler :
           Holds(g, j)' => /\ g # h /\ Holds(g, j) /\ handler'[g].ward = handler[g].ward
                           /\ handler'[g].purpose = handler[g].purpose
  BY <1>4, <1>5, TypeParts DEF AskedBy, Moves, Holds, HoldSteps
<1>7. /\ \A s \in Scope : code[s] # k
      /\ \A w \in Ward : token[w] # k
      /\ \A g \in Handler \ {h} : ~Holds(g, k)
      /\ effects[k] = << >>
  BY <1>2 DEF TicketInv, OnePlaceInv
<1>8. PlacesInv'
  BY <1>3, <1>4, <1>6 DEF TicketInv, PlacesInv
<1>9. OnePlaceInv'
  BY <1>4, <1>6, <1>7 DEF TicketInv, OnePlaceInv
<1>. QED
  BY <1>8, <1>9 DEF TicketInv

\* A request takes the token, which is then nowhere else.
LEMMA FinalizeTickets ==
  ASSUME TypeInv, TicketInv, NEW h \in Handler, NEW v \in Ward, FinalizeTake(h, v)
  PROVE  TicketInv'
<1>1. PICK r : /\ Moves(h, r) /\ r.pc = "finalize" /\ r.ward = v /\ r.code = token[v]
  BY FinalizeTakeMoves
<1>2. PICK k \in Code : k = token[v]
  BY TypeParts DEF TokenTypes, FinalizeTake
<1>3. r.purpose = "create"
  BY <1>1 DEF Moves, RecordInv
<1>4. /\ \A w \in Ward : token'[w] = IF w = v THEN NoCode ELSE token[w]
      /\ code' = code /\ issued' = issued /\ effects' = effects
  BY TypeParts DEF TokenTypes, FinalizeTake, Taken, history
<1>5. /\ \A j \in Code : AskedBy(j)' = AskedBy(j) /\ issued'[j] = issued[j]
      /\ AskedBy(k) = <<v, "create">>
  BY <1>2, <1>4 DEF AskedBy, TicketInv, PlacesInv
<1>6. \A j \in Code, w \in Ward : token'[w] = j => token[w] = j /\ j # k
  <2>1. \A w \in Ward \ {v} : token[w] # k
    BY <1>5 DEF TicketInv, PlacesInv
  <2>. QED
    BY <1>2, <1>4, <2>1, GuardianAssumption
<1>7. /\ handler'[h] = r /\ \A g \in Handler \ {h} : handler'[g] = handler[g]
      /\ \A j \in Code, g \in Handler : Holds(g, j)' =>
           \/ g = h /\ j = k
           \/ /\ Holds(g, j) /\ handler'[g].ward = handler[g].ward
              /\ handler'[g].purpose = handler[g].purpose
  BY <1>1, <1>2, TypeParts DEF Moves, Holds
<1>8. /\ \A s \in Scope : code[s] # k
      /\ \A g \in Handler : ~Holds(g, k)
      /\ effects[k] = << >>
  BY <1>2 DEF TicketInv, OnePlaceInv
<1>9. PlacesInv'
  BY <1>1, <1>3, <1>4, <1>5, <1>6, <1>7 DEF TicketInv, PlacesInv
<1>10. OnePlaceInv'
  BY <1>4, <1>6, <1>7, <1>8 DEF TicketInv, OnePlaceInv
<1>. QED
  BY <1>9, <1>10 DEF TicketInv

\* A step of handler h that leaves it without a new code.
LEMMA MovesTicketFrame ==
  ASSUME TypeInv, NEW h \in Handler, NEW r, Moves(h, r), r.pc \notin HoldSteps,
         UNCHANGED <<code, token, issued, effects>>
  PROVE  TicketFrame
<1>1. \A g \in Handler : handler'[g] = IF g = h THEN r ELSE handler[g]
  BY TypeParts DEF Moves
<1>. QED
  BY <1>1 DEF TicketFrame

LEMMA TicketStep == TypeInv /\ TicketInv /\ [Next]_vars => TicketInv'
<1>. SUFFICES ASSUME TypeInv, TicketInv, [Next]_vars PROVE TicketInv'
  OBVIOUS
<1>1. CASE UNCHANGED <<code, token, issued, effects, handler>>
  BY <1>1, TicketFrameKeeps DEF TicketFrame
<1>2. ASSUME NEW h \in Handler, NEW r, Moves(h, r), r.pc \notin HoldSteps,
             UNCHANGED <<code, token, issued, effects>>
      PROVE  TicketInv'
  BY <1>2, MovesTicketFrame, TicketFrameKeeps
<1>3. ASSUME NEW h \in Handler, Call(h), ~\E w \in Ward : FinalizeTake(h, w) PROVE TicketInv'
  <2>1. UNCHANGED <<code, token, issued, effects>>
    BY <1>3 DEF Call, LinkBegin, SignupStart, CreateAccount, IssueBegin, VerifyBegin, redis,
       history
  <2>2. ASSUME NEW w \in Ward, NEW c \in Contact, LinkBegin(h, w, c) \/ SignupStart(h, w, c)
        PROVE  \E r : Moves(h, r) /\ r.pc \notin HoldSteps
    <3>1. PICK r : Moves(h, r) /\ r.pc \in {"lock", "write"}
      BY <2>2, CallMoves
    <3>. QED
      BY <3>1 DEF HoldSteps
  <2>3. ASSUME NEW w \in Ward, CreateAccount(h, w)
        PROVE  \E r : Moves(h, r) /\ r.pc \notin HoldSteps
    BY <2>3, CreateAccountMoves DEF HoldSteps
  <2>4. ASSUME NEW w \in Ward, NEW p \in Purpose, IssueBegin(h, w, p)
        PROVE  \E r : Moves(h, r) /\ r.pc \notin HoldSteps
    <3>1. PICK r : Moves(h, r) /\ r.pc \in {"count", "issue"}
      BY <2>4, IssueBeginMoves
    <3>. QED
      BY <3>1 DEF HoldSteps
  <2>5. ASSUME NEW w \in Ward, NEW p \in Purpose, NEW k \in Code, VerifyBegin(h, w, p, k)
        PROVE  \E r : Moves(h, r) /\ r.pc \notin HoldSteps
    <3>1. PICK r : Moves(h, r) /\ r.pc \in {"count", "compare"}
      BY <2>5, VerifyBeginMoves
    <3>. QED
      BY <3>1 DEF HoldSteps
  <2>6. \E r : Moves(h, r) /\ r.pc \notin HoldSteps
    BY <1>3, <2>2, <2>3, <2>4, <2>5 DEF Call
  <2>. QED
    BY <1>2, <2>1, <2>6
<1>4. ASSUME NEW h \in Handler,
             \/ CountHit(h) \/ SetExpiry(h) \/ AssertWardLimit(h) \/ Upsert(h)
             \/ LinkReadBack(h) \/ SignupWrite(h) \/ HookRead(h)
      PROVE  TicketInv'
  <2>1. UNCHANGED <<code, token, issued, effects>>
    BY <1>4 DEF CountHit, SetExpiry, AssertWardLimit, Upsert, LinkReadBack, SignupWrite, HookRead,
       redis, history
  <2>2. PICK r : /\ Moves(h, r)
                 /\ r.pc \in {"expire", "count", "issue", "compare", "idle", "upsert", "read",
                              "drop", "lock"}
    <3>1. CASE CountHit(h) \/ SetExpiry(h)
      BY <3>1, CountHitMoves, SetExpiryMoves
    <3>2. CASE AssertWardLimit(h) \/ Upsert(h)
      BY <3>2, AssertWardLimitMoves, UpsertMoves
    <3>3. CASE LinkReadBack(h) \/ SignupWrite(h)
      BY <3>3, LinkReadBackMoves, SignupWriteMoves
    <3>4. CASE HookRead(h)
      BY <3>4, HookReadMoves
    <3>. QED
      BY <1>4, <3>1, <3>2, <3>3, <3>4
  <2>3. r.pc \notin HoldSteps
    BY <2>2 DEF HoldSteps
  <2>. QED
    BY <1>2, <2>1, <2>2, <2>3
<1>5. ASSUME NEW h \in Handler, HookDropPending(h) \/ SetGuardianVerified(h) PROVE TicketInv'
  <2>1. UNCHANGED <<code, token, issued, effects>> /\ Finish(h)
    BY <1>5 DEF HookDropPending, SetGuardianVerified, redis, history
  <2>2. Moves(h, Idle) /\ Idle.pc \notin HoldSteps
    BY <2>1, FinishMoves DEF HoldSteps
  <2>. QED
    BY <1>2, <2>1, <2>2
<1>6. ASSUME NEW h \in Handler, VerifyConsents(h) PROVE TicketInv'
  <2>1. PICK r : Moves(h, r) /\ r.pc = "verified"
    BY <1>6, ConsentMoves
  <2>2. /\ r.pc \notin HoldSteps /\ handler[h].pc \in HoldSteps /\ Act(h)
        /\ UNCHANGED <<code, token>>
    BY <1>6, <2>1 DEF VerifyConsents, At, HoldSteps, redis
  <2>. QED
    BY <2>1, <2>2, ActTickets
<1>7. ASSUME NEW h \in Handler, SignupFlip(h) \/ Effect(h) \/ FinalizeCommit(h) PROVE TicketInv'
  <2>1. /\ handler[h].pc \in HoldSteps /\ Act(h) /\ Finish(h)
        /\ UNCHANGED <<code, token>>
    BY <1>7 DEF SignupFlip, Effect, FinalizeCommit, At, HoldSteps, redis
  <2>2. Moves(h, Idle) /\ Idle.pc \notin HoldSteps
    BY <2>1, FinishMoves DEF HoldSteps
  <2>. QED
    BY <2>1, <2>2, ActTickets
<1>8. ASSUME NEW h \in Handler, Abandon(h) PROVE TicketInv'
  <2>1. UNCHANGED <<code, token, issued, effects>> /\ Finish(h)
    BY <1>8 DEF Abandon, redis
  <2>2. Moves(h, Idle) /\ Idle.pc \notin HoldSteps
    BY <2>1, FinishMoves DEF HoldSteps
  <2>. QED
    BY <1>2, <2>1, <2>2
<1>9. CASE Expiry
  <2>1. TicketFrame
    <3>1. /\ handler' = handler /\ issued' = issued /\ effects' = effects
          /\ code' = code \/ \E s \in Scope : code' = [code EXCEPT ![s] = NoCode]
          /\ token' = token \/ \E w \in Ward : token' = [token EXCEPT ![w] = NoCode]
      BY <1>9 DEF Expiry, ExpireCode, ExpireToken, ExpirePending, ExpireCounter, history
    <3>. QED
      BY <3>1, TypeParts DEF TicketFrame, OtherTypes, TokenTypes
  <2>. QED
    BY <2>1, TicketFrameKeeps
<1>. QED
  BY <1>1, <1>3, <1>4, <1>5, <1>6, <1>7, <1>8, <1>9, FinalizeTickets, IssueTickets, CompareTickets,
     TokenTickets DEF Next, vars, Serve

LEMMA TicketInvariant == Spec => []TicketInv
  BY TypeInvariant, TicketInit, TicketStep, PTL DEF Spec

\* One answer of a guardian authorises one thing at most, although codes and
\* tokens are submitted twice, put back and retried while requests race.
THEOREM OneEffectPerCodeHolds == Spec => []OneEffectPerCode
<1>1. TicketInv /\ TypeInv => OneEffectPerCode
  <2>. SUFFICES ASSUME TicketInv, TypeInv, NEW k \in Code PROVE Len(effects[k]) <= 1
    BY DEF OneEffectPerCode
  <2>1. CASE effects[k] = << >>
    BY <2>1
  <2>2. CASE effects[k] # << >>
    <3>1. effects[k] = <<AskedBy(k)>>
      BY <2>2 DEF TicketInv, PlacesInv
    <3>2. \A x : Len(<<x>>) = 1
      OBVIOUS
    <3>. QED
      BY <3>1, <3>2
  <2>. QED
    BY <2>1, <2>2
<1>. QED
  BY <1>1, TypeInvariant, TicketInvariant, PTL

\* And it authorises what the guardian was asked: a code or a token never acts
\* for another ward or for another purpose than the one it was issued for.
THEOREM OnlyWhatWasAskedHolds == Spec => []OnlyWhatWasAsked
<1>1. TicketInv => OnlyWhatWasAsked
  <2>. SUFFICES ASSUME TicketInv, NEW k \in Code, NEW n \in DOMAIN effects[k]
                PROVE  effects[k][n] = AskedBy(k)
    BY DEF OnlyWhatWasAsked, AskedBy
  <2>1. effects[k] # << >>
    OBVIOUS
  <2>2. effects[k] = <<AskedBy(k)>>
    BY <2>1 DEF TicketInv, PlacesInv
  <2>. QED
    BY <2>2
<1>. QED
  BY <1>1, TicketInvariant, PTL

-----------------------------------------------------------------------------
(* Verified guardians.  Answers are never taken back, and whoever is about *)
(* to mark a guardian has one.                                             *)

BackedInv ==
  /\ \A w \in Ward : guardian[w].verified => w \in consented /\ Answered(w)
  /\ \A w \in Ward : pending[w].verified => Answered(w)
  /\ \A h \in Handler : handler[h].pc \in {"lock", "upsert"} /\ handler[h].purpose = "signup"
       => Answered(handler[h].ward)
  /\ \A h \in Handler : At(h, "verified")
       => handler[h].ward \in consented /\ Answered(handler[h].ward)

LEMMA BackedInit == Init => BackedInv
  BY DEF Init, BackedInv, NoRow, Idle, At

\* What a step may do to codes and answers.
LEMMA HistorySteps ==
  ASSUME [Next]_vars
  PROVE  \/ UNCHANGED <<issued, effects>>
         \/ \E h \in Handler, j \in Code : IssueCode(h, j)
         \/ \E h \in Handler : handler[h].pc \in CodeSteps /\ Act(h)
<1>1. CASE UNCHANGED vars
  BY <1>1 DEF vars
<1>2. ASSUME NEW h \in Handler, Call(h) PROVE UNCHANGED <<issued, effects>>
  BY <1>2 DEF Call, LinkBegin, SignupStart, CreateAccount, FinalizeTake, IssueBegin, VerifyBegin,
     history
<1>3. ASSUME NEW h \in Handler, Serve(h), ~\E j \in Code : IssueCode(h, j)
      PROVE  UNCHANGED <<issued, effects>> \/ (handler[h].pc \in CodeSteps /\ Act(h))
  <2>1. CASE \/ CountHit(h) \/ SetExpiry(h) \/ AssertWardLimit(h) \/ Upsert(h) \/ LinkReadBack(h)
             \/ SignupWrite(h) \/ HookRead(h) \/ HookDropPending(h)
    BY <2>1 DEF CountHit, SetExpiry, AssertWardLimit, Upsert, LinkReadBack, SignupWrite, HookRead,
       HookDropPending, history
  <2>2. CASE Compare(h) \/ SetGuardianVerified(h) \/ PutToken(h) \/ FinalizePutBack(h)
    BY <2>2 DEF Compare, SetGuardianVerified, PutToken, FinalizePutBack, history
  <2>3. CASE VerifyConsents(h) \/ SignupFlip(h) \/ Effect(h) \/ FinalizeCommit(h)
    BY <2>3 DEF VerifyConsents, SignupFlip, Effect, FinalizeCommit, At, CodeSteps
  <2>. QED
    BY <1>3, <2>1, <2>2, <2>3 DEF Serve
<1>4. ASSUME NEW h \in Handler, Abandon(h) PROVE UNCHANGED <<issued, effects>>
  BY <1>4 DEF Abandon
<1>5. CASE Expiry
  BY <1>5 DEF Expiry, ExpireCode, ExpireToken, ExpirePending, ExpireCounter, history
<1>. QED
  BY <1>1, <1>2, <1>3, <1>4, <1>5 DEF Next

\* Answers stay.
LEMMA AnsweredStays ==
  ASSUME TypeInv, TicketInv, [Next]_vars, NEW w, Answered(w)
  PROVE  Answered(w)'
<1>1. PICK k \in Code : /\ effects[k] # << >>
                        /\ issued[k].ward = w /\ issued[k].purpose \in {"guardian", "signup"}
  BY DEF Answered
<1>2. issued[k] # NotIssued /\ effects[k] = <<AskedBy(k)>>
  BY <1>1 DEF TicketInv, PlacesInv
<1>3. CASE UNCHANGED <<issued, effects>>
  BY <1>1, <1>3 DEF Answered
<1>4. ASSUME NEW h \in Handler, NEW j \in Code, IssueCode(h, j) PROVE Answered(w)'
  <2>1. issued'[k] = issued[k] /\ effects' = effects
    BY <1>2, <1>4, TypeParts DEF IssueCode, OtherTypes
  <2>. QED
    BY <1>1, <2>1 DEF Answered
<1>5. ASSUME NEW h \in Handler, handler[h].pc \in CodeSteps, Act(h) PROVE Answered(w)'
  <2>1. PICK s \in Scope : s = <<handler[h].ward, handler[h].purpose>>
    BY <1>5, ActFacts
  <2>2. /\ effects'[k] = IF k = handler[h].code THEN Append(effects[k], s) ELSE effects[k]
        /\ issued' = issued
    BY <1>5, <2>1, ActTypes
  <2>3. effects[k] \in Seq(Scope)
    BY TypeParts DEF OtherTypes
  <2>4. ASSUME NEW q \in Seq(Scope) PROVE Append(q, s) # << >>
    <3>1. Len(Append(q, s)) = Len(q) + 1 /\ Len(q) \in Nat
      OBVIOUS
    <3>. QED
      BY <3>1
  <2>5. effects'[k] # << >>
    BY <1>1, <2>2, <2>3, <2>4
  <2>. QED
    BY <1>1, <2>2, <2>5 DEF Answered
<1>. QED
  BY <1>3, <1>4, <1>5, HistorySteps


\* A handler that acts upon a code for an account or a signup has an answer.
LEMMA ActAnswers ==
  ASSUME TypeInv, TicketInv, NEW h \in Handler, handler[h].pc \in {"consent", "flip"}, Act(h),
         NEW w, w = handler[h].ward
  PROVE  Answered(w)'
<1>1. PICK k \in Code : k = handler[h].code /\ Holds(h, k)
  BY ActFacts DEF CodeSteps, Holds, HoldSteps
<1>2. PICK s \in Scope : s = <<w, handler[h].purpose>>
  BY ActFacts DEF CodeSteps
<1>3. AskedBy(k) = s /\ effects[k] = << >> /\ handler[h].purpose \in {"guardian", "signup"}
  BY <1>1, <1>2 DEF TicketInv, PlacesInv, OnePlaceInv, TypeInv, RecordInv
<1>4. effects'[k] = Append(<< >>, s) /\ issued' = issued
  BY <1>1, <1>2, <1>3, ActTypes DEF CodeSteps
<1>5. Append(<< >>, s) = <<s>>
  OBVIOUS
<1>6. effects'[k] # << >>
  BY <1>4, <1>5
<1>7. issued[k].ward = w /\ issued[k].purpose = handler[h].purpose
  BY <1>2, <1>3 DEF AskedBy
<1>8. issued'[k].ward = w /\ issued'[k].purpose \in {"guardian", "signup"}
  BY <1>3, <1>4, <1>7
<1>. QED
  BY <1>6, <1>8 DEF Answered

\* Whoever counts as verified, or is about to, was so before or has an answer.
BackedFrame ==
  /\ consented \subseteq consented'
  /\ \A w \in Ward : guardian'[w].verified
       => guardian[w].verified \/ (w \in consented' /\ Answered(w)')
  /\ \A w \in Ward : pending'[w].verified => pending[w].verified \/ Answered(w)'
  /\ \A g \in Handler : handler'[g].pc \in {"lock", "upsert"} /\ handler'[g].purpose = "signup"
       => \/ /\ handler[g].pc \in {"lock", "upsert"} /\ handler[g].purpose = "signup"
             /\ handler'[g].ward = handler[g].ward
          \/ \E w \in Ward : w = handler'[g].ward /\ Answered(w)'
  /\ \A g \in Handler : handler'[g].pc = "verified"
       => \/ handler'[g] = handler[g]
          \/ \E w \in Ward : w = handler'[g].ward /\ w \in consented' /\ Answered(w)'

LEMMA BackedFrameKeeps ==
  ASSUME TypeInv, TicketInv, BackedInv, [Next]_vars, BackedFrame
  PROVE  BackedInv'
<1>1. ASSUME NEW w \in Ward, guardian'[w].verified PROVE w \in consented' /\ Answered(w)'
  BY <1>1, AnsweredStays DEF BackedFrame, BackedInv
<1>2. ASSUME NEW w \in Ward, pending'[w].verified PROVE Answered(w)'
  BY <1>2, AnsweredStays DEF BackedFrame, BackedInv
<1>3. ASSUME NEW g \in Handler, handler'[g].pc \in {"lock", "upsert"},
             handler'[g].purpose = "signup"
      PROVE  \E w : w = handler'[g].ward /\ Answered(w)'
  <2>1. CASE /\ handler[g].pc \in {"lock", "upsert"} /\ handler[g].purpose = "signup"
             /\ handler'[g].ward = handler[g].ward
    <3>1. PICK w : w = handler[g].ward
      OBVIOUS
    <3>2. Answered(w)
      BY <2>1, <3>1 DEF BackedInv
    <3>3. Answered(w)'
      BY <3>2, AnsweredStays
    <3>. QED
      BY <2>1, <3>1, <3>3
  <2>. QED
    BY <1>3, <2>1 DEF BackedFrame
<1>4. ASSUME NEW g \in Handler, handler'[g].pc = "verified"
      PROVE  \E w : w = handler'[g].ward /\ w \in consented' /\ Answered(w)'
  <2>1. CASE handler'[g] = handler[g]
    <3>1. PICK w : w = handler[g].ward
      OBVIOUS
    <3>2. w \in consented /\ Answered(w)
      BY <1>4, <2>1, <3>1 DEF BackedInv, At
    <3>3. Answered(w)'
      BY <3>2, AnsweredStays
    <3>. QED
      BY <2>1, <3>1, <3>2, <3>3 DEF BackedFrame
  <2>. QED
    BY <1>4, <2>1 DEF BackedFrame
<1>5. ASSUME NEW g \in Handler, handler'[g].pc \in {"lock", "upsert"},
             handler'[g].purpose = "signup"
      PROVE  Answered(handler[g].ward)'
  <2>1. PICK w : w = handler'[g].ward /\ Answered(w)'
    BY <1>3, <1>5
  <2>. QED
    BY <2>1 DEF Answered
<1>6. ASSUME NEW g \in Handler, handler'[g].pc = "verified"
      PROVE  handler'[g].ward \in consented' /\ Answered(handler[g].ward)'
  <2>1. PICK w : w = handler'[g].ward /\ w \in consented' /\ Answered(w)'
    BY <1>4, <1>6
  <2>. QED
    BY <2>1 DEF Answered
<1>. QED
  BY <1>1, <1>2, <1>5, <1>6 DEF BackedInv, At

\* A step that marks nobody.
MarksNobody ==
  /\ consented' = consented
  /\ guardian' = guardian
  /\ \A w \in Ward : pending'[w].verified => pending[w].verified

LEMMA QuietKeeps ==
  ASSUME TypeInv, TicketInv, BackedInv, [Next]_vars, NEW h \in Handler, NEW r, Moves(h, r),
         r.pc # "verified",
         r.pc \in {"lock", "upsert"} => r.purpose # "signup",
         MarksNobody
  PROVE  BackedInv'
<1>1. \A g \in Handler : handler'[g] = IF g = h THEN r ELSE handler[g]
  BY TypeParts DEF Moves
<1>2. BackedFrame
  BY <1>1 DEF BackedFrame, MarksNobody
<1>. QED
  BY <1>2, BackedFrameKeeps

LEMMA BackedStep == TypeInv /\ TicketInv /\ BackedInv /\ [Next]_vars => BackedInv'
<1>. SUFFICES ASSUME TypeInv, TicketInv, BackedInv, [Next]_vars PROVE BackedInv'
  OBVIOUS
<1>1. CASE UNCHANGED vars
  <2>1. BackedFrame
    BY <1>1 DEF vars, BackedFrame
  <2>. QED
    BY <2>1, BackedFrameKeeps
<1>2. ASSUME NEW h \in Handler, Call(h) PROVE BackedInv'
  <2>1. MarksNobody
    BY <1>2 DEF Call, LinkBegin, SignupStart, CreateAccount, FinalizeTake, IssueBegin, VerifyBegin,
       tables, redis, MarksNobody
  <2>2. \E r : /\ Moves(h, r) /\ r.pc # "verified"
               /\ r.pc \in {"lock", "upsert"} => r.purpose # "signup"
    <3>1. ASSUME NEW w \in Ward, NEW c \in Contact, LinkBegin(h, w, c) \/ SignupStart(h, w, c)
          PROVE  \E r : /\ Moves(h, r) /\ r.pc # "verified"
                        /\ r.pc \in {"lock", "upsert"} => r.purpose # "signup"
      <4>1. PICK r : /\ Moves(h, r) /\ r.pc \in {"lock", "write"}
                     /\ r.pc = "lock" => r.purpose = "guardian"
        BY <3>1, CallMoves
      <4>. QED
        BY <4>1
    <3>2. ASSUME NEW w \in Ward, CreateAccount(h, w)
          PROVE  \E r : /\ Moves(h, r) /\ r.pc # "verified"
                        /\ r.pc \in {"lock", "upsert"} => r.purpose # "signup"
      <4>1. PICK r : Moves(h, r) /\ r.pc = "hook"
        BY <3>2, CreateAccountMoves
      <4>. QED
        BY <4>1
    <3>3. ASSUME NEW w \in Ward, FinalizeTake(h, w)
          PROVE  \E r : /\ Moves(h, r) /\ r.pc # "verified"
                        /\ r.pc \in {"lock", "upsert"} => r.purpose # "signup"
      <4>1. PICK r : Moves(h, r) /\ r.pc = "finalize"
        BY <3>3, FinalizeTakeMoves
      <4>. QED
        BY <4>1
    <3>4. ASSUME NEW w \in Ward, NEW p \in Purpose, IssueBegin(h, w, p)
          PROVE  \E r : /\ Moves(h, r) /\ r.pc # "verified"
                        /\ r.pc \in {"lock", "upsert"} => r.purpose # "signup"
      <4>1. PICK r : Moves(h, r) /\ r.pc \in {"count", "issue"}
        BY <3>4, IssueBeginMoves
      <4>. QED
        BY <4>1
    <3>5. ASSUME NEW w \in Ward, NEW p \in Purpose, NEW k \in Code, VerifyBegin(h, w, p, k)
          PROVE  \E r : /\ Moves(h, r) /\ r.pc # "verified"
                        /\ r.pc \in {"lock", "upsert"} => r.purpose # "signup"
      <4>1. PICK r : Moves(h, r) /\ r.pc \in {"count", "compare"}
        BY <3>5, VerifyBeginMoves
      <4>. QED
        BY <4>1
    <3>. QED
      BY <1>2, <3>1, <3>2, <3>3, <3>4, <3>5 DEF Call
  <2>. QED
    BY <2>1, <2>2, QuietKeeps
<1>3. ASSUME NEW h \in Handler,
             CountHit(h) \/ SetExpiry(h) \/ LinkReadBack(h) \/ SignupWrite(h) \/ Compare(h)
      PROVE  BackedInv'
  <2>1. PICK r : Moves(h, r) /\ r.pc \notin {"lock", "upsert", "verified"}
    <3>1. CASE CountHit(h) \/ SetExpiry(h)
      BY <3>1, CountHitMoves, SetExpiryMoves
    <3>2. CASE LinkReadBack(h) \/ SignupWrite(h)
      BY <3>2, LinkReadBackMoves, SignupWriteMoves
    <3>3. CASE Compare(h)
      <4>1. PICK r : Moves(h, r) /\ (r.pc \in ActSteps \/ r.pc = "idle")
        BY <3>3, CompareMoves
      <4>. QED
        BY <4>1 DEF ActSteps
    <3>. QED
      BY <1>3, <3>1, <3>2, <3>3
  <2>2. MarksNobody
    <3>1. CASE SignupWrite(h)
      <4>1. handler[h].ward \in Ward
        BY <3>1, SignupWriteMoves
      <4>. QED
        BY <3>1, <4>1, TypeParts DEF SignupWrite, tables, MarksNobody, OtherTypes
    <3>2. CASE CountHit(h) \/ SetExpiry(h) \/ LinkReadBack(h) \/ Compare(h)
      BY <3>2 DEF CountHit, SetExpiry, LinkReadBack, Compare, tables, redis, MarksNobody
    <3>. QED
      BY <1>3, <3>1, <3>2
  <2>. QED
    BY <2>1, <2>2, QuietKeeps
<1>4. ASSUME NEW h \in Handler,
             \/ HookDropPending(h) \/ (\E k \in Code : IssueCode(h, k)) \/ Effect(h)
             \/ PutToken(h) \/ FinalizeCommit(h) \/ FinalizePutBack(h) \/ Abandon(h)
      PROVE  BackedInv'
  <2>1. Finish(h)
    BY <1>4 DEF HookDropPending, IssueCode, Effect, PutToken, FinalizeCommit, FinalizePutBack,
       Abandon
  <2>2. MarksNobody
    BY <1>4, TypeParts DEF HookDropPending, IssueCode, Effect, PutToken, FinalizeCommit,
       FinalizePutBack, Abandon, tables, redis, MarksNobody, OtherTypes, NoRow
  <2>3. Moves(h, Idle) /\ Idle.pc = "idle"
    BY <2>1, FinishMoves
  <2>. QED
    BY <2>2, <2>3, QuietKeeps
<1>5. ASSUME NEW h \in Handler, AssertWardLimit(h) PROVE BackedInv'
  <2>1. PICK r : /\ Moves(h, r) /\ r.pc = "upsert"
                 /\ r.ward = handler[h].ward /\ r.purpose = handler[h].purpose
    BY <1>5, AssertWardLimitMoves
  <2>2. /\ \A g \in Handler : handler'[g] = IF g = h THEN r ELSE handler[g]
        /\ handler[h].pc = "lock" /\ UNCHANGED <<consented, guardian, pending>>
    BY <1>5, <2>1, TypeParts DEF Moves, AssertWardLimit, At, tables, redis
  <2>3. BackedFrame
    BY <2>1, <2>2 DEF BackedFrame
  <2>. QED
    BY <2>3, BackedFrameKeeps
\* The hook of a new account has found an answer to the signup.
<1>6. ASSUME NEW h \in Handler, Upsert(h) PROVE BackedInv'
  <2>1. PICK w \in Ward : w = handler[h].ward
    BY <1>6, UpsertMoves
  <2>2. PICK r : Moves(h, r) /\ r.pc \in {"read", "drop"}
    BY <1>6, UpsertMoves
  <2>3. /\ \A g \in Handler : handler'[g] = IF g = h THEN r ELSE handler[g]
        /\ handler[h].pc = "upsert" /\ pending' = pending
        /\ consented' = IF handler[h].purpose = "signup" THEN consented \cup {w} ELSE consented
    BY <1>6, <2>1, <2>2, TypeParts DEF Moves, Upsert, OfHook, At, redis
  <2>4. \A v \in Ward : guardian'[v] =
          IF v = w THEN [contact |-> handler[h].contact, verified |-> handler[h].purpose = "signup"]
          ELSE guardian[v]
    BY <1>6, <2>1, UpsertMoves
  <2>5. handler[h].purpose = "signup" => Answered(w)'
    <3>. SUFFICES ASSUME handler[h].purpose = "signup" PROVE Answered(w)'
      OBVIOUS
    <3>1. Answered(w)
      BY <2>1, <2>3 DEF BackedInv
    <3>. QED
      BY <3>1, AnsweredStays
  <2>6. BackedFrame
    <3>1. \A v \in Ward : guardian'[v].verified
            => guardian[v].verified \/ (v \in consented' /\ Answered(v)')
      <4>1. ASSUME NEW v \in Ward, v # w PROVE guardian'[v] = guardian[v]
        BY <2>4, <4>1
      <4>2. guardian'[w].verified => handler[h].purpose = "signup"
        <5>1. guardian'[w] = [contact |-> handler[h].contact,
                              verified |-> handler[h].purpose = "signup"]
          BY <2>4
        <5>2. CASE handler[h].purpose = "signup"
          BY <5>2
        <5>3. CASE handler[h].purpose # "signup"
          <6>1. PICK b \in BOOLEAN : b = (handler[h].purpose = "signup")
            OBVIOUS
          <6>2. guardian'[w] = [contact |-> handler[h].contact, verified |-> b]
            BY <5>1, <6>1
          <6>3. guardian'[w].verified = b
            BY <6>2
          <6>. QED
            BY <5>3, <6>1, <6>3
        <5>. QED
          BY <5>2, <5>3
      <4>3. guardian'[w].verified => w \in consented' /\ Answered(w)'
        BY <2>3, <2>5, <4>2
      <4>. QED
        BY <4>1, <4>3
    <3>. QED
      BY <2>2, <2>3, <3>1 DEF BackedFrame
  <2>. QED
    BY <2>6, BackedFrameKeeps
<1>7. ASSUME NEW h \in Handler, HookRead(h) PROVE BackedInv'
  <2>1. PICK r : /\ Moves(h, r)
                 /\ r.pc = "idle" \/ (r.pc = "lock" /\ pending[r.ward].verified
                                     /\ r.ward = handler[h].ward)
    BY <1>7, HookReadMoves
  <2>2. /\ \A g \in Handler : handler'[g] = IF g = h THEN r ELSE handler[g]
        /\ UNCHANGED <<consented, guardian, pending>>
    BY <1>7, <2>1, TypeParts DEF Moves, HookRead, tables, redis
  <2>3. r.pc = "lock" => \E w \in Ward : w = r.ward /\ Answered(w)'
    <3>. SUFFICES ASSUME r.pc = "lock" PROVE \E w \in Ward : w = r.ward /\ Answered(w)'
      OBVIOUS
    <3>1. PICK w \in Ward : w = r.ward
      BY <2>1 DEF Moves, RecordInv
    <3>2. Answered(w)
      BY <2>1, <3>1 DEF BackedInv
    <3>. QED
      BY <3>1, <3>2, AnsweredStays
  <2>4. BackedFrame
    BY <2>1, <2>2, <2>3 DEF BackedFrame
  <2>. QED
    BY <2>4, BackedFrameKeeps
\* The consents come before the flag.
<1>8. ASSUME NEW h \in Handler, VerifyConsents(h) PROVE BackedInv'
  <2>1. PICK r : Moves(h, r) /\ r.pc = "verified" /\ r.ward = handler[h].ward
    BY <1>8, ConsentMoves
  <2>2. handler[h].pc = "consent" /\ Act(h)
    BY <1>8 DEF VerifyConsents, At
  <2>3. PICK w \in Ward : w = handler[h].ward
    BY <2>2, ActFacts DEF CodeSteps
  <2>4. /\ \A g \in Handler : handler'[g] = IF g = h THEN r ELSE handler[g]
        /\ consented' = consented \cup {w} /\ UNCHANGED <<guardian, pending>>
    BY <1>8, <2>1, <2>3, TypeParts DEF Moves, VerifyConsents, redis
  <2>5. Answered(w)'
    BY <2>2, <2>3, ActAnswers
  <2>6. BackedFrame
    BY <2>1, <2>3, <2>4, <2>5 DEF BackedFrame
  <2>. QED
    BY <2>6, BackedFrameKeeps
<1>9. ASSUME NEW h \in Handler, SetGuardianVerified(h) PROVE BackedInv'
  <2>1. Moves(h, Idle) /\ Idle.pc = "idle"
    BY <1>9, FinishMoves DEF SetGuardianVerified
  <2>2. PICK w \in Ward : w = handler[h].ward
    BY <1>9 DEF SetGuardianVerified, At, TypeInv, RecordInv
  <2>3. w \in consented /\ Answered(w)
    BY <1>9, <2>2 DEF SetGuardianVerified, BackedInv
  <2>4. Answered(w)'
    BY <2>3, AnsweredStays
  <2>5. /\ \A g \in Handler : handler'[g] = IF g = h THEN Idle ELSE handler[g]
        /\ UNCHANGED <<consented, pending>>
        /\ \A v \in Ward \ {w} : guardian'[v] = guardian[v]
    BY <1>9, <2>1, <2>2, TypeParts DEF Moves, SetGuardianVerified, redis
  <2>6. BackedFrame
    BY <2>1, <2>3, <2>4, <2>5 DEF BackedFrame
  <2>. QED
    BY <2>6, BackedFrameKeeps
<1>10. ASSUME NEW h \in Handler, SignupFlip(h) PROVE BackedInv'
  <2>1. Moves(h, Idle) /\ Idle.pc = "idle"
    BY <1>10, FinishMoves DEF SignupFlip
  <2>2. handler[h].pc = "flip" /\ Act(h)
    BY <1>10 DEF SignupFlip, At
  <2>3. PICK w \in Ward : w = handler[h].ward
    BY <2>2, ActFacts DEF CodeSteps
  <2>4. Answered(w)'
    BY <2>2, <2>3, ActAnswers
  <2>5. /\ \A g \in Handler : handler'[g] = IF g = h THEN Idle ELSE handler[g]
        /\ UNCHANGED <<consented, guardian>>
        /\ \A v \in Ward \ {w} : pending'[v] = pending[v]
    BY <1>10, <2>1, <2>3, TypeParts DEF Moves, SignupFlip, tables, OtherTypes
  <2>6. BackedFrame
    BY <2>1, <2>4, <2>5 DEF BackedFrame
  <2>. QED
    BY <2>6, BackedFrameKeeps
<1>11. CASE Expiry
  <2>1. /\ handler' = handler /\ consented' = consented /\ guardian' = guardian
        /\ pending' = pending \/ \E w \in Ward : pending' = [pending EXCEPT ![w] = NoRow]
    BY <1>11 DEF Expiry, ExpireCode, ExpireToken, ExpirePending, ExpireCounter, tables
  <2>2. \A w \in Ward : pending'[w].verified => pending[w].verified
    <3>1. \A w \in Ward : pending'[w] = pending[w] \/ pending'[w] = NoRow
      BY <2>1, TypeParts DEF OtherTypes
    <3>2. ~NoRow.verified
      BY DEF NoRow
    <3>. QED
      BY <3>1, <3>2, Zenon
  <2>3. BackedFrame
    BY <2>1, <2>2 DEF BackedFrame
  <2>. QED
    BY <2>3, BackedFrameKeeps
<1>. QED
  BY <1>1, <1>2, <1>3, <1>4, <1>5, <1>6, <1>7, <1>8, <1>9, <1>10, <1>11 DEF Next, Serve

\* No ward counts as verified without the guardian's consents on record and
\* the answer to a code, wherever the requests that write them died.
THEOREM VerifiedIsBackedHolds == Spec => []VerifiedIsBacked
<1>1. Spec => []BackedInv
  BY TypeInvariant, TicketInvariant, BackedInit, BackedStep, PTL DEF Spec
<1>2. BackedInv => VerifiedIsBacked
  BY DEF BackedInv, VerifiedIsBacked
<1>. QED
  BY <1>1, <1>2, PTL
=============================================================================
