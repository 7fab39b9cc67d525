----------------------------- MODULE Guardians -----------------------------
(***************************************************************************)
(* Guardians of minors and the one-time codes they answer: linking a       *)
(* guardian to an account or to a signup that has no account yet, the      *)
(* codes issued for an account, a signup, a profile, a profile about to be *)
(* created or an action, their verification, and what a matching code      *)
(* sets in motion.                                                         *)
(*                                                                         *)
(* The database holds the guardian row of a ward and the guardian's        *)
(* consents; Redis holds codes, counters, pending signups and the token of *)
(* a profile about to be created, each of which may expire at any time.    *)
(* Every command to Redis is a step of its own.                            *)
(*                                                                         *)
(* A code that was lost on its way is one that no client submits.  As in   *)
(* Connections, a Bug operator is a wrong version of the next one.         *)
(***************************************************************************)
EXTENDS Naturals, FiniteSets, Sequences

CONSTANTS
  Ward,        \* minors, by the identifier they sign up with
  Contact,     \* contacts of guardians
  Code,        \* bound: the codes that are ever generated
  Handler,     \* requests that may be in flight at the same time
  Asks,        \* bound: Asks[w] are the purposes codes are issued for, for ward w
  MaxWards,    \* MAX_WARDS_PER_GUARDIAN
  SendMax,     \* GUARDIAN_OTP_MAX_PER_WINDOW
  ContactMax,  \* GUARDIAN_OTP_CONTACT_MAX_PER_WINDOW
  VerifyMax,   \* GUARDIAN_OTP_VERIFY_MAX
  Counted,     \* bound: the kinds of counter that are kept
  Expires,     \* bound: the kinds of Redis entries that expire
  MayFail,     \* handlers may crash or have a command refused
  NoContact, NoCode, NoWard, NoKey

Purpose == {"guardian", "signup", "create", "profile", "action", "batch"}

ASSUME GuardianAssumption ==
  /\ Asks \in [Ward -> SUBSET Purpose]
  /\ MaxWards \in Nat \ {0}
  /\ {SendMax, ContactMax, VerifyMax} \subseteq Nat \ {0}
  /\ Counted \subseteq {"send", "contact", "verify"}
  /\ MayFail \in BOOLEAN
  /\ Expires \subseteq {"code", "token", "pending", "counter"}
  /\ NoContact \notin Contact
  /\ NoCode \notin Code
  /\ NoWard \notin Ward

VARIABLES
  account,    \* the wards that have an account
  guardian,   \* guardian[w]: the row of minor_guardian
  consented,  \* the wards with the guardian's terms and privacy in consent_record
  pending,    \* pending[w]: the guardian of a signup without an account, in Redis
  code,       \* code[s]: the code stored for scope s
  token,      \* token[w]: the code whose answer left a token for a profile of w
  counter,    \* counter[k]: a fixed-window counter
  handler,    \* handler[h]: progress and reads of the request h serves
  issued,     \* history: issued[k] says for which scope k was sent to whom
  effects,    \* history: effects[k] are the scopes acted upon, answering k
  stuck       \* history: the counters whose request died before EXPIRE

vars == <<account, guardian, consented, pending, code, token, counter, handler,
          issued, effects, stuck>>

-----------------------------------------------------------------------------
(* Rows, scopes and counters *)

NoRow == [contact |-> NoContact, verified |-> FALSE]
Row == [contact: Contact, verified: BOOLEAN] \cup {NoRow}

\* What a code is stored under names the ward and the purpose; profiles, actions
\* and batches of actions are told apart by their ids as well.
Scope == {s \in Ward \X Purpose : s[2] \in Asks[s[1]]}
BugScopeOf(w, p) == <<w, IF p = "create" THEN "guardian" ELSE p>>
ScopeOf(w, p) == <<w, p>>

Key == {<<kind, s>> : kind \in {"send", "verify"}, s \in Scope}
         \cup {<<"contact", c>> : c \in Contact}

Limit(k) == CASE k[1] = "send" -> SendMax
              [] k[1] = "verify" -> VerifyMax
              [] k[1] = "contact" -> ContactMax

Issue == [ward: Ward, purpose: Purpose, contact: Contact]
NotIssued == [ward |-> NoWard, purpose |-> "none", contact |-> NoContact]

WardsOf(c) == {w \in Ward : guardian[w].contact = c}

\* A guardian may take one more ward; a ward's own link does not count.
HasRoom(c, w) == Cardinality(WardsOf(c) \ {w}) < MaxWards

(* Handlers *)

Idle == [pc |-> "idle", ward |-> NoWard, purpose |-> "none",
         contact |-> NoContact, code |-> NoCode, key |-> NoKey]

HandlerState ==
  [pc: {"idle", "write", "lock", "upsert", "read", "count", "expire", "issue", "compare",
        "consent", "verified", "flip", "token", "effect", "finalize", "hook", "drop"},
   ward: Ward \cup {NoWard}, purpose: Purpose \cup {"none"},
   contact: Contact \cup {NoContact}, code: Code \cup {NoCode}, key: Key \cup {NoKey}]

At(h, pc) == handler[h].pc = pc
Begin(h, r) == handler' = [handler EXCEPT ![h] = r]
Goto(h, pc) == Begin(h, [handler[h] EXCEPT !.pc = pc])
Finish(h) == Begin(h, Idle)

ScopeOfHandler(h) == ScopeOf(handler[h].ward, handler[h].purpose)

tables == <<account, guardian, consented>>
history == <<issued, effects, stuck>>
redis == <<pending, code, token, counter>>

Init ==
  /\ account = {}
  /\ guardian = [w \in Ward |-> NoRow]
  /\ consented = {}
  /\ pending = [w \in Ward |-> NoRow]
  /\ code = [s \in Scope |-> NoCode]
  /\ token = [w \in Ward |-> NoCode]
  /\ counter = [k \in Key |-> [n |-> 0, timed |-> FALSE]]
  /\ handler = [h \in Handler |-> Idle]
  /\ issued = [k \in Code |-> NotIssued]
  /\ effects = [k \in Code |-> << >>]
  /\ stuck = {}

-----------------------------------------------------------------------------
(* Counters: INCR, and EXPIRE on the first hit *)

\* A send is counted for its scope, then for the contact; an attempt once.  A
\* counter that is not kept refuses at will, as Abandon does.
Counting(r, k) == [r EXCEPT !.pc = "count", !.key = k]
CountContact(r) == IF "contact" \in Counted THEN Counting(r, <<"contact", r.contact>>)
                   ELSE [r EXCEPT !.pc = "issue", !.key = NoKey]
CountSend(r) == IF "send" \in Counted THEN Counting(r, <<"send", ScopeOf(r.ward, r.purpose)>>)
                ELSE CountContact(r)
CountVerify(r) == IF "verify" \in Counted
                  THEN Counting(r, <<"verify", ScopeOf(r.ward, r.purpose)>>)
                  ELSE [r EXCEPT !.pc = "compare"]

AfterCount(r) ==
  CASE r.key[1] = "send" -> CountContact(r)
    [] r.key[1] = "contact" -> [r EXCEPT !.pc = "issue", !.key = NoKey]
    [] r.key[1] = "verify" -> [r EXCEPT !.pc = "compare", !.key = NoKey]

BugFirstHit(n) == n > 1
FirstHit(n) == n = 1

\* Beyond the limit the request is refused, and the count no longer matters.
CountHit(h) ==
  LET r == handler[h]
      k == r.key
      n == IF counter[k].n > Limit(k) THEN counter[k].n ELSE counter[k].n + 1
  IN /\ At(h, "count")
     /\ counter' = [counter EXCEPT ![k].n = n]
     /\ Begin(h, CASE FirstHit(n) -> [r EXCEPT !.pc = "expire"]
                   [] ~FirstHit(n) /\ n <= Limit(k) -> AfterCount(r)
                   [] OTHER -> Idle)
     /\ UNCHANGED <<tables, pending, code, token, history>>

SetExpiry(h) ==
  /\ At(h, "expire")
  /\ counter' = [counter EXCEPT ![handler[h].key].timed = TRUE]
  /\ Begin(h, AfterCount(handler[h]))
  /\ UNCHANGED <<tables, pending, code, token, history>>

-----------------------------------------------------------------------------
(* Linking a guardian *)

\* POST /consent/u18/guardian, past the check of the limit without a lock.
LinkBegin(h, w, c) ==
  /\ At(h, "idle")
  /\ "guardian" \in Asks[w]
  /\ w \in account
  /\ HasRoom(c, w)
  /\ Begin(h, [Idle EXCEPT !.pc = "lock", !.ward = w,
                           !.purpose = "guardian", !.contact = c])
  /\ UNCHANGED <<tables, redis, history>>

\* Another transaction holds the advisory lock on this contact.
BugContactLocked(h) == FALSE
ContactLocked(h) ==
  \E g \in Handler \ {h} : At(g, "upsert") /\ handler[g].contact = handler[h].contact

\* assertWardLimitWithLock
AssertWardLimit(h) ==
  /\ At(h, "lock")
  /\ ~ContactLocked(h)
  /\ HasRoom(handler[h].contact, handler[h].ward)
  /\ Goto(h, "upsert")
  /\ UNCHANGED <<tables, redis, history>>

\* The hook of a new account acts for the signup; other links name no signup.
OfHook(r) == r.purpose = "signup"

\* A link resets the verification.  The hook of a new account writes a guardian
\* who has answered, and the consents, in the same transaction.
Upsert(h) ==
  LET r == handler[h]
  IN /\ At(h, "upsert")
     /\ guardian' = [guardian EXCEPT
          ![r.ward] = [contact |-> r.contact, verified |-> OfHook(r)]]
     /\ consented' = IF OfHook(r) THEN consented \cup {r.ward} ELSE consented
     /\ Goto(h, IF OfHook(r) THEN "drop" ELSE "read")
     /\ UNCHANGED <<account, redis, history>>

\* The code goes to the contact that is stored now.
LinkReadBack(h) ==
  /\ At(h, "read")
  /\ Begin(h, CountSend([handler[h] EXCEPT !.contact = guardian[handler[h].ward].contact]))
  /\ UNCHANGED <<tables, redis, history>>

-----------------------------------------------------------------------------
(* Signup without an account, and the account *)

\* POST /consent/u18/signup/guardian, past the check of the limit.
SignupStart(h, w, c) ==
  /\ At(h, "idle")
  /\ "signup" \in Asks[w]
  /\ w \notin account
  /\ HasRoom(c, NoWard)
  /\ Begin(h, [Idle EXCEPT !.pc = "write", !.ward = w,
                           !.purpose = "signup", !.contact = c])
  /\ UNCHANGED <<tables, redis, history>>

\* The pending record is there, in place of a former one, before the code is.
SignupWrite(h) ==
  LET r == handler[h]
  IN /\ At(h, "write")
     /\ pending' = [pending EXCEPT ![r.ward] = [contact |-> r.contact, verified |-> FALSE]]
     /\ Begin(h, CountSend(r))
     /\ UNCHANGED <<tables, code, token, counter, history>>

\* The account comes into being, and with it the request that runs the hook.
CreateAccount(h, w) ==
  /\ At(h, "idle")
  /\ w \notin account
  /\ account' = account \cup {w}
  /\ Begin(h, [Idle EXCEPT !.pc = "hook", !.ward = w, !.purpose = "signup"])
  /\ UNCHANGED <<guardian, consented, redis, history>>

\* materializeSignupGuardian goes on with a verified record.
BugMaterializeAny(w) == TRUE
ReadyToMaterialize(w) == pending[w].verified
HookRead(h) ==
  LET w == handler[h].ward
  IN /\ At(h, "hook")
     /\ IF ReadyToMaterialize(w)
        THEN Begin(h, [handler[h] EXCEPT !.pc = "lock", !.contact = pending[w].contact])
        ELSE Finish(h)
     /\ UNCHANGED <<tables, redis, history>>

HookDropPending(h) ==
  /\ At(h, "drop")
  /\ pending' = [pending EXCEPT ![handler[h].ward] = NoRow]
  /\ Finish(h)
  /\ UNCHANGED <<tables, code, token, counter, history>>

-----------------------------------------------------------------------------
(* Issuing a code *)

\* For a profile, a profile about to be created, an action or a batch of them:
\* to the guardian on record.
IssueBegin(h, w, p) ==
  /\ At(h, "idle")
  /\ p \in Asks[w] \ {"guardian", "signup"}
  /\ w \in account
  /\ guardian[w].contact # NoContact
  /\ Begin(h, CountSend([Idle EXCEPT !.ward = w, !.purpose = p,
                                     !.contact = guardian[w].contact]))
  /\ UNCHANGED <<tables, redis, history>>

\* A new code takes the place of the scope's former one, and is sent.
IssueCode(h, k) ==
  LET r == handler[h]
  IN /\ At(h, "issue")
     /\ issued[k] = NotIssued
     /\ issued' = [issued EXCEPT
          ![k] = [ward |-> r.ward, purpose |-> r.purpose, contact |-> r.contact]]
     /\ code' = [code EXCEPT ![ScopeOfHandler(h)] = k]
     /\ Finish(h)
     /\ UNCHANGED <<tables, pending, token, counter, effects, stuck>>

-----------------------------------------------------------------------------
(* Verifying a code *)

\* A client submits a code that was sent, to whomever and for whatever.  The
\* signup reads its pending record before it counts the attempt.
VerifyBegin(h, w, p, k) ==
  /\ At(h, "idle")
  /\ p \in Asks[w]
  /\ issued[k] # NotIssued
  /\ IF p = "signup" THEN pending[w] # NoRow ELSE w \in account
  /\ Begin(h, CountVerify(
       [Idle EXCEPT !.ward = w, !.purpose = p, !.code = k,
                    !.contact = IF p = "signup" THEN pending[w].contact ELSE NoContact]))
  /\ UNCHANGED <<tables, redis, history>>

\* What is left of the code of scope s once it has matched.
BugConsumed(s) == code
Consumed(s) == [code EXCEPT ![s] = NoCode]

\* What follows the match, by purpose.
BugConsequence(p) ==
  CASE p = "guardian" -> "verified"
    [] p = "signup" -> "flip"
    [] p = "create" -> "token"
    [] OTHER -> "effect"
Consequence(p) ==
  CASE p = "guardian" -> "consent"
    [] p = "signup" -> "flip"
    [] p = "create" -> "token"
    [] OTHER -> "effect"

\* Compare and delete in one script; a code that does not match stays.
Compare(h) ==
  LET s == ScopeOfHandler(h)
      matches == code[s] = handler[h].code
  IN /\ At(h, "compare")
     /\ code' = IF matches THEN Consumed(s) ELSE code
     /\ IF matches THEN Goto(h, Consequence(handler[h].purpose)) ELSE Finish(h)
     /\ UNCHANGED <<tables, pending, token, counter, history>>

\* The request acts upon the answer to its code.
Act(h) ==
  /\ effects' = [effects EXCEPT
       ![handler[h].code] = Append(@, <<handler[h].ward, handler[h].purpose>>)]
  /\ UNCHANGED <<issued, stuck>>

\* The guardian's consents to the account, and then the flag.
VerifyConsents(h) ==
  /\ At(h, "consent")
  /\ consented' = consented \cup {handler[h].ward}
  /\ Act(h)
  /\ Goto(h, "verified")
  /\ UNCHANGED <<account, guardian, redis>>

\* An UPDATE by the ward's id, whoever is the guardian by now.
SetGuardianVerified(h) ==
  LET w == handler[h].ward
  IN /\ At(h, "verified")
     /\ guardian' = IF guardian[w] = NoRow THEN guardian
                    ELSE [guardian EXCEPT ![w].verified = TRUE]
     /\ Finish(h)
     /\ UNCHANGED <<account, consented, redis, history>>

\* The pending record is written back as it was read, verified.
SignupFlip(h) ==
  LET r == handler[h]
  IN /\ At(h, "flip")
     /\ pending' = [pending EXCEPT ![r.ward] = [contact |-> r.contact, verified |-> TRUE]]
     /\ Act(h)
     /\ Finish(h)
     /\ UNCHANGED <<tables, code, token, counter>>

\* The guardian's consent to a profile with its promotion, or the action.
Effect(h) ==
  /\ At(h, "effect")
  /\ Act(h)
  /\ Finish(h)
  /\ UNCHANGED <<tables, redis>>

-----------------------------------------------------------------------------
(* A profile about to be created *)

PutToken(h) ==
  /\ At(h, "token")
  /\ token' = [token EXCEPT ![handler[h].ward] = handler[h].code]
  /\ Finish(h)
  /\ UNCHANGED <<tables, pending, code, counter, history>>

\* GETDEL
Taken(w) == [token EXCEPT ![w] = NoCode]

\* POST /consent/u18/profile-consent/finalize
FinalizeTake(h, w) ==
  /\ At(h, "idle")
  /\ token[w] # NoCode
  /\ token' = Taken(w)
  /\ Begin(h, [Idle EXCEPT !.pc = "finalize", !.ward = w,
                           !.purpose = "create", !.code = token[w]])
  /\ UNCHANGED <<tables, pending, code, counter, history>>

FinalizeCommit(h) ==
  /\ At(h, "finalize")
  /\ Act(h)
  /\ Finish(h)
  /\ UNCHANGED <<tables, redis>>

\* No version is configured, or the transaction failed: the token is put back.
FinalizePutBack(h) ==
  /\ At(h, "finalize")
  /\ MayFail
  /\ token' = [token EXCEPT ![handler[h].ward] = handler[h].code]
  /\ Finish(h)
  /\ UNCHANGED <<tables, pending, code, counter, history>>

-----------------------------------------------------------------------------
(* Expiry, and requests that end early *)

ExpireCode(s) ==
  /\ "code" \in Expires
  /\ code[s] # NoCode
  /\ code' = [code EXCEPT ![s] = NoCode]
  /\ UNCHANGED <<tables, pending, token, counter, handler, history>>

ExpireToken(w) ==
  /\ "token" \in Expires
  /\ token[w] # NoCode
  /\ token' = [token EXCEPT ![w] = NoCode]
  /\ UNCHANGED <<tables, pending, code, counter, handler, history>>

ExpirePending(w) ==
  /\ "pending" \in Expires
  /\ pending[w] # NoRow
  /\ pending' = [pending EXCEPT ![w] = NoRow]
  /\ UNCHANGED <<tables, code, token, counter, handler, history>>

ExpireCounter(k) ==
  /\ "counter" \in Expires
  /\ counter[k].timed
  /\ counter' = [counter EXCEPT ![k] = [n |-> 0, timed |-> FALSE]]
  /\ UNCHANGED <<tables, pending, code, token, handler, history>>

\* The limit is reached under the lock.
Refused(h) ==
  At(h, "lock") /\ ~ContactLocked(h) /\ ~HasRoom(handler[h].contact, handler[h].ward)

Abandon(h) ==
  /\ ~At(h, "idle")
  /\ MayFail \/ Refused(h)
  /\ stuck' = IF At(h, "expire") THEN stuck \cup {handler[h].key} ELSE stuck
  /\ Finish(h)
  /\ UNCHANGED <<tables, redis, issued, effects>>

-----------------------------------------------------------------------------
(* The specification *)

Call(h) ==
  \E w \in Ward :
    \/ \E c \in Contact : LinkBegin(h, w, c) \/ SignupStart(h, w, c)
    \/ CreateAccount(h, w)
    \/ FinalizeTake(h, w)
    \/ \E p \in Purpose : IssueBegin(h, w, p) \/ \E k \in Code : VerifyBegin(h, w, p, k)

Serve(h) ==
  \/ CountHit(h) \/ SetExpiry(h)
  \/ AssertWardLimit(h) \/ Upsert(h) \/ LinkReadBack(h)
  \/ SignupWrite(h) \/ HookRead(h) \/ HookDropPending(h)
  \/ \E k \in Code : IssueCode(h, k)
  \/ Compare(h) \/ VerifyConsents(h) \/ SetGuardianVerified(h) \/ SignupFlip(h) \/ Effect(h)
  \/ PutToken(h) \/ FinalizeCommit(h) \/ FinalizePutBack(h)

Expiry ==
  \/ \E s \in Scope : ExpireCode(s)
  \/ \E w \in Ward : ExpireToken(w) \/ ExpirePending(w)
  \/ \E k \in Key : ExpireCounter(k)

Next ==
  \/ \E h \in Handler : Call(h) \/ Serve(h) \/ Abandon(h)
  \/ Expiry

Spec == Init /\ [][Next]_vars

-----------------------------------------------------------------------------
(* Properties *)

\* Rows, codes, counters and handlers have the shapes the code gives them.
TypeOK ==
  /\ account \subseteq Ward
  /\ guardian \in [Ward -> Row]
  /\ consented \subseteq Ward
  /\ pending \in [Ward -> Row]
  /\ code \in [Scope -> Code \cup {NoCode}]
  /\ token \in [Ward -> Code \cup {NoCode}]
  /\ counter \in [Key -> [n: Nat, timed: BOOLEAN]]
  /\ handler \in [Handler -> HandlerState]
  /\ issued \in [Code -> Issue \cup {NotIssued}]
  /\ effects \in [Code -> Seq(Scope)]
  /\ stuck \subseteq Key

\* A guardian never has more wards than the limit, although links and the hooks
\* of new accounts count first and write later.
WardLimit == \A c \in Contact : Cardinality(WardsOf(c)) <= MaxWards

\* One answer authorises one thing, whatever is submitted twice, put back or
\* retried.
OneEffectPerCode == \A k \in Code : Len(effects[k]) <= 1

\* It authorises what the guardian was asked: for this ward, for this purpose.
OnlyWhatWasAsked ==
  \A k \in Code : \A n \in DOMAIN effects[k] :
    effects[k][n] = <<issued[k].ward, issued[k].purpose>>

\* Some guardian of ward w has answered, for the account or for the signup.
Answered(w) ==
  \E k \in Code : /\ effects[k] # << >>
                   /\ issued[k].ward = w /\ issued[k].purpose \in {"guardian", "signup"}

\* No ward counts as verified without consents on record and an answer,
\* wherever a request died.
VerifiedIsBacked ==
  \A w \in Ward : guardian[w].verified => w \in consented /\ Answered(w)

\* A counter that would refuse for ever belongs to a request that is about to
\* set its expiry, or that died before it could.
CountersExpire ==
  \A k \in Key : counter[k].n > 0 /\ ~counter[k].timed =>
    k \in stuck \/ \E h \in Handler : At(h, "expire") /\ handler[h].key = k

\* A guardian who counts as verified has answered a code himself.
VerifiedGuardianAnswered ==
  \A w \in Ward : guardian[w].verified =>
    \E k \in Code : /\ effects[k] # << >>
                     /\ issued[k].ward = w /\ issued[k].contact = guardian[w].contact
=============================================================================
