--------------------------- MODULE ProfilesProofs ---------------------------
(***************************************************************************)
(* Proofs about Profiles, for any number of items, users, domains and      *)
(* handlers.                                                               *)
(***************************************************************************)
EXTENDS Profiles, FiniteSetTheorems, TLAPS

-----------------------------------------------------------------------------
(* Types.  TypeOK is not inductive: a row is written from what its handler
   remembers, so the handlers' fields are typed by how far they have come. *)

RowShape(r) == r.status # "none" => r.owner \in User /\ r.domain \in Domain

Shape(r) ==
  /\ r.pc \in {"claim", "limit", "insert"} => r.user \in User /\ r.domain \in Domain
  /\ r.pc \in {"accept", "promote", "dob"} => r.user \in User
  /\ r.pc \in {"accept", "gates", "write", "move", "retire"} => r.item \in Item
  /\ r.pc = "dob" => r.age \in Age
  /\ r.pc \in {"gates", "write"} => r.row.owner \in User /\ r.row.domain \in Domain

ShapeInv ==
  /\ \A i \in Item : RowShape(items[i])
  /\ \A h \in Handler : Shape(handler[h])

TypeInv == TypeOK /\ ShapeInv

LEMMA IdleType == Idle \in HandlerState /\ Shape(Idle)
  BY DEF Idle, HandlerState, NoRow, Row, Consent, Shape

LEMMA BeginSets ==
  ASSUME TypeInv, NEW h \in Handler, NEW r, Begin(h, r)
  PROVE  handler'[h] = r /\ \A g \in Handler \ {h} : handler'[g] = handler[g]
  BY DEF Begin, TypeInv, TypeOK

LEMMA FinishSets ==
  ASSUME TypeInv, NEW h \in Handler, Finish(h), NEW g \in Handler
  PROVE  handler'[g] = handler[g] \/ (handler'[g].pc = "idle" /\ handler'[g].opts = {})
<1>1. CASE g = h
  <2>1. handler'[h] = Idle
    BY BeginSets DEF Finish
  <2>. QED
    BY <1>1, <2>1 DEF Idle
<1>2. CASE g # h
  <2>1. handler'[g] = handler[g]
    BY <1>2, BeginSets DEF Finish
  <2>. QED
    BY <2>1
<1>. QED
  BY <1>1, <1>2

LEMMA MovesType ==
  \A m \in DOMAIN Moves : Moves[m].pc \in {"move", "retire"} /\ "none" \notin Moves[m].from
  BY DEF Moves

\* What a handler begins, with a well-formed state, keeps the types as long as
\* the tables keep theirs.
LEMMA TypeBegin ==
  ASSUME TypeInv, NEW h \in Handler, NEW r \in HandlerState, Shape(r), Begin(h, r),
         items' \in [Item -> Row], \A i \in Item : RowShape(items'[i]),
         consents' \subseteq Consent, age' \in [User -> Age \cup {"unknown"}],
         domain' \in [User -> Domain \cup {NoDomain}], erased' \subseteq Item
  PROVE  TypeInv'
<1>1. handler' \in [Handler -> HandlerState] /\ \A g \in Handler : Shape(handler'[g])
  BY DEF Begin, TypeInv, TypeOK, ShapeInv
<1>. QED
  BY <1>1 DEF TypeInv, TypeOK, ShapeInv

LEMMA TypeReadOnly ==
  ASSUME TypeInv, NEW h \in Handler, NEW r \in HandlerState, Shape(r), Begin(h, r), ReadOnly
  PROVE  TypeInv'
<1>1. /\ items' \in [Item -> Row] /\ \A i \in Item : RowShape(items'[i])
      /\ consents' \subseteq Consent /\ age' \in [User -> Age \cup {"unknown"}]
      /\ domain' \in [User -> Domain \cup {NoDomain}] /\ erased' \subseteq Item
  BY DEF ReadOnly, TypeInv, TypeOK, ShapeInv
<1>. QED
  BY <1>1, TypeBegin

LEMMA TypeInit == Init => TypeInv
<1>. SUFFICES ASSUME Init PROVE TypeInv
  OBVIOUS
<1>1. NoRow \in Row /\ RowShape(NoRow)
  BY DEF NoRow, Row, RowShape
<1>. QED
  BY <1>1, IdleType DEF Init, TypeInv, TypeOK, ShapeInv

\* The two kinds of edit: of the state, or of the locations alone.
LEMMA UpdateBegins ==
  ASSUME NEW h \in Handler, NEW i \in Item, UpdateRead(h, i)
  PROVE  \/ Begin(h, [Idle EXCEPT !.pc = "gates", !.opts = {}, !.item = i,
                                  !.user = items[i].owner, !.row = items[i]])
         \/ Begin(h, [Idle EXCEPT !.pc = "write", !.opts = {"locations"}, !.item = i,
                                  !.user = items[i].owner, !.row = items[i]])
<1>1. PICK q \in {[pc |-> "gates", opts |-> {}], [pc |-> "write", opts |-> {"locations"}]} :
        Begin(h, [Idle EXCEPT !.pc = q.pc, !.opts = q.opts, !.item = i,
                              !.user = items[i].owner, !.row = items[i]])
  BY Zenon DEF UpdateRead
<1>2. \/ q.pc = "gates" /\ q.opts = {}
      \/ q.pc = "write" /\ q.opts = {"locations"}
  OBVIOUS
<1>. QED
  BY <1>1, <1>2

LEMMA TypeCall ==
  ASSUME TypeInv, NEW h \in Handler, Call(h)
  PROVE  TypeInv'
<1>1. ASSUME NEW u \in User, NEW d \in Domain, CreateBegin(h, u, d) PROVE TypeInv'
  <2>1. PICK opts \in {{}, {"accepted"}, {"accepted", "promotes"}} :
          /\ Begin(h, [Idle EXCEPT !.pc = "claim", !.user = u, !.domain = d, !.opts = opts])
          /\ ReadOnly
    BY <1>1 DEF CreateBegin
  <2>. DEFINE r == [Idle EXCEPT !.pc = "claim", !.user = u, !.domain = d, !.opts = opts]
  <2>2. r \in HandlerState /\ Shape(r)
    BY IdleType DEF Idle, HandlerState, Shape
  <2>. QED
    BY <2>1, <2>2, TypeReadOnly
<1>2. ASSUME NEW i \in Item, AcceptCheck(h, i) \/ GuardianCheck(h, i) PROVE TypeInv'
  <2>1. items[i].owner \in User
    BY <1>2 DEF AcceptCheck, GuardianCheck, Exists, TypeInv, ShapeInv, RowShape
  <2>. DEFINE r == [Idle EXCEPT !.pc = "accept", !.user = items[i].owner, !.item = i]
              g == [Idle EXCEPT !.pc = "accept", !.user = items[i].owner, !.item = i,
                                !.opts = {"guardian"}]
  <2>2. r \in HandlerState /\ Shape(r) /\ g \in HandlerState /\ Shape(g)
    BY <2>1, IdleType DEF Idle, HandlerState, Shape
  <2>3. (Begin(h, r) \/ Begin(h, g)) /\ ReadOnly
    BY <1>2 DEF AcceptCheck, GuardianCheck
  <2>. QED
    BY <2>2, <2>3, TypeReadOnly
<1>3. ASSUME NEW u \in User, ParticipantAge(h, u) PROVE TypeInv'
  <2>1. PICK S \in SUBSET Item :
          /\ Begin(h, [Idle EXCEPT !.pc = "promote", !.user = u, !.age = "adult", !.seen = S])
          /\ ReadOnly
    BY <1>3 DEF ParticipantAge, Owned
  <2>. DEFINE r == [Idle EXCEPT !.pc = "promote", !.user = u, !.age = "adult", !.seen = S]
  <2>2. r \in HandlerState /\ Shape(r)
    BY IdleType DEF Idle, HandlerState, Shape, Age
  <2>. QED
    BY <2>1, <2>2, TypeReadOnly
<1>4. ASSUME NEW u \in User, NEW a \in Age, DobRead(h, u, a) PROVE TypeInv'
  <2>. DEFINE r == [Idle EXCEPT !.pc = "dob", !.user = u, !.age = a]
  <2>1. r \in HandlerState /\ Shape(r)
    BY IdleType DEF Idle, HandlerState, Shape
  <2>. QED
    BY <1>4, <2>1, TypeReadOnly DEF DobRead
<1>5. ASSUME NEW i \in Item, UpdateRead(h, i) PROVE TypeInv'
  <2>1. /\ items[i] \in Row /\ items[i].owner \in User /\ items[i].domain \in Domain
    BY <1>5 DEF UpdateRead, Editable, Exists, TypeInv, TypeOK, ShapeInv, RowShape
  <2>. DEFINE g == [Idle EXCEPT !.pc = "gates", !.opts = {}, !.item = i,
                                !.user = items[i].owner, !.row = items[i]]
              w == [Idle EXCEPT !.pc = "write", !.opts = {"locations"}, !.item = i,
                                !.user = items[i].owner, !.row = items[i]]
  <2>2. g \in HandlerState /\ Shape(g) /\ w \in HandlerState /\ Shape(w)
    BY <2>1, IdleType DEF Idle, HandlerState, Shape
  <2>3. Begin(h, g) \/ Begin(h, w)
    BY <1>5, UpdateBegins
  <2>. QED
    BY <1>5, <2>2, <2>3, TypeReadOnly DEF UpdateRead
<1>6. ASSUME NEW m \in DOMAIN Moves, NEW i \in Item, LifecycleRead(h, i, m) PROVE TypeInv'
  <2>1. /\ items[i] \in Row /\ items[i].owner \in User
        /\ Moves[m].pc \in {"move", "retire"} /\ Target(i, m) \in {"paused", "live", "draft", "retired"}
    BY <1>6, MovesType DEF LifecycleRead, Target, TypeInv, TypeOK, ShapeInv, RowShape, Moves
  <2>. DEFINE row == [items[i] EXCEPT !.status = Target(i, m)]
  <2>2. row \in Row
    BY <2>1 DEF Row
  <2>. DEFINE r == [Idle EXCEPT !.pc = Moves[m].pc, !.user = items[i].owner, !.item = i,
                                !.row = row]
  <2>3. r \in HandlerState /\ Shape(r)
    <3>. HIDE DEF row
    <3>. QED
      BY <2>1, <2>2, IdleType DEF Idle, HandlerState, Shape
  <2>4. Begin(h, r) /\ ReadOnly
    BY <1>6 DEF LifecycleRead
  <2>. QED
    BY <2>3, <2>4, TypeReadOnly
<1>. QED
  BY <1>1, <1>2, <1>3, <1>4, <1>5, <1>6 DEF Call

LEMMA TypeServe ==
  ASSUME TypeInv, NEW h \in Handler, Serve(h)
  PROVE  TypeInv'
<1>. DEFINE s == handler[h]
<1>0. s \in HandlerState /\ Shape(s)
  BY DEF TypeInv, TypeOK, ShapeInv
<1>1. CASE ClaimDomain(h)
  <2>1. PICK opts \in {s.opts, s.opts \cup {"claimed"}} :
          Begin(h, [s EXCEPT !.pc = "limit", !.opts = opts]) /\ ReadOnly
    BY <1>0, <1>1 DEF ClaimDomain, HandlerState
  <2>. DEFINE r == [s EXCEPT !.pc = "limit", !.opts = opts]
  <2>2. r \in HandlerState /\ Shape(r)
    BY <1>0, <1>1 DEF ClaimDomain, At, HandlerState, Shape
  <2>. QED
    BY <2>1, <2>2, TypeReadOnly
<1>2. CASE AssertProfileLimit(h)
  <2>. DEFINE r == [s EXCEPT !.pc = "insert"]
  <2>1. r \in HandlerState /\ Shape(r)
    BY <1>0, <1>2 DEF AssertProfileLimit, At, HandlerState, Shape
  <2>. QED
    BY <1>2, <2>1, TypeReadOnly DEF AssertProfileLimit
<1>3. ASSUME NEW i \in Item, CreateInsert(h, i) PROVE TypeInv'
  <2>1. s.user \in User /\ s.domain \in Domain
    BY <1>0, <1>3 DEF CreateInsert, At, Shape
  <2>2. PICK complete \in BOOLEAN, status \in {"live", "draft"} :
          items' = [items EXCEPT ![i] =
            [status |-> status, owner |-> s.user, domain |-> s.domain,
             complete |-> complete, personal |-> TRUE]]
    BY <1>3 DEF CreateInsert, Classify
  <2>3. items' \in [Item -> Row] /\ \A j \in Item : RowShape(items'[j])
    BY <2>1, <2>2 DEF TypeInv, TypeOK, ShapeInv, Row, RowShape
  <2>4. consents' \subseteq Consent
    BY <1>3 DEF CreateInsert, Consent, TypeInv, TypeOK
  <2>5. domain' \in [User -> Domain \cup {NoDomain}]
    BY <1>3, <2>1 DEF CreateInsert, TypeInv, TypeOK
  <2>. QED
    BY <1>3, <2>3, <2>4, <2>5, IdleType, TypeBegin DEF CreateInsert, Finish, TypeInv, TypeOK
<1>4. CASE PromoteRead(h)
  <2>1. s.item \in Item /\ s.user \in User
    BY <1>0, <1>4 DEF PromoteRead, At, Shape
  <2>2. ConsentRow(h) \in Consent
    BY <2>1 DEF ConsentRow, Consent
  <2>. DEFINE S == IF Promotable(s.item, consents \cup {ConsentRow(h)}, age[s.user])
                   THEN {s.item} ELSE {}
  <2>3. /\ Begin(h, [s EXCEPT !.pc = "promote", !.rows = {ConsentRow(h)}, !.seen = S])
        /\ ReadOnly /\ S \in SUBSET Item
    BY <1>4, <2>1 DEF PromoteRead
  <2>. HIDE DEF S
  <2>. DEFINE r == [s EXCEPT !.pc = "promote", !.rows = {ConsentRow(h)}, !.seen = S]
  <2>4. r \in HandlerState /\ Shape(r)
    BY <1>0, <2>1, <2>2, <2>3 DEF HandlerState, Shape
  <2>. QED
    BY <2>3, <2>4, TypeReadOnly
<1>5. CASE PromoteCommit(h)
  <2>1. items' \in [Item -> Row] /\ \A j \in Item : RowShape(items'[j])
    BY <1>5 DEF PromoteCommit, Exists, TypeInv, TypeOK, ShapeInv, Row, RowShape
  <2>2. consents' \subseteq Consent
    BY <1>0, <1>5 DEF PromoteCommit, HandlerState, TypeInv, TypeOK
  <2>3. age' \in [User -> Age \cup {"unknown"}]
    BY <1>0, <1>5 DEF PromoteCommit, At, HandlerState, Shape, TypeInv, TypeOK
  <2>. QED
    BY <1>5, <2>1, <2>2, <2>3, IdleType, TypeBegin DEF PromoteCommit, Finish, TypeInv, TypeOK
<1>6. CASE DobCommit(h)
  <2>1. age' \in [User -> Age \cup {"unknown"}]
    BY <1>0, <1>6 DEF DobCommit, At, Shape, TypeInv, TypeOK
  <2>. QED
    BY <1>6, <2>1, IdleType, TypeBegin DEF DobCommit, Finish, TypeInv, TypeOK, ShapeInv
<1>7. ASSUME NEW complete \in BOOLEAN, UpdateGates(h, complete) PROVE TypeInv'
  <2>1. s.row \in Row /\ s.item \in Item /\ s.row.owner \in User /\ s.row.domain \in Domain
    BY <1>0, <1>7 DEF UpdateGates, At, Shape, HandlerState
  <2>. DEFINE satisfied == /\ HasAcceptedProfileConsent(s.item, consents)
                           /\ ~GuardianGateBlocks(s.item, consents, age[s.row.owner])
              status == IF s.row.status = "paused" THEN "paused"
                        ELSE Classify(s.row.domain, complete, satisfied)
  <2>2. status \in {"paused", "live", "draft"}
    BY DEF Classify
  <2>2a. /\ Begin(h, [s EXCEPT !.pc = "write",
               !.row = [s.row EXCEPT !.status = status, !.complete = complete, !.personal = TRUE]])
        /\ ReadOnly
    BY <1>7, Zenon DEF UpdateGates
  <2>. HIDE DEF status
  <2>. DEFINE row == [s.row EXCEPT !.status = status, !.complete = complete, !.personal = TRUE]
  <2>3. row \in Row /\ row.owner \in User /\ row.domain \in Domain
    BY <2>1, <2>2 DEF Row
  <2>. HIDE DEF row
  <2>. DEFINE r == [s EXCEPT !.pc = "write", !.row = row]
  <2>4. r \in HandlerState /\ Shape(r)
    BY <1>0, <2>1, <2>3 DEF HandlerState, Shape
  <2>5. Begin(h, r) /\ ReadOnly
    BY <2>2a DEF row
  <2>. QED
    BY <2>4, <2>5, TypeReadOnly
<1>8. CASE UpdateWrite(h)
  <2>1. s.row \in Row /\ s.item \in Item /\ s.row.owner \in User /\ s.row.domain \in Domain
    BY <1>0, <1>8 DEF UpdateWrite, At, Shape, HandlerState
  <2>2. \/ items' = items
        \/ items' = [items EXCEPT ![s.item].personal = TRUE]
        \/ items' = [items EXCEPT ![s.item] = s.row]
    BY <1>8, Zenon DEF UpdateWrite
  <2>3. RowShape(s.row)
    BY <2>1 DEF RowShape
  <2>4. items' \in [Item -> Row] /\ \A j \in Item : RowShape(items'[j])
    <3>1. CASE items' = items
      BY <3>1 DEF TypeInv, TypeOK, ShapeInv
    <3>2. CASE items' = [items EXCEPT ![s.item].personal = TRUE]
      BY <2>1, <3>2 DEF TypeInv, TypeOK, ShapeInv, Row, RowShape
    <3>3. CASE items' = [items EXCEPT ![s.item] = s.row]
      BY <2>1, <2>3, <3>3 DEF TypeInv, TypeOK, ShapeInv
    <3>. QED
      BY <2>2, <3>1, <3>2, <3>3
  <2>. QED
    BY <1>8, <2>4, IdleType, TypeBegin DEF UpdateWrite, Finish, TypeInv, TypeOK
<1>9. CASE LifecycleCommit(h)
  <2>1. s.row \in Row /\ s.item \in Item
    BY <1>0, <1>9 DEF LifecycleCommit, At, Shape, HandlerState
  <2>2. items' \in [Item -> Row] /\ \A j \in Item : RowShape(items'[j])
    BY <1>9, <2>1 DEF LifecycleCommit, Exists, TypeInv, TypeOK, ShapeInv, Row, RowShape
  <2>. QED
    BY <1>9, <2>2, IdleType, TypeBegin DEF LifecycleCommit, Finish, TypeInv, TypeOK
<1>10. CASE RetireCommit(h)
  <2>1. s.row \in Row /\ s.item \in Item
    BY <1>0, <1>10 DEF RetireCommit, At, Shape, HandlerState
  <2>2. items' \in [Item -> Row] /\ \A j \in Item : RowShape(items'[j])
    <3>1. CASE Exists(s.item)
      <4>1. PICK complete \in {FALSE, s.row.complete} :
              items' = [items EXCEPT ![s.item] =
                [@ EXCEPT !.status = "retired", !.complete = complete, !.personal = FALSE]]
        BY <1>10, <3>1, Zenon DEF RetireCommit
      <4>2. complete \in BOOLEAN
        BY <2>1 DEF Row
      <4>. QED
        BY <2>1, <3>1, <4>1, <4>2 DEF Exists, TypeInv, TypeOK, ShapeInv, Row, RowShape
    <3>2. CASE ~Exists(s.item)
      BY <1>10, <3>2 DEF RetireCommit, TypeInv, TypeOK, ShapeInv
    <3>. QED
      BY <3>1, <3>2
  <2>3. erased' \subseteq Item
    BY <1>10, <2>1 DEF RetireCommit, TypeInv, TypeOK
  <2>. QED
    BY <1>10, <2>2, <2>3, IdleType, TypeBegin DEF RetireCommit, Finish, TypeInv, TypeOK
<1>. QED
  BY <1>1, <1>2, <1>3, <1>4, <1>5, <1>6, <1>7, <1>8, <1>9, <1>10 DEF Serve

LEMMA TypeStep ==
  ASSUME TypeInv, [Next]_vars
  PROVE  TypeInv'
<1>1. ASSUME NEW h \in Handler, Abandon(h) PROVE TypeInv'
  BY <1>1, IdleType, TypeReadOnly DEF Abandon, Finish
<1>2. ASSUME NEW u \in User, NEW d \in Domain, SetDomain(u, d) PROVE TypeInv'
  BY <1>2 DEF SetDomain, TypeInv, TypeOK, ShapeInv
<1>3. ASSUME NEW i \in Item, DeleteItem(i) PROVE TypeInv'
  <2>1. items' \in [Item -> Row] /\ \A j \in Item : RowShape(items'[j])
    BY <1>3 DEF DeleteItem, Exists, TypeInv, TypeOK, ShapeInv, Row, RowShape
  <2>. QED
    BY <1>3, <2>1 DEF DeleteItem, TypeInv, TypeOK, ShapeInv
<1>4. CASE UNCHANGED vars
  BY <1>4 DEF vars, TypeInv, TypeOK, ShapeInv
<1>. QED
  BY <1>1, <1>2, <1>3, <1>4, TypeCall, TypeServe DEF Next

LEMMA TypeInvariant == Spec => []TypeInv
  BY TypeInit, TypeStep, PTL DEF Spec

\* Rows, consents and what handlers remember keep their types, whatever the
\* requests and however they interleave.
THEOREM ProfilesTypeCorrect == Spec => []TypeOK
  BY TypeInvariant, PTL DEF TypeInv

-----------------------------------------------------------------------------
(* What no request changes: the owner and the domain of a profile. *)

Known(i) == items[i].status # "none"

\* A step that creates no profile and brings none back from deletion.
RowsKeep ==
  \A i \in Item :
    /\ items'[i].owner = items[i].owner /\ items'[i].domain = items[i].domain
    /\ Known(i)' <=> Known(i)
    /\ items[i].status = "deleted" => items'[i].status = "deleted"

\* What a handler has read is of the profile it names.
Match(r) ==
  /\ r.pc \in {"accept", "gates", "write", "move", "retire"} => Known(r.item)
  /\ r.pc \in {"accept", "gates", "write", "move"} => r.user = items[r.item].owner
  /\ r.pc \in {"gates", "write", "move"} => r.row.status # "none"
  /\ r.pc \in {"gates", "write"} =>
       r.row.owner = items[r.item].owner /\ r.row.domain = items[r.item].domain
  /\ r.pc = "promote" => \A i \in r.seen : Known(i) /\ items[i].owner = r.user

MatchInv == \A h \in Handler : Match(handler[h])

LEMMA MatchIdle == Match(Idle)
  BY DEF Match, Idle

LEMMA MatchBegin ==
  ASSUME TypeInv, TypeInv', MatchInv, RowsKeep, NEW h \in Handler, NEW r, Match(r), Begin(h, r)
  PROVE  MatchInv'
<1>1. ASSUME NEW s \in HandlerState, Shape(s), Match(s) PROVE Match(s)'
  <2>1. s.seen \subseteq Item
    BY <1>1 DEF HandlerState
  <2>. QED
    BY <1>1, <2>1 DEF Shape, Match, RowsKeep
<1>2. ASSUME NEW g \in Handler PROVE Match(handler[g])'
  <2>1. Match(handler'[g])
    BY DEF Begin, TypeInv, TypeOK, MatchInv
  <2>2. handler'[g] \in HandlerState /\ Shape(handler'[g])
    BY DEF TypeInv, TypeOK, ShapeInv, Shape
  <2>3. PICK s \in HandlerState : s = handler'[g] /\ Shape(s) /\ Match(s)
    BY <2>1, <2>2
  <2>4. Match(s)'
    BY <1>1, <2>3
  <2>. QED
    BY <2>3, <2>4 DEF Match
<1>. QED
  BY <1>2 DEF MatchInv

LEMMA ReadOnlyKeeps == ASSUME ReadOnly PROVE RowsKeep
  BY DEF ReadOnly, RowsKeep, Known

LEMMA MatchCall ==
  ASSUME TypeInv, TypeInv', MatchInv, NEW h \in Handler, Call(h)
  PROVE  MatchInv'
<1>1. \E r : Begin(h, r) /\ ReadOnly /\ Match(r)
  <2>1. ASSUME NEW u \in User, NEW d \in Domain, CreateBegin(h, u, d)
        PROVE  \E r : Begin(h, r) /\ ReadOnly /\ Match(r)
    <3>1. PICK opts :
            Begin(h, [Idle EXCEPT !.pc = "claim", !.user = u, !.domain = d, !.opts = opts])
      BY <2>1, Zenon DEF CreateBegin
    <3>2. Match([Idle EXCEPT !.pc = "claim", !.user = u, !.domain = d, !.opts = opts])
      BY DEF Idle, Match
    <3>. QED
      BY <2>1, <3>1, <3>2 DEF CreateBegin
  <2>2. ASSUME NEW i \in Item, AcceptCheck(h, i) \/ GuardianCheck(h, i)
        PROVE  \E r : Begin(h, r) /\ ReadOnly /\ Match(r)
    <3>. DEFINE r == [Idle EXCEPT !.pc = "accept", !.user = items[i].owner, !.item = i]
                g == [Idle EXCEPT !.pc = "accept", !.user = items[i].owner, !.item = i,
                                  !.opts = {"guardian"}]
    <3>1. Match(r) /\ Match(g)
      BY <2>2 DEF AcceptCheck, GuardianCheck, Exists, Known, Idle, Match
    <3>2. (Begin(h, r) \/ Begin(h, g)) /\ ReadOnly
      BY <2>2 DEF AcceptCheck, GuardianCheck
    <3>. HIDE DEF r, g
    <3>. QED
      BY <3>1, <3>2
  <2>3. ASSUME NEW u \in User, ParticipantAge(h, u)
        PROVE  \E r : Begin(h, r) /\ ReadOnly /\ Match(r)
    <3>. DEFINE S == {i \in Owned(u) : /\ HasAcceptedProfileConsent(i, consents)
                                       /\ Promotable(i, consents, "adult")}
                r == [Idle EXCEPT !.pc = "promote", !.user = u, !.age = "adult", !.seen = S]
    <3>1. \A i \in S : Known(i) /\ items[i].owner = u
      BY DEF Owned, Exists, Known
    <3>2. Match(r)
      <4>. HIDE DEF S
      <4>. QED
        BY <3>1 DEF Idle, Match
    <3>3. Begin(h, r) /\ ReadOnly
      BY <2>3 DEF ParticipantAge
    <3>. HIDE DEF r
    <3>. QED
      BY <3>2, <3>3
  <2>4. ASSUME NEW u \in User, NEW a \in Age, DobRead(h, u, a)
        PROVE  \E r : Begin(h, r) /\ ReadOnly /\ Match(r)
    <3>1. Match([Idle EXCEPT !.pc = "dob", !.user = u, !.age = a])
      BY DEF Idle, Match
    <3>. QED
      BY <2>4, <3>1 DEF DobRead
  <2>5. ASSUME NEW i \in Item, UpdateRead(h, i)
        PROVE  \E r : Begin(h, r) /\ ReadOnly /\ Match(r)
    <3>. DEFINE g == [Idle EXCEPT !.pc = "gates", !.opts = {}, !.item = i,
                                  !.user = items[i].owner, !.row = items[i]]
                w == [Idle EXCEPT !.pc = "write", !.opts = {"locations"}, !.item = i,
                                  !.user = items[i].owner, !.row = items[i]]
    <3>1. Match(g) /\ Match(w)
      BY <2>5 DEF UpdateRead, Editable, Exists, Known, Idle, Match
    <3>2. Begin(h, g) \/ Begin(h, w)
      BY <2>5, UpdateBegins
    <3>. HIDE DEF g, w
    <3>. QED
      BY <2>5, <3>1, <3>2 DEF UpdateRead
  <2>6. ASSUME NEW m \in DOMAIN Moves, NEW i \in Item, LifecycleRead(h, i, m)
        PROVE  \E r : Begin(h, r) /\ ReadOnly /\ Match(r)
    <3>. DEFINE row == [items[i] EXCEPT !.status = Target(i, m)]
                r == [Idle EXCEPT !.pc = Moves[m].pc, !.user = items[i].owner, !.item = i,
                                  !.row = row]
    <3>1. /\ Known(i) /\ Moves[m].pc \in {"move", "retire"}
          /\ Target(i, m) # "none" /\ items[i] \in Row
      BY <2>6, MovesType DEF LifecycleRead, Target, Known, Moves, TypeInv, TypeOK
    <3>2. row.status # "none"
      BY <3>1 DEF Row
    <3>3. Match(r)
      <4>. HIDE DEF row
      <4>. QED
        BY <3>1, <3>2 DEF Idle, Match
    <3>4. Begin(h, r) /\ ReadOnly
      BY <2>6 DEF LifecycleRead
    <3>. HIDE DEF r
    <3>. QED
      BY <3>3, <3>4
  <2>. QED
    BY <2>1, <2>2, <2>3, <2>4, <2>5, <2>6 DEF Call
<1>. QED
  BY <1>1, MatchBegin, ReadOnlyKeeps

\* Every step of a handler but the insert keeps the rows.
LEMMA ServeKeeps ==
  ASSUME TypeInv, MatchInv, NEW h \in Handler, Serve(h),
         ~\E i \in Item : CreateInsert(h, i)
  PROVE  RowsKeep
<1>. DEFINE s == handler[h]
<1>0. s \in HandlerState /\ Shape(s) /\ Match(s)
  BY DEF TypeInv, TypeOK, ShapeInv, MatchInv
<1>1. CASE ReadOnly
  BY <1>1, ReadOnlyKeeps
<1>2. CASE PromoteCommit(h)
  BY <1>2 DEF PromoteCommit, Exists, RowsKeep, Known, TypeInv, TypeOK, Row
<1>3. CASE DobCommit(h)
  BY <1>3 DEF DobCommit, RowsKeep, Known
<1>4. CASE UpdateWrite(h)
  <2>1. /\ s.item \in Item /\ Known(s.item) /\ s.row.status # "none"
        /\ s.row.owner = items[s.item].owner /\ s.row.domain = items[s.item].domain
    BY <1>0, <1>4 DEF UpdateWrite, At, Shape, Match
  <2>2. \/ items' = items
        \/ items' = [items EXCEPT ![s.item].personal = TRUE]
        \/ Exists(s.item) /\ items' = [items EXCEPT ![s.item] = s.row]
    BY <1>4, Zenon DEF UpdateWrite
  <2>3. CASE items' = items
    BY <2>3 DEF RowsKeep, Known
  <2>4. CASE items' = [items EXCEPT ![s.item].personal = TRUE]
    BY <2>1, <2>4 DEF RowsKeep, Known, TypeInv, TypeOK, Row
  <2>5. CASE Exists(s.item) /\ items' = [items EXCEPT ![s.item] = s.row]
    BY <2>1, <2>5 DEF Exists, RowsKeep, Known, TypeInv, TypeOK
  <2>. QED
    BY <2>2, <2>3, <2>4, <2>5
<1>5. CASE LifecycleCommit(h)
  BY <1>0, <1>5 DEF LifecycleCommit, At, Exists, Match, RowsKeep, Known, TypeInv, TypeOK, Row
<1>6. CASE RetireCommit(h)
  <2>1. s.item \in Item
    BY <1>0, <1>6 DEF RetireCommit, At, Shape
  <2>2. CASE Exists(s.item)
    <3>1. PICK complete :
            items' = [items EXCEPT ![s.item] =
              [@ EXCEPT !.status = "retired", !.complete = complete, !.personal = FALSE]]
      BY <1>6, <2>2, Zenon DEF RetireCommit
    <3>. QED
      BY <2>1, <2>2, <3>1 DEF Exists, RowsKeep, Known, TypeInv, TypeOK, Row
  <2>3. CASE ~Exists(s.item)
    BY <1>6, <2>3 DEF RetireCommit, RowsKeep, Known
  <2>. QED
    BY <2>2, <2>3
<1>. QED
  BY <1>1, <1>2, <1>3, <1>4, <1>5, <1>6
  DEF Serve, ClaimDomain, AssertProfileLimit, PromoteRead, UpdateGates

LEMMA MatchServe ==
  ASSUME TypeInv, TypeInv', MatchInv, NEW h \in Handler, Serve(h),
         ~\E i \in Item : CreateInsert(h, i)
  PROVE  MatchInv'
<1>. DEFINE s == handler[h]
<1>0. s \in HandlerState /\ Shape(s) /\ Match(s)
  BY DEF TypeInv, TypeOK, ShapeInv, MatchInv
<1>1. CASE ClaimDomain(h)
  <2>1. PICK opts : Begin(h, [s EXCEPT !.pc = "limit", !.opts = opts])
    BY <1>0, <1>1 DEF ClaimDomain, HandlerState
  <2>2. Match([s EXCEPT !.pc = "limit", !.opts = opts])
    BY <1>0 DEF HandlerState, Match
  <2>. QED
    BY <2>1, <2>2, MatchBegin, ServeKeeps
<1>2. CASE AssertProfileLimit(h)
  <2>1. Match([s EXCEPT !.pc = "insert"])
    BY <1>0 DEF HandlerState, Match
  <2>. QED
    BY <1>2, <2>1, MatchBegin, ServeKeeps DEF AssertProfileLimit
<1>3. CASE PromoteRead(h)
  <2>. DEFINE S == IF Promotable(s.item, consents \cup {ConsentRow(h)}, age[s.user])
                   THEN {s.item} ELSE {}
              r == [s EXCEPT !.pc = "promote", !.rows = {ConsentRow(h)}, !.seen = S]
  <2>1. \A i \in S : Known(i) /\ items[i].owner = s.user
    BY <1>0, <1>3 DEF PromoteRead, At, Match
  <2>2. Match(r)
    <3>. HIDE DEF S
    <3>. QED
      BY <1>0, <2>1 DEF HandlerState, Match
  <2>3. Begin(h, r)
    BY <1>3 DEF PromoteRead
  <2>. HIDE DEF r
  <2>. QED
    BY <2>2, <2>3, MatchBegin, ServeKeeps
<1>4. ASSUME NEW complete \in BOOLEAN, UpdateGates(h, complete) PROVE MatchInv'
  <2>. DEFINE satisfied == /\ HasAcceptedProfileConsent(s.item, consents)
                           /\ ~GuardianGateBlocks(s.item, consents, age[s.row.owner])
              status == IF s.row.status = "paused" THEN "paused"
                        ELSE Classify(s.row.domain, complete, satisfied)
              row == [s.row EXCEPT !.status = status, !.complete = complete, !.personal = TRUE]
              r == [s EXCEPT !.pc = "write", !.row = row]
  <2>1. Begin(h, r)
    BY <1>4, Zenon DEF UpdateGates
  <2>2. status # "none"
    BY DEF Classify
  <2>3. row.status # "none" /\ row.owner = s.row.owner /\ row.domain = s.row.domain
    <3>. HIDE DEF status
    <3>. QED
      BY <1>0, <2>2 DEF HandlerState, Row
  <2>4. Match(r)
    <3>. HIDE DEF row
    <3>. QED
      BY <1>0, <1>4, <2>3 DEF UpdateGates, At, HandlerState, Match
  <2>. HIDE DEF r
  <2>. QED
    BY <2>1, <2>4, MatchBegin, ServeKeeps
<1>5. CASE PromoteCommit(h) \/ DobCommit(h) \/ UpdateWrite(h) \/ LifecycleCommit(h) \/ RetireCommit(h)
  <2>1. Begin(h, Idle)
    BY <1>5 DEF PromoteCommit, DobCommit, UpdateWrite, LifecycleCommit, RetireCommit, Finish
  <2>. QED
    BY <2>1, MatchIdle, MatchBegin, ServeKeeps
<1>. QED
  BY <1>1, <1>2, <1>3, <1>4, <1>5 DEF Serve

LEMMA MatchStep ==
  ASSUME TypeInv, TypeInv', MatchInv, [Next]_vars
  PROVE  MatchInv'
<1>1. ASSUME NEW h \in Handler, NEW i \in Item, CreateInsert(h, i) PROVE MatchInv'
  <2>1. /\ ~Known(i) /\ \A j \in Item \ {i} : items'[j] = items[j]
        /\ \A g \in Handler \ {h} : handler'[g] = handler[g]
        /\ handler'[h] = Idle
    BY <1>1 DEF CreateInsert, Finish, Begin, Known, TypeInv, TypeOK
  <2>2. ASSUME NEW g \in Handler \ {h} PROVE Match(handler[g])'
    <3>1. PICK s \in HandlerState : s = handler[g] /\ Shape(s) /\ Match(s)
      BY DEF TypeInv, TypeOK, ShapeInv, MatchInv
    <3>2. Match(s)'
      <4>1. s.seen \subseteq Item
        BY DEF HandlerState
      <4>. QED
        BY <2>1, <3>1, <4>1 DEF Shape, Match, Known
    <3>. QED
      BY <2>1, <3>1, <3>2 DEF Match
  <2>3. Match(handler[h])'
    BY <2>1 DEF Match, Idle
  <2>. QED
    BY <2>2, <2>3 DEF MatchInv
<1>2. ASSUME NEW h \in Handler, Abandon(h) PROVE MatchInv'
  BY <1>2, MatchIdle, MatchBegin, ReadOnlyKeeps DEF Abandon, Finish
<1>3. CASE \/ UNCHANGED vars
           \/ \E u \in User, d \in Domain : SetDomain(u, d)
           \/ \E i \in Item : DeleteItem(i)
  <2>1. handler' = handler
    BY <1>3 DEF vars, SetDomain, DeleteItem
  <2>2. RowsKeep
    <3>1. CASE items' = items
      BY <3>1 DEF RowsKeep, Known
    <3>2. ASSUME NEW i \in Item, DeleteItem(i) PROVE RowsKeep
      BY <3>2 DEF DeleteItem, Exists, RowsKeep, Known, TypeInv, TypeOK, Row
    <3>. QED
      BY <1>3, <3>1, <3>2 DEF vars, SetDomain
  <2>3. ASSUME NEW h \in Handler PROVE Begin(h, handler[h]) /\ Match(handler[h])
    BY <2>1 DEF Begin, TypeInv, TypeOK, MatchInv
  <2>4. CASE Handler = {}
    BY <2>4 DEF MatchInv
  <2>. QED
    BY <2>2, <2>3, <2>4, MatchBegin
<1>. QED
  BY <1>1, <1>2, <1>3, MatchCall, MatchServe DEF Next

LEMMA MatchInvariant == Spec => [](TypeInv /\ MatchInv)
<1>1. Init => MatchInv
  BY MatchIdle DEF Init, MatchInv
<1>. QED
  BY <1>1, TypeInit, TypeStep, MatchStep, PTL DEF Spec

-----------------------------------------------------------------------------
(* One domain.  A profile has the domain of its owner; a create that is past
   the lock has either found that domain there or holds the only claim on a
   user who has none. *)

Claimed(h) == "claimed" \in handler[h].opts

DomainInv ==
  /\ \A i \in Item : Known(i) => items[i].domain = domain[items[i].owner]
  /\ \A h \in Handler : handler[h].pc \in {"limit", "insert"} =>
       domain[handler[h].user] = IF Claimed(h) THEN NoDomain ELSE handler[h].domain
  /\ \A h \in Handler : Claimed(h) => handler[h].pc \in {"limit", "insert"}
  /\ \A g, h \in Handler :
       Claimed(g) /\ Claimed(h) /\ handler[g].user = handler[h].user => g = h

LEMMA DomainInit == Init => DomainInv
  BY DEF Init, DomainInv, Known, NoRow, Claimed, Idle

\* A step that lets no handler through the lock.
LEMMA DomainFrame ==
  ASSUME TypeInv, DomainInv, RowsKeep, domain' = domain,
         \A g \in Handler :
           \/ handler'[g] = handler[g]
           \/ handler'[g].pc \notin {"limit", "insert"} /\ "claimed" \notin handler'[g].opts
  PROVE  DomainInv'
<1>1. \A i \in Item : Known(i)' => items'[i].domain = domain'[items'[i].owner]
  BY DEF DomainInv, RowsKeep
<1>2. \A h \in Handler : handler'[h].pc \in {"limit", "insert"} =>
        domain'[handler'[h].user] = IF Claimed(h)' THEN NoDomain ELSE handler'[h].domain
  BY DEF DomainInv, Claimed
<1>3. \A h \in Handler : Claimed(h)' => handler'[h].pc \in {"limit", "insert"}
  BY DEF DomainInv, Claimed
<1>4. \A g, h \in Handler :
        Claimed(g)' /\ Claimed(h)' /\ handler'[g].user = handler'[h].user => g = h
  BY DEF DomainInv, Claimed
<1>. QED
  BY <1>1, <1>2, <1>3, <1>4 DEF DomainInv

LEMMA DomainClaim ==
  ASSUME TypeInv, DomainInv, NEW h \in Handler, ClaimDomain(h)
  PROVE  DomainInv'
<1>. DEFINE s == handler[h]
<1>1. /\ s \in HandlerState /\ s.user \in User /\ s.domain \in Domain
      /\ ~Claimed(h) /\ ReadOnly
  BY DEF ClaimDomain, At, TypeInv, TypeOK, ShapeInv, Shape, DomainInv
<1>2. \A g \in Handler \ {h} : handler'[g] = handler[g]
  BY DEF ClaimDomain, Begin, TypeInv, TypeOK
<1>3. \/ /\ domain[s.user] = NoDomain /\ ~UserLocked(h, s.user)
         /\ handler'[h].pc = "limit" /\ handler'[h].user = s.user /\ Claimed(h)'
      \/ /\ domain[s.user] = s.domain
         /\ handler'[h].pc = "limit" /\ handler'[h].user = s.user
         /\ handler'[h].domain = s.domain /\ ~Claimed(h)'
  <2>. DEFINE q == [s EXCEPT !.pc = "limit", !.opts = @ \cup {"claimed"}]
              w == [s EXCEPT !.pc = "limit"]
  <2>1. /\ q.pc = "limit" /\ q.user = s.user /\ "claimed" \in q.opts
        /\ w.pc = "limit" /\ w.user = s.user /\ w.domain = s.domain /\ w.opts = s.opts
    BY <1>1 DEF HandlerState
  <2>2. \/ Claimable(s.user) /\ ~UserLocked(h, s.user) /\ Begin(h, q)
        \/ domain[s.user] = s.domain /\ Begin(h, w)
    BY DEF ClaimDomain
  <2>. HIDE DEF q, w
  <2>3. CASE Claimable(s.user) /\ ~UserLocked(h, s.user) /\ Begin(h, q)
    BY <2>1, <2>3, BeginSets DEF Claimable, Claimed
  <2>4. CASE domain[s.user] = s.domain /\ Begin(h, w)
    BY <1>1, <2>1, <2>4, BeginSets DEF Claimed
  <2>. QED
    BY <2>2, <2>3, <2>4
<1>4. \A i \in Item : Known(i)' => items'[i].domain = domain'[items'[i].owner]
  BY <1>1 DEF ReadOnly, DomainInv, Known
<1>5. \A g \in Handler : handler'[g].pc \in {"limit", "insert"} =>
        domain'[handler'[g].user] = IF Claimed(g)' THEN NoDomain ELSE handler'[g].domain
  BY <1>1, <1>2, <1>3 DEF ReadOnly, DomainInv, Claimed
<1>6. \A g \in Handler : Claimed(g)' => handler'[g].pc \in {"limit", "insert"}
  BY <1>2, <1>3 DEF DomainInv, Claimed
<1>7. \A f, g \in Handler :
        Claimed(f)' /\ Claimed(g)' /\ handler'[f].user = handler'[g].user => f = g
  BY <1>2, <1>3 DEF DomainInv, Claimed, UserLocked, LocksUser
<1>. QED
  BY <1>4, <1>5, <1>6, <1>7 DEF DomainInv

LEMMA DomainLimit ==
  ASSUME TypeInv, DomainInv, NEW h \in Handler, AssertProfileLimit(h)
  PROVE  DomainInv'
<1>1. /\ ReadOnly /\ \A g \in Handler \ {h} : handler'[g] = handler[g]
      /\ At(h, "limit") /\ handler'[h] = [handler[h] EXCEPT !.pc = "insert"]
  BY DEF AssertProfileLimit, Begin, TypeInv, TypeOK
<1>2. \A g \in Handler :
        /\ handler'[g].user = handler[g].user /\ handler'[g].domain = handler[g].domain
        /\ handler'[g].opts = handler[g].opts
        /\ \/ handler'[g].pc = handler[g].pc
           \/ handler[g].pc = "limit" /\ handler'[g].pc = "insert"
  BY <1>1 DEF At, TypeInv, TypeOK, HandlerState
<1>. QED
  BY <1>1, <1>2 DEF ReadOnly, DomainInv, Known, Claimed

LEMMA DomainInsert ==
  ASSUME TypeInv, DomainInv, NEW h \in Handler, NEW i \in Item, CreateInsert(h, i)
  PROVE  DomainInv'
<1>. DEFINE u == handler[h].user
            d == handler[h].domain
<1>1. /\ u \in User /\ d \in Domain /\ d # NoDomain /\ ~Known(i)
      /\ domain[u] = IF Claimed(h) THEN NoDomain ELSE d
      /\ \A j \in Item \ {i} : items'[j] = items[j]
      /\ items'[i].owner = u /\ items'[i].domain = d
      /\ domain' = IF Claimed(h) THEN [domain EXCEPT ![u] = d] ELSE domain
      /\ \A g \in Handler \ {h} : handler'[g] = handler[g]
      /\ handler'[h] = Idle
  BY ProfileAssumption
  DEF CreateInsert, At, Finish, Begin, Known, Claimed, TypeInv, TypeOK, ShapeInv, Shape,
      DomainInv
<1>2. domain'[u] = d /\ \A w \in User \ {u} : domain'[w] = domain[w]
  BY <1>1 DEF TypeInv, TypeOK
\* A user with a claim has no profile, and no other create is past the lock.
<1>3. ASSUME NEW j \in Item \ {i}, Known(j) PROVE items'[j].domain = domain'[items'[j].owner]
  <2>1. /\ items[j].owner \in User /\ items[j].domain \in Domain
        /\ items[j].domain = domain[items[j].owner]
    BY <1>3 DEF Known, TypeInv, ShapeInv, RowShape, DomainInv
  <2>2. CASE items[j].owner = u
    <3>1. domain[u] # NoDomain
      BY <2>1, <2>2, ProfileAssumption
    <3>. QED
      BY <1>1, <1>2, <2>1, <2>2, <3>1
  <2>3. CASE items[j].owner # u
    BY <1>1, <1>2, <2>1, <2>3
  <2>. QED
    BY <2>2, <2>3
<1>4. ASSUME NEW g \in Handler \ {h}, handler[g].pc \in {"limit", "insert"}
      PROVE  domain'[handler[g].user] = IF Claimed(g) THEN NoDomain ELSE handler[g].domain
  <2>1. /\ handler[g].user \in User /\ handler[g].domain \in Domain
        /\ domain[handler[g].user] = IF Claimed(g) THEN NoDomain ELSE handler[g].domain
    BY <1>4 DEF DomainInv, TypeInv, ShapeInv, Shape
  <2>2. CASE handler[g].user = u
    <3>1. Claimed(h) => FALSE
      BY <1>1, <2>1, <2>2, ProfileAssumption DEF DomainInv
    <3>. QED
      BY <1>1, <2>1, <3>1
  <2>3. CASE handler[g].user # u
    BY <1>2, <2>1, <2>3
  <2>. QED
    BY <2>2, <2>3
<1>5. \A j \in Item : Known(j)' => items'[j].domain = domain'[items'[j].owner]
  BY <1>1, <1>2, <1>3 DEF Known
<1>6. \A g \in Handler :
        /\ handler'[g].pc \in {"limit", "insert"} =>
             domain'[handler'[g].user] = IF Claimed(g)' THEN NoDomain ELSE handler'[g].domain
        /\ Claimed(g)' => handler'[g].pc \in {"limit", "insert"}
  BY <1>1, <1>4 DEF Claimed, Idle, DomainInv
<1>7. \A f, g \in Handler :
        Claimed(f)' /\ Claimed(g)' /\ handler'[f].user = handler'[g].user => f = g
  BY <1>1 DEF Claimed, Idle, DomainInv
<1>. QED
  BY <1>5, <1>6, <1>7 DEF DomainInv

LEMMA DomainSet ==
  ASSUME TypeInv, DomainInv, NEW u \in User, NEW d \in Domain, SetDomain(u, d)
  PROVE  DomainInv'
<1>1. /\ items' = items /\ handler' = handler /\ domain[u] = NoDomain
      /\ domain' = [domain EXCEPT ![u] = d]
      /\ \A h \in Handler : ~(handler[h].user = u /\ Claimed(h))
  BY DEF SetDomain, Claimable, LocksUser, Claimed
<1>2. \A i \in Item : Known(i) => items[i].owner \in User /\ items[i].owner # u
  BY <1>1, ProfileAssumption DEF Known, TypeInv, ShapeInv, RowShape, DomainInv
<1>3. \A h \in Handler : handler[h].pc \in {"limit", "insert"} =>
        handler[h].user \in User /\ handler[h].user # u
  BY <1>1, ProfileAssumption DEF DomainInv, TypeInv, ShapeInv, Shape
<1>4. \A w \in User \ {u} : domain'[w] = domain[w]
  BY <1>1 DEF TypeInv, TypeOK
<1>5. \A i \in Item : Known(i)' => items'[i].domain = domain'[items'[i].owner]
  BY <1>1, <1>2, <1>4 DEF DomainInv, Known
<1>6. \A h \in Handler : handler'[h].pc \in {"limit", "insert"} =>
        domain'[handler'[h].user] = IF Claimed(h)' THEN NoDomain ELSE handler'[h].domain
  BY <1>1, <1>3, <1>4 DEF DomainInv, Claimed
<1>. QED
  BY <1>1, <1>5, <1>6 DEF DomainInv, Claimed

\* A request starts by reading, and short of the limit.
LEMMA CallStarts ==
  ASSUME TypeInv, NEW h \in Handler, Call(h)
  PROVE  /\ ReadOnly /\ \A g \in Handler \ {h} : handler'[g] = handler[g]
         /\ handler'[h].pc \notin {"limit", "insert"} /\ "claimed" \notin handler'[h].opts
<1>1. /\ ReadOnly /\ \A g \in Handler \ {h} : handler'[g] = handler[g]
  BY DEF Call, CreateBegin, AcceptCheck, GuardianCheck, ParticipantAge, DobRead,
              UpdateRead, LifecycleRead, Begin, TypeInv, TypeOK
<1>2. handler'[h].pc \notin {"limit", "insert"} /\ "claimed" \notin handler'[h].opts
  <2>1. ASSUME NEW u \in User, NEW d \in Domain, CreateBegin(h, u, d)
        PROVE  handler'[h].pc = "claim" /\ "claimed" \notin handler'[h].opts
    BY <2>1 DEF CreateBegin, Begin, Idle, TypeInv, TypeOK
  <2>2. ASSUME NEW i \in Item, AcceptCheck(h, i) \/ GuardianCheck(h, i)
        PROVE  handler'[h].pc = "accept" /\ "claimed" \notin handler'[h].opts
    <3>. DEFINE q == [Idle EXCEPT !.pc = "accept", !.user = items[i].owner, !.item = i]
                w == [Idle EXCEPT !.pc = "accept", !.user = items[i].owner, !.item = i,
                                  !.opts = {"guardian"}]
    <3>1. /\ q.pc = "accept" /\ "claimed" \notin q.opts
          /\ w.pc = "accept" /\ "claimed" \notin w.opts
      BY DEF Idle
    <3>2. handler'[h] = q \/ handler'[h] = w
      BY <2>2, BeginSets DEF AcceptCheck, GuardianCheck
    <3>. QED
      BY <3>1, <3>2
  <2>3. ASSUME NEW u \in User, ParticipantAge(h, u)
        PROVE  handler'[h].pc = "promote" /\ "claimed" \notin handler'[h].opts
    BY <2>3 DEF ParticipantAge, Begin, Idle, TypeInv, TypeOK
  <2>4. ASSUME NEW u \in User, NEW a \in Age, DobRead(h, u, a)
        PROVE  handler'[h].pc = "dob" /\ "claimed" \notin handler'[h].opts
    BY <2>4 DEF DobRead, Begin, Idle, TypeInv, TypeOK
  <2>5. ASSUME NEW i \in Item, UpdateRead(h, i)
        PROVE  handler'[h].pc \in {"gates", "write"} /\ "claimed" \notin handler'[h].opts
    <3>. DEFINE q == [Idle EXCEPT !.pc = "gates", !.opts = {}, !.item = i,
                                  !.user = items[i].owner, !.row = items[i]]
                w == [Idle EXCEPT !.pc = "write", !.opts = {"locations"}, !.item = i,
                                  !.user = items[i].owner, !.row = items[i]]
    <3>1. /\ q.pc = "gates" /\ "claimed" \notin q.opts
          /\ w.pc = "write" /\ "claimed" \notin w.opts
      BY DEF Idle
    <3>2. handler'[h] = q \/ handler'[h] = w
      BY <2>5, UpdateBegins, BeginSets
    <3>. QED
      BY <3>1, <3>2
  <2>6. ASSUME NEW m \in DOMAIN Moves, NEW i \in Item, LifecycleRead(h, i, m)
        PROVE  handler'[h].pc \in {"move", "retire"} /\ "claimed" \notin handler'[h].opts
    BY <2>6, MovesType DEF LifecycleRead, Begin, Idle, TypeInv, TypeOK
  <2>. QED
    BY <2>1, <2>2, <2>3, <2>4, <2>5, <2>6 DEF Call
<1>. QED
  BY <1>1, <1>2

LEMMA DomainStep ==
  ASSUME TypeInv, MatchInv, DomainInv, [Next]_vars
  PROVE  DomainInv'
<1>1. ASSUME NEW h \in Handler, Call(h) PROVE DomainInv'
  BY <1>1, CallStarts, DomainFrame, ReadOnlyKeeps DEF ReadOnly
<1>2. ASSUME NEW h \in Handler, Serve(h) PROVE DomainInv'
  <2>1. CASE PromoteRead(h) \/ \E complete \in BOOLEAN : UpdateGates(h, complete)
    <3>1. ReadOnly /\ \A g \in Handler \ {h} : handler'[g] = handler[g]
      BY <2>1 DEF PromoteRead, UpdateGates, Begin, TypeInv, TypeOK
    <3>2. ~Claimed(h) /\ handler[h] \in HandlerState
      BY <2>1 DEF PromoteRead, UpdateGates, At, DomainInv, TypeInv, TypeOK
    <3>3. /\ handler'[h].opts = handler[h].opts
          /\ handler'[h].pc \in {"promote", "write"}
      <4>1. CASE PromoteRead(h)
        BY <3>2, <4>1 DEF PromoteRead, Begin, TypeInv, TypeOK, HandlerState
      <4>2. ASSUME NEW complete \in BOOLEAN, UpdateGates(h, complete)
            PROVE  handler'[h].opts = handler[h].opts /\ handler'[h].pc = "write"
        <5>1. PICK row : handler' = [handler EXCEPT ![h] =
                           [handler[h] EXCEPT !.pc = "write", !.row = row]]
          BY <4>2, Zenon DEF UpdateGates, Begin
        <5>. QED
          BY <3>2, <5>1 DEF TypeInv, TypeOK, HandlerState
      <4>. QED
        BY <2>1, <4>1, <4>2
    <3>. QED
      BY <3>1, <3>2, <3>3, DomainFrame, ReadOnlyKeeps DEF ReadOnly, Claimed
  <2>2. CASE \/ PromoteCommit(h) \/ DobCommit(h) \/ UpdateWrite(h) \/ LifecycleCommit(h)
             \/ RetireCommit(h)
    <3>1. domain' = domain /\ Finish(h)
      BY <2>2 DEF PromoteCommit, DobCommit, UpdateWrite, LifecycleCommit, RetireCommit
    <3>2. \A g \in Handler :
            handler'[g] = handler[g] \/ (handler'[g].pc = "idle" /\ handler'[g].opts = {})
      BY <3>1, FinishSets
    <3>3. RowsKeep
      <4>1. ~\E i \in Item : CreateInsert(h, i)
        BY <2>2 DEF PromoteCommit, DobCommit, UpdateWrite, LifecycleCommit, RetireCommit,
                    CreateInsert, At
      <4>. QED
        BY <1>2, <4>1, ServeKeeps
    <3>. QED
      BY <3>1, <3>2, <3>3, DomainFrame
  <2>. QED
    BY <1>2, <2>1, <2>2, DomainClaim, DomainLimit, DomainInsert DEF Serve
<1>3. ASSUME NEW h \in Handler, Abandon(h) PROVE DomainInv'
  <2>1. \A g \in Handler :
          handler'[g] = handler[g] \/ (handler'[g].pc = "idle" /\ handler'[g].opts = {})
    BY <1>3, FinishSets DEF Abandon
  <2>. QED
    BY <1>3, <2>1, DomainFrame, ReadOnlyKeeps DEF Abandon, ReadOnly
<1>4. ASSUME NEW i \in Item, DeleteItem(i) PROVE DomainInv'
  <2>1. RowsKeep
    BY <1>4 DEF DeleteItem, Exists, RowsKeep, Known, TypeInv, TypeOK, Row
  <2>. QED
    BY <1>4, <2>1, DomainFrame DEF DeleteItem
<1>5. CASE UNCHANGED vars
  BY <1>5 DEF vars, DomainInv, Known, Claimed
<1>. QED
  BY <1>1, <1>2, <1>3, <1>4, <1>5, DomainSet DEF Next

LEMMA DomainInvariant == Spec => [](TypeInv /\ MatchInv /\ DomainInv)
  BY DomainInit, DomainStep, MatchInvariant, PTL DEF Spec

\* An account has profiles in one domain only, for life, however many creates
\* and choices of a domain race: the conditional claim is enough.
THEOREM OneDomainForLife == Spec => []OneDomain
<1>1. DomainInv => OneDomain
  BY DEF DomainInv, OneDomain, Known
<1>. QED
  BY <1>1, DomainInvariant, PTL

-----------------------------------------------------------------------------
(* No user has more profiles of a domain than the limit, as long as what is
   retired stays retired: a retired profile does not count, and counts again
   when a pause or an edit that was under way writes its old status back. *)

RetiredStays ==
  \A i \in Item : items[i].status = "retired" => items'[i].status \in {"retired", "deleted"}

\* Creates that have passed the limit have room for one more, and are alone.
LimitInv ==
  /\ \A u \in User, d \in Domain :
       IsFiniteSet(Counted(u, d)) /\ Cardinality(Counted(u, d)) <= Limit
  /\ \A h \in Handler : At(h, "insert") => HasRoom(h)
  /\ \A g, h \in Handler :
       /\ At(g, "insert") /\ At(h, "insert")
       /\ handler[g].user = handler[h].user /\ handler[g].domain = handler[h].domain
       => g = h

LEMMA LimitInit == Init => LimitInv
<1>. SUFFICES ASSUME Init PROVE LimitInv
  OBVIOUS
<1>1. ASSUME NEW u \in User, NEW d \in Domain PROVE Counted(u, d) = {}
  BY DEF Init, Counted, Owned, Exists, NoRow
<1>2. \A h \in Handler : ~At(h, "insert")
  BY DEF Init, At, Idle
<1>. QED
  BY <1>1, <1>2, FS_EmptySet, ProfileAssumption DEF LimitInv

\* A step by which no profile comes to count, and no create passes the limit.
LEMMA LimitFrame ==
  ASSUME TypeInv, LimitInv, RowsKeep, RetiredStays,
         \A g \in Handler : handler'[g] = handler[g] \/ handler'[g].pc # "insert"
  PROVE  LimitInv'
<1>1. ASSUME NEW u \in User, NEW d \in Domain
      PROVE  /\ IsFiniteSet(Counted(u, d)') /\ Cardinality(Counted(u, d)') <= Cardinality(Counted(u, d))
             /\ Cardinality(Counted(u, d)') \in Nat /\ Cardinality(Counted(u, d)) \in Nat
             /\ Cardinality(Counted(u, d)) <= Limit
  <2>1. Counted(u, d)' \subseteq Counted(u, d)
    BY DEF Counted, Owned, Exists, RowsKeep, Known, RetiredStays
  <2>2. IsFiniteSet(Counted(u, d)) /\ Cardinality(Counted(u, d)) <= Limit
    BY DEF LimitInv
  <2>. QED
    BY <2>1, <2>2, FS_Subset, FS_CardinalityType
<1>2. \A u \in User, d \in Domain :
        IsFiniteSet(Counted(u, d)') /\ Cardinality(Counted(u, d)') <= Limit
  BY <1>1, ProfileAssumption
<1>3. ASSUME NEW h \in Handler, At(h, "insert")' PROVE HasRoom(h)'
  <2>1. handler'[h] = handler[h] /\ At(h, "insert") /\ HasRoom(h)
    BY <1>3 DEF At, LimitInv
  <2>2. PICK u \in User, d \in Domain : u = handler[h].user /\ d = handler[h].domain
    BY <2>1 DEF At, TypeInv, ShapeInv, Shape
  <2>3. Cardinality(Counted(u, d)') < Limit
    BY <1>1, <2>1, <2>2, ProfileAssumption DEF HasRoom
  <2>. QED
    BY <2>1, <2>2, <2>3 DEF HasRoom, Counted, Owned, Exists
<1>4. \A g, h \in Handler :
        /\ At(g, "insert")' /\ At(h, "insert")'
        /\ handler'[g].user = handler'[h].user /\ handler'[g].domain = handler'[h].domain
        => g = h
  BY DEF At, LimitInv
<1>. QED
  BY <1>2, <1>3, <1>4 DEF LimitInv, Counted, Owned, Exists

LEMMA LimitAssert ==
  ASSUME TypeInv, LimitInv, NEW h \in Handler, AssertProfileLimit(h)
  PROVE  LimitInv'
<1>1. /\ items' = items /\ HasRoom(h) /\ ~LimitLocked(h)
      /\ \A g \in Handler \ {h} : handler'[g] = handler[g]
      /\ handler'[h].pc = "insert" /\ handler'[h].user = handler[h].user
      /\ handler'[h].domain = handler[h].domain
  BY BeginSets DEF AssertProfileLimit, ReadOnly, TypeInv, TypeOK, HandlerState
<1>2. \A u \in User, d \in Domain : Counted(u, d)' = Counted(u, d)
  BY <1>1 DEF Counted, Owned, Exists
<1>3. ASSUME NEW g \in Handler, At(g, "insert")' PROVE HasRoom(g)'
  <2>1. HasRoom(g)
    BY <1>1, <1>3 DEF At, LimitInv
  <2>. QED
    BY <1>1, <2>1 DEF HasRoom, Counted, Owned, Exists
<1>4. \A f, g \in Handler :
        /\ At(f, "insert")' /\ At(g, "insert")'
        /\ handler'[f].user = handler'[g].user /\ handler'[f].domain = handler'[g].domain
        => f = g
  BY <1>1 DEF At, LimitLocked, LimitInv
<1>. QED
  BY <1>2, <1>3, <1>4 DEF LimitInv

LEMMA LimitInsert ==
  ASSUME TypeInv, LimitInv, NEW h \in Handler, NEW i \in Item, CreateInsert(h, i)
  PROVE  LimitInv'
<1>0. PICK u \in User, d \in Domain : u = handler[h].user /\ d = handler[h].domain
  BY DEF CreateInsert, At, TypeInv, ShapeInv, Shape
<1>1. /\ At(h, "insert") /\ HasRoom(h)
      /\ items[i].status = "none" /\ \A j \in Item \ {i} : items'[j] = items[j]
      /\ items'[i].owner = u /\ items'[i].domain = d
      /\ \A g \in Handler \ {h} : handler'[g] = handler[g]
      /\ handler'[h].pc = "idle"
  BY <1>0, BeginSets DEF CreateInsert, At, Finish, Idle, LimitInv, TypeInv, TypeOK
<1>2. ASSUME NEW w \in User, NEW c \in Domain, w # u \/ c # d
      PROVE  Counted(w, c)' = Counted(w, c)
  BY <1>1, <1>2 DEF Counted, Owned, Exists
<1>3. IsFiniteSet(Counted(u, d)') /\ Cardinality(Counted(u, d)') <= Limit
  <2>1. /\ IsFiniteSet(Counted(u, d)) /\ Cardinality(Counted(u, d)) < Limit
        /\ Cardinality(Counted(u, d)) \in Nat
    BY <1>0, <1>1, FS_CardinalityType DEF LimitInv, HasRoom
  <2>2. /\ IsFiniteSet(Counted(u, d) \cup {i})
        /\ Cardinality(Counted(u, d) \cup {i}) <= Limit
        /\ Cardinality(Counted(u, d) \cup {i}) \in Nat
    <3>1. /\ IsFiniteSet(Counted(u, d) \cup {i})
          /\ Cardinality(Counted(u, d) \cup {i}) \in {Cardinality(Counted(u, d)), Cardinality(Counted(u, d)) + 1}
      BY <2>1, FS_AddElement
    <3>. QED
      BY <2>1, <3>1, ProfileAssumption
  <2>3. Counted(u, d)' \subseteq Counted(u, d) \cup {i}
    BY <1>1 DEF Counted, Owned, Exists
  <2>4. /\ IsFiniteSet(Counted(u, d)') /\ Cardinality(Counted(u, d)') \in Nat
        /\ Cardinality(Counted(u, d)') <= Cardinality(Counted(u, d) \cup {i})
    BY <2>2, <2>3, FS_Subset, FS_CardinalityType
  <2>. QED
    BY <2>2, <2>4, ProfileAssumption
<1>4. ASSUME NEW g \in Handler, At(g, "insert")' PROVE HasRoom(g)'
  <2>1. g # h /\ At(g, "insert") /\ HasRoom(g) /\ handler'[g] = handler[g]
    BY <1>1, <1>4 DEF At, LimitInv
  <2>2. PICK w \in User, c \in Domain : w = handler[g].user /\ c = handler[g].domain
    BY <2>1 DEF At, TypeInv, ShapeInv, Shape
  <2>3. w # u \/ c # d
    BY <1>0, <1>1, <2>1, <2>2 DEF LimitInv
  <2>4. Counted(w, c)' = Counted(w, c)
    BY <1>2, <2>3
  <2>. QED
    BY <2>1, <2>2, <2>4 DEF HasRoom, Counted, Owned, Exists
<1>5. \A f, g \in Handler :
        /\ At(f, "insert")' /\ At(g, "insert")'
        /\ handler'[f].user = handler'[g].user /\ handler'[f].domain = handler'[g].domain
        => f = g
  BY <1>1 DEF At, LimitInv
<1>6. \A w \in User, c \in Domain :
        IsFiniteSet(Counted(w, c)') /\ Cardinality(Counted(w, c)') <= Limit
  <2>1. ASSUME NEW w \in User, NEW c \in Domain, w # u \/ c # d
        PROVE  IsFiniteSet(Counted(w, c)') /\ Cardinality(Counted(w, c)') <= Limit
    BY <1>2, <2>1 DEF LimitInv
  <2>. QED
    BY <1>3, <2>1
<1>. QED
  BY <1>4, <1>5, <1>6 DEF LimitInv

LEMMA LimitStep ==
  ASSUME TypeInv, MatchInv, LimitInv, [Next]_vars, [RetiredStays]_vars
  PROVE  LimitInv'
<1>1. RetiredStays
  BY DEF RetiredStays, vars
<1>2. ASSUME NEW h \in Handler, Call(h) PROVE LimitInv'
  BY <1>1, <1>2, CallStarts, LimitFrame, ReadOnlyKeeps
<1>3. ASSUME NEW h \in Handler, Serve(h), ~AssertProfileLimit(h),
             ~\E i \in Item : CreateInsert(h, i)
      PROVE  LimitInv'
  <2>1. RowsKeep
    BY <1>3, ServeKeeps
  <2>2. \A g \in Handler : handler'[g] = handler[g] \/ handler'[g].pc # "insert"
    <3>. DEFINE s == handler[h]
    <3>0. s \in HandlerState
      BY DEF TypeInv, TypeOK
    <3>1. CASE ClaimDomain(h)
      <4>1. PICK opts : Begin(h, [s EXCEPT !.pc = "limit", !.opts = opts])
        BY <3>0, <3>1 DEF ClaimDomain, HandlerState
      <4>2. [s EXCEPT !.pc = "limit", !.opts = opts].pc = "limit"
        BY <3>0 DEF HandlerState
      <4>. QED
        BY <4>1, <4>2, BeginSets
    <3>2. CASE PromoteRead(h)
      <4>1. PICK S : Begin(h, [s EXCEPT !.pc = "promote", !.rows = {ConsentRow(h)}, !.seen = S])
        BY <3>2, Zenon DEF PromoteRead
      <4>2. [s EXCEPT !.pc = "promote", !.rows = {ConsentRow(h)}, !.seen = S].pc = "promote"
        BY <3>0 DEF HandlerState
      <4>. QED
        BY <4>1, <4>2, BeginSets
    <3>3. ASSUME NEW complete \in BOOLEAN, UpdateGates(h, complete)
          PROVE  \A g \in Handler : handler'[g] = handler[g] \/ handler'[g].pc # "insert"
      <4>1. PICK row : Begin(h, [s EXCEPT !.pc = "write", !.row = row])
        BY <3>3, Zenon DEF UpdateGates
      <4>2. [s EXCEPT !.pc = "write", !.row = row].pc = "write"
        BY <3>0 DEF HandlerState
      <4>. QED
        BY <4>1, <4>2, BeginSets
    <3>4. CASE \/ PromoteCommit(h) \/ DobCommit(h) \/ UpdateWrite(h) \/ LifecycleCommit(h)
               \/ RetireCommit(h)
      <4>1. Finish(h)
        BY <3>4 DEF PromoteCommit, DobCommit, UpdateWrite, LifecycleCommit, RetireCommit
      <4>. QED
        BY <4>1, FinishSets
    <3>. QED
      BY <1>3, <3>1, <3>2, <3>3, <3>4 DEF Serve
  <2>. QED
    BY <1>1, <2>1, <2>2, LimitFrame
<1>4. ASSUME NEW h \in Handler, Abandon(h) PROVE LimitInv'
  <2>1. \A g \in Handler : handler'[g] = handler[g] \/ handler'[g].pc # "insert"
    BY <1>4, FinishSets DEF Abandon
  <2>. QED
    BY <1>1, <1>4, <2>1, LimitFrame, ReadOnlyKeeps DEF Abandon
<1>5. ASSUME NEW i \in Item, DeleteItem(i) PROVE LimitInv'
  <2>1. RowsKeep
    BY <1>5 DEF DeleteItem, Exists, RowsKeep, Known, TypeInv, TypeOK, Row
  <2>. QED
    BY <1>1, <1>5, <2>1, LimitFrame DEF DeleteItem
<1>6. CASE UNCHANGED <<items, handler>>
  BY <1>1, <1>6, LimitFrame DEF RowsKeep, Known
<1>. QED
  BY <1>2, <1>3, <1>4, <1>5, <1>6, LimitAssert, LimitInsert DEF Next, SetDomain, vars

\* A user's profiles of a domain never exceed the limit, however many creates
\* race: the advisory lock is taken before the count and held to the commit.
\* The proviso is that nothing brings a retired profile back.
THEOREM ProfileLimitHolds == Spec /\ [][RetiredStays]_vars => []ProfileLimit
<1>1. LimitInv => ProfileLimit
  BY DEF LimitInv, ProfileLimit
<1>. QED
  BY <1>1, LimitInit, LimitStep, MatchInvariant, PTL DEF Spec

-----------------------------------------------------------------------------
(* Where nothing is retired, nothing retired comes back. *)

Unretired(r) == r.pc # "retire" /\ r.row.status # "retired"

NoneRetired ==
  /\ \A i \in Item : items[i].status # "retired"
  /\ \A h \in Handler : Unretired(handler[h])

LEMMA UnretiredBegin ==
  ASSUME TypeInv, NoneRetired, NEW h \in Handler, NEW r, Unretired(r), Begin(h, r),
         \A i \in Item : items'[i].status # "retired"
  PROVE  NoneRetired'
<1>1. ASSUME NEW g \in Handler PROVE Unretired(handler'[g])
  BY BeginSets DEF NoneRetired
<1>. QED
  BY <1>1 DEF NoneRetired, Unretired

LEMMA UnretiredCall ==
  ASSUME TypeInv, NoneRetired, "retire" \notin Endpoints, NEW h \in Handler, Call(h)
  PROVE  NoneRetired'
<1>0. \A i \in Item : items'[i].status # "retired"
  BY CallStarts DEF ReadOnly, NoneRetired
<1>1. CASE \/ \E u \in User, d \in Domain : CreateBegin(h, u, d)
           \/ \E i \in Item : AcceptCheck(h, i) \/ GuardianCheck(h, i)
           \/ \E u \in User : ParticipantAge(h, u)
           \/ \E u \in User, a \in Age : DobRead(h, u, a)
  <2>. DEFINE create(u, d, opts) == [Idle EXCEPT !.pc = "claim", !.user = u, !.domain = d, !.opts = opts]
              accept(i) == [Idle EXCEPT !.pc = "accept", !.user = items[i].owner, !.item = i]
              guardian(i) == [Idle EXCEPT !.pc = "accept", !.user = items[i].owner, !.item = i,
                                          !.opts = {"guardian"}]
              participant(u, S) == [Idle EXCEPT !.pc = "promote", !.user = u, !.age = "adult", !.seen = S]
              dob(u, a) == [Idle EXCEPT !.pc = "dob", !.user = u, !.age = a]
  <2>1. /\ \A u, d, opts : Unretired(create(u, d, opts))
        /\ \A i : Unretired(accept(i)) /\ Unretired(guardian(i))
        /\ \A u, S : Unretired(participant(u, S))
        /\ \A u, a : Unretired(dob(u, a))
    BY DEF Unretired, Idle, NoRow
  <2>2. \E r : Unretired(r) /\ Begin(h, r)
    <3>1. ASSUME NEW u \in User, NEW d \in Domain, CreateBegin(h, u, d)
          PROVE  \E opts : Begin(h, create(u, d, opts))
      BY <3>1, Zenon DEF CreateBegin
    <3>2. ASSUME NEW u \in User, ParticipantAge(h, u) PROVE \E S : Begin(h, participant(u, S))
      BY <3>2, Zenon DEF ParticipantAge
    <3>3. ASSUME NEW i \in Item, AcceptCheck(h, i) \/ GuardianCheck(h, i)
          PROVE  Begin(h, accept(i)) \/ Begin(h, guardian(i))
      BY <3>3, Zenon DEF AcceptCheck, GuardianCheck
    <3>4. ASSUME NEW u \in User, NEW a \in Age, DobRead(h, u, a) PROVE Begin(h, dob(u, a))
      BY <3>4, Zenon DEF DobRead
    <3>. HIDE DEF create, accept, guardian, participant, dob
    <3>. QED
      BY <1>1, <2>1, <3>1, <3>2, <3>3, <3>4
  <2>. QED
    BY <1>0, <2>2, UnretiredBegin
<1>2. ASSUME NEW i \in Item, UpdateRead(h, i) PROVE NoneRetired'
  <2>. DEFINE g == [Idle EXCEPT !.pc = "gates", !.opts = {}, !.item = i,
                                !.user = items[i].owner, !.row = items[i]]
              w == [Idle EXCEPT !.pc = "write", !.opts = {"locations"}, !.item = i,
                                !.user = items[i].owner, !.row = items[i]]
  <2>1. items[i].status # "retired"
    BY DEF NoneRetired
  <2>2. Unretired(g) /\ Unretired(w)
    BY <2>1 DEF Unretired, Idle
  <2>3. Begin(h, g) \/ Begin(h, w)
    BY <1>2, UpdateBegins
  <2>. HIDE DEF g, w
  <2>. QED
    BY <1>0, <2>2, <2>3, UnretiredBegin
<1>3. ASSUME NEW m \in Endpoints \cap DOMAIN Moves, NEW i \in Item, LifecycleRead(h, i, m)
      PROVE  NoneRetired'
  <2>. DEFINE row == [items[i] EXCEPT !.status = Target(i, m)]
              r == [Idle EXCEPT !.pc = Moves[m].pc, !.user = items[i].owner, !.item = i,
                                !.row = row]
  <2>1. m \in {"pause", "unpause"}
    BY DEF Moves
  <2>2. Moves[m].pc = "move" /\ Target(i, m) # "retired"
    BY <2>1 DEF Moves, Target
  <2>3. row.status = Target(i, m)
    BY DEF TypeInv, TypeOK, Row
  <2>4. Unretired(r)
    <3>. HIDE DEF row
    <3>. QED
      BY <2>2, <2>3 DEF Unretired, Idle
  <2>5. Begin(h, r)
    BY <1>3 DEF LifecycleRead
  <2>. HIDE DEF r
  <2>. QED
    BY <1>0, <2>4, <2>5, UnretiredBegin
<1>. QED
  BY <1>1, <1>2, <1>3 DEF Call

LEMMA UnretiredServe ==
  ASSUME TypeInv, NoneRetired, NEW h \in Handler, Serve(h)
  PROVE  NoneRetired'
<1>. DEFINE s == handler[h]
<1>0. /\ s \in HandlerState /\ s.row \in Row /\ Shape(s)
      /\ s.pc # "retire" /\ s.row.status # "retired" /\ Unretired(Idle)
      /\ \A i \in Item : items[i] \in Row /\ items[i].status # "retired"
  BY DEF TypeInv, TypeOK, ShapeInv, HandlerState, NoneRetired, Unretired, Idle, NoRow
<1>1. CASE ClaimDomain(h) \/ AssertProfileLimit(h)
  <2>0. PICK pc \in {"limit", "insert"} : \E opts : Begin(h, [s EXCEPT !.pc = pc, !.opts = opts])
    <3>1. CASE ClaimDomain(h)
      BY <1>0, <3>1 DEF ClaimDomain, HandlerState
    <3>2. CASE AssertProfileLimit(h)
      <4>1. [s EXCEPT !.pc = "insert"] = [s EXCEPT !.pc = "insert", !.opts = s.opts]
        BY <1>0 DEF HandlerState
      <4>. QED
        BY <3>2, <4>1 DEF AssertProfileLimit
    <3>. QED
      BY <1>1, <3>1, <3>2
  <2>1. PICK opts : Begin(h, [s EXCEPT !.pc = pc, !.opts = opts])
    BY <2>0
  <2>2. Unretired([s EXCEPT !.pc = pc, !.opts = opts])
    BY <1>0 DEF HandlerState, Unretired
  <2>. QED
    BY <1>0, <1>1, <2>1, <2>2, UnretiredBegin DEF ClaimDomain, AssertProfileLimit, ReadOnly
<1>2. CASE PromoteRead(h)
  <2>1. PICK S : Begin(h, [s EXCEPT !.pc = "promote", !.rows = {ConsentRow(h)}, !.seen = S])
    BY <1>2, Zenon DEF PromoteRead
  <2>2. Unretired([s EXCEPT !.pc = "promote", !.rows = {ConsentRow(h)}, !.seen = S])
    BY <1>0 DEF HandlerState, Unretired
  <2>. QED
    BY <1>0, <1>2, <2>1, <2>2, UnretiredBegin DEF PromoteRead, ReadOnly
<1>3. ASSUME NEW complete \in BOOLEAN, UpdateGates(h, complete) PROVE NoneRetired'
  <2>. DEFINE satisfied == /\ HasAcceptedProfileConsent(s.item, consents)
                           /\ ~GuardianGateBlocks(s.item, consents, age[s.row.owner])
              status == IF s.row.status = "paused" THEN "paused"
                        ELSE Classify(s.row.domain, complete, satisfied)
              row == [s.row EXCEPT !.status = status, !.complete = complete, !.personal = TRUE]
  <2>1. Begin(h, [s EXCEPT !.pc = "write", !.row = row])
    BY <1>3, Zenon DEF UpdateGates
  <2>2. status # "retired"
    BY DEF Classify
  <2>3. row.status # "retired"
    <3>. HIDE DEF status
    <3>. QED
      BY <1>0, <2>2 DEF Row
  <2>4. Unretired([s EXCEPT !.pc = "write", !.row = row])
    <3>. HIDE DEF row
    <3>. QED
      BY <1>0, <2>3 DEF HandlerState, Unretired
  <2>. HIDE DEF row
  <2>. QED
    BY <1>0, <1>3, <2>1, <2>4, UnretiredBegin DEF UpdateGates, ReadOnly
<1>4. CASE \/ PromoteCommit(h) \/ DobCommit(h) \/ UpdateWrite(h) \/ LifecycleCommit(h)
           \/ \E i \in Item : CreateInsert(h, i)
  <2>1. Begin(h, Idle)
    BY <1>4 DEF PromoteCommit, DobCommit, UpdateWrite, LifecycleCommit, CreateInsert, Finish
  <2>2. \A i \in Item : items'[i].status # "retired"
    <3>1. CASE PromoteCommit(h)
      BY <1>0, <3>1 DEF PromoteCommit, Row
    <3>2. CASE UpdateWrite(h)
      <4>1. \/ items' = items
            \/ items' = [items EXCEPT ![s.item].personal = TRUE]
            \/ items' = [items EXCEPT ![s.item] = s.row]
        BY <3>2, Zenon DEF UpdateWrite
      <4>2. CASE items' = [items EXCEPT ![s.item].personal = TRUE]
        BY <1>0, <4>2 DEF TypeInv, TypeOK, Row
      <4>3. CASE items' = [items EXCEPT ![s.item] = s.row]
        BY <1>0, <4>3 DEF TypeInv, TypeOK
      <4>. QED
        BY <1>0, <4>1, <4>2, <4>3
    <3>3. CASE LifecycleCommit(h)
      BY <1>0, <3>3 DEF LifecycleCommit, TypeInv, TypeOK, Row
    <3>4. ASSUME NEW i \in Item, CreateInsert(h, i)
          PROVE  \A j \in Item : items'[j].status # "retired"
      <4>. DEFINE status(c) == Classify(s.domain, c, "promotes" \in s.opts)
                  row(c) == [status |-> status(c), owner |-> s.user, domain |-> s.domain,
                             complete |-> c, personal |-> TRUE]
      <4>1. PICK c \in BOOLEAN : items' = [items EXCEPT ![i] = row(c)]
        BY <3>4, Zenon DEF CreateInsert
      <4>2. row(c).status # "retired"
        BY DEF Classify
      <4>. HIDE DEF row
      <4>. QED
        BY <1>0, <4>1, <4>2 DEF TypeInv, TypeOK
    <3>5. CASE DobCommit(h)
      BY <1>0, <3>5 DEF DobCommit
    <3>. QED
      BY <1>4, <3>1, <3>2, <3>3, <3>4, <3>5
  <2>. QED
    BY <1>0, <2>1, <2>2, UnretiredBegin
<1>5. ~RetireCommit(h)
  BY <1>0 DEF RetireCommit, At
<1>. QED
  BY <1>1, <1>2, <1>3, <1>4, <1>5 DEF Serve

LEMMA UnretiredStep ==
  ASSUME TypeInv, NoneRetired, "retire" \notin Endpoints, [Next]_vars
  PROVE  NoneRetired'
<1>1. ASSUME NEW h \in Handler, Abandon(h) PROVE NoneRetired'
  <2>1. Unretired(Idle)
    BY DEF Unretired, Idle, NoRow
  <2>. QED
    BY <1>1, <2>1, UnretiredBegin DEF Abandon, Finish, ReadOnly, NoneRetired
<1>2. ASSUME NEW i \in Item, DeleteItem(i) PROVE NoneRetired'
  BY <1>2 DEF DeleteItem, NoneRetired, Unretired, TypeInv, TypeOK, Row
<1>3. CASE items' = items /\ handler' = handler
  BY <1>3 DEF NoneRetired, Unretired
<1>. QED
  BY <1>1, <1>2, <1>3, UnretiredCall, UnretiredServe DEF Next, SetDomain, vars

\* Without retirement the limit holds with no proviso.
THEOREM ProfileLimitWithoutRetire == "retire" \notin Endpoints => (Spec => []ProfileLimit)
<1>. SUFFICES ASSUME "retire" \notin Endpoints PROVE Spec => []ProfileLimit
  OBVIOUS
<1>1. Init => NoneRetired
  BY DEF Init, NoneRetired, Unretired, Idle, NoRow
<1>2. TypeInv /\ NoneRetired /\ [Next]_vars => NoneRetired' /\ [RetiredStays]_vars
  BY UnretiredStep DEF NoneRetired, RetiredStays
<1>. QED
  BY <1>1, <1>2, TypeInvariant, ProfileLimitHolds, PTL DEF Spec

-----------------------------------------------------------------------------
(* The gates: a profile that is live has passed its gates, for any number of
   items, users, domains and handlers, as long as no recorded adult becomes a
   minor. *)

\* No age write turns an adult into a minor.
AdultsStay == \A u \in User : age[u] = "adult" => age'[u] = "adult"

\* What opened a gate is never taken back.
GatesGrow ==
  /\ consents \subseteq consents'
  /\ \A u \in User : age[u] = "adult" => age'[u] = "adult"
  /\ \A u \in User : age[u] = "minor" => age'[u] \in Age

KnownKeep ==
  \A i \in Item : Known(i) =>
    items'[i].owner = items[i].owner /\ items'[i].domain = items[i].domain

\* The age that the transaction of r sees for its user.
AgeSeen(r) == IF r.age = "unknown" THEN age[r.user] ELSE r.age

\* What r is about to write on the strength of its reads is still true of the
\* gates when it writes.
GateOk(r) ==
  /\ r.pc \in {"claim", "limit", "insert"} /\ "promotes" \in r.opts =>
       "accepted" \in r.opts /\ (r.domain \in GuardianDomain => age[r.user] = "adult")
  /\ r.pc = "accept" => r.age = "unknown"
  /\ r.pc = "promote" => \A i \in r.seen :
       /\ HasAcceptedProfileConsent(i, consents \cup r.rows)
       /\ ~GuardianGateBlocks(i, consents \cup r.rows, AgeSeen(r))
  /\ r.pc = "gates" /\ r.row.status = "paused" => GatesOpen(r.item)
  /\ r.pc = "write" /\ "locations" \notin r.opts /\ r.row.status \in {"live", "paused"} =>
       GatesOpen(r.item)
  /\ r.pc = "move" => GatesOpen(r.item)

GateInv ==
  /\ \A i \in Item : items[i].status \in {"live", "paused"} => GatesOpen(i)
  /\ \A h \in Handler : GateOk(handler[h])

LEMMA GateIdle == GateOk(Idle)
  BY DEF GateOk, Idle

LEMMA GateInit == Init => GateInv
  BY GateIdle DEF Init, GateInv, NoRow

LEMMA GrowStep ==
  ASSUME TypeInv, [Next]_vars, AdultsStay
  PROVE  GatesGrow
<1>1. CASE UNCHANGED <<consents, age>>
  BY <1>1, AdultsStay DEF GatesGrow, Age
<1>2. ASSUME NEW h \in Handler, NEW i \in Item, CreateInsert(h, i) PROVE GatesGrow
  BY <1>2 DEF CreateInsert, GatesGrow, Age
<1>3. ASSUME NEW h \in Handler, PromoteCommit(h) PROVE GatesGrow
  <2>1. handler[h].age \in Age \cup {"unknown"}
    BY <1>3 DEF TypeInv, TypeOK, HandlerState
  <2>2. \A u \in User : age[u] = "minor" => age'[u] \in Age
    BY <1>3, <2>1 DEF PromoteCommit, TypeInv, TypeOK, Age
  <2>. QED
    BY <1>3, <2>2 DEF PromoteCommit, AdultsStay, GatesGrow
<1>4. ASSUME NEW h \in Handler, DobCommit(h) PROVE GatesGrow
  <2>1. handler[h].age \in Age
    BY <1>4 DEF DobCommit, At, TypeInv, ShapeInv, Shape
  <2>2. \A u \in User : age[u] = "minor" => age'[u] \in Age
    BY <1>4, <2>1 DEF DobCommit, TypeInv, TypeOK, Age
  <2>. QED
    BY <1>4, <2>2 DEF DobCommit, AdultsStay, GatesGrow
<1>5. ASSUME NEW h \in Handler, Call(h) PROVE UNCHANGED <<consents, age>>
  BY <1>5 DEF Call, CreateBegin, AcceptCheck, GuardianCheck, ParticipantAge, DobRead, UpdateRead,
              LifecycleRead, ReadOnly
<1>6. ASSUME NEW h \in Handler, Serve(h) PROVE GatesGrow
  <2>1. CASE \/ ClaimDomain(h) \/ AssertProfileLimit(h) \/ PromoteRead(h)
             \/ (\E complete \in BOOLEAN : UpdateGates(h, complete))
             \/ UpdateWrite(h) \/ LifecycleCommit(h) \/ RetireCommit(h)
    BY <1>1, <2>1 DEF ClaimDomain, AssertProfileLimit, PromoteRead, UpdateGates, UpdateWrite,
                      LifecycleCommit, RetireCommit, ReadOnly
  <2>. QED
    BY <1>2, <1>3, <1>4, <1>6, <2>1 DEF Serve
<1>. QED
  BY <1>1, <1>5, <1>6 DEF Next, Abandon, SetDomain, DeleteItem, ReadOnly, vars

LEMMA OpenStays ==
  ASSUME TypeInv, GatesGrow, KnownKeep, NEW i \in Item, Known(i), GatesOpen(i)
  PROVE  GatesOpen(i)'
<1>1. /\ items'[i].owner = items[i].owner /\ items'[i].domain = items[i].domain
      /\ items[i].owner \in User
  BY DEF KnownKeep, Known, TypeInv, ShapeInv, RowShape
<1>2. HasAcceptedProfileConsent(i, consents) => HasAcceptedProfileConsent(i, consents)'
  BY DEF GatesGrow, HasAcceptedProfileConsent
<1>3. GuardianGateBlocks(i, consents, age[items[i].owner])'
        => GuardianGateBlocks(i, consents, age[items[i].owner])
  BY <1>1 DEF GatesGrow, GuardianGateBlocks, TypeInv, TypeOK, Age
<1>. QED
  BY <1>1, <1>2, <1>3 DEF GatesOpen

\* What a handler relies on stays true while others move.
LEMMA GateOkStays ==
  ASSUME TypeInv, GatesGrow, KnownKeep,
         NEW r \in HandlerState, Shape(r), Match(r), GateOk(r)
  PROVE  GateOk(r)'
<1>1. r.pc \in {"claim", "limit", "insert"} /\ "promotes" \in r.opts =>
        "accepted" \in r.opts /\ (r.domain \in GuardianDomain => age'[r.user] = "adult")
  BY DEF GateOk, Shape, GatesGrow
<1>2. ASSUME r.pc = "promote", NEW i \in r.seen
      PROVE  /\ HasAcceptedProfileConsent(i, consents \cup r.rows)'
             /\ ~GuardianGateBlocks(i, consents \cup r.rows, AgeSeen(r))'
  <2>1. /\ i \in Item /\ r.user \in User /\ items'[i].domain = items[i].domain
        /\ HasAcceptedProfileConsent(i, consents \cup r.rows)
        /\ ~GuardianGateBlocks(i, consents \cup r.rows, AgeSeen(r))
        /\ consents \cup r.rows \subseteq consents' \cup r.rows
    BY <1>2 DEF HandlerState, Shape, Match, KnownKeep, GateOk, GatesGrow
  <2>2. /\ AgeSeen(r) = "adult" => AgeSeen(r)' = "adult"
        /\ AgeSeen(r) = "minor" => AgeSeen(r)' \in Age
        /\ AgeSeen(r) \in Age \cup {"unknown"}
    BY <2>1 DEF AgeSeen, GatesGrow, TypeInv, TypeOK, HandlerState, Age
  <2>3. HasAcceptedProfileConsent(i, consents \cup r.rows)'
    BY <2>1 DEF HasAcceptedProfileConsent
  <2>. QED
    BY <2>1, <2>2, <2>3 DEF GuardianGateBlocks, Age
<1>3. /\ r.pc = "gates" /\ r.row.status = "paused" => GatesOpen(r.item)'
      /\ r.pc = "write" /\ "locations" \notin r.opts /\ r.row.status \in {"live", "paused"} =>
           GatesOpen(r.item)'
      /\ r.pc = "move" => GatesOpen(r.item)'
  <2>1. CASE r.pc \in {"gates", "write", "move"} /\ GatesOpen(r.item)
    <3>1. r.item \in Item /\ Known(r.item)
      BY <2>1 DEF Shape, Match
    <3>. QED
      BY <2>1, <3>1, OpenStays
  <2>. QED
    BY <2>1 DEF GateOk
<1>. QED
  BY <1>1, <1>2, <1>3 DEF GateOk

LEMMA GateReadOnly ==
  ASSUME TypeInv, GateInv, NEW h \in Handler, NEW r, GateOk(r), Begin(h, r), ReadOnly
  PROVE  GateInv'
<1>1. ASSUME NEW g \in Handler PROVE GateOk(handler[g])'
  <2>1. PICK s : s = handler'[g] /\ GateOk(s)
    BY BeginSets DEF GateInv
  <2>2. GateOk(s)'
    BY <2>1 DEF ReadOnly, GateOk, GatesOpen, GuardianGateBlocks, HasAcceptedProfileConsent, AgeSeen
  <2>. QED
    BY <2>1, <2>2 DEF GateOk, AgeSeen
<1>. QED
  BY <1>1 DEF GateInv, ReadOnly, GatesOpen, GuardianGateBlocks, HasAcceptedProfileConsent

\* A step that ends a request, and leaves the live and paused profiles open.
LEMMA GateFinish ==
  ASSUME TypeInv, MatchInv, GateInv, KnownKeep, GatesGrow, NEW h \in Handler, Finish(h),
         \A i \in Item : items'[i].status \in {"live", "paused"} => GatesOpen(i)'
  PROVE  GateInv'
<1>1. ASSUME NEW g \in Handler PROVE GateOk(handler[g])'
  <2>1. CASE g = h
    <3>1. handler'[g] = Idle
      BY <2>1, BeginSets DEF Finish
    <3>. QED
      BY <3>1 DEF GateOk, Idle
  <2>2. CASE g # h
    <3>1. PICK s \in HandlerState : s = handler[g] /\ Shape(s) /\ Match(s) /\ GateOk(s)
      BY DEF TypeInv, TypeOK, ShapeInv, MatchInv, GateInv
    <3>2. GateOk(s)'
      BY <3>1, GateOkStays
    <3>3. handler'[g] = s
      BY <2>2, <3>1, BeginSets DEF Finish
    <3>. QED
      BY <3>2, <3>3 DEF GateOk, AgeSeen
  <2>. QED
    BY <2>1, <2>2
<1>. QED
  BY <1>1 DEF GateInv

LEMMA GateCall ==
  ASSUME TypeInv, MatchInv, GateInv, NEW h \in Handler, Call(h)
  PROVE  GateInv'
<1>1. ASSUME NEW u \in User, NEW d \in Domain, CreateBegin(h, u, d) PROVE GateInv'
  <2>1. PICK opts \in {{}, IF SelfConsentPromotes(u, d) THEN {"accepted", "promotes"} ELSE {"accepted"}} :
          Begin(h, [Idle EXCEPT !.pc = "claim", !.user = u, !.domain = d, !.opts = opts])
    BY <1>1, Zenon DEF CreateBegin
  <2>2. "promotes" \in opts => "accepted" \in opts /\ (d \in GuardianDomain => age[u] = "adult")
    BY <2>1 DEF SelfConsentPromotes
  <2>3. GateOk([Idle EXCEPT !.pc = "claim", !.user = u, !.domain = d, !.opts = opts])
    BY <2>2 DEF GateOk, Idle
  <2>. QED
    BY <1>1, <2>1, <2>3, GateReadOnly DEF CreateBegin
<1>2. ASSUME NEW i \in Item, AcceptCheck(h, i) \/ GuardianCheck(h, i) PROVE GateInv'
  <2>. DEFINE r == [Idle EXCEPT !.pc = "accept", !.user = items[i].owner, !.item = i]
              g == [Idle EXCEPT !.pc = "accept", !.user = items[i].owner, !.item = i,
                                !.opts = {"guardian"}]
  <2>1. GateOk(r) /\ GateOk(g)
    BY DEF GateOk, Idle
  <2>2. (Begin(h, r) \/ Begin(h, g)) /\ ReadOnly
    BY <1>2 DEF AcceptCheck, GuardianCheck
  <2>. HIDE DEF r, g
  <2>. QED
    BY <2>1, <2>2, GateReadOnly
<1>3. ASSUME NEW u \in User, ParticipantAge(h, u) PROVE GateInv'
  <2>. DEFINE S == {i \in Owned(u) : /\ HasAcceptedProfileConsent(i, consents)
                                     /\ Promotable(i, consents, "adult")}
              r == [Idle EXCEPT !.pc = "promote", !.user = u, !.age = "adult", !.seen = S]
  <2>1. \A i \in S : /\ HasAcceptedProfileConsent(i, consents \cup {})
                     /\ ~GuardianGateBlocks(i, consents \cup {}, "adult")
    BY DEF GuardianGateBlocks, HasAcceptedProfileConsent
  <2>2. r.pc = "promote" /\ r.rows = {} /\ r.seen = S /\ r.age = "adult"
    BY DEF Idle
  <2>3. GateOk(r)
    <3>. HIDE DEF S, r
    <3>. QED
      BY <2>1, <2>2 DEF GateOk, AgeSeen
  <2>4. Begin(h, r) /\ ReadOnly
    BY <1>3 DEF ParticipantAge
  <2>. HIDE DEF r
  <2>. QED
    BY <2>3, <2>4, GateReadOnly
<1>4. ASSUME NEW u \in User, NEW a \in Age, DobRead(h, u, a) PROVE GateInv'
  <2>1. GateOk([Idle EXCEPT !.pc = "dob", !.user = u, !.age = a])
    BY DEF GateOk, Idle
  <2>. QED
    BY <1>4, <2>1, GateReadOnly DEF DobRead
<1>5. ASSUME NEW i \in Item, UpdateRead(h, i) PROVE GateInv'
  <2>. DEFINE g == [Idle EXCEPT !.pc = "gates", !.opts = {}, !.item = i,
                                !.user = items[i].owner, !.row = items[i]]
              w == [Idle EXCEPT !.pc = "write", !.opts = {"locations"}, !.item = i,
                                !.user = items[i].owner, !.row = items[i]]
  <2>1. items[i].status = "paused" => GatesOpen(i)
    BY DEF GateInv
  <2>2. GateOk(g) /\ GateOk(w)
    BY <2>1 DEF GateOk, Idle
  <2>3. Begin(h, g) \/ Begin(h, w)
    BY <1>5, UpdateBegins
  <2>. HIDE DEF g, w
  <2>. QED
    BY <1>5, <2>2, <2>3, GateReadOnly DEF UpdateRead
<1>6. ASSUME NEW m \in DOMAIN Moves, NEW i \in Item, LifecycleRead(h, i, m) PROVE GateInv'
  <2>. DEFINE row == [items[i] EXCEPT !.status = Target(i, m)]
              r == [Idle EXCEPT !.pc = Moves[m].pc, !.user = items[i].owner, !.item = i,
                                !.row = row]
  <2>1. Moves[m].pc \in {"move", "retire"} /\ (Moves[m].pc = "move" => GatesOpen(i))
    BY <1>6 DEF LifecycleRead, Moves, GateInv
  <2>2. r.pc = Moves[m].pc /\ r.item = i
    BY DEF Idle
  <2>3. GateOk(r)
    <3>. HIDE DEF r
    <3>. QED
      BY <2>1, <2>2 DEF GateOk
  <2>4. Begin(h, r) /\ ReadOnly
    BY <1>6 DEF LifecycleRead
  <2>. HIDE DEF r
  <2>. QED
    BY <2>3, <2>4, GateReadOnly
<1>. QED
  BY <1>1, <1>2, <1>3, <1>4, <1>5, <1>6 DEF Call

\* The handler's reads: what it finds open it may write.
LEMMA GateReads ==
  ASSUME TypeInv, MatchInv, GateInv, NEW h \in Handler, ReadOnly,
         \/ ClaimDomain(h) \/ AssertProfileLimit(h) \/ PromoteRead(h)
         \/ \E complete \in BOOLEAN : UpdateGates(h, complete)
  PROVE  GateInv'
<1>. DEFINE s == handler[h]
<1>0. s \in HandlerState /\ Shape(s) /\ Match(s) /\ GateOk(s)
  BY DEF TypeInv, TypeOK, ShapeInv, MatchInv, GateInv
<1>1. CASE ClaimDomain(h)
  <2>1. PICK opts \in {s.opts, s.opts \cup {"claimed"}} :
          Begin(h, [s EXCEPT !.pc = "limit", !.opts = opts])
    BY <1>0, <1>1 DEF ClaimDomain, HandlerState
  <2>2. GateOk([s EXCEPT !.pc = "limit", !.opts = opts])
    BY <1>0, <1>1, <2>1 DEF ClaimDomain, At, HandlerState, GateOk
  <2>. QED
    BY <2>1, <2>2, GateReadOnly
<1>2. CASE AssertProfileLimit(h)
  <2>1. GateOk([s EXCEPT !.pc = "insert"])
    BY <1>0, <1>2 DEF AssertProfileLimit, At, HandlerState, GateOk
  <2>. QED
    BY <1>2, <2>1, GateReadOnly DEF AssertProfileLimit
<1>3. CASE PromoteRead(h)
  <2>. DEFINE rows == consents \cup {ConsentRow(h)}
              S == IF Promotable(s.item, rows, age[s.user]) THEN {s.item} ELSE {}
              r == [s EXCEPT !.pc = "promote", !.rows = {ConsentRow(h)}, !.seen = S]
  <2>1. \A i \in S : HasAcceptedProfileConsent(i, rows) /\ ~GuardianGateBlocks(i, rows, age[s.user])
    <3>1. \A i \in S : i = s.item /\ ConsentRow(h).item = i
      BY DEF ConsentRow
    <3>2. \A i \in S : ~GuardianGateBlocks(i, rows, age[s.user])
      BY DEF GuardianGateBlocks, Promotable, Classify, ConsentRequired
    <3>. QED
      BY <3>1, <3>2 DEF HasAcceptedProfileConsent
  <2>2. /\ r.pc = "promote" /\ r.rows = {ConsentRow(h)} /\ r.seen = S
        /\ r.age = "unknown" /\ r.user = s.user
    BY <1>0, <1>3 DEF PromoteRead, At, GateOk, HandlerState
  <2>3. GateOk(r)
    <3>. HIDE DEF S, r
    <3>. QED
      BY <2>1, <2>2 DEF GateOk, AgeSeen
  <2>4. Begin(h, r)
    BY <1>3 DEF PromoteRead
  <2>. HIDE DEF r
  <2>. QED
    BY <2>3, <2>4, GateReadOnly
<1>4. ASSUME NEW complete \in BOOLEAN, UpdateGates(h, complete) PROVE GateInv'
  <2>. DEFINE satisfied == /\ HasAcceptedProfileConsent(s.item, consents)
                           /\ ~GuardianGateBlocks(s.item, consents, age[s.row.owner])
              status == IF s.row.status = "paused" THEN "paused"
                        ELSE Classify(s.row.domain, complete, satisfied)
              row == [s.row EXCEPT !.status = status, !.complete = complete, !.personal = TRUE]
              r == [s EXCEPT !.pc = "write", !.row = row]
  <2>1. Begin(h, r)
    BY <1>4, Zenon DEF UpdateGates
  <2>2. /\ s.pc = "gates" /\ s.item \in Item
        /\ s.row.owner = items[s.item].owner /\ s.row.domain = items[s.item].domain
    BY <1>0, <1>4 DEF UpdateGates, At, Shape, Match
  <2>3. status \in {"live", "paused"} => GatesOpen(s.item)
    BY <1>0, <2>2 DEF GateOk, Classify, GatesOpen, ConsentRequired, GuardianGateBlocks
  <2>4. row.status = status
    <3>. HIDE DEF status
    <3>. QED
      BY <1>0 DEF HandlerState, Row
  <2>5. r.pc = "write" /\ r.item = s.item /\ r.row = row
    <3>. HIDE DEF row
    <3>. QED
      BY <1>0 DEF HandlerState
  <2>6. GateOk(r)
    <3>. HIDE DEF r, row, status
    <3>. QED
      BY <2>3, <2>4, <2>5 DEF GateOk
  <2>. HIDE DEF r
  <2>. QED
    BY <2>1, <2>6, GateReadOnly
<1>. QED
  BY <1>1, <1>2, <1>3, <1>4

\* A live or paused profile that keeps its status keeps its gates open.
LEMMA SameStatus ==
  ASSUME TypeInv, GateInv, KnownKeep, GatesGrow, NEW i \in Item,
         items'[i].status \in {"live", "paused"}, items'[i].status = items[i].status
  PROVE  GatesOpen(i)'
<1>1. Known(i) /\ GatesOpen(i)
  BY DEF GateInv, Known
<1>. QED
  BY <1>1, OpenStays

LEMMA GateInsert ==
  ASSUME TypeInv, MatchInv, GateInv, GatesGrow, NEW h \in Handler, NEW i \in Item, CreateInsert(h, i)
  PROVE  GateInv'
<1>. DEFINE u == handler[h].user
            d == handler[h].domain
            opts == handler[h].opts
<1>1. PICK complete \in BOOLEAN :
        items' = [items EXCEPT ![i] =
          [status |-> Classify(d, complete, "promotes" \in opts),
           owner |-> u, domain |-> d, complete |-> complete, personal |-> TRUE]]
  BY Zenon DEF CreateInsert
<1>2. /\ ~Known(i) /\ \A j \in Item \ {i} : items'[j] = items[j]
      /\ items'[i].status = Classify(d, complete, "promotes" \in opts)
      /\ items'[i].owner = u /\ items'[i].domain = d
  BY <1>1 DEF CreateInsert, Known, TypeInv, TypeOK
<1>3. KnownKeep
  BY <1>2 DEF KnownKeep
<1>4. "promotes" \in opts => "accepted" \in opts /\ (d \in GuardianDomain => age[u] = "adult")
  BY DEF GateInv, GateOk, CreateInsert, At
<1>5. /\ "accepted" \in opts => [item |-> i, by |-> "profile"] \in consents'
      /\ age' = age /\ Finish(h)
  BY DEF CreateInsert
<1>6. items'[i].status \in {"live", "paused"} => GatesOpen(i)'
  <2>1. CASE items'[i].status = "live" /\ ConsentRequired(d)
    <3>1. "promotes" \in opts
      BY <1>2, <2>1 DEF Classify
    <3>2. HasAcceptedProfileConsent(i, consents')
      BY <1>4, <1>5, <3>1 DEF HasAcceptedProfileConsent
    <3>3. d \in GuardianDomain => age'[u] = "adult"
      BY <1>4, <1>5, <3>1
    <3>. QED
      BY <1>2, <3>2, <3>3 DEF GatesOpen, GuardianGateBlocks, HasAcceptedProfileConsent
  <2>2. CASE ~ConsentRequired(d)
    BY <1>2, <2>2 DEF GatesOpen, GuardianGateBlocks, ConsentRequired
  <2>. QED
    BY <1>2, <2>1, <2>2 DEF Classify
<1>7. \A j \in Item : items'[j].status \in {"live", "paused"} => GatesOpen(j)'
  BY <1>2, <1>3, <1>6, SameStatus
<1>. QED
  BY <1>3, <1>5, <1>7, GateFinish

LEMMA GatePromote ==
  ASSUME TypeInv, MatchInv, GateInv, GatesGrow, KnownKeep, NEW h \in Handler, PromoteCommit(h)
  PROVE  GateInv'
<1>. DEFINE s == handler[h]
<1>0. s \in HandlerState /\ Shape(s) /\ Match(s) /\ GateOk(s) /\ s.pc = "promote"
  BY DEF TypeInv, TypeOK, ShapeInv, MatchInv, GateInv, PromoteCommit, At
<1>1. ASSUME NEW i \in Item, items'[i].status \in {"live", "paused"} PROVE GatesOpen(i)'
  <2>1. CASE i \in s.seen
    <3>1. /\ HasAcceptedProfileConsent(i, consents \cup s.rows)
          /\ ~GuardianGateBlocks(i, consents \cup s.rows, AgeSeen(s))
          /\ Known(i) /\ items[i].owner = s.user /\ s.user \in User
      BY <1>0, <2>1 DEF GateOk, Match, Shape
    <3>2. items'[i].owner = s.user /\ items'[i].domain = items[i].domain
      BY <3>1 DEF KnownKeep
    <3>3. age'[s.user] = AgeSeen(s) /\ consents' = consents \cup s.rows
      BY <3>1 DEF PromoteCommit, AgeSeen, TypeInv, TypeOK
    <3>. QED
      BY <3>1, <3>2, <3>3 DEF GatesOpen, GuardianGateBlocks, HasAcceptedProfileConsent
  <2>2. CASE i \notin s.seen
    <3>1. items'[i] = items[i]
      BY <2>2 DEF PromoteCommit
    <3>. QED
      BY <1>1, <3>1, SameStatus
  <2>. QED
    BY <2>1, <2>2
<1>. QED
  BY <1>1, GateFinish DEF PromoteCommit

\* One profile changes; it is open if what is written shows or pauses it.
LEMMA GateWrite ==
  ASSUME TypeInv, MatchInv, GateInv, GatesGrow, KnownKeep, NEW h \in Handler, Finish(h),
         NEW i \in Item, \A j \in Item \ {i} : items'[j] = items[j],
         \/ items'[i].status = items[i].status
         \/ items'[i].status \notin {"live", "paused"}
         \/ Known(i) /\ GatesOpen(i)
  PROVE  GateInv'
<1>1. ASSUME NEW j \in Item, items'[j].status \in {"live", "paused"} PROVE GatesOpen(j)'
  BY <1>1, SameStatus, OpenStays
<1>. QED
  BY <1>1, GateFinish

LEMMA GateUpdate ==
  ASSUME TypeInv, MatchInv, GateInv, GatesGrow, KnownKeep, NEW h \in Handler,
         UpdateWrite(h) \/ LifecycleCommit(h) \/ RetireCommit(h)
  PROVE  GateInv'
<1>. DEFINE s == handler[h]
            i == s.item
<1>0. /\ i \in Item /\ Known(i) /\ GateOk(s) /\ Finish(h) /\ items[i] \in Row
      /\ s \in HandlerState
  BY DEF TypeInv, TypeOK, ShapeInv, Shape, MatchInv, Match, GateInv, UpdateWrite,
         LifecycleCommit, RetireCommit, At
<1>1. CASE items' = items
  BY <1>0, <1>1, GateWrite
<1>2. CASE UpdateWrite(h)
  <2>1. \/ items' = items
        \/ items' = [items EXCEPT ![i].personal = TRUE]
        \/ "locations" \notin s.opts /\ items' = [items EXCEPT ![i] = s.row]
    BY <1>2, Zenon DEF UpdateWrite
  <2>2. CASE items' = [items EXCEPT ![i].personal = TRUE]
    <3>1. items'[i].status = items[i].status /\ \A j \in Item \ {i} : items'[j] = items[j]
      BY <1>0, <2>2 DEF TypeInv, TypeOK, Row
    <3>. QED
      BY <1>0, <3>1, GateWrite
  <2>3. CASE "locations" \notin s.opts /\ items' = [items EXCEPT ![i] = s.row]
    <3>1. items'[i] = s.row /\ \A j \in Item \ {i} : items'[j] = items[j]
      BY <1>0, <2>3 DEF TypeInv, TypeOK
    <3>2. s.row.status \in {"live", "paused"} => GatesOpen(i)
      BY <1>0, <1>2, <2>3 DEF GateOk, UpdateWrite, At
    <3>. QED
      BY <1>0, <3>1, <3>2, GateWrite
  <2>. QED
    BY <1>1, <2>1, <2>2, <2>3
<1>3. CASE LifecycleCommit(h)
  <2>1. GatesOpen(i) /\ \A j \in Item \ {i} : items'[j] = items[j]
    BY <1>0, <1>3 DEF GateOk, LifecycleCommit, At, TypeInv, TypeOK
  <2>. QED
    BY <1>0, <2>1, GateWrite
<1>4. CASE RetireCommit(h)
  <2>1. CASE Exists(i)
    <3>1. PICK complete :
            items' = [items EXCEPT ![i] =
              [@ EXCEPT !.status = "retired", !.complete = complete, !.personal = FALSE]]
      BY <1>4, <2>1, Zenon DEF RetireCommit
    <3>2. items'[i].status = "retired" /\ \A j \in Item \ {i} : items'[j] = items[j]
      BY <1>0, <3>1 DEF TypeInv, TypeOK, Row
    <3>. QED
      BY <1>0, <3>2, GateWrite
  <2>2. CASE ~Exists(i)
    BY <1>1, <1>4, <2>2 DEF RetireCommit
  <2>. QED
    BY <2>1, <2>2
<1>. QED
  BY <1>2, <1>3, <1>4

LEMMA GateStep ==
  ASSUME TypeInv, MatchInv, GateInv, [Next]_vars, [AdultsStay]_vars
  PROVE  GateInv'
<1>1. AdultsStay
  BY DEF AdultsStay, vars
<1>2. GatesGrow
  BY <1>1, GrowStep
<1>3. RowsKeep => KnownKeep
  BY DEF RowsKeep, KnownKeep
<1>4. ASSUME NEW h \in Handler, Serve(h), ~\E i \in Item : CreateInsert(h, i) PROVE GateInv'
  <2>1. KnownKeep
    BY <1>3, <1>4, ServeKeeps
  <2>2. CASE DobCommit(h)
    <3>1. items' = items /\ Finish(h)
      BY <2>2 DEF DobCommit
    <3>. QED
      BY <1>2, <2>1, <3>1, SameStatus, GateFinish
  <2>3. CASE \/ ClaimDomain(h) \/ AssertProfileLimit(h) \/ PromoteRead(h)
             \/ \E complete \in BOOLEAN : UpdateGates(h, complete)
    BY <2>3, GateReads DEF ClaimDomain, AssertProfileLimit, PromoteRead, UpdateGates
  <2>. QED
    BY <1>2, <1>4, <2>1, <2>2, <2>3, GatePromote, GateUpdate DEF Serve
<1>5. ASSUME NEW h \in Handler, Abandon(h) PROVE GateInv'
  BY <1>5, GateIdle, GateReadOnly DEF Abandon, Finish
<1>6. ASSUME handler' = handler, KnownKeep,
             \A i \in Item : items'[i].status \in {"live", "paused"} =>
               items'[i].status = items[i].status
      PROVE  GateInv'
  <2>1. \A i \in Item : items'[i].status \in {"live", "paused"} => GatesOpen(i)'
    BY <1>2, <1>6, SameStatus
  <2>2. ASSUME NEW h \in Handler PROVE GateOk(handler[h])'
    <3>1. PICK s \in HandlerState : s = handler[h] /\ Shape(s) /\ Match(s) /\ GateOk(s)
      BY DEF TypeInv, TypeOK, ShapeInv, MatchInv, GateInv
    <3>2. GateOk(s)'
      BY <1>2, <1>6, <3>1, GateOkStays
    <3>. QED
      BY <1>6, <3>1, <3>2 DEF GateOk, AgeSeen
  <2>. QED
    BY <2>1, <2>2 DEF GateInv
<1>7. ASSUME NEW i \in Item, DeleteItem(i) PROVE GateInv'
  <2>1. /\ items'[i].status = "deleted" /\ items'[i].owner = items[i].owner
        /\ items'[i].domain = items[i].domain /\ \A j \in Item \ {i} : items'[j] = items[j]
        /\ handler' = handler
    BY <1>7 DEF DeleteItem, TypeInv, TypeOK, Row
  <2>. QED
    BY <1>6, <2>1 DEF KnownKeep
<1>8. CASE \/ UNCHANGED vars
           \/ \E u \in User, d \in Domain : SetDomain(u, d)
  BY <1>6, <1>8 DEF vars, SetDomain, KnownKeep
<1>. QED
  BY <1>2, <1>4, <1>5, <1>7, <1>8, GateCall, GateInsert DEF Next

\* A profile that others can see has the consent its domain asks for and, in a
\* domain with guardians, an owner of known age and a minor's guardian's consent
\* to that profile, although every status is written on the strength of earlier
\* reads and pausing and resuming look at no gate: provided that no age write
\* turns an adult into a minor, which a race of the two age routes can do.
THEOREM LiveIsBehindGates == Spec /\ [][AdultsStay]_vars => []LiveBehindGates
<1>1. GateInv => LiveBehindGates
  BY DEF GateInv, LiveBehindGates
<1>. QED
  BY <1>1, GateInit, GateStep, MatchInvariant, PTL DEF Spec

-----------------------------------------------------------------------------
(* Without the route that lets clients tell an age, the only ages written are
   those of adults, and the proviso holds. *)

Grown(r) == r.pc # "dob" /\ r.age \in {"unknown", "adult"}
AllGrown == \A h \in Handler : Grown(handler[h])

LEMMA GrownBegin ==
  ASSUME TypeInv, AllGrown, NEW h \in Handler, NEW r, Grown(r), Begin(h, r)
  PROVE  AllGrown'
<1>1. ASSUME NEW g \in Handler PROVE Grown(handler'[g])
  BY BeginSets DEF AllGrown
<1>. QED
  BY <1>1 DEF AllGrown, Grown

LEMMA GrownCall ==
  ASSUME TypeInv, AllGrown, "dob" \notin Endpoints, NEW h \in Handler, Call(h)
  PROVE  AllGrown'
<1>1. ASSUME NEW u \in User, NEW d \in Domain, CreateBegin(h, u, d) PROVE AllGrown'
  <2>1. PICK opts :
          Begin(h, [Idle EXCEPT !.pc = "claim", !.user = u, !.domain = d, !.opts = opts])
    BY <1>1, Zenon DEF CreateBegin
  <2>2. Grown([Idle EXCEPT !.pc = "claim", !.user = u, !.domain = d, !.opts = opts])
    BY DEF Grown, Idle
  <2>. QED
    BY <2>1, <2>2, GrownBegin
<1>2. ASSUME NEW i \in Item, AcceptCheck(h, i) \/ GuardianCheck(h, i) PROVE AllGrown'
  <2>. DEFINE r == [Idle EXCEPT !.pc = "accept", !.user = items[i].owner, !.item = i]
              g == [Idle EXCEPT !.pc = "accept", !.user = items[i].owner, !.item = i,
                                !.opts = {"guardian"}]
  <2>1. Grown(r) /\ Grown(g)
    BY DEF Grown, Idle
  <2>2. Begin(h, r) \/ Begin(h, g)
    BY <1>2 DEF AcceptCheck, GuardianCheck
  <2>. HIDE DEF r, g
  <2>. QED
    BY <2>1, <2>2, GrownBegin
<1>3. ASSUME NEW u \in User, ParticipantAge(h, u) PROVE AllGrown'
  <2>1. PICK S :
          Begin(h, [Idle EXCEPT !.pc = "promote", !.user = u, !.age = "adult", !.seen = S])
    BY <1>3, Zenon DEF ParticipantAge
  <2>2. Grown([Idle EXCEPT !.pc = "promote", !.user = u, !.age = "adult", !.seen = S])
    BY DEF Grown, Idle
  <2>. QED
    BY <2>1, <2>2, GrownBegin
<1>4. ASSUME NEW i \in Item, UpdateRead(h, i) PROVE AllGrown'
  <2>. DEFINE g == [Idle EXCEPT !.pc = "gates", !.opts = {}, !.item = i,
                                !.user = items[i].owner, !.row = items[i]]
              w == [Idle EXCEPT !.pc = "write", !.opts = {"locations"}, !.item = i,
                                !.user = items[i].owner, !.row = items[i]]
  <2>1. Grown(g) /\ Grown(w)
    BY DEF Grown, Idle
  <2>2. Begin(h, g) \/ Begin(h, w)
    BY <1>4, UpdateBegins
  <2>. HIDE DEF g, w
  <2>. QED
    BY <2>1, <2>2, GrownBegin
<1>5. ASSUME NEW m \in DOMAIN Moves, NEW i \in Item, LifecycleRead(h, i, m) PROVE AllGrown'
  <2>. DEFINE row == [items[i] EXCEPT !.status = Target(i, m)]
              r == [Idle EXCEPT !.pc = Moves[m].pc, !.user = items[i].owner, !.item = i,
                                !.row = row]
  <2>1. Grown(r)
    <3>. HIDE DEF row
    <3>. QED
      BY MovesType DEF Grown, Idle
  <2>2. Begin(h, r)
    BY <1>5 DEF LifecycleRead
  <2>. HIDE DEF r
  <2>. QED
    BY <2>1, <2>2, GrownBegin
<1>. QED
  BY <1>1, <1>2, <1>3, <1>4, <1>5 DEF Call

LEMMA GrownServe ==
  ASSUME TypeInv, AllGrown, NEW h \in Handler, Serve(h)
  PROVE  AllGrown' /\ AdultsStay
<1>. DEFINE s == handler[h]
<1>0. s \in HandlerState /\ Shape(s) /\ Grown(s)
  BY DEF TypeInv, TypeOK, ShapeInv, AllGrown
<1>1. CASE ClaimDomain(h) \/ AssertProfileLimit(h)
  <2>0. PICK pc \in {"limit", "insert"} : \E opts : Begin(h, [s EXCEPT !.pc = pc, !.opts = opts])
    <3>1. CASE ClaimDomain(h)
      BY <1>0, <3>1 DEF ClaimDomain, HandlerState
    <3>2. CASE AssertProfileLimit(h)
      <4>1. [s EXCEPT !.pc = "insert"] = [s EXCEPT !.pc = "insert", !.opts = s.opts]
        BY <1>0 DEF HandlerState
      <4>. QED
        BY <3>2, <4>1 DEF AssertProfileLimit
    <3>. QED
      BY <1>1, <3>1, <3>2
  <2>1. PICK opts : Begin(h, [s EXCEPT !.pc = pc, !.opts = opts])
    BY <2>0
  <2>2. Grown([s EXCEPT !.pc = pc, !.opts = opts])
    BY <1>0 DEF HandlerState, Grown
  <2>. QED
    BY <1>1, <2>1, <2>2, GrownBegin DEF ClaimDomain, AssertProfileLimit, ReadOnly, AdultsStay
<1>2. CASE PromoteRead(h)
  <2>1. PICK S : Begin(h, [s EXCEPT !.pc = "promote", !.rows = {ConsentRow(h)}, !.seen = S])
    BY <1>2, Zenon DEF PromoteRead
  <2>2. Grown([s EXCEPT !.pc = "promote", !.rows = {ConsentRow(h)}, !.seen = S])
    BY <1>0 DEF HandlerState, Grown
  <2>. QED
    BY <1>2, <2>1, <2>2, GrownBegin DEF PromoteRead, ReadOnly, AdultsStay
<1>3. ASSUME NEW complete \in BOOLEAN, UpdateGates(h, complete) PROVE AllGrown' /\ AdultsStay
  <2>1. PICK row : Begin(h, [s EXCEPT !.pc = "write", !.row = row])
    BY <1>3, Zenon DEF UpdateGates
  <2>2. Grown([s EXCEPT !.pc = "write", !.row = row])
    BY <1>0 DEF HandlerState, Grown
  <2>. QED
    BY <1>3, <2>1, <2>2, GrownBegin DEF UpdateGates, ReadOnly, AdultsStay
<1>4. CASE \/ PromoteCommit(h) \/ DobCommit(h) \/ UpdateWrite(h) \/ LifecycleCommit(h)
           \/ RetireCommit(h) \/ \E i \in Item : CreateInsert(h, i)
  <2>1. Begin(h, Idle)
    BY <1>4 DEF PromoteCommit, DobCommit, UpdateWrite, LifecycleCommit, RetireCommit,
                CreateInsert, Finish
  <2>2. Grown(Idle)
    BY DEF Grown, Idle
  <2>3. AdultsStay
    <3>1. CASE PromoteCommit(h)
      BY <1>0, <3>1 DEF PromoteCommit, Grown, AdultsStay, TypeInv, TypeOK
    <3>2. ~DobCommit(h)
      BY <1>0 DEF DobCommit, At, Grown
    <3>3. CASE age' = age
      BY <3>3 DEF AdultsStay
    <3>. QED
      BY <1>4, <3>1, <3>2, <3>3 DEF UpdateWrite, LifecycleCommit, RetireCommit, CreateInsert
  <2>. QED
    BY <2>1, <2>2, <2>3, GrownBegin
<1>. QED
  BY <1>1, <1>2, <1>3, <1>4 DEF Serve

LEMMA GrownStep ==
  ASSUME TypeInv, AllGrown, "dob" \notin Endpoints, [Next]_vars
  PROVE  AllGrown' /\ AdultsStay
<1>1. ASSUME NEW h \in Handler, Call(h) PROVE AdultsStay
  BY <1>1 DEF Call, CreateBegin, AcceptCheck, GuardianCheck, ParticipantAge, DobRead, UpdateRead,
              LifecycleRead, ReadOnly, AdultsStay
<1>2. ASSUME NEW h \in Handler, Abandon(h) PROVE AllGrown' /\ AdultsStay
  <2>1. Grown(Idle)
    BY DEF Grown, Idle
  <2>. QED
    BY <1>2, <2>1, GrownBegin DEF Abandon, Finish, ReadOnly, AdultsStay
<1>3. CASE handler' = handler /\ age' = age
  BY <1>3 DEF AllGrown, Grown, AdultsStay
<1>. QED
  BY <1>1, <1>2, <1>3, GrownCall, GrownServe DEF Next, SetDomain, DeleteItem, vars

\* Where no age is told by the user, the gates hold without any proviso.
THEOREM LiveIsBehindGatesWithoutDob == "dob" \notin Endpoints => (Spec => []LiveBehindGates)
<1>. SUFFICES ASSUME "dob" \notin Endpoints PROVE Spec => []LiveBehindGates
  OBVIOUS
<1>1. Init => AllGrown
  BY DEF Init, AllGrown, Grown, Idle
<1>2. TypeInv /\ AllGrown /\ [Next]_vars => AllGrown' /\ [AdultsStay]_vars
  BY GrownStep
<1>. QED
  BY <1>1, <1>2, TypeInvariant, LiveIsBehindGates, PTL DEF Spec

-----------------------------------------------------------------------------
(* What the steps of a handler leave in its memory, stated once for the
   invariants below. *)

\* The memory r of a request that the state admits.
Starts(r) ==
  \/ \E u \in User, d \in Domain :
       /\ r.pc = "claim" /\ r.user = u /\ r.domain = d
       /\ r.opts \in {{}, IF SelfConsentPromotes(u, d) THEN {"accepted", "promotes"} ELSE {"accepted"}}
  \/ \E i \in Item :
       /\ Exists(i)
       /\ r.pc = "accept" /\ r.item = i /\ r.user = items[i].owner /\ r.age = "unknown"
       /\ \/ r.opts = {}
          \/ r.opts = {"guardian"} /\ age[items[i].owner] = "minor"
  \/ \E u \in User :
       /\ r.pc = "promote" /\ r.user = u /\ r.age = "adult" /\ r.rows = {}
       /\ r.seen = {i \in Owned(u) : /\ HasAcceptedProfileConsent(i, consents)
                                     /\ Promotable(i, consents, "adult")}
  \/ \E u \in User, a \in Age :
       a \in Told[u] /\ r.pc = "dob" /\ r.user = u /\ r.age = a /\ age[u] = "unknown"
  \/ \E i \in Item :
       /\ Editable(i)
       /\ r.item = i /\ r.user = items[i].owner /\ r.row = items[i]
       /\ (r.pc = "gates" \/ (r.pc = "write" /\ r.opts = {"locations"}))
  \/ \E m \in DOMAIN Moves, i \in Item :
       /\ items[i].status \in Moves[m].from
       /\ r.pc = Moves[m].pc /\ r.item = i /\ r.user = items[i].owner
       /\ r.row = [items[i] EXCEPT !.status = Target(i, m)]

LEMMA CallBegins ==
  ASSUME TypeInv, NEW h \in Handler, Call(h)
  PROVE  \E r : Begin(h, r) /\ ReadOnly /\ Starts(r)
<1>1. ASSUME NEW u \in User, NEW d \in Domain, CreateBegin(h, u, d)
      PROVE  \E r : Begin(h, r) /\ ReadOnly /\ Starts(r)
  <2>. DEFINE r(opts) == [Idle EXCEPT !.pc = "claim", !.user = u, !.domain = d, !.opts = opts]
  <2>1. PICK opts \in {{}, IF SelfConsentPromotes(u, d) THEN {"accepted", "promotes"} ELSE {"accepted"}} :
          Begin(h, r(opts))
    BY <1>1, Zenon DEF CreateBegin
  <2>2. r(opts).pc = "claim" /\ r(opts).user = u /\ r(opts).domain = d /\ r(opts).opts = opts
    BY DEF Idle
  <2>. HIDE DEF r
  <2>. QED
    BY <1>1, <2>1, <2>2 DEF CreateBegin, Starts
<1>2. ASSUME NEW i \in Item, AcceptCheck(h, i) \/ GuardianCheck(h, i)
      PROVE  \E r : Begin(h, r) /\ ReadOnly /\ Starts(r)
  <2>. DEFINE r == [Idle EXCEPT !.pc = "accept", !.user = items[i].owner, !.item = i]
              g == [Idle EXCEPT !.pc = "accept", !.user = items[i].owner, !.item = i,
                                !.opts = {"guardian"}]
  <2>1. /\ r.pc = "accept" /\ r.item = i /\ r.user = items[i].owner /\ r.age = "unknown" /\ r.opts = {}
        /\ g.pc = "accept" /\ g.item = i /\ g.user = items[i].owner /\ g.age = "unknown"
        /\ g.opts = {"guardian"}
    BY DEF Idle
  <2>2. \/ Begin(h, r) /\ ReadOnly /\ Exists(i)
        \/ Begin(h, g) /\ ReadOnly /\ Exists(i) /\ age[items[i].owner] = "minor"
    BY <1>2 DEF AcceptCheck, GuardianCheck
  <2>. HIDE DEF r, g
  <2>3. Exists(i) => Starts(r)
    BY <2>1 DEF Starts
  <2>4. Exists(i) /\ age[items[i].owner] = "minor" => Starts(g)
    BY <2>1 DEF Starts
  <2>. QED
    BY <2>2, <2>3, <2>4
<1>3. ASSUME NEW u \in User, ParticipantAge(h, u)
      PROVE  \E r : Begin(h, r) /\ ReadOnly /\ Starts(r)
  <2>. DEFINE S == {i \in Owned(u) : /\ HasAcceptedProfileConsent(i, consents)
                                     /\ Promotable(i, consents, "adult")}
              r == [Idle EXCEPT !.pc = "promote", !.user = u, !.age = "adult", !.seen = S]
  <2>1. Begin(h, r) /\ ReadOnly
    BY <1>3 DEF ParticipantAge
  <2>2. r.pc = "promote" /\ r.user = u /\ r.age = "adult" /\ r.rows = {} /\ r.seen = S
    <3>. HIDE DEF S
    <3>. QED
      BY DEF Idle
  <2>. HIDE DEF r
  <2>3. Starts(r)
    BY <2>2, Zenon DEF Starts
  <2>. QED
    BY <2>1, <2>3
<1>4. ASSUME NEW u \in User, NEW a \in Age, DobRead(h, u, a)
      PROVE  \E r : Begin(h, r) /\ ReadOnly /\ Starts(r)
  <2>. DEFINE r == [Idle EXCEPT !.pc = "dob", !.user = u, !.age = a]
  <2>1. Begin(h, r) /\ ReadOnly /\ a \in Told[u] /\ age[u] = "unknown"
    BY <1>4 DEF DobRead
  <2>2. r.pc = "dob" /\ r.user = u /\ r.age = a
    BY DEF Idle
  <2>. HIDE DEF r
  <2>3. Starts(r)
    BY <2>1, <2>2 DEF Starts
  <2>. QED
    BY <2>1, <2>3
<1>5. ASSUME NEW i \in Item, UpdateRead(h, i)
      PROVE  \E r : Begin(h, r) /\ ReadOnly /\ Starts(r)
  <2>. DEFINE g == [Idle EXCEPT !.pc = "gates", !.opts = {}, !.item = i,
                                !.user = items[i].owner, !.row = items[i]]
              w == [Idle EXCEPT !.pc = "write", !.opts = {"locations"}, !.item = i,
                                !.user = items[i].owner, !.row = items[i]]
  <2>1. /\ g.pc = "gates" /\ g.item = i /\ g.user = items[i].owner /\ g.row = items[i]
        /\ w.pc = "write" /\ w.opts = {"locations"} /\ w.item = i /\ w.user = items[i].owner
        /\ w.row = items[i]
    BY DEF Idle
  <2>2. (Begin(h, g) \/ Begin(h, w)) /\ ReadOnly /\ Editable(i)
    BY <1>5, UpdateBegins DEF UpdateRead
  <2>. HIDE DEF g, w
  <2>3. Starts(g) /\ Starts(w)
    BY <2>1, <2>2 DEF Starts
  <2>. QED
    BY <2>2, <2>3
<1>6. ASSUME NEW m \in DOMAIN Moves, NEW i \in Item, LifecycleRead(h, i, m)
      PROVE  \E r : Begin(h, r) /\ ReadOnly /\ Starts(r)
  <2>. DEFINE row == [items[i] EXCEPT !.status = Target(i, m)]
              r == [Idle EXCEPT !.pc = Moves[m].pc, !.user = items[i].owner, !.item = i,
                                !.row = row]
  <2>1. r.pc = Moves[m].pc /\ r.user = items[i].owner /\ r.item = i /\ r.row = row
    <3>. HIDE DEF row
    <3>. QED
      BY DEF Idle
  <2>2. Begin(h, r) /\ ReadOnly /\ items[i].status \in Moves[m].from
    BY <1>6 DEF LifecycleRead
  <2>. HIDE DEF r
  <2>3. Starts(r)
    BY <2>1, <2>2, Zenon DEF Starts
  <2>. QED
    BY <2>2, <2>3
<1>. QED
  BY <1>1, <1>2, <1>3, <1>4, <1>5, <1>6 DEF Call

\* What the memory of handler h, which is s, becomes in a step that reads.
Proceeds(h, s, r) ==
  \/ /\ s.pc = "claim" /\ r.pc = "limit" /\ r.user = s.user /\ r.domain = s.domain
     /\ r.opts \in {s.opts, s.opts \cup {"claimed"}}
  \/ /\ s.pc = "limit" /\ r.pc = "insert" /\ r.user = s.user /\ r.domain = s.domain
     /\ r.opts = s.opts
  \/ /\ s.pc = "accept" /\ r.pc = "promote" /\ r.user = s.user /\ r.age = s.age
     /\ r.rows = {ConsentRow(h)}
     /\ r.seen = IF Promotable(s.item, consents \cup {ConsentRow(h)}, age[s.user])
                 THEN {s.item} ELSE {}
  \/ \E complete \in BOOLEAN :
       /\ s.pc = "gates" /\ r.pc = "write" /\ r.item = s.item /\ r.user = s.user
       /\ LatchHolds(s.row, complete)
       /\ r.row.complete = complete /\ r.row.owner = s.row.owner /\ r.row.domain = s.row.domain
       /\ r.row.status =
            IF s.row.status = "paused" THEN "paused"
            ELSE Classify(s.row.domain, complete,
                          /\ HasAcceptedProfileConsent(s.item, consents)
                          /\ ~GuardianGateBlocks(s.item, consents, age[s.row.owner]))

LEMMA ReadBegins ==
  ASSUME TypeInv, NEW h \in Handler,
         \/ ClaimDomain(h) \/ AssertProfileLimit(h) \/ PromoteRead(h)
         \/ \E complete \in BOOLEAN : UpdateGates(h, complete)
  PROVE  \E r : Begin(h, r) /\ ReadOnly /\ Proceeds(h, handler[h], r)
<1>. DEFINE s == handler[h]
<1>0. s \in HandlerState /\ s.row \in Row
  BY DEF TypeInv, TypeOK, HandlerState
<1>1. CASE ClaimDomain(h)
  <2>. DEFINE r(opts) == [s EXCEPT !.pc = "limit", !.opts = opts]
  <2>1. PICK opts \in {s.opts, s.opts \cup {"claimed"}} : Begin(h, r(opts))
    BY <1>0, <1>1 DEF ClaimDomain, HandlerState
  <2>2. /\ r(opts).pc = "limit" /\ r(opts).user = s.user /\ r(opts).domain = s.domain
        /\ r(opts).opts = opts
    BY <1>0 DEF HandlerState
  <2>. HIDE DEF r
  <2>. QED
    BY <1>1, <2>1, <2>2 DEF ClaimDomain, At, Proceeds
<1>2. CASE AssertProfileLimit(h)
  <2>. DEFINE r == [s EXCEPT !.pc = "insert"]
  <2>1. r.pc = "insert" /\ r.user = s.user /\ r.domain = s.domain /\ r.opts = s.opts
    BY <1>0 DEF HandlerState
  <2>2. Begin(h, r) /\ ReadOnly /\ s.pc = "limit"
    BY <1>2 DEF AssertProfileLimit, At
  <2>. HIDE DEF r
  <2>. QED
    BY <2>1, <2>2 DEF Proceeds
<1>3. CASE PromoteRead(h)
  <2>. DEFINE S == IF Promotable(s.item, consents \cup {ConsentRow(h)}, age[s.user])
                   THEN {s.item} ELSE {}
              r == [s EXCEPT !.pc = "promote", !.rows = {ConsentRow(h)}, !.seen = S]
  <2>1. /\ r.pc = "promote" /\ r.user = s.user /\ r.age = s.age /\ r.rows = {ConsentRow(h)}
        /\ r.seen = S
    <3>. HIDE DEF S
    <3>. QED
      BY <1>0 DEF HandlerState
  <2>2. Begin(h, r) /\ ReadOnly /\ s.pc = "accept"
    BY <1>3 DEF PromoteRead, At
  <2>. HIDE DEF r
  <2>. QED
    BY <2>1, <2>2, Zenon DEF Proceeds
<1>4. ASSUME NEW complete \in BOOLEAN, UpdateGates(h, complete)
      PROVE  \E r : Begin(h, r) /\ ReadOnly /\ Proceeds(h, s, r)
  <2>. DEFINE satisfied == /\ HasAcceptedProfileConsent(s.item, consents)
                           /\ ~GuardianGateBlocks(s.item, consents, age[s.row.owner])
              status == IF s.row.status = "paused" THEN "paused"
                        ELSE Classify(s.row.domain, complete, satisfied)
              row == [s.row EXCEPT !.status = status, !.complete = complete, !.personal = TRUE]
              r == [s EXCEPT !.pc = "write", !.row = row]
  <2>1. Begin(h, r) /\ ReadOnly /\ s.pc = "gates" /\ LatchHolds(s.row, complete)
    BY <1>4, Zenon DEF UpdateGates, At
  <2>2. /\ row.status = status /\ row.complete = complete
        /\ row.owner = s.row.owner /\ row.domain = s.row.domain
    <3>. HIDE DEF status
    <3>. QED
      BY <1>0 DEF Row
  <2>3. r.pc = "write" /\ r.item = s.item /\ r.user = s.user /\ r.row = row
    <3>. HIDE DEF row
    <3>. QED
      BY <1>0 DEF HandlerState
  <2>. HIDE DEF r, row
  <2>. QED
    BY <2>1, <2>2, <2>3, Zenon DEF Proceeds
<1>. QED
  BY <1>1, <1>2, <1>3, <1>4

\* What the writing steps but the insert do to the profiles: only the one that
\* handler h serves may change, except in a promotion.
LEMMA WriteChanges ==
  ASSUME TypeInv, NEW h \in Handler, UpdateWrite(h) \/ LifecycleCommit(h)
  PROVE  LET s == handler[h]
             i == s.item
         IN /\ i \in Item /\ Finish(h) /\ UNCHANGED <<consents, age, domain, erased>>
            /\ \A j \in Item \ {i} : items'[j] = items[j]
            /\ \/ items'[i] = items[i]
               \/ /\ Exists(i) /\ s.pc = "write" /\ "locations" \notin s.opts
                  /\ items'[i] = s.row
               \/ /\ Exists(i) /\ items'[i] = [items[i] EXCEPT !.personal = TRUE] /\ s.pc = "write"
               \/ /\ Exists(i) /\ items'[i] = [items[i] EXCEPT !.status = s.row.status]
                  /\ s.pc = "move"
<1>. DEFINE s == handler[h]
            i == s.item
<1>0. i \in Item /\ Finish(h) /\ UNCHANGED <<consents, age, domain, erased>>
  BY DEF UpdateWrite, LifecycleCommit, At, TypeInv, ShapeInv, Shape
<1>1. CASE UpdateWrite(h)
  <2>1. \/ items' = items
        \/ Exists(i) /\ items' = [items EXCEPT ![i].personal = TRUE]
        \/ Exists(i) /\ "locations" \notin s.opts /\ items' = [items EXCEPT ![i] = s.row]
    BY <1>1, Zenon DEF UpdateWrite
  <2>2. s.pc = "write"
    BY <1>1 DEF UpdateWrite, At
  <2>. QED
    BY <1>0, <2>1, <2>2 DEF TypeInv, TypeOK
<1>2. CASE LifecycleCommit(h)
  BY <1>0, <1>2 DEF LifecycleCommit, At, TypeInv, TypeOK
<1>. QED
  BY <1>0, <1>1, <1>2

-----------------------------------------------------------------------------
(* Erased data stays away, as long as no edit, pause, resume or promotion of a
   profile is past its read when a retire of the profile is about to commit. *)

RetireApart ==
  \A g, h \in Handler : At(g, "retire") =>
    /\ handler[h].pc \in {"gates", "write", "move"} => handler[g].item # handler[h].item
    /\ At(h, "promote") => handler[g].item \notin handler[h].seen

\* No request that is past its read is about an erased profile.
ErasedOk(r) ==
  /\ r.pc \in {"gates", "write", "move"} => r.item \notin erased
  /\ r.pc \in {"write", "move"} => r.row.status # "retired"
  /\ r.pc = "promote" => r.seen \cap erased = {}

\* The profiles that have been retired are retired or deleted, and no others
\* are retired.
ErasedInv ==
  /\ \A i \in Item : items[i].status = "retired" => i \in erased
  /\ \A i \in erased : items[i].status \in {"retired", "deleted"} /\ ~items[i].personal
  /\ \A h \in Handler : ErasedOk(handler[h])

LEMMA ErasedInit == Init => ErasedInv
  BY DEF Init, ErasedInv, ErasedOk, Idle, NoRow

\* A step that retires nothing, and after which handler h remembers r.
LEMMA ErasedFrame ==
  ASSUME TypeInv, ErasedInv, erased' = erased, NEW h \in Handler, NEW r, Begin(h, r), ErasedOk(r),
         \A i \in Item : \/ items'[i] = items[i]
                         \/ i \notin erased /\ items'[i].status # "retired"
  PROVE  ErasedInv'
<1>1. \A g \in Handler : ErasedOk(handler'[g])
  BY BeginSets DEF ErasedInv
<1>2. \A i \in erased : i \in Item
  BY DEF TypeInv, TypeOK
<1>. QED
  BY <1>1, <1>2 DEF ErasedInv, ErasedOk

LEMMA ErasedCall ==
  ASSUME TypeInv, ErasedInv, NEW h \in Handler, Call(h)
  PROVE  ErasedInv'
<1>1. PICK r : Begin(h, r) /\ ReadOnly /\ Starts(r)
  BY CallBegins
<1>2. ErasedOk(r)
  <2>1. ASSUME NEW i \in Item, Exists(i), items[i].status # "retired" PROVE i \notin erased
    BY <2>1 DEF ErasedInv, Exists
  <2>2. ASSUME NEW m \in DOMAIN Moves, NEW i \in Item, items[i].status \in Moves[m].from
        PROVE  /\ Exists(i) /\ items[i].status # "retired"
               /\ Moves[m].pc = "move" =>
                    [items[i] EXCEPT !.status = Target(i, m)].status # "retired"
               /\ Moves[m].pc \in {"move", "retire"}
    BY <2>2 DEF Moves, Exists, Target, TypeInv, TypeOK, Row
  <2>3. ASSUME NEW u \in User, NEW i \in Owned(u), Promotable(i, consents, "adult")
        PROVE  i \notin erased
    BY <2>1, <2>3 DEF Owned, Promotable
  <2>. QED
    BY <1>1, <2>1, <2>2, <2>3 DEF Starts, ErasedOk, Editable
<1>. QED
  BY <1>1, <1>2, ErasedFrame DEF ReadOnly

LEMMA ErasedServe ==
  ASSUME TypeInv, ErasedInv, RetireApart, NEW h \in Handler, Serve(h)
  PROVE  ErasedInv'
<1>. DEFINE s == handler[h]
<1>0. s \in HandlerState /\ Shape(s) /\ ErasedOk(s) /\ ErasedOk(Idle)
  BY DEF TypeInv, TypeOK, ShapeInv, ErasedInv, ErasedOk, Idle
<1>1. CASE \/ ClaimDomain(h) \/ AssertProfileLimit(h) \/ PromoteRead(h)
           \/ \E complete \in BOOLEAN : UpdateGates(h, complete)
  <2>1. PICK r : Begin(h, r) /\ ReadOnly /\ Proceeds(h, s, r)
    BY <1>1, ReadBegins
  <2>2. ASSUME NEW rows, NEW a, s.pc = "accept", Promotable(s.item, rows, a) PROVE s.item \notin erased
    BY <1>0, <2>2 DEF ErasedInv, Promotable, Shape
  <2>3. \A d, c, ok : Classify(d, c, ok) # "retired"
    BY DEF Classify
  <2>4. ErasedOk(r)
    BY <1>0, <2>1, <2>2, <2>3 DEF Proceeds, ErasedOk
  <2>. QED
    BY <2>1, <2>4, ErasedFrame DEF ReadOnly
<1>2. ASSUME NEW i \in Item, CreateInsert(h, i) PROVE ErasedInv'
  <2>1. i \notin erased /\ Begin(h, Idle) /\ erased' = erased
    BY <1>2 DEF CreateInsert, Finish, ErasedInv
  <2>2. items'[i].status # "retired" /\ \A j \in Item \ {i} : items'[j] = items[j]
    BY <1>2 DEF CreateInsert, Classify, TypeInv, TypeOK
  <2>. QED
    BY <1>0, <2>1, <2>2, ErasedFrame
<1>3. CASE PromoteCommit(h)
  <2>1. \A i \in Item : \/ items'[i] = items[i]
                        \/ i \notin erased /\ items'[i].status # "retired"
    BY <1>0, <1>3 DEF PromoteCommit, At, ErasedOk, TypeInv, TypeOK, Row
  <2>. QED
    BY <1>0, <1>3, <2>1, ErasedFrame DEF PromoteCommit, Finish
<1>4. CASE DobCommit(h)
  BY <1>0, <1>4, ErasedFrame DEF DobCommit, Finish
<1>5. CASE UpdateWrite(h) \/ LifecycleCommit(h)
  <2>. DEFINE i == s.item
  <2>1. s.pc \in {"write", "move"} /\ i \in Item /\ items[i] \in Row
    BY <1>0, <1>5 DEF UpdateWrite, LifecycleCommit, At, Shape, TypeInv, TypeOK
  <2>2. i \notin erased /\ s.row.status # "retired" /\ items[i].status # "retired"
    BY <1>0, <2>1 DEF ErasedOk, ErasedInv
  <2>3. items'[i].status # "retired"
    BY <1>5, <2>1, <2>2, WriteChanges DEF Row
  <2>. QED
    BY <1>0, <1>5, <2>2, <2>3, WriteChanges, ErasedFrame DEF Finish
<1>6. CASE RetireCommit(h)
  <2>. DEFINE i == s.item
  <2>1. i \in Item /\ At(h, "retire") /\ Begin(h, Idle)
    BY <1>0, <1>6 DEF RetireCommit, At, Shape, Finish
  <2>2. CASE ~Exists(i)
    BY <1>0, <1>6, <2>1, <2>2, ErasedFrame DEF RetireCommit
  <2>3. CASE Exists(i)
    <3>1. erased' = erased \cup {i}
      BY <1>6, <2>3 DEF RetireCommit
    <3>2. /\ items'[i].status = "retired" /\ ~items'[i].personal
          /\ \A j \in Item \ {i} : items'[j] = items[j]
      <4>1. PICK complete :
              items' = [items EXCEPT ![i] =
                [@ EXCEPT !.status = "retired", !.complete = complete, !.personal = FALSE]]
        BY <1>6, <2>3, Zenon DEF RetireCommit
      <4>. QED
        BY <2>1, <4>1 DEF TypeInv, TypeOK, Row
    <3>3. ASSUME NEW g \in Handler PROVE ErasedOk(handler[g])'
      <4>1. CASE g = h
        <5>1. handler'[g] = Idle
          BY <2>1, <4>1, BeginSets
        <5>. QED
          BY <5>1 DEF ErasedOk, Idle
      <4>2. CASE g # h
        <5>1. handler'[g] = handler[g] /\ ErasedOk(handler[g])
          BY <2>1, <4>2, BeginSets DEF ErasedInv
        <5>. QED
          BY <2>1, <3>1, <5>1 DEF ErasedOk, RetireApart, At
      <4>. QED
        BY <4>1, <4>2
    <3>4. \A j \in Item : items'[j].status = "retired" => j \in erased'
      BY <3>1, <3>2 DEF ErasedInv
    <3>5. \A j \in erased' : items'[j].status \in {"retired", "deleted"} /\ ~items'[j].personal
      BY <3>1, <3>2 DEF ErasedInv, TypeInv, TypeOK
    <3>. QED
      BY <3>3, <3>4, <3>5 DEF ErasedInv
  <2>. QED
    BY <2>2, <2>3
<1>. QED
  BY <1>1, <1>2, <1>3, <1>4, <1>5, <1>6 DEF Serve

LEMMA ErasedStep ==
  ASSUME TypeInv, ErasedInv, RetireApart, [Next]_vars
  PROVE  ErasedInv' /\ erased \subseteq erased'
<1>1. ASSUME NEW h \in Handler, Abandon(h) PROVE ErasedInv'
  <2>1. ErasedOk(Idle)
    BY DEF ErasedOk, Idle
  <2>. QED
    BY <1>1, <2>1, ErasedFrame DEF Abandon, Finish, ReadOnly
<1>2. ASSUME NEW i \in Item, DeleteItem(i) PROVE ErasedInv'
  <2>1. /\ items'[i].status = "deleted" /\ ~items'[i].personal
        /\ \A j \in Item \ {i} : items'[j] = items[j]
    BY <1>2 DEF DeleteItem, TypeInv, TypeOK, Row
  <2>2. \A j \in erased : j \in Item
    BY DEF TypeInv, TypeOK
  <2>. QED
    BY <1>2, <2>1, <2>2 DEF DeleteItem, ErasedInv, ErasedOk
<1>3. CASE UNCHANGED <<items, erased, handler>>
  BY <1>3 DEF ErasedInv, ErasedOk
<1>4. erased \subseteq erased'
  BY DEF Next, Call, CreateBegin, AcceptCheck, GuardianCheck, ParticipantAge, DobRead, UpdateRead,
         LifecycleRead, Serve, ClaimDomain, AssertProfileLimit, CreateInsert, PromoteRead,
         PromoteCommit, DobCommit, UpdateGates, UpdateWrite, LifecycleCommit, RetireCommit, Abandon,
         ReadOnly, SetDomain, DeleteItem, vars
<1>. QED
  BY <1>1, <1>2, <1>3, <1>4, ErasedCall, ErasedServe DEF Next, SetDomain, vars

LEMMA ErasedInvariant == Spec /\ []RetireApart => [](TypeInv /\ ErasedInv)
  BY ErasedInit, ErasedStep, TypeInvariant, PTL DEF Spec

\* What retire has erased never comes back, for any number of profiles and
\* requests: if the last writer of a profile is not one that has read it before
\* the retire (RetireApart).
THEOREM ErasedDataStaysErased == Spec /\ []RetireApart => []ErasedStaysErased
<1>1. ErasedInv => ErasedStaysErased
  BY DEF ErasedInv, ErasedStaysErased
<1>. QED
  BY <1>1, ErasedInvariant, PTL

\* Under the same proviso nothing brings a retired profile back, and the limit
\* holds with retirement too.
THEOREM ProfileLimitWithRetire == Spec /\ []RetireApart => []ProfileLimit
<1>1. ErasedInv /\ ErasedInv' /\ erased \subseteq erased' => RetiredStays
  BY DEF ErasedInv, RetiredStays
<1>2. TypeInv /\ ErasedInv /\ RetireApart /\ [Next]_vars => [RetiredStays]_vars
  BY <1>1, ErasedStep
<1>. QED
  BY <1>2, ErasedInvariant, ProfileLimitHolds, PTL DEF Spec

-----------------------------------------------------------------------------
(* The status fits the data, as long as the requests about one user come one
   after the other, those of different users as they like, and no user is told
   to be an adult by a client: whichever of consent, age and data comes last
   moves the profile. *)

OnePerUser ==
  \A g, h \in Handler :
    ~At(g, "idle") /\ ~At(h, "idle") /\ handler[g].user = handler[h].user => g = h

\* Profile i waits for nothing and is still a draft.
Unserved(i, rows, a) ==
  /\ items[i].status = "draft" /\ items[i].complete
  /\ HasAcceptedProfileConsent(i, rows) /\ ~GuardianGateBlocks(i, rows, a)

FitsItem(i) ==
  /\ items[i].status = "live" => items[i].complete
  /\ Known(i) => ~Unserved(i, consents, age[items[i].owner])
  /\ \A c \in consents : c.item = i =>
       Known(i) /\ (c.by = "guardian" => age[items[i].owner] # "unknown")

\* What request r is about to commit fits as well: a create with consent that
\* does not promote waits for an age, a promotion misses no profile of its user.
FitsMemory(r) ==
  /\ r.pc \in {"claim", "limit", "insert"} =>
       /\ "promotes" \in r.opts => "accepted" \in r.opts
       /\ "accepted" \in r.opts /\ "promotes" \notin r.opts =>
            r.domain \in GuardianDomain /\ age[r.user] # "adult"
  /\ r.pc = "accept" => /\ r.age = "unknown"
                        /\ "guardian" \in r.opts => age[r.user] # "unknown"
  /\ r.pc = "promote" =>
       /\ r.age \in {"unknown", "adult"}
       /\ \A c \in r.rows : /\ Known(c.item) /\ items[c.item].owner = r.user
                            /\ c.by = "guardian" => age[r.user] # "unknown"
       /\ \A i \in r.seen : items[i].complete \/ items[i].status = "deleted"
       /\ \A i \in Item \ r.seen : items[i].owner = r.user =>
            ~Unserved(i, consents \cup r.rows, AgeSeen(r))
  /\ r.pc = "dob" => r.age = "minor" /\ age[r.user] = "unknown"
  /\ r.pc = "write" /\ "locations" \notin r.opts =>
       /\ r.row.status = "live" => r.row.complete
       /\ ~(/\ r.row.status = "draft" /\ r.row.complete
            /\ HasAcceptedProfileConsent(r.item, consents)
            /\ ~GuardianGateBlocks(r.item, consents, age[r.user]))
  /\ r.pc = "move" /\ Exists(r.item) =>
       /\ r.row.status \in {"paused", "live", "draft"}
       /\ r.row.status = "live" => items[r.item].complete
       /\ r.row.status = "draft" => ~items[r.item].complete
  /\ r.pc = "retire" => r.user = items[r.item].owner

FitsInv ==
  /\ \A i \in Item : FitsItem(i)
  /\ \A r \in {handler[h] : h \in Handler} : FitsMemory(r)

LEMMA FitsIdle == ASSUME NEW r, r.pc = "idle" PROVE FitsMemory(r)
  BY DEF FitsMemory

LEMMA FitsInit == Init => FitsInv
<1>. SUFFICES ASSUME Init PROVE FitsInv
  OBVIOUS
<1>1. \A i \in Item : FitsItem(i)
  BY DEF Init, FitsItem, Known, NoRow
<1>2. \A h \in Handler : handler[h].pc = "idle"
  BY DEF Init, Idle
<1>. QED
  BY <1>1, <1>2, FitsIdle DEF FitsInv

LEMMA PromotableIs ==
  ASSUME TypeInv, NEW i \in Item, NEW rows, NEW a
  PROVE  Promotable(i, rows, a) <=>
           /\ items[i].status = "draft" /\ items[i].complete
           /\ ~GuardianGateBlocks(i, rows, a)
<1>1. items[i].domain \notin GuardianDomain => ~GuardianGateBlocks(i, rows, a)
  BY DEF GuardianGateBlocks
<1>. QED
  BY <1>1 DEF Promotable, Classify, ConsentRequired

-----------------------------------------------------------------------------
(* A step that concerns others. *)

\* The step leaves the age, the profiles and the consents of user v alone, but
\* for profiles that are deleted.
Calm(v) ==
  /\ age'[v] = age[v]
  /\ \A i \in Item : Known(i)' /\ items'[i].owner = v =>
       Known(i) /\ (items'[i] = items[i] \/ items'[i].status = "deleted")
  /\ \A c \in Consent : Known(c.item) /\ items[c.item].owner = v =>
       (c \in consents' <=> c \in consents)

\* No profile goes away or changes hands.
KnownStays == KnownKeep /\ \A i \in Item : Known(i) => Known(i)'

LEMMA CalmGates ==
  ASSUME TypeInv, TypeInv', KnownStays, NEW v, Calm(v), NEW i \in Item, Known(i),
         items[i].owner = v, NEW rows \in SUBSET Consent, NEW a
  PROVE  /\ HasAcceptedProfileConsent(i, consents' \cup rows)
              <=> HasAcceptedProfileConsent(i, consents \cup rows)
         /\ GuardianGateBlocks(i, consents \cup rows, a)'
              <=> GuardianGateBlocks(i, consents \cup rows, a)
<1>1. \A c \in Consent : c.item = i => (c \in consents' \cup rows <=> c \in consents \cup rows)
  BY DEF Calm
<1>2. consents \cup rows \subseteq Consent /\ consents' \cup rows \subseteq Consent
  BY DEF TypeInv, TypeOK
<1>3. HasAcceptedProfileConsent(i, consents' \cup rows)
        <=> HasAcceptedProfileConsent(i, consents \cup rows)
  BY <1>1, <1>2 DEF HasAcceptedProfileConsent
<1>4. [item |-> i, by |-> "guardian"] \in Consent /\ [item |-> i, by |-> "guardian"].item = i
  BY DEF Consent
<1>5. items'[i].domain = items[i].domain
  BY DEF KnownStays, KnownKeep
<1>6. GuardianGateBlocks(i, consents \cup rows, a)'
        <=> GuardianGateBlocks(i, consents \cup rows, a)
  BY <1>1, <1>4, <1>5 DEF GuardianGateBlocks
<1>. QED
  BY <1>3, <1>6

LEMMA CalmItem ==
  ASSUME TypeInv, TypeInv', KnownStays, NEW v, Calm(v), NEW i \in Item, Known(i)',
         items'[i].owner = v, FitsItem(i)
  PROVE  FitsItem(i)'
<1>1. Known(i) /\ items[i].owner = v /\ (items'[i] = items[i] \/ items'[i].status = "deleted")
  BY DEF Calm, KnownStays, KnownKeep
<1>2. consents \cup {} = consents /\ consents' \cup {} = consents' /\ {} \in SUBSET Consent
  OBVIOUS
<1>3. /\ HasAcceptedProfileConsent(i, consents') <=> HasAcceptedProfileConsent(i, consents)
      /\ GuardianGateBlocks(i, consents, age[v])' <=> GuardianGateBlocks(i, consents, age[v])
  <2>1. PICK a : a = age[v] /\ a = age'[v]
    BY DEF Calm
  <2>2. /\ HasAcceptedProfileConsent(i, consents') <=> HasAcceptedProfileConsent(i, consents)
        /\ GuardianGateBlocks(i, consents, a)' <=> GuardianGateBlocks(i, consents, a)
    BY <1>1, <1>2, CalmGates
  <2>. QED
    BY <2>1, <2>2 DEF GuardianGateBlocks
<1>4. \A c \in consents' : c.item = i => c \in consents
  BY <1>1 DEF Calm, TypeInv, TypeOK
<1>5. items'[i].status = "live" => items'[i].complete
  BY <1>1 DEF FitsItem
<1>6. ~Unserved(i, consents, age[items[i].owner])'
  <2>1. SUFFICES ASSUME items'[i] = items[i] PROVE ~Unserved(i, consents, age[items[i].owner])'
    BY <1>1 DEF Unserved
  <2>. QED
    BY <1>1, <1>3, <2>1 DEF FitsItem, Unserved, GuardianGateBlocks
<1>7. \A c \in consents' : c.item = i =>
        Known(i)' /\ (c.by = "guardian" => age'[items'[i].owner] # "unknown")
  BY <1>1, <1>4 DEF FitsItem, Calm
<1>. QED
  BY <1>5, <1>6, <1>7 DEF FitsItem

LEMMA CalmMemory ==
  ASSUME TypeInv, TypeInv', KnownStays, NEW r \in HandlerState, Shape(r), Match(r),
         FitsMemory(r), Calm(r.user)
  PROVE  FitsMemory(r)'
<1>1. PICK a : a = age[r.user] /\ a = age'[r.user]
  BY DEF Calm
<1>2. CASE r.pc \in {"idle", "claim", "limit", "insert", "accept", "dob", "gates"}
  BY <1>1, <1>2 DEF FitsMemory
<1>3. CASE r.pc = "promote"
  <2>1. r.seen \subseteq Item /\ r.rows \subseteq Consent
    BY DEF HandlerState
  <2>2. \A c \in r.rows : /\ Known(c.item)' /\ items'[c.item].owner = r.user
                          /\ c.by = "guardian" => age'[r.user] # "unknown"
    BY <1>1, <1>3, <2>1 DEF FitsMemory, KnownStays, KnownKeep, Consent
  <2>3. \A i \in r.seen : items'[i].complete \/ items'[i].status = "deleted"
    BY <1>3, <2>1 DEF FitsMemory, Match, Calm, KnownStays, KnownKeep
  <2>4. ASSUME NEW i \in Item \ r.seen, items'[i].owner = r.user
        PROVE  ~Unserved(i, consents \cup r.rows, AgeSeen(r))'
    <3>1. SUFFICES ASSUME items'[i].status = "draft"
                   PROVE  ~Unserved(i, consents \cup r.rows, AgeSeen(r))'
      BY DEF Unserved
    <3>2. Known(i) /\ items'[i] = items[i] /\ items[i].owner = r.user
      BY <2>4, <3>1 DEF Calm, Known
    <3>3. PICK b : b = AgeSeen(r) /\ b = AgeSeen(r)'
      BY <1>1 DEF AgeSeen
    <3>4. /\ HasAcceptedProfileConsent(i, consents' \cup r.rows)
               <=> HasAcceptedProfileConsent(i, consents \cup r.rows)
          /\ GuardianGateBlocks(i, consents \cup r.rows, b)'
               <=> GuardianGateBlocks(i, consents \cup r.rows, b)
      BY <2>1, <3>2, CalmGates
    <3>5. ~Unserved(i, consents \cup r.rows, b)
      BY <1>3, <3>2, <3>3 DEF FitsMemory
    <3>. QED
      BY <3>2, <3>3, <3>4, <3>5 DEF Unserved, GuardianGateBlocks
  <2>. QED
    BY <1>3, <2>2, <2>3, <2>4 DEF FitsMemory
<1>4. CASE r.pc = "write"
  <2>1. r.item \in Item /\ Known(r.item) /\ items[r.item].owner = r.user
    BY <1>4 DEF Shape, Match
  <2>2. consents \cup {} = consents /\ consents' \cup {} = consents' /\ {} \in SUBSET Consent
    OBVIOUS
  <2>3. /\ HasAcceptedProfileConsent(r.item, consents')
             <=> HasAcceptedProfileConsent(r.item, consents)
        /\ GuardianGateBlocks(r.item, consents, a)' <=> GuardianGateBlocks(r.item, consents, a)
    BY <2>1, <2>2, CalmGates
  <2>. QED
    BY <1>1, <1>4, <2>3 DEF FitsMemory, GuardianGateBlocks
<1>5. CASE r.pc = "move"
  <2>1. Exists(r.item)' => items'[r.item] = items[r.item] /\ Exists(r.item)
    BY <1>5 DEF Shape, Match, Calm, KnownStays, KnownKeep, Exists, Known
  <2>. QED
    BY <1>5, <2>1 DEF FitsMemory
<1>6. CASE r.pc = "retire"
  BY <1>6 DEF FitsMemory, Shape, Match, KnownStays, KnownKeep
<1>. QED
  BY <1>2, <1>3, <1>4, <1>5, <1>6 DEF HandlerState

\* A step that concerns at most the users in U, none of whom has another
\* request under way.
LEMMA FitsFrame ==
  ASSUME TypeInv, TypeInv', MatchInv, FitsInv, KnownStays, NEW U,
         \A v \in User \ U : Calm(v),
         \A i \in Item : Known(i)' /\ items'[i].owner \in U => FitsItem(i)',
         \A c \in consents' : Known(c.item)',
         \A g \in Handler : \/ handler'[g].pc = "idle"
                            \/ handler'[g] = handler[g] /\ handler[g].user \notin U
  PROVE  FitsInv'
<1>1. ASSUME NEW i \in Item PROVE FitsItem(i)'
  <2>1. CASE ~Known(i)'
    BY <2>1 DEF FitsItem, Known
  <2>2. CASE Known(i)' /\ items'[i].owner \notin U
    <3>1. PICK v \in User \ U : v = items'[i].owner
      BY <2>2 DEF TypeInv, ShapeInv, RowShape, Known
    <3>. QED
      BY <2>2, <3>1, CalmItem DEF FitsInv
  <2>. QED
    BY <2>1, <2>2
<1>2. ASSUME NEW g \in Handler, NEW r, r = handler'[g] PROVE FitsMemory(r)'
  <2>1. CASE r.pc = "idle"
    BY <2>1 DEF FitsMemory
  <2>2. CASE r.pc # "idle"
    <3>1. handler[g] = r /\ r.user \notin U
      BY <1>2, <2>2
    <3>2. r \in HandlerState /\ Shape(r) /\ Match(r) /\ FitsMemory(r)
      BY <3>1 DEF TypeInv, TypeOK, ShapeInv, MatchInv, FitsInv
    <3>3. r.user \in User
      BY <2>2, <3>2 DEF Shape, Match, FitsMemory, Known, TypeInv, ShapeInv, RowShape, HandlerState
    <3>. QED
      BY <3>1, <3>2, <3>3, CalmMemory
  <2>. QED
    BY <2>1, <2>2
<1>. QED
  BY <1>1, <1>2 DEF FitsInv

\* A step of handler h that ends its request and concerns its user.
LEMMA FitsWrites ==
  ASSUME TypeInv, TypeInv', MatchInv, FitsInv, OnePerUser, KnownStays, NEW h \in Handler,
         Finish(h), ~At(h, "idle"), NEW u, handler[h].user = u,
         \A v \in User \ {u} : Calm(v),
         \A i \in Item : Known(i)' /\ items'[i].owner = u => FitsItem(i)',
         \A c \in consents' : c \in consents \/ Known(c.item)'
  PROVE  FitsInv'
<1>1. ASSUME NEW g \in Handler
      PROVE  handler'[g].pc = "idle" \/ (handler'[g] = handler[g] /\ handler[g].user \notin {u})
  <2>1. CASE g = h
    <3>1. handler'[g] = Idle
      BY <2>1, BeginSets DEF Finish
    <3>. QED
      BY <3>1 DEF Idle
  <2>2. CASE g # h
    <3>1. handler'[g] = handler[g]
      BY <2>2, BeginSets DEF Finish
    <3>. QED
      BY <2>2, <3>1 DEF OnePerUser, At
  <2>. QED
    BY <2>1, <2>2
<1>2. \A c \in consents' : Known(c.item)'
  <2>1. \A c \in consents : c.item \in Item
    BY DEF TypeInv, TypeOK, Consent
  <2>. QED
    BY <2>1 DEF FitsInv, FitsItem, KnownStays
<1>. QED
  BY <1>1, <1>2, FitsFrame

LEMMA FitsReadOnly ==
  ASSUME TypeInv, FitsInv, NEW h \in Handler, NEW r, Begin(h, r), ReadOnly, FitsMemory(r)
  PROVE  FitsInv'
<1>1. \A i \in Item : FitsItem(i)'
  BY DEF FitsInv, ReadOnly, FitsItem, Known, Unserved, GuardianGateBlocks
<1>2. ASSUME NEW g \in Handler, NEW q, q = handler'[g] PROVE FitsMemory(q)'
  <2>1. FitsMemory(q)
    BY <1>2, BeginSets DEF FitsInv
  <2>2. CASE q.pc # "promote"
    BY <2>1, <2>2 DEF ReadOnly, FitsMemory, Exists, GuardianGateBlocks
  <2>3. CASE q.pc = "promote"
    <3>1. PICK S : S = consents \cup q.rows /\ S = consents' \cup q.rows
      BY DEF ReadOnly
    <3>2. PICK a : a = AgeSeen(q) /\ a = AgeSeen(q)'
      BY DEF ReadOnly, AgeSeen
    <3>3. ASSUME NEW i \in Item \ q.seen, items'[i].owner = q.user
          PROVE  ~Unserved(i, consents \cup q.rows, AgeSeen(q))'
      <4>1. ~Unserved(i, S, a)
        BY <2>1, <2>3, <3>1, <3>2, <3>3 DEF ReadOnly, FitsMemory
      <4>. QED
        BY <3>1, <3>2, <4>1 DEF ReadOnly, Unserved, GuardianGateBlocks
    <3>. QED
      BY <2>1, <2>3, <3>3 DEF ReadOnly, FitsMemory, Known
  <2>. QED
    BY <2>2, <2>3
<1>. QED
  BY <1>1, <1>2 DEF FitsInv

-----------------------------------------------------------------------------
(* The steps. *)

LEMMA FitsCall ==
  ASSUME TypeInv, FitsInv, \A u \in User : "adult" \notin Told[u], NEW h \in Handler, Call(h)
  PROVE  FitsInv'
<1>1. PICK r : Begin(h, r) /\ ReadOnly /\ Starts(r)
  BY CallBegins
<1>2. FitsMemory(r)
  <2>1. ASSUME NEW u \in User, NEW d \in Domain, r.pc = "claim", r.user = u, r.domain = d,
               r.opts \in {{}, IF SelfConsentPromotes(u, d) THEN {"accepted", "promotes"}
                               ELSE {"accepted"}}
        PROVE  FitsMemory(r)
    BY <2>1 DEF FitsMemory, SelfConsentPromotes
  <2>2. ASSUME NEW i \in Item, Exists(i), r.pc = "accept", r.user = items[i].owner, r.age = "unknown",
               \/ r.opts = {}
               \/ r.opts = {"guardian"} /\ age[items[i].owner] = "minor"
        PROVE  FitsMemory(r)
    BY <2>2 DEF FitsMemory
  <2>3. ASSUME NEW u \in User, r.pc = "promote", r.user = u, r.age = "adult", r.rows = {},
               r.seen = {i \in Owned(u) : /\ HasAcceptedProfileConsent(i, consents)
                                          /\ Promotable(i, consents, "adult")}
        PROVE  FitsMemory(r)
    <3>1. consents \cup r.rows = consents /\ AgeSeen(r) = "adult"
      BY <2>3 DEF AgeSeen
    <3>2. \A i \in r.seen : i \in Item /\ items[i].complete
      BY <2>3, PromotableIs DEF Owned
    <3>3. ASSUME NEW i \in Item \ r.seen, items[i].owner = u
          PROVE  ~Unserved(i, consents, "adult")
      BY <2>3, <3>3, PromotableIs DEF Unserved, Owned, Exists
    <3>. QED
      BY <2>3, <3>1, <3>2, <3>3 DEF FitsMemory
  <2>4. ASSUME NEW u \in User, NEW a \in Age, a \in Told[u], r.pc = "dob", r.user = u, r.age = a,
               age[u] = "unknown"
        PROVE  FitsMemory(r)
    BY <2>4 DEF FitsMemory, Age
  <2>5. ASSUME r.pc = "gates" \/ (r.pc = "write" /\ r.opts = {"locations"})
        PROVE  FitsMemory(r)
    BY <2>5 DEF FitsMemory
  <2>6. ASSUME NEW m \in DOMAIN Moves, NEW i \in Item, items[i].status \in Moves[m].from,
               r.pc = Moves[m].pc, r.item = i, r.user = items[i].owner,
               r.row = [items[i] EXCEPT !.status = Target(i, m)]
        PROVE  FitsMemory(r)
    <3>1. r.row.status = Target(i, m)
      BY <2>6 DEF TypeInv, TypeOK, Row
    <3>2. \/ m = "pause" /\ r.pc = "move" /\ Target(i, m) = "paused"
          \/ m = "unpause" /\ r.pc = "move"
             /\ Target(i, m) = IF items[i].complete THEN "live" ELSE "draft"
          \/ m = "retire" /\ r.pc = "retire"
      BY <2>6 DEF Moves, Target
    <3>. QED
      BY <2>6, <3>1, <3>2 DEF FitsMemory
  <2>. QED
    BY <1>1, <2>1, <2>2, <2>3, <2>4, <2>5, <2>6, Zenon DEF Starts
<1>. QED
  BY <1>1, <1>2, FitsReadOnly

LEMMA FitsReads ==
  ASSUME TypeInv, MatchInv, FitsInv, NEW h \in Handler,
         \/ ClaimDomain(h) \/ AssertProfileLimit(h) \/ PromoteRead(h)
         \/ \E complete \in BOOLEAN : UpdateGates(h, complete)
  PROVE  FitsInv'
<1>. DEFINE s == handler[h]
<1>0. s \in HandlerState /\ Shape(s) /\ Match(s) /\ FitsMemory(s)
  BY DEF TypeInv, TypeOK, ShapeInv, MatchInv, FitsInv
<1>1. PICK r : Begin(h, r) /\ ReadOnly /\ Proceeds(h, s, r)
  BY ReadBegins
<1>2. FitsMemory(r)
  <2>1. ASSUME s.pc \in {"claim", "limit"}, r.pc \in {"limit", "insert"}, r.user = s.user,
               r.domain = s.domain, r.opts \in {s.opts, s.opts \cup {"claimed"}}
        PROVE  FitsMemory(r)
    BY <1>0, <2>1 DEF FitsMemory
  <2>2. ASSUME s.pc = "accept", r.pc = "promote", r.user = s.user, r.age = s.age,
               r.rows = {ConsentRow(h)},
               r.seen = IF Promotable(s.item, consents \cup {ConsentRow(h)}, age[s.user])
                        THEN {s.item} ELSE {}
        PROVE  FitsMemory(r)
    <3>1. s.item \in Item /\ Known(s.item) /\ s.user = items[s.item].owner /\ s.age = "unknown"
      BY <1>0, <2>2 DEF Shape, Match, FitsMemory
    <3>2. /\ ConsentRow(h).item = s.item
          /\ ConsentRow(h).by = "guardian" => age[s.user] # "unknown"
      BY <1>0, <2>2 DEF ConsentRow, FitsMemory
    <3>3. AgeSeen(r) = age[s.user]
      BY <2>2, <3>1 DEF AgeSeen
    <3>4. \A i \in r.seen : items[i].complete
      BY <2>2, <3>1, PromotableIs
    <3>5. ASSUME NEW i \in Item \ r.seen, items[i].owner = s.user,
                 Unserved(i, consents \cup {ConsentRow(h)}, age[s.user])
          PROVE  FALSE
      <4>1. CASE i = s.item
        BY <2>2, <3>5, <4>1, PromotableIs DEF Unserved
      <4>2. CASE i # s.item
        <5>1. HasAcceptedProfileConsent(i, consents)
          BY <3>2, <3>5, <4>2 DEF Unserved, HasAcceptedProfileConsent
        <5>2. ~GuardianGateBlocks(i, consents, age[s.user])
          BY <3>2, <3>5, <4>2 DEF Unserved, GuardianGateBlocks
        <5>3. Known(i)
          BY <3>5 DEF Unserved, Known
        <5>. QED
          BY <3>5, <5>1, <5>2, <5>3 DEF FitsInv, FitsItem, Unserved
      <4>. QED
        BY <4>1, <4>2
    <3>6. \A c \in r.rows : /\ Known(c.item) /\ items[c.item].owner = r.user
                            /\ c.by = "guardian" => age[r.user] # "unknown"
      BY <2>2, <3>1, <3>2
    <3>. QED
      BY <2>2, <3>1, <3>3, <3>4, <3>5, <3>6 DEF FitsMemory
  <2>3. ASSUME NEW complete \in BOOLEAN, s.pc = "gates", r.pc = "write", r.item = s.item,
               r.user = s.user, r.row.complete = complete,
               r.row.status =
                 IF s.row.status = "paused" THEN "paused"
                 ELSE Classify(s.row.domain, complete,
                               /\ HasAcceptedProfileConsent(s.item, consents)
                               /\ ~GuardianGateBlocks(s.item, consents, age[s.row.owner]))
        PROVE  FitsMemory(r)
    <3>1. s.row.owner = s.user
      BY <1>0, <2>3 DEF Match
    <3>2. /\ r.row.status = "live" => complete
          /\ r.row.status = "draft" /\ complete =>
               ~(/\ HasAcceptedProfileConsent(s.item, consents)
                 /\ ~GuardianGateBlocks(s.item, consents, age[s.user]))
      BY <2>3, <3>1 DEF Classify
    <3>. QED
      BY <2>3, <3>2 DEF FitsMemory
  <2>. QED
    BY <1>1, <2>1, <2>2, <2>3 DEF Proceeds
<1>. QED
  BY <1>1, <1>2, FitsReadOnly

\* A profile and its consents, and the age of its owner, as an edit or a
\* transition leaves them.
LEMMA FitsRow ==
  ASSUME TypeInv, FitsInv, KnownStays, consents' = consents, age' = age, NEW i \in Item, Known(i),
         items'[i].status = "live" => items'[i].complete,
         ~(/\ items'[i].status = "draft" /\ items'[i].complete
           /\ HasAcceptedProfileConsent(i, consents)
           /\ ~GuardianGateBlocks(i, consents, age[items[i].owner]))
  PROVE  FitsItem(i)'
<1>1. /\ Known(i)' /\ items'[i].owner = items[i].owner /\ items'[i].domain = items[i].domain
      /\ FitsItem(i)
  BY DEF KnownStays, KnownKeep, FitsInv
<1>2. ~Unserved(i, consents, age[items[i].owner])'
  BY <1>1 DEF Unserved, GuardianGateBlocks
<1>. QED
  BY <1>1, <1>2 DEF FitsItem

\* A step of h that writes the profile of its request and nothing else.
LEMMA FitsOne ==
  ASSUME TypeInv, TypeInv', MatchInv, FitsInv, OnePerUser, KnownStays, NEW h \in Handler,
         Finish(h), ~At(h, "idle"), consents' = consents, age' = age, NEW i \in Item, Known(i),
         items[i].owner = handler[h].user, \A j \in Item \ {i} : items'[j] = items[j],
         items'[i].status = "live" => items'[i].complete,
         ~(/\ items'[i].status = "draft" /\ items'[i].complete
           /\ HasAcceptedProfileConsent(i, consents)
           /\ ~GuardianGateBlocks(i, consents, age[items[i].owner]))
  PROVE  FitsInv'
<1>1. PICK u : u = handler[h].user
  OBVIOUS
<1>2. \A v \in User \ {u} : Calm(v)
  BY <1>1 DEF Calm, KnownStays, KnownKeep, Known
<1>3. ASSUME NEW j \in Item, Known(j)' PROVE FitsItem(j)'
  <2>1. CASE j = i
    BY <2>1, FitsRow
  <2>2. CASE j # i
    <3>1. Known(j) /\ FitsItem(j) /\ items'[j] = items[j]
      BY <1>3, <2>2 DEF Known, FitsInv
    <3>. QED
      BY <3>1, FitsRow DEF FitsItem, Unserved
  <2>. QED
    BY <2>1, <2>2
<1>. QED
  BY <1>1, <1>2, <1>3, FitsWrites

LEMMA FitsUpdate ==
  ASSUME TypeInv, TypeInv', MatchInv, FitsInv, OnePerUser, KnownStays, NEW h \in Handler,
         UpdateWrite(h) \/ LifecycleCommit(h)
  PROVE  FitsInv'
<1>. DEFINE s == handler[h]
            i == s.item
<1>0. /\ s.pc \in {"write", "move"} /\ i \in Item /\ Known(i) /\ items[i].owner = s.user
      /\ Match(s) /\ FitsMemory(s) /\ FitsItem(i) /\ items[i] \in Row
  BY DEF UpdateWrite, LifecycleCommit, At, TypeInv, TypeOK, ShapeInv, Shape, MatchInv, Match, FitsInv
<1>1. /\ Finish(h) /\ UNCHANGED <<consents, age>> /\ \A j \in Item \ {i} : items'[j] = items[j]
      /\ \/ items'[i] = items[i]
         \/ s.pc = "write" /\ "locations" \notin s.opts /\ items'[i] = s.row
         \/ items'[i] = [items[i] EXCEPT !.personal = TRUE]
         \/ Exists(i) /\ items'[i] = [items[i] EXCEPT !.status = s.row.status] /\ s.pc = "move"
  BY WriteChanges
<1>2. CASE items'[i].status = items[i].status /\ items'[i].complete = items[i].complete
  BY <1>0, <1>1, <1>2, FitsOne DEF At, FitsItem, Unserved
<1>3. CASE s.pc = "write" /\ "locations" \notin s.opts /\ items'[i] = s.row
  BY <1>0, <1>1, <1>3, FitsOne DEF At, FitsMemory
<1>4. CASE Exists(i) /\ items'[i] = [items[i] EXCEPT !.status = s.row.status] /\ s.pc = "move"
  <2>1. items'[i].status = s.row.status /\ items'[i].complete = items[i].complete
    BY <1>0, <1>4 DEF Row
  <2>. QED
    BY <1>0, <1>1, <1>4, <2>1, FitsOne DEF At, FitsMemory
<1>5. items'[i] = [items[i] EXCEPT !.personal = TRUE] =>
        items'[i].status = items[i].status /\ items'[i].complete = items[i].complete
  BY <1>0 DEF Row
<1>. QED
  BY <1>1, <1>2, <1>3, <1>4, <1>5

LEMMA FitsRetire ==
  ASSUME TypeInv, TypeInv', MatchInv, FitsInv, OnePerUser, KnownStays, NEW h \in Handler,
         RetireCommit(h)
  PROVE  FitsInv'
<1>. DEFINE s == handler[h]
            i == s.item
<1>0. /\ s.pc = "retire" /\ i \in Item /\ Known(i) /\ items[i].owner = s.user /\ FitsItem(i)
      /\ Finish(h) /\ UNCHANGED <<consents, age>>
  BY DEF RetireCommit, At, TypeInv, ShapeInv, Shape, MatchInv, Match, FitsInv, FitsMemory
<1>1. CASE Exists(i)
  <2>1. PICK complete :
          items' = [items EXCEPT ![i] =
            [@ EXCEPT !.status = "retired", !.complete = complete, !.personal = FALSE]]
    BY <1>1, Zenon DEF RetireCommit
  <2>2. items'[i].status = "retired" /\ \A j \in Item \ {i} : items'[j] = items[j]
    BY <1>0, <2>1 DEF TypeInv, TypeOK, Row
  <2>. QED
    BY <1>0, <2>2, FitsOne DEF At
<1>2. CASE ~Exists(i)
  <2>1. items' = items
    BY <1>2 DEF RetireCommit
  <2>. QED
    BY <1>0, <2>1, FitsOne DEF At, FitsItem, Unserved
<1>. QED
  BY <1>1, <1>2

LEMMA FitsDob ==
  ASSUME TypeInv, TypeInv', MatchInv, FitsInv, OnePerUser, KnownStays, NEW h \in Handler, DobCommit(h)
  PROVE  FitsInv'
<1>. DEFINE u == handler[h].user
<1>0. /\ handler[h].pc = "dob" /\ u \in User /\ age[u] = "unknown"
      /\ items' = items /\ consents' = consents /\ Finish(h)
      /\ age' = [age EXCEPT ![u] = "minor"]
  BY DEF DobCommit, At, TypeInv, ShapeInv, Shape, FitsInv, FitsMemory
<1>1. \A v \in User \ {u} : Calm(v)
  BY <1>0 DEF Calm, Known, TypeInv, TypeOK
<1>2. ASSUME NEW i \in Item, Known(i)', items'[i].owner = u PROVE FitsItem(i)'
  <2>1. Known(i) /\ items[i].owner = u /\ FitsItem(i) /\ age'[u] = "minor"
    BY <1>0, <1>2 DEF Known, FitsInv, TypeInv, TypeOK
  <2>2. [item |-> i, by |-> "guardian"] \notin consents
    BY <1>0, <2>1 DEF FitsItem
  <2>3. ~Unserved(i, consents, age[items[i].owner])'
    BY <1>0, <2>1, <2>2 DEF FitsItem, Unserved, GuardianGateBlocks
  <2>. QED
    BY <1>0, <2>1, <2>3 DEF FitsItem, Known
<1>. QED
  BY <1>0, <1>1, <1>2, FitsWrites DEF At

LEMMA FitsPromote ==
  ASSUME TypeInv, TypeInv', MatchInv, FitsInv, OnePerUser, KnownStays, NEW h \in Handler,
         PromoteCommit(h)
  PROVE  FitsInv'
<1>. DEFINE s == handler[h]
            u == s.user
<1>0. /\ s \in HandlerState /\ Match(s) /\ FitsMemory(s) /\ s.pc = "promote" /\ u \in User
      /\ Finish(h) /\ consents' = consents \cup s.rows
      /\ \A i \in Item : items'[i] = IF i \in s.seen /\ Exists(i)
                                     THEN [items[i] EXCEPT !.status = "live"] ELSE items[i]
  BY DEF PromoteCommit, At, TypeInv, TypeOK, ShapeInv, Shape, MatchInv, FitsInv
<1>1. age'[u] = AgeSeen(s) /\ \A v \in User \ {u} : age'[v] = age[v]
  BY <1>0 DEF PromoteCommit, AgeSeen, TypeInv, TypeOK
<1>2. \A c \in s.rows : /\ c \in Consent /\ c.item \in Item
                        /\ Known(c.item) /\ items[c.item].owner = u
                        /\ c.by = "guardian" => age[u] # "unknown"
  BY <1>0 DEF HandlerState, Consent, FitsMemory
<1>3. \A i \in s.seen : i \in Item /\ Known(i) /\ items[i].owner = u
  BY <1>0 DEF HandlerState, Match
<1>4. ASSUME NEW v \in User \ {u} PROVE Calm(v)
  <2>1. \A i \in Item : Known(i)' /\ items'[i].owner = v => Known(i) /\ items'[i] = items[i]
    BY <1>0, <1>3 DEF Known, KnownStays, KnownKeep
  <2>. QED
    BY <1>0, <1>1, <1>2, <2>1 DEF Calm
<1>5. ASSUME NEW i \in Item, Known(i)', items'[i].owner = u PROVE FitsItem(i)'
  <2>1. Known(i) /\ items[i].owner = u /\ FitsItem(i) /\ items[i] \in Row
    BY <1>0, <1>3, <1>5 DEF Known, KnownStays, KnownKeep, FitsInv, TypeInv, TypeOK
  <2>2. \A c \in consents' : c.item = i =>
          Known(i)' /\ (c.by = "guardian" => age'[items'[i].owner] # "unknown")
    <3>1. age[u] # "unknown" => age'[u] # "unknown"
      BY <1>0, <1>1 DEF AgeSeen, FitsMemory
    <3>. QED
      BY <1>0, <1>2, <1>5, <2>1, <3>1 DEF FitsItem
  <2>3. CASE i \in s.seen
    <3>1. CASE Exists(i)
      <4>1. items'[i].status = "live" /\ items'[i].complete = items[i].complete /\ items[i].complete
        BY <1>0, <2>1, <2>3, <3>1 DEF Row, Exists, FitsMemory
      <4>. QED
        BY <2>2, <4>1 DEF FitsItem, Unserved
    <3>2. CASE ~Exists(i)
      <4>1. items'[i].status \notin {"draft", "live"}
        BY <1>0, <3>2 DEF Exists
      <4>. QED
        BY <2>2, <4>1 DEF FitsItem, Unserved
    <3>. QED
      BY <3>1, <3>2
  <2>4. CASE i \notin s.seen
    <3>1. items'[i] = items[i] /\ ~Unserved(i, consents \cup s.rows, AgeSeen(s))
      BY <1>0, <2>1, <2>4 DEF FitsMemory
    <3>2. ~Unserved(i, consents, age[items[i].owner])'
      BY <1>0, <1>1, <2>1, <3>1 DEF Unserved, GuardianGateBlocks
    <3>. QED
      BY <2>1, <2>2, <3>1, <3>2 DEF FitsItem
  <2>. QED
    BY <2>3, <2>4
<1>6. \A c \in consents' : c \in consents \/ Known(c.item)'
  BY <1>0, <1>2 DEF KnownStays
<1>. QED
  BY <1>0, <1>4, <1>5, <1>6, FitsWrites DEF At

LEMMA FitsInsert ==
  ASSUME TypeInv, TypeInv', MatchInv, FitsInv, OnePerUser, NEW h \in Handler, NEW i \in Item,
         CreateInsert(h, i)
  PROVE  FitsInv'
<1>. DEFINE s == handler[h]
            u == s.user
            d == s.domain
            new == [item |-> i, by |-> "profile"]
<1>0. /\ s.pc = "insert" /\ u \in User /\ FitsMemory(s) /\ Finish(h) /\ age' = age
      /\ consents' = IF "accepted" \in s.opts THEN consents \cup {new} ELSE consents
      /\ ~Known(i) /\ FitsItem(i)
  BY DEF CreateInsert, At, Known, TypeInv, ShapeInv, Shape, FitsInv
<1>1. PICK complete \in BOOLEAN :
        items' = [items EXCEPT ![i] =
          [status |-> Classify(d, complete, "promotes" \in s.opts),
           owner |-> u, domain |-> d, complete |-> complete, personal |-> TRUE]]
  BY Zenon DEF CreateInsert
<1>2. /\ items'[i].status = Classify(d, complete, "promotes" \in s.opts)
      /\ items'[i].owner = u /\ items'[i].domain = d /\ items'[i].complete = complete
      /\ \A j \in Item \ {i} : items'[j] = items[j]
  BY <1>1 DEF TypeInv, TypeOK
<1>3. KnownStays /\ Known(i)'
  BY <1>0, <1>2 DEF KnownStays, KnownKeep, Known, Classify
<1>4. \A c \in consents : c.item # i
  BY <1>0 DEF FitsItem
<1>5. \A v \in User \ {u} : Calm(v)
  BY <1>0, <1>2 DEF Calm, Known
<1>6. FitsItem(i)'
  <2>1. items'[i].status = "live" => items'[i].complete
    BY <1>2 DEF Classify
  <2>2. ASSUME Unserved(i, consents, age[items[i].owner])' PROVE FALSE
    <3>1. /\ items'[i].status = "draft" /\ complete
          /\ HasAcceptedProfileConsent(i, consents')
          /\ d \in GuardianDomain =>
               /\ age[u] # "unknown"
               /\ age[u] = "minor" => [item |-> i, by |-> "guardian"] \in consents'
      BY <1>0, <1>2, <2>2 DEF Unserved, GuardianGateBlocks
    <3>2. "accepted" \in s.opts
      BY <1>0, <1>4, <3>1 DEF HasAcceptedProfileConsent
    <3>3. "promotes" \notin s.opts
      BY <1>2, <3>1 DEF Classify
    <3>4. d \in GuardianDomain /\ age[u] \in {"minor", "unknown"}
      BY <1>0, <3>2, <3>3 DEF FitsMemory, TypeInv, TypeOK, Age
    <3>5. [item |-> i, by |-> "guardian"] \notin consents'
      BY <1>0, <1>4
    <3>. QED
      BY <3>1, <3>4, <3>5
  <2>3. \A c \in consents' : c.item = i => c.by = "profile"
    BY <1>0, <1>4
  <2>. QED
    BY <1>3, <2>1, <2>2, <2>3 DEF FitsItem
<1>7. ASSUME NEW j \in Item, j # i, Known(j)' PROVE FitsItem(j)'
  <2>1. items'[j] = items[j] /\ Known(j) /\ FitsItem(j)
    BY <1>2, <1>7 DEF Known, FitsInv
  <2>2. \A c : c.item = j => (c \in consents' <=> c \in consents)
    BY <1>0, <1>7
  <2>3. /\ HasAcceptedProfileConsent(j, consents') <=> HasAcceptedProfileConsent(j, consents)
        /\ [item |-> j, by |-> "guardian"] \in consents' <=> [item |-> j, by |-> "guardian"] \in consents
    BY <2>2 DEF HasAcceptedProfileConsent
  <2>4. ~Unserved(j, consents, age[items[j].owner])'
    BY <1>0, <2>1, <2>3 DEF FitsItem, Unserved, GuardianGateBlocks
  <2>. QED
    BY <1>0, <1>7, <2>1, <2>2, <2>4 DEF FitsItem
<1>8. \A c \in consents' : c \in consents \/ Known(c.item)'
  BY <1>0, <1>3
<1>. QED
  BY <1>0, <1>3, <1>5, <1>6, <1>7, <1>8, FitsWrites DEF At

LEMMA FitsStep ==
  ASSUME TypeInv, TypeInv', MatchInv, FitsInv, OnePerUser, \A u \in User : "adult" \notin Told[u],
         [Next]_vars
  PROVE  FitsInv'
<1>1. RowsKeep => KnownStays
  BY DEF RowsKeep, KnownStays, KnownKeep
<1>2. ASSUME NEW h \in Handler, Serve(h) PROVE FitsInv'
  BY <1>1, <1>2, ServeKeeps, FitsReads, FitsUpdate, FitsRetire, FitsDob, FitsPromote, FitsInsert
  DEF Serve
<1>3. ASSUME NEW h \in Handler, Abandon(h) PROVE FitsInv'
  <2>1. FitsMemory(Idle)
    BY FitsIdle DEF Idle
  <2>. QED
    BY <1>3, <2>1, FitsReadOnly DEF Abandon, Finish
<1>4. CASE \/ UNCHANGED vars
           \/ \E u \in User, d \in Domain : SetDomain(u, d)
           \/ \E i \in Item : DeleteItem(i)
  <2>1. UNCHANGED <<consents, age, handler>>
    BY <1>4 DEF vars, SetDomain, DeleteItem
  <2>2. \A i \in Item :
          /\ items'[i].owner = items[i].owner /\ items'[i].domain = items[i].domain
          /\ Known(i)' <=> Known(i)
          /\ items'[i] = items[i] \/ items'[i].status = "deleted"
    <3>1. ASSUME NEW j \in Item, DeleteItem(j)
          PROVE  /\ items'[j].status = "deleted" /\ items'[j].owner = items[j].owner
                 /\ items'[j].domain = items[j].domain /\ Known(j)
                 /\ \A i \in Item \ {j} : items'[i] = items[i]
      BY <3>1 DEF DeleteItem, Exists, Known, TypeInv, TypeOK, Row
    <3>2. CASE items' = items
      BY <3>2 DEF Known
    <3>. QED
      BY <1>4, <3>1, <3>2 DEF vars, SetDomain, Known
  <2>3. KnownStays
    BY <2>2 DEF KnownStays, KnownKeep
  <2>4. \A v \in User : Calm(v)
    BY <2>1, <2>2 DEF Calm
  <2>5. \A c \in consents' : Known(c.item)'
    BY <2>1, <2>2 DEF FitsInv, FitsItem, TypeInv, TypeOK, Consent
  <2>6. PICK U : U = {}
    OBVIOUS
  <2>7. /\ \A v \in User \ U : Calm(v)
        /\ \A i \in Item : Known(i)' /\ items'[i].owner \in U => FitsItem(i)'
        /\ \A g \in Handler : handler'[g] = handler[g] /\ handler[g].user \notin U
    BY <2>1, <2>4, <2>6
  <2>. QED
    BY <2>3, <2>5, <2>7, FitsFrame
<1>. QED
  BY <1>2, <1>3, <1>4, FitsCall DEF Next

\* When no request is under way, a live profile is complete and no draft is left
\* that could be live, for any number of users, profiles and requests: if the
\* requests about one user do not overlap, and the route that tells an age only
\* ever tells a minor's, as it promotes nothing.
THEOREM StatusFitsDataApart ==
  (\A u \in User : "adult" \notin Told[u]) => (Spec /\ []OnePerUser => []StatusFitsData)
<1>. SUFFICES ASSUME \A u \in User : "adult" \notin Told[u]
              PROVE  Spec /\ []OnePerUser => []StatusFitsData
  OBVIOUS
<1>1. FitsInv => StatusFitsData
  BY DEF FitsInv, FitsItem, StatusFitsData, GatesOpen, Unserved, Known
<1>2. TypeInv /\ TypeInv' /\ MatchInv /\ FitsInv /\ OnePerUser /\ [Next]_vars => FitsInv'
  BY FitsStep
<1>. QED
  BY <1>1, <1>2, FitsInit, MatchInvariant, PTL DEF Spec

-----------------------------------------------------------------------------
(* The provisos of the other theorems follow from the same one: a retire and
   the requests about the same profile are requests about one user, and so are
   the two routes that write an age. *)

OwnOk(r) ==
  /\ r.pc = "retire" => r.user = items[r.item].owner
  /\ r.pc = "accept" => r.age = "unknown"
  /\ r.pc = "promote" => r.age \in {"unknown", "adult"}
  /\ r.pc = "dob" => age[r.user] = "unknown"

OwnInv == \A r \in {handler[h] : h \in Handler} : OwnOk(r)

LEMMA OwnInit == Init => OwnInv
  BY DEF Init, OwnInv, OwnOk, Idle

LEMMA OwnReadOnly ==
  ASSUME TypeInv, OwnInv, NEW h \in Handler, NEW r, Begin(h, r), ReadOnly, OwnOk(r)
  PROVE  OwnInv'
<1>1. ASSUME NEW g \in Handler, NEW q, q = handler'[g] PROVE OwnOk(q)'
  <2>1. OwnOk(q)
    BY <1>1, BeginSets DEF OwnInv
  <2>. QED
    BY <2>1 DEF ReadOnly, OwnOk
<1>. QED
  BY <1>1 DEF OwnInv

\* A step that ends the requests about the users in U whose age it writes.
LEMMA OwnFrame ==
  ASSUME TypeInv, MatchInv, OwnInv, KnownKeep, NEW U,
         \A v \in User \ U : age'[v] = age[v],
         \A g \in Handler : \/ handler'[g].pc = "idle"
                            \/ handler'[g] = handler[g] /\ handler[g].user \notin U
  PROVE  OwnInv'
<1>1. ASSUME NEW g \in Handler, NEW r, r = handler'[g] PROVE OwnOk(r)'
  <2>1. CASE r.pc = "idle"
    BY <2>1 DEF OwnOk
  <2>2. CASE r.pc # "idle"
    <3>1. handler[g] = r /\ r.user \notin U
      BY <1>1, <2>2
    <3>2. Shape(r) /\ Match(r) /\ OwnOk(r)
      BY <3>1 DEF TypeInv, ShapeInv, MatchInv, OwnInv
    <3>. QED
      BY <3>1, <3>2 DEF OwnOk, Shape, Match, KnownKeep
  <2>. QED
    BY <2>1, <2>2
<1>. QED
  BY <1>1 DEF OwnInv

LEMMA OwnServe ==
  ASSUME TypeInv, MatchInv, OwnInv, OnePerUser, NEW h \in Handler, Serve(h)
  PROVE  OwnInv' /\ AdultsStay
<1>. DEFINE s == handler[h]
<1>0. s \in HandlerState /\ Shape(s) /\ OwnOk(s)
  BY DEF TypeInv, TypeOK, ShapeInv, OwnInv
<1>1. CASE \/ ClaimDomain(h) \/ AssertProfileLimit(h) \/ PromoteRead(h)
           \/ \E complete \in BOOLEAN : UpdateGates(h, complete)
  <2>1. PICK r : Begin(h, r) /\ ReadOnly /\ Proceeds(h, s, r)
    BY <1>1, ReadBegins
  <2>2. OwnOk(r)
    BY <1>0, <2>1 DEF Proceeds, OwnOk
  <2>. QED
    BY <2>1, <2>2, OwnReadOnly DEF ReadOnly, AdultsStay
<1>2. CASE \/ UpdateWrite(h) \/ LifecycleCommit(h) \/ RetireCommit(h) \/ DobCommit(h)
           \/ PromoteCommit(h) \/ \E i \in Item : CreateInsert(h, i)
  <2>1. Finish(h) /\ s.pc # "idle"
    BY <1>2 DEF UpdateWrite, LifecycleCommit, RetireCommit, DobCommit, PromoteCommit, CreateInsert, At
  <2>2. KnownKeep
    <3>1. ASSUME NEW i \in Item, CreateInsert(h, i) PROVE KnownKeep
      BY <3>1 DEF CreateInsert, KnownKeep, Known, TypeInv, TypeOK
    <3>2. RowsKeep => KnownKeep
      BY DEF RowsKeep, KnownKeep
    <3>. QED
      BY <3>1, <3>2, ServeKeeps
  <2>3. PICK u : u = s.user
    OBVIOUS
  <2>4. ASSUME NEW g \in Handler
        PROVE  \/ handler'[g].pc = "idle"
               \/ handler'[g] = handler[g] /\ handler[g].user \notin {u}
    <3>1. CASE g = h
      <4>1. handler'[g] = Idle
        BY <2>1, <3>1, BeginSets DEF Finish
      <4>. QED
        BY <4>1 DEF Idle
    <3>2. CASE g # h
      <4>1. handler'[g] = handler[g]
        BY <2>1, <3>2, BeginSets DEF Finish
      <4>. QED
        BY <2>1, <2>3, <3>2, <4>1 DEF OnePerUser, At
    <3>. QED
      BY <3>1, <3>2
  <2>5. (\A v \in User \ {u} : age'[v] = age[v]) /\ AdultsStay
    <3>1. CASE DobCommit(h)
      BY <1>0, <2>3, <3>1 DEF DobCommit, At, OwnOk, AdultsStay, TypeInv, TypeOK
    <3>2. CASE PromoteCommit(h)
      BY <1>0, <2>3, <3>2 DEF PromoteCommit, At, OwnOk, AdultsStay, TypeInv, TypeOK
    <3>3. CASE age' = age
      BY <3>3 DEF AdultsStay
    <3>. QED
      BY <1>2, <3>1, <3>2, <3>3 DEF UpdateWrite, LifecycleCommit, RetireCommit, CreateInsert
  <2>. QED
    BY <2>2, <2>4, <2>5, OwnFrame
<1>. QED
  BY <1>1, <1>2 DEF Serve

LEMMA OwnStep ==
  ASSUME TypeInv, MatchInv, OwnInv, OnePerUser, [Next]_vars
  PROVE  OwnInv' /\ [AdultsStay]_vars
<1>1. ASSUME NEW h \in Handler, Call(h) PROVE OwnInv' /\ AdultsStay
  <2>1. PICK r : Begin(h, r) /\ ReadOnly /\ Starts(r)
    BY <1>1, CallBegins
  <2>2. \A m \in DOMAIN Moves : Moves[m].pc \in {"move", "retire"}
    BY MovesType
  <2>3. OwnOk(r)
    BY <2>1, <2>2 DEF Starts, OwnOk
  <2>. QED
    BY <2>1, <2>3, OwnReadOnly DEF ReadOnly, AdultsStay
<1>2. ASSUME NEW h \in Handler, Abandon(h) PROVE OwnInv' /\ AdultsStay
  <2>1. OwnOk(Idle)
    BY DEF OwnOk, Idle
  <2>. QED
    BY <1>2, <2>1, OwnReadOnly DEF Abandon, Finish, ReadOnly, AdultsStay
<1>3. CASE \/ UNCHANGED vars
           \/ \E u \in User, d \in Domain : SetDomain(u, d)
           \/ \E i \in Item : DeleteItem(i)
  <2>1. UNCHANGED <<age, handler>>
    BY <1>3 DEF vars, SetDomain, DeleteItem
  <2>2. \A i \in Item : items'[i].owner = items[i].owner
    <3>1. ASSUME NEW j \in Item, DeleteItem(j) PROVE \A i \in Item : items'[i].owner = items[i].owner
      BY <3>1 DEF DeleteItem, TypeInv, TypeOK, Row
    <3>. QED
      BY <1>3, <3>1 DEF vars, SetDomain
  <2>3. ASSUME NEW g \in Handler, NEW r, r = handler'[g] PROVE OwnOk(r)'
    BY <2>1, <2>2, <2>3 DEF OwnInv, OwnOk, TypeInv, ShapeInv, Shape
  <2>. QED
    BY <2>1, <2>3 DEF OwnInv, AdultsStay
<1>. QED
  BY <1>1, <1>2, <1>3, OwnServe DEF Next

LEMMA OwnApart == TypeInv /\ MatchInv /\ OwnInv /\ OnePerUser => RetireApart
<1>. SUFFICES ASSUME TypeInv, MatchInv, OwnInv, OnePerUser, NEW g \in Handler, NEW h \in Handler,
                     At(g, "retire")
              PROVE  /\ handler[h].pc \in {"gates", "write", "move"} =>
                          handler[g].item # handler[h].item
                     /\ At(h, "promote") => handler[g].item \notin handler[h].seen
  BY DEF RetireApart
<1>1. handler[g].user = items[handler[g].item].owner /\ Match(handler[h])
  BY DEF OwnInv, OwnOk, MatchInv, At
<1>2. ~At(h, "retire") /\ ~At(h, "idle") => handler[g].user # handler[h].user
  BY DEF OnePerUser, At
<1>. QED
  BY <1>1, <1>2 DEF Match, At

\* If the requests about one user come one after the other, the limit, the gates
\* and the erasure hold without a further proviso: those of different users
\* never interfere.
THEOREM OneRequestPerUser ==
  Spec /\ []OnePerUser => [](ProfileLimit /\ LiveBehindGates /\ ErasedStaysErased)
<1>1. Spec /\ []OnePerUser => [](TypeInv /\ MatchInv /\ OwnInv /\ OnePerUser)
  BY OwnInit, OwnStep, MatchInvariant, PTL DEF Spec
<1>2. Spec /\ []OnePerUser => []RetireApart /\ [][AdultsStay]_vars
  BY <1>1, OwnStep, OwnApart, PTL DEF Spec
<1>. QED
  BY <1>2, ProfileLimitWithRetire, LiveIsBehindGates, ErasedDataStaysErased, PTL
=============================================================================
