--------------------------- MODULE FetchingProofs ---------------------------
(***************************************************************************)
(* Theorems about Fetching: types, exact answers, swept pages.  First the  *)
(* arithmetic of pages: the merge of the heads of several lists has the    *)
(* page of the whole.                                                      *)
(***************************************************************************)
EXTENDS Fetching, FiniteSetTheorems, TLAPS

\* The rows of S that come before x, and the first n rows of S.
Above(S, x) == {y \in S : y > x}
Head(S, n) == {x \in S : Cardinality(Above(S, x)) < n}

LEMMA PageFacts ==
  ASSUME NEW S, NEW o, NEW l
  PROVE  PageOf(S, o, l) =
           {x \in S : o <= Cardinality(Above(S, x)) /\ Cardinality(Above(S, x)) < o + l}
  BY DEF PageOf, Above

LEMMA AboveFacts ==
  ASSUME NEW S, IsFiniteSet(S), S \subseteq Nat, NEW x \in Nat
  PROVE  /\ IsFiniteSet(Above(S, x)) /\ Cardinality(Above(S, x)) \in Nat
         /\ Cardinality(S) \in Nat /\ Cardinality(Above(S, x)) <= Cardinality(S)
         /\ x \in S => Cardinality(Above(S, x)) < Cardinality(S)
<1>1. Above(S, x) \in SUBSET S /\ x \notin Above(S, x)
  BY DEF Above
<1>2. IsFiniteSet(Above(S, x)) /\ Cardinality(Above(S, x)) <= Cardinality(S)
  BY <1>1, FS_Subset
<1>3. Cardinality(Above(S, x)) \in Nat /\ Cardinality(S) \in Nat
  BY <1>2, FS_CardinalityType
<1>4. Cardinality(Above(S, x)) = Cardinality(S) => S = Above(S, x)
  BY <1>1, FS_Subset
<1>. QED
  BY <1>1, <1>2, <1>3, <1>4

\* What comes before a row comes before every later one.
LEMMA AboveChain ==
  ASSUME NEW S, S \subseteq Nat, NEW x \in Nat, NEW y \in Nat, y > x
  PROVE  /\ Above(S, y) \subseteq Above(S, x) /\ y \notin Above(S, y)
         /\ Above(Above(S, x), y) = Above(S, y)
<1>1. ASSUME NEW z \in S
      PROVE  z > y => z > x
  <2>1. z \in Nat
    OBVIOUS
  <2>. QED
    BY <2>1
<1>2. ~(y > y)
  OBVIOUS
<1>. QED
  BY <1>1, <1>2 DEF Above

\* Fewer rows come before a row of a part, and before an earlier row.
LEMMA AboveSmaller ==
  ASSUME NEW T, IsFiniteSet(T), T \subseteq Nat, NEW S \in SUBSET T, NEW x \in Nat
  PROVE  /\ Cardinality(Above(S, x)) <= Cardinality(Above(T, x))
         /\ \A y \in Above(T, x) : Cardinality(Above(S, y)) < Cardinality(Above(T, x))
<1>1. IsFiniteSet(Above(T, x)) /\ Above(S, x) \in SUBSET Above(T, x)
  BY AboveFacts DEF Above
<1>2. ASSUME NEW y \in Above(T, x)
      PROVE  Cardinality(Above(S, y)) < Cardinality(Above(T, x))
  <2>1. Above(S, y) \in SUBSET Above(T, x) /\ y \notin Above(S, y)
    <3>1. y \in Nat /\ y > x
      BY DEF Above
    <3>2. Above(S, y) \in SUBSET Above(T, y)
      BY DEF Above
    <3>. QED
      BY <3>1, <3>2, AboveChain DEF Above
  <2>2. Cardinality(Above(S, y)) <= Cardinality(Above(T, x)) /\ IsFiniteSet(Above(S, y))
    BY <1>1, <2>1, FS_Subset
  <2>3. Cardinality(Above(S, y)) # Cardinality(Above(T, x))
    BY <1>1, <2>1, FS_Subset
  <2>4. Cardinality(Above(S, y)) \in Nat /\ Cardinality(Above(T, x)) \in Nat
    BY <1>1, <2>2, FS_CardinalityType
  <2>. QED
    BY <2>2, <2>3, <2>4
<1>. QED
  BY <1>1, <1>2, FS_Subset

\* A finite list has a last row: the one with the most rows before it is found
\* as the smallest set of rows after it.
LEMMA FirstRow ==
  ASSUME NEW S, IsFiniteSet(S), S \subseteq Nat, S # {}
  PROVE  \E m \in S : \A y \in S : y <= m
<1>. DEFINE T == {Above(S, z) : z \in S}
<1>1. T # {} /\ T \subseteq FiniteSubsetsOf(S)
  BY AboveFacts DEF Above, FiniteSubsetsOf
<1>2. IsWellFoundedOn(StrictSubsetOrdering(S), FiniteSubsetsOf(S))
  BY FS_StrictSubsetOrderingWellFounded
<1>. HIDE DEF T
<1>3. PICK U \in T : \A W \in T : ~ (<<W, U>> \in StrictSubsetOrdering(S))
  BY <1>1, <1>2, WFMin
<1>4. PICK m \in S : U = Above(S, m)
  BY DEF T
<1>5. ASSUME NEW y \in S, y > m
      PROVE  FALSE
  <2>1. Above(S, y) \in T
    BY DEF T
  <2>2. Above(S, y) \subseteq Above(S, m) /\ Above(S, y) # Above(S, m) /\ Above(S, m) \subseteq S
    <3>1. m \in Nat /\ y \in Nat /\ y > m
      BY <1>5
    <3>2. y \in Above(S, m) /\ Above(S, m) \subseteq S
      BY <3>1 DEF Above
    <3>. QED
      BY <3>1, <3>2, AboveChain
  <2>3. <<Above(S, y), U>> \in StrictSubsetOrdering(S)
    BY <1>4, <2>2 DEF StrictSubsetOrdering
  <2>. QED
    BY <1>3, <2>1, <2>3
<1>. QED
  BY <1>5

\* A list of at least n rows has n first ones.
LEMMA HeadFull ==
  ASSUME NEW S, IsFiniteSet(S), S \subseteq Nat, NEW n \in Nat, n <= Cardinality(S)
  PROVE  n <= Cardinality(Head(S, n))
<1>. DEFINE H == Head(S, n)
<1>1. H \in SUBSET S /\ S \ H \in SUBSET S
  BY DEF Head
<1>2. /\ IsFiniteSet(H) /\ IsFiniteSet(S \ H)
      /\ Cardinality(H) \in Nat /\ Cardinality(S) \in Nat
  BY <1>1, FS_Subset, FS_CardinalityType
<1>3. SUFFICES ASSUME Cardinality(H) < n
               PROVE  FALSE
  BY <1>2
<1>4. S \ H # {}
  BY <1>1, <1>2, <1>3 DEF Head
<1>5. PICK m \in S \ H : \A y \in S \ H : y <= m
  BY <1>2, <1>4, FirstRow
<1>6. Above(S, m) \in SUBSET H
  <2>1. m \in Nat /\ \A y \in S : y \in Nat
    OBVIOUS
  <2>2. \A y \in S : y > m => y \notin S \ H
    BY <1>5, <2>1
  <2>. QED
    BY <2>2 DEF Above
<1>7. Cardinality(Above(S, m)) <= Cardinality(H)
  BY <1>2, <1>6, FS_Subset
<1>8. Cardinality(Above(S, m)) \in Nat
  BY <1>5, AboveFacts
<1>. QED
  BY <1>2, <1>3, <1>5, <1>7, <1>8 DEF Head

\* The merge of gathered rows that hold the first ones of the whole has the page
\* of the whole.
HeadsOf(M, V, n) ==
  IsFiniteSet(V) /\ V \subseteq Nat /\ M \subseteq V /\ Head(V, n) \subseteq M

LEMMA MergeKeepsPage ==
  ASSUME NEW M, NEW V, NEW o \in Nat, NEW l \in Nat,
         NEW n \in Nat, n = o + l, HeadsOf(M, V, n)
  PROVE  PageOf(M, o, l) = PageOf(V, o, l)
<1>0. IsFiniteSet(V) /\ V \subseteq Nat /\ M \subseteq V /\ Head(V, n) \subseteq M
  BY DEF HeadsOf
<1>1. IsFiniteSet(M) /\ M \subseteq Nat
  <2>1. M \in SUBSET V /\ M \subseteq Nat
    BY <1>0
  <2>2. IsFiniteSet(M)
    BY <1>0, <2>1, FS_Subset
  <2>. QED
    BY <2>1, <2>2
<1>2. ASSUME NEW x \in V, Cardinality(Above(V, x)) < n
      PROVE  x \in M /\ Above(M, x) = Above(V, x)
  <2>1. ASSUME NEW y \in Above(V, x)
        PROVE  y \in M
    <3>1. Cardinality(Above(V, y)) < Cardinality(Above(V, x)) /\ y \in V
      BY <1>0, AboveSmaller DEF Above
    <3>2. Cardinality(Above(V, y)) \in Nat /\ Cardinality(Above(V, x)) \in Nat
      BY <1>0, <3>1, AboveFacts
    <3>. QED
      BY <1>0, <1>1, <1>2, <3>1, <3>2 DEF Head
  <2>. QED
    BY <1>0, <1>2, <2>1 DEF Head, Above
<1>3. ASSUME NEW x \in M, ~(Cardinality(Above(V, x)) < n)
      PROVE  ~(Cardinality(Above(M, x)) < n)
  <2>. DEFINE W == Above(V, x)
  <2>1. IsFiniteSet(W) /\ W \subseteq Nat /\ Cardinality(W) \in Nat /\ n <= Cardinality(W)
    <3>1. x \in Nat /\ W \subseteq V
      BY <1>0, <1>1 DEF Above
    <3>2. IsFiniteSet(W) /\ Cardinality(W) \in Nat
      BY <1>0, <3>1, AboveFacts
    <3>3. W \subseteq Nat
      BY <1>0, <3>1
    <3>4. n <= Cardinality(W)
      <4>. HIDE DEF W
      <4>1. ~(Cardinality(W) < n)
        BY <1>3 DEF W
      <4>. QED
        BY <1>1, <3>2, <4>1
    <3>. QED
      BY <3>2, <3>3, <3>4
  <2>2. n <= Cardinality(Head(W, n))
    BY <1>1, <2>1, HeadFull
  <2>3. \A y \in W : Above(W, y) = Above(V, y)
    <3>1. x \in Nat
      BY <1>0, <1>1
    <3>2. \A y \in W : y \in Nat /\ y > x
      BY <1>0 DEF Above
    <3>. QED
      BY <1>0, <3>1, <3>2, AboveChain
  <2>4. Head(W, n) \in SUBSET Above(M, x)
    BY <1>0, <1>1, <2>3 DEF Head, Above
  <2>5. IsFiniteSet(Above(M, x)) /\ Cardinality(Above(M, x)) \in Nat
    BY <1>1, AboveFacts
  <2>6. Cardinality(Head(W, n)) <= Cardinality(Above(M, x)) /\ IsFiniteSet(Head(W, n))
    BY <2>4, <2>5, FS_Subset
  <2>7. Cardinality(Head(W, n)) \in Nat
    BY <2>6, FS_CardinalityType
  <2>. QED
    BY <1>1, <2>2, <2>5, <2>6, <2>7
<1>. QED
  BY <1>0, <1>1, <1>2, <1>3, PageFacts

\* No row of a page cut out of a part belongs to an earlier page of the whole.
LEMMA MergeRepeatsNone ==
  ASSUME NEW V, IsFiniteSet(V), V \subseteq Nat, NEW M, M \subseteq V,
         NEW o \in Nat, NEW l \in Nat
  PROVE  PageOf(M, o, l) \subseteq PageOf(V, o, Cardinality(V))
<1>1. IsFiniteSet(M) /\ M \subseteq Nat
  <2>1. M \in SUBSET V
    OBVIOUS
  <2>. QED
    BY <2>1, FS_Subset
<1>2. ASSUME NEW x \in PageOf(M, o, l)
      PROVE  x \in PageOf(V, o, Cardinality(V))
  <2>1. x \in M /\ o <= Cardinality(Above(M, x))
    BY <1>2, PageFacts
  <2>2. x \in V /\ x \in Nat
    BY <2>1
  <2>3. /\ Cardinality(Above(M, x)) \in Nat /\ Cardinality(Above(V, x)) \in Nat
        /\ Cardinality(V) \in Nat /\ Cardinality(Above(V, x)) < Cardinality(V)
    BY <1>1, <2>2, AboveFacts
  <2>4. Cardinality(Above(M, x)) <= Cardinality(Above(V, x))
    BY <2>2, AboveSmaller
  <2>5. o <= Cardinality(Above(V, x)) /\ Cardinality(Above(V, x)) < o + Cardinality(V)
    BY <2>1, <2>3, <2>4
  <2>. QED
    BY <2>2, <2>5, PageFacts
<1>. QED
  BY <1>2

\* A whole is gathered by its parts: each has the rows of the head that are its own.
Parts(F, A) == UNION {F[i] : i \in A}
Heads(F, A, n) == UNION {PageOf(F[i], 0, n) : i \in A}

LEMMA HeadOfUnion ==
  ASSUME NEW A, NEW F, IsFiniteSet(Parts(F, A)), Parts(F, A) \subseteq Nat, NEW n \in Nat
  PROVE  Head(Parts(F, A), n) \subseteq Heads(F, A, n) /\ Heads(F, A, n) \subseteq Parts(F, A)
<1>. DEFINE V == Parts(F, A)
<1>0. V = UNION {F[i] : i \in A}
  BY DEF Parts
<1>. HIDE DEF V
<1>1. ASSUME NEW i \in A
      PROVE  PageOf(F[i], 0, n) = Head(F[i], n) /\ F[i] \in SUBSET V
  <2>1. F[i] \in SUBSET V /\ IsFiniteSet(F[i])
    BY <1>0, FS_Subset DEF V
  <2>2. \A x \in F[i] : Cardinality(Above(F[i], x)) \in Nat
    BY <2>1, AboveFacts DEF V
  <2>. QED
    BY <2>1, <2>2, PageFacts DEF Head
<1>2. ASSUME NEW x \in Head(V, n)
      PROVE  \E i \in A : x \in Head(F[i], n)
  <2>1. x \in V /\ Cardinality(Above(V, x)) < n
    BY <1>2 DEF Head
  <2>2. PICK i \in A : x \in F[i]
    BY <1>0, <2>1
  <2>3. F[i] \in SUBSET V /\ IsFiniteSet(F[i])
    BY <1>0, FS_Subset DEF V
  <2>4. Cardinality(Above(F[i], x)) <= Cardinality(Above(V, x))
    BY <2>1, <2>3, AboveSmaller DEF V
  <2>5. Cardinality(Above(F[i], x)) \in Nat /\ Cardinality(Above(V, x)) \in Nat
    BY <2>1, <2>3, AboveFacts DEF V
  <2>. QED
    BY <2>1, <2>2, <2>4, <2>5 DEF Head
<1>. QED
  BY <1>1, <1>2 DEF Head, Heads, V

-----------------------------------------------------------------------------
(* The types.                                                              *)

FetchState ==
  [pc : {"idle", "counts", "pages", "done"}, req : Request, waiting : SUBSET Instance,
   read : SUBSET Instance, failed : SUBSET Instance, count : [Instance -> 0..Cardinality(Item)],
   rows : SUBSET Item, still : BOOLEAN, own : BOOLEAN]

PageState == [rows : SUBSET Item, still : BOOLEAN, own : {"none", "during", "after", "lost"}]

\* The items of the instances a request is asked of.
Within(r) == {x \in Item : Home[x] \in Asked(r)}

\* What a request has asked, read and lost at each step of its progress.
Progress ==
  {s \in FetchState :
     /\ s.waiting \cup s.read \cup s.failed \subseteq Asked(s.req)
     /\ s.waiting \cap (s.read \cup s.failed) = {}
     /\ s.read \cap s.failed = {}
     /\ s.rows \subseteq Within(s.req)
     /\ s.pc = "counts" => s.req.kind # "own" /\ s.rows = {}
     /\ s.pc = "counts" => \A i \in s.failed : s.count[i] = 0
     /\ s.pc # "counts" => s.read = {}
     /\ s.pc \in {"idle", "done"} => s.waiting = {}
     /\ s.req.kind = "own" => s.failed = {}}

\* Items are visible at home only, and the records are of their types.
TypeInv ==
  /\ visible \in [Instance -> SUBSET Item]
  /\ \A i \in Instance : \A x \in visible[i] : Home[x] = i
  /\ \A k \in DOMAIN counted : k \in Instance \X Nat /\ counted[k] \in 0..Cardinality(Item)
  /\ DOMAIN pages \subseteq Request
  /\ \A r \in DOMAIN pages : pages[r] \in PageState /\ pages[r].rows \subseteq Within(r)
  /\ fetcher \in [Fetcher -> Progress]
  /\ owed \in [Writer -> SUBSET Families]
  /\ commits \in 0..MaxCommits

-----------------------------------------------------------------------------
(* The answers.                                                            *)

\* The instances the page of f is gathered from.
Sources(f) == IF fetcher[f].req.kind = "own" THEN {Self} ELSE Planned(f)

\* What a request f that no change overlapped has gathered is what its slices
\* select of the items that are visible now.
Gathered(f) ==
  fetcher[f].pc = "pages" =>
    /\ fetcher[f].waiting \subseteq Sources(f)
    /\ fetcher[f].still =>
         fetcher[f].rows = UNION {PageOf(visible[i], Slice(f, i).offset, Slice(f, i).limit) :
                                    i \in Sources(f) \ (fetcher[f].waiting \cup fetcher[f].failed)}

\* The rows a request r is about, at the instances of I.
Whole(I) == UNION {visible[i] : i \in I}

Answered(f) ==
  fetcher[f].pc = "done" /\ fetcher[f].still =>
    RightPage(fetcher[f].rows, fetcher[f].req, Whole(Asked(fetcher[f].req) \ fetcher[f].failed))

\* A page in Redis that no change overlapped or followed is the page.
PagesTrue ==
  \A r \in DOMAIN pages : pages[r].still => RightPage(pages[r].rows, r, Whole(Asked(r)))

AnswerInv == PagesTrue /\ \A f \in Fetcher : Gathered(f) /\ Answered(f)

-----------------------------------------------------------------------------
(* Each step keeps the types.                                              *)

LEMMA Finite ==
  /\ Cardinality(Item) \in Nat
  /\ \A S \in SUBSET Item : IsFiniteSet(S) /\ S \subseteq Nat /\ Cardinality(S) \in 0..Cardinality(Item)
<1>1. \A S \in SUBSET Item : IsFiniteSet(S) /\ Cardinality(S) <= Cardinality(Item)
  BY FetchingAssumption, FS_Subset DEF FetchingAssumption
<1>2. Item \in SUBSET Item
  OBVIOUS
<1>3. \A S \in SUBSET Item : Cardinality(S) \in Nat
  BY <1>1, FS_CardinalityType
<1>4. Cardinality(Item) \in Nat
  BY <1>2, <1>3
<1>5. \A S \in SUBSET Item : S \subseteq Nat
  BY FetchingAssumption DEF FetchingAssumption
<1>6. ASSUME NEW S \in SUBSET Item
      PROVE  Cardinality(S) \in 0..Cardinality(Item)
  BY <1>1, <1>3, <1>4
<1>. QED
  BY <1>1, <1>4, <1>5, <1>6

\* A request that has not begun.
LEMMA IdleTyped ==
  /\ Idle \in Progress
  /\ Idle.pc = "idle" /\ Idle.waiting = {} /\ Idle.read = {} /\ Idle.failed = {}
  /\ Idle.rows = {} /\ Idle.still = TRUE /\ Idle.own = FALSE /\ Idle.count = Zero
<1>1. Zero \in [Instance -> 0..Cardinality(Item)]
  BY Finite DEF Zero
<1>2. (CHOOSE r \in Request : TRUE) \in Request
  BY FetchingAssumption DEF FetchingAssumption
<1>. DEFINE c == CHOOSE r \in Request : TRUE
<1>3. Idle = [pc |-> "idle", req |-> c, waiting |-> {}, read |-> {},
              failed |-> {}, count |-> Zero, rows |-> {}, still |-> TRUE, own |-> FALSE]
  BY DEF Idle
<1>4. c \in Request
  BY <1>2
<1>. HIDE DEF c
<1>. QED
  BY <1>1, <1>3, <1>4 DEF Progress, FetchState

LEMMA InitTypes == Init => TypeInv
<1>. SUFFICES ASSUME Init PROVE TypeInv
  OBVIOUS
<1>1. visible \in [Instance -> SUBSET Item] /\ \A i \in Instance : \A x \in visible[i] : Home[x] = i
  BY FetchingAssumption DEF FetchingAssumption, Init
<1>2. DOMAIN counted = {} /\ DOMAIN pages = {}
  BY DEF Init
<1>3. fetcher \in [Fetcher -> Progress]
  BY IdleTyped DEF Init
<1>4. owed \in [Writer -> SUBSET Families] /\ commits \in 0..MaxCommits
  BY FetchingAssumption DEF FetchingAssumption, Init
<1>. QED
  BY <1>1, <1>2, <1>3, <1>4 DEF TypeInv

\* One request goes on: only its record is new.
LEMMA OneFetcher ==
  ASSUME NEW f \in Fetcher, TypeInv, NEW s \in Progress,
         fetcher' = [fetcher EXCEPT ![f] = s]
  PROVE  /\ fetcher' \in [Fetcher -> Progress]
         /\ fetcher'[f] = s /\ \A g \in Fetcher \ {f} : fetcher'[g] = fetcher[g]
  BY DEF TypeInv

\* Pages that are taken out of Redis.
LEMMA RestrictFacts ==
  ASSUME NEW c, NEW S, S \subseteq DOMAIN c
  PROVE  DOMAIN Restrict(c, S) = S /\ \A x \in S : Restrict(c, S)[x] = c[x]
  BY DEF Restrict

LEMMA SliceTyped ==
  ASSUME NEW S \in SUBSET Item, NEW o, NEW l
  PROVE  PageOf(S, o, l) \in SUBSET S
  BY DEF PageOf

\* What each step of a request makes of its record.
LEMMA HitMoves ==
  ASSUME TypeInv, NEW f \in Fetcher, NEW r \in Request, Hit(f, r)
  PROVE  /\ fetcher' \in [Fetcher -> Progress]
         /\ \A g \in Fetcher \ {f} : fetcher'[g] = fetcher[g]
         /\ fetcher'[f].pc = "done" /\ fetcher'[f].req = r /\ fetcher'[f].failed = {}
         /\ fetcher'[f].rows = pages[r].rows /\ fetcher'[f].still = pages[r].still
<1>. DEFINE s == [Idle EXCEPT !.pc = "done", !.req = r, !.rows = pages[r].rows,
                              !.still = pages[r].still]
<1>1. pages[r] \in PageState /\ pages[r].rows \subseteq Within(r)
  BY DEF Hit, TypeInv
<1>2. s \in Progress
  BY <1>1, IdleTyped DEF Progress, FetchState, PageState
<1>3. /\ s.pc = "done" /\ s.req = r /\ s.failed = {}
      /\ s.rows = pages[r].rows /\ s.still = pages[r].still
  BY <1>1, IdleTyped DEF Progress, FetchState
<1>4. fetcher' = [fetcher EXCEPT ![f] = s]
  BY DEF Hit
<1>. HIDE DEF s
<1>. QED
  BY <1>2, <1>3, <1>4, OneFetcher

LEMMA MissMoves ==
  ASSUME TypeInv, NEW f \in Fetcher, NEW r \in Request, Miss(f, r)
  PROVE  /\ fetcher' \in [Fetcher -> Progress]
         /\ \A g \in Fetcher \ {f} : fetcher'[g] = fetcher[g]
         /\ fetcher'[f].pc = (IF r.kind = "own" THEN "pages" ELSE "counts")
         /\ fetcher'[f].req = r /\ fetcher'[f].waiting = Asked(r)
         /\ fetcher'[f].failed = {} /\ fetcher'[f].rows = {}
<1>. DEFINE s == [Idle EXCEPT !.pc = IF r.kind = "own" THEN "pages" ELSE "counts",
                              !.req = r, !.waiting = Asked(r)]
<1>1. Asked(r) \subseteq Instance
  BY FetchingAssumption DEF FetchingAssumption, Asked
<1>2. s \in Progress
  BY <1>1, IdleTyped DEF Progress, FetchState
<1>3. /\ s.pc = (IF r.kind = "own" THEN "pages" ELSE "counts")
      /\ s.req = r /\ s.waiting = Asked(r) /\ s.failed = {} /\ s.rows = {}
  BY IdleTyped DEF Progress, FetchState
<1>4. fetcher' = [fetcher EXCEPT ![f] = s]
  BY DEF Miss
<1>. HIDE DEF s
<1>. QED
  BY <1>2, <1>3, <1>4, OneFetcher

\* The answers of the instances: while the counts are gathered, nothing else of
\* a request moves.
LEMMA CountMoves ==
  ASSUME TypeInv, NEW f \in Fetcher, NEW i \in Instance,
         CountHit(f, i) \/ CountRead(f, i) \/ CountStored(f, i) \/ CountFails(f, i)
  PROVE  /\ fetcher' \in [Fetcher -> Progress]
         /\ \A g \in Fetcher \ {f} : fetcher'[g] = fetcher[g]
         /\ fetcher[f].pc = "counts" /\ fetcher'[f].pc = "counts"
<1>0. fetcher[f] \in Progress /\ fetcher \in [Fetcher -> Progress]
  BY DEF TypeInv
<1>1. CASE CountHit(f, i)
  <2>. DEFINE v == counted[CountKey(i, fetcher[f].req)]
              s == [fetcher[f] EXCEPT !.waiting = @ \ {i}, !.count = [@ EXCEPT ![i] = v]]
  <2>1. v \in 0..Cardinality(Item)
    BY <1>1 DEF CountHit, TypeInv
  <2>2. fetcher' = [fetcher EXCEPT ![f] = s]
    BY <1>0, <1>1 DEF CountHit
  <2>. HIDE DEF v
  <2>3. s \in Progress /\ s.pc = "counts"
    BY <1>0, <1>1, <2>1 DEF CountHit, Progress, FetchState
  <2>. HIDE DEF s
  <2>. QED
    BY <1>1, <2>2, <2>3, OneFetcher DEF CountHit
<1>2. CASE CountRead(f, i)
  <2>. DEFINE v == Cardinality(visible[i])
              s == [fetcher[f] EXCEPT !.waiting = @ \ {i}, !.read = @ \cup {i},
                                      !.count = [@ EXCEPT ![i] = v]]
  <2>1. v \in 0..Cardinality(Item)
    BY Finite DEF TypeInv
  <2>2. fetcher' = [fetcher EXCEPT ![f] = s]
    BY <1>0, <1>2 DEF CountRead
  <2>. HIDE DEF v
  <2>3. s \in Progress /\ s.pc = "counts"
    BY <1>0, <1>2, <2>1 DEF CountRead, Progress, FetchState
  <2>. HIDE DEF s
  <2>. QED
    BY <1>2, <2>2, <2>3, OneFetcher DEF CountRead
<1>3. CASE CountStored(f, i)
  <2>. DEFINE s == [fetcher[f] EXCEPT !.read = @ \ {i}]
  <2>1. fetcher' = [fetcher EXCEPT ![f] = s]
    BY <1>0, <1>3 DEF CountStored
  <2>2. s \in Progress /\ s.pc = "counts" /\ fetcher[f].pc = "counts"
    BY <1>0, <1>3 DEF CountStored, Progress, FetchState
  <2>. HIDE DEF s
  <2>. QED
    BY <2>1, <2>2, OneFetcher
<1>4. CASE CountFails(f, i)
  <2>. DEFINE c == [fetcher[f].count EXCEPT ![i] = 0]
              s == [fetcher[f] EXCEPT !.waiting = @ \ {i}, !.read = @ \ {i},
                                      !.failed = @ \cup {i}, !.count = c]
  <2>0. c \in [Instance -> 0..Cardinality(Item)]
    BY <1>0, Finite DEF Progress, FetchState
  <2>1. fetcher' = [fetcher EXCEPT ![f] = s]
    BY <1>0, <1>4 DEF CountFails
  <2>. HIDE DEF c
  <2>2. s \in FetchState /\ s.pc = "counts" /\ s.req = fetcher[f].req /\ s.rows = {}
        /\ s.waiting = fetcher[f].waiting \ {i} /\ s.read = fetcher[f].read \ {i}
        /\ s.failed = fetcher[f].failed \cup {i}
        /\ s.count = c
    BY <1>0, <1>4, <2>0 DEF CountFails, Progress, FetchState
  <2>. HIDE DEF s
  <2>3. \A j \in s.failed : s.count[j] = 0
    BY <1>0, <1>4, <2>2 DEF c, CountFails, Progress, FetchState
  <2>4. s \in Progress /\ s.pc = "counts"
    BY <1>0, <1>4, <2>2, <2>3 DEF CountFails, Progress
  <2>. HIDE DEF s
  <2>. QED
    BY <1>4, <2>1, <2>4, OneFetcher DEF CountFails
<1>. QED
  BY <1>1, <1>2, <1>3, <1>4

LEMMA SourcesAsked ==
  ASSUME TypeInv, NEW f \in Fetcher
  PROVE  Sources(f) \subseteq Asked(fetcher[f].req) /\ Asked(fetcher[f].req) \subseteq Instance
BY FetchingAssumption DEF FetchingAssumption, Sources, Asked, Planned, Active

LEMMA PlanMoves ==
  ASSUME TypeInv, NEW f \in Fetcher, Plan(f)
  PROVE  /\ fetcher' \in [Fetcher -> Progress]
         /\ \A g \in Fetcher \ {f} : fetcher'[g] = fetcher[g]
         /\ fetcher'[f].pc = "pages" /\ fetcher'[f].waiting = Planned(f)
         /\ fetcher'[f].rows = {} /\ fetcher'[f].req = fetcher[f].req
         /\ fetcher'[f].count = fetcher[f].count /\ fetcher[f].req.kind # "own"
<1>1. fetcher[f] \in Progress /\ fetcher \in [Fetcher -> Progress] /\ fetcher[f].pc = "counts"
  BY DEF TypeInv, Plan
<1>2. fetcher[f].req.kind # "own" /\ fetcher[f].rows = {} /\ fetcher[f].read = {}
  BY <1>1 DEF Plan, Progress
<1>3. Planned(f) \subseteq Instance /\ \A i \in Planned(f) : fetcher[f].count[i] # 0
  <2>1. \A i \in Instance : fetcher[f].count[i] > 0 => fetcher[f].count[i] # 0
    BY <1>1, Finite DEF Progress, FetchState
  <2>. QED
    BY <2>1 DEF Planned, Active
<1>4. Planned(f) \cap fetcher[f].failed = {}
  BY <1>1, <1>3 DEF Progress
<1>5. Asked(fetcher[f].req) = Instance
  BY <1>2 DEF Asked
<1>. DEFINE W == Planned(f)
            s == [fetcher[f] EXCEPT !.pc = "pages", !.waiting = W]
<1>6. fetcher' = [fetcher EXCEPT ![f] = s]
  BY <1>1 DEF Plan
<1>7. W \subseteq Instance /\ W \cap fetcher[f].failed = {}
  BY <1>3, <1>4
<1>. HIDE DEF W
<1>8. /\ s \in Progress /\ s.pc = "pages" /\ s.waiting = W /\ s.rows = {}
      /\ s.req = fetcher[f].req /\ s.count = fetcher[f].count
  BY <1>1, <1>2, <1>5, <1>7 DEF Progress, FetchState
<1>9. s.waiting = Planned(f)
  BY <1>8 DEF W
<1>. HIDE DEF s
<1>. QED
  BY <1>2, <1>6, <1>8, <1>9, OneFetcher

LEMMA PageReadMoves ==
  ASSUME TypeInv, NEW f \in Fetcher, NEW i \in Instance, PageRead(f, i)
  PROVE  /\ fetcher' \in [Fetcher -> Progress]
         /\ \A g \in Fetcher \ {f} : fetcher'[g] = fetcher[g]
         /\ fetcher[f].pc = "pages" /\ i \in fetcher[f].waiting /\ i \notin fetcher[f].failed
         /\ fetcher'[f].waiting = fetcher[f].waiting \ {i}
         /\ fetcher'[f].rows = fetcher[f].rows \cup
              PageOf(visible[i], Slice(f, i).offset, Slice(f, i).limit)
         /\ \A x \in {"pc", "req", "failed", "count", "still"} : fetcher'[f][x] = fetcher[f][x]
<1>. DEFINE R == PageOf(visible[i], Slice(f, i).offset, Slice(f, i).limit)
            s == [fetcher[f] EXCEPT !.waiting = @ \ {i}, !.rows = @ \cup R]
<1>1. fetcher[f] \in Progress /\ fetcher \in [Fetcher -> Progress] /\ fetcher[f].pc = "pages"
      /\ i \in fetcher[f].waiting
  BY DEF TypeInv, PageRead
<1>2. fetcher' = [fetcher EXCEPT ![f] = s]
  BY <1>1 DEF PageRead
<1>3. visible[i] \subseteq Within(fetcher[f].req) /\ visible[i] \in SUBSET Item
  <2>1. i \in Asked(fetcher[f].req)
    BY <1>1 DEF Progress
  <2>. QED
    BY <2>1 DEF Within, TypeInv
<1>4. R \subseteq Within(fetcher[f].req) /\ R \subseteq Item
  BY <1>3, SliceTyped
<1>5. i \notin fetcher[f].failed
  BY <1>1 DEF Progress
<1>. HIDE DEF R
<1>6. /\ s \in Progress /\ s.waiting = fetcher[f].waiting \ {i} /\ s.rows = fetcher[f].rows \cup R
      /\ \A x \in {"pc", "req", "failed", "count", "still"} : s[x] = fetcher[f][x]
  BY <1>1, <1>4 DEF Progress, FetchState
<1>7. s.rows = fetcher[f].rows \cup PageOf(visible[i], Slice(f, i).offset, Slice(f, i).limit)
  BY <1>6 DEF R
<1>. HIDE DEF s
<1>. QED
  BY <1>1, <1>2, <1>5, <1>6, <1>7, OneFetcher

LEMMA PageFailsMoves ==
  ASSUME TypeInv, NEW f \in Fetcher, NEW i \in Instance, PageFails(f, i)
  PROVE  /\ fetcher' \in [Fetcher -> Progress]
         /\ \A g \in Fetcher \ {f} : fetcher'[g] = fetcher[g]
         /\ fetcher[f].pc = "pages" /\ i \in fetcher[f].waiting
         /\ fetcher'[f].waiting = fetcher[f].waiting \ {i}
         /\ fetcher'[f].failed = fetcher[f].failed \cup {i}
         /\ \A x \in {"pc", "req", "rows", "count", "still"} : fetcher'[f][x] = fetcher[f][x]
<1>. DEFINE s == [fetcher[f] EXCEPT !.waiting = @ \ {i}, !.failed = @ \cup {i}]
<1>1. fetcher[f] \in Progress /\ fetcher \in [Fetcher -> Progress] /\ fetcher[f].pc = "pages"
      /\ i \in fetcher[f].waiting /\ fetcher[f].req.kind # "own"
  BY DEF TypeInv, PageFails
<1>2. fetcher' = [fetcher EXCEPT ![f] = s]
  BY <1>1 DEF PageFails
<1>3. /\ s \in FetchState /\ s.waiting = fetcher[f].waiting \ {i}
      /\ s.failed = fetcher[f].failed \cup {i} /\ s.read = fetcher[f].read
      /\ \A x \in {"pc", "req", "rows", "count", "still"} : s[x] = fetcher[f][x]
  <2>1. /\ s.waiting = fetcher[f].waiting \ {i}
        /\ s.failed = fetcher[f].failed \cup {i} /\ s.read = fetcher[f].read
        /\ s.pc = fetcher[f].pc /\ s.req = fetcher[f].req /\ s.rows = fetcher[f].rows
        /\ s.count = fetcher[f].count /\ s.still = fetcher[f].still
    BY <1>1 DEF Progress, FetchState
  <2>2. s \in FetchState
    BY <1>1 DEF Progress, FetchState
  <2>. QED
    BY <2>1, <2>2
<1>. HIDE DEF s
<1>4. /\ s.pc = fetcher[f].pc /\ s.req = fetcher[f].req /\ s.rows = fetcher[f].rows
  BY <1>3
<1>5. s \in Progress
  BY <1>1, <1>3, <1>4 DEF Progress
<1>. QED
  BY <1>1, <1>2, <1>3, <1>5, OneFetcher

LEMMA AnswerMoves ==
  ASSUME TypeInv, NEW f \in Fetcher, Answer(f)
  PROVE  /\ fetcher' \in [Fetcher -> Progress]
         /\ \A g \in Fetcher \ {f} : fetcher'[g] = fetcher[g]
         /\ fetcher[f].pc = "pages" /\ fetcher[f].waiting = {}
         /\ fetcher'[f].pc = "done" /\ fetcher'[f].req = fetcher[f].req
         /\ fetcher'[f].rows = Merged(f) /\ fetcher'[f].failed = fetcher[f].failed
         /\ fetcher'[f].still = Undisturbed(f) /\ Undisturbed(f) \in BOOLEAN
         /\ Merged(f) \in SUBSET Item /\ Merged(f) \subseteq Within(fetcher[f].req)
<1>. DEFINE M == Merged(f)
            U == Undisturbed(f)
            s == [Idle EXCEPT !.pc = "done", !.req = fetcher[f].req, !.rows = M,
                              !.failed = fetcher[f].failed, !.still = U]
<1>1. fetcher[f] \in Progress /\ fetcher \in [Fetcher -> Progress] /\ fetcher[f].pc = "pages"
      /\ fetcher[f].waiting = {}
  BY DEF TypeInv, Answer
<1>2. fetcher' = [fetcher EXCEPT ![f] = s]
  BY DEF Answer
<1>3. M \subseteq fetcher[f].rows
  BY DEF Merged, PageOf
<1>4. M \in SUBSET Item /\ M \subseteq Within(fetcher[f].req)
  BY <1>1, <1>3 DEF Progress, FetchState
<1>5. U \in BOOLEAN
  BY DEF Undisturbed
<1>6. M = Merged(f) /\ U = Undisturbed(f)
  OBVIOUS
<1>. HIDE DEF M, U
<1>7. /\ s \in Progress /\ s.pc = "done" /\ s.req = fetcher[f].req /\ s.rows = M
      /\ s.failed = fetcher[f].failed /\ s.still = U
  BY <1>1, <1>4, <1>5, IdleTyped DEF Progress, FetchState
<1>. HIDE DEF s
<1>. QED
  BY <1>1, <1>2, <1>4, <1>5, <1>6, <1>7, OneFetcher

LEMMA AbandonMoves ==
  ASSUME TypeInv, NEW f \in Fetcher, Abandon(f)
  PROVE  /\ fetcher' \in [Fetcher -> Progress]
         /\ \A g \in Fetcher \ {f} : fetcher'[g] = fetcher[g]
         /\ fetcher'[f].pc = "idle"
<1>1. fetcher' = [fetcher EXCEPT ![f] = Idle]
  BY DEF Abandon
<1>. QED
  BY <1>1, IdleTyped, OneFetcher

\* A change ends the rest of every request in flight, and of every page.
LEMMA DisturbedMoves ==
  ASSUME TypeInv, NEW i \in Instance, NEW mark \in {"after", "lost"}, Disturbed(i, mark)
  PROVE  /\ fetcher' \in [Fetcher -> Progress]
         /\ \A f \in Fetcher :
              /\ fetcher'[f].pc = fetcher[f].pc /\ fetcher'[f].req = fetcher[f].req
              /\ fetcher'[f].waiting = fetcher[f].waiting /\ fetcher'[f].count = fetcher[f].count
              /\ fetcher[f].pc # "idle" => fetcher'[f].still = FALSE
         /\ DOMAIN pages' = DOMAIN pages
         /\ \A r \in DOMAIN pages :
              /\ pages'[r] \in PageState /\ pages'[r].rows = pages[r].rows
              /\ pages'[r].still = FALSE
<1>1. fetcher \in [Fetcher -> Progress] /\ \A r \in DOMAIN pages : pages[r] \in PageState
  BY DEF TypeInv
<1>2. ASSUME NEW f \in Fetcher
      PROVE  /\ fetcher'[f] \in Progress
             /\ fetcher'[f].pc = fetcher[f].pc /\ fetcher'[f].req = fetcher[f].req
             /\ fetcher'[f].waiting = fetcher[f].waiting /\ fetcher'[f].count = fetcher[f].count
             /\ fetcher[f].pc # "idle" => fetcher'[f].still = FALSE
  <2>. DEFINE b == fetcher[f].own \/ i = Self
              s == [fetcher[f] EXCEPT !.still = FALSE, !.own = b]
  <2>1. fetcher[f] \in Progress /\ b \in BOOLEAN
    BY <1>1
  <2>2. fetcher'[f] = IF fetcher[f].pc = "idle" THEN fetcher[f] ELSE s
    BY DEF Disturbed
  <2>. HIDE DEF b
  <2>3. /\ s \in Progress /\ s.pc = fetcher[f].pc /\ s.req = fetcher[f].req
        /\ s.waiting = fetcher[f].waiting /\ s.count = fetcher[f].count /\ s.still = FALSE
    BY <2>1 DEF Progress, FetchState
  <2>. HIDE DEF s
  <2>. QED
    BY <2>1, <2>2, <2>3
<1>3. fetcher' \in [Fetcher -> Progress]
  <2>1. fetcher' = [f \in Fetcher |-> fetcher'[f]]
    BY DEF Disturbed
  <2>. QED
    BY <1>2, <2>1
<1>4. DOMAIN pages' = DOMAIN pages
  BY DEF Disturbed
<1>5. ASSUME NEW r \in DOMAIN pages
      PROVE  /\ pages'[r] \in PageState /\ pages'[r].rows = pages[r].rows
             /\ pages'[r].still = FALSE
  <2>1. pages'[r] = [pages[r] EXCEPT !.still = FALSE,
                       !.own = IF i = Self /\ @ = "none" THEN mark ELSE @]
    BY DEF Disturbed
  <2>. QED
    BY <1>1, <2>1 DEF PageState
<1>. QED
  BY <1>2, <1>3, <1>4, <1>5

\* What each step of the sweeps and of Redis makes of the pages: pages leave, or
\* lose the hope of a sweep.
LEMMA PagesLeave ==
  ASSUME TypeInv, NEW S, S \subseteq DOMAIN pages, pages' = Restrict(pages, S)
  PROVE  /\ DOMAIN pages' \subseteq DOMAIN pages
         /\ \A r \in DOMAIN pages' : pages'[r] = pages[r]
  BY RestrictFacts

LEMMA SweepLostMoves ==
  ASSUME TypeInv, NEW w \in Writer, SweepLost(w)
  PROVE  /\ DOMAIN pages' = DOMAIN pages
         /\ \A r \in DOMAIN pages :
              /\ pages'[r] \in PageState /\ pages'[r].rows = pages[r].rows
              /\ pages'[r].still = pages[r].still
              /\ pages'[r].own = "after" =>
                   pages[r].own = "after" /\ "item-page" \notin owed[w]
<1>1. DOMAIN pages' = DOMAIN pages
  BY DEF SweepLost
<1>2. ASSUME NEW r \in DOMAIN pages
      PROVE  /\ pages'[r] \in PageState /\ pages'[r].rows = pages[r].rows
             /\ pages'[r].still = pages[r].still
             /\ pages'[r].own = "after" =>
                  pages[r].own = "after" /\ "item-page" \notin owed[w]
  <2>1. pages'[r] = [pages[r] EXCEPT
          !.own = IF @ = "after" /\ "item-page" \in owed[w] THEN "lost" ELSE @]
    BY DEF SweepLost
  <2>2. pages[r] \in PageState
    BY DEF TypeInv
  <2>. QED
    BY <2>1, <2>2 DEF PageState
<1>. QED
  BY <1>1, <1>2

LEMMA AnswerPages ==
  ASSUME TypeInv, NEW f \in Fetcher, Answer(f)
  PROVE  \/ pages' = pages
         \/ /\ Cacheable(f) /\ DOMAIN pages' = DOMAIN pages \cup {fetcher[f].req}
            /\ \A r \in DOMAIN pages \ {fetcher[f].req} : pages'[r] = pages[r]
            /\ pages'[fetcher[f].req] \in PageState
            /\ pages'[fetcher[f].req].rows = Merged(f)
            /\ pages'[fetcher[f].req].still = Undisturbed(f)
            /\ pages'[fetcher[f].req].own # "after"
<1>. DEFINE page == [rows |-> Merged(f), still |-> Undisturbed(f),
                     own |-> IF fetcher[f].own THEN "during" ELSE "none"]
<1>1. page \in PageState /\ page.own # "after"
  BY AnswerMoves DEF PageState
<1>2. pages' = IF Cacheable(f) THEN Cached(pages, fetcher[f].req, page) ELSE pages
  BY DEF Answer
<1>3. page.rows = Merged(f) /\ page.still = Undisturbed(f)
  OBVIOUS
<1>. HIDE DEF page
<1>4. CASE Cacheable(f)
  <2>1. /\ DOMAIN pages' = DOMAIN pages \cup {fetcher[f].req}
        /\ \A r \in DOMAIN pages \ {fetcher[f].req} : pages'[r] = pages[r]
        /\ pages'[fetcher[f].req] = page
    BY <1>2, <1>4 DEF Cached
  <2>. QED
    BY <1>1, <1>3, <1>4, <2>1
<1>. QED
  BY <1>2, <1>4

\* The items of a change stay at home.
LEMMA ToggledTyped ==
  ASSUME TypeInv, NEW x \in Item, visible' = Toggled(x)
  PROVE  /\ visible' \in [Instance -> SUBSET Item]
         /\ \A i \in Instance : \A y \in visible'[i] : Home[y] = i
<1>1. Home[x] \in Instance
  BY FetchingAssumption DEF FetchingAssumption
<1>. QED
  BY <1>1 DEF TypeInv, Toggled

\* The counts are within the number of items, whatever was stored or deleted.
LEMMA CountsTyped ==
  ASSUME TypeInv, Next
  PROVE  \A k \in DOMAIN counted' : k \in Instance \X Nat /\ counted'[k] \in 0..Cardinality(Item)
<1>1. ASSUME NEW S, S \subseteq DOMAIN counted, counted' = Restrict(counted, S)
      PROVE  \A k \in DOMAIN counted' : k \in Instance \X Nat /\ counted'[k] \in 0..Cardinality(Item)
  <2>1. DOMAIN counted' = S /\ \A k \in S : counted'[k] = counted[k]
    BY <1>1, RestrictFacts
  <2>. QED
    BY <1>1, <2>1 DEF TypeInv
<1>2. CASE \E f \in Fetcher, i \in Instance : CountStored(f, i)
  <2>1. PICK f \in Fetcher, i \in Instance : CountStored(f, i)
    BY <1>2
  <2>. DEFINE k == CountKey(i, fetcher[f].req)
              v == fetcher[f].count[i]
  <2>2. k \in Instance \X Nat /\ v \in 0..Cardinality(Item)
    BY FetchingAssumption DEF FetchingAssumption, TypeInv, Progress, FetchState, CountKey
  <2>3. counted' = Cached(counted, k, v)
    BY <2>1 DEF CountStored
  <2>. HIDE DEF k, v
  <2>4. DOMAIN counted' = DOMAIN counted \cup {k} /\ counted'[k] = v
        /\ \A x \in DOMAIN counted \ {k} : counted'[x] = counted[x]
    BY <2>3 DEF Cached
  <2>. QED
    BY <2>2, <2>4 DEF TypeInv
<1>3. CASE \E w \in Writer : SweepCounts(w)
  <2>1. counted' = Restrict(counted, {})
    BY <1>3 DEF SweepCounts
  <2>. QED
    BY <1>1, <2>1
<1>4. CASE \E k \in DOMAIN counted : ExpireCount(k)
  <2>1. PICK k \in DOMAIN counted : counted' = Restrict(counted, DOMAIN counted \ {k})
    BY <1>4 DEF ExpireCount
  <2>. QED
    BY <1>1, <2>1
<1>5. CASE counted' = counted
  BY <1>5 DEF TypeInv
<1>6. \/ \E f \in Fetcher, i \in Instance : CountStored(f, i)
      \/ \E w \in Writer : SweepCounts(w)
      \/ \E k \in DOMAIN counted : ExpireCount(k)
      \/ counted' = counted
  <2>1. CASE \E f \in Fetcher :
               \/ \E r \in Request : Hit(f, r) \/ Miss(f, r)
               \/ \E i \in Instance : \/ CountHit(f, i) \/ CountRead(f, i) \/ CountStored(f, i)
                                      \/ CountFails(f, i) \/ PageRead(f, i) \/ PageFails(f, i)
               \/ Plan(f) \/ Answer(f) \/ Abandon(f)
    <3>1. PICK f \in Fetcher :
            \/ \E r \in Request : Hit(f, r) \/ Miss(f, r)
            \/ \E i \in Instance : \/ CountHit(f, i) \/ CountRead(f, i) \/ CountStored(f, i)
                                   \/ CountFails(f, i) \/ PageRead(f, i) \/ PageFails(f, i)
            \/ Plan(f) \/ Answer(f) \/ Abandon(f)
      BY <2>1
    <3>2. CASE \E r \in Request : Hit(f, r) \/ Miss(f, r)
      BY <3>2 DEF Hit, Miss
    <3>3. CASE \E i \in Instance : CountHit(f, i) \/ CountRead(f, i) \/ CountFails(f, i)
      BY <3>3 DEF CountHit, CountRead, CountFails
    <3>4. CASE \E i \in Instance : PageRead(f, i) \/ PageFails(f, i)
      BY <3>4 DEF PageRead, PageFails
    <3>5. CASE Plan(f) \/ Answer(f) \/ Abandon(f)
      BY <3>5 DEF Plan, Answer, Abandon
    <3>. QED
      BY <3>1, <3>2, <3>3, <3>4, <3>5
  <2>2. CASE \E w \in Writer :
               \/ \E x \in Item : Commit(w, x)
               \/ SweepCounts(w) \/ SweepPages(w) \/ SweepLost(w)
    BY <2>2 DEF Commit, SweepPages, SweepLost
  <2>3. CASE (\E x \in Item : CommitUnswept(x)) \/ \E r \in Request : ExpirePage(r)
    BY <2>3 DEF CommitUnswept, ExpirePage
  <2>. QED
    BY <2>1, <2>2, <2>3 DEF Next
<1>. QED
  BY <1>2, <1>3, <1>4, <1>5, <1>6

\* The steps that leave every page as it was.
PagesSame ==
  \/ \E f \in Fetcher :
       \/ \E r \in Request : Hit(f, r) \/ Miss(f, r)
       \/ \E i \in Instance : CountHit(f, i) \/ CountRead(f, i) \/ CountStored(f, i) \/ CountFails(f, i)
       \/ \E i \in Instance : PageRead(f, i) \/ PageFails(f, i)
       \/ Plan(f) \/ Abandon(f)
  \/ \E w \in Writer : SweepCounts(w)
  \/ \E k \in DOMAIN counted : ExpireCount(k)

\* The steps that take no part in any request.
FetchersSame ==
  \/ \E w \in Writer : SweepCounts(w) \/ SweepPages(w) \/ SweepLost(w)
  \/ \E k \in DOMAIN counted : ExpireCount(k)
  \/ \E r \in Request : ExpirePage(r)

\* A change of an item, whoever made it.
Changed ==
  \E x \in Item, mark \in {"after", "lost"} : visible' = Toggled(x) /\ Disturbed(Home[x], mark)

LEMMA PagesFrame ==
  PagesSame => /\ pages' = pages /\ visible' = visible /\ commits' = commits
               /\ \/ owed' = owed
                  \/ \E w \in Writer : owed' = [owed EXCEPT ![w] = @ \ {"item-count"}]
<1>1. ASSUME NEW f \in Fetcher,
             \/ \E r \in Request : Hit(f, r) \/ Miss(f, r)
             \/ \E i \in Instance : PageRead(f, i) \/ PageFails(f, i)
             \/ Plan(f) \/ Abandon(f)
      PROVE  pages' = pages /\ visible' = visible /\ commits' = commits /\ owed' = owed
  BY <1>1 DEF Hit, Miss, PageRead, PageFails, Plan, Abandon
<1>2. ASSUME NEW f \in Fetcher, NEW i \in Instance,
             CountHit(f, i) \/ CountRead(f, i) \/ CountStored(f, i) \/ CountFails(f, i)
      PROVE  pages' = pages /\ visible' = visible /\ commits' = commits /\ owed' = owed
  BY <1>2 DEF CountHit, CountRead, CountStored, CountFails
<1>3. ASSUME NEW k \in DOMAIN counted, ExpireCount(k)
      PROVE  pages' = pages /\ visible' = visible /\ commits' = commits /\ owed' = owed
  BY <1>3 DEF ExpireCount
<1>4. ASSUME NEW w \in Writer, SweepCounts(w)
      PROVE  /\ pages' = pages /\ visible' = visible /\ commits' = commits
             /\ owed' = [owed EXCEPT ![w] = @ \ {"item-count"}]
  BY <1>4 DEF SweepCounts
<1>. QED
  BY <1>1, <1>2, <1>3, <1>4 DEF PagesSame

LEMMA FetchersFrame ==
  FetchersSame => fetcher' = fetcher /\ visible' = visible
BY DEF FetchersSame, SweepCounts, SweepPages, SweepLost, ExpireCount, ExpirePage

LEMMA ChangeFrame ==
  ASSUME (\E w \in Writer, x \in Item : Commit(w, x)) \/ \E x \in Item : CommitUnswept(x)
  PROVE  Changed
<1>1. ASSUME NEW w \in Writer, NEW x \in Item, Commit(w, x)
      PROVE  Changed
  BY <1>1 DEF Commit, Changed
<1>2. ASSUME NEW x \in Item, CommitUnswept(x)
      PROVE  Changed
  BY <1>2 DEF CommitUnswept, Changed
<1>. QED
  BY <1>1, <1>2

\* A step leaves the pages alone, answers, changes an item, or takes pages out.
LEMMA StepKinds ==
  ASSUME Next
  PROVE  \/ PagesSame
         \/ \E f \in Fetcher : Answer(f)
         \/ (\E w \in Writer, x \in Item : Commit(w, x)) \/ \E x \in Item : CommitUnswept(x)
         \/ (\E w \in Writer : SweepPages(w) \/ SweepLost(w)) \/ \E r \in Request : ExpirePage(r)
BY DEF Next, PagesSame

\* A step leaves the requests alone, changes an item, or moves one request.
LEMMA FetcherKinds ==
  ASSUME Next
  PROVE  \/ FetchersSame
         \/ (\E w \in Writer, x \in Item : Commit(w, x)) \/ \E x \in Item : CommitUnswept(x)
         \/ \E f \in Fetcher :
              \/ \E r \in Request : Hit(f, r) \/ Miss(f, r)
              \/ \E i \in Instance :
                   CountHit(f, i) \/ CountRead(f, i) \/ CountStored(f, i) \/ CountFails(f, i)
              \/ \E i \in Instance : PageRead(f, i) \/ PageFails(f, i)
              \/ Plan(f) \/ Answer(f) \/ Abandon(f)
BY DEF Next, FetchersSame

LEMMA FetchersTyped ==
  ASSUME TypeInv, Next
  PROVE  fetcher' \in [Fetcher -> Progress]
<1>1. CASE FetchersSame
  BY <1>1, FetchersFrame DEF TypeInv
<1>2. CASE (\E w \in Writer, x \in Item : Commit(w, x)) \/ \E x \in Item : CommitUnswept(x)
  <2>1. PICK x \in Item, mark \in {"after", "lost"} : Disturbed(Home[x], mark)
    BY <1>2, ChangeFrame DEF Changed
  <2>2. Home[x] \in Instance
    BY FetchingAssumption DEF FetchingAssumption
  <2>. QED
    BY <2>1, <2>2, DisturbedMoves
<1>3. ASSUME NEW f \in Fetcher, NEW r \in Request, Hit(f, r) \/ Miss(f, r)
      PROVE  fetcher' \in [Fetcher -> Progress]
  BY <1>3, HitMoves, MissMoves
<1>4. ASSUME NEW f \in Fetcher, NEW i \in Instance,
             CountHit(f, i) \/ CountRead(f, i) \/ CountStored(f, i) \/ CountFails(f, i)
      PROVE  fetcher' \in [Fetcher -> Progress]
  BY <1>4, CountMoves
<1>5. ASSUME NEW f \in Fetcher, NEW i \in Instance, PageRead(f, i) \/ PageFails(f, i)
      PROVE  fetcher' \in [Fetcher -> Progress]
  BY <1>5, PageReadMoves, PageFailsMoves
<1>6. ASSUME NEW f \in Fetcher, Plan(f) \/ Answer(f) \/ Abandon(f)
      PROVE  fetcher' \in [Fetcher -> Progress]
  BY <1>6, PlanMoves, AnswerMoves, AbandonMoves
<1>. QED
  BY <1>1, <1>2, <1>3, <1>4, <1>5, <1>6, FetcherKinds

LEMMA PagesTyped ==
  ASSUME TypeInv, Next
  PROVE  /\ DOMAIN pages' \subseteq Request
         /\ \A r \in DOMAIN pages' : pages'[r] \in PageState /\ pages'[r].rows \subseteq Within(r)
<1>1. CASE PagesSame
  BY <1>1, PagesFrame DEF TypeInv
<1>2. ASSUME NEW f \in Fetcher, Answer(f)
      PROVE  /\ DOMAIN pages' \subseteq Request
             /\ \A r \in DOMAIN pages' : pages'[r] \in PageState /\ pages'[r].rows \subseteq Within(r)
  <2>. DEFINE r == fetcher[f].req
  <2>1. r \in Request
    BY DEF TypeInv, Progress, FetchState
  <2>2. CASE pages' = pages
    BY <2>2 DEF TypeInv
  <2>3. CASE pages' # pages
    <3>1. /\ DOMAIN pages' = DOMAIN pages \cup {r}
          /\ \A q \in DOMAIN pages \ {r} : pages'[q] = pages[q]
          /\ pages'[r] \in PageState /\ pages'[r].rows = Merged(f)
      BY <1>2, <2>3, AnswerPages
    <3>2. Merged(f) \subseteq Within(r)
      BY <1>2, AnswerMoves
    <3>. QED
      BY <2>1, <3>1, <3>2 DEF TypeInv
  <2>. QED
    BY <2>2, <2>3
<1>3. CASE (\E w \in Writer, x \in Item : Commit(w, x)) \/ \E x \in Item : CommitUnswept(x)
  <2>1. PICK x \in Item, mark \in {"after", "lost"} : Disturbed(Home[x], mark)
    BY <1>3, ChangeFrame DEF Changed
  <2>2. Home[x] \in Instance
    BY FetchingAssumption DEF FetchingAssumption
  <2>3. /\ DOMAIN pages' = DOMAIN pages
        /\ \A r \in DOMAIN pages : pages'[r] \in PageState /\ pages'[r].rows = pages[r].rows
    BY <2>1, <2>2, DisturbedMoves
  <2>. QED
    BY <2>3 DEF TypeInv
<1>4. ASSUME NEW w \in Writer, SweepLost(w)
      PROVE  /\ DOMAIN pages' \subseteq Request
             /\ \A r \in DOMAIN pages' : pages'[r] \in PageState /\ pages'[r].rows \subseteq Within(r)
  <2>1. /\ DOMAIN pages' = DOMAIN pages
        /\ \A r \in DOMAIN pages : pages'[r] \in PageState /\ pages'[r].rows = pages[r].rows
    BY <1>4, SweepLostMoves
  <2>. QED
    BY <2>1 DEF TypeInv
<1>5. ASSUME (\E w \in Writer : SweepPages(w)) \/ \E r \in Request : ExpirePage(r)
      PROVE  /\ DOMAIN pages' \subseteq Request
             /\ \A r \in DOMAIN pages' : pages'[r] \in PageState /\ pages'[r].rows \subseteq Within(r)
  <2>1. \E S \in SUBSET DOMAIN pages : pages' = Restrict(pages, S)
    <3>1. CASE \E w \in Writer : SweepPages(w)
      BY <3>1 DEF SweepPages
    <3>2. CASE \E r \in Request : ExpirePage(r)
      BY <3>2 DEF ExpirePage
    <3>. QED
      BY <1>5, <3>1, <3>2
  <2>2. DOMAIN pages' \subseteq DOMAIN pages /\ \A r \in DOMAIN pages' : pages'[r] = pages[r]
    BY <2>1, PagesLeave
  <2>. QED
    BY <2>2 DEF TypeInv
<1>. QED
  BY <1>1, <1>2, <1>3, <1>4, <1>5, StepKinds

LEMMA SmallTyped ==
  ASSUME TypeInv, Next
  PROVE  /\ visible' \in [Instance -> SUBSET Item]
         /\ \A i \in Instance : \A x \in visible'[i] : Home[x] = i
         /\ owed' \in [Writer -> SUBSET Families]
         /\ commits' \in 0..MaxCommits
<1>1. CASE PagesSame
  BY <1>1, PagesFrame DEF TypeInv
<1>2. CASE \E f \in Fetcher : Answer(f)
  BY <1>2 DEF Answer, TypeInv
<1>3. ASSUME NEW w \in Writer, NEW x \in Item, Commit(w, x)
      PROVE  /\ visible' = Toggled(x) /\ owed' \in [Writer -> SUBSET Families]
             /\ commits' \in 0..MaxCommits
  BY <1>3, FetchingAssumption DEF FetchingAssumption, Commit, TypeInv
<1>4. ASSUME NEW x \in Item, CommitUnswept(x)
      PROVE  /\ visible' = Toggled(x) /\ owed' \in [Writer -> SUBSET Families]
             /\ commits' \in 0..MaxCommits
  BY <1>4, FetchingAssumption DEF FetchingAssumption, CommitUnswept, TypeInv
<1>5. CASE (\E w \in Writer : SweepPages(w) \/ SweepLost(w)) \/ \E r \in Request : ExpirePage(r)
  BY <1>5 DEF SweepPages, SweepLost, ExpirePage, TypeInv
<1>. QED
  BY <1>1, <1>2, <1>3, <1>4, <1>5, StepKinds, ToggledTyped

LEMMA TypesKept ==
  ASSUME TypeInv, [Next]_vars
  PROVE  TypeInv'
<1>1. CASE Next
  BY <1>1, FetchersTyped, PagesTyped, SmallTyped, CountsTyped DEF TypeInv
<1>2. CASE UNCHANGED vars
  BY <1>2 DEF vars, TypeInv
<1>. QED
  BY <1>1, <1>2

LEMMA TypeInvariant == Spec => []TypeInv
<1>1. Init => TypeInv
  BY InitTypes
<1>2. TypeInv /\ [Next]_vars => TypeInv'
  BY TypesKept
<1>. QED
  BY <1>1, <1>2, PTL DEF Spec

\* Spec keeps TypeOK: whatever is read, cached, swept and lost, a request and a
\* page hold items of the instances they are asked of, and an instance that
\* failed is not asked again.
THEOREM FetchingTypes == Spec => []TypeOK
<1>1. TypeInv => TypeOK
  <2>. SUFFICES ASSUME TypeInv PROVE TypeOK
    OBVIOUS
  <2>1. ASSUME NEW f \in Fetcher
        PROVE  fetcher[f] \in Progress
    BY DEF TypeInv
  <2>2. ASSUME NEW s \in Progress
        PROVE  /\ s.pc \in {"idle", "counts", "pages", "done"}
               /\ s.req \in Request
               /\ s.waiting \cup s.read \cup s.failed \subseteq Asked(s.req)
               /\ s.waiting \cap (s.read \cup s.failed) = {}
               /\ s.read \cap s.failed = {}
               /\ s.count \in [Instance -> 0..Cardinality(Item)]
               /\ s.rows \subseteq {x \in Item : Home[x] \in Asked(s.req)}
               /\ s.still \in BOOLEAN
               /\ s.own \in BOOLEAN
    BY DEF Progress, FetchState, Within
  <2>3. \A r \in DOMAIN pages :
           /\ pages[r].rows \subseteq {x \in Item : Home[x] \in Asked(r)}
           /\ pages[r].still \in BOOLEAN
           /\ pages[r].own \in {"none", "during", "after", "lost"}
    BY DEF TypeInv, PageState, Within
  <2>. QED
    BY <2>1, <2>2, <2>3 DEF TypeInv, TypeOK
<1>. QED
  BY <1>1, TypeInvariant, PTL

-----------------------------------------------------------------------------
(* The sweep that a page still awaits.                                     *)

LEMMA SweptKept ==
  ASSUME TypeInv, SweptAfterCommit, Next
  PROVE  SweptAfterCommit'
<1>. DEFINE Owed == \E w \in Writer : "item-page" \in owed'[w]
<1>0. SUFFICES ASSUME NEW r \in DOMAIN pages', r.kind = "item", pages'[r].own = "after"
               PROVE  \E w \in Writer : "item-page" \in owed'[w]
  BY DEF SweptAfterCommit
<1>1. CASE PagesSame
  <2>1. PICK w \in Writer : "item-page" \in owed[w]
    BY <1>0, <1>1, PagesFrame DEF SweptAfterCommit
  <2>2. "item-page" \in owed'[w]
    BY <1>1, <2>1, PagesFrame DEF TypeInv
  <2>. QED
    BY <2>2
<1>2. ASSUME NEW f \in Fetcher, Answer(f)
      PROVE  Owed
  <2>1. owed' = owed
    BY <1>2 DEF Answer
  <2>2. r \in DOMAIN pages /\ pages'[r] = pages[r]
    BY <1>0, <1>2, AnswerPages
  <2>. QED
    BY <1>0, <2>1, <2>2 DEF SweptAfterCommit
<1>3. ASSUME NEW w \in Writer, NEW x \in Item, Commit(w, x)
      PROVE  Owed
  BY <1>3 DEF Commit, TypeInv, Families
<1>4. ASSUME NEW x \in Item, CommitUnswept(x)
      PROVE  Owed
  <2>1. owed' = owed /\ Disturbed(Home[x], "lost")
    BY <1>4 DEF CommitUnswept
  <2>2. r \in DOMAIN pages /\ pages[r] \in PageState
    BY <2>1 DEF TypeInv, Disturbed
  <2>3. pages'[r] = [pages[r] EXCEPT !.still = FALSE,
                       !.own = IF Home[x] = Self /\ @ = "none" THEN "lost" ELSE @]
    BY <2>1, <2>2 DEF Disturbed
  <2>4. pages[r].own = "after"
    BY <1>0, <2>2, <2>3 DEF PageState
  <2>. QED
    BY <1>0, <2>1, <2>2, <2>4 DEF SweptAfterCommit
<1>5. ASSUME NEW w \in Writer, SweepPages(w)
      PROVE  FALSE
  <2>1. pages' = Restrict(pages, DOMAIN pages \ Swept)
    BY <1>5 DEF SweepPages
  <2>2. DOMAIN pages' = DOMAIN pages \ Swept
    BY <2>1, RestrictFacts
  <2>. QED
    BY <1>0, <2>2 DEF Swept, TypeInv
<1>6. ASSUME NEW w \in Writer, SweepLost(w)
      PROVE  Owed
  <2>1. r \in DOMAIN pages /\ pages[r].own = "after" /\ "item-page" \notin owed[w]
    BY <1>0, <1>6, SweepLostMoves
  <2>2. PICK v \in Writer : "item-page" \in owed[v]
    BY <1>0, <2>1 DEF SweptAfterCommit
  <2>3. "item-page" \in owed'[v]
    BY <1>6, <2>1, <2>2 DEF SweepLost, TypeInv
  <2>. QED
    BY <2>3
<1>7. ASSUME NEW q \in Request, ExpirePage(q)
      PROVE  Owed
  <2>1. owed' = owed /\ pages' = Restrict(pages, DOMAIN pages \ {q})
    BY <1>7 DEF ExpirePage
  <2>2. r \in DOMAIN pages /\ pages'[r] = pages[r]
    BY <2>1, RestrictFacts
  <2>. QED
    BY <1>0, <2>1, <2>2 DEF SweptAfterCommit
<1>. QED
  BY <1>1, <1>2, <1>3, <1>4, <1>5, <1>6, <1>7, StepKinds

\* Spec keeps SweptAfterCommit: however reads, sweeps and expiry interleave, a
\* page of items that was complete when an item of Self changed is left in
\* Redis only while a writer still owes the sweep, or where nobody owes one.
THEOREM SweptTheorem == Spec => []SweptAfterCommit
<1>1. Init => SweptAfterCommit
  BY DEF Init, SweptAfterCommit
<1>2. TypeInv /\ SweptAfterCommit /\ [Next]_vars => SweptAfterCommit'
  <2>1. ASSUME TypeInv, SweptAfterCommit, UNCHANGED vars
        PROVE  SweptAfterCommit'
    BY <2>1 DEF vars, SweptAfterCommit
  <2>. QED
    BY <2>1, SweptKept
<1>. QED
  BY <1>1, <1>2, TypeInvariant, PTL DEF Spec

-----------------------------------------------------------------------------
(* The page of a request is the page of the whole.                         *)

\* The rows a request gathers depend on its record and on what is visible.
LEMMA SlicesKept ==
  ASSUME NEW f \in Fetcher, fetcher'[f].req = fetcher[f].req, fetcher'[f].count = fetcher[f].count
  PROVE  /\ Sources(f)' = Sources(f)
         /\ \A i \in Instance : Slice(f, i)' = Slice(f, i)
<1>1. Active(f)' = Active(f)
  BY DEF Active
<1>2. Planned(f)' = Planned(f)
  BY <1>1 DEF Planned
<1>. QED
  BY <1>1, <1>2 DEF Sources, Slice

LEMMA SelfKept ==
  ASSUME NEW f \in Fetcher, fetcher'[f] = fetcher[f], visible' = visible,
         Gathered(f), Answered(f), TypeInv
  PROVE  Gathered(f)' /\ Answered(f)'
<1>1. Sources(f)' = Sources(f) /\ \A i \in Instance : Slice(f, i)' = Slice(f, i)
  BY SlicesKept
<1>2. Sources(f) \subseteq Instance
  BY SourcesAsked
<1>3. Gathered(f)'
  BY <1>1, <1>2 DEF Gathered
<1>4. Answered(f)'
  BY DEF Answered, Whole
<1>. QED
  BY <1>3, <1>4

\* Nothing comes before the page of an empty list, and no row after its end.
LEMMA EmptyPage ==
  ASSUME NEW o \in Nat, NEW l \in Nat
  PROVE  PageOf({}, o, l) = {}
BY DEF PageOf

\* The page of a list of n rows is what the slice of the only instance with
\* rows selects, when it starts before the end, and empty when it does not.
LEMMA OnlyPage ==
  ASSUME NEW S, IsFiniteSet(S), S \subseteq Nat, NEW o \in Nat, NEW l \in Nat,
         NEW n \in Nat, n = Cardinality(S)
  PROVE  /\ ~(o < n) => PageOf(S, o, l) = {}
         /\ o < n => PageOf(S, o, (IF o + l < n THEN o + l ELSE n) - o) = PageOf(S, o, l)
<1>1. ASSUME NEW x \in S
      PROVE  Cardinality(Above(S, x)) \in Nat /\ Cardinality(Above(S, x)) < n
  BY AboveFacts
<1>2. ASSUME ~(o < n), NEW x \in S
      PROVE  ~(o <= Cardinality(Above(S, x)))
  BY <1>1, <1>2
<1>3. ASSUME o < n, NEW x \in S
      PROVE  LET m == (IF o + l < n THEN o + l ELSE n) - o
             IN Cardinality(Above(S, x)) < o + m <=> Cardinality(Above(S, x)) < o + l
  BY <1>1, <1>3
<1>4. ~(o < n) => PageOf(S, o, l) = {}
  BY <1>2, PageFacts
<1>5. o < n => PageOf(S, o, (IF o + l < n THEN o + l ELSE n) - o) = PageOf(S, o, l)
  BY <1>3, PageFacts
<1>. QED
  BY <1>4, <1>5

LEMMA WholeTyped ==
  ASSUME TypeInv, NEW I \in SUBSET Instance
  PROVE  Whole(I) \in SUBSET Item
BY DEF TypeInv, Whole

\* A right page is right, and so is one cut out of a part of the whole.
LEMMA ExactIsRight ==
  ASSUME NEW S, IsFiniteSet(S), S \subseteq Nat, NEW r \in Request
  PROVE  RightPage(PageOf(S, r.offset, Limit), r, S)
<1>1. r.offset \in Nat /\ Limit \in Nat
  BY FetchingAssumption DEF FetchingAssumption
<1>2. PageOf(S, r.offset, Limit) \subseteq PageOf(S, r.offset, Cardinality(S))
  BY <1>1, MergeRepeatsNone
<1>. QED
  BY <1>2 DEF RightPage

\* An answer that no change overlapped is right: of its own list, of the only
\* instance with rows, and of the heads of several, clamped or not.
LEMMA AnswerExact ==
  ASSUME TypeInv, NEW f \in Fetcher, Gathered(f), fetcher[f].pc = "pages",
         fetcher[f].waiting = {}, Undisturbed(f)
  PROVE  RightPage(Merged(f), fetcher[f].req, Whole(Asked(fetcher[f].req) \ fetcher[f].failed))
<1>. DEFINE s == fetcher[f]
            o == s.req.offset
            up == Instance \ s.failed
            asked == Whole(Asked(s.req) \ s.failed)
            got == UNION {PageOf(visible[i], Slice(f, i).offset, Slice(f, i).limit) :
                            i \in Sources(f) \ s.failed}
<1>1. /\ s \in Progress /\ s.req \in Request /\ o \in Nat /\ Limit \in Nat
      /\ s.count \in [Instance -> Nat] /\ s.failed \in SUBSET Instance
  BY FetchingAssumption, Finite DEF FetchingAssumption, TypeInv, Progress, FetchState
<1>2. s.rows = got
  BY DEF Gathered, Undisturbed
<1>5. Merged(f) = PageOf(asked, o, Limit) => RightPage(Merged(f), s.req, asked)
  <2>1. Asked(s.req) \ s.failed \in SUBSET Instance
    BY FetchingAssumption DEF FetchingAssumption, Asked
  <2>2. asked \in SUBSET Item
    BY <2>1, WholeTyped
  <2>3. IsFiniteSet(asked) /\ asked \subseteq Nat
    BY <2>2, Finite
  <2>. HIDE DEF asked
  <2>. QED
    BY <1>1, <2>3, ExactIsRight
<1>3. CASE s.req.kind = "own"
  <2>1. s.failed = {} /\ Asked(s.req) = {Self} /\ Sources(f) = {Self}
    BY <1>1, <1>3 DEF Progress, Asked, Sources
  <2>2. Slice(f, Self).offset = o /\ Slice(f, Self).limit = Limit
    BY <1>3 DEF Slice, OwnSlice
  <2>3. Merged(f) = s.rows
    BY <1>3 DEF Merged
  <2>4. got = PageOf(visible[Self], o, Limit)
    BY <2>1, <2>2
  <2>5. Whole(Asked(s.req) \ s.failed) = visible[Self]
    BY <2>1 DEF Whole
  <2>. QED
    BY <1>2, <1>5, <2>3, <2>4, <2>5
<1>4. CASE s.req.kind # "own"
  <2>1. Asked(s.req) = Instance /\ Sources(f) = Planned(f)
    BY <1>4 DEF Asked, Sources
  <2>2. \A i \in up : s.count[i] = Cardinality(visible[i])
    BY <1>4 DEF Undisturbed
  <2>3. \A i \in Instance : /\ visible[i] \in SUBSET Item /\ IsFiniteSet(visible[i])
                            /\ visible[i] \subseteq Nat /\ Cardinality(visible[i]) \in Nat
    BY Finite DEF TypeInv
  <2>4. \A i \in up \ Active(f) : visible[i] = {}
    <3>1. ASSUME NEW i \in up \ Active(f)
          PROVE  visible[i] = {}
      <4>1. s.count[i] \in Nat /\ ~(s.count[i] > 0)
        BY <1>1 DEF Active
      <4>2. Cardinality(visible[i]) = 0
        BY <2>2, <4>1
      <4>. QED
        BY <2>3, <4>2, FS_EmptySet
    <3>. QED
      BY <3>1
  <2>5. Whole(up) = Whole(Active(f) \ s.failed)
    BY <2>4 DEF Whole, Active
  <2>6. IsFiniteSet(Instance) /\ Active(f) \in SUBSET Instance
    BY FetchingAssumption DEF FetchingAssumption, Active
  <2>7. IsFiniteSet(Active(f)) /\ Cardinality(Active(f)) \in Nat
    BY <2>6, FS_Subset, FS_CardinalityType
  <2>8. CASE Cardinality(Active(f)) <= 1
    <3>1. Merged(f) = got
      BY <1>2, <2>8 DEF Merged
    <3>2. Planned(f) = {i \in Active(f) : o < s.count[i]}
      BY <2>8 DEF Planned
    <3>3. CASE Active(f) \ s.failed = {}
      <4>1. got = {}
        BY <2>1, <3>2, <3>3
      <4>2. Whole(up) = {}
        BY <2>5, <3>3 DEF Whole
      <4>. QED
        BY <1>1, <1>5, <2>1, <3>1, <4>1, <4>2, EmptyPage
    <3>4. ASSUME NEW i \in Active(f) \ s.failed
          PROVE  Merged(f) = PageOf(asked, o, Limit)
      <4>1. Active(f) = {i}
        <5>1. Cardinality(Active(f)) = 1 => Active(f) = {i}
          BY <2>7, FS_Singleton
        <5>2. Cardinality(Active(f)) # 0
          BY <2>7, FS_EmptySet
        <5>. QED
          BY <2>7, <2>8, <5>1, <5>2
      <4>2. Whole(up) = visible[i]
        BY <2>5, <4>1 DEF Whole
      <4>. DEFINE n == s.count[i]
                  m == (IF o + Limit < n THEN o + Limit ELSE n) - o
      <4>3. i \in up /\ n = Cardinality(visible[i]) /\ n \in Nat
        BY <1>1, <2>2, <2>6
      <4>4. Slice(f, i).offset = o /\ Slice(f, i).limit = m
        BY <1>4, <2>8 DEF Slice, OnlySlice
      <4>5. /\ ~(o < n) => PageOf(visible[i], o, Limit) = {}
            /\ o < n => PageOf(visible[i], o, m) = PageOf(visible[i], o, Limit)
        BY <1>1, <2>3, <4>3, OnlyPage
      <4>6. CASE o < n
        <5>1. Sources(f) \ s.failed = {i}
          BY <2>1, <3>2, <4>1, <4>6
        <5>2. got = PageOf(visible[i], o, m)
          BY <4>4, <5>1
        <5>. QED
          BY <2>1, <3>1, <4>2, <4>5, <4>6, <5>2
      <4>7. CASE ~(o < n)
        <5>1. Sources(f) = {}
          BY <2>1, <3>2, <4>1, <4>7
        <5>2. got = {}
          BY <5>1
        <5>. QED
          BY <2>1, <3>1, <4>2, <4>5, <4>7, <5>2
      <4>. QED
        BY <4>6, <4>7
    <3>. QED
      BY <1>5, <3>3, <3>4
  <2>9. CASE ~(Cardinality(Active(f)) <= 1)
    <3>. DEFINE A == Active(f) \ s.failed
                V == Whole(A)
                n == o + Limit
                m == HeadSlice(s.req).limit
    <3>1. Planned(f) = Active(f)
      BY <2>9 DEF Planned
    <3>2. Merged(f) = PageOf(got, o, Limit)
      BY <1>2, <1>4, <2>9 DEF Merged
    <3>3. \A i \in A : Slice(f, i).offset = 0 /\ Slice(f, i).limit = m
      BY <1>4, <2>9 DEF Slice, HeadSlice
    <3>4. got = UNION {PageOf(visible[i], 0, m) : i \in A}
      BY <2>1, <3>1, <3>3
    <3>5. V \in SUBSET Item /\ V = Parts(visible, A) /\ got = Heads(visible, A, m)
      BY <3>4, WholeTyped DEF Whole, Active, Parts, Heads
    <3>6. n \in Nat /\ n = o + Limit /\ m \in Nat /\ s.req.kind \in {"item", "marker"}
      BY <1>1, <1>4, FetchingAssumption DEF FetchingAssumption, HeadSlice
    <3>0. n <= PeerLimit[s.req.kind] => m = n
      BY DEF HeadSlice
    <3>. HIDE DEF got, V, n, m, A
    <3>7. IsFiniteSet(V) /\ V \subseteq Nat
      BY <3>5, Finite
    <3>8. HeadsOf(got, V, m)
      BY <3>5, <3>6, <3>7, HeadOfUnion DEF HeadsOf
    <3>9. asked = V
      BY <2>1, <2>5 DEF V, A
    <3>10. CASE n <= PeerLimit[s.req.kind]
      <4>1. PageOf(got, o, Limit) = PageOf(V, o, Limit)
        BY <1>1, <3>0, <3>6, <3>8, <3>10, MergeKeepsPage
      <4>. QED
        BY <1>5, <3>2, <3>9, <4>1
    <3>11. CASE ~(n <= PeerLimit[s.req.kind])
      <4>1. PageOf(got, o, Limit) \subseteq PageOf(V, o, Cardinality(V))
        BY <1>1, <3>7, <3>8, MergeRepeatsNone DEF HeadsOf
      <4>. QED
        BY <1>4, <3>2, <3>6, <3>9, <3>11, <4>1 DEF RightPage
    <3>. QED
      BY <3>10, <3>11
  <2>. QED
    BY <2>8, <2>9
<1>. QED
  BY <1>3, <1>4

LEMMA PagesTrueKept ==
  ASSUME TypeInv, AnswerInv, Next
  PROVE  PagesTrue'
<1>1. ASSUME visible' = visible, DOMAIN pages' \subseteq DOMAIN pages,
             \A r \in DOMAIN pages' : pages'[r].rows = pages[r].rows /\ pages'[r].still = pages[r].still
      PROVE  PagesTrue'
  <2>1. \A r \in DOMAIN pages' : Whole(Asked(r))' = Whole(Asked(r))
    BY <1>1 DEF Whole
  <2>2. \A r \in DOMAIN pages' :
          pages'[r].still => RightPage(pages'[r].rows, r, Whole(Asked(r)))
    BY <1>1 DEF AnswerInv, PagesTrue
  <2>. QED
    BY <2>1, <2>2 DEF PagesTrue
<1>2. CASE PagesSame
  BY <1>1, <1>2, PagesFrame
<1>3. ASSUME NEW f \in Fetcher, Answer(f)
      PROVE  PagesTrue'
  <2>. DEFINE r == fetcher[f].req
  <2>1. visible' = visible
    BY <1>3 DEF Answer
  <2>2. CASE pages' = pages
    BY <1>1, <2>1, <2>2
  <2>3. CASE pages' # pages
    <3>1. /\ Cacheable(f) /\ DOMAIN pages' = DOMAIN pages \cup {r}
          /\ \A q \in DOMAIN pages \ {r} : pages'[q] = pages[q]
          /\ pages'[r].rows = Merged(f) /\ pages'[r].still = Undisturbed(f)
      BY <1>3, <2>3, AnswerPages
    <3>2. Undisturbed(f) => RightPage(Merged(f), r, Whole(Asked(r)))
      <4>1. fetcher[f].pc = "pages" /\ fetcher[f].waiting = {} /\ Gathered(f)
        BY <1>3 DEF Answer, AnswerInv
      <4>2. Asked(r) \ fetcher[f].failed = Asked(r)
        BY <3>1 DEF Cacheable
      <4>. QED
        BY <4>1, <4>2, AnswerExact
    <3>. HIDE DEF r
    <3>3. PICK p : p = r
      OBVIOUS
    <3>4. \A q \in DOMAIN pages : Whole(Asked(q))' = Whole(Asked(q))
      BY <2>1 DEF Whole
    <3>5. Whole(Asked(p))' = Whole(Asked(p))
      BY <2>1 DEF Whole
    <3>6. ASSUME NEW q \in DOMAIN pages', pages'[q].still
          PROVE  RightPage(pages'[q].rows, q, Whole(Asked(q)))
      <4>1. CASE q = p
        BY <3>1, <3>2, <3>3, <3>6, <4>1
      <4>2. CASE q # p
        BY <3>1, <3>3, <3>6, <4>2 DEF AnswerInv, PagesTrue
      <4>. QED
        BY <4>1, <4>2
    <3>. QED
      BY <3>1, <3>3, <3>4, <3>5, <3>6 DEF PagesTrue
  <2>. QED
    BY <2>2, <2>3
<1>4. CASE (\E w \in Writer, x \in Item : Commit(w, x)) \/ \E x \in Item : CommitUnswept(x)
  <2>1. PICK x \in Item, mark \in {"after", "lost"} : Disturbed(Home[x], mark)
    BY <1>4, ChangeFrame DEF Changed
  <2>2. Home[x] \in Instance
    BY FetchingAssumption DEF FetchingAssumption
  <2>3. \A r \in DOMAIN pages' : pages'[r].still = FALSE
    BY <2>1, <2>2, DisturbedMoves
  <2>. QED
    BY <2>3 DEF PagesTrue
<1>5. ASSUME NEW w \in Writer, SweepLost(w)
      PROVE  PagesTrue'
  <2>1. visible' = visible
    BY <1>5 DEF SweepLost
  <2>. QED
    BY <1>1, <1>5, <2>1, SweepLostMoves
<1>6. ASSUME (\E w \in Writer : SweepPages(w)) \/ \E r \in Request : ExpirePage(r)
      PROVE  PagesTrue'
  <2>1. visible' = visible /\ \E S \in SUBSET DOMAIN pages : pages' = Restrict(pages, S)
    <3>1. CASE \E w \in Writer : SweepPages(w)
      BY <3>1 DEF SweepPages
    <3>2. CASE \E r \in Request : ExpirePage(r)
      BY <3>2 DEF ExpirePage
    <3>. QED
      BY <1>6, <3>1, <3>2
  <2>2. DOMAIN pages' \subseteq DOMAIN pages /\ \A r \in DOMAIN pages' : pages'[r] = pages[r]
    BY <2>1, PagesLeave
  <2>. QED
    BY <1>1, <2>1, <2>2
<1>. QED
  BY <1>2, <1>3, <1>4, <1>5, <1>6, StepKinds

\* A request that goes on keeps its account of the rows it gathered.
LEMMA MoverKept ==
  ASSUME TypeInv, AnswerInv, NEW f \in Fetcher,
         \/ \E r \in Request : Hit(f, r) \/ Miss(f, r)
         \/ \E i \in Instance :
              CountHit(f, i) \/ CountRead(f, i) \/ CountStored(f, i) \/ CountFails(f, i)
         \/ \E i \in Instance : PageRead(f, i) \/ PageFails(f, i)
         \/ Plan(f) \/ Answer(f) \/ Abandon(f)
  PROVE  Gathered(f)' /\ Answered(f)'
<1>. DEFINE Goal == Gathered(f)' /\ Answered(f)'
<1>0. Gathered(f) /\ Answered(f) /\ PagesTrue
  BY DEF AnswerInv
<1>1. ASSUME NEW r \in Request, Hit(f, r)
      PROVE  Goal
  <2>1. /\ fetcher'[f].pc = "done" /\ fetcher'[f].req = r /\ fetcher'[f].failed = {}
        /\ fetcher'[f].rows = pages[r].rows /\ fetcher'[f].still = pages[r].still
    BY <1>1, HitMoves
  <2>2. visible' = visible /\ r \in DOMAIN pages
    BY <1>1 DEF Hit
  <2>3. Asked(r) \ {} = Asked(r)
    OBVIOUS
  <2>4. Gathered(f)'
    BY <2>1 DEF Gathered
  <2>5. Answered(f)'
    <3>1. Whole(Asked(fetcher[f].req) \ fetcher[f].failed)' = Whole(Asked(r))
      BY <2>1, <2>2, <2>3 DEF Whole
    <3>2. pages[r].still => RightPage(pages[r].rows, r, Whole(Asked(r)))
      BY <1>0, <2>2 DEF PagesTrue
    <3>. QED
      BY <2>1, <3>1, <3>2 DEF Answered
  <2>. QED
    BY <2>4, <2>5
<1>2. ASSUME NEW r \in Request, Miss(f, r)
      PROVE  Goal
  <2>1. /\ fetcher'[f].pc = (IF r.kind = "own" THEN "pages" ELSE "counts")
        /\ fetcher'[f].req = r /\ fetcher'[f].waiting = Asked(r) /\ fetcher'[f].rows = {}
    BY <1>2, MissMoves
  <2>2. Answered(f)'
    BY <2>1 DEF Answered
  <2>3. CASE r.kind = "own"
    <3>1. Sources(f)' = {Self} /\ Asked(r) = {Self}
      BY <2>1, <2>3 DEF Sources, Asked
    <3>2. Sources(f)' \ (fetcher'[f].waiting \cup fetcher'[f].failed) = {}
      BY <2>1, <3>1
    <3>. QED
      BY <2>1, <2>2, <3>1, <3>2 DEF Gathered
  <2>4. CASE r.kind # "own"
    BY <2>1, <2>2, <2>4 DEF Gathered
  <2>. QED
    BY <2>3, <2>4
<1>3. ASSUME NEW i \in Instance,
             CountHit(f, i) \/ CountRead(f, i) \/ CountStored(f, i) \/ CountFails(f, i)
      PROVE  Goal
  <2>1. fetcher'[f].pc = "counts"
    BY <1>3, CountMoves
  <2>. QED
    BY <2>1 DEF Gathered, Answered
<1>4. ASSUME NEW i \in Instance, PageRead(f, i)
      PROVE  Goal
  <2>1. /\ fetcher[f].pc = "pages" /\ i \in fetcher[f].waiting /\ i \notin fetcher[f].failed
        /\ fetcher'[f].waiting = fetcher[f].waiting \ {i}
        /\ fetcher'[f].rows = fetcher[f].rows \cup
             PageOf(visible[i], Slice(f, i).offset, Slice(f, i).limit)
        /\ fetcher'[f].pc = fetcher[f].pc /\ fetcher'[f].req = fetcher[f].req
        /\ fetcher'[f].failed = fetcher[f].failed /\ fetcher'[f].count = fetcher[f].count
        /\ fetcher'[f].still = fetcher[f].still
    BY <1>4, PageReadMoves
  <2>2. visible' = visible
    BY <1>4 DEF PageRead
  <2>3. Sources(f)' = Sources(f) /\ \A j \in Instance : Slice(f, j)' = Slice(f, j)
    BY <2>1, SlicesKept
  <2>4. i \in Sources(f) /\ Sources(f) \subseteq Instance
    BY <1>0, <2>1, SourcesAsked DEF Gathered
  <2>. DEFINE old == Sources(f) \ (fetcher[f].waiting \cup fetcher[f].failed)
              new == Sources(f) \ (fetcher'[f].waiting \cup fetcher'[f].failed)
              R(j) == PageOf(visible[j], Slice(f, j).offset, Slice(f, j).limit)
  <2>5. new = old \cup {i}
    BY <2>1, <2>4
  <2>6. fetcher[f].still => fetcher[f].rows = UNION {R(j) : j \in old}
    BY <1>0, <2>1 DEF Gathered
  <2>7. fetcher[f].still => fetcher'[f].rows = UNION {R(j) : j \in new}
    <3>1. fetcher'[f].rows = fetcher[f].rows \cup R(i)
      BY <2>1
    <3>. DEFINE G == [j \in Instance |-> R(j)]
    <3>2. old \subseteq Instance /\ new \subseteq Instance /\ G[i] = R(i)
      BY <2>4
    <3>3. \A A \in SUBSET Instance : UNION {R(j) : j \in A} = Parts(G, A)
      BY DEF Parts
    <3>4. UNION {R(j) : j \in old} = Parts(G, old) /\ UNION {R(j) : j \in new} = Parts(G, new)
      BY <3>2, <3>3
    <3>. HIDE DEF R, old, new, G
    <3>5. Parts(G, new) = Parts(G, old) \cup G[i]
      BY <2>5 DEF Parts
    <3>. QED
      BY <2>6, <3>1, <3>2, <3>4, <3>5
  <2>8. fetcher'[f].waiting \subseteq Sources(f)'
    BY <1>0, <2>1, <2>3 DEF Gathered
  <2>9. \A j \in new : R(j)' = R(j)
    BY <2>2, <2>3, <2>4
  <2>10. Gathered(f)'
    BY <2>1, <2>2, <2>3, <2>7, <2>8, <2>9 DEF Gathered
  <2>11. Answered(f)'
    BY <2>1 DEF Answered
  <2>. QED
    BY <2>10, <2>11
<1>5. ASSUME NEW i \in Instance, PageFails(f, i)
      PROVE  Goal
  <2>1. /\ fetcher[f].pc = "pages" /\ i \in fetcher[f].waiting
        /\ fetcher'[f].waiting = fetcher[f].waiting \ {i}
        /\ fetcher'[f].failed = fetcher[f].failed \cup {i}
        /\ fetcher'[f].pc = fetcher[f].pc /\ fetcher'[f].req = fetcher[f].req
        /\ fetcher'[f].rows = fetcher[f].rows /\ fetcher'[f].count = fetcher[f].count
        /\ fetcher'[f].still = fetcher[f].still
    BY <1>5, PageFailsMoves
  <2>2. visible' = visible
    BY <1>5 DEF PageFails
  <2>3. Sources(f)' = Sources(f) /\ \A j \in Instance : Slice(f, j)' = Slice(f, j)
    BY <2>1, SlicesKept
  <2>4. Sources(f) \subseteq Instance
    BY SourcesAsked
  <2>5. fetcher'[f].waiting \cup fetcher'[f].failed = fetcher[f].waiting \cup fetcher[f].failed
    BY <2>1
  <2>6. Gathered(f)'
    BY <1>0, <2>1, <2>2, <2>3, <2>4, <2>5 DEF Gathered
  <2>7. Answered(f)'
    BY <2>1 DEF Answered
  <2>. QED
    BY <2>6, <2>7
<1>6. CASE Plan(f)
  <2>1. /\ fetcher'[f].pc = "pages" /\ fetcher'[f].waiting = Planned(f)
        /\ fetcher'[f].rows = {} /\ fetcher'[f].req = fetcher[f].req
        /\ fetcher'[f].count = fetcher[f].count /\ fetcher[f].req.kind # "own"
    BY <1>6, PlanMoves
  <2>2. Sources(f)' = Planned(f)
    BY <2>1, SlicesKept DEF Sources
  <2>3. Sources(f)' \ (fetcher'[f].waiting \cup fetcher'[f].failed) = {}
    BY <2>1, <2>2
  <2>. QED
    BY <2>1, <2>2, <2>3 DEF Gathered, Answered
<1>7. CASE Answer(f)
  <2>1. /\ fetcher[f].pc = "pages" /\ fetcher[f].waiting = {}
        /\ fetcher'[f].pc = "done" /\ fetcher'[f].req = fetcher[f].req
        /\ fetcher'[f].rows = Merged(f) /\ fetcher'[f].failed = fetcher[f].failed
        /\ fetcher'[f].still = Undisturbed(f)
    BY <1>7, AnswerMoves
  <2>2. visible' = visible
    BY <1>7 DEF Answer
  <2>3. Undisturbed(f) =>
          RightPage(Merged(f), fetcher[f].req, Whole(Asked(fetcher[f].req) \ fetcher[f].failed))
    BY <1>0, <2>1, AnswerExact
  <2>4. Whole(Asked(fetcher[f].req) \ fetcher[f].failed)' =
          Whole(Asked(fetcher[f].req) \ fetcher[f].failed)
    BY <2>1, <2>2 DEF Whole
  <2>5. Answered(f)'
    BY <2>1, <2>3, <2>4 DEF Answered
  <2>6. Gathered(f)'
    BY <2>1 DEF Gathered
  <2>. QED
    BY <2>5, <2>6
<1>8. CASE Abandon(f)
  <2>1. fetcher'[f].pc = "idle"
    BY <1>8, AbandonMoves
  <2>. QED
    BY <2>1 DEF Gathered, Answered
<1>. QED
  BY <1>1, <1>2, <1>3, <1>4, <1>5, <1>6, <1>7, <1>8

LEMMA AnswersKept ==
  ASSUME TypeInv, AnswerInv, Next
  PROVE  AnswerInv'
<1>1. PagesTrue'
  BY PagesTrueKept
<1>2. ASSUME NEW g \in Fetcher
      PROVE  Gathered(g)' /\ Answered(g)'
  <2>0. Gathered(g) /\ Answered(g)
    BY DEF AnswerInv
  <2>1. CASE FetchersSame
    <3>1. fetcher'[g] = fetcher[g] /\ visible' = visible
      BY <2>1, FetchersFrame
    <3>. QED
      BY <2>0, <3>1, SelfKept
  <2>2. CASE (\E w \in Writer, x \in Item : Commit(w, x)) \/ \E x \in Item : CommitUnswept(x)
    <3>1. PICK x \in Item, mark \in {"after", "lost"} : Disturbed(Home[x], mark)
      BY <2>2, ChangeFrame DEF Changed
    <3>2. Home[x] \in Instance
      BY FetchingAssumption DEF FetchingAssumption
    <3>3. /\ fetcher'[g].pc = fetcher[g].pc /\ fetcher'[g].req = fetcher[g].req
          /\ fetcher'[g].waiting = fetcher[g].waiting /\ fetcher'[g].count = fetcher[g].count
          /\ fetcher[g].pc # "idle" => fetcher'[g].still = FALSE
      BY <3>1, <3>2, DisturbedMoves
    <3>4. Sources(g)' = Sources(g)
      BY <3>3, SlicesKept
    <3>. QED
      BY <2>0, <3>3, <3>4 DEF Gathered, Answered
  <2>3. ASSUME NEW f \in Fetcher,
               \/ \E r \in Request : Hit(f, r) \/ Miss(f, r)
               \/ \E i \in Instance :
                    CountHit(f, i) \/ CountRead(f, i) \/ CountStored(f, i) \/ CountFails(f, i)
               \/ \E i \in Instance : PageRead(f, i) \/ PageFails(f, i)
               \/ Plan(f) \/ Answer(f) \/ Abandon(f)
        PROVE  Gathered(g)' /\ Answered(g)'
    <3>1. CASE g = f
      BY <2>3, <3>1, MoverKept
    <3>2. CASE g # f
      <4>1. ASSUME NEW r \in Request, Hit(f, r) \/ Miss(f, r)
            PROVE  fetcher'[g] = fetcher[g] /\ visible' = visible
        BY <3>2, <4>1, HitMoves, MissMoves DEF Hit, Miss
      <4>2. ASSUME NEW i \in Instance,
                   CountHit(f, i) \/ CountRead(f, i) \/ CountStored(f, i) \/ CountFails(f, i)
            PROVE  fetcher'[g] = fetcher[g] /\ visible' = visible
        BY <3>2, <4>2, CountMoves DEF CountHit, CountRead, CountStored, CountFails
      <4>3. ASSUME NEW i \in Instance, PageRead(f, i) \/ PageFails(f, i)
            PROVE  fetcher'[g] = fetcher[g] /\ visible' = visible
        BY <3>2, <4>3, PageReadMoves, PageFailsMoves DEF PageRead, PageFails
      <4>4. ASSUME Plan(f) \/ Answer(f) \/ Abandon(f)
            PROVE  fetcher'[g] = fetcher[g] /\ visible' = visible
        BY <3>2, <4>4, PlanMoves, AnswerMoves, AbandonMoves DEF Plan, Answer, Abandon
      <4>5. fetcher'[g] = fetcher[g] /\ visible' = visible
        BY <2>3, <4>1, <4>2, <4>3, <4>4
      <4>. QED
        BY <2>0, <4>5, SelfKept
    <3>. QED
      BY <3>1, <3>2
  <2>. QED
    BY <2>1, <2>2, <2>3, FetcherKinds
<1>. QED
  BY <1>1, <1>2 DEF AnswerInv

LEMMA AnswersInvariant == Spec => []AnswerInv
<1>1. Init => AnswerInv
  BY IdleTyped DEF Init, AnswerInv, PagesTrue, Gathered, Answered
<1>2. TypeInv /\ AnswerInv /\ [Next]_vars => AnswerInv'
  <2>1. ASSUME TypeInv, AnswerInv, UNCHANGED vars
        PROVE  AnswerInv'
    <3>1. \A f \in Fetcher : fetcher'[f] = fetcher[f] /\ visible' = visible
      BY <2>1 DEF vars
    <3>2. \A f \in Fetcher : Gathered(f)' /\ Answered(f)'
      BY <2>1, <3>1, SelfKept DEF AnswerInv
    <3>3. PagesTrue'
      BY <2>1 DEF vars, AnswerInv, PagesTrue, Whole
    <3>. QED
      BY <3>2, <3>3 DEF AnswerInv
  <2>. QED
    BY <2>1, AnswersKept
<1>. QED
  BY <1>1, <1>2, TypeInvariant, PTL DEF Spec

\* Spec keeps AnswersAreExact: for any number of instances, items and requests,
\* an answer that no change overlapped, made from right counts, is the page of
\* the items of every instance that did not fail, if the page ends within what
\* a peer gives: the plan asks for enough, the merge of the heads loses no row,
\* and what was cached is still the page.  Beyond that it repeats no row of an
\* earlier page.
THEOREM AnswersTheorem == Spec => []AnswersAreExact
<1>1. AnswerInv => AnswersAreExact
  BY DEF AnswerInv, Answered, Whole, AnswersAreExact
<1>. QED
  BY <1>1, AnswersInvariant, PTL
=============================================================================
