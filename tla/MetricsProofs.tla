--------------------------- MODULE MetricsProofs ---------------------------
(***************************************************************************)
(* Theorems about Metrics: types, and how old what is served can be, for   *)
(* any number of checks, processes, connections and profiles.              *)
(***************************************************************************)
EXTENDS Metrics, FiniteSetTheorems, TLAPS

-----------------------------------------------------------------------------
(* The types.                                                              *)

CheckState ==
  [pc : {"idle", "check", "lock", "wait", "begin", "query", "flush", "unlock", "reread",
         "read"},
   pair : Pair, force : BOOLEAN, at : Time, told : Time, todo : SUBSET Item, seen : [Item -> Time],
   failed : BOOLEAN, answer : Answer]

Check ==
  {s \in CheckState : s.todo \subseteq ItemsOf(s.pair) /\ (s.pc = "flush" <=> s.todo # {})}

TypeInv ==
  /\ now \in Time
  /\ profile \in [Item -> Profile]
  /\ row \in [Item -> Row \cup {NoRow}]
  /\ held \in [Conn -> [Pair -> Nat]]
  /\ waiter \in [Conn -> Handler \cup {NoHandler}]
  /\ handler \in [Handler -> Check]
  /\ overtaken \in SUBSET Handler
  /\ asked \in 0 .. MaxRequests /\ changes \in 0 .. MaxChanges

\* A connection waits for one check of its own process, a waiting check has one.
WaitInv ==
  /\ \A c \in Conn : waiter[c] # NoHandler =>
       c \in Pool[PodOf[waiter[c]]] /\ At(waiter[c], "wait")
  /\ \A c, d \in Conn : waiter[c] # NoHandler /\ waiter[c] = waiter[d] => c = d
  /\ \A h \in Handler : At(h, "wait") => \E c \in Pool[PodOf[h]] : waiter[c] = h

\* The checks that may still take a lock, and what sessions hold already.
Pending == {h \in Handler : handler[h].pc \in {"check", "lock", "wait"}}

HeldInv ==
  /\ IsFiniteSet(Pending) /\ Cardinality(Pending) <= asked
  /\ \A c \in Conn, p \in Pair : held[c][p] + Cardinality(Pending) <= asked

-----------------------------------------------------------------------------
(* The age of rows.                                                        *)

\* A row or a recomputation that has missed the last change of a profile bears a
\* time no later than that change.
SeenInv ==
  /\ \A i \in Item : profile[i].since <= now
  /\ \A i \in Item : row[i] # NoRow =>
       row[i].at <= now /\ (row[i].seen = profile[i].since \/ row[i].at <= profile[i].since)
  /\ \A h \in Handler : handler[h].pc \in {"query", "flush"} =>
       /\ handler[h].at <= now
       /\ \A i \in handler[h].todo :
            handler[h].seen[i] = profile[i].since \/ handler[h].at <= profile[i].since

\* No row of a check that was not overtaken is older than it was told, and what
\* was called fresh was no older than the time to live.
Told(h) ==
  /\ handler[h].pc \in {"lock", "wait", "read"} /\ h \notin overtaken =>
       \A i \in RowsOf(handler[h].pair) : handler[h].told <= row[i].at
  /\ At(h, "read") /\ handler[h].answer = "fresh" => handler[h].at <= handler[h].told + TTL

ToldInv == \A h \in Handler : Told(h)

MetricsInv == TypeInv /\ WaitInv /\ HeldInv /\ SeenInv /\ ToldInv

-----------------------------------------------------------------------------
(* What a step makes of the record of a check.                             *)

LEMMA IdleTyped ==
  /\ Idle \in Check
  /\ Idle.pc = "idle" /\ Idle.todo = {} /\ Idle.pair \in Pair
<1>. DEFINE p == CHOOSE q \in Pair : TRUE
            z == [i \in Item |-> 0]
<1>1. p \in Pair
  BY MetricsAssumption DEF MetricsAssumption
<1>2. 0 \in Time /\ z \in [Item -> Time]
  BY MetricsAssumption DEF MetricsAssumption, Time
<1>3. Idle = [pc |-> "idle", pair |-> p, force |-> FALSE, at |-> 0, told |-> 0,
              todo |-> {}, seen |-> z, failed |-> FALSE, answer |-> "none"]
  BY DEF Idle
<1>. HIDE DEF p, z
<1>. QED
  BY <1>1, <1>2, <1>3 DEF Check, CheckState, Answer

\* The records that steps make out of Idle.
Reading(p, n, t, a) == [Idle EXCEPT !.pc = "read", !.pair = p, !.at = n, !.told = t, !.answer = a]

LEMMA ReadingTyped ==
  ASSUME NEW p \in Pair, NEW n \in Time, NEW t \in Time, NEW a \in Answer,
         NEW s, s = Reading(p, n, t, a)
  PROVE  /\ s \in Check /\ s.pc = "read" /\ s.pair = p /\ s.at = n /\ s.told = t
         /\ s.answer = a
<1>1. Idle \in CheckState /\ Idle.todo = {}
  BY IdleTyped DEF Check
<1>2. PICK z \in CheckState : z = Idle
  BY <1>1
<1>3. PICK y : y = [z EXCEPT !.pc = "read", !.pair = p, !.at = n]
  OBVIOUS
<1>4. y \in CheckState /\ y.pc = "read" /\ y.pair = p /\ y.at = n /\ y.todo = {}
  BY <1>1, <1>2, <1>3 DEF CheckState
<1>5. s = [y EXCEPT !.told = t, !.answer = a]
  BY <1>2, <1>3 DEF Reading
<1>. QED
  BY <1>4, <1>5 DEF Check, CheckState

LEMMA BeginTyped ==
  ASSUME NEW p \in Pair, NEW s, s = [Idle EXCEPT !.pc = "begin", !.pair = p]
  PROVE  s \in Check /\ s.pc = "begin"
BY IdleTyped DEF Check, CheckState

\* One check goes on: only its record is new.
LEMMA OneCheck ==
  ASSUME NEW h \in Handler, TypeInv, NEW s \in Check, handler' = [handler EXCEPT ![h] = s]
  PROVE  /\ handler' \in [Handler -> Check]
         /\ handler'[h] = s /\ \A g \in Handler \ {h} : handler'[g] = handler[g]
BY DEF TypeInv

LEMMA EndMoves ==
  ASSUME TypeInv, NEW h \in Handler, End(h)
  PROVE  /\ handler' \in [Handler -> Check]
         /\ \A g \in Handler \ {h} : handler'[g] = handler[g]
         /\ handler'[h].pc = "idle"
BY IdleTyped, OneCheck DEF End

LEMMA ReturnMoves ==
  ASSUME TypeInv, NEW h \in Handler, NEW a \in Answer, NEW t \in Time, Return(h, a, t)
  PROVE  /\ handler' \in [Handler -> Check]
         /\ \A g \in Handler \ {h} : handler'[g] = handler[g]
         /\ handler'[h].pc = "read" /\ handler'[h].pair = handler[h].pair
         /\ handler'[h].at = now /\ handler'[h].told = t /\ handler'[h].answer = a
<1>1. handler[h].pair \in Pair /\ now \in Time
  BY DEF TypeInv, Check, CheckState
<1>2. PICK p \in Pair, n \in Time : p = handler[h].pair /\ n = now
  BY <1>1
<1>3. PICK s : s = Reading(p, n, t, a)
  OBVIOUS
<1>4. /\ s \in Check /\ s.pc = "read" /\ s.pair = p /\ s.at = n /\ s.told = t /\ s.answer = a
  BY <1>3, ReadingTyped
<1>5. handler' = [handler EXCEPT ![h] = s]
  BY <1>2, <1>3 DEF Return, Reading
<1>. QED
  BY <1>2, <1>4, <1>5, OneCheck

\* A set of times has a least one.
LEMMA LeastTime ==
  ASSUME NEW S \in SUBSET Time, S # {}
  PROVE  \E m \in S : \A a \in S : m <= a
<1>. DEFINE T == {0 .. a : a \in S}
<1>0. Time = 0 .. MaxNow /\ MaxNow \in Nat /\ \A a \in S : a \in Nat /\ a <= MaxNow
  BY MetricsAssumption DEF MetricsAssumption, Time
<1>1. T # {} /\ T \subseteq FiniteSubsetsOf(Nat)
  <2>1. \A a \in S : IsFiniteSet(0 .. a)
    BY <1>0, FS_Interval
  <2>2. \A a \in S : 0 .. a \in FiniteSubsetsOf(Nat)
    <3>1. \A a \in S : 0 .. a \subseteq Nat
      BY <1>0
    <3>. QED
      BY <2>1, <3>1 DEF FiniteSubsetsOf
  <2>3. \A W \in T : \E a \in S : W = 0 .. a
    BY DEF T
  <2>4. T # {}
    BY DEF T
  <2>. HIDE DEF T
  <2>. QED
    BY <2>2, <2>3, <2>4
<1>2. IsWellFoundedOn(StrictSubsetOrdering(Nat), FiniteSubsetsOf(Nat))
  BY FS_StrictSubsetOrderingWellFounded
<1>. HIDE DEF T
<1>3. PICK U \in T : \A W \in T : ~ (<<W, U>> \in StrictSubsetOrdering(Nat))
  BY <1>1, <1>2, WFMin
<1>4. PICK m \in S : U = 0 .. m
  BY DEF T
<1>5. ASSUME NEW a \in S, ~(m <= a)
      PROVE  FALSE
  <2>1. 0 .. a \in T
    BY DEF T
  <2>2. 0 .. a \subseteq 0 .. m /\ 0 .. a # 0 .. m /\ 0 .. m \subseteq Nat
    <3>1. a \in Nat /\ m \in Nat /\ a < m
      BY <1>0, <1>5
    <3>2. m \in 0 .. m /\ m \notin 0 .. a
      BY <3>1
    <3>3. 0 .. a \subseteq 0 .. m /\ 0 .. m \subseteq Nat
      BY <3>1
    <3>. QED
      BY <3>2, <3>3
  <2>3. <<0 .. a, U>> \in StrictSubsetOrdering(Nat)
    BY <1>4, <2>2 DEF StrictSubsetOrdering
  <2>. QED
    BY <1>3, <2>1, <2>3
<1>. QED
  BY <1>5

LEMMA OldestTyped ==
  ASSUME TypeInv, NEW p \in Pair
  PROVE  /\ Oldest(p) \in Time
         /\ \A i \in RowsOf(p) : Oldest(p) <= row[i].at
         /\ RowsOf(p) # {} => \E i \in RowsOf(p) : Oldest(p) = row[i].at
<1>. DEFINE S == {row[i].at : i \in RowsOf(p)}
<1>1. S \in SUBSET Time
  BY DEF TypeInv, RowsOf, ItemsOf, Row
<1>2. CASE RowsOf(p) = {}
  BY <1>2, MetricsAssumption DEF MetricsAssumption, Oldest, Time
<1>3. CASE RowsOf(p) # {}
  <2>1. S # {} /\ Oldest(p) = Min(S)
    BY <1>3 DEF Oldest
  <2>. HIDE DEF S
  <2>2. Min(S) \in S /\ \A a \in S : Min(S) <= a
    BY <1>1, <2>1, LeastTime DEF Min
  <2>. QED
    BY <1>1, <2>1, <2>2 DEF S
<1>. QED
  BY <1>2, <1>3

LEMMA EnterMoves ==
  ASSUME TypeInv, NEW h \in Handler, Enter(h)
  PROVE  /\ handler' \in [Handler -> Check]
         /\ \A g \in Handler \ {h} : handler'[g] = handler[g]
         /\ handler'[h].pc = "begin"
<1>. DEFINE s == [Idle EXCEPT !.pc = "begin", !.pair = handler[h].pair]
<1>1. handler[h].pair \in Pair
  BY DEF TypeInv, Check, CheckState
<1>2. s \in Check /\ s.pc = "begin"
  BY <1>1, BeginTyped
<1>3. handler' = [handler EXCEPT ![h] = s]
  BY DEF Enter
<1>. HIDE DEF s
<1>. QED
  BY <1>2, <1>3, OneCheck

LEMMA StartMoves ==
  ASSUME TypeInv, NEW h \in Handler, NEW p \in Pair, NEW force \in BOOLEAN, Start(h, p, force)
  PROVE  /\ handler' \in [Handler -> Check]
         /\ \A g \in Handler \ {h} : handler'[g] = handler[g]
         /\ handler[h].pc = "idle" /\ handler'[h].pc = "check"
<1>. DEFINE s == [Idle EXCEPT !.pc = "check", !.pair = p, !.force = force]
<1>1. s \in Check /\ s.pc = "check"
  BY IdleTyped DEF Check, CheckState
<1>2. handler' = [handler EXCEPT ![h] = s] /\ handler[h].pc = "idle"
  BY DEF Start, At
<1>. HIDE DEF s
<1>. QED
  BY <1>1, <1>2, OneCheck

LEMMA FinishTyped ==
  ASSUME TypeInv, NEW h \in Handler, NEW b \in BOOLEAN
  PROVE  Finish(h, b) \in Check /\ Finish(h, b).pc = "unlock"
<1>1. handler[h].pair \in Pair
  BY DEF TypeInv, Check, CheckState
<1>. QED
  BY <1>1, IdleTyped DEF Finish, Check, CheckState

LEMMA GotoMoves ==
  ASSUME TypeInv, NEW h \in Handler, NEW pc \in {"wait", "reread"}, Goto(h, pc),
         handler[h].pc # "flush"
  PROVE  /\ handler' \in [Handler -> Check]
         /\ \A g \in Handler \ {h} : handler'[g] = handler[g]
         /\ handler'[h].pc = pc /\ handler'[h].pair = handler[h].pair
         /\ handler'[h].told = handler[h].told
<1>. DEFINE s == [handler[h] EXCEPT !.pc = pc]
<1>1. handler[h] \in Check /\ handler \in [Handler -> Check]
  BY DEF TypeInv
<1>2. s \in Check /\ s.pc = pc /\ s.pair = handler[h].pair /\ s.told = handler[h].told
  BY <1>1 DEF Check, CheckState
<1>3. handler' = [handler EXCEPT ![h] = s]
  BY <1>1 DEF Goto
<1>. HIDE DEF s
<1>. QED
  BY <1>2, <1>3, OneCheck

LEMMA FindStaleMoves ==
  ASSUME TypeInv, NEW h \in Handler, FindStale(h)
  PROVE  /\ handler' \in [Handler -> Check]
         /\ \A g \in Handler \ {h} : handler'[g] = handler[g]
         /\ handler[h].pc = "check" /\ handler'[h].pc = "lock"
         /\ handler'[h].pair = handler[h].pair /\ handler'[h].told = Oldest(handler[h].pair)
<1>. DEFINE t == Oldest(handler[h].pair)
            s == [handler[h] EXCEPT !.pc = "lock", !.told = t]
<1>1. handler[h] \in Check /\ handler \in [Handler -> Check] /\ handler[h].pc = "check"
  BY DEF TypeInv, FindStale, At
<1>2. t \in Time
  BY <1>1, OldestTyped DEF Check, CheckState
<1>3. handler' = [handler EXCEPT ![h] = s]
  BY <1>1 DEF FindStale
<1>. HIDE DEF t
<1>4. s \in Check /\ s.pc = "lock" /\ s.pair = handler[h].pair /\ s.told = t
  BY <1>1, <1>2 DEF Check, CheckState
<1>. HIDE DEF s
<1>. QED
  BY <1>1, <1>3, <1>4, OneCheck DEF t

\* A check that returns has been told a time, the oldest stamp or the one it had.
LEMMA AnswerMoves ==
  ASSUME TypeInv, NEW h \in Handler, ServeFresh(h) \/ ServeStale(h) \/ Reread(h)
  PROVE  /\ handler' \in [Handler -> Check]
         /\ \A g \in Handler \ {h} : handler'[g] = handler[g]
         /\ handler[h].pc \in {"check", "lock", "reread"} /\ handler'[h].pc = "read"
         /\ handler'[h].pair = handler[h].pair /\ handler'[h].at = now
         /\ ServeFresh(h) \/ Reread(h) => handler'[h].told = Oldest(handler[h].pair)
         /\ ServeStale(h) => handler'[h].told = handler[h].told
         /\ ServeStale(h) \/ Reread(h) => handler'[h].answer # "fresh"
<1>1. handler[h].pair \in Pair /\ handler[h].told \in Time
  BY DEF TypeInv, Check, CheckState
<1>2. Oldest(handler[h].pair) \in Time
  BY <1>1, OldestTyped
<1>3. CASE ServeFresh(h)
  <2>1. Return(h, "fresh", Oldest(handler[h].pair)) /\ handler[h].pc = "check"
    BY <1>3 DEF ServeFresh, At
  <2>. QED
    BY <1>2, <2>1, ReturnMoves DEF Answer, ServeStale, Reread, At
<1>4. CASE ServeStale(h)
  <2>1. Return(h, "contended", handler[h].told) /\ handler[h].pc = "lock"
    BY <1>4 DEF ServeStale, At
  <2>. QED
    BY <1>1, <2>1, ReturnMoves DEF Answer, ServeFresh, Reread, At
<1>5. CASE Reread(h)
  <2>1. Return(h, "refreshed", Oldest(handler[h].pair)) /\ handler[h].pc = "reread"
    BY <1>5 DEF Reread, At
  <2>. QED
    BY <1>2, <2>1, ReturnMoves DEF Answer, ServeFresh, ServeStale, At
<1>. QED
  BY <1>3, <1>4, <1>5

LEMMA BeginMoves ==
  ASSUME TypeInv, NEW h \in Handler, Begin(h)
  PROVE  /\ handler' \in [Handler -> Check]
         /\ \A g \in Handler \ {h} : handler'[g] = handler[g]
         /\ handler[h].pc = "begin"
         /\ \/ handler'[h].pc = "unlock"
            \/ handler'[h].pc = "query" /\ handler'[h].at = now /\ handler'[h].todo = {}
<1>. DEFINE s == [handler[h] EXCEPT !.pc = "query", !.at = now]
<1>1. handler[h] \in Check /\ handler[h].pc = "begin" /\ handler[h].todo = {} /\ now \in Time
  BY DEF TypeInv, Begin, At, Check
<1>2. s \in Check /\ s.pc = "query" /\ s.at = now /\ s.todo = {}
  BY <1>1 DEF Check, CheckState
<1>3. \/ handler' = [handler EXCEPT ![h] = Finish(h, FALSE)]
      \/ handler' = [handler EXCEPT ![h] = s]
  BY DEF Begin, TypeInv
<1>. HIDE DEF s
<1>4. CASE handler' = [handler EXCEPT ![h] = Finish(h, FALSE)]
  BY <1>1, <1>4, FinishTyped, OneCheck
<1>5. CASE handler' = [handler EXCEPT ![h] = s]
  BY <1>1, <1>2, <1>5, OneCheck
<1>. QED
  BY <1>3, <1>4, <1>5

LEMMA QueryMoves ==
  ASSUME TypeInv, NEW h \in Handler, Query(h)
  PROVE  /\ handler' \in [Handler -> Check]
         /\ \A g \in Handler \ {h} : handler'[g] = handler[g]
         /\ handler[h].pc = "query"
         /\ \/ handler'[h].pc = "unlock"
            \/ /\ handler'[h].pc = "flush" /\ handler'[h].at = handler[h].at
               /\ handler'[h].todo \subseteq Item
               /\ \A i \in handler'[h].todo : handler'[h].seen[i] = profile[i].since
<1>. DEFINE found == Present(handler[h].pair)
            z == [i \in Item |-> IF i \in found THEN profile[i].since ELSE 0]
            s == [handler[h] EXCEPT !.pc = "flush", !.todo = found, !.seen = z]
<1>1. handler[h] \in Check /\ handler[h].pc = "query"
  BY DEF TypeInv, Query, At
<1>2. found \subseteq ItemsOf(handler[h].pair) /\ found \subseteq Item
  BY DEF Present, ItemsOf
<1>3. z \in [Item -> Time] /\ \A i \in found : z[i] = profile[i].since
  BY <1>2, MetricsAssumption DEF MetricsAssumption, TypeInv, Profile, Time
<1>4. \/ handler' = [handler EXCEPT ![h] = Finish(h, FALSE)]
      \/ found # {} /\ handler' = [handler EXCEPT ![h] = s]
  BY DEF Query, TypeInv
<1>. HIDE DEF found, z
<1>5. CASE handler' = [handler EXCEPT ![h] = Finish(h, FALSE)]
  BY <1>1, <1>5, FinishTyped, OneCheck
<1>6. CASE found # {} /\ handler' = [handler EXCEPT ![h] = s]
  <2>1. s \in Check /\ s.pc = "flush" /\ s.at = handler[h].at /\ s.todo = found /\ s.seen = z
    BY <1>1, <1>2, <1>3, <1>6 DEF Check, CheckState
  <2>. HIDE DEF s
  <2>. QED
    BY <1>1, <1>2, <1>3, <1>6, <2>1, OneCheck
<1>. QED
  BY <1>4, <1>5, <1>6

LEMMA FlushMoves ==
  ASSUME TypeInv, NEW h \in Handler, Flush(h)
  PROVE  /\ handler' \in [Handler -> Check]
         /\ \A g \in Handler \ {h} : handler'[g] = handler[g]
         /\ handler[h].pc = "flush"
         /\ \/ handler'[h].pc = "unlock"
            \/ /\ handler'[h].pc = "flush" /\ handler'[h].at = handler[h].at
               /\ handler'[h].todo \subseteq handler[h].todo
               /\ handler'[h].seen = handler[h].seen
         /\ \E S \in SUBSET handler[h].todo :
              row' = [i \in Item |-> IF i \in S THEN [at |-> Stamp(h), seen |-> handler[h].seen[i]]
                                               ELSE row[i]]
<1>1. handler[h] \in Check /\ handler[h].pc = "flush"
  BY DEF TypeInv, Flush, At
<1>2. PICK S \in SUBSET handler[h].todo :
        /\ row' = [i \in Item |-> IF i \in S THEN [at |-> Stamp(h), seen |-> handler[h].seen[i]]
                                             ELSE row[i]]
        /\ handler' = [handler EXCEPT ![h] =
             IF S = handler[h].todo THEN Finish(h, FALSE)
             ELSE [handler[h] EXCEPT !.todo = @ \ S]]
  BY DEF Flush, Flushed
<1>. DEFINE s == [handler[h] EXCEPT !.todo = @ \ S]
<1>3. \/ handler' = [handler EXCEPT ![h] = Finish(h, FALSE)]
      \/ S # handler[h].todo /\ handler' = [handler EXCEPT ![h] = s]
  BY <1>2 DEF TypeInv
<1>4. CASE handler' = [handler EXCEPT ![h] = Finish(h, FALSE)]
  BY <1>1, <1>2, <1>4, FinishTyped, OneCheck
<1>5. CASE S # handler[h].todo /\ handler' = [handler EXCEPT ![h] = s]
  <2>1. /\ s \in Check /\ s.pc = "flush" /\ s.at = handler[h].at
        /\ s.todo = handler[h].todo \ S /\ s.seen = handler[h].seen
    BY <1>1, <1>5 DEF Check, CheckState
  <2>. HIDE DEF s
  <2>. QED
    BY <1>1, <1>2, <1>5, <2>1, OneCheck
<1>. QED
  BY <1>3, <1>4, <1>5

LEMMA FailMoves ==
  ASSUME TypeInv, NEW h \in Handler, Fail(h)
  PROVE  /\ handler' \in [Handler -> Check]
         /\ \A g \in Handler \ {h} : handler'[g] = handler[g]
         /\ handler[h].pc \in {"begin", "query", "flush"} /\ handler'[h].pc = "unlock"
BY FinishTyped, OneCheck DEF Fail

\* A process that stops takes its checks and its sessions with it.
LEMMA CrashMoves ==
  ASSUME TypeInv, NEW n \in Pod, Crash(n)
  PROVE  /\ handler' \in [Handler -> Check]
         /\ \A h \in Handler : handler'[h] = IF PodOf[h] = n THEN Idle ELSE handler[h]
         /\ held' \in [Conn -> [Pair -> Nat]]
         /\ \A c \in Conn : held'[c] = IF c \in Pool[n] THEN [p \in Pair |-> 0] ELSE held[c]
         /\ waiter' \in [Conn -> Handler \cup {NoHandler}]
         /\ \A c \in Conn : waiter'[c] = IF c \in Pool[n] THEN NoHandler ELSE waiter[c]
BY IdleTyped DEF Crash, TypeInv

-----------------------------------------------------------------------------
(* The steps by what they leave alone.                                     *)

\* A step of check h that neither begins nor ends a wait, and what it reads of
\* the rest.
Plain(h) ==
  \/ \E p \in Pair, force \in BOOLEAN : Start(h, p, force)
  \/ ServeFresh(h) \/ FindStale(h) \/ Lock(h) \/ ServeStale(h)
  \/ Begin(h) \/ Query(h) \/ Flush(h) \/ Unlock(h) \/ Reread(h) \/ ReadRows(h)
  \/ Fail(h) \/ Throw(h)

\* A step that looks at no profile and writes no row.
Blind(h) ==
  \/ \E p \in Pair, force \in BOOLEAN : Start(h, p, force)
  \/ ServeFresh(h) \/ FindStale(h) \/ Lock(h) \/ ServeStale(h) \/ Wait(h)
  \/ Unlock(h) \/ Reread(h) \/ ReadRows(h) \/ Fail(h) \/ Throw(h)

\* The rest of the world.
World ==
  \/ \E c \in Conn : CloseIdle(c)
  \/ \E i \in Item : Change(i) \/ Delete(i)
  \/ Tick

LEMMA UnlockMoves ==
  ASSUME TypeInv, NEW h \in Handler, Unlock(h)
  PROVE  /\ handler' \in [Handler -> Check]
         /\ \A g \in Handler \ {h} : handler'[g] = handler[g]
         /\ handler[h].pc = "unlock" /\ handler'[h].pc \in {"idle", "reread"}
<1>1. handler[h].pc = "unlock" /\ (End(h) \/ Goto(h, "reread"))
  BY DEF Unlock, At
<1>. QED
  BY <1>1, EndMoves, GotoMoves

\* Every step of a check moves its own record only.
LEMMA PlainMoves ==
  ASSUME TypeInv, NEW h \in Handler, Plain(h)
  PROVE  /\ handler' \in [Handler -> Check]
         /\ \A g \in Handler \ {h} : handler'[g] = handler[g]
         /\ handler[h].pc # "wait" /\ handler'[h].pc # "wait"
         /\ waiter' = waiter
<1>1. ASSUME NEW p \in Pair, NEW force \in BOOLEAN, Start(h, p, force)
      PROVE  /\ handler' \in [Handler -> Check]
             /\ \A g \in Handler \ {h} : handler'[g] = handler[g]
             /\ handler[h].pc # "wait" /\ handler'[h].pc # "wait"
             /\ waiter' = waiter
  BY <1>1, StartMoves DEF Start
<1>2. CASE ReadRows(h) \/ Throw(h)
  <2>1. End(h) /\ handler[h].pc # "wait" /\ waiter' = waiter
    BY <1>2 DEF ReadRows, Throw, At
  <2>. QED
    BY <2>1, EndMoves
<1>10. CASE ServeFresh(h) \/ ServeStale(h) \/ Reread(h)
  <2>1. waiter' = waiter
    BY <1>10 DEF ServeFresh, ServeStale, Reread
  <2>. QED
    BY <1>10, <2>1, AnswerMoves
<1>3. CASE FindStale(h)
  BY <1>3, FindStaleMoves DEF FindStale
<1>4. CASE Lock(h)
  <2>1. handler[h].pc = "lock" /\ Enter(h) /\ waiter' = waiter
    BY <1>4 DEF Lock, At
  <2>. QED
    BY <2>1, EnterMoves
<1>5. CASE Begin(h)
  BY <1>5, BeginMoves DEF Begin
<1>6. CASE Query(h)
  BY <1>6, QueryMoves DEF Query
<1>7. CASE Flush(h)
  BY <1>7, FlushMoves DEF Flush
<1>8. CASE Unlock(h)
  BY <1>8, UnlockMoves DEF Unlock
<1>9. CASE Fail(h)
  BY <1>9, FailMoves DEF Fail
<1>. QED
  BY <1>1, <1>2, <1>3, <1>4, <1>5, <1>6, <1>7, <1>8, <1>9, <1>10 DEF Plain

LEMMA WaitMoves ==
  ASSUME TypeInv, NEW h \in Handler, Wait(h)
  PROVE  /\ handler' \in [Handler -> Check]
         /\ \A g \in Handler \ {h} : handler'[g] = handler[g]
         /\ handler[h].pc = "lock" /\ handler'[h].pc = "wait"
         /\ handler'[h].pair = handler[h].pair /\ handler'[h].told = handler[h].told
         /\ \E c \in Pool[PodOf[h]] : c \in Conn /\ waiter[c] = NoHandler
                                      /\ waiter' = [waiter EXCEPT ![c] = h]
<1>1. handler[h].pc = "lock" /\ Goto(h, "wait")
  BY DEF Wait, At
<1>2. PICK c \in Free(h) : waiter' = [waiter EXCEPT ![c] = h]
  BY DEF Wait
<1>3. c \in Pool[PodOf[h]] /\ c \in Conn /\ waiter[c] = NoHandler
  BY MetricsAssumption DEF MetricsAssumption, Free
<1>. QED
  BY <1>1, <1>2, <1>3, GotoMoves

\* A wait ends, well or not.
LEMMA WokenMoves ==
  ASSUME TypeInv, WaitInv, NEW c \in Conn, Grant(c) \/ Abort(c)
  PROVE  \E h \in Handler :
           /\ handler' \in [Handler -> Check]
           /\ \A g \in Handler \ {h} : handler'[g] = handler[g]
           /\ h = waiter[c] /\ handler[h].pc = "wait" /\ handler'[h].pc \in {"begin", "idle"}
           /\ waiter' = [waiter EXCEPT ![c] = NoHandler]
<1>1. PICK h \in Handler : h = waiter[c]
  BY DEF TypeInv, Grant, Abort
<1>2. h # NoHandler /\ handler[h].pc = "wait"
  BY <1>1, MetricsAssumption DEF MetricsAssumption, WaitInv, At
<1>3. Enter(h) \/ End(h)
  BY <1>1 DEF Grant, Abort
<1>4. waiter' = [waiter EXCEPT ![c] = NoHandler]
  BY DEF Grant, Abort
<1>. QED
  BY <1>1, <1>2, <1>3, <1>4, EnterMoves, EndMoves

LEMMA StepKinds ==
  ASSUME Next
  PROVE  \/ \E h \in Handler : Plain(h) \/ Wait(h)
         \/ \E c \in Conn : Grant(c) \/ Abort(c)
         \/ \E n \in Pod : Crash(n)
         \/ World
BY DEF Next, Plain, World, Serve

LEMMA WorldFrame ==
  ASSUME World
  PROVE  /\ handler' = handler /\ waiter' = waiter /\ row' = row /\ asked' = asked
         /\ overtaken' = overtaken
         /\ held' = held \/ \E c \in Conn : held' = [held EXCEPT ![c] = [p \in Pair |-> 0]]
BY DEF World, CloseIdle, Change, Delete, Tick

-----------------------------------------------------------------------------
(* Connections and the checks that wait on them.                           *)

LEMMA WaitKept ==
  ASSUME TypeInv, WaitInv, Next
  PROVE  WaitInv' /\ handler' \in [Handler -> Check] /\ waiter' \in [Conn -> Handler \cup {NoHandler}]
<1>. DEFINE Goal == WaitInv' /\ handler' \in [Handler -> Check]
                    /\ waiter' \in [Conn -> Handler \cup {NoHandler}]
<1>1. ASSUME NEW h \in Handler, Plain(h)
      PROVE  Goal
  <2>1. /\ handler' \in [Handler -> Check]
        /\ \A g \in Handler \ {h} : handler'[g] = handler[g]
        /\ handler[h].pc # "wait" /\ handler'[h].pc # "wait"
        /\ waiter' = waiter
    BY <1>1, PlainMoves
  <2>2. \A g \in Handler : handler'[g].pc = "wait" <=> handler[g].pc = "wait"
    BY <2>1
  <2>3. waiter \in [Conn -> Handler \cup {NoHandler}]
    BY DEF TypeInv
  <2>. QED
    BY <2>1, <2>2, <2>3 DEF WaitInv, At
<1>2. ASSUME NEW h \in Handler, Wait(h)
      PROVE  Goal
  <2>1. /\ handler' \in [Handler -> Check]
        /\ \A g \in Handler \ {h} : handler'[g] = handler[g]
        /\ handler[h].pc = "lock" /\ handler'[h].pc = "wait"
    BY <1>2, WaitMoves
  <2>2. PICK c \in Pool[PodOf[h]] : c \in Conn /\ waiter[c] = NoHandler
                                    /\ waiter' = [waiter EXCEPT ![c] = h]
    BY <1>2, WaitMoves
  <2>3. waiter \in [Conn -> Handler \cup {NoHandler}] /\ h # NoHandler
    BY MetricsAssumption DEF MetricsAssumption, TypeInv
  <2>4. waiter'[c] = h /\ \A d \in Conn \ {c} : waiter'[d] = waiter[d]
    BY <2>2, <2>3
  <2>5. \A d \in Conn : waiter[d] # h
    BY <2>1, <2>3 DEF WaitInv, At
  <2>6. \A d \in Conn : waiter'[d] # NoHandler =>
          d \in Pool[PodOf[waiter'[d]]] /\ handler'[waiter'[d]].pc = "wait"
    BY <2>1, <2>2, <2>3, <2>4, <2>5 DEF WaitInv, At
  <2>7. \A d, e \in Conn : waiter'[d] # NoHandler /\ waiter'[d] = waiter'[e] => d = e
    BY <2>4, <2>5 DEF WaitInv
  <2>8. ASSUME NEW g \in Handler, handler'[g].pc = "wait"
        PROVE  \E d \in Pool[PodOf[g]] : waiter'[d] = g
    <3>1. CASE g = h
      BY <2>2, <2>4, <3>1
    <3>2. CASE g # h
      <4>1. PICK d \in Pool[PodOf[g]] : waiter[d] = g
        BY <2>1, <2>8, <3>2 DEF WaitInv, At
      <4>2. d \in Conn /\ d # c /\ g # NoHandler
        BY <2>2, <4>1, MetricsAssumption DEF MetricsAssumption
      <4>. QED
        BY <2>4, <4>1, <4>2
    <3>. QED
      BY <3>1, <3>2
  <2>9. waiter' \in [Conn -> Handler \cup {NoHandler}]
    BY <2>2, <2>3
  <2>. QED
    BY <2>1, <2>6, <2>7, <2>8, <2>9 DEF WaitInv, At
<1>3. ASSUME NEW c \in Conn, Grant(c) \/ Abort(c)
      PROVE  Goal
  <2>1. PICK h \in Handler :
           /\ handler' \in [Handler -> Check]
           /\ \A g \in Handler \ {h} : handler'[g] = handler[g]
           /\ h = waiter[c] /\ handler[h].pc = "wait" /\ handler'[h].pc \in {"begin", "idle"}
           /\ waiter' = [waiter EXCEPT ![c] = NoHandler]
    BY <1>3, WokenMoves
  <2>2. waiter \in [Conn -> Handler \cup {NoHandler}] /\ h # NoHandler
    BY MetricsAssumption DEF MetricsAssumption, TypeInv
  <2>3. waiter'[c] = NoHandler /\ \A d \in Conn \ {c} : waiter'[d] = waiter[d]
    BY <2>1, <2>2
  <2>4. \A d \in Conn \ {c} : waiter[d] # h
    BY <2>1, <2>2 DEF WaitInv
  <2>5. \A d \in Conn : waiter'[d] # NoHandler =>
          d \in Pool[PodOf[waiter'[d]]] /\ handler'[waiter'[d]].pc = "wait"
    BY <2>1, <2>2, <2>3, <2>4 DEF WaitInv, At
  <2>6. \A d, e \in Conn : waiter'[d] # NoHandler /\ waiter'[d] = waiter'[e] => d = e
    BY <2>3 DEF WaitInv
  <2>7. ASSUME NEW g \in Handler, handler'[g].pc = "wait"
        PROVE  \E d \in Pool[PodOf[g]] : waiter'[d] = g
    <3>1. g # h
      BY <2>1, <2>7
    <3>2. PICK d \in Pool[PodOf[g]] : waiter[d] = g
      BY <2>1, <2>7, <3>1 DEF WaitInv, At
    <3>3. d \in Conn /\ d # c
      BY <2>1, <3>1, <3>2, MetricsAssumption DEF MetricsAssumption
    <3>. QED
      BY <2>3, <3>2, <3>3
  <2>8. waiter' \in [Conn -> Handler \cup {NoHandler}]
    BY <2>1, <2>2
  <2>. QED
    BY <2>1, <2>5, <2>6, <2>7, <2>8 DEF WaitInv, At
<1>4. ASSUME NEW n \in Pod, Crash(n)
      PROVE  Goal
  <2>1. /\ handler' \in [Handler -> Check]
        /\ \A h \in Handler : handler'[h] = IF PodOf[h] = n THEN Idle ELSE handler[h]
        /\ waiter' \in [Conn -> Handler \cup {NoHandler}]
        /\ \A c \in Conn : waiter'[c] = IF c \in Pool[n] THEN NoHandler ELSE waiter[c]
    BY <1>4, CrashMoves
  <2>2. ASSUME NEW d \in Conn, waiter'[d] # NoHandler
        PROVE  /\ waiter'[d] = waiter[d]
               /\ d \in Pool[PodOf[waiter'[d]]] /\ handler'[waiter'[d]].pc = "wait"
    <3>1. d \notin Pool[n] /\ waiter'[d] = waiter[d] /\ waiter[d] \in Handler
      BY <2>1, <2>2
    <3>2. d \in Pool[PodOf[waiter[d]]] /\ handler[waiter[d]].pc = "wait"
      BY <2>2, <3>1 DEF WaitInv, At
    <3>3. PodOf[waiter[d]] # n
      BY <3>1, <3>2
    <3>. QED
      BY <2>1, <3>1, <3>2, <3>3
  <2>3. \A d, e \in Conn : waiter'[d] # NoHandler /\ waiter'[d] = waiter'[e] => d = e
    BY <2>2 DEF WaitInv
  <2>4. ASSUME NEW g \in Handler, handler'[g].pc = "wait"
        PROVE  \E d \in Pool[PodOf[g]] : waiter'[d] = g
    <3>1. PodOf[g] # n /\ handler[g].pc = "wait" /\ PodOf[g] \in Pod
      BY <2>1, <2>4, IdleTyped, MetricsAssumption DEF MetricsAssumption
    <3>2. PICK d \in Pool[PodOf[g]] : waiter[d] = g
      BY <3>1 DEF WaitInv, At
    <3>3. d \in Conn /\ d \notin Pool[n]
      BY <3>1, <3>2, MetricsAssumption DEF MetricsAssumption
    <3>. QED
      BY <2>1, <3>2, <3>3
  <2>. QED
    BY <2>1, <2>2, <2>3, <2>4 DEF WaitInv, At
<1>5. CASE World
  <2>1. handler' = handler /\ waiter' = waiter
    BY <1>5, WorldFrame
  <2>. QED
    BY <2>1 DEF WaitInv, At, TypeInv
<1>. QED
  BY <1>1, <1>2, <1>3, <1>4, <1>5, StepKinds

-----------------------------------------------------------------------------
(* The locks that sessions hold are not more than the checks that were begun. *)

LEMMA LockTyped ==
  ASSUME TypeInv, NEW c \in Conn, NEW p \in Pair
  PROVE  /\ Taken(c, p) \in [Conn -> [Pair -> Nat]] /\ Given(c, p) \in [Conn -> [Pair -> Nat]]
         /\ \A d \in Conn, q \in Pair :
              Taken(c, p)[d][q] <= held[d][q] + 1 /\ Given(c, p)[d][q] <= held[d][q]
<1>1. held \in [Conn -> [Pair -> Nat]]
  BY DEF TypeInv
<1>2. Taken(c, p) \in [Conn -> [Pair -> Nat]] /\ Given(c, p) \in [Conn -> [Pair -> Nat]]
  BY <1>1 DEF Taken, Given
<1>3. ASSUME NEW d \in Conn, NEW q \in Pair
      PROVE  Taken(c, p)[d][q] <= held[d][q] + 1
  <2>1. held[d][q] \in Nat
    BY <1>1
  <2>2. Taken(c, p)[d][q] \in {held[d][q], held[d][q] + 1}
    BY <1>1 DEF Taken
  <2>. QED
    BY <2>1, <2>2
<1>4. ASSUME NEW d \in Conn, NEW q \in Pair
      PROVE  Given(c, p)[d][q] <= held[d][q]
  <2>1. held[d][q] \in Nat
    BY <1>1
  <2>2. Given(c, p)[d][q] \in {held[d][q], held[d][q] - 1, 0}
    BY <1>1 DEF Given
  <2>. QED
    BY <2>1, <2>2
<1>. QED
  BY <1>2, <1>3, <1>4

\* No check comes to wait for a lock, and no lock is taken.
LEMMA HeldFrame ==
  ASSUME TypeInv, HeldInv, Pending' \subseteq Pending, asked' = asked,
         held' \in [Conn -> [Pair -> Nat]],
         \A c \in Conn, p \in Pair : held'[c][p] <= held[c][p]
  PROVE  HeldInv'
<1>1. Pending' \in SUBSET Pending /\ IsFiniteSet(Pending)
  BY DEF HeldInv
<1>2. IsFiniteSet(Pending') /\ Cardinality(Pending') <= Cardinality(Pending)
  BY <1>1, FS_Subset
<1>3. Cardinality(Pending') \in Nat /\ Cardinality(Pending) \in Nat
  BY <1>1, <1>2, FS_CardinalityType
<1>4. asked \in Nat /\ held \in [Conn -> [Pair -> Nat]]
  BY MetricsAssumption DEF MetricsAssumption, TypeInv
<1>5. Cardinality(Pending') <= asked
  BY <1>2, <1>3, <1>4 DEF HeldInv
<1>6. ASSUME NEW c \in Conn, NEW p \in Pair
      PROVE  held'[c][p] + Cardinality(Pending') <= asked
  <2>1. held'[c][p] \in Nat /\ held[c][p] \in Nat /\ held'[c][p] <= held[c][p]
    BY <1>4
  <2>2. held[c][p] + Cardinality(Pending) <= asked
    BY DEF HeldInv
  <2>. QED
    BY <1>2, <1>3, <1>4, <2>1, <2>2
<1>. QED
  BY <1>2, <1>5, <1>6 DEF HeldInv

\* A check that waited, or was about to, takes one lock.
LEMMA HeldTakes ==
  ASSUME TypeInv, HeldInv, NEW h \in Pending, Pending' = Pending \ {h}, asked' = asked,
         NEW c \in Conn, NEW p \in Pair, held' = Taken(c, p)
  PROVE  HeldInv'
<1>1. IsFiniteSet(Pending)
  BY DEF HeldInv
<1>2. IsFiniteSet(Pending') /\ Cardinality(Pending') = Cardinality(Pending) - 1
  BY <1>1, FS_RemoveElement
<1>3. Cardinality(Pending') \in Nat /\ Cardinality(Pending) \in Nat
  BY <1>1, <1>2, FS_CardinalityType
<1>4. asked \in Nat /\ held \in [Conn -> [Pair -> Nat]] /\ held' \in [Conn -> [Pair -> Nat]]
  BY LockTyped, MetricsAssumption DEF MetricsAssumption, TypeInv
<1>5. Cardinality(Pending') <= asked
  BY <1>2, <1>3, <1>4 DEF HeldInv
<1>6. ASSUME NEW d \in Conn, NEW q \in Pair
      PROVE  held'[d][q] + Cardinality(Pending') <= asked
  <2>1. held'[d][q] \in Nat /\ held[d][q] \in Nat
    BY <1>4
  <2>2. held'[d][q] <= held[d][q] + 1
    BY LockTyped
  <2>3. held[d][q] + Cardinality(Pending) <= asked
    BY DEF HeldInv
  <2>. QED
    BY <1>2, <1>3, <1>4, <2>1, <2>2, <2>3
<1>. QED
  BY <1>2, <1>5, <1>6 DEF HeldInv

LEMMA HeldStarts ==
  ASSUME TypeInv, HeldInv, NEW h \in Handler, h \notin Pending, Pending' = Pending \cup {h},
         asked' = asked + 1, held' = held
  PROVE  HeldInv'
<1>1. IsFiniteSet(Pending)
  BY DEF HeldInv
<1>2. IsFiniteSet(Pending') /\ Cardinality(Pending') = Cardinality(Pending) + 1
  BY <1>1, FS_AddElement
<1>3. Cardinality(Pending) \in Nat
  BY <1>1, FS_CardinalityType
<1>4. asked \in Nat /\ held \in [Conn -> [Pair -> Nat]]
  BY MetricsAssumption DEF MetricsAssumption, TypeInv
<1>5. Cardinality(Pending') <= asked'
  BY <1>2, <1>3, <1>4 DEF HeldInv
<1>6. ASSUME NEW d \in Conn, NEW q \in Pair
      PROVE  held'[d][q] + Cardinality(Pending') <= asked'
  <2>1. held[d][q] \in Nat /\ held[d][q] + Cardinality(Pending) <= asked
    BY <1>4 DEF HeldInv
  <2>. QED
    BY <1>2, <1>3, <1>4, <2>1
<1>. QED
  BY <1>2, <1>5, <1>6 DEF HeldInv

\* One check moved: what that does to the checks that may take a lock.
LEMMA PendingMoves ==
  ASSUME NEW h \in Handler, \A g \in Handler \ {h} : handler'[g] = handler[g]
  PROVE  /\ handler'[h].pc \notin {"check", "lock", "wait"} => Pending' = Pending \ {h}
         /\ handler'[h].pc \in {"check", "lock", "wait"} => Pending' = Pending \cup {h}
         /\ handler[h].pc \in {"check", "lock", "wait"} <=> h \in Pending
BY DEF Pending

LEMMA HeldKept ==
  ASSUME TypeInv, WaitInv, HeldInv, Next
  PROVE  HeldInv' /\ held' \in [Conn -> [Pair -> Nat]] /\ asked' \in 0 .. MaxRequests
<1>. DEFINE Goal == HeldInv' /\ held' \in [Conn -> [Pair -> Nat]] /\ asked' \in 0 .. MaxRequests
<1>0. held \in [Conn -> [Pair -> Nat]] /\ asked \in 0 .. MaxRequests
      /\ \A h \in Handler : handler[h].pair \in Pair
  BY DEF TypeInv, Check, CheckState
<1>a. \A c \in Conn, p \in Pair : held[c][p] \in Nat /\ held[c][p] <= held[c][p]
  BY <1>0
<1>1. ASSUME NEW h \in Handler, NEW p \in Pair, NEW force \in BOOLEAN, Start(h, p, force)
      PROVE  Goal
  <2>1. Pending' = Pending \cup {h} /\ h \notin Pending
    BY <1>1, StartMoves, PendingMoves
  <2>2. asked' = asked + 1 /\ held' = held /\ asked' \in 0 .. MaxRequests
    BY <1>0, <1>1, MetricsAssumption DEF MetricsAssumption, Start
  <2>. QED
    BY <1>0, <2>1, <2>2, HeldStarts
<1>2. ASSUME NEW h \in Handler,
             ServeFresh(h) \/ ServeStale(h) \/ Reread(h) \/ ReadRows(h) \/ Throw(h)
             \/ Begin(h) \/ Query(h) \/ Flush(h) \/ Fail(h)
      PROVE  Goal
  <2>1. held' = held /\ asked' = asked
    BY <1>2 DEF ServeFresh, ServeStale, Reread, ReadRows, Throw, Begin, Query, Flush, Fail
  <2>2. /\ \A g \in Handler \ {h} : handler'[g] = handler[g]
        /\ handler'[h].pc \notin {"check", "lock", "wait"}
    <3>1. CASE ReadRows(h) \/ Throw(h)
      BY <3>1, EndMoves DEF ReadRows, Throw
    <3>3. CASE ServeFresh(h) \/ ServeStale(h) \/ Reread(h)
      BY <3>3, AnswerMoves
    <3>2. CASE Begin(h) \/ Query(h) \/ Flush(h) \/ Fail(h)
      BY <3>2, BeginMoves, QueryMoves, FlushMoves, FailMoves
    <3>. QED
      BY <1>2, <3>1, <3>2, <3>3
  <2>3. Pending' \subseteq Pending
    BY <2>2, PendingMoves
  <2>. QED
    BY <1>0, <1>a, <2>1, <2>3, HeldFrame
<1>3. ASSUME NEW h \in Handler, FindStale(h) \/ Wait(h)
      PROVE  Goal
  <2>1. held' = held /\ asked' = asked
    BY <1>3 DEF FindStale, Wait
  <2>2. /\ \A g \in Handler \ {h} : handler'[g] = handler[g]
        /\ handler[h].pc \in {"check", "lock"} /\ handler'[h].pc \in {"lock", "wait"}
    BY <1>3, FindStaleMoves, WaitMoves
  <2>3. Pending' \subseteq Pending
    BY <2>1, <2>2, PendingMoves
  <2>. QED
    BY <1>0, <1>a, <2>1, <2>3, HeldFrame
<1>4. ASSUME NEW h \in Handler, Lock(h)
      PROVE  Goal
  <2>1. handler[h].pc = "lock" /\ Enter(h) /\ asked' = asked
    BY <1>4 DEF Lock, At
  <2>2. PICK c \in Free(h) : held' = Taken(c, handler[h].pair)
    BY <1>4 DEF Lock
  <2>3. c \in Conn
    BY MetricsAssumption DEF MetricsAssumption, Free
  <2>4. h \in Pending /\ Pending' = Pending \ {h}
    BY <2>1, EnterMoves, PendingMoves
  <2>. QED
    BY <1>0, <2>1, <2>2, <2>3, <2>4, HeldTakes, LockTyped
<1>5. ASSUME NEW c \in Conn, Grant(c)
      PROVE  Goal
  <2>1. PICK h \in Handler : h = waiter[c]
    BY <1>5 DEF TypeInv, Grant
  <2>2. h # NoHandler /\ handler[h].pc = "wait"
    BY <2>1, MetricsAssumption DEF MetricsAssumption, WaitInv, At
  <2>3. held' = Taken(c, handler[h].pair) /\ asked' = asked /\ Enter(h)
    BY <1>5, <2>1 DEF Grant
  <2>4. h \in Pending /\ Pending' = Pending \ {h}
    BY <2>2, <2>3, EnterMoves, PendingMoves
  <2>. QED
    BY <1>0, <2>3, <2>4, HeldTakes, LockTyped
<1>6. ASSUME NEW c \in Conn, Abort(c)
      PROVE  Goal
  <2>1. PICK h \in Handler :
           /\ \A g \in Handler \ {h} : handler'[g] = handler[g]
           /\ handler[h].pc = "wait" /\ handler'[h].pc \in {"begin", "idle"}
    BY <1>6, WokenMoves
  <2>2. held' = held /\ asked' = asked
    BY <1>6 DEF Abort
  <2>3. Pending' \subseteq Pending
    BY <2>1, PendingMoves
  <2>. QED
    BY <1>0, <1>a, <2>2, <2>3, HeldFrame
<1>7. ASSUME NEW h \in Handler, Unlock(h)
      PROVE  Goal
  <2>1. PICK c \in Free(h) : held' = Given(c, handler[h].pair)
    BY <1>7 DEF Unlock
  <2>2. c \in Conn /\ asked' = asked
    BY <1>7, MetricsAssumption DEF MetricsAssumption, Free, Unlock
  <2>3. Pending' \subseteq Pending
    BY <1>7, UnlockMoves, PendingMoves
  <2>4. held' \in [Conn -> [Pair -> Nat]] /\ \A d \in Conn, q \in Pair : held'[d][q] <= held[d][q]
    BY <1>0, <2>1, <2>2, LockTyped
  <2>. QED
    BY <1>0, <2>2, <2>3, <2>4, HeldFrame
<1>8. ASSUME NEW n \in Pod, Crash(n)
      PROVE  Goal
  <2>1. /\ \A h \in Handler : handler'[h] = IF PodOf[h] = n THEN Idle ELSE handler[h]
        /\ held' \in [Conn -> [Pair -> Nat]]
        /\ \A c \in Conn : held'[c] = IF c \in Pool[n] THEN [p \in Pair |-> 0] ELSE held[c]
    BY <1>8, CrashMoves
  <2>2. asked' = asked
    BY <1>8 DEF Crash
  <2>3. Pending' \subseteq Pending
    BY <2>1, IdleTyped DEF Pending
  <2>4. \A c \in Conn, p \in Pair : held'[c][p] <= held[c][p]
    BY <1>a, <2>1
  <2>. QED
    BY <1>0, <2>1, <2>2, <2>3, <2>4, HeldFrame
<1>9. CASE World
  <2>1. /\ handler' = handler /\ asked' = asked
        /\ held' = held \/ \E c \in Conn : held' = [held EXCEPT ![c] = [p \in Pair |-> 0]]
    BY <1>9, WorldFrame
  <2>2. Pending' \subseteq Pending
    BY <2>1 DEF Pending
  <2>3. held' \in [Conn -> [Pair -> Nat]]
    BY <1>0, <2>1
  <2>4. \A c \in Conn, p \in Pair : held'[c][p] <= held[c][p]
    BY <1>0, <1>a, <2>1
  <2>. QED
    BY <1>0, <2>1, <2>2, <2>3, <2>4, HeldFrame
<1>10. ASSUME NEW h \in Handler, Plain(h) \/ Wait(h)
       PROVE  Goal
  BY <1>10, <1>1, <1>2, <1>3, <1>4, <1>7 DEF Plain
<1>. QED
  BY <1>5, <1>6, <1>8, <1>9, <1>10, StepKinds

-----------------------------------------------------------------------------
(* The clock, the profiles and their rows.                                 *)

\* A step that looks at no profile moves no check into a recomputation's reading
\* and writing.
LEMMA BlindMoves ==
  ASSUME TypeInv, NEW h \in Handler, Blind(h)
  PROVE  /\ \A g \in Handler \ {h} : handler'[g] = handler[g]
         /\ handler'[h].pc \notin {"query", "flush"}
         /\ UNCHANGED <<now, profile, row, changes>>
<1>1. ASSUME NEW p \in Pair, NEW force \in BOOLEAN, Start(h, p, force)
      PROVE  /\ \A g \in Handler \ {h} : handler'[g] = handler[g]
             /\ handler'[h].pc \notin {"query", "flush"}
             /\ UNCHANGED <<now, profile, row, changes>>
  BY <1>1, StartMoves DEF Start
<1>2. CASE ReadRows(h) \/ Throw(h)
  BY <1>2, EndMoves DEF ReadRows, Throw
<1>7. CASE ServeFresh(h) \/ ServeStale(h) \/ Reread(h)
  <2>1. UNCHANGED <<now, profile, row, changes>>
    BY <1>7 DEF ServeFresh, ServeStale, Reread
  <2>. QED
    BY <1>7, <2>1, AnswerMoves
<1>3. CASE FindStale(h) \/ Wait(h)
  <2>1. UNCHANGED <<now, profile, row, changes>>
    BY <1>3 DEF FindStale, Wait
  <2>. QED
    BY <1>3, <2>1, FindStaleMoves, WaitMoves
<1>4. CASE Lock(h)
  BY <1>4, EnterMoves DEF Lock
<1>5. CASE Unlock(h)
  BY <1>5, UnlockMoves DEF Unlock
<1>6. CASE Fail(h)
  BY <1>6, FailMoves DEF Fail
<1>. QED
  BY <1>1, <1>2, <1>3, <1>4, <1>5, <1>6, <1>7 DEF Blind

\* What a change of a profile does: its last change is now.
LEMMA ChangeMoves ==
  ASSUME TypeInv, NEW i \in Item, Change(i) \/ Delete(i)
  PROVE  /\ profile' \in [Item -> Profile] /\ changes' \in 0 .. MaxChanges
         /\ profile'[i].since = now /\ \A j \in Item \ {i} : profile'[j] = profile[j]
         /\ UNCHANGED <<now, row, handler>>
<1>1. profile \in [Item -> Profile] /\ now \in Time /\ changes \in 0 .. MaxChanges
  BY DEF TypeInv
<1>2. PICK st \in {"here", "gone"} :
        profile' = [profile EXCEPT ![i] = [state |-> st, since |-> now]]
  BY DEF Change, Delete
<1>3. changes' \in 0 .. MaxChanges
  BY <1>1, MetricsAssumption DEF MetricsAssumption, Change, Delete
<1>4. [state |-> st, since |-> now] \in Profile
  BY <1>1 DEF Profile
<1>5. profile' \in [Item -> Profile] /\ profile'[i].since = now
      /\ \A j \in Item \ {i} : profile'[j] = profile[j]
  BY <1>1, <1>2, <1>4
<1>. QED
  BY <1>3, <1>5 DEF Change, Delete

\* No clock, profile or row moves, and no check comes to read or write them.
LEMMA SeenFrame ==
  ASSUME TypeInv, SeenInv, UNCHANGED <<now, profile, row>>,
         \A h \in Handler :
           handler'[h].pc \in {"query", "flush"} => handler'[h] = handler[h]
  PROVE  SeenInv'
BY DEF SeenInv

LEMMA SeenKept ==
  ASSUME TypeInv, WaitInv, SeenInv, Next
  PROVE  /\ SeenInv'
         /\ now' \in Time /\ profile' \in [Item -> Profile]
         /\ row' \in [Item -> Row \cup {NoRow}] /\ changes' \in 0 .. MaxChanges
<1>. DEFINE Types == /\ now' \in Time /\ profile' \in [Item -> Profile]
                     /\ row' \in [Item -> Row \cup {NoRow}] /\ changes' \in 0 .. MaxChanges
            Goal == SeenInv' /\ Types
<1>0. /\ now \in Time /\ profile \in [Item -> Profile]
      /\ row \in [Item -> Row \cup {NoRow}] /\ changes \in 0 .. MaxChanges
      /\ \A i \in Item : profile[i].since \in Time
      /\ \A h \in Handler : handler[h].at \in Time /\ handler[h].todo \subseteq Item
                            /\ handler[h].seen \in [Item -> Time]
  BY DEF TypeInv, Check, CheckState, Profile
<1>a. \A t \in Time : t \in Nat /\ t <= t
  BY MetricsAssumption DEF MetricsAssumption, Time
<1>b. UNCHANGED <<now, profile, row, changes>> => Types
  BY <1>0
<1>1. ASSUME NEW h \in Handler, Blind(h)
      PROVE  Goal
  BY <1>1, <1>b, BlindMoves, SeenFrame
<1>2. ASSUME NEW h \in Handler, Begin(h)
      PROVE  Goal
  <2>1. UNCHANGED <<now, profile, row, changes>>
    BY <1>2 DEF Begin
  <2>2. /\ \A g \in Handler \ {h} : handler'[g] = handler[g]
        /\ \/ handler'[h].pc = "unlock"
           \/ handler'[h].pc = "query" /\ handler'[h].at = now /\ handler'[h].todo = {}
    BY <1>2, BeginMoves
  <2>3. SeenInv'
    BY <1>0, <1>a, <2>1, <2>2 DEF SeenInv
  <2>. QED
    BY <1>b, <2>1, <2>3
<1>3. ASSUME NEW h \in Handler, Query(h)
      PROVE  Goal
  <2>1. UNCHANGED <<now, profile, row, changes>>
    BY <1>3 DEF Query
  <2>2. /\ \A g \in Handler \ {h} : handler'[g] = handler[g]
        /\ handler[h].pc = "query"
        /\ \/ handler'[h].pc = "unlock"
           \/ /\ handler'[h].pc = "flush" /\ handler'[h].at = handler[h].at
              /\ handler'[h].todo \subseteq Item
              /\ \A i \in handler'[h].todo : handler'[h].seen[i] = profile[i].since
    BY <1>3, QueryMoves
  <2>3. SeenInv'
    BY <2>1, <2>2 DEF SeenInv
  <2>. QED
    BY <1>b, <2>1, <2>3
<1>4. ASSUME NEW h \in Handler, Flush(h)
      PROVE  Goal
  <2>1. UNCHANGED <<now, profile, changes>>
    BY <1>4 DEF Flush
  <2>2. /\ \A g \in Handler \ {h} : handler'[g] = handler[g]
        /\ handler[h].pc = "flush"
        /\ \/ handler'[h].pc = "unlock"
           \/ /\ handler'[h].pc = "flush" /\ handler'[h].at = handler[h].at
              /\ handler'[h].todo \subseteq handler[h].todo
              /\ handler'[h].seen = handler[h].seen
    BY <1>4, FlushMoves
  <2>3. PICK S \in SUBSET handler[h].todo :
          row' = [i \in Item |-> IF i \in S THEN [at |-> Stamp(h), seen |-> handler[h].seen[i]]
                                           ELSE row[i]]
    BY <1>4, FlushMoves
  <2>4. /\ handler[h].at <= now
        /\ \A i \in S : handler[h].seen[i] = profile[i].since \/ handler[h].at <= profile[i].since
    BY <2>2 DEF SeenInv
  <2>5. \A i \in Item :
          /\ i \in S => row'[i] \in Row /\ row'[i].at = handler[h].at
                        /\ row'[i].seen = handler[h].seen[i]
          /\ i \notin S => row'[i] = row[i]
    BY <1>0, <2>3 DEF Stamp, Row
  <2>6. row' \in [Item -> Row \cup {NoRow}]
    BY <1>0, <2>3, <2>5
  <2>7. \A i \in Item : row'[i] # NoRow =>
          row'[i].at <= now /\ (row'[i].seen = profile[i].since \/ row'[i].at <= profile[i].since)
    BY <2>4, <2>5 DEF SeenInv
  <2>8. SeenInv'
    BY <2>1, <2>2, <2>7 DEF SeenInv
  <2>. QED
    BY <1>0, <2>1, <2>6, <2>8
<1>5. ASSUME NEW c \in Conn, Grant(c) \/ Abort(c)
      PROVE  Goal
  <2>1. \E h \in Handler :
           /\ \A g \in Handler \ {h} : handler'[g] = handler[g]
           /\ handler'[h].pc \in {"begin", "idle"}
    BY <1>5, WokenMoves
  <2>2. UNCHANGED <<now, profile, row, changes>>
    BY <1>5 DEF Grant, Abort
  <2>. QED
    BY <1>b, <2>1, <2>2, SeenFrame
<1>6. ASSUME NEW n \in Pod, Crash(n)
      PROVE  Goal
  <2>1. \A h \in Handler : handler'[h] = IF PodOf[h] = n THEN Idle ELSE handler[h]
    BY <1>6, CrashMoves
  <2>2. UNCHANGED <<now, profile, row, changes>>
    BY <1>6 DEF Crash
  <2>. QED
    BY <1>b, <2>1, <2>2, IdleTyped, SeenFrame
<1>7. ASSUME NEW c \in Conn, CloseIdle(c)
      PROVE  Goal
  BY <1>7, <1>b, SeenFrame DEF CloseIdle
<1>8. ASSUME NEW i \in Item, Change(i) \/ Delete(i)
      PROVE  Goal
  <2>1. /\ profile' \in [Item -> Profile] /\ changes' \in 0 .. MaxChanges
        /\ profile'[i].since = now /\ \A j \in Item \ {i} : profile'[j] = profile[j]
        /\ UNCHANGED <<now, row, handler>>
    BY <1>8, ChangeMoves
  <2>2. \A j \in Item : profile'[j].since = profile[j].since \/ profile'[j].since = now
    BY <2>1
  <2>3. \A j \in Item : profile'[j].since <= now
    BY <1>0, <1>a, <2>2 DEF SeenInv
  <2>4. \A j \in Item : row[j] # NoRow =>
          row[j].at <= now /\ (row[j].seen = profile'[j].since \/ row[j].at <= profile'[j].since)
    BY <2>2 DEF SeenInv
  <2>5. \A h \in Handler : handler[h].pc \in {"query", "flush"} =>
          /\ handler[h].at <= now
          /\ \A j \in handler[h].todo :
               handler[h].seen[j] = profile'[j].since \/ handler[h].at <= profile'[j].since
    BY <1>0, <2>2 DEF SeenInv
  <2>6. SeenInv'
    BY <2>1, <2>3, <2>4, <2>5 DEF SeenInv
  <2>. QED
    BY <1>0, <2>1, <2>6
<1>9. CASE Tick
  <2>1. UNCHANGED <<profile, row, handler, changes>> /\ now' = now + 1 /\ now' \in Time
    BY <1>0, <1>9, MetricsAssumption DEF MetricsAssumption, Tick, Time
  <2>2. \A t \in Time : t <= now => t <= now'
    BY <1>0, <1>a, <2>1
  <2>3. \A i \in Item : row[i] # NoRow => row[i].at \in Time
    BY <1>0 DEF Row
  <2>4. SeenInv'
    BY <1>0, <2>1, <2>2, <2>3 DEF SeenInv
  <2>. QED
    BY <1>0, <2>1, <2>4
<1>10. ASSUME NEW h \in Handler, Plain(h) \/ Wait(h)
       PROVE  Goal
  BY <1>10, <1>1, <1>2, <1>3, <1>4 DEF Plain, Blind
<1>. QED
  BY <1>5, <1>6, <1>7, <1>8, <1>9, <1>10, StepKinds DEF World

-----------------------------------------------------------------------------
(* What the checks were told.                                              *)

\* A check that does not move, while no row is written.
LEMMA ToldFrame ==
  ASSUME NEW h \in Handler, Told(h), handler'[h] = handler[h], row' = row,
         h \notin overtaken' => h \notin overtaken
  PROVE  Told(h)'
<1>1. RowsOf(handler[h].pair)' = RowsOf(handler[h].pair)
  BY DEF RowsOf, ItemsOf
<1>. QED
  BY <1>1 DEF Told, At

\* The check that moves, and is not waiting for rows now.
LEMMA ToldRests ==
  ASSUME NEW h \in Handler, handler'[h].pc \notin {"lock", "wait", "read"}
  PROVE  Told(h)'
BY DEF Told, At

LEMMA ToldMoves ==
  ASSUME TypeInv, ToldInv, NEW h \in Handler, Plain(h) \/ Wait(h), ~Flush(h)
  PROVE  Told(h)' /\ row' = row /\ overtaken' \in {overtaken, overtaken \ {h}}
<1>. DEFINE p == handler[h].pair
            Goal == Told(h)' /\ row' = row /\ overtaken' \in {overtaken, overtaken \ {h}}
<1>0. p \in Pair /\ now \in Time /\ Told(h)
  BY DEF TypeInv, Check, CheckState, ToldInv
<1>1. /\ Oldest(p) \in Time /\ \A i \in RowsOf(p) : Oldest(p) <= row[i].at
      /\ RowsOf(p) # {} => \E i \in RowsOf(p) : Oldest(p) = row[i].at
  BY <1>0, OldestTyped
<1>2. ASSUME row' = row, handler'[h].pair = p
      PROVE  RowsOf(handler[h].pair)' = RowsOf(p)
  BY <1>2 DEF RowsOf, ItemsOf
<1>3. CASE FindStale(h)
  <2>1. row' = row /\ overtaken' = overtaken \ {h}
    BY <1>3 DEF FindStale
  <2>2. handler'[h].pc = "lock" /\ handler'[h].pair = p /\ handler'[h].told = Oldest(p)
    BY <1>3, FindStaleMoves
  <2>. QED
    BY <1>1, <1>2, <2>1, <2>2 DEF Told, At
<1>4. CASE ServeFresh(h) \/ Reread(h)
  <2>1. row' = row /\ overtaken' = overtaken \ {h}
    BY <1>4 DEF ServeFresh, Reread
  <2>2. /\ handler'[h].pc = "read" /\ handler'[h].pair = p /\ handler'[h].told = Oldest(p)
        /\ handler'[h].at = now
        /\ handler'[h].answer = "fresh" => ServeFresh(h)
    BY <1>4, AnswerMoves
  <2>3. ServeFresh(h) => now <= Oldest(p) + TTL
    <3>1. SUFFICES ASSUME ServeFresh(h)
                   PROVE  now <= Oldest(p) + TTL
      OBVIOUS
    <3>2. ~Stale(p)
      BY <3>1 DEF ServeFresh
    <3>3. PICK i \in RowsOf(p) : Oldest(p) = row[i].at
      BY <1>1, <3>2 DEF Stale
    <3>4. ~(now - Oldest(p) > TTL)
      BY <3>2, <3>3 DEF Stale
    <3>. HIDE DEF p
    <3>. QED
      BY <1>0, <1>1, <3>4, MetricsAssumption DEF MetricsAssumption, Time
  <2>. HIDE DEF p
  <2>4. PICK q : q = p
    OBVIOUS
  <2>5. PICK t : t = Oldest(p)
    OBVIOUS
  <2>6. handler'[h].told = t /\ RowsOf(handler[h].pair)' = RowsOf(p)
    BY <1>2, <2>1, <2>2, <2>5
  <2>7. \A i \in RowsOf(p) : t <= row[i].at
    BY <1>1, <2>5
  <2>8. handler'[h].answer = "fresh" => handler'[h].at <= t + TTL
    BY <2>2, <2>3, <2>5
  <2>. QED
    BY <2>1, <2>2, <2>6, <2>7, <2>8 DEF Told, At
<1>5. CASE ServeStale(h)
  <2>1. row' = row /\ overtaken' = overtaken /\ handler[h].pc = "lock"
    BY <1>5 DEF ServeStale, At
  <2>2. /\ handler'[h].pc = "read" /\ handler'[h].pair = p
        /\ handler'[h].told = handler[h].told /\ handler'[h].answer # "fresh"
    BY <1>5, AnswerMoves
  <2>. QED
    BY <1>0, <1>2, <2>1, <2>2 DEF Told, At
<1>6. CASE Wait(h)
  <2>1. row' = row /\ overtaken' = overtaken
    BY <1>6 DEF Wait
  <2>2. /\ handler[h].pc = "lock" /\ handler'[h].pc = "wait" /\ handler'[h].pair = p
        /\ handler'[h].told = handler[h].told
    BY <1>6, WaitMoves
  <2>. QED
    BY <1>0, <1>2, <2>1, <2>2 DEF Told, At
<1>7. ASSUME \/ \E q \in Pair, force \in BOOLEAN : Start(h, q, force)
             \/ Lock(h) \/ Begin(h) \/ Query(h) \/ Unlock(h) \/ ReadRows(h) \/ Fail(h) \/ Throw(h)
      PROVE  Goal
  <2>1. row' = row /\ overtaken' = overtaken
    BY <1>7 DEF Start, Lock, Begin, Query, Unlock, ReadRows, Fail, Throw
  <2>2. handler'[h].pc \notin {"lock", "wait", "read"}
    <3>1. CASE ReadRows(h) \/ Throw(h)
      BY <3>1, EndMoves DEF ReadRows, Throw
    <3>2. CASE Lock(h)
      BY <3>2, EnterMoves DEF Lock
    <3>. QED
      BY <1>7, <3>1, <3>2, StartMoves, BeginMoves, QueryMoves, UnlockMoves, FailMoves
  <2>. QED
    BY <2>1, <2>2, ToldRests
<1>. QED
  BY <1>3, <1>4, <1>5, <1>6, <1>7 DEF Plain

\* A batch makes no row older than a check was told, unless it overtakes it.
LEMMA ToldFlushed ==
  ASSUME TypeInv, ToldInv, NEW h \in Handler, Flush(h), NEW g \in Handler
  PROVE  Told(g)'
<1>1. /\ \A f \in Handler \ {h} : handler'[f] = handler[f]
      /\ handler'[h].pc \in {"unlock", "flush"}
  BY FlushMoves
<1>2. CASE g = h
  BY <1>1, <1>2, ToldRests
<1>3. CASE g # h
  <2>1. PICK S \in SUBSET handler[h].todo :
          row' = [i \in Item |-> IF i \in S THEN [at |-> Stamp(h), seen |-> handler[h].seen[i]]
                                           ELSE row[i]]
    BY FlushMoves
  <2>2. handler'[g] = handler[g]
    BY <1>1, <1>3
  <2>3. g \notin overtaken' =>
          /\ g \notin overtaken
          /\ handler[g].pair = handler[h].pair => ~(Stamp(h) < handler[g].told)
    BY DEF Flush
  <2>4. /\ handler[h].at \in Nat /\ handler[g].told \in Nat
        /\ handler[h].todo \subseteq ItemsOf(handler[h].pair)
    BY MetricsAssumption DEF MetricsAssumption, Time, TypeInv, Check, CheckState
  <2>5. ASSUME NEW i \in Item, PairOf[i] = handler[g].pair, row'[i] # NoRow,
               handler[g].pc \in {"lock", "wait", "read"}, g \notin overtaken'
        PROVE  handler[g].told <= row'[i].at
    <3>1. CASE i \in S
      <4>1. row'[i].at = handler[h].at
        BY <2>1, <3>1 DEF Stamp
      <4>2. handler[g].pair = handler[h].pair
        BY <2>4, <2>5, <3>1 DEF ItemsOf
      <4>. QED
        BY <2>3, <2>4, <2>5, <4>1, <4>2 DEF Stamp
    <3>2. CASE i \notin S
      <4>1. row'[i] = row[i]
        BY <2>1, <3>2
      <4>2. i \in RowsOf(handler[g].pair)
        BY <2>5, <4>1 DEF RowsOf, ItemsOf
      <4>. QED
        BY <2>3, <2>5, <4>1, <4>2 DEF ToldInv, Told
    <3>. QED
      BY <3>1, <3>2
  <2>6. At(g, "read") /\ handler[g].answer = "fresh" => handler[g].at <= handler[g].told + TTL
    BY DEF ToldInv, Told
  <2>. QED
    BY <2>2, <2>5, <2>6 DEF Told, At, RowsOf, ItemsOf
<1>. QED
  BY <1>2, <1>3

LEMMA ToldKept ==
  ASSUME TypeInv, WaitInv, ToldInv, Next
  PROVE  ToldInv' /\ overtaken' \in SUBSET Handler
<1>. DEFINE Goal == ToldInv' /\ overtaken' \in SUBSET Handler
<1>0. overtaken \in SUBSET Handler /\ \A g \in Handler : Told(g)
  BY DEF TypeInv, ToldInv
<1>1. ASSUME NEW h \in Handler, Plain(h) \/ Wait(h)
      PROVE  Goal
  <2>1. CASE Flush(h)
    <3>1. overtaken' \in SUBSET Handler
      BY <1>0, <2>1 DEF Flush
    <3>. QED
      BY <2>1, <3>1, ToldFlushed DEF ToldInv
  <2>2. CASE ~Flush(h)
    <3>1. Told(h)' /\ row' = row /\ overtaken' \in {overtaken, overtaken \ {h}}
      BY <1>1, <2>2, ToldMoves
    <3>2. \A g \in Handler \ {h} : handler'[g] = handler[g]
      BY <1>1, PlainMoves, WaitMoves
    <3>3. ASSUME NEW g \in Handler
          PROVE  Told(g)'
      BY <1>0, <3>1, <3>2, ToldFrame
    <3>. QED
      BY <1>0, <3>1, <3>3 DEF ToldInv
  <2>. QED
    BY <2>1, <2>2
<1>2. ASSUME NEW c \in Conn, Grant(c) \/ Abort(c)
      PROVE  Goal
  <2>1. row' = row /\ overtaken' = overtaken
    BY <1>2 DEF Grant, Abort
  <2>2. PICK h \in Handler : /\ \A g \in Handler \ {h} : handler'[g] = handler[g]
                             /\ handler'[h].pc \in {"begin", "idle"}
    BY <1>2, WokenMoves
  <2>3. ASSUME NEW g \in Handler
        PROVE  Told(g)'
    BY <1>0, <2>1, <2>2, ToldFrame, ToldRests
  <2>. QED
    BY <1>0, <2>1, <2>3 DEF ToldInv
<1>3. ASSUME NEW n \in Pod, Crash(n)
      PROVE  Goal
  <2>1. row' = row /\ overtaken' = overtaken
    BY <1>3 DEF Crash
  <2>2. ASSUME NEW g \in Handler
        PROVE  Told(g)'
    <3>1. handler'[g] = handler[g] \/ handler'[g] = Idle
      BY <1>3, CrashMoves
    <3>. QED
      BY <1>0, <2>1, <3>1, IdleTyped, ToldFrame, ToldRests
  <2>. QED
    BY <1>0, <2>1, <2>2 DEF ToldInv
<1>4. CASE World
  <2>1. handler' = handler /\ row' = row /\ overtaken' = overtaken
    BY <1>4, WorldFrame
  <2>2. ASSUME NEW g \in Handler
        PROVE  Told(g)'
    BY <1>0, <2>1, ToldFrame
  <2>. QED
    BY <1>0, <2>1, <2>2 DEF ToldInv
<1>. QED
  BY <1>1, <1>2, <1>3, <1>4, StepKinds

-----------------------------------------------------------------------------
(* The theorems.                                                           *)

LEMMA MetricsStarts == Init => MetricsInv
<1>. SUFFICES ASSUME Init
              PROVE  MetricsInv
  OBVIOUS
<1>1. 0 \in Time /\ \A h \in Handler : handler[h] = Idle
  BY MetricsAssumption DEF MetricsAssumption, Time, Init
<1>2. TypeInv
  BY <1>1, IdleTyped, MetricsAssumption DEF MetricsAssumption, TypeInv, Init, Profile
<1>3. WaitInv
  BY <1>1, IdleTyped DEF WaitInv, Init, At
<1>4. HeldInv
  <2>1. Pending = {}
    BY <1>1, IdleTyped DEF Pending
  <2>2. IsFiniteSet(Pending) /\ Cardinality(Pending) = 0
    BY <2>1, FS_EmptySet
  <2>. QED
    BY <2>2 DEF HeldInv, Init
<1>5. SeenInv
  BY <1>1, IdleTyped DEF SeenInv, Init
<1>6. ToldInv
  BY <1>1, IdleTyped DEF ToldInv, Told, At
<1>. QED
  BY <1>2, <1>3, <1>4, <1>5, <1>6 DEF MetricsInv

LEMMA MetricsKept == MetricsInv /\ [Next]_vars => MetricsInv'
<1>. SUFFICES ASSUME MetricsInv, [Next]_vars
              PROVE  MetricsInv'
  OBVIOUS
<1>1. CASE Next
  <2>1. WaitInv' /\ handler' \in [Handler -> Check] /\ waiter' \in [Conn -> Handler \cup {NoHandler}]
    BY <1>1, WaitKept DEF MetricsInv
  <2>2. HeldInv' /\ held' \in [Conn -> [Pair -> Nat]] /\ asked' \in 0 .. MaxRequests
    BY <1>1, HeldKept DEF MetricsInv
  <2>3. /\ SeenInv'
        /\ now' \in Time /\ profile' \in [Item -> Profile]
        /\ row' \in [Item -> Row \cup {NoRow}] /\ changes' \in 0 .. MaxChanges
    BY <1>1, SeenKept DEF MetricsInv
  <2>4. ToldInv' /\ overtaken' \in SUBSET Handler
    BY <1>1, ToldKept DEF MetricsInv
  <2>5. TypeInv'
    BY <2>1, <2>2, <2>3, <2>4 DEF TypeInv
  <2>. QED
    BY <2>1, <2>2, <2>3, <2>4, <2>5 DEF MetricsInv
<1>2. CASE UNCHANGED vars
  <2>1. ToldInv'
    BY <1>2, ToldFrame DEF vars, MetricsInv, ToldInv
  <2>. QED
    BY <1>2, <2>1 DEF vars, MetricsInv, TypeInv, WaitInv, HeldInv, SeenInv, Pending, At
<1>. QED
  BY <1>1, <1>2

LEMMA MetricsInvariant == Spec => []MetricsInv
BY MetricsStarts, MetricsKept, PTL DEF Spec

\* A check that waits has one connection waiting for it, another check none.
LEMMA OneWaiter ==
  ASSUME MetricsInv, NEW h \in Handler
  PROVE  Cardinality({c \in Pool[PodOf[h]] : waiter[c] = h}) = IF At(h, "wait") THEN 1 ELSE 0
<1>. DEFINE W == {c \in Pool[PodOf[h]] : waiter[c] = h}
<1>0. Pool[PodOf[h]] \subseteq Conn /\ h # NoHandler
  BY MetricsAssumption DEF MetricsAssumption
<1>1. CASE At(h, "wait")
  <2>1. PICK c \in Pool[PodOf[h]] : waiter[c] = h
    BY <1>1 DEF MetricsInv, WaitInv
  <2>2. W = {c}
    BY <1>0, <2>1 DEF MetricsInv, WaitInv
  <2>. QED
    BY <1>1, <2>2, FS_Singleton
<1>2. CASE ~At(h, "wait")
  <2>1. W = {}
    BY <1>0, <1>2 DEF MetricsInv, WaitInv
  <2>. QED
    BY <1>2, <2>1, FS_EmptySet
<1>. QED
  BY <1>1, <1>2

LEMMA InvTypes == MetricsInv => TypeOK
<1>. SUFFICES ASSUME MetricsInv
              PROVE  TypeOK
  OBVIOUS
<1>1. TypeInv
  BY DEF MetricsInv
<1>2. held \in [Conn -> [Pair -> 0 .. MaxRequests]]
  <2>1. ASSUME NEW c \in Conn, NEW p \in Pair
        PROVE  held[c][p] \in 0 .. MaxRequests
    <3>1. held[c][p] \in Nat /\ asked \in 0 .. MaxRequests
      BY <1>1 DEF TypeInv
    <3>2. Cardinality(Pending) \in Nat /\ held[c][p] + Cardinality(Pending) <= asked
      BY FS_CardinalityType DEF MetricsInv, HeldInv
    <3>. QED
      BY <3>1, <3>2, MetricsAssumption DEF MetricsAssumption
  <2>. QED
    BY <1>1, <2>1 DEF TypeInv
<1>3. ASSUME NEW h \in Handler
      PROVE  /\ handler[h].pc \in {"idle", "check", "lock", "wait", "begin", "query", "flush",
                                   "unlock", "reread", "read"}
             /\ handler[h].pair \in Pair /\ handler[h].force \in BOOLEAN
             /\ handler[h].at \in Time /\ handler[h].told \in Time
             /\ handler[h].seen \in [Item -> Time]
             /\ handler[h].todo \subseteq ItemsOf(handler[h].pair)
             /\ At(h, "flush") <=> handler[h].todo # {}
             /\ handler[h].failed \in BOOLEAN /\ handler[h].answer \in Answer
  BY <1>1 DEF TypeInv, Check, CheckState, At
<1>. QED
  BY <1>1, <1>2, <1>3, OneWaiter DEF TypeInv, TypeOK

\* Tables, sessions and checks keep their shapes whatever steps overlap: a
\* session never holds a lock more often than checks were begun, each process
\* has exactly one connection waiting for each of its waiting checks, and a
\* recomputation has rows to write exactly while it flushes.
THEOREM MetricsTypes == Spec => []TypeOK
BY MetricsInvariant, InvTypes, PTL

\* Whenever an answered check may read its rows, they show every change older
\* than it was told, and than the time to live when they were called fresh, for
\* any number of processes, sessions and profiles, although a lock may be held by
\* no recomputation, by two, or given back on the wrong session: what a row has
\* missed is younger than the time that it bears, and only a recomputation that
\* is older than what the check was told makes its rows older.
THEOREM LagTheorem == Spec => []LagBounded
<1>1. MetricsInv => LagBounded
  <2>. SUFFICES ASSUME MetricsInv, NEW h \in Handler, handler[h].pc = "read", h \notin overtaken,
                       NEW i \in RowsOf(handler[h].pair),
                       \/ profile[i].since < handler[h].told
                       \/ handler[h].answer = "fresh" /\ profile[i].since + TTL < handler[h].at
                PROVE  row[i].seen = profile[i].since
    BY DEF LagBounded, At
  <2>1. i \in Item /\ row[i] # NoRow
    BY DEF RowsOf, ItemsOf
  <2>2. /\ handler[h].told \in Nat /\ handler[h].at \in Nat /\ row[i].at \in Nat
        /\ profile[i].since \in Nat /\ TTL \in Nat
    BY <2>1, MetricsAssumption
       DEF MetricsAssumption, MetricsInv, TypeInv, Check, CheckState, Row, Profile, Time
  <2>3. /\ handler[h].told <= row[i].at
        /\ handler[h].answer = "fresh" => handler[h].at <= handler[h].told + TTL
    BY DEF MetricsInv, ToldInv, Told, At
  <2>4. row[i].seen = profile[i].since \/ row[i].at <= profile[i].since
    BY <2>1 DEF MetricsInv, SeenInv
  <2>. QED
    BY <2>2, <2>3, <2>4
<1>. QED
  BY <1>1, MetricsInvariant, PTL
=============================================================================
