------------------------------ MODULE Metrics ------------------------------
(***************************************************************************)
(* The table item_metrics of the aggregator dashboard: a row per profile,  *)
(* computed again by whichever request first finds the rows of an          *)
(* aggregator's domain too old (services/metrics).  What a row holds, the  *)
(* counts of actions and the status derived from them, is a function of    *)
(* the profile's data when it was read; the model keeps the time of the    *)
(* last change it has seen.  The advisory lock around a recomputation      *)
(* belongs to a database session, and a request gets any connection of     *)
(* its process's pool for each of its statements.                          *)
(***************************************************************************)
EXTENDS Integers, FiniteSets, FiniteSetsExt

CONSTANTS
  Handler,       \* checks of one domain; a request makes one for each of its domains
  Pod,           \* processes of the API
  Conn,          \* database connections
  Pair,          \* an aggregator and one of its domains: the key of a lock
  Item,          \* profiles
  Existing,      \* the profiles that are there at the beginning
  PodOf,         \* [Handler -> Pod]
  Pool,          \* [Pod -> SUBSET Conn]
  PairOf,        \* [Item -> Pair]
  TTL,           \* DASHBOARD_CACHE_TTL_SECONDS, in ticks of the clock
  Batch,         \* BATCH_SIZE
  MaxNow,        \* bound: the clock
  MaxRequests,   \* bound: checks that are ever begun
  MaxChanges,    \* bound: changes of profiles
  NoHandler, NoRow

ASSUME MetricsAssumption ==
  /\ PodOf \in [Handler -> Pod]
  /\ Pool \in [Pod -> (SUBSET Conn) \ {{}}]
  /\ \A a, b \in Pod : a # b => Pool[a] \cap Pool[b] = {}
  /\ Existing \subseteq Item
  /\ Pair # {} /\ PairOf \in [Item -> Pair]
  /\ TTL \in Nat /\ Batch \in Nat \ {0} /\ MaxNow \in Nat /\ MaxRequests \in Nat /\ MaxChanges \in Nat
  /\ NoHandler \notin Handler

VARIABLES
  now,       \* the clock
  profile,   \* items and item_actions: whether a profile is there, and its last change
  row,       \* item_metrics
  held,      \* pg_locks: how often a session holds the lock of a pair
  waiter,    \* the check for which a connection waits for a lock
  handler,   \* checks in progress
  overtaken, \* checks that have seen rows which an older recomputation has replaced
  asked,     \* how many were begun
  changes    \* how often a profile has changed

vars == <<now, profile, row, held, waiter, handler, overtaken, asked, changes>>

-----------------------------------------------------------------------------
Time == 0 .. MaxNow

Profile == [state : {"none", "here", "gone"}, since : Time]
Row == [at : Time, seen : Time]

Answer == {"none", "fresh", "contended", "refreshed"}

Idle == [pc |-> "idle", pair |-> CHOOSE p \in Pair : TRUE, force |-> FALSE, at |-> 0,
         told |-> 0, todo |-> {}, seen |-> [i \in Item |-> 0], failed |-> FALSE,
         answer |-> "none"]

Init ==
  /\ now = 0
  /\ profile = [i \in Item |-> [state |-> IF i \in Existing THEN "here" ELSE "none", since |-> 0]]
  /\ row = [i \in Item |-> NoRow]
  /\ held = [c \in Conn |-> [p \in Pair |-> 0]]
  /\ waiter = [c \in Conn |-> NoHandler]
  /\ handler = [h \in Handler |-> Idle]
  /\ overtaken = {}
  /\ asked = 0
  /\ changes = 0

At(h, pc) == handler[h].pc = pc

ItemsOf(p) == {i \in Item : PairOf[i] = p}
Present(p) == {i \in ItemsOf(p) : profile[i].state = "here"}
RowsOf(p) == {i \in ItemsOf(p) : row[i] # NoRow}

\* The time of the oldest row: last_computed_at.  Without rows it is null, and
\* nothing is older than 0.
Oldest(p) == IF RowsOf(p) = {} THEN 0 ELSE Min({row[i].at : i \in RowsOf(p)})

\* The age of the oldest row decides; without rows there is nothing to serve.
Stale(p) ==
  \/ RowsOf(p) = {}
  \/ \E i \in RowsOf(p) : now - row[i].at > TTL

\* A recomputation stamps its rows with the time at which it began.
BugStamp(h) == now

Stamp(h) == handler[h].at

-----------------------------------------------------------------------------
(* The pool and the locks.                                                 *)

\* Connections that can take a statement of check h.
Free(h) == {c \in Pool[PodOf[h]] : waiter[c] = NoHandler}

\* A session takes a lock that no other session holds, its own ones again too.
Grantable(c, p) == \A d \in Conn \ {c} : held[d][p] = 0

Taken(c, p) == [held EXCEPT ![c][p] = @ + 1]

\* Unlocking what the session does not hold is a warning.
Given(c, p) == [held EXCEPT ![c][p] = IF @ > 0 THEN @ - 1 ELSE 0]

\* Sessions wait for each other.
Deadlocked(c) ==
  \E S \in SUBSET Conn : c \in S /\ \A b \in S :
    /\ waiter[b] # NoHandler
    /\ \E d \in S \ {b} : held[d][handler[waiter[b]].pair] > 0

\* The pool is created without options of its own, and by default closes a
\* connection that has been idle for ten seconds.
BugClosesIdle == FALSE

ClosesIdle == TRUE

-----------------------------------------------------------------------------
(* A check.                                                                *)

Goto(h, pc) == handler' = [handler EXCEPT ![h].pc = pc]

End(h) == handler' = [handler EXCEPT ![h] = Idle]

\* The check is answered, told being last_computed_at; the rows are not read yet.
Return(h, answer, told) ==
  handler' = [handler EXCEPT ![h] =
    [Idle EXCEPT !.pc = "read", !.pair = handler[h].pair, !.at = now, !.told = told,
                 !.answer = answer]]

\* A recomputation is over, well or not: the lock is to be given back.
Finish(h, failed) ==
  [Idle EXCEPT !.pc = "unlock", !.pair = handler[h].pair, !.failed = failed]

Start(h, p, force) ==
  /\ At(h, "idle")
  /\ asked < MaxRequests
  /\ asked' = asked + 1
  /\ handler' = [handler EXCEPT ![h] = [Idle EXCEPT !.pc = "check", !.pair = p, !.force = force]]
  /\ UNCHANGED <<now, profile, row, held, waiter, overtaken, changes>>

\* The lock is taken; from here on it does not matter whether it was waited for.
Enter(h) ==
  handler' = [handler EXCEPT ![h] = [Idle EXCEPT !.pc = "begin", !.pair = handler[h].pair]]

\* The rows are young enough.
ServeFresh(h) ==
  /\ At(h, "check")
  /\ Free(h) # {}
  /\ ~handler[h].force /\ ~Stale(handler[h].pair)
  /\ Return(h, "fresh", Oldest(handler[h].pair))
  /\ overtaken' = overtaken \ {h}
  /\ UNCHANGED <<now, profile, row, held, waiter, asked, changes>>

FindStale(h) ==
  /\ At(h, "check")
  /\ Free(h) # {}
  /\ handler[h].force \/ Stale(handler[h].pair)
  /\ handler' = [handler EXCEPT ![h].pc = "lock", ![h].told = Oldest(handler[h].pair)]
  /\ overtaken' = overtaken \ {h}
  /\ UNCHANGED <<now, profile, row, held, waiter, asked, changes>>

\* Whether the lock was waited for or tried, it is this connection's.
Lock(h) ==
  /\ At(h, "lock")
  /\ \E c \in Free(h) :
       /\ Grantable(c, handler[h].pair)
       /\ held' = Taken(c, handler[h].pair)
  /\ Enter(h)
  /\ UNCHANGED <<now, profile, row, waiter, overtaken, asked, changes>>

\* pg_try_advisory_lock: the rows are served as they are, and as old as found.
ServeStale(h) ==
  /\ At(h, "lock")
  /\ ~handler[h].force
  /\ \E c \in Free(h) : ~Grantable(c, handler[h].pair)
  /\ Return(h, "contended", handler[h].told)
  /\ UNCHANGED <<now, profile, row, held, waiter, overtaken, asked, changes>>

\* pg_advisory_lock: the statement, and with it the connection, waits.
Wait(h) ==
  /\ At(h, "lock")
  /\ handler[h].force
  /\ \E c \in Free(h) :
       /\ ~Grantable(c, handler[h].pair)
       /\ waiter' = [waiter EXCEPT ![c] = h]
  /\ Goto(h, "wait")
  /\ UNCHANGED <<now, profile, row, held, overtaken, asked, changes>>

Grant(c) ==
  LET h == waiter[c] IN
  /\ h # NoHandler
  /\ Grantable(c, handler[h].pair)
  /\ held' = Taken(c, handler[h].pair)
  /\ waiter' = [waiter EXCEPT ![c] = NoHandler]
  /\ Enter(h)
  /\ UNCHANGED <<now, profile, row, overtaken, asked, changes>>

\* The waiting statement fails: its connection is lost, or PostgreSQL breaks a
\* deadlock; the check throws before its try.
Abort(c) ==
  /\ waiter[c] # NoHandler
  /\ waiter' = [waiter EXCEPT ![c] = NoHandler]
  /\ End(waiter[c])
  /\ UNCHANGED <<now, profile, row, held, overtaken, asked, changes>>

\* The time is taken, then a profile of the pair is looked for.
Begin(h) ==
  /\ At(h, "begin")
  /\ Free(h) # {}
  /\ handler' = [handler EXCEPT ![h] =
       IF Present(@.pair) = {} THEN Finish(h, FALSE)
       ELSE [handler[h] EXCEPT !.pc = "query", !.at = now]]
  /\ UNCHANGED <<now, profile, row, held, waiter, overtaken, asked, changes>>

Query(h) ==
  LET found == Present(handler[h].pair) IN
  /\ At(h, "query")
  /\ Free(h) # {}
  /\ handler' = [handler EXCEPT ![h] =
       IF found = {} THEN Finish(h, FALSE)
       ELSE [handler[h] EXCEPT !.pc = "flush", !.todo = found,
               !.seen = [i \in Item |-> IF i \in found THEN profile[i].since ELSE 0]]]
  /\ UNCHANGED <<now, profile, row, held, waiter, overtaken, asked, changes>>

\* A batch S was written: go on if a profile is left.
BugFlushed(h, S) ==
  IF S = handler[h].todo /\ Cardinality(S) < Batch THEN Finish(h, FALSE)
  ELSE [handler[h] EXCEPT !.todo = @ \ S]

Flushed(h, S) ==
  IF S = handler[h].todo THEN Finish(h, FALSE) ELSE [handler[h] EXCEPT !.todo = @ \ S]

\* One batch is written, each in its own statement and whatever the rows hold:
\* checks that were told of younger ones are overtaken.
Flush(h) ==
  /\ At(h, "flush")
  /\ Free(h) # {}
  /\ \E S \in SUBSET handler[h].todo :
       /\ Cardinality(S) = Min({Batch, Cardinality(handler[h].todo)})
       /\ row' = [i \in Item |-> IF i \in S THEN [at |-> Stamp(h), seen |-> handler[h].seen[i]]
                                            ELSE row[i]]
       /\ handler' = [handler EXCEPT ![h] = Flushed(h, S)]
  /\ overtaken' = overtaken \cup {g \in Handler : handler[g].pair = handler[h].pair
                                                 /\ Stamp(h) < handler[g].told}
  /\ UNCHANGED <<now, profile, held, waiter, asked, changes>>

\* A domain without rules, or a failed statement: the lock is given back and the
\* error thrown on.
Fail(h) ==
  /\ handler[h].pc \in {"begin", "query", "flush"}
  /\ handler' = [handler EXCEPT ![h] = Finish(h, TRUE)]
  /\ UNCHANGED <<now, profile, row, held, waiter, overtaken, asked, changes>>

\* A statement outside of the try fails, or another check of the same request.
Throw(h) ==
  /\ handler[h].pc \in {"check", "lock", "unlock", "reread", "read"}
  /\ End(h)
  /\ UNCHANGED <<now, profile, row, held, waiter, overtaken, asked, changes>>

\* Any connection of the pool may get the statement.
Unlock(h) ==
  /\ At(h, "unlock")
  /\ \E c \in Free(h) : held' = Given(c, handler[h].pair)
  /\ IF handler[h].failed THEN End(h) ELSE Goto(h, "reread")
  /\ UNCHANGED <<now, profile, row, waiter, overtaken, asked, changes>>

Reread(h) ==
  /\ At(h, "reread")
  /\ Free(h) # {}
  /\ Return(h, "refreshed", Oldest(handler[h].pair))
  /\ overtaken' = overtaken \ {h}
  /\ UNCHANGED <<now, profile, row, held, waiter, asked, changes>>

\* The rows are read, counted and sent, in several statements that see them at
\* any time between the check and this step.
ReadRows(h) ==
  /\ At(h, "read")
  /\ Free(h) # {}
  /\ End(h)
  /\ UNCHANGED <<now, profile, row, held, waiter, overtaken, asked, changes>>

-----------------------------------------------------------------------------
(* The rest of the world.                                                  *)

\* A connection is closed and a new one takes its place in the pool.
CloseIdle(c) ==
  /\ ClosesIdle
  /\ waiter[c] = NoHandler
  /\ held' = [held EXCEPT ![c] = [p \in Pair |-> 0]]
  /\ UNCHANGED <<now, profile, row, waiter, handler, overtaken, asked, changes>>

Crash(n) ==
  /\ held' = [c \in Conn |-> IF c \in Pool[n] THEN [p \in Pair |-> 0] ELSE held[c]]
  /\ waiter' = [c \in Conn |-> IF c \in Pool[n] THEN NoHandler ELSE waiter[c]]
  /\ handler' = [h \in Handler |-> IF PodOf[h] = n THEN Idle ELSE handler[h]]
  /\ UNCHANGED <<now, profile, row, overtaken, asked, changes>>

\* A profile is created, edited, moved along its lifecycle or part of an action.
Change(i) ==
  /\ changes < MaxChanges
  /\ changes' = changes + 1
  /\ profile[i].state # "gone"
  /\ profile' = [profile EXCEPT ![i] = [state |-> "here", since |-> now]]
  /\ UNCHANGED <<now, row, held, waiter, handler, overtaken, asked>>

\* A hard delete leaves the row in item_metrics behind.
Delete(i) ==
  /\ changes < MaxChanges
  /\ changes' = changes + 1
  /\ profile[i].state = "here"
  /\ profile' = [profile EXCEPT ![i] = [state |-> "gone", since |-> now]]
  /\ UNCHANGED <<now, row, held, waiter, handler, overtaken, asked>>

Tick ==
  /\ now < MaxNow
  /\ now' = now + 1
  /\ UNCHANGED <<profile, row, held, waiter, handler, overtaken, asked, changes>>

\* What a check does of its own when nothing fails.
Serve(h) ==
  \/ ServeFresh(h) \/ FindStale(h) \/ Lock(h) \/ ServeStale(h) \/ Wait(h)
  \/ Begin(h) \/ Query(h) \/ Flush(h) \/ Unlock(h) \/ Reread(h) \/ ReadRows(h)

Next ==
  \/ \E h \in Handler :
       \/ \E p \in Pair, force \in BOOLEAN : Start(h, p, force)
       \/ Serve(h) \/ Fail(h) \/ Throw(h)
  \/ \E c \in Conn : Grant(c) \/ Abort(c) \/ CloseIdle(c)
  \/ \E n \in Pod : Crash(n)
  \/ \E i \in Item : Change(i) \/ Delete(i)
  \/ Tick

Spec == Init /\ [][Next]_vars

\* A process goes on with what it has begun; the database grants a free lock
\* and breaks deadlocks, and the pool closes what is idle.
Fairness ==
  /\ \A h \in Handler : WF_vars(Serve(h))
  /\ \A c \in Conn :
       /\ WF_vars(Grant(c)) /\ WF_vars(CloseIdle(c))
       /\ WF_vars(Deadlocked(c) /\ Abort(c))

FairSpec == Spec /\ Fairness

-----------------------------------------------------------------------------
(* Properties *)

\* Tables, sessions and checks have their shapes; a connection waits exactly for
\* a check that waits.
TypeOK ==
  /\ now \in Time
  /\ profile \in [Item -> Profile]
  /\ row \in [Item -> Row \cup {NoRow}]
  /\ held \in [Conn -> [Pair -> 0 .. MaxRequests]]
  /\ waiter \in [Conn -> Handler \cup {NoHandler}]
  /\ \A h \in Handler :
       /\ handler[h].pc \in {"idle", "check", "lock", "wait", "begin", "query", "flush",
                             "unlock", "reread", "read"}
       /\ handler[h].pair \in Pair /\ handler[h].force \in BOOLEAN
       /\ handler[h].at \in Time /\ handler[h].told \in Time
       /\ handler[h].seen \in [Item -> Time]
       /\ handler[h].todo \subseteq ItemsOf(handler[h].pair)
       /\ At(h, "flush") <=> handler[h].todo # {}
       /\ handler[h].failed \in BOOLEAN /\ handler[h].answer \in Answer
       /\ Cardinality({c \in Pool[PodOf[h]] : waiter[c] = h}) = IF At(h, "wait") THEN 1 ELSE 0
  /\ overtaken \subseteq Handler
  /\ asked \in 0 .. MaxRequests /\ changes \in 0 .. MaxChanges

\* Whenever a check that was answered may read its rows, they show every change
\* older than the last_computed_at it was told, and, where they were called
\* fresh, every change that was older than the time to live at the check, the
\* deletion of a profile included: whichever recomputations overlapped, or left
\* half of their batches unwritten.  Only a recomputation older than what it was
\* told may have put older rows in their place meanwhile.
LagBounded ==
  \A h \in Handler : At(h, "read") /\ h \notin overtaken =>
    \A i \in RowsOf(handler[h].pair) :
      \/ profile[i].since < handler[h].told
      \/ handler[h].answer = "fresh" /\ profile[i].since + TTL < handler[h].at
      => row[i].seen = profile[i].since

\* Every check ends once no more are begun, although a lock may stay with a
\* connection nobody unlocks it on, and although checks that wait for locks
\* occupy the connections that others need to give theirs back.
EveryCheckEnds == \A h \in Handler : ~At(h, "idle") ~> At(h, "idle")
=============================================================================
