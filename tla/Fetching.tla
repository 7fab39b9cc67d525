------------------------------ MODULE Fetching ------------------------------
(***************************************************************************)
(* Reading items across instances, and the caches in front of it.  One     *)
(* instance, Self, serves pages of the items of a domain.  It counts every *)
(* instance of the domain, plans which rows to ask each one for, gathers   *)
(* them, merges them and slices the page.  Counts and pages are kept in    *)
(* the Redis of Self until they expire or until a change of an item of     *)
(* Self sweeps them.                                                       *)
(*                                                                         *)
(* Items are numbers in the order of the request: a larger item comes      *)
(* first (it is newer, or nearer to the centre the request carries).  A    *)
(* read of a database, of Redis and a write to Redis are steps of their    *)
(* own.  As in Connections, a Bug operator is a wrong version of the next  *)
(* one.                                                                    *)
(***************************************************************************)
EXTENDS Naturals, FiniteSets, Functions

CONSTANTS
  Instance,    \* the instances of the domain
  Self,        \* the one that answers the requests
  Item,
  Home,        \* Home[x]: the instance item x is stored at
  Stored,      \* the items that are visible at first
  Request,     \* records [kind, offset]: what callers ask for
  Limit,       \* rows of a page
  PeerLimit,   \* PeerLimit[k]: rows an instance gives to a request of kind k at most
  Fetcher,     \* requests that may be in flight at the same time
  Writer,      \* changes of items of Self that may await their sweep
  MaxCommits   \* bound: changes of items

ASSUME FetchingAssumption ==
  /\ IsFiniteSet(Instance) /\ Self \in Instance
  /\ IsFiniteSet(Item) /\ Item \subseteq Nat
  /\ Home \in [Item -> Instance]
  /\ Stored \subseteq Item
  /\ Request # {} /\ Request \subseteq [kind : {"item", "marker", "own"}, offset : Nat]
  /\ Limit \in Nat \ {0} /\ PeerLimit \in [{"item", "marker"} -> Nat \ {0}]
  /\ MaxCommits \in Nat

VARIABLES
  visible,  \* visible[i]: the items the database of i lets a reader see
  counted,  \* item-count: a count per instance and filters
  pages,    \* item-page, marker-page and local-item-fetch: a page per request
  fetcher,  \* fetcher[f]: progress and reads of the request f serves
  owed,     \* owed[w]: the families of keys the sweep of w has still to delete
  commits   \* the number of changes so far

vars == <<visible, counted, pages, fetcher, owed, commits>>

Families == {"item-count", "item-page"}

-----------------------------------------------------------------------------
(* Pages.                                                                  *)

\* ORDER BY ... LIMIT limit OFFSET offset: the rows of S of that rank.
PageOf(S, offset, limit) ==
  LET Before(x) == Cardinality({y \in S : y > x})
  IN {x \in S : offset <= Before(x) /\ Before(x) < offset + limit}

\* An owner's own list is read at Self alone.
Asked(r) == IF r.kind = "own" THEN {Self} ELSE Instance

\* The key of a count has the filters in it, offset included, but not whether
\* items or markers were asked for.
CountKey(i, r) == <<i, r.offset>>

Active(f) == {i \in Instance : fetcher[f].count[i] > 0}

\* An owner's own list, and a page of the only instance that has any rows.
OwnSlice(r) == [offset |-> r.offset, limit |-> Limit]

OnlySlice(r, n) ==
  LET end == r.offset + Limit
  IN [offset |-> r.offset, limit |-> (IF end < n THEN end ELSE n) - r.offset]

\* Of several instances, the head of each, as far as a peer would give it.
HeadSlice(r) ==
  LET end == r.offset + Limit
  IN [offset |-> 0, limit |-> IF end <= PeerLimit[r.kind] THEN end ELSE PeerLimit[r.kind]]

\* The rows of instance i that the page of fetcher f may need.
BugSlice(f, i) ==
  LET r == fetcher[f].req
  IN IF r.kind = "own" \/ Cardinality(Active(f)) <= 1 THEN OwnSlice(r)
     ELSE [HeadSlice(r) EXCEPT !.limit = Limit]

Slice(f, i) ==
  LET r == fetcher[f].req
  IN IF r.kind = "own" THEN OwnSlice(r)
     ELSE IF Cardinality(Active(f)) <= 1 THEN OnlySlice(r, fetcher[f].count[i])
     ELSE HeadSlice(r)

\* The instances a page is asked of once the counts are known.
BugPlanned(f) == {i \in Instance : fetcher[f].req.offset < fetcher[f].count[i] \/ i = Self}

Planned(f) ==
  IF Cardinality(Active(f)) <= 1
    THEN {i \in Active(f) : fetcher[f].req.offset < fetcher[f].count[i]}
    ELSE Active(f)

\* What the answer is made of: the only slice as it came, or the merge.
Merged(f) ==
  LET r == fetcher[f].req
  IN IF r.kind = "own" \/ Cardinality(Active(f)) <= 1
       THEN fetcher[f].rows
       ELSE PageOf(fetcher[f].rows, r.offset, Limit)

\* A partial answer is not cached.
Cacheable(f) == fetcher[f].failed = {}

\* The page keys a sweep of family item-page deletes.  The pages of markers
\* are in a family no sweep names.  The pattern for local-item-fetch wants the
\* network before the domain and the key, sorted by name, has it after.
BugSwept == {r \in Request : r.kind = "marker"}

Swept == {r \in Request : r.kind = "item"}

-----------------------------------------------------------------------------
(* A request.                                                              *)

Zero == [i \in Instance |-> 0]

Idle == [pc |-> "idle", req |-> CHOOSE r \in Request : TRUE, waiting |-> {}, read |-> {},
         failed |-> {}, count |-> Zero, rows |-> {}, still |-> TRUE, own |-> FALSE]

\* The page is in Redis.
Hit(f, r) ==
  /\ fetcher[f].pc = "idle"
  /\ r \in DOMAIN pages
  /\ fetcher' = [fetcher EXCEPT ![f] =
       [Idle EXCEPT !.pc = "done", !.req = r, !.rows = pages[r].rows,
                    !.still = pages[r].still]]
  /\ UNCHANGED <<visible, counted, pages, owed, commits>>

\* It is not: count every instance, or go straight to the own rows.
Miss(f, r) ==
  /\ fetcher[f].pc = "idle"
  /\ r \in Request \ DOMAIN pages
  /\ fetcher' = [fetcher EXCEPT ![f] =
       [Idle EXCEPT !.pc = IF r.kind = "own" THEN "pages" ELSE "counts",
                    !.req = r, !.waiting = Asked(r)]]
  /\ UNCHANGED <<visible, counted, pages, owed, commits>>

CountHit(f, i) ==
  /\ fetcher[f].pc = "counts"
  /\ i \in fetcher[f].waiting
  /\ CountKey(i, fetcher[f].req) \in DOMAIN counted
  /\ fetcher' = [fetcher EXCEPT ![f].waiting = @ \ {i},
                                ![f].count[i] = counted[CountKey(i, fetcher[f].req)]]
  /\ UNCHANGED <<visible, counted, pages, owed, commits>>

\* The count is not in Redis: instance i counts its rows.
CountRead(f, i) ==
  /\ fetcher[f].pc = "counts"
  /\ i \in fetcher[f].waiting
  /\ CountKey(i, fetcher[f].req) \notin DOMAIN counted
  /\ fetcher' = [fetcher EXCEPT ![f].waiting = @ \ {i}, ![f].read = @ \cup {i},
                                ![f].count[i] = Cardinality(visible[i])]
  /\ UNCHANGED <<visible, counted, pages, owed, commits>>

\* Put k |-> v into the cache c.
Cached(c, k, v) == [x \in DOMAIN c \cup {k} |-> IF x = k THEN v ELSE c[x]]

\* The count arrives and is cached, whatever was committed or swept meanwhile.
CountStored(f, i) ==
  /\ i \in fetcher[f].read
  /\ fetcher' = [fetcher EXCEPT ![f].read = @ \ {i}]
  /\ counted' = Cached(counted, CountKey(i, fetcher[f].req), fetcher[f].count[i])
  /\ UNCHANGED <<visible, pages, owed, commits>>

\* The instance or Redis does not answer: the instance is left out.
CountFails(f, i) ==
  /\ fetcher[f].pc = "counts"
  /\ i \in fetcher[f].waiting \cup fetcher[f].read
  /\ fetcher' = [fetcher EXCEPT ![f] =
       [fetcher[f] EXCEPT !.waiting = @ \ {i}, !.read = @ \ {i},
                          !.failed = @ \cup {i}, !.count[i] = 0]]
  /\ UNCHANGED <<visible, counted, pages, owed, commits>>

Plan(f) ==
  /\ fetcher[f].pc = "counts"
  /\ fetcher[f].waiting \cup fetcher[f].read = {}
  /\ fetcher' = [fetcher EXCEPT ![f].pc = "pages", ![f].waiting = Planned(f)]
  /\ UNCHANGED <<visible, counted, pages, owed, commits>>

PageRead(f, i) ==
  LET s == Slice(f, i)
  IN /\ fetcher[f].pc = "pages"
     /\ i \in fetcher[f].waiting
     /\ fetcher' = [fetcher EXCEPT ![f].waiting = @ \ {i},
                                   ![f].rows = @ \cup PageOf(visible[i], s.offset, s.limit)]
     /\ UNCHANGED <<visible, counted, pages, owed, commits>>

\* A slice that fails is dropped; an own list that fails is an error (Abandon).
PageFails(f, i) ==
  /\ fetcher[f].pc = "pages"
  /\ fetcher[f].req.kind # "own"
  /\ i \in fetcher[f].waiting
  /\ fetcher' = [fetcher EXCEPT ![f].waiting = @ \ {i}, ![f].failed = @ \cup {i}]
  /\ UNCHANGED <<visible, counted, pages, owed, commits>>

\* Nothing was committed since fetcher f began, and its counts are right.
Undisturbed(f) ==
  /\ fetcher[f].still
  /\ \A i \in Instance \ fetcher[f].failed :
       fetcher[f].req.kind = "own" \/ fetcher[f].count[i] = Cardinality(visible[i])

\* Merge, cache the page unless it is partial, and answer.
Answer(f) ==
  LET r == fetcher[f].req
      page == [rows |-> Merged(f), still |-> Undisturbed(f),
               own |-> IF fetcher[f].own THEN "during" ELSE "none"]
  IN /\ fetcher[f].pc = "pages"
     /\ fetcher[f].waiting = {}
     /\ pages' = IF Cacheable(f) THEN Cached(pages, r, page) ELSE pages
     /\ fetcher' = [fetcher EXCEPT ![f] =
          [Idle EXCEPT !.pc = "done", !.req = r, !.rows = page.rows,
                       !.failed = fetcher[f].failed, !.still = page.still]]
     /\ UNCHANGED <<visible, counted, owed, commits>>

\* The answer was delivered, or the request failed or its process stopped.
Abandon(f) ==
  /\ fetcher[f].pc # "idle"
  /\ fetcher' = [fetcher EXCEPT ![f] = Idle]
  /\ UNCHANGED <<visible, counted, pages, owed, commits>>

-----------------------------------------------------------------------------
(* Changes of items, their sweeps, and expiry.                             *)

\* What a change at instance i means to the requests and the pages; mark is
\* what the pages that were complete before a change of Self become.
Disturbed(i, mark) ==
  /\ fetcher' = [f \in Fetcher |-> IF fetcher[f].pc = "idle" THEN fetcher[f]
       ELSE [fetcher[f] EXCEPT !.still = FALSE, !.own = @ \/ i = Self]]
  /\ pages' = [r \in DOMAIN pages |-> [pages[r] EXCEPT !.still = FALSE,
       !.own = IF i = Self /\ @ = "none" THEN mark ELSE @]]

Toggled(x) == [visible EXCEPT ![Home[x]] = IF x \in @ THEN @ \ {x} ELSE @ \cup {x}]

\* An item of Self appears or disappears: its handler will sweep.
Commit(w, x) ==
  /\ commits < MaxCommits
  /\ owed[w] = {}
  /\ Home[x] = Self
  /\ visible' = Toggled(x)
  /\ owed' = [owed EXCEPT ![w] = Families]
  /\ commits' = commits + 1
  /\ Disturbed(Self, "after")
  /\ UNCHANGED counted

\* An item of another instance, which sweeps its own Redis; or one of Self by
\* way of the participant route, which publishes the change and sweeps nothing.
CommitUnswept(x) ==
  /\ commits < MaxCommits
  /\ visible' = Toggled(x)
  /\ commits' = commits + 1
  /\ Disturbed(Home[x], "lost")
  /\ UNCHANGED <<counted, owed>>

\* The families are swept side by side, so in either order.
SweepCounts(w) ==
  /\ "item-count" \in owed[w]
  /\ owed' = [owed EXCEPT ![w] = @ \ {"item-count"}]
  /\ counted' = Restrict(counted, {})
  /\ UNCHANGED <<visible, pages, fetcher, commits>>

SweepPages(w) ==
  /\ "item-page" \in owed[w]
  /\ owed' = [owed EXCEPT ![w] = @ \ {"item-page"}]
  /\ pages' = Restrict(pages, DOMAIN pages \ Swept)
  /\ UNCHANGED <<visible, counted, fetcher, commits>>

\* The sweep fails or its process stops: nobody repeats it.
SweepLost(w) ==
  /\ owed[w] # {}
  /\ owed' = [owed EXCEPT ![w] = {}]
  /\ pages' = [r \in DOMAIN pages |-> [pages[r] EXCEPT
       !.own = IF @ = "after" /\ "item-page" \in owed[w] THEN "lost" ELSE @]]
  /\ UNCHANGED <<visible, counted, fetcher, commits>>

ExpireCount(k) ==
  /\ counted' = Restrict(counted, DOMAIN counted \ {k})
  /\ UNCHANGED <<visible, pages, fetcher, owed, commits>>

ExpirePage(r) ==
  /\ r \in DOMAIN pages
  /\ pages' = Restrict(pages, DOMAIN pages \ {r})
  /\ UNCHANGED <<visible, counted, fetcher, owed, commits>>

-----------------------------------------------------------------------------
Init ==
  /\ visible = [i \in Instance |-> {x \in Stored : Home[x] = i}]
  /\ counted = [k \in {} |-> 0]
  /\ pages = [r \in {} |-> {}]
  /\ fetcher = [f \in Fetcher |-> Idle]
  /\ owed = [w \in Writer |-> {}]
  /\ commits = 0

Next ==
  \/ \E f \in Fetcher :
       \/ \E r \in Request : Hit(f, r) \/ Miss(f, r)
       \/ \E i \in Instance : \/ CountHit(f, i) \/ CountRead(f, i) \/ CountStored(f, i)
                              \/ CountFails(f, i) \/ PageRead(f, i) \/ PageFails(f, i)
       \/ Plan(f) \/ Answer(f) \/ Abandon(f)
  \/ \E w \in Writer :
       \/ \E x \in Item : Commit(w, x)
       \/ SweepCounts(w) \/ SweepPages(w) \/ SweepLost(w)
  \/ \E x \in Item : CommitUnswept(x)
  \/ \E k \in DOMAIN counted : ExpireCount(k)
  \/ \E r \in Request : ExpirePage(r)

Spec == Init /\ [][Next]_vars

-----------------------------------------------------------------------------
(* Properties.                                                             *)

\* State is well formed; the rows of a page are items of the instances asked,
\* and an instance that failed is not asked again.
TypeOK ==
  /\ visible \in [Instance -> SUBSET Item]
  /\ \A k \in DOMAIN counted : k \in Instance \X Nat /\ counted[k] \in 0..Cardinality(Item)
  /\ DOMAIN pages \subseteq Request
  /\ \A r \in DOMAIN pages :
       /\ pages[r].rows \subseteq {x \in Item : Home[x] \in Asked(r)}
       /\ pages[r].still \in BOOLEAN
       /\ pages[r].own \in {"none", "during", "after", "lost"}
  /\ \A f \in Fetcher :
       /\ fetcher[f].pc \in {"idle", "counts", "pages", "done"}
       /\ fetcher[f].req \in Request
       /\ fetcher[f].waiting \cup fetcher[f].read \cup fetcher[f].failed
            \subseteq Asked(fetcher[f].req)
       /\ fetcher[f].waiting \cap (fetcher[f].read \cup fetcher[f].failed) = {}
       /\ fetcher[f].read \cap fetcher[f].failed = {}
       /\ fetcher[f].count \in [Instance -> 0..Cardinality(Item)]
       /\ fetcher[f].rows \subseteq {x \in Item : Home[x] \in Asked(fetcher[f].req)}
       /\ fetcher[f].still \in BOOLEAN
       /\ fetcher[f].own \in BOOLEAN
  /\ owed \in [Writer -> SUBSET Families]
  /\ commits \in 0..MaxCommits

\* The page of request r over the rows of S.  Beyond what a peer gives, rows
\* may be missing, but none of an earlier page comes back.
RightPage(rows, r, S) ==
  IF r.kind = "own" \/ r.offset + Limit <= PeerLimit[r.kind]
    THEN rows = PageOf(S, r.offset, Limit)
    ELSE rows \subseteq PageOf(S, r.offset, Cardinality(S))

\* An answer that no change overlapped, and that went by right counts, is the
\* page of the items of every instance it does not report as unavailable: the
\* plan, the merge and the cache lose no row and repeat none.  Of a page that
\* ends beyond what a peer gives (scatterGatherPage clamps what it asks for)
\* it is only said that no row of an earlier page is repeated.
AnswersAreExact ==
  \A f \in Fetcher :
    fetcher[f].pc = "done" /\ fetcher[f].still =>
      RightPage(fetcher[f].rows, fetcher[f].req,
                UNION {visible[i] : i \in Asked(fetcher[f].req) \ fetcher[f].failed})

\* A page of items that was complete before an item of Self changed outlives
\* the change only while its sweep is owed, or because the sweep was lost or
\* the change was one that sweeps nothing: what is stale otherwise was read
\* while the change took place.
SweptAfterCommit ==
  \A r \in DOMAIN pages :
    r.kind = "item" /\ pages[r].own = "after" => \E w \in Writer : "item-page" \in owed[w]
=============================================================================
