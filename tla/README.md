# Formal verification of Signals

This directory is a TLA+ development of the Signals API server (`apps/api`).
It models the parts of the server where several requests, several instances or
a crash decide whether the system is correct, checks them with TLC on small
instances, and proves the main results with TLAPS for instances of any size.

Paths below are relative to the repository.

## 1. The system

Signals is a network of API instances. Each instance serves some domains of
some networks, has its own Postgres and Redis, and talks to other instances by
HTTP. Users own *items* (profiles). One item requests a connection to another
with an *action*, whose row lives in the database of the **target** item's
instance. Networks are configured in JSON: which interactions exist, which
statuses count as accepted, rejected or cancelled, which ones reveal contact
details, how many open actions a pair may have.

Nothing runs under a stronger isolation than READ COMMITTED, and no statement
says `FOR UPDATE`. What protects the data is one compare-and-swap
(`update_count`), a few advisory locks, unique indexes, and transactions that
write several rows at once.

### Components

| Component | State | Operations | What is hard | What makes it correct |
|---|---|---|---|---|
| Connection requests (`routes/v1/action`, `routes/v1/network/action`, `services/action_pair_cap.ts`, `utils/action_event_runtime.ts`, `routes/v1/event/store_event.ts`) | `item_actions`, `action_events`, `consent_record` (category action) | perform (proxy, write endpoint), update-status, store event | source and target owners act at once; two instances; crash between commit and event; lost mirrors | one transition per `update_count`; a withdrawal and an answer exclude each other; consents with the status; pair cap; events tell what was committed |
| Contact details (`get_action_contact_details.ts`) | `pii_reveal_audit` | reveal | the status is read long before the private fields | nothing shown without the receiver's consent |
| Item lifecycle (`routes/v1/item/lifecycle.ts`, `services/items/retire_connections.ts`, `delete_item.ts`) | `items.lifecycle_status`, private state | pause, unpause, retire, delete | read, then update by id | retired is terminal; a retired item has no open connection |
| Profiles (`services/item_service.ts`, `services/items`, `routes/v1/item`, `routes/v1/user/user_domains.ts`) | `items`, `consent_record` (category profile), `user.age`, `user.domains` | create, update, accept consent (owner, guardian), record an age (two routes), pause, unpause, retire, delete, choose a domain | stale read against retire; statuses written on old reads of the gates; counted then raised; check then set | erased data stays erased; live only behind the gates; no eligible profile stranded; one domain, bounded count per user; age set once |
| Guardian codes (`services/guardian_*.ts`, `services/minor*.ts`, `routes/v1/consent/u18_*`) | Redis codes, tokens and counters; `minor_guardian`; consents | link a guardian, issue, verify, finalize, act on an answer | counted then written; one code submitted twice; crashes between the consumption of a code and its effect; counters without expiry | ward limit; one answer authorises one thing, the one that was asked; verified means answered and on record |
| Signup with a guardian (`services/signup_guardian.ts`, `services/auth/on_user_created.ts`) | pending record in Redis | start, verify, materialize | the record is written before the code; the hook runs with the account | a verified guardian has answered (fails, section 5) |
| Terms and privacy consents of adults (`services/consent_*.ts`, `routes/v1/consent`) | `consent_record` | accept, by version | — | the newest accepted version |
| Browser sessions (`services/auth/browser_session.ts`, `services/auth/app_first_login.ts`, `plugins/auth`, `routes/v1/auth`) | Redis flows and sessions, in-process refresh map, Keycloak's tokens, `user.tags` | login, callback, resolve, refresh, first-login stamp, logout | replayed callbacks; many requests on one near-expiry token; two pods; reads before writes | one session per login; one first login; a waiting request has someone to wait for; only known races end a session |
| Users and identity provider (`services/auth/*`, `routes/v1/admin/participant.ts`, `services/aggregator/default_aggregator.ts`) | `user`, Keycloak's identities, parked extras in Redis | signup, first login, phone change, choose a domain, onboard, tag | steps of two systems; two people with one number; lookups and writes apart | one domain; extras used once; the owner organization is written once and serves the domain |
| Fetching items (`utils/inter_instance_fetch.ts`, `utils/item_fetch_*.ts`, `utils/instance_merge.ts`) | Redis counts and pages | fetch across instances, own list, sweep after a change | counts and pages read at different times; peers that do not answer; a sweep in the middle of a fetch | exact pages; partial ones reported and not cached; a sweep leaves nothing older than the change |
| Metrics (`services/metrics`, `routes/v1/aggregator/dashboard.ts`, `export.ts`) | `item_metrics`, advisory locks of database sessions | check the age of the rows, recompute under a lock, serve | locks and pooled connections; recomputations that overlap; batches one by one | what is served as fresh lags by the time to live at most; every check ends |
| Geocoding, notifications, support, search events | derived or external | reads, best-effort writes | — | — |
| Web application (`apps/ui`) | — | client of the API | — | — |

`PROJECT.json` lists every component with its sources and says which are not
modelled and why, and every hazard at the line where it bites.

## 2. Modules

| Module | What it is |
|---|---|
| `Connections` | Connection requests, contact details and item lifecycle: the handlers step by step over shared tables, the event mirror, crashes |
| `Negotiation` | The abstract promise to the two sides of a request, every request indivisible |
| `MCConnections` | Small instances for TLC: owners, homes, symmetry |
| `Profiles` | Profiles of users: the handlers that create, edit, promote, retire and delete them, step by step, with the consents, ages and domains they read and write |
| `MCProfiles` | Small instances for TLC: the ages that clients tell, symmetry |
| `Guardians`, `MCGuardians` | Guardians of minors: links, codes, counters, answers and what they set in motion, signup and its hook |
| `Sessions`, `MCSessions` | Browser sessions of one person over several pods, with the tokens Keycloak rotates |
| `Accounts`, `MCAccounts` | Accounts of people: identity, row, domain, parked extras, owner organization, onboarding |
| `Fetching`, `MCFetching` | Pages of items gathered from several instances, and the caches in front of them |
| `Metrics`, `MCMetrics` | The rows of the aggregator dashboard, the advisory locks around their recomputation and the connections these belong to |
| `ConnectionsProofs` | Theorems about `Connections`: types, transitions, consents, events, the pair cap, retired items |
| `ConnectionsRefinement` | Theorem: `Connections` implements `Negotiation` |
| `ProfilesProofs` | Theorems about `Profiles`: types, one domain, what is live is behind its gates, the limit of profiles, erasure, statuses that fit the data |
| `GuardiansProofs` | Theorems about `Guardians`: types, the limit of wards, counters, codes, verified guardians |
| `SessionsProofs` | Theorems about `Sessions`: types, one session per login, the first login, waiting requests, what ends a session |
| `AccountsProofs` | Theorems about `Accounts`: types, owner, domain, accounts without a login, extras |
| `FetchingProofs` | Theorems about `Fetching`: types, what a sweep leaves, exact pages |
| `MetricsProofs` | Theorems about `Metrics`: types and locks, the age of the rows an answered check may read |

The modules share tables but are checked apart, because no statement of the one reads
what another adds. `Connections` and `Profiles` share the item: a profile's data, gates and limits never
look at actions, and a connection looks at nothing of an item but its owner,
its status and that a live item has private fields. `Profiles` and `Accounts`
share the domain of a user: `Profiles` has the creations that claim it,
`Accounts` everything else that writes the user's row; an item is there no more
than its domain. `Guardians` ends where the guardian's answer promotes a
profile or lets an action pass, which is where `Profiles` and `Connections`
take it as given. `Sessions` stops at the token, `Accounts` starts with what it
says. `Fetching` sees of an item only whether it is visible, `Metrics` only
whether it is there and when it changed last.

### How `Connections` corresponds to the code

A **handler** `h` is a request being served. `handler[h].pc` says which
statement comes next and the other fields hold what it has read: the action,
its `update_count`, the status the client asked for, the two items, and for a
retire the actions it selected. Between two steps of one handler any other
handler may commit. A transaction is one step when its effects are seen by others
only at the commit, and two when something happens in between that matters:
the insert of `perform` (the lock and the count, then the rows) and a retire
(the SELECT of the open connections, then the updates).

| Actions of the module | Code |
|---|---|
| `PerformProxy` | `runPerformActions` up to the POST (source owned and live, guardian gate, validation) |
| `PerformReadTarget`, `PerformReadSource` | the live and self-action checks of the write endpoint |
| `AssertPairCapAvailable`, `PerformInsert` | its transaction: advisory lock, count, action, initiator's consent |
| `PerformPublish` | `insertActionEvent` and the mirror after the commit |
| `PerformGuardianRow` | back at the proxy, the guardian's consent of a minor |
| `UpdateRead`, `UpdateReadTarget`, `UpdateReadSource` | update-status: the read of the action, the terminal and ownership checks, liveness of both sides, guardian gate and acknowledgement |
| `UpdateCommit`, `UpdateConflict` | the compare-and-swap with the consents, or `ACTION_CONFLICT` |
| `UpdatePublish` | event and mirror |
| `StoreEvent`, `LoseMirror` | `/event/store` at the other instance, or a post that failed |
| `ContactRead` … `ContactReveal` | the four reads of the contact details handler |
| `LifecycleRead`, `PauseCommit`, `UnpauseCommit`, `RetireSelect`, `RetireCommit` | `/item/lifecycle` |
| `DeleteItem` | `DELETE /item` |
| `Abandon` | a refused request, a failed statement (the transaction rolls back) or a crash |

Abstractions. The interaction between two items is fixed, so its buckets are
constants; the initiator's consent is required, and recorded, when it reveals
anything. `unpause` classifies the item's data again: its outcome, live or
draft, is a nondeterministic choice. The guardian gate of a minor is taken as passed before the
request goes on; a refusal changes no table of this module. Bulk requests are
single ones in sequence. Partition setup, validation of payloads and the
network configuration can only refuse, which is what a request that never
starts, or `Abandon`, does. Remarks, match scores, notifications, caches and search events
are left out. `log` (committed transitions) and `disclosed` are history
variables: no guard reads them.

A retire in `Connections` does not write to `log`: it moves a row without an `update_count` of
its own. That is why the invariants over `log` hold while `CancelledIsFinal`
fails (section 5).

### How `Profiles` corresponds to the code

Again a handler is a request being served, and its fields are what it has read:
the row of the item (`row`), the items a promotion has found (`seen`), the consent
rows it has inserted and not committed (`rows`), the age it will write. An item
keeps whether its required fields are filled in (`complete`) and whether
personal data is stored (`personal`).

| Actions of the module | Code |
|---|---|
| `CreateBegin` | `POST /item/create` up to the transaction, with `resolveSelfConsentPromotes` |
| `ClaimDomain` | `assertSingleDomain`: the conditional UPDATE of `claimDomain`, which waits for another transaction's row lock, or the domain already held |
| `AssertProfileLimit` | the advisory lock and the count |
| `CreateInsert` | classification, item, consent row, commit |
| `SetDomain` | `POST /user/domains` |
| `AcceptCheck`, `GuardianCheck` | the owner's `/consent/profile-accept`, the guardian's `/consent/u18/profile-consent` after the code was verified |
| `PromoteRead`, `PromoteCommit` | the transaction of both: the consent row (unique index, or upsert for the guardian), `promoteItemOnProfileConsent`, commit |
| `ParticipantAge`, `PromoteCommit` | `POST /admin/participant` for an existing account: the age write and the sweep `promoteEligibleDraftsForUser` |
| `DobRead`, `DobCommit` | `POST /consent/u18/dob`: check, then set |
| `UpdateRead`, `UpdateGates`, `UpdateWrite` | `updateItemInternal`: read, `computeItemStateUpdate` (merge, latch, gates, classify), update by id |
| `LifecycleRead`, `LifecycleCommit`, `RetireCommit` | `/item/lifecycle` |
| `DeleteItem` | `DELETE /item/:itemId` |
| `Abandon` | a refused request, a rolled back transaction, a crash |

Row locks and unique indexes are guards: `UserLocked` (a transaction has
written the user's row), `ConsentLocked` (one is about to commit the same consent), `LimitLocked` (the
advisory lock). A deleted row keeps its owner and domain in the model, so that the
one-domain property can speak of it; nothing that reads rows sees it.

Abstractions. Each domain has one item type and one schema. `complete` is
chosen for each create and edit. The reads of one promotion or one sweep are a
single step, its writes another. The gate `owner_required` is left out: no
network of `examples/schemas` enables it. Accounts start migrated: one that owned items
before migration 0015 filled `user.domains` is not an initial state. The
default aggregator's tag on the user row, the participant route for a new
account (a create with consent, then the same sweep) and bulk requests are not separate actions.
Geotags, match indices, events, caches and notifications are left out.
`erased` is a history variable: no guard reads it.

### How `Guardians` corresponds to the code

A code has a **scope**: the ward and what it is for. `guardian[w]` is the row of
`minor_guardian`, `pending[w]` the record a signup keeps in Redis, `code[s]` the
code of a scope, `token[w]` the answer a profile about to be created waits for.
`count` and `endless` are the counters and those whose expiry is not set.

| Actions of the module | Code |
|---|---|
| `LinkBegin`, `AssertWardLimit`, `Upsert`, `LinkReadBack` | `POST /consent/u18/guardian`: the check without a lock, the advisory lock and the recount, the upsert, the contact a code is then sent to |
| `SignupStart`, `SignupWrite` | `startSignupGuardian`: the pending record, then the code |
| `CreateAccount`, `HookRead`, `HookDropPending` | the account, and `materializeSignupGuardian` in its hook (through the same lock and upsert) |
| `CountHit`, `SetExpiry` | `incrWithinWindow`: INCR, then EXPIRE on the first hit |
| `IssueBegin`, `IssueCode` | `issueGuardianOtp` |
| `VerifyBegin`, `Compare` | `verifyGuardianOtp`: the attempt is counted, compare and delete in one script |
| `Act`, `VerifyConsents`, `SetGuardianVerified`, `SignupFlip`, `Effect`, `PutToken` | what the route does after the match, by purpose |
| `FinalizeTake`, `FinalizeCommit`, `FinalizePutBack` | `POST /consent/u18/profile-consent/finalize` |
| `ExpireCode` … `ExpireCounter`, `Refused`, `Abandon` | expiry, a limit reached, a failure or a crash at any step |

Abstractions. All wards are minors of known age. The limit per IP address, the
variables of message templates and the notifications are left out; so is the resolution of
versions, whose refusal is what `Abandon` does. The row of the declaration is
part of the link. A signup has one identifier. A failed transaction is rolled
back. Counters stop counting past their limit. A kind that is not in `Counted`
refuses only as `Abandon` does. A code that is lost on the way is one that no client
submits.

### How `Sessions` corresponds to the code

| Actions of the module | Code |
|---|---|
| `StartLogin` | `/auth/login`: flow row and cookie |
| `CallbackBegin`, `ConsumeFlow`, `CreateSession`, `LoginFails` | `/auth/callback`: the cookie, GETDEL of the flow, the exchange, the session |
| `RequestBegin` | `resolveBrowserSession` up to the refresh: GET, the expiry, the map of refreshes under way |
| `RefreshCall`, `RefreshRevoked`, `RefreshFails`, `StoreRead`, `StoreWrite` | `doRefresh` and `updateSession` |
| `RejectedRead`, `DestroyRejected` | `invalid_grant`: the re-read, and the end of the session |
| `Verify`, `MeRead`, `Claim`, `Answer`, `StampRead`, `StampWrite` | `/auth/me` with `claimFirstLogin` and the stamp in the session |
| `Logout`, `ExpireSession`, `GetOld`, `Crash` | logout, time to live, the age of tokens, a pod that stops |

Access and refresh token are one number, the generation. Redis GET and the lookup in the map are one step, since nothing is awaited in
between. `GET /auth/session` without a row is the case of `RequestBegin` that
finds none. A request that fails the CSRF check changes nothing.

### How `Accounts` corresponds to the code

| Actions of the module | Code |
|---|---|
| `SetDomainsBegin`, `ReadLockedDomains`, `Tag` | `POST /user/domains`, and the tag of the default aggregator |
| `CreateItem` | the creation of a profile, as far as it claims a domain and tags |
| `Nominate` | nomination of a default aggregator |
| `SignupBegin`, `FindInRealm`, `SignupImport`, `SignupReplyLost`, `StashExtras` | self-signup: lookup in the realm, partial import, the parked extras |
| `LoginBegin`, `RefreshMirror`, `ClashCheck`, `InsertMirror` | `resolveOrProvision`: the row by id, `refreshMirror`, or `createMirror` |
| `TakeRead`, `TakeDelete`, `ApplyExtras` | `takeSignupExtras`, `applySignupExtras` |
| `Onboard`, `Mint`, `MintFails`, `DeleteOrphan` | `signUpAndOnboardUser`: the row (with a profile), the identity, and what follows when it fails |
| `InsertItemBegin`, `InsertItem` | `handleInsertItem` |
| `ChangePhone`, `Crash` | a change of number at Keycloak; a crash or lost answer |

Abstractions. A token carries the identifiers the realm has now. Age, names,
verified flags, channels, bans, membership of organizations, the other columns
of the mirror and rate limits are left out. Two lookups in the realm, and the SETs, GETs
and DELs of one set of extras, are one step. Numbers change only after the
first login. A transaction of onboarding that fails is `Crash`. At most one account predates
the domains column. The hook that gives a minor the guardian is in `Guardians`.

### How `Fetching` corresponds to the code

One instance answers; `counted` and `pages` are its Redis. A page is keyed by its request. The key of a
count contains the filters, offset and limit among them, but not whether items or markers are asked for.

| Actions of the module | Code |
|---|---|
| `Hit`, `Miss`, `Plan`, `PageFails`, `Answer` | `fetchItemsAcrossInstances`, and its twin for markers |
| `CountHit`, `CountRead`, `CountStored`, `CountFails` | `getInstanceCount` |
| `OnlySlice`, `HeadSlice`, `Merged` | `buildPagePlan`; `scatterGatherPage` with its clamp to `peerLimitMax`, here `PeerLimit`; `mergeSortAndSlice` |
| `PageRead` | `fetchInstancePage`, here or at the peer's `/network/item/fetch_local` |
| `Miss` and `Answer` of kind `own` | `getCachedLocalItemFetch` |
| `Commit`, `SweepCounts`, `SweepPages`, `SweepLost` | a handler that changed an item, `invalidateItemFetchCache`, and its failure |
| `CommitUnswept` | a change at a peer, or by the participant route |
| `ExpireCount`, `ExpirePage`, `Abandon` | times to live; an error, a crash, or the end of an answered request |

Abstractions. Items differ only in their rank; ties, filters and geometry are left out, and
with them requests for markers without a centre, whose order across instances is
unspecified by the comment at `inter_instance_fetch.ts:337`. So is
the rounding of coordinates in keys. The sweep
of a family is one step; of what a SCAN may miss, the model has the case that
matters, a page stored after it. `still` and `own` are history fields: no guard reads them.

### How `Metrics` corresponds to the code

A check is one call of `check_and_refresh_if_stale`, a **pair** an aggregator and one of
its domains, the key of an advisory lock. `held` and `waiter` are the sessions
of PostgreSQL, one for each pooled connection: a statement goes to any connection of
the process that is not waiting.

| Actions of the module | Code |
|---|---|
| `Start` | the dashboard and the export, with `refresh` or without; one check for each domain |
| `ServeFresh`, `FindStale` | the age of the oldest row against the time to live; `told` is the `last_computed_at` of the answer |
| `Lock`, `ServeStale`, `Wait`, `Grant`, `Abort` | `pg_try_advisory_lock`, `pg_advisory_lock` |
| `Begin`, `Query`, `Flush`, `Fail` | `recompute_aggregator_domain_metrics`: the sample, the query, the batches, an error at any of them |
| `Unlock`, `Reread`, `Throw` | the `finally`, the second look at the age, an error outside of the `try`, or of another check of the request |
| `ReadRows` | `build_domain_block`, after all checks of the request: the statements that read the rows |
| `Change`, `Delete` | an edit as in `updateItemInternal`, and so `createItem`, the lifecycle routes and every event of an action; `DELETE /item` |
| `CloseIdle`, `Crash`, `Tick` | the pool closes an idle connection, a process stops, time passes |

Abstractions. What a row says is the time of the last change it has seen: its counts
and its status are a function of the data that was read and are left out. The clock ticks,
and the time to live is a number of ticks. The statements that read the rows see them at any moment
from the answer of the check (`Return`) to `ReadRows`, so what holds of the rows is stated of each state in
between; `overtaken` is a history field: the checks in whose time a recomputation older than what they were told has written. Whose profile an item is does not change, nor the
aggregator of its owner. The database is one, as every instance has its own.

## 3. Runs

| Run | Instance | Shows |
|---|---|---|
| `conn_race` | 2 items of 2 owners, each on its own instance, 1 action, 2 handlers, update_count ≤ 2, the receiver a minor; perform, update (accept, cancel), contact, retire; crashes, lost mirrors | the six invariants, and `KeepsPromise`: the server implements `Negotiation` |
| `conn_cap` | 1 instance, 2 actions, 2 handlers, cap 1, one of the owners a minor; no crash | concurrent submits in both directions stay within the cap, and a minor's request is followed by the guardian's row |
| `conn_sequential` | 3 items, one on another instance, 1 handler, every lifecycle request, delete; no crash, no loss | a retired item has no open connection in its own database when requests come one at a time; every transition is published and mirrored |
| `profile_race` | 1 user, 2 items, 2 domains (one asks for consent, one for a guardian's), 2 handlers, limit 1; every request but `/u18/dob` and retire; crashes | the limit, one domain, and live only behind the gates, under every interleaving of two requests |
| `profile_sequential` | the same with 1 handler and every request; deletes and choices of a domain still fall between its steps | what retire erased stays erased, live profiles are complete, no order of consent, age and data strands a profile as a draft |
| `guardians` | 2 wards (one with an account, one who signs up), 1 guardian, 2 codes, 2 handlers, limits 1; everything expires, crashes | ward limit, one effect per code and only the one asked, verified means answered and on record, counters expire |
| `sessions` | 2 browsers, 2 logins, 2 sessions, 2 pods, 2 handlers, 2 generations of tokens, 1 fault; `/auth/me` and logout | one session per login, one first login, waiting requests have a leader, lost sessions are explained |
| `accounts` | 2 people who share a phone number, 2 domains, 1 organization, 2 handlers, 1 fault | one domain, the owner serves it and is written once, extras are used once, whoever has a row without an identity owns items or is left by a request that was cut off |
| `fetching` | 2 instances, 3 items, 1 fetcher, pages of 1 row: the second page of items, within what a peer gives, the second page of markers, beyond it, and an own list; 2 changes | pages are exact within what a peer gives and repeat no row beyond it, what a sweep leaves behind is known |
| `metrics` | 2 checks of one pair, 1 process with 2 connections, 2 profiles, batches of 1, a clock of 3 ticks, 1 change; failures, crashes | the rows of an answered check show every change older than it was told, or than the time to live when fresh, unless an older recomputation overwrites them before they are read; every check ends |
| `retire_race`, `guardian_swapped` | as above, with the requests the race needs | counterexamples, section 5 |

**Bounds.** `MaxCount` bounds `update_count` in the guard of `UpdateRead`: with
2, an action can be cancelled or answered, and answered again, and both races
(cancel against answer, answer against answer) occur. Two handlers suffice for every race
between a read and a commit, because a property is broken by one stale
handler and one that commits in between; a third only repeats the second.
Two actions are needed only where actions interact, in the cap. `Endpoints`
selects the requests clients send in a run, so that the states are spent on the
question the run asks. One user is enough for profiles: no statement relates two users' rows. Two items and a
limit of 1 let two creates race for the last place, and two domains let them
race for the account. `profile_race` leaves out `/u18/dob` and retire because
each breaks a property by itself in a race (section 5); the theorems say
exactly what is needed of them. In `profile_sequential` a user tells only the
age of a minor: an adult who tells an age by that route is not promoted (section 5).
In `guardians` one guardian and limits of 1 make every link and every code a
race for the last place; the wards' purposes differ, so every route is taken. In
`sessions` two generations are one refresh; one fault lets each failure happen at
each step. In `accounts` the shared number makes each pair of signup, login and onboarding clash.
In `fetching` the second of three rows may be at either instance, and a change
adds a row before it or removes one. Requests meet only through Redis: what a second fetcher would leave there,
a count or a page older than a change, is left there by an earlier request of the only one, and the theorems hold for any
number of fetchers. In `metrics` two connections are the
fewest with which a lock can be left on one and waited for on the other; three
ticks put a change between two recomputations, and with a time to live of 0 each tick makes the rows
too old (the theorem holds for any).
Action ids, items of `Profiles`, handlers and, in the other modules, the names listed in their `MC` module are interchangeable and form the symmetry
sets of the runs that check safety only.

Deadlock is not checked: the instances stop when the bounds are reached, and
a server to which nobody sends requests may stand still.

**Fairness** (`FairSpec` of `Connections` in `conn_cap` and `conn_sequential`, of
`Metrics` in `metrics`). A process goes on with a request it
has accepted (`WF` on the steps of each handler) and a posted event arrives.
Nobody has to send a request, so no user action is fair. `MayFail` is FALSE in the
first two: after a
crash between the commit and the event nothing in the code repeats the event,
so `TransitionArrives` and `GuardianRowFollows` hold only without crashes, and the first only
without losses. With crashes the safety half remains, `EventsTellTheLog` in `conn_race`.
In `metrics` failures and crashes may happen but need not; PostgreSQL grants a
lock that is free and breaks deadlocks, and `pg`'s pool, created without options,
closes a connection that has been idle for ten seconds, which drops its locks. That
is what a check that waits for a lock nobody gives back relies on. The run has finitely many checks: under
traffic without a pause a connection need never be idle.

## 4. Proofs

Eight modules prove, for any sets of items, users, domains, instances, wards,
codes, browsers, processes, connections, handlers and actions, and under the assumptions
of the modules only (except where the table says otherwise):

| Theorem | |
|---|---|
| `TypeCorrect` (this and the next five in `ConnectionsProofs`) | `Spec => []TypeOK` |
| `OneTransitionPerCount` | `Spec => []TransitionPerCount` |
| `WithdrawalAndAnswerExclude` | `Spec => []WithdrawnOrAnswered` |
| `RevealIsConsented` | `Spec => []RevealNeedsBothConsents` |
| `DisclosureIsConsented` | `Spec => []DisclosureConsented` |
| `EventsAreCommitted` | `Spec => []EventsTellTheLog` |
| `ServerKeepsPromise` (`ConnectionsRefinement`) | `Spec => KeepsPromise` |
| `PairCapHolds` (`ConnectionsProofs`) | `Spec => []PairWithinCap`, if no client reopens a request (`NoReopening`) and all items share a database (`OneDatabase`) |
| `RetiredAreDisconnected` | `Spec => []RetiredHasNoOpenConnections`, if no submit or answer is past its check of an item while a retire of the item is between its selection and its commit (`RetireApart`) |
| `ProfilesTypeCorrect`, `OneDomainForLife` (`ProfilesProofs`) | `Spec => []TypeOK`, `Spec => []OneDomain` |
| `LiveIsBehindGates` (`ProfilesProofs`) | `Spec => []LiveBehindGates`, if no age write turns an adult into a minor (`AdultsStay`) |
| `LiveIsBehindGatesWithoutDob` | the same without the hypothesis, where `/u18/dob` is not served |
| `ProfileLimitHolds` (`ProfilesProofs`) | `Spec => []ProfileLimit`, if what is retired stays so (`RetiredStays`) |
| `ProfileLimitWithoutRetire` | the same without the hypothesis, where nothing is retired |
| `ErasedDataStaysErased`, `ProfileLimitWithRetire` | `Spec => []ErasedStaysErased`, `Spec => []ProfileLimit`, if no edit, transition or promotion is past its read of a profile when a retire of the profile is about to commit (`RetireApart`) |
| `StatusFitsDataApart` | `Spec => []StatusFitsData`, if the requests about one user do not overlap (`OnePerUser`) and no client tells an adult's age |
| `OneRequestPerUser` | `ProfileLimit`, `LiveBehindGates` and `ErasedStaysErased` under `OnePerUser` alone |
| `TypeCorrect` (this and the next five in `GuardiansProofs`) | `Spec => []TypeOK` of `Guardians` |
| `WardLimitHolds` | `Spec => []WardLimit` |
| `CountersExpireHolds` | `Spec => []CountersExpire` |
| `OneEffectPerCodeHolds` | `Spec => []OneEffectPerCode` |
| `OnlyWhatWasAskedHolds` | `Spec => []OnlyWhatWasAsked` |
| `VerifiedIsBackedHolds` | `Spec => []VerifiedIsBacked` |
| `SessionsTypes` (this and the next four in `SessionsProofs`) | `Spec => []TypeOK` of `Sessions` |
| `OneSessionTheorem` | `Spec => []OneSessionPerLogin` |
| `FirstLoginTheorem` | `Spec => []FirstLoginOnce` |
| `LeadersTheorem` | `Spec => []WaitersHaveLeader` |
| `LossTheorem` | `Spec => []LossIsExplained` |
| `AccountsTypes` (this and the next five in `AccountsProofs`) | `Spec => []TypeOK` of `Accounts` |
| `OwnerTheorem` | `Spec => OwnerWriteOnce` |
| `DomainTheorem` | `Spec => []SingleDomain` |
| `OwnerDomainTheorem` | `Spec => []OwnerFitsDomain` |
| `LoginlessTheorem` | `Spec => []LoginlessOwnsItems` |
| `ExtrasTheorem` | `Spec => []ExtrasUsedOnce` |
| `FetchingTypes` (this and the next two in `FetchingProofs`) | `Spec => []TypeOK` of `Fetching` |
| `SweptTheorem` | `Spec => []SweptAfterCommit` |
| `AnswersTheorem` | `Spec => []AnswersAreExact` |
| `MetricsTypes` (this and the next in `MetricsProofs`) | `Spec => []TypeOK` of `Metrics` |
| `LagTheorem` | `Spec => []LagBounded` |

The argument runs along inductive invariants, each used by the next.

1. `TypeInv` adds to the types what a handler remembers at each program
   counter: one past its first read names an existing action, one in `perform`
   two items.
2. `CasInv` relates the log to the rows. `LogInv`: the counts of an action's
   transitions are at most its `update_count`, and a withdrawn row stays in
   the cancel bucket at the count of the withdrawal. `MemoryInv`: a handler
   about to commit remembers a count that is at most the row's, a canceller
   remembers 0, and after a withdrawal every handler still at work remembers a
   smaller count than the withdrawal's, so its compare-and-swap fails.
   `FirstInv`: a withdrawal is the first move. `TransitionPerCount` is not
   inductive without `LogInv`: only because every logged count is at most the
   row's is the new count fresh. `WithdrawnOrAnswered` is not inductive
   without `MemoryInv`: the status a handler checked was read earlier, and
   only the count it remembers says that no withdrawal came since. Retire changes a status without a count, so
   `MemoryInv` speaks of counts and of the log, never of the present status.
3. `ConsentInv`: an action exists together with its initiator's consent, and a
   revealing status together with the acceptor's.
4. `ViewerInv`: a handler that has seen a revealing status carries the
   consents with it, because consents are never withdrawn. This is what makes
   the reveal safe although everything it checked may have changed.

5. `EventInv`: what a handler is about to publish, what is on its way and
   what has arrived was committed, and each count is published once
   (`TransitionPerCount` makes the mirrored events distinct).
6. The refinement needs one fact more, `BlankInv`: an action without a row has
   count 0. Each step is then a step of `Negotiation` (insert, commit and
   reveal) or is silent: it changes nothing the two sides can tell. A
   retire is silent because phases come from the log.
7. `CapInv`: at most one handler per pair and database is between its count
   and its insert, and while it is there the pair has room. A transition
   can only free the pair under `NoReopening`. The two hypotheses of the theorem
   are exactly what the two remarks on the cap in section 5 drop.

   `RetireInv`, for `RetiredHasNoOpenConnections`, adds that whoever is past its check of an item
   has an item that is not retired, and that a retire about to commit has selected every
   open connection. A cancellation checks nothing, but what it writes is not open. The hypothesis `RetireApart`
   names the one overlap that breaks it: a submit or an answer that found the item live before the retire
   commits and commits itself after the selection.

For `Profiles`:

8. `TypeInv` and `MatchInv`: what a handler has read is of the profile it
   names, whose owner and domain never change. A stale row that is written
   back is at least of the same owner and domain.
9. `DomainInv`: every profile has its owner's domain, a create past the lock has
   found that domain or holds the only claim on a user who has none. `OneDomain` alone is not
   inductive: it says nothing of the creates under way.
10. `GateInv`: what is live **or paused** has open gates, and so has every
   profile that a handler is about to write as live or paused. Paused belongs
   to it because resuming looks at no gate. What opened a gate is never taken
   back (`GatesGrow`): consents are only added, and an age that is known stays
   known. Only an adult who becomes a minor would close a
   gate: the hypothesis `AdultsStay` excludes it, and two overlapping requests to `/u18/dob`
   (section 5) do it. Where `/u18/dob` is not served, `AllGrown`
   shows that the hypothesis holds.
11. `LimitInv`: at most one create per user and domain is between its count and
   its insert, and while it is there it has room. No other step makes a profile
   count, except one that brings a retired one back: the hypothesis
   `RetiredStays`, which holds by itself where nothing is retired (`NoneRetired`).
   `ErasedInv`: what has been retired is retired or deleted, and no request that is past
   its read is about it. Requests read only what is not retired, so `RetireApart`, which is
   about the moment of the retire, is all it needs; and it gives `RetiredStays`.
   `FitsInv`: no profile waits for nothing, and neither does what a request is about to commit: a create
   with consent that does not promote is in a domain with guardians and of a user not known as an adult, a
   promotion has found every profile of its user that its consent or age unblocks. Consents, ages and
   rows of one user are touched by requests about that user only (`Calm`), so the hypothesis is about overlapping
   requests of one user, weaker than the single handler of `profile_sequential`.
   Under it `OwnInv` derives `RetireApart` and `AdultsStay`, the hypotheses of the other theorems.

For `Guardians`:

12. `TypeInv`: at each program counter a handler knows what its next step is
   about: the ward, a purpose that ward is asked for, the contact, the code,
   the counter. The link a handler reads back is still there.
13. `WardInv`: a handler between its count under the lock and its write has
   room and is the only one with its contact. `WardLimit` alone does not
   forbid two such handlers.
14. `CountersExpire` is inductive together with the types.
15. `TicketInv`: a code is stored, in the hands of the request that matched it,
   left as a token or acted upon, in one of these places at a time, and in each
   it stands for the scope it was issued for. One effect per code and the
   scope of the effect are two faces of it: only because a code is known to be
   nowhere before it is issued does its scope never change.
16. `BackedInv`: whoever is about to be marked verified, in a row, in a pending
   signup or in the hands of a handler, has an answer, and answers stay,
   which needs `TicketInv`: a code with an effect is never issued again.

For `Sessions`:

17. `TypeInv`: a request knows at each program counter the flow, the session or the
   tokens its next step is about, and no row, cookie or request names a session that no
   login opened.
18. `FlowInv`: a flow that is being turned into a session is gone from Redis, one
   request only is at it, and no session stems from it yet. `OneSessionPerLogin` says
   nothing of the request between the GETDEL and the new row.
19. `FirstInv` counts with what was told what a row or a request may still tell; all of
   it is of one session, and only after the tag was claimed.
20. `LeaderInv`: that a process has one leader per session at most makes the end of its
   refresh the moment to empty the map.
21. `RotationInv`: while nothing known disturbs a session, its row holds the newest
   tokens or one request is bringing them, and that request is the only one that has called
   Keycloak; a token rejected is then not the row's. `LossIsExplained` needs all
   of it: it is about the end of a chain of six steps.

For `Accounts`:

22. `TypeInv` adds what the requests carry. `OwnerWriteOnce` is a property of steps and needs
   nothing else: each statement that writes an owner tests for one in the same statement.
23. `LockInv`: a request about to tag an account with the owner of a domain holds a domain the
   account is locked to. Between lookup and tag other requests may write, but not another domain.
24. `PersonInv`: two requests about one person that would be in each other's way
   are never in flight together, because the identity one of them makes refuses the other.
   `LoginlessOwnsItems` is inductive with `LockInv`, which says that whoever is at a first login has an
   identity; `cutOff` names the requests that stopped between the row and the identity, and the
   theorem leaves out their accounts and no others, whatever fails.
25. `StashInv`: the extras of a signup lie under the keys of that signup, with one request that
   has taken them, or with the account they were applied to, and in one of these places only. It
   needs that a number changes hands only after the first login has emptied its keys.

For `Fetching`:

26. `TypeInv`: items are visible at home only, so that pages of different instances are disjoint.
   `SweptAfterCommit` needs nothing else.
27. `AnswerInv`: what a request that no change overlapped has gathered is what the slices of its plan select of
   the items visible now, and a cached page that no change followed is right. The step from slices to
   the page is arithmetic on the number of rows before a row: the heads of all
   instances hold the head of their union (`HeadOfUnion`), so merging them loses no row
   (`MergeKeepsPage`), and the slice of the only instance that has rows is the page (`OnlyPage`). Heads that were cut
   short leave out rows, but those that are left have no more rows before them than in the whole, so none is repeated
   (`MergeRepeatsNone`).

For `Metrics`:

28. `WaitInv`: a connection waits for one check of its own process, and a waiting check has one.
   `HeldInv`: what a session holds, together with the checks that may still take a lock, is no
   more than the checks that were begun.
29. `SeenInv`: a row, or a recomputation, that has missed the last change of a profile bears a time no
   later than that change. It speaks of no lock, and so `LagBounded` holds although locks exclude
   nobody (section 5): an older recomputation that overwrites newer rows makes them older too. `ToldInv`: no row
   of the pair of a check that was not overtaken is older than the check was told, through the wait for a lock and up to
   the reading of the rows. It needs that a set of times has a least one (`LeastTime`).

Assumptions: `GuardianAssumption`, `ItemAssumption`, `BoundAssumption` and `ProfileAssumption` fix the kinds of the
constants; `StatusAssumption` says that buckets and revealing statuses are
statuses, and that neither the status of a fresh request nor a cancelled one
reveals anything. Every network in `examples/schemas` satisfies it; the
schema of the network configuration does not enforce the last part. `SessionAssumption`,
`AccountAssumption`, `FetchingAssumption` and `MetricsAssumption` fix the kinds of their
constants: the markers for "none" are none of the things they stand in for, an email is no phone
number, processes share no connections, and there are finitely many instances and items, which are numbered
in the order of a page.

Only model-checked: liveness (`GuardianRowFollows`, `TransitionArrives`, `EveryCheckEnds`), as
the prover handles neither fairness nor ENABLED. Every safety property of a passing run is a theorem,
six of them under the hypotheses in the table, each of which names what breaks the property in the code:
`PairWithinCap`, `RetiredHasNoOpenConnections`, `LiveBehindGates`, `ProfileLimit`, `ErasedStaysErased`
and `StatusFitsData`.

## 5. Where the code and its documentation disagree

| Run | The code | The text |
|---|---|---|
| `retire_race` | A retire cancels open actions by id without raising `update_count`. An answer that has read the action before still passes its compare-and-swap and the cancelled action becomes accepted. | `update_action_status.ts:212` “Cancellation is terminal … No further transition … is allowed by either party” |
| `guardian_swapped` | A signup is started a second time with another guardian and refused for its rate, after that guardian has replaced the first in the pending record. The first one's code still answers, and the second is stored as verified. | `signup_guardian.ts:130` “never writes partial state on a throw” |

Remarks that have no run of their own. Each was met while modelling; the
properties are stated so that they hold beside it.

Connections:

- An action is stored and counted at its target's instance. Two instances, one
  request each way, give two open actions with a cap of 1, against
  `action_pair_cap.ts:12` “One rule for the whole pair — bidirectional”. `conn_cap` and
  `PairCapHolds` have one database.
- update-status never looks at the cap and takes any status of the event
  schema: a receiver may reopen an accepted request while another is open,
  against `network/action/perform_action.ts:302` “at most `max_actions_per_pair` … OPEN
  actions between these two items”. `NoReopening` excludes it.
- A retire reaches only the database of its own instance, so an action whose
  target lives elsewhere stays open; `RetiredHasNoOpenConnections` is
  restricted accordingly. A hard delete leaves all actions of the item open.
- The docstring of `cancelItemConnections` (`retire_connections.ts:47-50`) says
  that untracked interactions are skipped; the code cancels them with a
  fallback status, as its own comment at line 121 says.

Profiles:

- An edit reads the profile, refuses a retired one, and updates by id some
  statements later. When a retire commits in between, the merged personal data
  is written over the erased, against `item_service.ts:992` “Retire is terminal (#347)
  … without this a PATCH would re-merge the body, re-encrypt private fields and
  silently re-introduce the PII retire erased”. Pause and unpause also read, then
  update by id: one in flight brings a retired item back. `ErasedStaysErased`
  is therefore checked with requests one at a time, and proved where no such request
  overlaps the retire (`ErasedDataStaysErased`). The same race makes a
  user exceed the limit, which `item_service.ts:347` rests on that
  terminality (“It cannot be gamed”); `ProfileLimitHolds` states it as a hypothesis.
- `/u18/dob` reads the age, finds none, and sets it unconditionally: of two
  requests the later rewrites what the earlier recorded, against `u18_dob.ts:32`
  “Don't let a stored age be rewritten — especially a minor→adult flip”.
  `POST /admin/participant` records an adult's age whatever was there before.
- `/u18/dob` promotes nothing: an adult who consented before telling the age
  keeps a draft that passes every gate, against `participant_consent.ts:175`
  “persisting it can unblock several of the user's profiles at once — call this after an age write”.
- A promotion checks a draft's required fields and sets it live by id; an edit
  in between may have emptied one. So does resuming. `StatusFitsData` is
  checked with requests one at a time, and proved where those of one user do not overlap.

Guardians: the swap of `guardian_swapped` is possible on the route
`/consent/u18/guardian` too, where a second link that is refused for its rate has
replaced the guardian whose code is still stored.

Sessions:

- `resolve_browser_session.ts:154` says that two pods may race and that the
  re-read after `invalid_grant` recovers. It does when the winner has stored its
  tokens; a rejection that arrives before finds the old ones and ends a healthy session.
- `updateSession` reads and writes back: `/auth/me` may restore tokens already
  spent, or a session logged out meanwhile, and of two concurrent `/auth/me` the later may
  replace a first login by an ordinary one. A refresh whose answer is lost ends the session at
  the next. `LossIsExplained` admits these ends and no other.
- A callback that is not bound to the browser clears the flow cookie all the
  same, and with it the login under way there.

Accounts:

- `applySignupExtras` sets the domain whatever is there
  (`provisioning.ts:570`), although `single_domain_lock.ts:55` calls it “write-once at
  the database level, so no later call can re-point an existing lock”. `SingleDomain`
  excepts the accounts to which that happened.
- An onboarding with a profile whose identity cannot be created deletes the
  row; the foreign key of `items` (`0001_core.sql:26`) refuses, so the row stays,
  against `participant.ts:296` “the orphan is cleaned up the same way an update
  failure is, so the caller can safely retry”. A process that dies between the row and the identity, or a
  removal that fails (“manual cleanup needed”, `participant.ts:342`), leaves a row without an identity for good. A lost answer of Keycloak may have the
  row of someone deleted who has an identity.
- The clash check of a first login does not except the person's own id, so one of two
  concurrent first logins is refused as a conflict, although a test has it
  recover (`provisioning.test.ts:485`); and the re-read after a failed insert
  runs in a transaction that is already aborted.
- Two people of the realm with one number: only one gets an account. Concurrent signups that share a number
  overwrite each other's extras, and a lost answer of the import loses them.

Fetching:

- A page that was read before a change and stored after its sweep stays for its
  time to live; so does one planned with a count that was. Counts and pages are
  swept side by side, so a page may be planned with a count about to be deleted.
  `item_fetch_cache_invalidate.ts:14-16` promises that “the next read sees fresh data”.
- The sweep never matches an own list: its pattern has the network before the
  domain, and the key, sorted by name, the other way round. Pages of markers
  are in a family that is not swept. The participant route sweeps nothing.
  `SweptAfterCommit` is about pages of items and says so.
- A page of several instances that ends beyond `peerLimitMax` (1000 items, 25000 markers) misses rows, or is empty,
  although no instance failed: it is not marked partial and is cached as complete. The comment at
  `inter_instance_fetch.ts:85-97` accepts that its order is “only approximate”. `AnswersAreExact` promises exactness within
  the cap, and beyond it only that no row of an earlier page comes back.
- A count is cached for itself: a count of 0 hides an instance, and a small one
  cuts the only active instance's page, for up to two times to live.

Metrics:

- The advisory lock belongs to the session that takes it, and lock and unlock are
  separate statements over the pool. An unlock on another connection is a
  warning, and the lock stays until that connection is closed; a check that is given the connection
  that holds it gets it again. So two recomputations of one pair may run at
  once, against `staleness.ts:36` “so a concurrent recompute is awaited, not
  skipped”, and checks may serve old rows while nobody recomputes them, against
  `__tests__/staleness.test.ts:97` “the try/finally in the impl is what
  guarantees release”.
- An older recomputation may overwrite newer rows, with the older time at which it began, and the request reads its rows
  only after the check, in other statements (`dashboard.ts:119-121`). What was found young enough, or was
  computed just now, may so be answered with rows older than the `last_computed_at` in the same answer. `LagBounded`
  excepts only the checks to which that happened: everything else that may overlap leaves the rows as young as was told.
- A hard delete leaves the row in `item_metrics`. It is never computed again, so
  after a time to live the oldest row of the pair stays old, each read of the
  dashboard recomputes the pair, and the deleted profile is still shown, although
  `schema/metrics.ts:28` lets a row “lag a pause/retire by up to TTL_SECONDS”. A check finds that row old and calls nothing fresh.
- The age of the oldest row says nothing of a row that is missing: a profile added after
  a recomputation, or in a batch that was never written, stays out for up to a time to live.

## 6. Not modelled

Dashboards, exports and the fetching of actions are queries and formatting. The
counts and status rules of the metrics are a pure function of the events and
the network's rules. Geocoding and match scores are external services and floating-point numbers. Notifications
and support requests are sent and never waited for. The network configuration is
loaded once; what the modules need of it are their assumptions. The web application (more than
half of the lines of the repository) is a client whose requests are the inputs
of the modules; it keeps no state the server relies on.

## 7. Plan
Modelled, in this order: connections and their promise, profiles, guardians,
sessions, accounts, fetching, metrics; every safety property is proved. Left:

1. An abstract specification of a session as a cell that is written until it
   is destroyed, and of a profile as a register whose gates only open, with
   `Sessions` and `Profiles` shown to implement them.
2. Larger instances of `Fetching` (three instances, pages of two rows) for TLC.
3. The job that assigns accounts to aggregators again, and the migration of the
   former user table, if they come to run beside requests.
