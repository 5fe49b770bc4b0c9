# Formal model of the Rookframe community service

This directory holds a TLA+ development of the community service: the HTTP
server that keeps the public directory of Worlds, introduces players to them
(private setup), and carries private join requests between applicants and the
administrators of the Worlds. It consists of TLA+ modules translated from the
Rust source and its SQL migrations, TLC configurations that check them on small
instances, and theorems about them, for every value of the constants, whose
proofs TLAPS checks. Paths below are relative to the repository.

1. [The system](#1-the-system)
2. [The modules](#2-the-modules)
3. [The runs](#3-the-runs)
4. [Fairness](#4-fairness)
5. [The theorems](#5-the-theorems)
6. [Disagreements between code and documentation](#6-disagreements-between-code-and-documentation)
7. [What is not modelled](#7-what-is-not-modelled)
8. [Plan](#8-plan)

## 1. The system

| Component | Source | State | Operations |
| --- | --- | --- | --- |
| Directory and capacity | `src/directory.rs`, migrations 0001, 0002 | tables `world_addresses` (owner, revision, listing, check-in instant, admission revision, reserved and claimed seats) and `directory_operations` (log of publications) | `publish`, `capacity`, `read`, `browse`, `administration` |
| Join requests | `src/requests.rs`, migrations 0003, 0004 | table `join_requests`; `request_rate_limits` | `submit`, `read`, `review`, `withdraw`, `decide` (prepare, accept, abort, reject, reject-block), `cleanup`, `maintain` |
| Player removal, blocks | `src/moderation.rs`, migration 0004 | tables `installation_blocks`, `player_removals` | `block`, `list_blocks`, `unblock`, `remove` |
| Abuse reports | `src/moderation.rs`, migration 0004 | table `abuse_reports`, column `moderated` | `report`, `reports`, `moderate` |
| Private setup | `src/setup.rs` | the `Book` behind one mutex: leases, attempts, relay grants, windows | `publish`, `resolve`, `revoke`, `pending`, `begin`, `host_ice`, `offer`, `answer`, `read`, `remove`, `revoke_relay`, the expiry sweep |
| TURN provider | `src/turn.rs` | semaphore of requests, readiness, counters | `issue`, `revoke`, `ready`, `metrics` |
| Rate limits | `src/requests.rs` | table `request_rate_limits` | `rate`; `cleanup` deletes past hours |
| Server assembly | `src/lib.rs`, `src/main.rs`, `src/error.rs` | the connection pool | routes, timeout, concurrency limit, load shedding |
| Deployment | `infra/`, `scripts/`, `Dockerfile` | none | backups, releases, DNS |

### Interaction

* **World ownership.** `directory::publish` and `setup::publish` reserve a World
  by the same `INSERT ... ON CONFLICT DO NOTHING` into `world_addresses`; the
  other components read that row's owner.
* **Capacity.** Join requests read the listing and the seats of the Directory
  when one is submitted. Administrators publish the seats together with the
  decisions of the World's journal, in either order.
* **Removal.** `moderation::remove` writes the rows of join requests.
* **Availability.** The Directory reads the live leases of private setup to say
  which listings are online.
* **Relay credentials.** Private setup spawns one task per issuance, whose result
  is published on a watch channel; revocation waits for the same channel.
* **Provider.** Issuance tasks and revoking calls share four permits for requests
  to the provider; who finds none fails at once.
* **Manager and the World** are outside this repository. Manager journals an
  intent, prepares the decision here, has the World save the seat, and hands
  the receipt to `accept` until it hears an answer.
* **Rate limits.** Most handlers of applicants and administrators run `rate`, a
  transaction of its own, before or after `cleanup` and before their own. All
  share one pool of connections.

### What makes it hard

* **Statements that are not one transaction.** Every handler of join requests
  begins with `cleanup`, six statements that commit one by one, and only then
  opens the transaction that locks the World. Anything may happen between two of
  them, in any of the calls, and the server may drop the call there.
* **Two clocks.** Statements use PostgreSQL's `now()`, the instant the
  transaction began, which a wait for a lock leaves behind the clock; `decide`
  compares the same deadline with the server's own clock.
* **Decisions that span two systems.** A seat is prepared here, made durable in
  the World's journal, and accepted here later, possibly after the request has
  expired, been superseded by another, or its seat been removed.
* **Sections of a mutex around waits.** A setup handler releases the book while
  it waits for the database, for an issuance or for the provider; leases,
  attempts and grants may expire, be revoked or be reopened meanwhile. The
  issuance is a task that outlives the call.
* **Retries, delays and reordering.** The clients retry with the same
  identifiers; publications and capacity updates arrive late and out of order.
* **Restarts.** The book and the permits are volatile, the tables and the issued
  credentials are not.
* **Lost replies.** The provider may have issued or revoked although its request
  failed; the service may have decided although Manager never hears it.
* **Several locks in one call.** A connection of the pool, the row of a counter,
  the World's row: a handler takes them in phases.
* **Limits** that are counted in one step and used in another: pending requests,
  blocks, leases, attempts, grants, issuances per window.

The correctness of each component, in a sentence: a join request is decided once
and seats its installation at most once, deadlines hold for whoever looks after
its own cleanup, and limits hold under every interleaving; what the directory
lists is what was published last and has room, and shows only by someone's
leave; the book and the database agree on who administers a World, no
credential is issued twice, no revoked one is handed out, and a revocation that
is confirmed has reached the provider; no seat the World has saved is contradicted
here; no budget of calls is exceeded, or spent by calls that were refused.
`PROJECT.json` lists the hazards line by line with the properties that cover them.

## 2. The modules

| Module | What it is |
| --- | --- |
| `JoinRequests` | the tables of join requests, blocks and removals and every handler and statement that writes them |
| `Lifecycle` | the abstract promise about a join request, which `JoinRequests` implements |
| `Directory` | the directory's tables, the reports, and every handler that writes them |
| `SetupBook` | private setup: the book, its handlers in their sections, the issuance tasks |
| `Credential` | the abstract promise about a relay credential, which `SetupBook` implements |
| `SetupRevocation` | `SetupBook` with a history of the clients' revocations |
| `TurnProvider` | `SetupBook` with the permits, the requests to the provider and what the provider knows |
| `Recruitment` | `JoinRequests` with Manager's journal and the World's seats |
| `Availability` | private setup and the directory in one server, and what its readers find online |
| `Admission` | the rate counters, the pool and the phases of the handlers |
| `Budget` | the abstract promise about the hourly limits, which `Admission` implements |
| `MC...` | the symmetry sets of the instances TLC checks; the `.cfg` files give the constants values |
| `..._proofs` | the theorems and their proofs |

### JoinRequests (`src/requests.rs`, `src/moderation.rs`)

`requests` is the table `join_requests` (a row "absent" from it included),
`blocks` and `removals` are the two tables of migration 0004, `now` is the clock.
`calls` holds how far each HTTP call, and the maintenance loop, has come:

```
idle --Arrive--> expire --Expire--> scrub --Scrub--> purge --Purge--> forget --Forget--> tx --a transaction--> idle
```

`Expire`, `Scrub`, `Purge` and `Forget` are the statements of `cleanup` that write
these tables, each with a `now()` of its own. The last stage is one transaction, atomic because it locks the World's
row: `Submit`, `Withdraw`, and the branches of `decide`, which are `Prepare`,
`Abort`, `AbortExpired`, `Accept`, `AcceptLate` and `Reject` (`reject` and
`reject-block`). `unblock` and `remove` run no cleanup and are one action each.

* `at` is the instant a call came. A statement's and a transaction's `now()` is
  chosen anywhere between `at` and the clock. `Decidable` alone reads the clock,
  as `decide` does. The server cuts a call after 15 seconds and the periods are
  30 days, so a call sees the clock of the model move at most once (`Tick`). A
  removal's receipt is dated by the start of its transaction, as the column's
  default is, so perhaps one unit before the clock.
* Every way a call can end without an effect (a refusal, an error, the timeout,
  a client that is gone) rolls its transaction back and leaves the statements
  already committed: one action, `Abandon`, possible at every stage. A retry is
  another call; retries that the code recognises write nothing.
* The listing, the visibility and the seats that `submit` asks the directory for
  can only refuse a submission, so here they are an `Abandon`.
* A row is reduced to what the handlers compare; the response, the message's
  text and the submission digest are inert (the message is a Boolean: stored or not).

### Lifecycle

One variable, the life of each request: a phase (absent, open, fenced, seated,
removed, lapsed, withdrawn, rejected), its owner (an installation at a World),
the decision that fences it, and the credential. It has no clock, cleanup,
block or call. Its actions state what clients rely on: the fence keeps out
withdrawals and other decisions, only a lapsed life that kept its fence
reopens, and only into its seat, no owner is seated twice. `JoinRequests`
refines it by `LifeOf`, computed from the row.

### Directory (`src/directory.rs`, `src/setup.rs`, `src/moderation.rs`)

Every handler here is one transaction that holds the World's row from its first
statement, so it is one action: `Publish`, `UpdateCapacity`, `CheckIn` (the
transaction of a private start or renewal), `SendReport`, `Moderate`,
`PurgeReports`. `Claimed` is the reservation, `INSERT ... ON CONFLICT DO NOTHING`
and the `SELECT ... FOR UPDATE` after it. A refusal rolls the reservation back
too and is no step. Calls may come at any time with any revision, which
is what lost, repeated and reordered messages amount to. A listing is its player
limit, the one field the service computes with; omitted capacity is the zero
capacity, as in the code. `Visible` is what `read` and `browse` show.

### SetupBook (`src/setup.rs`)

`leases`, `attempts`, `grants` and `window` are the book; `owners` the durable
reservations; `minted` the issuances, first a task and then a credential at the
provider; `calls` the calls between two sections. Each section is one action
that starts with the expiry (`LiveLeases`, `LiveAttempts`, `LiveGrants`), as
every `lock()` of the code does:

| Handler | Actions |
| --- | --- |
| `publish` | `Publish`, then `Reserve` (the transaction), then `Renew` |
| `begin`, `host_ice` | `Begin` or `HostIce`, then `Mint` or `Join`, then `Disclose` |
| the issuance task | `Issued` |
| `revoke_relay` | `RevokeRelay`, then `RevokeNext` for each credential, then `RelayRevoked` |
| `revoke`, `offer`, `answer`, `read`, `remove` | `Revoke`, `Offer`, `Answer`, `Read`, `Remove` |
| `resolve`, `pending`, and calls that find nothing to do | `Sweep` |

`RefuseBegin` and `RefuseGrant` are refusals that leave something behind, a
window restarted; all others are `Drop`, or no step at all. `Restart` empties
the book, drops the calls and the tasks, and keeps `owners` and the credentials.

* `Reservation` is the directory's: `directory::publish` reserves an address by the same
  statement as `Reserve`.
* `key` and `until` of an issuance are not in the code: they record which side
  of which attempt a credential was minted for and how long its grant was to be
  retained. A restart clears `key`, since no process then knows it. `ends` is when
  the credential itself ends. Its life has the length of the grant's but is counted
  later, by the issuance task (`turn.rs:178`) or, for Cloudflare, by the provider
  (`turn.rs:202`), so `Issued` picks it anywhere from `until` to a whole life after
  the answer.
* `repeats` counts duplicates in the first candidate list of a description,
  which the code stores as it comes and counts towards the limit.

### Credential

One variable, the life of each credential: a phase (unissued, open, denied,
barred, over) and the side of the attempt it is for. There is no book, lease, call,
clock or administrator in it. A client denies its own side; a bar strikes all that
the attempt has at once, and while any of these lasts nothing is issued to the
attempt; nothing denied is opened again. `SetupBook` refines it by `Lives`: a
credential lasts while its grant is retained, is denied when the grant is `revoked`
and barred when it says `revoke_all`. Expiry, whoever's section or tick notices it,
and a restart are `End`.

### TurnProvider (`src/turn.rs`)

Extends `SetupBook`, each of whose steps it takes with the provider's part added;
`BookUnderProvider` proves that nothing else happens to the book. `free` is the
semaphore, `issuing` and `revoking` are who holds a permit, `provider` is what
Cloudflare knows of each credential.

| Code | Actions |
| --- | --- |
| `issue`: `try_acquire`, the request, its result | `Acquire` or `Saturated`, then `Honour`, then `Settle` |
| `revoke_relay`: a side with nothing to revoke at the provider | `PassOver` |
| `revoke`: `try_acquire`, the request, 204 | `AskRevoke`, then `HonourRevocation`, then `Revoked` |
| the reply of `revoke_relay` | `Answered` |
| a call that fails, or is cut off | `End` |

* `Honour` and `HonourRevocation` are the provider's, external: either may happen
  while the request is in flight and its reply be lost, so an issuance can
  fail although the credential exists. The provider is taken to give each
  issuance a user name of its own.
* `Revocable` distinguishes Cloudflare from coturn, which has no revocation and
  computes its credentials here.
* Every failure of the provider is one failure. `unavailable`, the readiness flag,
  is carried along for completeness and no property is about it: it is a report
  of the last issuance and nothing waits for it.
* `covered` is a history: the credentials the section of a revocation found.

### Recruitment (`src/requests.rs`, `docs/api.md`, "Private Join Requests")

Extends `JoinRequests`. Manager and the World are external, from that page:
`journal` is Manager's durable intent for a request (`intended`, `prepared`,
`aborting`), `seats` the seats the World has saved. `Intend`, `CallPrepare`,
`CommitSeat`, `CallAccept` is the way of an acceptance; `GiveUp` and `CallAbort`
end one that failed before the seat; `Answered` is the answer that lets Manager
forget. `Replied` lets every reply be lost, after which Manager calls again; both
its stores are durable, so a crash of Manager is a pause.

`Elsewhere` are all other calls: applicants, who use a fresh identifier for each
request, maintenance, removals, and others who hold the administrator's
capability. These decide under identifiers of their own and hold no receipt,
since they have no seat to have it from.

### Availability (`src/setup.rs`, `src/directory.rs`)

Extends `SetupBook` and takes `Directory` as the instance `Dir` over the same
clock: the two as one server. The transaction of setup's `publish` is translated
here from its own SQL, in the two steps between which others run: `Claim` is the
INSERT, the SELECT FOR UPDATE and the comparison of the administrators, `CheckIn`
the UPDATE, with the clock of then, and the COMMIT. `opened` says whether a call's
transaction is open and whether its INSERT made the row, which nobody else sees
before the commit; `Locked` is the lock on the row, for which the directory's handlers
and other starts wait; `RollBack` is what a call that is cut, or the end of the process,
does to an open transaction. `Listing` are the directory's own handlers, one of
which may be the first to reserve an address; `Aside` is what setup does to its book
alone; `SameOwners` says that the owner setup finds is the one in the row. `readers` are the calls of `read` and
`browse`, between `Online`, which takes the running Worlds from the book
(`Availability::online`), and `Query`, which reads the tables, and anything may run
between the two. Leases are timed by the process's `Instant` and rows by its
wall clock; the model has one clock for both.

### Admission (`src/requests.rs`, `src/main.rs`, `src/lib.rs`)

`hits` are the counters, `calls` the calls in flight with the phases they have
yet to run, `admitted` a history of what `rate` let pass. `Route` lists the phases
of the handlers that use `rate` or write. A phase waits for a connection
(`Connect`) and gives it back when it ends (`NextPhase`). `CountInstall` takes and
holds the row of the installation's counter, `CountNetwork` increments the
network's and commits; `LockWorld` and `Finish` frame the handler's transaction.
`Sweep` and `Maintain` delete counters of past hours. `End` is any end without
effect. What the transactions do is the business of the other modules.

### Budget

What the two statements of `rate` amount to: a call is charged to its installation
and its network at one instant, within both limits, or not at all. There are no
connections, locks, phases or calls in flight. `Admission` refines it with `hits`
as what is spent: the first increment is invisible until the commit that makes the
second, so the limit the first statement tested must still hold then. The
charge goes to the hour of the instant or the one before, and only hours that are
past for every call in flight are erased.

### Assumptions on the constants

`None` differs from every value it stands beside (SQL NULL, Rust's `None`);
periods that outlast a call are more than one unit of the clock; limits are
natural numbers. `FiniteAssumption` makes the sets of identifiers of
`JoinRequests` finite: they are UUIDs and SHA-256 digests. Only the two theorems
about cardinalities there use it.

## 3. The runs

| Run | Instance | What it shows |
| --- | --- | --- |
| `removal` | 2 installations, 2 requests, 1 removal, at most 1 pending and 1 block, 3 units of time | `QueueBounded`: two installations compete for one place. `RowsConsistent`: the columns of a row agree whichever handlers wrote them. `BlocksBounded` and `BlocksAccounted`: the loop over the digests keeps the limit, and a retry restores no lifted block. `ImplementsLifecycle` |
| `live` | 1 request, 1 client, the maintenance loop | `EveryRequestSettles`, `TextErased`, `TerminalForgotten`, although a sweep may fail between any two statements |
| `removal_sticks`, `abort_retry` | 1 request, 1 client | two statements of the documentation, refuted (section 6) |
| `directory` | 2 administrators, 3 operations, up to the largest revision, here 2 | `ListingFits`, `OperationsNumbered`, `ListingCurrent`, `PromisesKept`, `VisibilityEarned`, `HiddenSettled` under publications, updates, check-ins and moderation in every order |
| `setup_relay` | 1 attempt, 2 holders, 2 credentials, 2 concurrent calls, 1 issuance per window | `OwnersAgree`, `RevokedNotDisclosed`, `RevocationSticks` through expiries, reopened attempts and restarts. `ImplementsCredential`: among others, one lasting credential to a side |
| `setup_signalling` | 2 Worlds, 2 locators, 2 attempts that want one peer, 2 descriptions, at most 1 lease | `PeersDistinct`, `NothingRewritten`, and `BookBounded` with two Worlds that compete for the one place among the leases |
| `provider` | 1 client, 2 credentials, 1 permit, 1 issuance per window | `PermitsReturned` however issuances and revocations end. `ConfirmedIsRevoked`: what a confirmed revocation found is unusable at the provider, issuances still running included. `IssuanceBounded`: windows that any call may restart. `StaysRevocable`: from its request until the last moments of its own life, the owner's revocation finds a credential this process issued, whatever became of the attempt, the lease and earlier revocations. `VolatileErased` |
| `seats` | 2 requests of one installation, 2 decisions, 2 concurrent calls, at most 2 pending, 4 units of time | `SeatsReconcile`: neither time nor another call takes from a seat that may be saved the chance to be acknowledged. `SeatsAgree`: none stands against a withdrawn or rejected request. `OneActive`: no interleaving makes a second active request. `DeadlineEnforced`: after its own cleanup a call never meets what was overdue when it came, whatever the other call does. `RetentionHonoured`: terminal instants are final but for a late receipt |
| `rates` | 2 concurrent submissions, 1 installation, 2 networks, 2 connections, 3 hours | `AdmittedBounded` across the turn of the hour and the deletion of counters. `EveryCallEnds`: no two calls wait for one another. `ImplementsBudget`: a refusal is charged nowhere |
| `online` | 1 World, 2 holders, 2 concurrent starts, 1 operation, 1 reader, 3 units of time | `OnlineFresh`: what a reader finds running has checked in within a lease and the length of a call, whatever runs between its two reads. `ImplementsDirectory`: setup's transaction, open while the directory's handlers, the other start, time, cut calls and restarts run, amounts to one check-in at its commit or to nothing |
| `client_denies` | 1 attempt, 1 credential, 1 call | a statement of the documentation, refuted (section 6) |

**Bounds.** `MaxTime` stops the clock; it is the only bound that is not a
parameter of the service, and `Tick` names it. Periods and limits keep their
order and are otherwise as small as the cases need: a period of two units leaves
a step before, at and after its end. Two calls, two requests of one installation
and two decisions are what the interleavings of `requests.rs` relate: its
statements compare a row with at most one other row, and a call with at most one
transaction in between. A limit of one is reached, exceeded by two contenders,
and freed again. In `directory` the largest revision is reached within the run, so
the boundary of the `bigint` is checked. In `setup_relay` two credentials and two
calls suffice to issue twice if the code let it, and the grant outlasts the
attempt, so the attempt is reopened while it is retained; with one issuance per
window, the other side is refused until the next window.
`setup_signalling` has no credentials, one client, and no more attempts than its
limit, so the parts of `BookBounded` about attempts and grants, and two publications
of which one waits while the other enters its lease, are covered by the theorem alone. `provider` has one client, because a liveness
property rules symmetry out; the issuance a dropped call leaves behind still
competes with the revocation of the next call for the one permit, and the theorems
cover any number of clients and permits. Its clock runs for two units, which is the
life of a grant, so grants end before the credentials of late answers do; it has one holder, who is
both sides, since who may revoke what is `setup_relay`'s matter. In `seats` the deadline, the
retention and a late receipt all fall within four units. `rates` runs the one
route with four phases and both counters, on a pool that two calls fill; the
theorems cover every route. `online` has no attempts, grants or reports, which neither
property reads: those steps are in `setup_relay` and `directory`, and the
theorems cover them here. A lease of one unit and a check-in that lasts three let leases,
and then the entries, lapse within the run. Symmetry is used only in runs without liveness; the
sets it permutes are compared only for equality.

Each property has a mutant in the module of the model, marked `Mutant:` above the
definition it alters, and TLC refutes the property when the mutant takes its place.

## 4. Fairness

Nothing is assumed of clients: no call need come, and none need succeed.

* `JoinRequests`: time passes; every call ends, since the server cuts it off
  after 15 seconds (`src/lib.rs`); the maintenance loop starts its sweeps (weak
  fairness: a timer of its own), and each of its statements succeeds
  if it is tried again and again (strong fairness: a sweep that fails is started
  anew with the next minute, so each statement is enabled only from time to time).
* `SetupBook`: time passes, the sweep runs every five seconds, calls are cut
  off, and an issuance that has no answer fails after its timeout of 5 seconds.
  `TurnProvider` assumes the same and nothing of the provider.
* `Admission`: the pool and PostgreSQL serve those who wait in turn (strong
  fairness of each call's progress). Neither timeouts nor disconnections are
  counted on, so that `EveryCallEnds` finds a deadlock if there is one.

The liveness properties speak of deadlines that the clock of the run reaches.
They run without symmetry.

## 5. The theorems

All are of the form `Spec => ...`, for every value of the constants.

**JoinRequests_proofs.** `TypeCorrect`, `RowsAgree`, `AtMostOneActive`,
`DeadlinesHold`, `RetentionIsHonoured`, `BlocksAreAccounted`, `BlocksAreBounded`,
`QueueIsBounded`, `Refinement`: every safety property of `JoinRequests`
in the runs `removal` and `seats`.
The inductive invariant is `Inv == TypeOK /\ Timely /\ RowsConsistent`.
`Timely`, that a call came at most one unit of the clock ago, is what keeps the
instant of a statement above the deadlines an earlier statement has
enforced. `RowsStep` says once what a step can make of a row; `RowsConsistentNext`
and the retention follow from it. `DeadlineEnforced` needs `Inv`: a row that
another call writes after this call's `Expire` has a deadline later than
`at` (a new request, whose deadline lies a whole period after its own instant)
or was pending before. `OneActive` rests on `Newcomers`, that only two steps make a
row active that was not: a submission, which finds no active row of the
installation, and a late receipt, which finds none seated and supersedes the
pending ones. `QueueBounded` and `BlocksBounded` are arguments about
cardinalities: a step adds at most one row to one queue, after counting it.
`Refinement` maps each step to a step of `Lifecycle` or a stutter (`LifeNext`,
one lemma per action), with `Inv` and `OneActive` as invariants; without
`OneActive` an acceptance in time could seat an owner that is seated already, or
leave another request of it open.

**Directory_proofs.** `TypeCorrect`, `ListingAlwaysFits`, `LogOrdersListings`,
`PromisesAlwaysKept`, `HiddenAlwaysSettled`, `VisibilityAlwaysEarned`: every
property of the run `directory`. `WorldStep` says that for one World a step leaves,
publishes, updates, checks in or moderates, and every proof goes by these five
cases. `OperationsNumbered` and `ListingCurrent` are inductive together: a
publication's result is a new revision because all results in the log
are at most the last one. That revisions stay within the `bigint` is in `TypeOK`,
from the guard that the largest is never expected.

**SetupBook_proofs.** `TypeCorrect`, `OwnersAlwaysAgree`, `PeersAlwaysDistinct`,
`MintedAtMostOnce`, `RevokedNeverDisclosed`, `RevocationAlwaysSticks`,
`AlwaysStaysRevocable`, `BookAlwaysBounded`, `IssuanceAlwaysBounded`,
`NothingEverRewritten`: every safety property of the book's runs. `StepKinds` classifies the
steps, most of which are `Routine`: they expire what is due and move calls and
issuances on. These strengthenings carry the rest.

* `Owned` adds to `OwnersAgree` that a publication past its transaction finds the
  owner that the transaction compared: the section that enters the lease is not
  the step that checked it.
* `Granted` ties issuances to grants: a credential that still lasts has its
  grant (`Backed`), a grant has its credential (`Issuing`), and a waiting call
  waits for the credential of its own side (`Expecting`). `MintedOnce` follows from
  `Backed`, since both credentials would be that of the one grant, and
  `RevokedNotDisclosed` from `Expecting` and `Issuing`.
* `Timely` relates a credential's own life to its grant's: an issuance still running
  was minted at most one unit ago, since a task has no more than its timeout, and an
  issued credential ends at most one unit after `until`. `StaysRevocable`
  follows: a credential that has more than that unit to go has a grant that is
  retained (`Granted`), which names the administrator who still owns the World
  (`OwnersAgree`).
* `RevokedTogether`: when the administrator has denied one side, the
  other side's grant is revoked too. It needs `Owned`, since both grants name the same
  administrator, and the guard that looks at both sides before an issuance. With it
  `RevocationSticks` covers a call that waits on the side nobody asked about.

* `Bounded` states the limits of leases, attempts and grants with the finiteness of
  the sets they count; each follows from the count that precedes the entry, in the same section. `Issuances`
  adds to `IssuanceBounded` that the counter covers every issuance since the start
  of the window: what was issued before a window restarts is older than the new one.

`NothingRewritten` needs no invariant beyond types: by `StepKinds` an entry of the
book stays, expires, is removed, or is changed by one of four signalling steps.

**Credential_proofs.** `CredentialRefinement`: the book implements `Credential`. A
step of the book maps to an issuance, a denial, a bar, an end or a stutter, one
lemma each (`MintLives`, `DenialLives`, `RestartLives`, `QuietLives`); `LivesAt`
says that a credential lasts exactly as long as a live grant names it. The
invariants are those of `SetupBook_proofs` with `HostsOwn`: the grant of the host's
side was asked for by the owner of the World. It makes a revocation by a client a
denial of one side, since `Mine` compares digests and looks at no side; it holds
because `host_ice` compared the caller with the lease in an earlier section, and
owners never change, although that lease may be gone by then (`Askers`).

**Availability_proofs.** `BookUnderDirectory` and `DirectoryUnderSetup`: a step of
the server is a step of `SetupBook` or leaves it alone, and likewise for
`Directory`, so the theorems about either hold of the whole. Both rest on `Shared`,
that the owner setup finds is the row's, and on `Held`, the argument about the lock: while a
transaction is open its row is as `Claim` found it, absent if the INSERT made
it and otherwise its caller's, and no other call has that row open. So the
commit is a `Reserve` of the book and a check-in of `Directory`
(`CheckInRefines`), although both were decided two steps of others earlier;
`HeldNext` needs the guard on the directory's handlers and the roll-back. `Follows` says
what a step may make of a row (`CheckInRows`, `PublishRows`, `UpdateRows`, `ModerateRows`); `ListingOwners`
makes a first publication the `Reservation` that the book sees. `OnlineAlwaysFresh`
is not inductive, for a lease says nothing of rows. Its invariant `Fresh` follows a
check-in into the book and out to a reader: a call past its transaction has left a
check-in since it came (`Renewing`), so a lease ends at most one lease and one call
after the row's check-in (`Lasting`), so what a reader has seen was checked in no
earlier than a lease before it looked (`Reading`). `Prompt`, that no call outlives
two ticks, bounds the first step, and `Past` makes a check-in only ever
later, whoever writes the row (`CheckedKept`). `AsideLeases` and `AsideCalls` say
that nothing but a renewal moves the end of a lease, and nothing but the
transaction brings a call to its renewal.

**TurnProvider_proofs.** `BookUnderProvider` proves `TurnSpec => Spec`: every step
of `TurnNext` is a step of the book or leaves it alone, so the theorems above
hold here too. `TurnTypeCorrect`, `PermitsAlwaysReturned` and
`ConfirmedAlwaysRevoked` are the safety properties of `TurnProvider`.
`CredentialsUnderProvider` carries the refinement over.
The invariant is `TurnInv == TurnTypes /\ Permits /\ OnTarget /\ Accounted`.
`OnTarget` says that the credential a call is revoking is the one its next side
names; `Accounted`, that each credential a revocation found is still to be done, or
failed, or revoked at the provider. A failed issuance may have left a credential at the
provider; the property excepts it, for the service never learnt its name.

**Recruitment_proofs.** `ServiceUnderManager` proves `RecruitSpec => Spec`, which
carries the invariants of `JoinRequests` over, and `LifecycleUnderManager` its
refinement. `RecruitTypeCorrect`,
`SeatsAlwaysAgree` and `SeatsAlwaysReconcile` are about the properties of `Recruitment`.
`RecruitInv` adds three facts to `Inv`: a seat whose intent is still journalled was
committed under its fence with the intent's receipt (`SeatsFenced`); behind a
fence the row waits for its decision, or is expired, accepted or gone
(`FenceHolds`); the receipt in an accepted row is that of the saved seat
(`ReceiptsCommitted`). `Fate` says what a step can make of a row, given the
journal's entry for it, and `Journey` what it can make of that entry; one lemma for
each group of steps (`CleanupFate`, `DecisionFate`, `ReceiptFate`) proves it.

**Admission_proofs.** `TypeCorrect`, `AlwaysAdmittedBounded`,
`RefusalsNeverCost`: the safety properties of `Admission`. The invariant `IInv` adds that
one call at a time holds a counter (`HoldersDistinct`), that the counter it holds is
below its limit (`RoomHeld`), which is why the commit cannot exceed it, and
that a call counts in this hour or the one before (`Timely`), so that no counter in
use is deleted. `BudgetRefinement` rests on the same facts: the commit is the charge
(`ChargeStep`), `RoomHeld` is what is left of the first statement's test, and
`Timely` makes every deletion an `Erase` (`ErasureStep`).

**Only model-checked.** Liveness, which is beyond the prover:
`EveryRequestSettles`, `TextErased`, `TerminalForgotten`, `VolatileErased`,
`EveryCallEnds`. All other properties of the passing runs are theorems.

**Only proved.** `MintedOnce` and `RefusalsCostNothing`, which the refinements
`ImplementsCredential` and `ImplementsBudget` make redundant in a run, and the type
invariants of `TurnProvider` and `Recruitment`.

## 6. Disagreements between code and documentation

* `removal_sticks`. A removal that reaches the service before the accepted
  receipt of the same seat records its operation but leaves no mark on the request,
  which is still prepared; the later `accept` stores the credential, and the exact
  retry of the removal changes nothing. `docs/api.md:248,267` say that the service
  scrubs the seat's receipt and deletes the credential.
* `abort_retry`. The retry of a completed abort whose request is still pending is
  a conflict; `docs/api.md:210` promises the same outcome.
* `client_denies`. A client's relay revocation that finds no grant is answered
  `issuance_revoked: true` and recorded nowhere, so the next `begin` of that attempt
  is issued a credential; `docs/api.md:127` says that the call denies further
  issuance.

Four observations have no run of their own. A late receipt supersedes the other
requests of its installation, even one that is prepared, and clears that one's
decision: if the World had saved its seat too, the service can no longer
acknowledge it. `SeatsReconcile` states this as its one exception within the
retention. An administrator's revocation that finds no grant is recorded in the
attempt (`setup.rs:615`) and goes with it, while one that finds a grant outlasts
the attempt; `tests/setup_api.rs:159` tests the latter case.
A credential outlives its grant by up to the time its issuance took, at most 5
seconds, since the grant's deadline is counted at the request (`setup.rs:538`) and
the credential's life by the task or the provider afterwards (`turn.rs:178,202`): in
that gap a revocation finds nothing to revoke and is confirmed. `StaysRevocable` says that
there is no other gap. And duplicates in the first candidate list count towards the limit
(`setup.rs:243,675`), although `docs/api.md:137` bounds 32 distinct candidates; the
model has them as `repeats`.

## 7. What is not modelled

* Which ICE servers pass the provider's filter, and the parsing of its answers: an
  issuance succeeds or fails, for any reason. The counters of `/metrics`.
* The per-second limits of private setup: a refusal by them changes nothing
  but their own buckets, and is an abandoned call.
* Validation of text, parsing, the search and paging of `browse`, the health and
  metrics routes: they change no state.
* The clients: the other side of every protocol, free in these modules to send
  anything at any time. Manager and the World appear in `Recruitment` only, as
  `docs/api.md` describes them; their own code is not in this repository.
* Two submissions of one request identifier at two Worlds: the lookup is global and the
  lock per World, and `Submit` is one action, so that the second insert fails on the
  primary key of `join_requests` is taken from the schema. Likewise a rejection or removal
  whose blocks exceed the limit half-way is one action that does not happen.
* How Manager's publications of capacity follow its seats: `Directory` takes any.
* Wiring (`lib.rs`, `main.rs`), migrations as a process, backups, deployment.
* A section of the mutex takes place at one instant of the clock; a poisoned mutex
  is not modelled.

## 8. Plan

Done, in this order: `JoinRequests` with `Lifecycle`; `Directory`; `SetupBook` and
`SetupRevocation`; `Recruitment`; `TurnProvider`; `Admission`; the proofs of each;
and the abstract `Credential` and `Budget` with their refinements; `Availability`,
which composes `SetupBook` with `Directory`, with its proofs.

To come:

1. `Recruitment` with `Directory`: what the published capacity means while decisions
   are under way.
