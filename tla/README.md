# TLA+ specifications of the Redfire switch

This directory holds TLA+ modules for the Class 4 soft switch of this repository (a Rust
program; the sources meant below are those under `src/` of the crate), TLC configurations
that model-check them on small instances, and proofs that the TLA+ proof system checks for
every value of the constants. `PROJECT.json` lists the runs, the source lines every
definition stands for, the hazards the properties are aimed at, the theorems, and the places
where the program does not do what its documentation says.

Run a configuration with `tlc -config X.cfg MCModule`, a proof module with `tlapm M.tla`.

## The system

| Component | Source | State | Operations |
|---|---|---|---|
| `SessionManager` | `class4_b2bua.rs` | `active_sessions`, `call_id_mapping`, `stats`, one tokio `RwLock` each | add, get, look up by Call-ID, exists, update, remove, clean up expired |
| Class 4 B2BUA | `class4_b2bua.rs` | none of its own; works on clones of sessions | one handler per SIP message (INVITE, ACK, BYE, CANCEL, responses), cleanup task |
| `RouteAdvancementEngine` | `route_advancement.rs` | routing state per call | start, response, advance, complete, clean up |
| `TerminationRoutingService` | `termination_routing.rs` | trunks, calls per trunk, CPS trackers | route a call, count it, end it |
| CDR pipeline | `class4_b2bua.rs`, `boss_webhook.rs` | channel, rows of `call_detail_records` | publish, insert, post to the billing system ("boss"), mark |
| LCR routing engine | `lcr/routing.rs`, `lcr/cache.rs`, `lcr/mod.rs` | cached tables, rates per deck, compiled patterns | find routes, reload |
| Rate decks | `lcr/deck_loader.rs`, `lcr/api_deck.rs`, migrations | decks, cutover schedule (Postgres) | load, preload, cancel, activate, look up |
| LRN dips | `lcr/lrn_dip.rs` | cache, one UDP socket, round robin index | dip, change the configuration |
| Admission | `call_control.rs`, `termination_routing.rs` | atomic call and CPS counters, sharded sessions | admit, register, end |
| Cluster | `cluster_management.rs` | node table, call states, primary flag | heartbeat, join, leave, election, state sync |
| ISDN | `q921_lapd.rs`, `q931_messages.rs`, ... | data links, sequence numbers | frames in and out, establish |
| Everything else | | | SIP parsing, media, codecs, fraud detection, reports, API: see `components` |

How they interact. `Class4B2BUA::run` is one tokio task that receives a UDP packet and runs
its handler to the end before it receives the next. The handlers are `async`: at each `await`
of a table's lock the *session cleanup task*, started by `Class4B2BUA::new`, may run, and so
may any task that calls `Class4Integration::cleanup_sessions` or `get_stats`. A handler reads
a session as a clone, changes the clone and stores it back whole. For a call to be terminated
the handler asks `TerminationRoutingService` (behind a `Mutex`) for a route; for an error
response it asks `RouteAdvancementEngine` (behind another), which asks the service again. At
the end of a call the handler sends a CDR into an unbounded channel; the *CDR processor*, a
third task, inserts it into Postgres and posts it to boss.

The LCR engine answers HTTP requests (`lcr/api.rs`), one task per request, from tables that a
reload (by the API or the deck loader) reads from Postgres and replaces one by one, the rates
deck by deck; which deck is in force, and rates that the cache lacks, come straight from Postgres. What a deck version is worth at a time is decided
in SQL. A query may dip the called number first, over a socket all dips share. The admission
counters are atomics, in two services with nearly the same code; nothing in the call flow calls
the gate of either, only the counting in `route_termination`.

What is hard here: two tasks over three tables with three locks taken in different orders;
clones that may be stale when they are written back; UDP messages that are lost, repeated,
late and out of order; a failover loop in two components that each keep part of its state;
counters raised in one place and lowered in another; a pipeline whose steps fail separately
and whose queue dies with the process; atomics that are checked and raised in two steps; a
scan over shards that change under it; tables replaced under the queries that read them; loads
of decks that read outside the transaction they write in; responses without an owner on a
shared socket. What makes each component correct:

- *SessionManager*: every operation is atomic, and every operation returns (the second does not
  hold, see below).
- *Class 4 B2BUA*: a call is billed once; no update is lost; a session can be found under its
  Call-IDs as long as it lives and not longer; every session ends; the statistics agree with
  the table; a trunk never carries more calls than its limit.
- *Route advancement*: no trunk twice, no more attempts than allowed, nothing after the final
  answer.
- *CDR pipeline*: a row for every record, boss never ahead of the database, and a
  `boss_sync_status` that tells the truth.
- *Admission*: a limit is exceeded by no more than the threads between check and count; the
  counters agree with the calls.
- *LCR routing*: nothing in an answer is older than the last reload that succeeded before; without
  interference the answer is the right one.
- *Rate decks*: the versions form a chain without gaps and every time has one rate.
- *LRN dips*: the answer to a dip is that of its number; all servers are tried; dips end.

## Modules

| Module | Models | Extends / instantiates |
|---|---|---|
| `SessionStore` | the tables of `SessionManager` and its operations as atomic actions | |
| `SessionManager` | the abstract specification: tasks that call those operations | `SessionStore` |
| `SessionLocks` | the operations as they are: locks requested one by one, FIFO queues, guards | `SessionStore`; refines `SessionManager` |
| `SessionLocksProofs` | proofs about `SessionLocks` | `SessionLocks`, `TLAPS` |
| `CallLifecycle` | the abstract specification of a call: it rings, is answered, billed, ended, dropped | |
| `Class4B2BUA` | the handlers and the cleanup over the tables | instantiates `SessionStore`; refines `CallLifecycle` and `SessionManager` |
| `Class4Blocking` | the same, with the deadlock of a look-up and the cleanup | `Class4B2BUA` |
| `Class4B2BUAProofs` | proofs about both | `Class4Blocking`, `TLAPS` |
| `Failover` | the abstract specification of a call that is sent to one trunk after another | |
| `RouteAdvancement` | the engine over the routing service | refines `Failover` |
| `RouteAdvancementProofs` | proofs about `RouteAdvancement` | `RouteAdvancement`, `TLAPS` |
| `CdrLedger` | the abstract specification of records that get their rows in their order | |
| `CdrPipeline` | channel, processor, database, webhook, crashes | refines `CdrLedger` |
| `CdrPipelineProofs` | proofs about `CdrPipeline` | `CdrPipeline`, `TLAPS` |
| `CallQuota` | the abstract specification of a limit that is checked before it is counted | |
| `Admission` | the atomics and shards behind that limit | refines `CallQuota` |
| `AdmissionProofs` | proofs about `Admission` | `Admission`, `TLAPS` |
| `RateCard` | the abstract specification of what prices a time | |
| `RateDecks` | deck versions, cutovers, the deck manager, the queries for a rate | refines `RateCard` |
| `RateDecksProofs` | proofs about `RateDecks` | `RateDecks`, `TLAPS` |
| `LcrCache` | the cached tables and rates, reloads, a changing database | |
| `LcrRouting` | queries over the cache and the database | `LcrCache` |
| `LcrRoutingProofs` | proofs about both | `LcrRouting`, `TLAPS` |
| `LrnDip` | dips over one socket, several servers and a cache | |
| `LrnDipProofs` | proofs about `LrnDip` | `LrnDip`, `TLAPS` |
| `MC...` | the instances for TLC | |

A definition called `...Unchecked`, `...Forgotten`, `...Latest` and the like, with a comment
that begins "Wrong variant", is no part of a specification: it is a plausible mistake, kept
to show that the property named in `PROJECT.json` would catch it.

### SessionStore, SessionManager, SessionLocks

A session record is reduced to its two Call-IDs and its state; `sessions`, `mapping` and
`stats` are the three tables. `AddSession`, `UpdateSession`, `RemoveSession` and `Lookup` are
`add_session`, `update_session`, `remove_session` and `get_session_by_any_call_id`.
`MapCallId` is the insertion `attempt_termination` makes into the mapping on its own.

`SessionLocks` unfolds them. `Plan` lists the locks each operation takes, in its order.
A task `Start`s an operation, `Request`s the next lock (joins its queue), is `Grant`ed it, and
when it holds all of them `Finish`es, which changes the tables and drops the guards, as the
Rust guards drop at the end of the function. `get_session_by_any_call_id` reads the mapping
between its two locks (`ReadMapping`) and returns early when there is no entry. The lock is
tokio's: first come first served, so that a reader behind a waiting writer waits. The cleanup
is a task that collects ids under one guard and removes them one by one under others; which
ids have expired is left open.

`ManagerSafety` is the refinement: `SessionLocks` implements `SessionManager` with its own
tables and answers. Together with `Class4B2BUA`, which composes the atomic operations, this
separates the two questions: are the operations atomic, and is what the handlers make of
them right?

### Class4B2BUA

`main` is the control state of the loop: `recv`, or the point at which a handler waits, with
its locals (session id `s`, clone `r`, Call-ID to answer `c`, cause). Between any two points
the cleanup (`StartSweep`, `RemoveExpired`) may take steps and time may pass. An action covers
the handler's code from one point to the next, with everything it changes.
`sent` collects every message the switch has sent; what a peer may send depends on what is in
it (a gateway answers an INVITE it got, a caller acknowledges a 200) and may be sent at any
later time, any number of times or never: loss, repetition, delay and reordering without a
network of messages in flight. Left out: malformed messages, OPTIONS and unknown methods
(which change no state), the text of messages, SDP. Branches that cannot be reached are
named where they would be: 488 for missing codecs, the failed codec negotiation, and the
`Connecting` state that `handle_ack` tests for. An ACK from an address other than the caller's,
and the CSeq and tags of every message, are left out too.

`caller` and `reaped` are history variables for the properties. A CDR is reduced to its Call-ID,
its cause and whether the call was answered.

`CallLifecycle` is what remains of all this for somebody who reads the bills: each session is
"new", "ringing", "answered", "closing" (billed, still in the table), "over" or "dropped".
`Phase` computes that from the tables and the CDRs, and `LifecycleImplemented` says that no step
of a handler or of the cleanup does anything else: a second session of a Call-ID needs a
session of it that the cleanup removed, a call is billed as what it then is and one at a time, only
the cleanup drops a call unbilled, and only a dropped one returns. A second refinement,
`ManagerUsed`, maps every step to one operation of `SessionManager` or none.

`Class4B2BUA` takes each of those operations to return, and `session_locks_cleanup` shows the one case
in which two of them do not. `Class4Blocking` adds it: `Block` is a handler's look-up by Call-ID that
has found an entry and waits for the sessions, while a cleanup pass has locked the sessions and
waits for the mapping. From then on only the clock moves. `SessionLocks` shows that there is no other
way (`StuckOnlyByLookup`); `remove_session` of a handler and the look-up are one task, so only the
cleanup can be the other side.

### RouteAdvancement

`routing` is `RouteAdvancementEngine::active_calls`; `load` the calls that
`TerminationRoutingService` has counted per trunk. `find_routes` of the LCR engine is any
element of `Offers`. A trunk is `Usable` when it is enabled and its cost is not above its
selling price. `SipResponseCode` is modelled with all its codes. Each operation holds a
`Mutex` from start to end, so it is one step. `tried`, `told` and `code` are history: what
the B2BUA was told for each call and the last response it passed on. The engine is modelled
for the callers its interface is made for (each call started once); what the B2BUA makes of
it today is in `Class4B2BUA`.

`Failover` knows of a call only its phase ("new", "routed", "over") and the trunks it was sent to.
It sends a call to a trunk that is new to it and has room, fewer than `MaxAttempts` times, or ends
calls; records, codes, offers and counters are gone. `FailoverImplemented` is the refinement.

### CdrPipeline

`Publish` puts a record into `channel`; `Receive`, `Persist`, the webhook and `Mark` are the
processor's loop; `Post` is the only step that boss has to answer, and it need never come. Whether
there is a webhook (`configured`) may change when the process starts again. A record is `Rated` when `build_payload` accepts it: it has a duration and
the client's rate. A failed insertion, request or update may have taken effect, and the
process may die between any two steps, which empties the channel and keeps the rows.

`CdrLedger` is a queue from which the head is stored or discarded, a crash that forgets the queue,
and a billing system that is given the latest row, once. Its queue is `Queue`: the record in hand,
while it has no row, and the channel. `LedgerImplemented` is the refinement; with it no record
overtakes another, none is stored or posted twice, and none is posted before its row is there.

### CallQuota, Admission

`Admission` is both gates, `CallControlService` and `TerminationRoutingService`, chosen by
`service`: the code up to the counting is the same twice. A thread is at one point of
`can_admit_call_fast`, `register_call` or `end_call` (`pc`), with what it has read so far; each
load, store, exchange and increment of an atomic is an action, and so is the look at one shard
of the `DashMap` of sessions (`ScanShard`). `CallQuota` says what a limit with an early check
promises: a thread is `Grant`ed below the limit, `Count`s later or `Withdraw`s. The one difference
between the services is `end_call`: that of the control service lowers the counter only for the
thread that takes the session out (`End`); that of the trunk's service is given a trunk and lowers
its counter, whatever call it was told of (`StrayEnd`, for an end reported twice or of a call that
was never registered). The counter then wraps around at `Width`, 2^32 in the code; `strays` is
history and counts these. The steps on
different atomics are taken to be seen by all threads in one order (the code uses `Relaxed`
in places); a weaker memory model is outside TLC's reach.

### RateDecks

`decks` are the rows of one family in the order of their versions, with their dates; `schedule`
is `deck_cutover_schedule`. A load reads the latest version (`ReadVersion`) and the deck in
force (`ReadParent`) before its transaction; `Insert`, the trigger and the choice between
activation and cutover (`Decide`, `Commit`) are in it, so other tasks see them at once, unless
it `Abort`s; the unique constraint is `VersionTaken`. The deck manager selects and then changes
rows one by one, operators preload and cancel in between. `Current`, `Requested` and
`Associated` are the three ways in which `routing.rs` finds the deck of a time.

`RateCard` keeps nothing but the version that prices each time. A load makes the new version
price its start and all times after it, whatever was to price them; it leaves the times
before alone, save the second before its start, which the version it replaces no longer covers.
`CardImplemented` says that this is all that loads, cutovers, the manager and the operators,
in any interleaving, do to prices: activation, preloading and cancelling do nothing to them.

### LcrCache, LcrRouting

`log` is every configuration the database has had: which trunks and decks are active, which deck is in
force for each trunk, the rates of each deck, the static routes. `rates` and `tables` say in which of
them the cache's rates of a deck, its trunks and its static routes were read. A reload goes through
`load_from_database` from one `SELECT` to the next: the vendors' active decks (`StartReload`) and the
rates of each (`ReadRates`, `InsertRates`), the same for the clients, the trunks, the static routes,
and the tables routing does not read (`rest`). Rates are inserted and never removed, so what was read
for a deck stays after the deck was deactivated. Any `SELECT` may fail (`FailReload`), which leaves
what was stored, and reloads overlap. `floor` is history, see `FreshSinceReload`.

A query goes through `find_routes` from one read of shared state to the next: the static routes
BEFORE; the client's deck from the database, its rate from the cache, or from the database if the
cache has none; the trunks; for each its vendor's deck and rate in the same way; the static routes
AFTER; the trunk of a static route. `patterns` is the map of compiled patterns: a query that finds
none (`LookUp`) compiles the pattern of its own snapshot and then overwrites what is there by then
(`Compile`). A trunk is offered if the client's price, read before, leaves `MinMargin` over its cost
(`Earns`); the jurisdiction, which chooses one of the three prices of a rate, is abstracted, and so
are the flat toll-free rate and the `NanpaStatic` table.

### LrnDip

Each action is a dip's code from one `await`, or from one access to the shared cache, to the
next. `inbox` is a set of responses to `asked` requests: a server may answer at any time, once
or repeatedly, and a response may stay unread for ever. `GiveUp` is the timeout or a failing
send; `Abandon` is the caller's connection closing, at which axum drops the handler. A dip for
which the servers answer 200 without an LRN returns none and caches nothing, as the code does.
`update_config` closes the socket and refuses the change (`RefuseConfig`); the service is
never initialised again.

## Runs

| Run | Question | Bounds |
|---|---|---|
| `session_locks` | are the operations atomic (`SessionManager`), and how do tasks get stuck? | 2 sessions, 2 Call-IDs, a handler task with all operations, a cleanup task, a statistics task, 3 additions or removals |
| `session_locks_cleanup` | do all operations return? No: violation | 1 session, a handler and a cleanup task, 2 additions or removals |
| `class4_calls` | the safety of the call flow, and `CallLifecycle` | 3 sessions with 1 Call-ID, 1 trunk with limit 2, 1 cleanup task, a clock to 2 with timeout 0 |
| `class4_liveness` | does every session end, unless a look-up and the cleanup block each other? | 1 session, a clock to 3 with timeout 1 |
| `route_advancement` | the engine's records, the trunks' limits, and `Failover` | 3 calls, 5 trunks (1 unusable, limits 1 and 2), 3 offers, `max_route_attempts` = 4, 6 codes |
| `cdr_pipeline` | the safety and progress of the pipeline before a boss that may be silent, and `CdrLedger` | 3 records, 2 of them with one Call-ID, 2 crashes |
| `admission` | how far are limits exceeded, do counters agree with the calls, and `CallQuota` | 2 threads, 4 calls, 3 of them on a trunk with limit 1, 2 shards, limit 2, rate 1, 2 stray ends, a counter of 0 to 7, a clock to 3 |
| `rate_decks` | the chain of versions, what a time is rated with, and `RateCard` | 2 loaders, dates 0, 2 and 3 in any order, 3 versions, a clock to 3, 2 cutovers touched by operators |
| `lcr_routing` | how old are the cache and an answer, and is it right? | 2 trunks, 1 number, 1 static route, 1 deck of a vendor and 1 of a client, 2 prices, 2 loaders, 2 queries, 3 events: changes of the database, reloads, and queries beside another |
| `lcr_reload` | does a reloaded static route apply? No: violation | 1 loader, 1 query, 3 events |
| `lrn_dip` | what do dips return, which servers do they try, do they end? | 3 dips, 2 of them for one number, 2 servers, both strategies, a cache lifetime of 1, a clock to 1 |
| `lrn_dip_foreign` | is an answer that of its number? No: violation | 2 dips for 2 numbers |

Why the bounds are enough for the interesting cases. *Locks*: the cycle needs two tasks; a
lost atomicity needs a reader and a writer, or two writers, on two tables; three additions or
removals allow a session to be added, removed and added again while the other tasks are anywhere.
*Call flow*: with
a timeout of 0 and a clock to 2 a session can be created, expire, be removed and be written back
while others of the same Call-ID are created and found. Three sessions are needed: with two,
every second session of a Call-ID is one of the two the cleanup has touched; the third shows
that a session that came back takes the mapping of its successor along when it ends, so that a
repeated INVITE opens one more. A session is admitted only while its expiry is within the
clock's bound. A second caller would
add only sessions that share nothing but the trunk's counter. *Failover*: three calls fill
trunks of one and two circuits in every order; the offers change from question to question
and repeat a failed trunk; the codes contain a success, a named code that advances, a named
code that does not, and codes without a name. *Pipeline*: three records are needed for one in
the row, one in hand and one in the channel. *Admission*: an excess needs two threads; three
calls on the trunk let one end behind the scan and one start before it while a third is counted;
the clock must go on while a thread is between its exchange and its store; two stray ends take a counter
of one call around the end of its range, which is above all it can count. The bounds stated by
`QuotaKept` and `TrunkKept` are reached, and lowering `RateKept`'s by one is refuted by TLC. *Decks*:
two loads that overlap, with a third version before or after them, dates that ascend, descend
and repeat, and two cutovers that the manager selects at once while operators touch both. *Routing*: two reloads that overlap, with a change
of the database between, or a reload and two changes, one of which takes a deck out and the other
brings it back; a reload and a change beside a query; two queries that compile one pattern, of
which one has an older snapshot. *Dips*: two dips of one number and one of
another are the least for a foreign answer that is, by chance, right and one that is not, and
for an expired entry replaced under a third dip.

`CHECK_DEADLOCK FALSE` is set where the bounds, or the code, let the system stop: the lock
order can block all tasks (that is `StuckOnlyByLookup`), clocks and sessions run out, all
calls can be over.

Sessions and calls, and in `SessionLocks` and `Class4B2BUA` the Call-IDs that play no
distinguished role, are interchangeable and used as symmetry sets in the runs that check
safety; never in those that check liveness.

## Fairness

- `SessionLocks`: weak fairness of every task inside an operation and of every lock. The tokio
  runtime polls a ready task, and tokio's `RwLock` is documented to be fair. *Starting* an
  operation is not fair: nobody has to call.
- `Class4Blocking`: weak fairness of the active handler, of the clock and of the cleanup, which
  runs at every interval for ever, *as long as they are not blocked*. Peers get none. The code does not
  guarantee that every operation of `SessionManager` returns: a look-up and the cleanup's removal can
  wait for each other for ever (`session_locks_cleanup`). So `SessionsEnd` does not say that every
  session ends, but that each does unless the two block each other, which the model lets them do
  at any of their meetings.
- `CdrPipeline`: weak fairness of the processor's own steps and the database (`Process`). The request
  (`Post`) gets none: the webhook client has no timeout, boss may keep the connection open and
  silent, and the processor awaits it. `EveryCdrIsStored` says that every record gets its row, is lost,
  or the processor stays in that request for ever.
- `LrnDip`: weak fairness of every dip's own steps, its timeout included; none for the servers
  and the network.

## What is proved

With `tlapm`, for every value of the constants that satisfies the named assumptions of the
modules.

**SessionLocksProofs** (assumptions `StoreAssumption`, `LocksAssumption`). The inductive
invariant `LocksInv` is the conjunction of

- `TypeOK`;
- `ArgsOK`: an operation in progress has the arguments it needs, and a look-up that has got
  its second lock has read the mapping;
- `QueueOK`: whoever is in a lock's queue is inside an operation whose next lock that is;
- `QueuedOnce`: no task is in a queue twice or in two queues;
- `ProgressOK`: a task holds at most the locks of its plan, and an idle task holds none;
- `WritersExclude` and `LookupSeesStableMapping`.

`WritersExclude` alone is not inductive: to preserve it, `Grant` must know that the task at
the head of a queue asks for just that lock, which is `QueueOK`, and that serving it leaves no
second entry behind, which is `QueuedOnce`. `LookupSeesStableMapping` is preserved because a
step that writes the mapping is made by a task that holds it for writing, which
`WritersExclude` rules out while the look-up holds it. From `LocksInv` follow the invariants of
the run, the refinement (`LocksImplementManager`: every `Finish...` is an atomic operation,
every other step a stutter) and `OnlyLookupsGetStuck`: when nobody can move, the chain from a
waiting task to the holder it waits for goes up the order sessions, mapping, stats, unless
the holder is a look-up.

**Class4B2BUAProofs** (assumption `B2BUAAssumption`). `B2BInv` is `TypeOK` and

- `MainOK`: what the handler has in hand at each of its points;
- `FreshOK`: nothing is known of a session id that has not been given out;
- `LiveOK` and `MappingOK`: a live session has the Call-IDs of its caller and its own leg, and its
  caller's Call-ID maps to it unless the cleanup has removed a session of that caller; an entry
  of the mapping leads to a session of its Call-ID that lives or was removed by the cleanup;
- `BillingOK`: a session the handler works on has not been billed, and one it removes has;
- `CloneOK`: the clone in hand has the legs of its session and is no older than the session that
  it will replace;
- `BLegsOK`: a second leg of a live session is in the mapping, unless the handler is about to enter
  it or the cleanup has removed the session before.

`BilledOnce` is not inductive without `BillingOK` and `CloneOK`: a clone is written back whole,
so that a session that was billed and removed in between would be billed again. `SessionsAreReachable`
needs to know of every entry whose it is, which is `LiveOK` and `MappingOK`; `OneSessionPerCallId`
is a consequence of them.

The refinement `HandlersImplementLifecycle` adds nothing to the invariant. The four handlers that write
a clone back (`WritesBack`) answer the call, bring it back, or are not seen: which of them follows
from `CloneOK`. That a call is billed as what it is, and that the next is not billed before it has
ended, is `BillingOK`; that `AdmitInvite` opens no second call of a Call-ID is `LiveOK`.
`OneSessionPerCallId` and `EndsBilledOrReaped`, which the refinement implies, have theorems of
their own (`OneSessionAtATime`, `NoSessionEndsUnbilled`) and need no run.

`SessionsGrowOld` is the safety part of `SessionsEnd`: no handler renews `last_activity`, and what
it brings back after the cleanup removed it has expired. The invariant `AgeOK` says it of the clones:
as old as the session while that lives, expired once it was removed. With `HandlersOnlyAdvance`
(every step of a handler lowers `PointsAhead`) it is all that the fairness of the handler, the clock and
the cleanup has to be combined with. `HandlersUseManager` shows that each step between two awaits makes
at most one operation of `SessionManager`: the interface that `LocksImplementManager` shows the locks
to provide is the one the handlers rely on. `BlockingChangesNothing` carries all this over to
`Class4Blocking`: a run in which a look-up and the cleanup block each other is a run of `Class4B2BUA`
in which from some point on only the clock moves.

`StatsInv` adds `CountsOK` (the
counters against the number of sessions; equal as long as the cleanup has removed nothing) and
`TrunksOK`: the counter of a trunk covers `Carried`, the sessions on it in the table and the
one in the handler's hand, because a clone may go back after the cleanup removed its session.

**RouteAdvancementProofs** (assumption `RoutingAssumption`). The inductive invariant
`RoutingInv` is `TypeOK`, `RecordMatches`, `NoTrunkTwice`, `AttemptsBounded` and

- `ToldMatches`: a call with a routing state and a route was last told to use it, and a call
  that was told nothing has tried nothing;
- `LoadCovers`: the calls routed to a trunk are no more than its counter says.

Every step either `Sends` one call to one trunk below its limit that the call has not failed
on, or `Withdraws` calls; the invariant is proved for these two kinds of step.
`RoutingImplementsFailover` reads off these two kinds. `NoTrunkTwice` and `AttemptsBounded`, which
`Failover` implies, have theorems of their own (`NeverTheSameTrunk`, `AttemptsAreBounded`).
`NoTrunkTwice` needs `RecordMatches` (the trunks that failed are exactly the trunks tried
before), and `LimitIsRespected` needs `LoadCovers`, because the counter, which is never
lowered, is what the code compares with the limit. `FinalStaysFinal` is an action property
from the same invariant.

**AdmissionProofs** (assumption `AdmissionAssumption`). `AdmissionInv` is `TypeOK` and `CallsApart`
(no two threads work on one call), `SessionsOK` (which calls a thread may have in hand at each
point), `ControlOnly` (the points only one service has), `StraysOK` (a thread that ends a call no
one has registered is one of the trunk's service) and `CountersAgree`. The counter is a number below
`Width` and the sessions are a set: `CountersAgree` is preserved because every increment and
decrement moves exactly one call into or out of `Counted`, or adds one to `strays`, and raising and
lowering within the width do what they do to the difference. The assumption says that the width is
above the number of calls and stray ends, so that a value shown tells which of the two is the
larger. The refinement `AdmissionImplementsQuota` maps every step to a `Grant`, `Count`, `Withdraw`,
`Uncount` or `Miscount` or a stutter: a call is granted only while the counter shows less than the limit, and
by `CountersAgree` fewer calls than the limit, and the stray ends on top, are then counted, whether the
counter has wrapped or not. `QuotaIsKept` is proved of the abstract specification and carried over.

Two bounds of the same module need invariants of their own. `TrunkInv`, for `TrunkKept`, says that
there are a thread `by[c]` that stored each call c now up on the trunk and a set `older[c]` of calls
that were up before it, such that these sets are nested (of two calls one is in the past of the
other); a scan has found every older call in the shards it has read (`FoundOK`); and of two calls
one thread stored, the earlier was seen with its past by the scan for the later (`SeenLater`).
So calls with a past as large as the limit have pairwise different threads, and the others lie in
one past smaller than the limit. The history is quantified in the invariant, and the steps say how
it changes. `RateInv`, for `RateKept`, is a budget: what is counted, plus what can still be
counted before the next wipe (`Room`), plus what the wipes to come make room for (`Later`,
`OneMore`), never exceeds the bound. A thread between its exchange and its store (`Wiping`)
can wipe late, and each wipe uses up one such thread until the clock goes on; `ClockOK` says what
the times a thread has read are worth by then.

**RateDecksProofs** (assumption `DecksAssumption`). `DeckInv` is `TypeOK`, `LoadersOK` (what a loader
between its reads and its commit may still assume), `OneTransaction` (the unique constraint
lets one insertion through at a time), `ChainIntact`, `LoadedBeforeActive` and `SelectedAreDue`. `ChainIntact`
follows from the constraint alone, whatever the reads outside the transaction returned; the gap
and the agreement of the rates then are facts about chains, proved without the steps.
`DecksImplementCard` computes what prices a time from the chain: it is the latest version that has
started and not ended, and since a successor ends its predecessor a second before its own
start, only a commit moves it.

**LcrRoutingProofs** (the assumptions of `LcrCache` and `LcrRouting`). `CacheInv` is `CacheTypeOK`,
`FreshSinceReload` and `LoadersOK`. `FreshSinceReload` is not inductive: a reload may store, now, what it
read long ago. `LoadersOK` says of every running reload (`Sound`) that what it has read is no older than
`floor`, and that the tables it has been through, and the rates of the decks it has been through
(`Handled`) if these have been active since, are no older than its `low`; and that what *another* one has
read is no older than that `low` either, since `low` is the earliest start of the reloads it overlaps
with. So a reload that stores over another leaves both sound (`SoundKept`). A deck that is active
throughout is among those each `SELECT` of decks finds, which is why the rates need no more. A reload that
fails takes nothing back.

`LcrInv` adds `PatternsOK` (a compiled pattern is one its route has had) and `Recent` for every query: what
it has collected so far, of the static routes (`StaticPart`) and of decks, prices and trunks (`DynamicPart`),
was so at some time since the `floor` it began with. Every read of the cache gives that by
`FreshSinceReload`, every read of the database because that is of now.

`QuietQueryDecides` has an invariant of its own, `OnCourse`: with the cache current and no pattern ever
changed, a query that nothing has interfered with has collected what the specified search would have
found up to its point (`Course`), one lemma per step. Other queries may compile and overwrite patterns; by
`PatternsOK` they are the same. A step that leaves a query quiet leaves log, rates and tables as they
are, so that the premise held before it and need not be carried along the run.

**LrnDipProofs** (assumption `LrnAssumption`). `LrnInv` is `TypeOK`, `InboxAsked` (the responses on the
socket answer questions), `AnswersWereAsked`, `Started` (at which points a dip has turned to a
server) and `FailoverComplete`. `DipsAlwaysAdvance` is the safety part of `DipsEnd`: each step of a dip
lowers `StepsLeft`, nobody else raises it, and only an ended dip has none left. `RoundRobinBalanced` follows from `TurnsTaken`: every server has
begun as many dips as `index` has gone round, and those before it one more. The assumption says
that the dips are finitely many; the property counts them.

**CdrPipelineProofs** (assumption `PipelineAssumption`). `CdrInv` is `TypeOK`, `InHand` (the record in hand has
its row once it is past the database, and has reached boss or found no webhook if it was sent) and
`SyncedCallReachedBoss`. The refinement `PipelineImplementsLedger` needs `LedgerInv`, which adds to it
`Accounted` (a published record is in exactly one place: in the channel, in hand, in one row,
or given up; the theorem `EveryRecordAccounted`) and `Latest` (a record on its way to boss is the
latest row, and boss does not have it). `EveryRecordsTurnComes` is the safety part of
`EveryCdrIsStored`: what is ahead of a record never grows, whatever is published, fails or dies, and
each step of the processor and each answer of boss lowers it. Only the answer may never come.

## What is only model-checked

The liveness properties (`SessionsEnd`, `EveryCdrIsStored`, `DipsEnd`): TLAPS does not reason about
fairness and ENABLED. What they rest on besides fairness, that every step brings the end nearer
and none takes it further away, is proved for each of them. And the runs that end in a
violation. Every safety property of a passing run, and all refinements, are proved.

## Where the program and its documentation differ

Three disagreements are runs with `expect: violation`, with the lines quoted in `PROJECT.json`.

1. A look-up by Call-ID and a removal can wait for each other for ever (lock order):
   `session_locks_cleanup`. What is then left of the liveness of sessions is `SessionsEnd`.
2. A static route keeps being matched by its old pattern after its pattern was changed and the
   cache reloaded: `lcr_reload`.
3. A dip takes the response to another dip for its own, returns it and caches it:
   `lrn_dip_foreign`.

Others are visible in the actions of the modules, which do what the code does; no run is
spent on them.

- An error response of a gateway neither advances nor ends the call (`class4_b2bua.rs:1637`),
  because `start_call_routing` is never called; `LCR_README.md:220` says that failed calls advance.
- A trunk's call counter is never lowered by the call flow (`termination_routing.rs:596`): a trunk
  is full for ever after `concurrent_call_limit` calls.
- Failover stops when the service offers the failed trunk again, with untried trunks left
  (`SkipFailed`).
- A row can be marked SYNCED for another record of its Call-ID (`Mark`, `class4_b2bua.rs:3244`).
- The webhook's request has no timeout (`boss_webhook.rs:105`): a silent boss stops the storing of all
  later records (`AwaitsBoss` in `EveryCdrIsStored`). Rows whose webhook failed stay PENDING; nothing
  reads them again.
- A second INVITE of a Call-ID can open a second session once the cleanup has removed one of that
  Call-ID (`OneSessionPerCallId` says exactly when).
- A client's trunk is associated with one deck version and has no rate after the next cutover
  (`Associated`, `routing.rs:600`); `LCR_DECK_VERSIONING.md:36` says "Seamless cutover".
- Between a deck's end and its successor's start there is a second without a rate (`GapIsASecond`).
- Cancelling a cutover changes its status only; the new deck is in force by its date all the
  same (`Cancel`, `api_deck.rs:590-605`). Preloading ignores the status and revives a cancelled
  cutover; one that is cancelled while the manager activates becomes active.
- `get_decks_to_preload` selects what is still to come and the task then skips it
  (`SelectPreload`, `PreloadSelected`); nothing spawns `deck_manager_task`, and preloading loads
  nothing into the cache.
- `increment_call` of the LCR's `TrunkManager` has no caller outside tests: capacity is never
  enforced (`LCR_README.md:19` lists it).
- `end_call` of the routing service lowers a trunk's counter whatever call it is told of
  (`termination_routing.rs:460`). An end too many makes room for one call above the limit, or wraps the
  counter of an idle trunk to 2^32 - 1, which is above every limit (`StrayEnd`, `Lowered`).
- The rates of a deck that was deactivated stay in the cache (`cache.rs:79`, 92: inserted, never removed).
  When the deck comes back, after a change of its rates, it is priced by the old ones until the next
  reload (`InCache`; `AnswerIsRecent` excepts just this). The parts of one answer, and the two prices a
  margin is taken from, may be of different times.
- Overlapping reloads may leave a table older than the last one to finish read it
  (`FreshSinceReload` bounds it). A reload while an operator adds a trunk and then a static route
  to it can cache the route without the trunk; calls then fail until the next reload, and so they
  do for a static route to a trunk that was deactivated (`BuildStatic`). A static route moved from
  AFTER to BEFORE during a query can be seen in neither place.
- The CLI's reload and that of `lcr_sip_server` affect their own process only.
- `total_call_minutes` stays zero (`class4_b2bua.rs:3045`), and `max_concurrent_calls` is compared with
  nothing (`class4_b2bua.rs:42`).
- `BillingService::get_account_status` (`billing.rs:550`) removes an expired entry from a `DashMap` while
  it holds a reference into it, which blocks for ever; nothing constructs the service.
- `call_timeout_seconds` removes calls that are in progress, without a BYE
  (`RemoveExpired`); `class4_integration.rs:413` calls it the maximum call duration.
- A BYE is answered and not forwarded (`Hangup`, `ReplyOk`); `ARCHITECTURE.md:244` shows it
  sent on.
- `max_route_attempts` = n gives n - 1 attempts (`RouteFound`, proved as `AttemptsAreBounded`).
- 603, 606 and 487 end a call (`StopCodes`), though `LCR_README.md:222` lists them as codes to
  advance on; of the stop codes of its line 223, 404 and 486 advance.
- Without a webhook, rows are marked SYNCED (`SkipWebhook`, `Mark`).

## Not modelled

`PROJECT.json` gives a reason per component. In short: parsing, formatting, media, codecs and
signatures are computations on data; monitoring, API, CLI and reports change nothing the calls
depend on; the alternative B2BUAs and the SIP stack crates are not what the Class 4 service
runs. Of the modelled components the content of CDRs, rates, headers and SDP is abstracted.

Some parts have a protocol worth modelling and cannot run it at this commit, so that a faithful
model would have no behaviour:

- *Cluster management*: the UDP socket sends to a broadcast address without `set_broadcast`, so
  `start` fails before the first election (`cluster_management.rs`, 254-281, 404-451, 599-612).
- *LCR cluster*: nothing constructs `ClusterSync`.
- *LAPD and ISDN*: `hdlc_stuff` writes all bits into one byte, so the peer's parser reads no frame
  (`q921_lapd.rs:236`, 340-378), and `isdn_stack_manager` drops the receiving end of the D-channel: no
  link is ever established. Above that, an I-frame received ahead of V(R) is kept and never
  delivered (691), the window is taken modulo 8 (474), SABME is sent once (839).
- *`sip/state.rs`* is not compiled; *BillingService* is constructed by nobody; *TdmoeTrunk* is used by
  test binaries only.
- *LcrSipServer* handles its messages in one serial loop with a simulated egress. (A repeated INVITE
  resets a connected call there, and a CANCEL is read only after the 200.)
- *Rate calculation*: the rounding of `billed_seconds` and the costs are arithmetic on one value,
  without state.

## Plan

Done: sessions, call flow, failover, CDR pipeline, admission, rate decks, LCR routing and LRN
dips, each with its proofs; abstract specifications, and proofs that the code's steps implement them,
for the session manager, the call flow, failover, the CDR pipeline, the admission limits and the
rate decks; the progress arguments under the liveness properties. Dropped, with the reasons
above: the cluster, the LAPD link, billing. Left, in order of importance:

1. **Proofs**: abstract specifications of an LCR answer and of a dip, which so far are described by
   invariants (`AnswerIsRecent`, `AnswersWereAsked`, `FailoverComplete`).
2. **Call flow**: two callers in one run, ANI-II policies as a decision of their own.
3. **LCR**: a query with its dip, composed from `LcrRouting` and `LrnDip`; the jurisdiction and the
   order of the routes of an answer.
4. **Cluster and LAPD**, when they can run.
