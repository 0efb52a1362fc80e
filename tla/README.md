# TLA+ verification of the chat with a dynamic load balancer

Clients reach one address, the load balancer (`lb/loadbalancer.py`). It
forwards their requests to backends (`app/server.js`), which store messages in
one database service (`app/db_service.js`, SQLite). This directory has TLA+
models of the parts whose correctness depends on interleaving, retries and
failures, TLC runs that check them on small instances, and TLAPS proofs for
every instance.

## 1. The system

| component | code | state | operations |
|---|---|---|---|
| admission gate | `class Bulkhead` | `_cap`, `_held`, `_waiters`, `queued_now` | `acquire`, `release`, `resize`, `_wake`, cancellation |
| pool and membership | `class LB`, `health_loop`, `discovery_loop`, `eject_now` | `backends`, state and counters of each, `active_count`, `LB.lock` | register, deregister, delete, probe, eject, prune, scan, refresh |
| message path | `/message`, `/api/messages`, `dbAppend`, `flushAppendQueue`, `db`; `appendTx`, `flushAppends`, `appendOne` | `appendQueue`, `seenIds`; `pending`, the open transaction, the table, `totalRows` | send, retry, batch, append, commit, roll back, broadcast |
| feed replica | `feedAppend`, `feedLoad`, `feedPollOnce`, `connectFirehose` | the buffer, `feedSeen`, `feedLastSeq`, `feedPollSeq`, `feedReady` | push, poll, load, reconnect, trim |
| feed copies | `feedBrotli`, `feedGzip`, `/feed` | two compressed copies with their row counts | rebuild, answer, 304 |
| feed cache | `class FeedCache` | stored body, ETag, generations, waiters | fill, revalidate, serve, evict |
| proxy | `handle_client`, `get_upstream` | pooled sockets, `in_flight` | forward, retry elsewhere, relay |
| selection | `pick`, `_pick_threshold`, `pick_sticky` | `current_id`, `rr_index`, weights | choose a backend |
| configuration | `LB.reload`, `/lb/config`, SIGHUP, `LB.log` | `cfg`, `conf_mtime`, `log_fh`, `log_buf` | reload, tune, log, flush |
| accounts and rooms | `/api/register`, `/api/login`, `/api/rooms` | tables, `sessionCache` | register, log in, lock a room |
| load test | `loadgen/leaderboard_sim.py` | the budget, the deadline, the counts | claim, send, count |
| chat client | `app/static/app.js` | `pending`, `lastSeq`, WebSocket | send with retries, render |

**How they interact.** `handle_client` passes the gate, asks `pick` for a
backend and forwards; a failure calls `eject_now`. `health_loop` and
`discovery_loop` are threads beside the event loop; all three call
`refresh_active`, which sizes the gate. Backends register by HTTP and repeat it
as a heartbeat. A backend POSTs messages to the database, alone or in batches;
the database applies all that arrived in one transaction, answers, and pushes
the new rows to every backend over a WebSocket, the firehose. Backends also poll.
Under load the balancer answers reads of the feed from a cache that it
revalidates with a backend; when it is quiet, backends answer them. The
configuration file is reloaded by a thread that watches it, by a request and by
a signal, and rewritten when the balancer is tuned.

**What is hard.** Two wake-up loops of an unlocked queue running at once; tests
of the pool and writes to it in two threads; a heartbeat that overtakes a
deregistration; a POST that is repeated while the first one is still on its
way; a batch with a bad row, a failing COMMIT or a transaction SQLite rolled
back by itself; a process that dies between two rows; rows that reach a feed on
three ways that overtake each other; lost frames and reconnections; readers of
several generations of a cached body; a connection shared by one client after
another; a signal handler that needs the lock of the code it interrupts. PROJECT.json
lists each such hazard at its line, with the properties that would notice it
going wrong.

## 2. What is modelled

| module | models | promises |
|---|---|---|
| `Admission` | abstract: bounded admission, first in first out | |
| `Bulkhead` | the gate on the event loop, one action per handler up to its next await | refines `Admission` |
| `BulkheadThreads` | the same calls, with `resize` in other threads, cut where a thread can lose the interpreter lock | |
| `Ledger` | abstract: numbered rooms, truthful answers | |
| `MessageStore` | the message path from the sender to the table and back | refines `Ledger` |
| `FeedReplica` | the feed buffer of one backend | |
| `FeedCache` | the balancer's cache of the feed, with the compressed copies of the backends | |
| `Selector` | `pick` with its seven algorithms | |
| `Proxy` | the tasks of `handle_client`, pooled connections, backends that fail | |
| `Stage` | abstract: what users see of a stage, and what its report may say | |
| `LoadTest` | extends `Proxy` with the users of a stage of the load test | refines `Stage` |
| `Config` | reloads, tuning and the access log, in four threads and a signal handler | |
| `Membership` | the pool, the three threads and the processes of the backends | |
| `BulkheadProofs`, `BulkheadThreadsProofs`, `MessageStoreProofs`, `FeedReplicaProofs`, `FeedCacheProofs`, `LoadTestProofs`, `ConfigProofs`, `MembershipProofs` | theorems about the module of that name (section 4) | |
| `MC...` | instances for TLC | |

Every definition of these modules that stands for code is mapped to its lines in PROJECT.json. Some
modules also have operators with a comment that begins "The wrong form": each
is the code with one plausible mistake, and substituting it for the definition
below it makes TLC find one of the properties violated.

### Bulkhead

`cap`, `held`, `waiters`, `queued` are the fields of the class. `pc[r]` is where
the task of a request is: `idle`, `waiting` on its future, `granted` (the future
has its result, the task has not been resumed), `inside`. `Wake` is `_wake`;
how many futures it pops is computed (`Popped`) rather than looped.
`asyncio.run` cancels all tasks at the end of the process (`CancelAll`); until
they have all handled it `_wake` meets cancelled futures, which it drops. The
code's handler (line 217) takes such a future for an admitted one and gives back
a slot that was never taken, so the properties speak of the time before.

### BulkheadThreads

`resize` and `_wake` are split into the test with `popleft`, and the count with
`set_result`. `at[p]` is where thread `p` is. CPython switches threads at calls
and at the ends of loop bodies, and the model at no other place; a finer switch
would add behaviours. What survives the race is checked (`NobodyLost`,
`NoStarvation`); the bound on admissions does not survive it (section 5).
A request may also overtake the one whose future the other thread has just
popped (line 199 sees an empty queue).

### MessageStore

An attempt `<<m, k>>` is the k-th request for message `m`; attempts of one
message are not ordered, since a client that retries does not know what became
of the first (and `scripts/dedup_test.py` sends several at once). `queue`, `lru`
are `appendQueue` and `seenIds`; `posts`, `wire`, `replies` are the requests to
the database as the backend, the network and the answer see them, so an answer
may be lost while the request is still to be applied. `tx`, `batch`, `out`,
`done` are the transaction of `flushAppends`, entry by entry; `work` is the
table as it sees it, `rows` the table as committed. When SQLite rolls the
transaction back by itself, later statements commit one at a time (`tx =
"auto"`) and the COMMIT fails. A room's next number is `MAX(seq) + 1`, as in the
query. A row whose INSERT works and whose last SELECT fails is committed, and
neither answered nor sent in a frame (`Reported`).

`totalRows` is counted up inside the transaction and not taken back by the
ROLLBACK, so it may be too high; `CountNeverShort` says that it is never too low.

### FeedReplica

Rows are named by their numbers. `hose` is the firehose, `asked` and `answers`
the requests to the database before and after it reads the table. `FeedAppend`
is `feedAppend` with the trimming of ids and rows; `pollSeq` is the poll's own
cursor, `feed.last` is `feedLastSeq`.

### Membership

`<<b, k>>` is the k-th `Backend` object made for id `b`, because a thread may
hold an object that is no longer in the list. `at[t]` is where thread `t` is:
`event` calls `refresh_active`, which counts, stores and resizes in three steps.
`proc[b]` is the backend's process: `loading` answers `/health` with 503, `up`
with 200, `leaving` has asked to be drained, `closing` was answered. `calls` are
registrations and deregistrations on their way; they may overtake each other.

A backend is `UP` as soon as it registers, 300 ms after its boot and before its
feed is loaded, although the comment at `server.js:663` does not want it routed
to by then; and `Prune` removes by id, hence may remove a new object of the same
id. Both are in the model as they are in the code. `reload` is not: it changes
`source`, which `health_loop` tests before it removes a member, and that race is
not covered.

### FeedCache

A feed is abstracted to the number of its messages; `gens[g]` is the g-th body
that was cached, with the ETag it came under, `live[g]` its readers in `live`,
`files` the generations whose file is open. Ages are abstracted: `fresh` (less
than `feed_cache_ms`), `stale`, `old` (more than `feed_stale_max_ms`); `load` is
what the quiet test reads of the gates and of the last write. `FeedBrotli` is a
backend's copy: current if it has as many rows as the buffer, made now if that
is cheap or the backend quiet, else the previous one while a new one is made.
The budget counts generations, as if bodies had one size. Other encodings, and
trimming of the feed, are left out.

The quiet test looks at the gates and the last write, not at what the backends
hold, and a read that is proxied makes it fail for the next one. So a read just
after the load, or beside another, may be sent an old body. What holds
(`EventuallyAuthoritative`): if in the end no request is under way but one read
at a time, then from some read on every body holds every message. Until then the
backends receive rows and make copies, and reads are proxied one by one.

### Selector

One operator for each algorithm says which backends of the pool may be chosen
and what that does to `current_weight`, `rr_index`, `current_id`. Loads are left
open: any set of backends may be over the threshold, besides those that have
`HotAt` requests, and of two candidates either may have the better score. A
request that opens a connection is not in `in_flight` yet.

### Proxy and LoadTest

`task[t]` is a task of `handle_client`: at the gate, opening a connection,
waiting for the head of the answer, relaying. A connection has the requests the
backend has not worked on (`ins`) and the answers not read yet (`outs`), so a
wrong reuse of a pooled one shows. `orphans` are requests a backend goes on with
after the balancer closed the connection. The gates are counters here (their
queue is in `Bulkhead`), ejection is left open (`Membership`), any routable
backend may be picked (`Selector`). `LoadTest` adds the users: what they claim
from the budget, send, wait for, give up on, and count. A message is stored once
its backend has worked on it (`MessageStore` has how). `Stage` is what the users see of all this, without a balancer: claim,
send, some messages are stored and others lost, one answer or failure each.

Left out: answers of the cache and of `/lb/`, answers without `Content-Length`
(they last until the backend closes, or the timeout), malformed requests. That
`POOL_MAX` or the backend may not want a connection kept is a choice of
`BodyEnds`.

### Config

`at[t]` is where the loop, the signal handler and the watcher are between things
they share; the handler runs in the loop's thread, which stands still meanwhile.
Of the file, `rev` is what an operator edits and `tuned` what `/lb/config`
writes. Writing to a closed `log_fh` raises: the line stays in `log_buf`, and
the thread that flushes dies. `Unseen(r)` says that the file has an edit the
watcher will notice and nobody is half-way through loading or rewriting the file;
what becomes of it is compared by revision, not by mtime.

## 3. What the runs check

| run | instance | shows |
|---|---|---|
| `Bulkhead_gate` | 4 requests, capacities 0 to 3 asked for | `BusyIsExact`, `WorkConserving`, `BoundedAdmission`, `NoStarvation`, and that the gate implements `Admission` |
| `BulkheadThreads_threads` | 3 requests, 2 threads and the loop, capacities 1, 2 | `NobodyLost`, `NoStarvation` |
| `MessageStore_rooms` | 3 messages in 2 rooms, 1 backend, 1 fault | `Numbering`, `CountNeverShort`, `EveryAttemptEnds`, implements `Ledger` |
| `MessageStore_retries` | 1 message sent 3 times to 2 backends, memory of 1 id, batches of 2, 2 faults | `AckedIsStored`, `MemoryIsTrue` |
| `FeedReplica_copies` | 4 rows, pages of 2, lost frames and failing polls | `NothingSkipped`, `Converges` |
| `FeedReplica_trim` | 5 rows, buffer of 2, every fault | `NoDuplicates` among the newest `FeedMax` rows |
| `FeedReplica_skip` | 5 rows, the link drops and comes back | *finding*: a row is never asked for |
| `Membership_pool` | 2 backends, one to be discovered; boots, shutdowns, kills, failing requests, losses, timeouts, pruning, deletion, statistics | well-formed state, `ConfiguredStays`, `CapacitySettles`, `EventuallyRouted`, `DeadIsEjected` |
| `FeedCache_cache` | 2 readers, 1 backend, 2 messages, 3 generations, room for 1 | `FilesFollowReaders`, `PinnedWithinBudget`, `EventuallyAuthoritative`, `EveryReadEnds` |
| `Selector_pick` | 3 backends with weights 1, 2, 1, of which one fails and is replaced; each of 7 algorithms | `SharesKept`, `NobodyStarves`, `MeasuredSoon` |
| `LoadTest_stage` | 2 users, 2 backends, 3 tasks, 1 slot of each gate, any one fault | `CountersExact`, `AnswersMatch`, `AcceptedIsStored`, `StoredIsAccounted`, `EveryRequestCounted`, `StageEnds`, implements `Stage` |
| `Config_reload` | 1 edit, 1 signal, 2 calls, 2 log lines; a backend that registers, also after the edit took it out of the file | `RegisteredStays`, `LinesWrittenOnce`, `TuningSurvives`, `UntunedEditsLoaded`, `LogDrains` |

Every module has a type invariant `TypeOK`, proved as `TypeCorrect` wherever the
module is proved about; a run lists it where it also says how parts of the state
fit together.

**Bounds.** `MaxFaults` counts what goes wrong in a run, `MaxTries` the requests
of a client, `MaxRows` the messages of the room, `MaxLives` the objects made for
one id; `LruSize`, `BatchMax`, `FeedMax`, `PageMax` and the thresholds are the
code's limits, made small. They are chosen so that the limits are reached: more
requests than slots, more attempts than `LruSize` and `BatchMax`, more rows than
`FeedMax` and `PageMax`, more generations
than the budget has room for, more users than slots. The thresholds of
`Membership_pool` are all 1: what is checked is what happens once one is
reached, in whichever thread, and the counters are saturated there. One fault at a time is what
most of the code is written for; where two together matter (an answer lost and
a crash, a lost frame and a lost link) a run has two.

`feedTrim` leaves `FEED_MAX >> 4` rows more in the buffer than ids are kept when
the ids are cut. That margin is 0 for a small `FeedMax`, so the run never sees
it; `NoDuplicates` therefore speaks of the newest `FeedMax` rows, for which it is
proved with every `FeedMax`.

`SharesKept` depends on its instance: a backend that registers again starts with
a `current_weight` of 0, so the weights no longer sum to 0. With one such join,
as in the run, every share stays within a round. With weights 1, 1, 3, one slot,
`Reliable = {"b1"}` and `MaxJoins = 4`, TLC finds a weight outside of it after the
fourth join.

**Deadlock** is checked for the two gates. The other models end: clients stop
after `MaxTries`, rooms after `MaxRows`, generations after `MaxGens`, stages
with their budget, and faults after `MaxFaults`; `Selector` with all backends
down and `Config` with all threads dead or stuck do stop. In `LoadTest_stage`
one fault is enough for each way out of `handle_client`: a crash also breaks the
pooled connections, and the initial states include an empty pool and a pool
whose backends are all down.

**Fairness.** The event loop runs what is ready and threads are scheduled (weak
fairness of each thread's steps). A request that holds a slot ends: its reads
have timeouts; `uw.drain()` (line 1419) has none, and a backend that stops
reading for ever is excluded by assumption. In `BulkheadThreads` strong fairness
says that the loop is not kept from ready tasks by its own resizes. Requests
between processes are delivered or time out, the poll's interval fires, faults
are bounded in number, so that what is tried again works in the end. In
`Membership` strong fairness of the arrivals says that the loop, busy with other
requests now and then, takes a backend's calls in the end. No fairness is assumed
of clients, of faults, boots or shutdowns, or of discovery's first step. In `FeedCache` and
`LoadTest` a revalidation, a connection and the wait for an answer end by their
timeouts, and clients read what they asked for or hang up (`sendfile` and
`drain` have no timeout of their own); rows reach every backend (`Converges` of
`FeedReplica`), `FEED_QUIET_MS` passes and a copy that was begun is made; a task that waits for a slot gets one if
one is free again and again (`Bulkhead` shows it for the queue). In `Selector`
requests keep coming. In `Config` a thread that waits for `LB.lock` gets it if
it is free again and again.

## 4. What is proved

Each module of proofs names an inductive invariant `IInv`, proves that it holds
initially and that each action keeps it, and derives the properties from it. TLC
checked each `IInv` on the runs' instances before it was proved. "For any" below
means: under the named assumptions of the module, which only say that sets of
processes are finite, that limits are naturals (positive where the code has no
use for 0), and that names are distinct.

**`BulkheadProofs`** (any finite set of requests, any capacities):
`TypeCorrect`, `NoIdleSlot`, `BusyCountsExactly`, `AdmissionIsBounded`, and
`GateImplementsAdmission`: every step is a step of `Admission` or stutters.
`WorkConserving` and `BusyIsExact` are not inductive. The invariant adds that
the queue has no request twice and has exactly the waiting ones: only then does
popping n futures grant n different requests and keep both counts.

**`BulkheadThreadsProofs`** (any threads): `TypeCorrect`, `NobodyIsLost`. Here
the queue alone does not hold the waiting requests. The invariant says that each
is in one place of the queue or in the hand of one thread, which holds one
exactly between its two half-steps (`Hands`, `Located`).

**`MessageStoreProofs`** (any messages, backends, limits and faults):
`TypeCorrect`, `RoomsAreNumbered`, `AnswersAreTrue`, `MemoriesAreTrue`,
`CountsAreNotShort`, and `StoreImplementsLedger`. Committed numbers never change
(`work` extends `rows`, `rows` only becomes `work`); an answer in `done` is a
number of `work` while the transaction is open, hence of `rows` once it commits,
and is dropped if it does not; frames, replies and memories hold only such
numbers. Gap-freedom needs that of `work` and of `rows` at once, because a
rollback returns to `rows`. The count is inductive against `work`: it grows with
it, and a rollback only makes `work` smaller.

**`FeedReplicaProofs`** (rooms, buffers and pages of any size, any faults):

* `TypeCorrect`.
* `FeedHasNoDuplicates`. Rows and ids are cut at different lengths, so "no row
  twice" is not inductive: the invariant says that ids are distinct and that
  the newest `FeedMax` rows are the ids seen last, in the same order.
* `NoRowIsSkipped`: `NothingSkipped`, for rooms that fit into the buffer and a
  link that is not lost and loads that do not fail; frames may be lost and polls
  may fail. With a lost link it is false (`FeedReplica_skip`), and a load that
  fails and starts again at a newer row is the same mistake. The
  invariant (`SkipInv`) says that every request starts where all earlier rows
  were seen and that an answer has no gap; before the firehose opens, that is
  also true of `feed.last`, where the one catch-up load starts. No id is ever
  forgotten in such a room, since distinct ids are at most `MaxRows`.

An answer's rows are appended in a loop, a recursive function of the model. What
the loop preserves (`LoopStays`) and collects (`LoopCollects`) is proved by
induction in the form "a set that has 0 and with n also n + 1 has every natural",
which follows from the library's theorem on minimal elements of well-founded
relations.

**`FeedCacheProofs`** (any readers, backends, generations and budget):
`TypeCorrect`, `FilesAreRight`, `PinsAreBounded`. They need that the readers of a
generation are exactly those that hold it.

**`LoadTestProofs`** (any users, tasks, backends, slots and faults):
`TypeCorrect`, `CountersAreExact`, `NobodyReadsAnothersAnswer`,
`AcceptedMessagesAreStored`, `EveryRequestIsCounted`,
`StoredMessagesAreAccounted`, `StageImplemented`. The core is that a pooled
connection is clean, and that a task's connection has nothing but its own
request or the answer to it (`Carries`). `AnswersMatch` then follows for the
user, who is bound to one task (`UserOK`). For `StoredIsAccounted`,
messages are "in play" (`InPlay`) while they are stored or a task or an orphan
still has them: only a claim adds one, and there are never more of them than
accepted, ambiguous and waited-for messages together (`PlayInv`). A user's
message is not accepted already because the numbers of claims only fall. The
refinement maps what is in play and not stored to the messages `Stage` has on
their way; `IInv` and that only claims add to `InPlay` are all it needs.

**`ConfigProofs`** (any file, edits, calls, signals and lines): `TypeCorrect`,
`EveryLineIsWrittenOnce`, and the action properties `RegistrationsSurvive` and
`TunedValuesSurvive`. They need that whoever is about to swap lists holds
`LB.lock` and has every registered id in the new list, and that the file has the
latest tuned value unless it is being rewritten.

**`MembershipProofs`** (any backends, thresholds and faults): `TypeCorrect`,
`MembersOfTheFileStay` (`ConfiguredStays`: only DELETE takes a configured backend
out of the list). The threads keep objects across their steps, so the invariant
says what each may hold at each place.

**Only model-checked:** liveness (`NoStarvation`, `EveryAttemptEnds`,
`Converges`, `CapacitySettles`, `EventuallyRouted`, `DeadIsEjected`,
`EveryReadEnds`, `EventuallyAuthoritative`, `MeasuredSoon`, `NobodyStarves`,
`UntunedEditsLoaded`, `LogDrains`, `StageEnds`), which is out of the prover's reach, and `SharesKept` of
`Selector`, which is not true of every instance (section 3).

## 5. Statements of the code that do not hold

* **A skipped row** (`FeedReplica_skip`): the firehose loses a row and brings a
  later one, the link drops and returns, the catch-up asks from the later row on
  and moves the poll's cursor past the lost one.

The following are stated as definitions without a run. Each is refuted by TLC in
less than a minute, when it is put in the place of the properties of the named
configuration:

* **More than the capacity** (`BoundedAdmission` in `BulkheadThreads_threads`):
  `resize` in another thread and `release` on the loop both see one free slot.
* **Fail-open fails** (`NeverLastEjected` in `Membership_pool`): `eject_now` and
  `health_loop` eject the last two backends at the same time.
* **Draining is undone** (`NothingNewAfterDrain` in `Membership_pool`): the
  heartbeat is not stopped at shutdown, and a registration ends a drain.
* **A 304 confirms an older body** (`ConfirmedCurrent` in `FeedCache_cache`): the
  backend sends an older compressed copy under the ETag of its rows, and then
  says of that ETag that nothing has changed, against `loadbalancer.py:733`.
* **An edit that is never loaded** (`LastEditLoaded` in `Config_reload`): it is
  made between `json.load` and `getmtime` of a reload, whose mtime covers it.
* **A tuning hides an edit** (`EditsLoaded` in `Config_reload`): POST `/lb/config`
  writes the file back with an edit that was not loaded, and notes its mtime,
  against `loadbalancer.py:984`.
* **SIGHUP may block the balancer** (`HangupReloads` in `Config_reload`): while the
  event loop holds `LB.lock`, the handler waits for it in the same thread.
* **More than `backend_slots` at one backend** (`SlotsPerBackend` in
  `Selector_pick`): the gate bounds the sum over the pool only.

`UntunedEditsLoaded` is what remains true of edits: one that is not made while
the file is loaded or rewritten is loaded, unless another edit or a tuning comes
first, the watcher's thread has died or the balancer is stuck.

What the models also show, and the properties allow for: a file that is truncated for
a moment ends the discovery thread; a reload that closes the log under a thread
that flushes it ends that thread, which may be `health_loop`; a pooled connection
the backend has just closed costs the client a 502.

## 6. Not modelled

* **Accounts, rooms, live delivery, the page's own state**: single reads and
  writes of the database, or of one page; the two hazards found there (a session
  accepted after it was deleted, a room locked between the read and the post)
  are listed in PROJECT.json.
* **Answers of a backend other than in br**, the window of the feed for clients
  that take no encoding, and `feedTotal`, which is only shown.
* **The end of a load test** (the feed is read and compared): it needs the feed
  of each backend inside `LoadTest`, where only the store is; `FeedReplica` and
  `FeedCache` have the two halves.
* The encryption of the client, the migration from the Lab 5 store, the
  supervisor, the vendored WebSocket library, `loadgen.py`, experiments and
  analysis are sequential, pure I/O or not part of the running system.

## 7. Plan

Every component that is to be modelled is, and every invariant and action
property that a run checks is proved but one. What is left:

1. `Selector`: the well-formed state for any pool; a bound on the shares that
   also holds when backends register again (a round for each join is the
   candidate), or without joins. Both need sums over functions.
2. `Membership`: the last backend is never pruned while it is up; what the
   counters of failed and passed probes say about the last probes.
