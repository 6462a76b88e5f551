# A TLA+ model of etcd-cpp-apiv3

etcd-cpp-apiv3 is a C++ client for etcd's v3 API on top of gRPC. Most of it turns
a function call into one request and one response; its own logic, and what makes
it hard to test, lies where it keeps state across calls: the keep-alive thread of
a lease, the watch stream, the lock manager, the thread pool of the asynchronous
client, the token that its threads share, the elections and their observers, and
the transactions with which functions like `add` and `modify_if` are made atomic.
The modules here model that logic from the source, TLC checks it on small
instances, and TLAPS proves every safety property among them for any number of
threads, keys, events, leases or candidates and for any clock. Only liveness rests
on the instances alone.

Paths are relative to the repository: `src/...` is its library source and
`etcd/...` its headers.

## The system

| Component | State | Operations | What is hard | What makes it correct |
|---|---|---|---|---|
| `KeepAlive` (`src/KeepAlive.cpp`) | `continue_next`, `mutex_for_refresh_`, `cv_for_refresh_`, `eptr_`, the thread `refresh_task_`, the stream | constructor, `Check()`, `Cancel()`, the thread's loop | three kinds of threads, a condition variable notified without its mutex, an exception passed between threads without a lock | one user of the stream at a time; `Cancel()` stops and returns; no silent death |
| Keep-alive stream, `AsyncLeaseKeepAliveAction` (`src/v3/AsyncGRPC.cpp`) | `isCancelled`, `status`, `reply`, the completion queue | constructor, `Refresh()`, `CancelKeepAlive()` | timeouts race late completions; all refreshes use the same tags | nothing of one refresh leaks into the next |
| Watch stream, `AsyncWatchAction` (same file) | `isCancelled`, `status`, `reply`, the queue | constructor, two overloads of `waitForResponse()`, `CancelWatch()` | replies, cancellation, half-close and connection loss complete in any order | the loop ends when it has to, and loses no events |
| `Watcher` (`src/Watcher.cpp`) | `cancelled`, `wait_callback`, the thread `task_` | constructors, `Wait()`, `Wait(callback)`, `Cancel()` | several threads wait for and cancel one task | order of events; `Cancel()` stops and returns |
| `SyncClient::watch()` | none beyond the stream | `watch()` | as above | returns the first change |
| Locks of `SyncClient` (`src/SyncClient.cpp`) | `keep_alive_for_locks`, `leases_for_locks`, their mutex | `lock()`, `unlock()` | failures between grant, lock, unlock and revocation; refreshes that fail with nobody told | the holder owns the lock; nothing is left behind |
| Key-value functions of `SyncClient` | none in the client; the store at etcd | `get`, `put`/`set`, `add`, `modify`, `modify_if`, `rm`, `rm_if`, `ls`, `keys`, `rmdir`, `txn` | concurrent writers, requests served after their timeout | a response tells what happened |
| `Transaction` (`src/v3/Transaction.cpp`) and key ranges (`src/v3/Action.cpp`, `etcd/v3/Action.hpp`) | the request being built | `add_compare_*`, `add_success_*`, `add_failure_*`, `setup_*`; `string_plus_one`, `make_request_with_ranges` | boundary bytes, the sense of comparisons | the request says what the function's documentation says |
| `Client` (`src/Client.cpp`) | the pplx thread pool | the same functions as tasks | lock requests occupy the threads of the pool | the holder of a lock can go on |
| Leases (`SyncClient`, `KeepAlive`) | the lease at etcd, the time of the last refresh | `leasegrant`, `leaserevoke`, `leasekeepalive` | the second that the refresh period leaves is used up by messages and by `Check()` | a lease kept alive does not expire; a lost one is noticed |
| `TokenAuthenticator` (`src/SyncClient.cpp`) | `token_`, `updated_at`, `mtx_` | constructor, `renew_if_expired()` | renewal races the copy of the token; the margin before it expires; failed authentication | no expired token is sent; one renewal per period; failures are repeated |
| Elections (`src/SyncClient.cpp`, `src/v3/AsyncGRPC.cpp`) | the creation revision that a campaign returned | `campaign`, `proclaim`, `resign`, `leader` | requests carried out, or cancelled, after their timeout | who was told it leads does lead |
| `Observer` and its stream, `AsyncObserveAction` | `isCancelled`, `status`, `reply`, the queue | constructor, `WaitOnce()`, destructor | `isCancelled` is not initialised; the destructor does not wait for its `Finish` | leaders in order; no read on a queue shut down; the destructor returns |
| Membership, channels, addresses, TLS | none | see "Not modelled" | | |

How they interact: `Client` runs functions of `SyncClient` in tasks;
every request takes its token from the `TokenAuthenticator`;
`SyncClient::lock()` creates a `KeepAlive` per lock; a `KeepAlive` uses its
stream under its mutex; a `Watcher` runs the callback overload of the watch
stream in a thread; every unary function goes through `Action` and
`Response::create()`.

The hazards that follow from this are listed line by line in `PROJECT.json`
("hazards"), each with the properties that would catch it.

## The modules

```
KeepAliveCall  <--- refines ---  AsyncLeaseKeepAlive        AsyncWatch
     ^                                                       ^      ^
     | INSTANCE                                      EXTENDS |      | EXTENDS
  KeepAlive                                           Watcher      OneShotWatch

KeyRange <- Transaction <- KeyValueClient <- MCKeyValueClient      (EXTENDS)

LockManager  --- refines --->  MutualExclusion  <--- refines ---  Election

LeaseTimer    AsyncClient    TokenAuthenticator    AsyncObserve
```

The theorems about a module `M` are in `MProofs`, which extends it. Three proof
modules are about two models each, which they both extend: `KeepAliveProofs` about
`KeepAlive` and `LeaseTimer`, the two sides of one class; `LockManagerProofs` about
`LockManager` and `AsyncClient`, the two that concern locks; and `WatchProofs` about
`Watcher` and `OneShotWatch`, which share their stream. `LeaseTimer`, `AsyncClient`
and `OneShotWatch` therefore give their specification a name of its own
(`TimerSpec`, `PoolSpec`, `OneShotSpec`).

**`KeepAliveCall`** is the abstract specification of the keep-alive stream, as
`KeepAlive` relies on it: one operation at a time (`op`), a stream that once
closed stays closed (`isCancelled`), and refreshes that never succeed after one
has failed (`failed`).

**`AsyncLeaseKeepAlive`** is the stream in detail. `pending` holds the tags of
the gRPC operations started, `queue` the completion queue; `pc` is the line of
`Refresh()` or `CancelKeepAlive()` at which the one thread inside stands. Both
paths of `Refresh()` are there, `Next` without a gRPC timeout and `AsyncNext`
with one (`hasTimeout`, read anew by every refresh), and the three ways a write
or a read can end. `Absorb` is the pair of `cq_.Next` calls in
`CancelKeepAlive()`, which take whatever comes first: a late reply still lands in
`reply`, and `Finish` overwrites `status`. Completions, answers, connection loss
and the expiry of the lease are external. `SHUTDOWN` of `AsyncNext` is left out:
the queue is shut down only after `isCancelled` is set, and then `Refresh()`
returns before it uses the queue.

**`KeepAlive`** composes its threads with the actions of `KeepAliveCall`. One
action is one step between two accesses to shared state; `pc` names the step.
`Loop`, `StartWait`, `WakeTimeout`, `WakeNotified`, `Catch` and `Exit` are the
background thread; `LockOnce`, `BeginRefresh` and `EndRefresh` are
`refresh_once()`, run by that thread and by `Check()`; `Exchange`, `Notify`,
`Join`, `LockCancel`, `BeginCancel` and `EndCancel` are `Cancel()`, which
`Check()` calls after a failed refresh. A notification reaches the refresher only
while it waits, and a wakeup may be spurious. `handledIn`, `stopped`, `outcome`
and `failedBefore` are history variables.

**`AsyncWatch`** holds what the two overloads of `waitForResponse()` share: the
constructor (`Create`, `Write`), the tags handled by the loop (`NotOk`,
`WriteCancelDone`, `WritesDone`, `Finish`, `FinalTimeout`, `ReadCanceled`), and
gRPC and the server. The loop's `pc` is `loop`. **`Watcher`** adds the callback
overload, the thread of `Watcher` and its user threads, and **`OneShotWatch`**
the overload that cancels its own watch at the first reply worth returning,
under `SyncClient::watch()`. The `Read(nullptr)` of that overload gives gRPC
nothing to receive and completes at once.

**`LockManager`** has the two maps, the mutex and, per thread, the steps of
`lock()` and `unlock()`. A lock key is named after its lease, so leases stand for
keys. `LeaseKeepAlive` may fail to get a lease (id 0); `LockRefused` is a failed
or timed-out request, which etcd may still carry out; `RevokeLease` may be lost,
and so may the `Unlock` (`LoseUnlock`). A lease expires when no `KeepAlive` refreshes
it: none exists, in the map or in a `lock()` under way, or its thread has ended after
a refresh that failed (`RefreshFails`, `stopped`), which nobody notices, since the
`KeepAlive` of a lock has no handler and stays in the map. The destructor of the
`KeepAlive` that `unlock()` erases is part of `EraseLock`: it ends, by
`CancelReturns` of `KeepAlive`.

**`MutualExclusion`** is the abstract specification of what locks and elections are
used for: a party comes to hold (`Acquire`) only when nobody holds. `LockManager`
implements it with `Holders`, the threads between `lock()` and `unlock()` that have a
lease of their own, unless a refresh of it has failed and it has expired, and `Election` with `Leaders`, the candidates that were told
they are elected, whose lease is alive and who are not `doubtful`.

**`KeyRange`**, **`Transaction`** and **`KeyValueClient`** are the key-value
side. Keys are sequences of bytes up to `MaxByte`, so that `string_plus_one`
keeps its carry. `Request` builds what each function sends, with the very
comparisons and operations of the source; `Parse*` and `MakeResponse` are the
`ParseResponse` functions and the constructor of `Response`. A call is `Begin`,
`Serve`, `Finish`, or `GiveUp` when the timeout passes or the connection fails,
after which the request may still be served (`ServeLate`). A request outside a
transaction is written as a transaction of one operation without comparisons,
which is how etcd executes it. A `range_end` of one zero byte is no upper limit, in
etcd (`InRange`) and in the reference of the properties (`KeysFrom`): `ls` and
`rmdir` with a `range_end` may be called with it too. Users' transactions are those
of the twelve `setup_compare` functions, one that compares a whole range
(`if_none`) and one with another transaction in it (`nested`), whose comparisons
etcd makes before anything is written.

**`AsyncClient`** is the use of the pplx pool: `lock()` as a task that occupies a
thread until etcd gives the lock, or, with `sync`, in the caller; every other
call as a request sent at once and a task that waits for the response.

**`LeaseTimer`** adds the clock that `KeepAlive` leaves out. Time is a `Tick`
action that may not pass a deadline (`InTime`): a message takes at most `Delay`
ticks and a thread wakes at most `Slack` late. `thread` is the constructor and then
the refresh thread, `check` a `Check()` of a user, which competes for the mutex;
the two `Request` actions stand for `refresh_once()`. The thread's steps between
two waits are those of `KeepAlive`, here one action per message.

**`TokenAuthenticator`** has the steps of `renew_if_expired()` per thread:
the condition and `updated_at` under the mutex (`Renew`, `NoRenewal`), the call
to etcd, the write of `token_` in two steps (`BeginWrite`, `EndWrite`), and the
copy by a thread that no longer has the mutex (`Copy`), which may see the old
token, the new one or, during the write, a mix. Ages of tokens are counted in
ticks and cut off at the lifetime.

**`Election`** has, per candidate, the call it is in and the calls it gave up that
etcd may still carry out (`late`) or cancel (`CancelLate`). etcd's service is
external: `CampaignPut`, `CampaignWon`, `ProclaimPut`, `ResignDelete` and so on say
what it does with a request. `doubtful` remembers who gave up a campaign or a
resign: nothing can be promised to such a candidate, until it campaigns again with
nothing of its own on the way. A leader may campaign too, and stays one meanwhile;
a doubtful candidate that campaigns no longer counts on its earlier election.

**`AsyncObserve`** is the stream of an `Observer` over a completion queue, as in
the other stream modules. One thread calls `WaitOnce()`; with `overlap` the
observer is destroyed by another while it waits. Both go through
`CancelObserve()`, under `protect_is_cancelled` (`holder`). `isCancelled` starts
with any value.

## What the runs check

Each run takes about two minutes at most with two workers.

| Run | Instance | Shows |
|---|---|---|
| `AsyncLeaseKeepAlive` | no bound needed, 1,296 states | `NothingInFlight`: the queue is empty when a refresh can start. `TTLIsFresh`: a TTL reported was read by that refresh, though `Finish` may overwrite the deadline's status. `ImplementsCall`: the stream refines `KeepAliveCall`. `OperationReturns`: every operation ends. |
| `KeepAlive` | 2 users, 21,659 states | `StreamIsFree`, `CancelStops`, `NoSilentDeath`; `CancelReturns` although the notification may be lost (the timeout of `wait_for` makes up for it); `KeepsRefreshing`; `CheckRethrows`: once a refresh has failed, a `Check()` returns normally only on an object that is cancelled. |
| `Watcher` | 2 users, 2 replies with events, 133,158 states | `EventsInOrder`: what the callback got as its i-th reply are the i-th events, and while the stream lives every reply sent was delivered or is still in the inbox or the queue. `StoppedOnceJoined`: a joined watcher has ended. `CancelReturns`: without any answer of the server. `ConnectionLossStops`. |
| `OneShotWatch` | 2 replies with events, both kinds of start revision, 1,386 states | `FirstChange`, `WatchReturns`. |
| `LockManager` | 2 threads, 3 leases, 582,084 states | `HolderOwns`: the lock is owned until `unlock()`, or until a lease that is no longer refreshed expires. `NoStaleEntries`. `LockIsReleased`: also when both requests of an `unlock()` are lost. `ImplementsExclusion`: the refinement of `MutualExclusion`. |
| `KeyValueClient_functions` | 1 thread, all functions, 3 keys, 2 values, revisions up to 3, 255,429 states | `ResponseIsTrue`, `ValuesReported`, `FailureShowsPrevious`, against the comments of `SyncClient.hpp` and `Transaction.hpp`. |
| `KeyValueClient_threads` | 2 threads, 1 key, 2 values, 1 late request, revisions up to 3, 1,539,028 states | `OneWinner`, and `ResponseIsTrue` under interleaving. |
| `AsyncClient` | 3 users; a pool of 1 with `sync`, of 3 without, 642 states | `PoolNotExhausted`, `CallsReturn`. |
| `TokenAuthenticator` | 2 threads, a ttl of 5 s, 2 ticks per second, messages up to 4 ticks, with and without a password, 358,290 states | `TokenNotExpired`, `OneRenewalPerPeriod`, `RefusalHasCause`, `FailureIsRetried`. |
| `LeaseTimer` | a ttl of 3 s, 5 ticks per second, `Delay` and `Slack` 1, all that the period leaves, 7,663 states | `KeptAlive`: no lease expires before its `KeepAlive` has stopped. `LossIsNoticed`: the thread does not go on with a lease that is gone. |
| `Election` | 2 candidates, revisions up to 4, 558,332 states | `ElectedLeads`, `ResignEndsTenure`. `ImplementsExclusion`: the refinement of `MutualExclusion`. |
| `AsyncObserve` | revisions up to 4, 9,702 states | `ObservedInOrder`, `NoReadAfterShutdown`, `DestroyReturns`. |

Every property of a passing run has a mutant in `PROJECT.json`: a plausible bug
in one definition that makes the property fail. `TypeOK` of a module says what its
variables hold; it is proved for every module with actions, and no run repeats it.

Why the bounds are enough. Two users of a `KeepAlive` or a `Watcher` give every
race of a user with the thread and of two users with each other, and two replies
with events are needed to see an order; the safety properties are proved for any
number of both. Three leases let one of two threads lock twice while the
other holds or waits. The three keys are a key, a longer one that it is a prefix
of and whose last byte is the largest, and one beyond both: a range that is too
small or too large shows. Calls start while the revision is below 3, so listings
see two keys. Three users of the pool are one that holds the lock and two that
wait. Two threads of a `TokenAuthenticator` are the one that renews and the one
that copies; at a ttl of 5 the period is `ttl_ - 3`, and 4 ticks are all that it
leaves to messages (`DelayIsShort`). Two candidates are the leader and the one
that waits, and four revisions let each campaign twice. Four leaders sent are more
than `WaitOnce()` and the queue hold at one time. The safety properties of all
modules are proved without the bounds; only liveness rests on them.

Deadlock is checked for `AsyncLeaseKeepAlive`, `KeepAlive` and `AsyncClient`,
whose users may always call again, and for `LeaseTimer` and `TokenAuthenticator`,
where it would mean a deadline that nobody can meet. The other models may stop: a
watch that has
ended, or bounds that are used up.

### Fairness

- `KeepAlive`: each thread inside the class is scheduled (weak fairness per
  thread), the wait times out, and an operation on the stream ends, which is
  `OperationReturns` of the stream's own model. No fairness of the mutex, none
  for spurious wakeups, and nobody has to call anything. A cancellation closes the
  stream (`StreamCloses`) because `CancelKeepAlive()` sets the flag itself.
- `AsyncLeaseKeepAlive`: the client runs, the local transport completes what it
  can, the server answers and ends half-closed streams. The last is an assumption
  on etcd that the code needs (see below).
- `Watcher`, `OneShotWatch`: the threads and the local transport only; the server
  may stay silent for ever.
- `LockManager`: threads run, a request ends with an answer, an error or a
  timeout, and etcd expires leases that nobody keeps alive. No request has to reach
  etcd, so that an `unlock()` may lose both of its own, no refresh has to fail, and
  nobody has to unlock.
- `TokenAuthenticator`: time passes, threads run and go on making requests, and
  etcd does not refuse authentication for ever (strong fairness of `Grant`).
- `AsyncObserve`: the two threads and the local transport; the server may be
  silent, and nobody has to call `WaitOnce()` or to destroy the observer.
- `AsyncClient`: threads run, etcd answers, and a user that has the lock goes on.

## Where the code and its documentation disagree

The models show these; the properties checked are what the code does keep.

- One refresh that fails, if only for a moment's trouble with the connection, ends the
  thread of a lock's `KeepAlive` (`src/KeepAlive.cpp:50-55`, 225-228 and 240-256). The
  object stays in `keep_alive_for_locks` (`src/SyncClient.cpp:1100`) without a handler,
  nobody calls its `Check()`, and nothing tries again: the lease expires, and etcd
  gives the lock to another while its holder goes on. `etcd/SyncClient.hpp:704-706`
  says that "keeping alive has already been taken care of by the library". In
  `LockManager` it is `RefreshFails`, then `LeaseExpires` in "held"; `HolderOwns` and
  `ImplementsExclusion` speak of a holder until a lease that is no longer refreshed
  expires.
- A failing `Check()` clears `continue_next` in `Cancel()` (`src/KeepAlive.cpp:171`)
  before it records `eptr_` (line 175). A `Check()` of another thread in between
  finds neither and returns as if the lease were alive, though README.md:870-871
  says that it "will rethrow the async exception". `CheckRethrows` therefore only
  speaks of objects not cancelled.
- `Cancel()`, and the destructor, of a `Watcher` whose stream could not be created
  block for ever: the callback overload enters its loop with nothing in flight
  (`src/v3/AsyncGRPC.cpp:1391`; the other overload returns, line 1294), while
  `etcd/Watcher.hpp:149-150` says the task stops when "the server closes the
  connection". `CancelReturns` has `status = "OK"` as a premise.
- `watch()` never returns once the server has cancelled the watch, for instance
  for a compacted revision: nothing is in flight (`src/v3/AsyncGRPC.cpp:1347`),
  though the comment at 1344-1345 says "there are still a inflight call to
  finish". `WatchReturns` excludes the case.
- When the lease of `lock()` cannot be granted, `leasekeepalive()` does not look
  at the error (`src/SyncClient.cpp:968`), and `lock()` succeeds under a lease
  that nobody keeps alive; `etcd/Client.hpp:653-655` says keeping alive "has
  already been taken care of". `HolderOwns` speaks of granted leases.
- An authentication that fails with an empty message is never repeated: an empty
  token does not count as one to renew (`src/SyncClient.cpp:335`).
- `authenticate()` has no deadline and holds `mtx_`: a silent server stops all
  requests of the client (`src/SyncClient.cpp:343`).
- A candidate whose `campaign()` or `resign()` timed out may lose the key of its
  next campaign to the cancellation or to the late resign, and is not told: the
  exception for `doubtful` in `ElectedLeads`.
- `isCancelled` of an observe stream is not initialised
  (`src/v3/AsyncGRPC.cpp:896-898`): `WaitOnce()` may fail on a good stream. An
  observer destroyed while a `WaitOnce()` is about to read lets gRPC abort the
  program; without such an overlap `NoReadAfterShutdown` holds.
- The response of a nested transaction is skipped (`src/v3/AsyncGRPC.cpp:275-292`):
  whether its comparison held is not visible in the `Response`.
- The cluster stub is created by one constructor of `SyncClient` only
  (`src/SyncClient.cpp:396`): with the others the membership functions have none.
- After the gRPC timeout `Refresh()` calls `CancelKeepAlive()`, whose `cq_.Next`
  has no deadline (`src/v3/AsyncGRPC.cpp:669`): a server that stays connected and
  silent blocks it, though README.md:400 says the timeout avoids deadly waiting.
  `OperationReturns` therefore needs the fairness of the server. The same holds
  for `unlock()`, which revokes the lease without a timeout while it holds
  `mutex_for_keepalives` (`src/SyncClient.cpp:1172`).
- `Check()` calls the handler itself (`src/KeepAlive.cpp:188`), though the comment
  at line 173 says it is not touched.
- A second `Wait()` returns while the task still runs (`src/Watcher.cpp:224`),
  and a wait callback set after the task has ended is never called (line 275).
- A watcher whose watch the server cancels stays in its loop with nothing in
  flight until the user cancels it (`src/v3/AsyncGRPC.cpp:1451`): the premise
  `server # "cancelled"` of `ConnectionLossStops`.
- `watch()` on a lost connection returns a response that is ok and has no event
  (`src/v3/AsyncGRPC.cpp:1324`).
- `modify_if` with `old_index` 0 creates a key that does not exist, and `rm_if` with
  `old_index` 0 succeeds on one, though `etcd/SyncClient.hpp:388` and 419 say that they
  fail when the key does not exist; any other `rm_if` of such a key reports a failed
  comparison, not `ERROR_KEY_NOT_FOUND` (`src/v3/AsyncGRPC.cpp:412` and `:397`).
  `ResponseIsTrue` has what the code does as its reference here, which the comments of
  `KeyValueClient` say too.

## What is proved

TLAPS proves the type and every safety property that the runs check, of all eleven
models, and three refinements. The constants are arbitrary but for the assumptions
named below, which TLC evaluates on every run. Each proof has the same shape: an
inductive invariant, checked with TLC before it was proved; one step per action,
and under it one per conjunct; and the property as a consequence.

### `KeepAliveProofs`: the threads

Five theorems about `KeepAlive`, for any set `Users`,
finite or not, and with or without a handler. The assumption is
`ThreadsDistinct`: the refresher is no user, and the free mutex is no thread.

- `TypeCorrect`: `Spec => []TypeOK`
- `StreamIsFreeHolds`: `Spec => []StreamIsFree`
- `CancelStopsHolds`: `Spec => []CancelStops`
- `NoSilentDeathHolds`: `Spec => []NoSilentDeath`
- `CheckRethrowsHolds`: `Spec => []CheckRethrows`

None of the safety properties is inductive. They follow from `Inv`, the
conjunction of

- `MutexInv`: a thread holds the mutex exactly while it is between taking it and
  leaving the stream. The mutex has one holder, so only one thread is there;
- `OpInv`: an operation in progress belongs to the holder of the mutex, and the
  creation of the stream to the constructor; with `MutexInv` this gives
  `StreamIsFree`;
- `CreateInv`: users start after the constructor;
- `WinnerInv`: only one user ever passes the exchange in `Cancel()`, and from its
  join on the background thread is gone;
- `StoppedInv`: `CancelStops`, and that `continue_next` stays false. When the
  winner leaves the stream it has held the mutex, so no thread is in
  `refresh_once()`; afterwards each finds `continue_next` false under the mutex;
- `ExitInv`: `NoSilentDeath`, and that the exception is recorded when the thread
  leaves its loop without having been cancelled.

`InvStep` has one step per action. `CheckRethrows` needs `RethrowInv` besides: a
`Check()` that began after a failure finds a stream that will not refresh again,
and reaches its report without an exception only when the object is cancelled.

`KeepAlive` knows the stream only as `KeepAliveCall`; what that module promises is
the next theorem.

### `KeepAliveProofs`: the clock

`TimerTypeCorrect`, `KeptAliveHolds` and `LossIsNoticedHolds` about `LeaseTimer`,
for every ttl, resolution of the clock, `Delay` and `Slack` that satisfy
`NetworkIsFast`: a refresh period, the lateness of the thread and three messages
fit into the lifetime of the lease. A ttl of 1 does not. The inductive invariant
(`ClockInv`) bounds, for every place of the refresh thread and of a `Check()`, the
age of the lease by the time the thread has spent there; its delicate case is the wait for the mutex, where the thread's time is bounded by
what the `Check()` that holds it has done to the lease.

### `AsyncLeaseKeepAliveProofs`

`TypeCorrect`, `NothingInFlightHolds`, `TTLIsFreshHolds`, and `ImplementsCallHolds`:
`Spec => ImplementsCall`, the stream implements `KeepAliveCall`. There are no
constants and no assumptions. `IInv` has

- `Control`: the program counter goes with the operation and with `isCancelled`;
- `InFlight`: on a stream that is not cancelled one operation is in flight, the
  one the program counter waits for, and none between two refreshes;
- `Closing`: what is in flight while `CancelKeepAlive()` runs after a write that
  timed out. Its two `cq_.Next` take the late write and then the half-close or a
  failed `Finish`, so `status` is not `OK` again when the response is parsed
  (`ClosedRefreshFails`). This is the delicate part: all refreshes use the same
  tags, and the tags are not looked at;
- `Doomed`: why no refresh succeeds after one that failed. The stream is
  cancelled, or has ended, so that every write fails, or the lease is gone;
- `Fresh`: `TTLIsFresh`.

The refinement maps `op`, `isCancelled` and `failed` to themselves: each step is a
step of `KeepAliveCall` or leaves the three alone, by `Control` and `Doomed`.

### `WatchProofs`

For any number of events: `TypeCorrect`, `EventsInOrderHolds` and
`StoppedOnceJoinedHolds` about `Watcher`, for any set of users; `OneTypeCorrect`
and `FirstChangeHolds` about `OneShotWatch`. The assumption is that `MaxEvents` is
a natural number.

What both users of the stream share is stated and proved once. The replies of the
server are a log (`Total`, `InLog`), the inbox is its end (`LogInv`), and
`Reading(c)` says that one read is in flight and takes the reply after the first
`c`: it is pending, or its completion is somewhere in the queue (`ReadAt`).
`StreamStep` shows that gRPC and the server keep this; `TakeOther` and `TakeRead`
say what the loop takes; `ConstructStep`, `LoopStepKeeps`, `ReadCanceledKeeps` and
`ReadNext` cover the steps that the overloads share.

`WatcherInv` adds `LoopInv`: while the loop runs, it reads after `c` replies and has
given the callback the events of all but the first (`Given`), or nothing is read
any more and the stream has ended. `OneInv` has in its place that the loop reads
the first reply, the second or none: the creation is followed by one more read,
unless it is worth returning, and the first events by none, however the
completions of the cancel request and of the read into `nullptr` are ordered.
`StoppedOnceJoined` needs only itself: threads leave the join when the task has
ended, and the first to come to `Wait()` joins.

### `LockManagerProofs`: locks

`TypeCorrect`, `HolderOwnsHolds` and `NoStaleEntriesHolds`, for any sets of
threads and leases, with `LeasesDistinct` (the marks for no lease and no thread
are neither). `IInv` says that no two threads share a lease or a key, also from
earlier calls (`Distinct`), that a key is named after the lease (`KeyOfLease`),
that no late `Unlock` is on its way for a lock being acquired or held
(`NoUnlock`), that the lease has its `KeepAlive` in the map (`Kept`) and is
recorded under the key once `lock()` has returned (`Recorded`), and that the
lock is owned from etcd's answer on, not only once the response is read, until a
lease that is `stopped` has expired (`Owns`).

`ImplementsExclusionHolds`: `Spec => ImplementsExclusion`. A step changes whether one
thread holds (`HoldersMove`), and two holders would both own the lock at etcd, under
keys that `Distinct` says are not the same; so a thread that comes to hold the lock
finds that nobody does.

### `LockManagerProofs`: the thread pool

`PoolTypeCorrect` and `PoolNotExhaustedHolds` about `AsyncClient`, for any finite set of users
(`UsersFinite`), with `sync` and a pool of one thread, and without it and a pool of
a thread per user. `PoolInv` says that

- the size of the pool goes with `sync`;
- users ask etcd for the lock once, and who is inside is at the head of its queue
  (`AskedInv`);
- every task, waiting for a thread or running, belongs to a user who is waiting for
  just that, and a waiting one has not asked etcd yet (`TasksInv`).

So a user has at most one task in the pool. If no running task waits for a response,
all of them wait for the lock. With `sync` there are none; without it
they belong to different users, and none to the holder, so that they are fewer than
the threads (`FS_Injection`).

### `TokenAuthenticatorProofs`

`TypeCorrect`, `TokenNotExpiredHolds`, `OneRenewalPerPeriodHolds` and
`RefusalHasCauseHolds`, for any set of threads, lifetime, clock and network that
satisfy `TimesAreNat`, `CreatorIsThread` and `DelayIsShort`: the delay is
shorter than the period of renewal, and than what the period leaves of the
lifetime. `IInv` bounds the age of `token_` by the time since `updated_at`,
except while a new one is on its way (`TokenAge`); the age of what a thread
copies or has copied by the period and the time since its own test
(`RequestAge`); and says why a request may carry no token (`Cause`).
`ExpiringAfterPeriod` is about the test of line 338, which rounds to seconds.

### `ElectionProofs`

`ElectionProofs` proves `TypeCorrect`, `ElectedLeadsHolds`,
`ResignEndsTenureHolds` and `ImplementsExclusionHolds` for any set of candidates and
any bound on revisions. `IInv` adds to the invariants

- `KeyInv`: a key has a creation revision of its own, not above that of the store, so
  that a key created later never takes the lead from an older one (`TenureKept`), and
  that two leaders would be the same, which is the refinement of `MutualExclusion`;
- `CallInv`: what the call of a candidate knows of its tenure, and that nothing but
  a proclaim is on its way for a candidate that is not doubtful;
- `TenureInv`: a candidate leads from the moment etcd answers its campaign, not
  only once the response is read.

`StoreStep` says how any request changes the keys: `CarryEffect` shows it for each
of etcd's actions, and the lemmas on the steps use only that.

### `AsyncObserveProofs`

`TypeCorrect`, `ObservedInOrderHolds` and `NoReadAfterShutdownHolds`, for any bound on
revisions and any initial `isCancelled`. As for the watch, the inbox is the end of what was sent
(`InboxIsSuffix`) and the read in flight takes the leader after those returned
(`WaiterInv`); here the destructor of another thread may take the completion of
that read from the queue, and then no read is started any more. `AloneInv` is
about observers not destroyed while in use.

### `KeyValueClientProofs`

`TypeCorrect`, `ResponseIsTrueHolds`, `ValuesReportedHolds`,
`FailureShowsPreviousHolds` and `OneWinnerHolds`, for any set of threads, any set of
keys (also an infinite one: the store has finitely many at any time, which is part of
the invariant), any values, any mixture of the functions and any bounds. The
assumptions are `MaxByteIsPositive`, `KeysAreStrings`, `ValuesAreNotEmpty`,
`BoundsAreNat`, and `FunctionsAreKnown`: the functions chosen are among those
modelled.

The heart is `EveryCallPromised`, which is about no behaviour at all: for every call,
on every store that etcd can hold (`StoreOK`), the request that the function builds,
executed by etcd, and the reply as the client parses it make a response that is true
and complete. Its lemmas follow a request on its way, one layer after the other:

- keys: `Less` is a strict total order (`FirstDifference`, `LessIsTransitive`,
  `LessIsTotal`), and `PrefixRangeIsExact`: from a prefix to its `string_plus_one`,
  with its carry over bytes of the largest value and its special case for the empty
  prefix, lie the keys with that prefix and no other;
- the store: a range has one sorted listing (`SortedFacts`, `InStoreFacts`), of which
  a comparison tells what is compared (`KeyCompared`, `RangeCompared`);
- transactions of one and of two operations (`OneOperation`, `TwoOperations`), and
  the shapes that the functions build (`TxnShapes`, `SetupShape`);
- parsing (`ParseTxnOne`, `ParseTxnTwo`, `ParsedTxn`, `Shown`);
- one lemma per family of functions (`AddPromised` ... `LimitListed`).

Two inductions over data stood in the way. That a set of keys has a sorted listing
and that a byte string has a last byte below the largest follow from the least number
of a set (`LeastNumber`, from the well-foundedness of `<`) instead; and the operations
of a transaction, which etcd executes in turn, are at most two in the branches that
the library's functions build.

The invariant then carries the promise from `Serve` to `Finish` (`CallOK`), while
other threads write and late requests are served, and says why `modify_if` has one
winner (`Exclusive`): the winner of a revision makes it a thing of the past (`Past`),
since revisions only grow, and a call that has won and not been told yet is counted
with those told.

The attempt to prove the ranges found a flaw of the model: the reference `KeysFrom`
took a `range_end` of one zero byte for a key, while to etcd it means that there is no
upper limit. TLC did not see it, since no key of its instance is a zero byte.

### Only model-checked

- Liveness: TLAPS does not reason about fairness. These are `OperationReturns`,
  `CancelReturns` and `KeepsRefreshing` of `KeepAlive`, `CancelReturns` and
  `ConnectionLossStops` of `Watcher`, `WatchReturns`, `LockIsReleased`,
  `CallsReturn`, `FailureIsRetried` and `DestroyReturns`.
- That the properties do not hold by accident of the model: the mutants, which TLC
  finds to violate them.

## Not modelled

- Time, except in `LeaseTimer` and `TokenAuthenticator`: elsewhere a timeout may
  come at any moment, and in `LockManager` a lease does not expire while its
  `KeepAlive` goes on refreshing it, which is `KeptAlive` of `LeaseTimer`. A clock set
  back is not modelled. `Delay` of `TokenAuthenticator` bounds the time from the copy
  of a token to its use, for `lock()` with its wait for the mutex in between.
- Callbacks and handlers of the user that call back into the object (they would
  join their own thread).
- Data races as such: reads and writes of `eptr_` and `wait_callback` are atomic.
- Key-value requests with leases and for old revisions, comparisons of leases,
  transactions nested more than once: arguments passed on to etcd.
- `leasetimetolive`, `leases`, `leader`, membership: single requests that read, or
  have no state in the client. `lock_with_lease()`: the same.
- Addresses, TLS, DNS, generated protocol buffers, build files: string handling
  and I/O.

More than three quarters of the repository's lines are no library code: the
vendored test framework `catch.hpp` alone has 17,942, and the tests and the
documentation comments of the headers are most of the rest. The library itself is
about 5,000 lines of `src/` and 3,500 of headers, of which the models cover what
has control flow of its own.

## Plan

Done, in this order: the keep-alive stream and its interface, `KeepAlive` and its
proofs, the watch stream with its two users, locks, the key-value functions, the
thread pool; then the clock of leases with its proofs, token authentication,
elections with their proofs, the observer, and ranges, limits and nesting in
transactions; then the proofs about the keep-alive stream and its refinement, the
two users of the watch stream, locks, token authentication and the observer; then
those about the key-value functions and the thread pool.

Next, models: user callbacks that call back into `KeepAlive` and `Watcher`, and
the unlocked accesses to `eptr_` and `wait_callback` as steps of their own.
