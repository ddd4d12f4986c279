# Formal verification of go-jobs

TLA+ models of `go-jobs` (a distributed job scheduler in Go: an *admin* process that schedules,
*executor* processes that run the jobs), the TLC runs that check them on small instances, and
TLAPS proofs for every size. Paths below are relative to `src/go-jobs/`; the lines each
definition stands for are in `PROJECT.json` under `map`.

```
tlc -workers 2 -config Runner_safety.cfg MCRunner     # any run of PROJECT.json
for m in *Proofs.tla; do tlapm $m; done               # the proofs
```

## 1. Inventory

| Component | State it keeps | Operations | What makes it correct |
|---|---|---|---|
| Executor runner (`internal/executor/job_runner.go`, `executor.go`) | `stopped` flag, running set (map, WaitGroup, `drained`), one context per job | `Run`, `Kill`, `Stop`, `IsIdle` | a log ID is executed by one goroutine; a clean Stop leaves none behind; a forced Stop kills all; a refused request is settled |
| Idempotency table (`pkg/idempotency`) | log ID → record (state, error, time) under a mutex; GC goroutine | `TryAcquire`, `Complete`, `gc`, `Stop` | absent → running → settled → absent and nothing else; duplicates get the recorded result |
| Script engine (`internal/executor/script_engine.go`) | registry of engines; per run a process, a pipe, a bounded buffer | `LoadFromConfig`, `Execute`, deadline | nil means exit 0 and the output up to the limit; temporary files go away |
| Timing wheel (`pkg/timewheel`) | three levels of slots, cursors, overflow heap, index by ID, two channels | `Add`, `Cancel`, `Task.Cancel`, `Stop`, `tick` | one live entry per ID; never early; late by a bounded time only |
| Job store (`pkg/jobstore`) | map of entries, heap, count, dirty flags | `LoadAll`, `Add`, `Remove`, `UpdateNextTrigger`, `UpdateStatus`, `PopDue`, `PeekDue`, flush loop | no update is lost by the flush; map, heap and count agree |
| Log buffer (`pkg/logbuffer`) | bounded channel, batch, map of temporary IDs, `stopCh` | `Create`, `UpdateResult`, flush goroutine, `Stop` | Create behaves as an INSERT: own row, one row, answered; Stop loses nothing |
| Scheduler (`internal/scheduler/scheduler.go`, `block_strategy.go`) | worker channel, workers, wheel and store of the node | `Start`, `Stop`, wheel callback, `handleTask`, `reschedule`, `AddJob` … `TriggerJob` | a running job stays in the wheel; a trigger is sent under the lock; discarding jobs do not overlap |
| Redis lock (`pkg/redis`) | key → holder, TTL | `TryLock`, `ReleaseLock` | one holder; only the holder releases |
| Route strategies (`internal/scheduler/route_strategy.go`) | a counter per list, counts and times per address | one call per trigger | the load is spread, whatever the order of the list |
| Executor store (`pkg/executorstore`), executor service, registrar (`internal/executor/registry.go`) | address → entry (health, last beat, failures); rows in `sys_executor`; the beat loop | register, heartbeat, deregister; probe round, TTL sweep, row sweep, bootstrap | who beats is routed to, who is dead is not; a late answer revives nobody |
| Rate limiter (`pkg/ratelimit`) | token buckets and window counters, registry | `Register`, `Deregister`, `CheckJob`, `Allow` | a limit holds for all workers together, also while a limiter is replaced |
| Leader election (`pkg/etcd`), admin life cycle (`cmd/admin`) | leadership; start and stop of scheduler and buffers | election loop, callbacks, shutdown | contenders never schedule together; somebody takes over; writers end before what they write to |
| Job services (`internal/service`, `internal/dao`) | `job_info` and `job_log` rows | create, update, start, stop, delete, kill, report, retry, child jobs | the last call holds; a verdict is earned; a Running row is watched; retries end |
| Job templates (`pkg/jobtpl`, `jobtpl_service.go`) | templates by name, names by ID | create, update, delete, import, instantiate | both maps agree; a job inherits from one version |
| Metrics observers (`pkg/metrics/observable.go`) | stop channel, event channels, loops | `Start`, `Stop`, notifications | Stop drains what was taken before it |
| HTTP handlers, users, alarms, statistics, groups, ES logs, cron, config, metrics providers, Job SDK, UI | rows, presentation | CRUD, formatting, I/O | not modelled (section 5) |

How they interact. `Scheduler.Start` loads the store from MySQL, registers every job in the
wheel and starts the wheel, the workers and the flush loop. When an entry fires, its callback
reads the store and sends a task to the bounded worker channel. A worker takes the Redis lock
of the job, applies limits and block strategy, asks a router for an address out of the executor
store's list, writes a `job_log` row (through the log buffer) and calls `/run` of the executor in
a goroutine; then it reschedules through the store and the wheel. The executor acquires the log
ID in its idempotency table, adds the job to its running set and answers; the handler runs on in
its own goroutine. The HTTP services write the database beside the scheduler and tell it nothing.
A leader election decides which admin process starts its scheduler; executors register and beat
over HTTP with every admin.

What is hard: every one of these parts is shared by goroutines that hold a mutex for a part of
an operation only (the store's map, heap and flags; a duplicate reading a record; a template
between Get and Update); commands travel through channels and can be overtaken (wheel adds and
cancels, log rows and Stop, late heartbeats); locks, leases and contexts expire by themselves;
two admin nodes overlap during a leader handover; a crash leaves rows and locks behind.
`PROJECT.json` lists each hazard at its line.

## 2. Modules

| Module | Models | Checked through | Proofs |
|---|---|---|---|
| `ExecutionLedger` | abstract: what an executor promises per log ID | `Runner` (refinement) | `RunnerProofs` |
| `Runner` | one executor process: runner, running set, idempotency table | `MCRunner`, `MCExecution` | `RunnerProofs` |
| `LogRows` | the status of `job_log` rows and all of its writers | `MCExecution` | `LogRowsProofs` |
| `TimeWheel` | the wheel goroutine and its callers | `MCTimeWheel` | `TimeWheelProofs` |
| `JobStore` | store, concurrent callers, flush goroutine, table | itself | `JobStoreProofs` |
| `LogBuffer` | callers of Create, flush goroutine, table | itself | `LogBufferProofs` |
| `Scheduler` | nodes, workers, Redis lock, rows, management calls | `MCScheduler`, `MCSchedulerCases` | `SchedulerProofs` |
| `JobControl` | a job's row between the job service and the store's flush | itself, `MCCluster` | `ClusterProofs` |
| `AdminLife` | leader election, start and stop of schedulers, shutdown | itself | `AdminLifeProofs` |
| `ExecutorRegistry` | registrar, executor service, store, probes, sweeps | `MCCluster` | `ClusterProofs` |
| `RateLimit`, `Routes`, `ScriptEngine`, `Templates`, `Observer` | one component each | `MCCluster` | `ClusterProofs` |

`MC*` modules give values to constants, define symmetry, or put parts beside each other that
share no state: in `MCExecution`, `MCSchedulerCases` and `MCCluster` the initial state chooses
the part (or the instance) that is active in a behaviour, and the others are at rest, so that the
number of states is a sum and not a product. A definition preceded by "Mutant of X" is a
plausible wrong version of X, used to test that the properties notice it; no specification uses
it.

### Runner

One goroutine per `/run` request, which after `Add` stands for the handler's goroutine
(`pc[r]`). A step is one critical section (`Table.mu`, the set's mutex) or one access outside:
`CheckStopped` (the atomic fast path), `TryAcquire`, `Inspect` (a duplicate reads the record
without the mutex), `Add`, `Rollback`, `HandlerReturn`, `CompleteRun`, `Remove`, `WgDone` (the
WaitGroup is left outside of the mutex). `Complete` on a failure is two writes, State then Err,
with the mutex held (`mu`); readers without the mutex see the state in between. `Stop` is the
sequence compare-and-swap, close, bounded wait, kill all, bounded wait, stop of the table's GC.
`Deadline`, `Kill` and the GC (`Expire`) come at any time. Pointers to records and jobs are
named by the request that made them, so that a stale pointer and a newer record of the same log
ID differ. `TTLOutlives` states whether the table's TTL is longer than the few instructions
between `Complete` and `remove`.

`ExecutionLedger` is the state machine of the package comment of `pkg/idempotency` with the
executions beside it: `Admit`, `Start` (only while open), `Refuse` (only once closed), `Settle`
(state and execution in one step), `Forget`. `ImplementsLedger` maps the table to the ledger,
the goroutines before `Complete` to the executions and `drained` to the close. It says that the
many small steps never let an outsider see a log ID executed and settled, settled twice, started
after the close, or forgotten while running.

### TimeWheel

Callers send to `addCh` and `cancelCh` (capacity `Cap`), the goroutine selects. A task's
position is its slot, the overflow heap, or an end; `Place` is the arithmetic of `place` (delay,
level, quotient plus one, modulo), `Tick` is the whole of `tick`: the overflow heap, the level-0
slot, then the cascades of every level that rolls over. A tick's time may jump, because Go drops
ticks of a slow receiver; the cursor moves by one all the same. `TickSelfLock` is the re-entrant
`Lock` of `overflowMu` that a task with a delay of exactly `maxWheelSpan` causes.
Left out: the cap of a slot list (100000) and logging.

### JobStore

Callers' operations are split at every access that another goroutine can interleave with: the
map's `Swap` or `LoadAndDelete`, the heap's critical section, the count, the write of the job and
the write of its flag (both under `heapMu`, but `DrainDirty` reads without it). The flush
goroutine is `DrainCAS` (the compare-and-swap), `DrainCopy`, then one `FlushJob` or `FlushFail`
per copy. `overlap` is history: whether two operations have ever overlapped.

### LogBuffer

`Create` is its two selects: send, context, or `stopCh`; then the signal or the context. Contexts
may end at any time. The goroutine receives, writes full batches, writes partial ones at the
ticker, and drains when it sees `stopCh`; a `select` with several ready cases takes any. An insert
may fail with or without having written its rows. Both kinds of inner DAO are checked (`batcher`).
The other DAO methods, which only forward, are left out.

### Scheduler

`Nodes` admin processes with `Workers` workers each share Redis locks (`lock`), the `job_info`
table and `job_log` (`logs`). Per worker: `Take`, `TryLock`, `Limit`, `Pass` or `DiscardTrigger`,
`Send` per address, `Reschedule`, `GetFresh`, `ScheduleWheel`, `ReleaseLock`. The management
operations change the store in one step and the wheel in later ones. A node may stop or crash.

Abstractions: a node's wheel has at most one entry per job (`TimeWheel`'s `LiveIsIndexed`) which
fires at its time or later (`FiresOnTime`); the store's operations are atomic (their interleavings
are `JobStore`'s subject); one management call at a time per node; the cron expression of a job
is "every", "none" or "bad" and constant; a call with an expired context fails; parameter
rendering, routing and the override kill change no modelled state. `Prompt` and `InOrder` are
assumptions a run may make: time passes only when the nodes have caught up, and the wheel serves
commands in the order of the calls.

### LogRows

A row's status has several writers that do not look at what they overwrite: `sendTrigger` (the row
is inserted as Running), `callExecutor` with the executor's answer (`UpdateResult`), `KillJob`
(read, remote kill, write) and `ReportResult`, which also triggers the child jobs. `RetryScan` is
one pass of the retry service over the failed rows of its window; each starts a timer that
triggers the job again. Calls, answers and inserts may fail; the admin and the executor may
restart. `lost` is history: the rows nobody will settle.
Abstractions: a row past the window that nobody works on is forgotten, so that few names suffice
for any number of rows; the trigger types are collapsed to "first" and "retry"; lock, limits and
route are one choice of `HandleTask`. `recovered` says that from now on every call succeeds.

### JobControl

One job's row and its two writers. The service's calls read the row and write it back by separate
statements (`Enter`, then `Save`, `UpdateStatus` or `Delete`); the scheduler has a copy since its
start (`Load`) and saves all of it whenever it is dirty (`Reschedule`, `DrainDirty`, `FlushJob`).
Times are abstracted to whether a next trigger time is set.

### AdminLife

Per process: the step of `main`, the election loop (`Campaign`, `Elected`, `Deposed`), the
callbacks, which run in goroutines of their own (`OnElected`, `OnRevoked`), the workers, the flush
loop and the shutdown in `main`'s order. etcd is external: leases, keys in the order of their
creation, observations that may end by themselves. A process that cannot reach etcd at boot
schedules as a standalone. A restart is another process.

### ExecutorRegistry

Executors register, beat and deregister by requests that may be delayed, lost or served after the
client has given up; each request is the service's sequence of DAO call and store call. Beside
them run the probe round (`ProbeRound`, `ProbeAnswer`, `ProbeOne`, holding pointers that go
stale), the TTL sweep, the row sweep and, after a restart, `Bootstrap` from the rows. Times are
ages, told apart up to `TTL + 1`. `raced` is history: a call of that executor failed, was given up,
or was overtaken by Bootstrap, and nothing is promised until its next clean call.

### RateLimit, Routes, ScriptEngine, Templates, Observer

- `RateLimit`: `CheckJob` by concurrent workers asks job and app limiters, each a bucket that
  refills lazily and a quota of a window; limiters are replaced under a worker that holds one.
- `Routes`: one step per call. The list comes from a map's iteration, so every order of every set
  of addresses may come at every call.
- `ScriptEngine`: configuration, then per run the process, a descendant that keeps the pipe open,
  the copier, the bounded writer, the deadline. Output is a number of bytes.
- `Templates`: the registry's operations are atomic, the service's calls take two of them.
- `Observer`: Start and Stop, notifications that never block, and loops that read the field
  `stopCh` again before every select.

## 3. Runs

| Run | Instance | Shows |
|---|---|---|
| `runner_safety` | 2 duplicates and a third request, 2 log IDs, 1 kill, 2 callers of Stop; TTL outlives exit | exclusive execution, exact running set, both promises of Stop, duplicates' errors, refinement of the ledger |
| `execution_live` | Runner: 2 duplicates, 1 kill, 2 callers of Stop. LogRows: 2 rows, a job that is its own child, 1 cron trigger, 1 report, 1 kill, 1 timer | verdicts are earned, Running rows are watched, Stop returns even if handlers do not, admitted log IDs get settled, retries end |
| `runner_dup_doc` | as `runner_safety` | **violated**: a duplicate of a failing execution is answered nil |
| `wheel_wheel` | slots 3, 2, 2; fire times inside and beyond the span; 2 adds, 1 cancel, capacity 1, jumps of 2 | indexing; never early, late by a bounded time (`FiresOnTime`) |
| `store_store` | 1 ID, 2 callers, 2 entries, 1 update, write failures | no lost update, count and heap (`IndexesAgree`), eventual flush |
| `log_buffer` | 3 records, batches of 2, channel of 1, both DAO kinds | Create behaves as INSERT, Stop flushes, every accepted record is answered |
| `sched_core` | three instances, see below | a running cron job always has a next wheel entry coming, a tick is sent once, BlockDiscard jobs do not overlap, sends happen under the lock |
| `sched_tick_doc` | 2 prompt nodes | **violated**: the same tick is sent by both nodes, one after the other |
| `sched_handover_doc` | 2 prompt nodes | **violated**: the node that loses the lock drops the job for good |
| `job_stop_doc` | 2 callers, 5 calls | **violated**: a stopped job runs again after a flush |
| `admin_life` | 2 processes, 1 observation that ends by itself, crashes, failing boots | contenders never schedule together, shutdown order, takeover |
| `cluster_parts` | see below | one property for each of seven parts |

`sched_core` chooses one of three instances of `Scheduler`. *armed*: one prompt node that
may crash, 2 workers, 1 job with BlockDiscard, so that triggers are also discarded, 1 manual trigger,
a queue of 2, 1 management call other than StartJob, wheel commands in the order of the calls;
`RunningJobIsArmed` and `SameTickOnce` are checked here. It is the instance that `MCSchedulerCases`
extends; the other two are `INSTANCE`s of `Scheduler`. *lock*: 2 nodes that crash and lag, with TTL
and deadline of 1 and a job with BlockDiscard; `DiscardNeverOverlaps` and `DispatchUnderLock`.
*manage*: 2 jobs (cron to 2 addresses, one-shot), every management call, failing calls, a reordering wheel. The types are
checked in all three.

`cluster_parts` takes one part per behaviour: the registry (1 executor with 2 starts, 2 requests
at a time, TTL 2, 1 restart of the admin), the limits (2 workers, a bucket of 2 with a quota of 1 in
2 time units, 2 limiters), the job service (2 callers, 5 calls), the routers (3 addresses in every
order, 4 calls), the script engine (4 configured engines, 5 bytes in chunks of 2), the templates
(2 callers, 2 IDs, 1 name) and the observers (2 starts, 2 callers of Stop, channels of 2).

Why the bounds are enough to be interesting. *Runner*: a race on a log ID needs two duplicates (a
third request of another ID shows that kills and waits do not mix them up), the GC between them,
and two Stops for the compare-and-swap. *LogRows*: two rows let a retry's row and its original be
under way together; rows are used again, so executions are unbounded. *TimeWheel*: the level ticks
are 1, 3 and 6 and the span 12, so that 2 and 14 cover level 0, and the overflow heap followed by
every cascade; time advances to 21, when everything is due. *JobStore*: one ID suffices, because
entries of different IDs meet only in the heap and the flush, where they do not touch each other;
two entries show replacement; the proof covers any number. *LogBuffer*: three records make one
full and one partial batch, with one caller blocked on the channel. *Scheduler*: time 2 lets a
lock expire, a node lag and a second node take the same tick, which the mutants of its properties
confirm; the bounds `MaxTime`, `MaxManual`, `MaxLogs` and `MaxOps` are guards, each reached by the
instances that use the operation. *AdminLife*: a process loses its lease while the other
campaigns, and may win again. *ExecutorRegistry*: two slots let a delayed heartbeat be served
beside a deregistration; two starts let requests of an earlier life arrive in a later one;
executors meet only in the sweeps, which treat each by itself. *Routes*: four calls come back to
the first of three addresses. *Templates*: two IDs let a name be deleted and created again between
the two steps of an update.

Deadlock checking is off in every run: each system stops when its bounds are used up or its Stop
has returned.

The *armed* instance leaves `StartJob` out: it arms the time it finds in the store, which
may be one the job has already been triggered for, so that a tick can be sent twice. It also
assumes `Prompt` and `InOrder`, which the code does not enforce; section 6 says what happens
without them.

**Fairness.** Only what the Go runtime and the libraries give. `Runner`: goroutines that can step
do, timers fire, mutexes are handed on; nothing makes a handler return, so `DrainSettles` states
as its premise that handlers return once cancelled (`Cooperative`), and `StopReturns` needs no
such premise. `LogRows`: timers fire, workers work, a call is accepted or ends at its timeout,
handlers end; `RetriesEnd` has as its premise that failures end (`recovered`). `JobStore`: weak
fairness of the flush goroutine and of operations under way; strong fairness of `FlushJob`, i.e.
the database does not fail for ever. No caller has to call. `LogBuffer`: weak fairness inside
`writeBatch`; strong fairness of each case of the loop's select, which Go resolves at random.
`AdminLife`: the election loop, the callbacks and the shutdown run, and etcd expires the lease of a
process that has gone; nothing makes a session last, a boot succeed or a worker return.

**Mutants.** Every property of a passing run has a mutant of a modelled operation that breaks it
(`mutants` of `PROJECT.json`): a dropped guard, a forgotten cancel, a skipped roll-back.

## 4. Proofs

Every theorem is about any values of the constants that satisfy the assumption it names, and
about `Spec` without fairness. Each module has an inductive invariant `IInv` (or a named
strengthening of the property), a lemma per action or group of actions, and the theorem that
combines them.

`RunnerProofs` is about any finite set of requests, any log IDs, kills and callers of Stop
(`ReqsAssumption`). The properties are not inductive by themselves; the invariant is

    IInv == TypeOK /\ Ownership /\ WgCounts /\ Barrier

- `Ownership`: `OwnersRecord` (from TryAcquire to Complete the table holds the request's own,
  running record: this is what makes two executions of one log ID impossible), `MuHeld` (between
  the two writes of a failing Complete the request holds the mutex and still owns the entry, so
  the GC cannot take it), `FreshRecords` (who has not acquired has no record anywhere) and
  `DupIsKnown` (a duplicate that inspects has a pointer).
- `WgCounts`: the WaitGroup equals the number of goroutines in flight. It gives `wg \in Nat`,
  which no smaller invariant does, and turns `wg = 0` into "no goroutine".
- `Barrier`: whoever waits has closed the set; a clean Stop has seen no goroutine; who rolls back
  was refused by a closed set.

`Initially`, `ShapeStep`, `OwnershipStep` and `CountStep` give `Init => IInv` and its
preservation, one step per action. From it:

| Theorem | States |
|---|---|
| `TypeCorrect` | `Spec => []TypeOK`; the WaitGroup never goes negative (a panic in Go) |
| `ExecutionIsExclusive` | `Spec => []ExecutorOwnsRecord` |
| `CleanStop` | `Spec => []CleanStopIsFinal` |
| `SetIsExact` | `TTLOutlives => (Spec => []RunningIsTracked)`: needs `Tracked`, that a goroutine about to leave the set still owns its record |
| `KillAllIsComplete` | `TTLOutlives => (Spec => []KillAllReachesAll)` |
| `LedgerIsImplemented` | `Spec => ImplementsLedger`: with `Keyed` (a record is filed under its own log ID) each step of Runner is one step of the ledger or leaves it alone |

`DuplicatesAreToldTheTruth` (`Spec => []DuplicateErrorIsRecorded`) follows an error from where it
is met to where it is read: `ErrsAreMet` says that a record has an error only if its own request
has met it, and that a request which found another's record executes nothing.

`TimeWheelProofs` is about a wheel of any number of levels and slots, with any bounds and any
non-empty sets of fire times and IDs (`WheelAssumption`).

| Theorem | States |
|---|---|
| `TypeCorrect` | `Spec => []TypeOK`: every slot a task is put in exists |
| `OneLiveTaskPerID` | `Spec => []LiveIsIndexed`: no ID has two tasks that can still fire, so that a re-added job is not triggered by its old entry too |
| `TasksFireOnTime` | `Spec => []FiresOnTime`: no task fires early, and one inserted ahead of its time is late by at most a tick of its first level and the ticks that were dropped |

The invariant of the second is `Shape /\ LiveIsIndexed`; `Shape` is the part of the type that
matters, and that a task Add has not made has no position. `TickMoves` shows by unfolding the
three stages of a tick (overflow, level 0, cascades) that a tick moves only tasks that are in the
wheel and fires none that is cancelled. `MovesKeep` and `InsertKeeps` then use that a fired task
leaves the index only under its own ID, and that `Insert` cancels the task it displaces.

`FiresOnTime` does need where `Place` puts a task. Its invariant, `OnTime`, counts ticks instead of
reading the clock, because the cursors do: after `T` ticks the cursor of level `k` is
`(T \div LevelTick[k]) % NumSlots(k)` (`CursorsAgree`). Every waiting task has a booking (`Booked`):
a turn of a level, within one round from now, that begins neither before the fire time (on level
0) nor later than the promise (`Last`); a task in the overflow heap is beyond the span. The lemmas
about division and about `LevelTick` (a span divides the next) show that `Place` makes a booking,
that a tick which does not reach a task's turn leaves its booking good, and that a cascade makes a
new one on a lower level, so that no slot is skipped or met a round late. A wheel goroutine stuck
in `TickSelfLock` has stopped half way through a tick: its cursors no longer agree, but it fires
nothing more.

`SchedulerProofs` (`SchedulerAssumption`, at least one job): `SendsAreLocked` is
`Spec => DispatchUnderLock`. The code sends after a lock it took earlier and never looks at it
again; what makes this right is `LockTTL >= Deadline`. The invariant `Shape /\ Locked` says that
between `TryLock` and `ReleaseLock` a worker's deadline is at most `Deadline` away and the lock's
expiry is not before it, so that a lock can only be taken over from a worker whose context has
expired, and such a worker sends no more. `RowSources` shows where a new row can come from: only
`Send` adds one that is Running.

`DiscardIsExclusive` is `Spec => []DiscardNeverOverlaps`, the reason why the lock is held from the
reading of the rows to the writing of the new one. `Alone` says that whoever may still send a
trigger of such a job has one to send and that the job has no running row; two such workers would
both hold the lock (`Locked`), since a context that lives has a lock that lives. The premise
`~Failing` is the property's own: with a failing database the strategy lets a trigger pass.

The other results on the scheduler rest on one chain of invariants, each with the lemmas that
`Next` keeps it. `TypeInv` (`IInv`, `TypeOK`, and that no job_log row has a number beyond their count) gives
`TypeCorrect`. `AheadInv` adds that where time waits for the node, every time about to be put into
the wheel, by a worker or by a management call, still lies ahead (`Ahead`), and what a node has
before its start (`Unstarted`).

| Theorem | States | Hypotheses | Invariant on top |
|---|---|---|---|
| `TypeCorrect`, `CasesKeepTypes` | `Spec => []TypeOK` for any nodes; `CasesTypeOK` of the first instance | `Assumptions` | `TypeInv` |
| `TickIsSentOnce`, `CasesSendOnce` | `Spec => []SameTickOnce`, and `SentOncePerTick` of the run's instance | `Punctual` | `TickInv`: a tick that has left the wheel is past and the job's next entry is later (`Past`); it is a callback, a task in the queue or a worker's task, once, and a row was written for it at most by that worker, for addresses it has done with (`FiredOnce`, `QueuedOnce`, `SentOnce`) |
| `JobsStayArmed`, `CasesStayArmed` | `Spec => []RunningJobIsArmed`, and `ArmedThroughout` of the run's instance | `Undisturbed` | `ArmInv`: no busy worker's context has expired (`NoneLate`), so that a held lock has a worker inside, before its reschedule or with an entry made (`HeldInside`, `Rearmed`); a cancel that no Add follows is about a job that does not run (`Dropped`); a job that fires has no other entry that is due (`OneFiring`), and the queue has room for all that will ask for it before time goes on (`Room`) |

`Punctual`: there is one node, its clock waits until it has caught up, and nobody calls StartJob.
`Undisturbed` adds that no call fails, the wheel serves commands in the order of the calls, and
`QueueCap >= Cardinality(Jobs) + MaxManual`. The code guarantees none of these, and TLC shows why
each is a hypothesis. Two nodes send a tick twice or drop a job (`sched_tick_doc`,
`sched_handover_doc`). A node that lags drops a job whose context expires, and sends a tick twice
when a management call arms the job with a time that has come and gone meanwhile; so does StartJob,
which takes the time from the job's row. A call that fails or a wheel that reorders loses the job
(section 6), and so does a queue of two with two jobs and a manual trigger. Crashes, discarded
triggers, the expiring lock, any number of workers, jobs and addresses, and every other management
call are covered; for `TickIsSentOnce` failing calls, a full queue and a reordering wheel too.

An attempt at the proof showed a defect of the model: `Reschedule` was a CASE with
overlapping guards (a job that is gone and has an expression), whose value TLA+ leaves open; it now
asks first whether the job is still in the store, as the store's update does.

`JobStoreProofs` (`StoreAssumption`): `FlushLosesNothing` is `Spec => []CleanIsStored`. It must be
known that no stale copy is written over a newer row of a clean entry. `Visits` says that a flush
copies a job once and writes all its copies before the next begins, `Replaced` that an entry which
replaces one while it is being copied is dirty, and `Current` that for a clean entry the row is,
or will be after the batch, what the entry has. `TypeCorrect` is `Spec => []TypeOK`.
`IndexesStayInStep` is `Spec => []IndexesAgree`. For the count, `Counted` adds the callers that
have changed the map and not yet the count, so that it holds at every step of any overlap. For the
heap, `Orderly` says that without overlap the one caller under way knows its entry, and that every
entry in the heap is in the map and runs unless that caller is about to mend it.

`LogBufferProofs` (no assumption beyond the module's constants): `CreateIsAnInsert`
(`Spec => []CreatedIsStored`) and `StopLosesNothing` (`Spec => []StopFlushes`). The invariant has
eight parts: the types, that a record is in one place only (caller, channel, batch, table:
`Fresh`, `Apart`), that nobody in the buffer has been told (`Untold`), how far a batch has been
written and told (`Progress`), that who was told nil has its row (`Written`), the ID map
(`Results`) and what `Stop` leaves to be drained (`Closing`).

`LogRowsProofs` (`RowsAssumption`: there are jobs): `VerdictsAreEarned` and
`RunningRowsAreWatched`. The invariant ties the step of a call and of a kill to the executor's
side, so that a late answer or a late kill cannot be of a row that was forgotten and used again.

`AdminLifeProofs` (`LifeAssumption`: the bound is a number): `OneContenderSchedules` (`Spec => []OneScheduler`) rests on the
order of the keys: who is leader, or still has a callback to run, or schedules, was the oldest
while its lease lived; two contenders cannot both be. `ShutdownIsOrdered`
(`Spec => []ShutdownOrder`) follows the shutdown's steps (`Closing`).

`TypeCorrect` needs that the callbacks which wait are finitely many: `Rounds` says that a contender
goes round the election loop only when an observation ends by itself.

`ClusterProofs` is about the parts of `MCCluster`, for any executors, callers, configurations,
addresses and bounds (`ClusterAssumption`, `ControlAssumption` and the assumptions of the parts).
The parts share no state and one of them moves; `PartInv` is the invariant of that one, and each
part has its own:

| Part | Theorems | Invariant |
|---|---|---|
| registry | `LeaversStayOut` (`LeaveIsFinal`), `RoutesFollow` (`RoutesAreLive`) | `ExeInv`: a client waits for one request at a time, and for an executor none of whose calls went astray (`Sound`) table and store are where its process and its one request say. That the dead are dropped rests on the entry being at least as old as the death: no late answer makes it younger |
| limits | `LimitsAreKept` (`LimitsHold`) | `LimitInv`: a bucket has paid out and holds no more than it began with and has earned up to its last refill; the count of a quota is what the current window has granted, and later windows have granted nothing |
| job service | `CallsAreObeyed` (`LastCallHolds`) | `ControlInv`: every record that may be written has a next time if it has an expression (`Timed`), nothing is flushed before the first load (`Unloaded`), and without overlap the one call under way writes the status it has read (`Alone`) |
| routers | `LoadsAreSpread` (`LoadIsSpread`) | `RouteInv`: round robin has given the `i`-th address of a list `counter \div n` turns, one more if `i <= counter % n` (`Turns`); LFU's count is the cardinality of what it has chosen, and no count is ahead by two (`Tally`); LRU's last choices are in the order of their times, so that none repeats within a round (`Trail`) |
| script engine | `ResultsAreTrue` (`ScriptResultHolds`) | `ScriptInv`: what the writer has kept is what has left the pipe, up to the limit, unless a short write has ended the copying |
| templates | `TemplatesStayInStep` (`TemplatesAgree`) | `TplInv`: the property, that no ID beyond the counter is indexed, and that a job about to be created inherits from a version that was |
| observers | `StopsDrain` (`StopDrains`) | `ObsInv`: unless a Start has overtaken a Stop, only the loops of the last Start live, whoever has been released has seen them end, and an event that was there at the close has a loop that will take it |

`TypeCorrect` is `ClusterSpec => []ClusterTypeOK`.

Induction over numbers is out of reach as the library's theorem (it takes an operator as its
parameter). Where a proof needs it, it takes a least counterexample instead: `LeastNat`, from the
library's fact that the finite sets of naturals are well founded by strict inclusion, proves that
`LevelTick` is a function that is positive and grows (`TimeWheelProofs`) and that there is a first
address with the least count (`ClusterProofs`).

Only model-checked: all liveness properties (`StopReturns`, `DrainSettles`, `RetriesEnd`,
`EventuallyStored`, `AcceptedIsSettled`, `Takeover`: fairness is out of the prover's reach), and
`CasesTypeOK` for the instances *lock* and *manage* of `MCSchedulerCases`, whose constants the
module fixes: for them the general statement is `TypeCorrect`.

## 5. Not modelled, and why

Pure I/O, configuration and presentation: `pkg/conf`, `pkg/mysql`, `pkg/es`, `pkg/logger`, the
providers of `pkg/metrics`, `pkg/utils`, `pkg/xerror`, `pkg/paramtpl` (rendering of dates into a
text), `api/` (decoding and error mapping), the user, alarm, statistics and group services (one row
each), the Job SDK, `go-jobs-admin` (Vue). `internal/scheduler/misfire.go` has no caller but its
tests: the scheduler never compares a due time with the clock. Cron expressions are a library's;
the models use "every", "none" and "bad".

Within the modelled parts, the component notes of `PROJECT.json` name what is left out.

## 6. Where code and words disagree

With a run (`findings`):

- `runner_dup_doc`: `Run` reads `rec.State` and `rec.Err` without the table's mutex while
  `Complete` writes one after the other, so the duplicate of a failing job may be told nil.
- `sched_tick_doc`: the lock is released when the dispatch ends, and nothing remembers the tick;
  a second node that comes later sends it again.
- `sched_handover_doc`: a trigger that finds the lock held returns without reschedule.
- `job_stop_doc`: the job service stops a job in the table only; the scheduler's next flush writes
  its own status back.

Seen while modelling and not kept as runs:

- *Scheduler.* `RunningJobIsArmed` also fails without `InOrder` (UpdateJob's cancel overtakes its
  add), with a full worker channel, and when Redis fails in TryLock. A row left Running by a crash
  makes BlockDiscard skip its job from then on.
- *Job store.* With overlapping callers the heap can keep a removed entry or one of a stopped job
  (Add publishes its entry before it pushes it), hence the premise of `IndexesAgree`.
- *Runner.* `StopReturns` is all that holds of the forced phase: after five seconds Stop returns
  although handlers may run on (`internal/executor/job_runner.go:195`).
- *Log buffer.* `Stop` promises that no data is lost, but Create's select may still send when
  `stopCh` is closed, after the goroutine has drained and gone: that record stays in the channel.
- *Log rows.* No row ever gets trigger type "retry", so that `CountRetries` is 0 and the limit of
  `retry_service.go:29` is not enforced: retries end only because a call succeeds. `KillJob` does not
  ask whether the row is Running (`job_service.go:282`). `ReportResult` has no caller in the program.
- *Job control.* Nothing calls the scheduler's AddJob, UpdateJob, StartJob and StopJob: jobs that
  are created or started reach store and wheel with the next `Scheduler.Start`.
- *Admin life.* A second `Scheduler.Stop` panics; a callback's Stop can overtake its Start, and an
  observation that ends leaves a leader with a scheduler that was stopped, or one that goes on
  without leadership; a campaign on a lost lease fails for ever; a standalone that could not reach
  etcd schedules beside the leader; on the election path the shutdown does not stop the scheduler
  before the log buffer. "Only the leader" (`pkg/etcd/etcd.go:63`) holds for contenders only.
- *Registry.* An executor the row sweep has taken offline and that the restarted admin does not load
  keeps getting 200 for its heartbeats, while the store ignores them (`executorstore.go:324`).
- *Rate limits.* The program registers no limiter (`cmd/admin/main.go:151`). The job's token is
  consumed though its quota or the app refuses; a replaced limiter starts afresh.
- *Routes.* The consistent hash and the round-robin counter depend on the order of the list, which is
  a map's: the same job may go to different executors.
- *Script engine.* `disabled` leaves a built-in engine of the type enabled; a descendant that holds
  the pipe keeps a run waiting past its deadline; the bounded writer's short write makes
  `cmd.Run` fail.
- *Templates.* Two concurrent updates lose one; an update drops the group; a batch may use two
  versions of a template; two imports of one name race.
- *Observers.* A Start while a Stop waits can leave loops that never end, or reuse the WaitGroup
  before Wait has returned.

## 7. What is left

In this order: an abstract lock-and-send specification that `Scheduler` implements (what
`SendsAreLocked` and `DiscardIsExclusive` say, as one refinement); an abstract map that `JobStore`
implements for callers that do not overlap. A composition of
`Scheduler` with `JobStore` in place of its atomic store would show that the overlaps that
`IndexesAgree` excludes do no harm to a node that takes its jobs from the wheel, as the scheduler
does, and never calls PopDue.
