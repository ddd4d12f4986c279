----------------------------- MODULE Scheduler ------------------------------
(***************************************************************************)
(* internal/scheduler: how a job that is due becomes executions.  On each  *)
(* scheduler node the wheel entry of a job fires a callback, the callback  *)
(* puts a task in a bounded queue, a worker takes it, acquires the job's   *)
(* Redis lock, applies the limits and the block strategy, writes a job_log *)
(* row and calls the executor, and gives the job its next wheel entry.     *)
(*                                                                         *)
(* pkg/timewheel and pkg/jobstore have modules of their own; here a node's *)
(* wheel holds at most one entry per job that fires at its time or later,  *)
(* and the store's operations are atomic.  A cron expression is "every"    *)
(* (each multiple of Period), "none" (one-shot) or "bad" (unparsable), and *)
(* does not change.  0 is a nil time.                                      *)
(***************************************************************************)
EXTENDS Integers, Sequences, FiniteSets

CONSTANTS
    Nodes,      \* scheduler processes
    Workers,    \* worker goroutines of a node
    Jobs,
    CronOf,     \* CronOf[j]: "every", "none" or "bad"
    Discard,    \* the jobs with BlockDiscard
    Fanout,     \* Fanout[j]: the executors one trigger of j goes to
    Period,
    LockTTL,    \* lockTTL
    Deadline,   \* the timeout of handleTask's context
    QueueCap,   \* the capacity of workerCh
    MaxTime,    \* bound: the clock
    MaxManual,  \* bound: TriggerJob calls
    MaxLogs,    \* bound: job_log rows
    MaxOps,     \* bound: calls of the job management operations
    Ops,        \* the job management operations that are called
    Failing,    \* Redis and database calls may fail
    Crashing,   \* a node may crash
    Prompt,     \* time passes only when the nodes have nothing left to do
    InOrder     \* the wheel serves Add and Cancel in the order they were sent

SchedulerAssumption ==
    /\ Period \in Nat \ {0}
    /\ Deadline \in Nat \ {0} /\ LockTTL \in Nat /\ LockTTL >= Deadline
    /\ QueueCap \in Nat /\ MaxTime \in Nat /\ MaxManual \in Nat
    /\ MaxLogs \in Nat /\ MaxOps \in Nat
    /\ CronOf \in [Jobs -> {"every", "none", "bad"}]
    /\ Fanout \in [Jobs -> Nat]
    /\ Discard \subseteq Jobs
    /\ {Failing, Crashing, Prompt, InOrder} \subseteq BOOLEAN

ASSUME SchedulerAssumption

Time == 0 .. MaxTime + Period
NextTick(t) == (t \div Period + 1) * Period         \* sched.Next
Handlers == Nodes \X Workers

Row == [in : BOOLEAN, run : BOOLEAN, next : Time]   \* in: the job exists
Gone == [in |-> FALSE, run |-> FALSE, next |-> 0]
Task == [job : Jobs, at : Time, manual : BOOLEAN]

VARIABLES
    now,
    mode,     \* mode[n]: off, on, stopping, stopped or crashed
    table,    \* the job_info table
    store,    \* store[n]: the job store of n
    wheel,    \* wheel[n][j]: when the entry "job:j" fires, 0 if there is none
    cancels,  \* cancels[n]: jobs in cancelCh, not served yet
    firing,   \* firing[n]: callbacks started by the wheel
    queue,    \* queue[n]: workerCh
    h,        \* h[<<n, w>>]: the state of worker w of n
    manager,  \* manager[n]: the management call under way on n
    lock,     \* lock[j]: the Redis key of job j
    logs,     \* the job_log rows
    manuals, ops

vars == <<now, mode, table, store, wheel, cancels, firing, queue, h, manager, lock, logs,
          manuals, ops>>

\* What no step of a worker changes.
calmVars == <<now, mode, table, cancels, firing, manager, manuals, ops>>

NoHandler == <<"none", "none">>
Free == [by |-> NoHandler, until |-> 0]
Idle(t) == [pc |-> "idle", task |-> t, due |-> 0, left |-> 0, at |-> 0]
NoTask == [job |-> CHOOSE j \in Jobs : TRUE, at |-> 0, manual |-> FALSE]
NoCall == [pc |-> "idle", job |-> NoTask.job, arm |-> FALSE, at |-> 0]

Held(j) == lock[j].until > now
Expired(i) == h[i].due <= now
JobOf(i) == h[i].task.job
Busy(i) == h[i].pc \notin {"idle", "gone"}

Log == [id : 1 .. MaxLogs, job : Jobs, at : Time, manual : BOOLEAN, by : Handlers,
        shard : Nat, state : {"running", "orphan", "done"}]

TypeOK ==
    /\ now \in 0 .. MaxTime
    /\ mode \in [Nodes -> {"off", "on", "stopping", "stopped", "crashed"}]
    /\ table \in [Jobs -> Row] /\ store \in [Nodes -> [Jobs -> Row]]
    /\ wheel \in [Nodes -> [Jobs -> Time]]
    /\ cancels \in [Nodes -> SUBSET Jobs]
    /\ firing \in [Nodes -> SUBSET (Jobs \X Time)]
    /\ \A n \in Nodes : queue[n] \in Seq(Task) /\ Len(queue[n]) <= QueueCap
    /\ h \in [Handlers -> [pc : {"idle", "gone", "lock", "limit", "block", "send", "resched",
                                 "get", "add", "release"},
                           task : Task, due : Nat, left : Nat, at : Time]]
    /\ manager \in [Nodes -> [pc : {"idle", "cancel", "arm"}, job : Jobs, arm : BOOLEAN,
                           at : Time]]
    /\ lock \in [Jobs -> [by : Handlers \cup {NoHandler}, until : Nat]]
    /\ logs \in SUBSET Log
    /\ \A l, m \in logs : l.id = m.id => l = m
    /\ manuals \in 0 .. MaxManual /\ ops \in 0 .. MaxOps

\* Every job exists, runs and is due at the first tick.
Init ==
    /\ now = 0
    /\ mode = [n \in Nodes |-> "off"]
    /\ table = [j \in Jobs |-> [in |-> TRUE, run |-> TRUE, next |-> NextTick(0)]]
    /\ store = [n \in Nodes |-> [j \in Jobs |-> Gone]]
    /\ wheel = [n \in Nodes |-> [j \in Jobs |-> 0]]
    /\ cancels = [n \in Nodes |-> {}]
    /\ firing = [n \in Nodes |-> {}]
    /\ queue = [n \in Nodes |-> <<>>]
    /\ h = [i \in Handlers |-> Idle(NoTask)]
    /\ manager = [n \in Nodes |-> NoCall]
    /\ lock = [j \in Jobs |-> Free]
    /\ logs = {}
    /\ manuals = 0
    /\ ops = 0
-----------------------------------------------------------------------------
(* The life of a node *)

\* Bootstrap from the table and the first wheel entries; the wheel and the workers run.
Start(n) ==
    /\ mode[n] = "off"
    /\ mode' = [mode EXCEPT ![n] = "on"]
    /\ store' = [store EXCEPT ![n] =
                    [j \in Jobs |-> IF table[j].in /\ table[j].run THEN table[j] ELSE @[j]]]
    /\ wheel' = [wheel EXCEPT ![n] =
                    [j \in Jobs |-> IF table[j].in /\ table[j].run THEN table[j].next ELSE 0]]
    /\ UNCHANGED <<now, table, cancels, firing, queue, h, manager, lock, logs, manuals, ops>>

\* Stop: the wheel fires no more, and the workers are told to leave.
Stop(n) ==
    /\ mode[n] = "on"
    /\ mode' = [mode EXCEPT ![n] = "stopping"]
    /\ UNCHANGED <<now, table, store, wheel, cancels, firing, queue, h, manager, lock, logs,
                   manuals, ops>>

\* The worker's select sees stopCh closed (it may as well see another task).
WorkerExit(i) ==
    /\ mode[i[1]] = "stopping"
    /\ h[i].pc = "idle"
    /\ h' = [h EXCEPT ![i].pc = "gone"]
    /\ mode' = [mode EXCEPT ![i[1]] =
                   IF \A w \in Workers : <<i[1], w>> = i \/ h[<<i[1], w>>].pc = "gone"
                   THEN "stopped" ELSE "stopping"]
    /\ UNCHANGED <<now, table, store, wheel, cancels, firing, queue, manager, lock, logs,
                   manuals, ops>>

\* A crash takes the memory of the node; its lock lasts until it expires and its
\* rows keep the status Running.
Crash(n) ==
    /\ Crashing
    /\ mode[n] \in {"on", "stopping"}
    /\ mode' = [mode EXCEPT ![n] = "crashed"]
    /\ store' = [store EXCEPT ![n] = [j \in Jobs |-> Gone]]
    /\ wheel' = [wheel EXCEPT ![n] = [j \in Jobs |-> 0]]
    /\ cancels' = [cancels EXCEPT ![n] = {}]
    /\ firing' = [firing EXCEPT ![n] = {}]
    /\ queue' = [queue EXCEPT ![n] = <<>>]
    /\ h' = [i \in Handlers |-> IF i[1] = n THEN Idle(NoTask) ELSE h[i]]
    /\ manager' = [manager EXCEPT ![n] = NoCall]
    /\ logs' = {[l EXCEPT !.state = IF l.by[1] = n /\ @ = "running" THEN "orphan" ELSE @] :
                    l \in logs}
    /\ UNCHANGED <<now, table, lock, manuals, ops>>

\* The flush loop saves the row of a job of the store.
Flush(n, j) ==
    /\ mode[n] \in {"on", "stopping", "stopped"}
    /\ store[n][j].in /\ table[j] # store[n][j]
    /\ table' = [table EXCEPT ![j] = store[n][j]]
    /\ UNCHANGED <<now, mode, store, wheel, cancels, firing, queue, h, manager, lock, logs,
                   manuals, ops>>
-----------------------------------------------------------------------------
(* From the wheel to a worker *)

\* Mutant of Fire: the fired entry stays in the wheel.
FireKeeps(n, j) ==
    /\ mode[n] = "on"
    /\ wheel[n][j] # 0 /\ wheel[n][j] <= now
    /\ firing' = [firing EXCEPT ![n] = @ \cup {<<j, wheel[n][j]>>}]
    /\ UNCHANGED <<now, mode, table, store, wheel, cancels, queue, h, manager, lock, logs,
                   manuals, ops>>

\* The wheel fires a due entry and forgets it.
Fire(n, j) ==
    /\ mode[n] = "on"
    /\ wheel[n][j] # 0 /\ wheel[n][j] <= now
    /\ firing' = [firing EXCEPT ![n] = @ \cup {<<j, wheel[n][j]>>}]
    /\ wheel' = [wheel EXCEPT ![n][j] = 0]
    /\ UNCHANGED <<now, mode, table, store, cancels, queue, h, manager, lock, logs, manuals,
                   ops>>

\* The callback runs in a goroutine of its own; when the queue is full the trigger is dropped.
Callback(n, j, t) ==
    /\ <<j, t>> \in firing[n]
    /\ firing' = [firing EXCEPT ![n] = @ \ {<<j, t>>}]
    /\ queue' = IF store[n][j].in /\ store[n][j].run /\ Len(queue[n]) < QueueCap
                THEN [queue EXCEPT ![n] = Append(@, [job |-> j, at |-> t, manual |-> FALSE])]
                ELSE queue
    /\ UNCHANGED <<now, mode, table, store, wheel, cancels, h, manager, lock, logs, manuals,
                   ops>>

TriggerJob(n, j) ==
    /\ mode[n] # "crashed"
    /\ manuals < MaxManual
    /\ manuals' = manuals + 1
    /\ store[n][j].in \/ table[j].in
    /\ Len(queue[n]) < QueueCap
    /\ queue' = [queue EXCEPT ![n] = Append(@, [job |-> j, at |-> now, manual |-> TRUE])]
    /\ UNCHANGED <<now, mode, table, store, wheel, cancels, firing, h, manager, lock, logs, ops>>

\* handleTask starts: the context's deadline is set.
Take(i) ==
    /\ mode[i[1]] \in {"on", "stopping"}
    /\ h[i].pc = "idle"
    /\ queue[i[1]] # <<>>
    /\ h' = [h EXCEPT ![i] = [Idle(Head(queue[i[1]])) EXCEPT !.pc = "lock", !.due = now + Deadline]]
    /\ queue' = [queue EXCEPT ![i[1]] = Tail(@)]
    /\ UNCHANGED <<calmVars, store, wheel, lock, logs>>
-----------------------------------------------------------------------------
(* handleTask *)

Goto(i, label) == h' = [h EXCEPT ![i].pc = label]
Return(i) == h' = [h EXCEPT ![i] = Idle(NoTask)]

TryLock(i) ==
    /\ h[i].pc = "lock"
    /\ ~Expired(i) /\ ~Held(JobOf(i))
    /\ lock' = [lock EXCEPT ![JobOf(i)] = [by |-> i, until |-> now + LockTTL]]
    /\ Goto(i, "limit")
    /\ UNCHANGED <<calmVars, store, wheel, queue, logs>>

\* The lock is held or the call fails: the task ends here.
TryLockFail(i) ==
    /\ h[i].pc = "lock"
    /\ Expired(i) \/ Held(JobOf(i)) \/ Failing
    /\ Return(i)
    /\ UNCHANGED <<calmVars, store, wheel, queue, lock, logs>>

\* Mutant of Limit: a limited trigger returns without reschedule.
LimitReturns(i) ==
    /\ h[i].pc = "limit"
    /\ Goto(i, "block") \/ Goto(i, "release")
    /\ UNCHANGED <<calmVars, store, wheel, queue, lock, logs>>

\* The rate limiter lets the trigger pass, or skips it.
Limit(i) ==
    /\ h[i].pc = "limit"
    /\ Goto(i, "block") \/ Goto(i, "resched")
    /\ UNCHANGED <<calmVars, store, wheel, queue, lock, logs>>

InProgress(j) == \E l \in logs : l.job = j /\ l.state # "done"

\* Mutant of Pass: only the node's own rows count.
PassOwn(i) ==
    /\ h[i].pc = "block"
    /\ JobOf(i) \in Discard =>
          (~ \E l \in logs : l.job = JobOf(i) /\ l.state # "done" /\ l.by[1] = i[1])
          \/ Failing \/ Expired(i)
    /\ h' = [h EXCEPT ![i].pc = "send", ![i].left = Fanout[JobOf(i)]]
    /\ UNCHANGED <<calmVars, store, wheel, queue, lock, logs>>

\* applyBlockStrategy lets the trigger pass: no row of a BlockDiscard job is Running,
\* or the list cannot be read.  An override kill changes no row.
Pass(i) ==
    /\ h[i].pc = "block"
    /\ JobOf(i) \in Discard => ~InProgress(JobOf(i)) \/ Failing \/ Expired(i)
    /\ h' = [h EXCEPT ![i].pc = "send", ![i].left = Fanout[JobOf(i)]]
    /\ UNCHANGED <<calmVars, store, wheel, queue, lock, logs>>

DiscardTrigger(i) ==
    /\ h[i].pc = "block"
    /\ JobOf(i) \in Discard /\ InProgress(JobOf(i)) /\ ~Expired(i)
    /\ Goto(i, "resched")
    /\ UNCHANGED <<calmVars, store, wheel, queue, lock, logs>>

AddLog(i, state) ==
    /\ Cardinality(logs) < MaxLogs
    /\ logs' = logs \cup {[id |-> Cardinality(logs) + 1, job |-> JobOf(i), at |-> h[i].task.at,
                           manual |-> h[i].task.manual, by |-> i, shard |-> h[i].left,
                           state |-> state]}

\* Mutant of Send: the row is written whether or not the context has expired.
SendLate(i) ==
    /\ h[i].pc = "send" /\ h[i].left > 0
    /\ AddLog(i, "running")
    /\ h' = [h EXCEPT ![i].left = @ - 1]
    /\ UNCHANGED <<calmVars, store, wheel, queue, lock>>

\* sendTrigger for one address: the row is written and a goroutine calls the executor.
Send(i) ==
    /\ h[i].pc = "send" /\ h[i].left > 0
    /\ ~Expired(i)
    /\ AddLog(i, "running")
    /\ h' = [h EXCEPT ![i].left = @ - 1]
    /\ UNCHANGED <<calmVars, store, wheel, queue, lock>>

\* The row cannot be written, or is written after the context has expired: no call.
SendFail(i) ==
    /\ h[i].pc = "send" /\ h[i].left > 0
    /\ Failing \/ Expired(i)
    /\ \/ logs' = logs
       \/ Expired(i) /\ AddLog(i, "orphan")
    /\ h' = [h EXCEPT ![i].left = @ - 1]
    /\ UNCHANGED <<calmVars, store, wheel, queue, lock>>

\* All addresses served; or there was none and a failed trigger is recorded.
SendEnd(i) ==
    /\ h[i].pc = "send"
    /\ h[i].left = 0
    /\ Goto(i, "resched")
    /\ UNCHANGED <<calmVars, store, wheel, queue, lock, logs>>

\* Mutant of Reschedule: the next time is computed from the next time, not from now.
RescheduleSkips(i) ==
    /\ h[i].pc = "resched"
    /\ LET n == i[1]
           j == JobOf(i)
       IN  /\ store' = IF store[n][j].in
                       THEN [store EXCEPT ![n][j].next = NextTick(NextTick(now))]
                       ELSE store
           /\ Goto(i, "get")
    /\ UNCHANGED <<calmVars, wheel, queue, lock, logs>>

\* reschedule: a one-shot job is stopped, a bad expression is given up, and a cron job
\* gets its next time if the store has it.
Reschedule(i) ==
    /\ h[i].pc = "resched"
    /\ LET n == i[1]
           j == JobOf(i)
       IN  /\ store' = IF ~store[n][j].in THEN store
                       ELSE CASE CronOf[j] = "none" -> [store EXCEPT ![n][j].run = FALSE]
                              [] CronOf[j] = "every" -> [store EXCEPT ![n][j].next = NextTick(now)]
                              [] OTHER -> store
           /\ Goto(i, IF CronOf[j] = "every" THEN "get" ELSE "release")
    /\ UNCHANGED <<calmVars, wheel, queue, lock, logs>>

\* The fresh copy that decides whether the job gets a new wheel entry.
GetFresh(i) ==
    /\ h[i].pc = "get"
    /\ LET fresh == store[i[1]][JobOf(i)] IN
         h' = [h EXCEPT ![i].pc = IF fresh.in /\ fresh.run THEN "add" ELSE "release",
                        ![i].at = fresh.next]
    /\ UNCHANGED <<calmVars, store, wheel, queue, lock, logs>>

\* scheduleWheel: the new entry replaces the one of the same job.
ScheduleWheel(i) ==
    /\ h[i].pc = "add"
    /\ wheel' = [wheel EXCEPT ![i[1]][JobOf(i)] = h[i].at]
    /\ Goto(i, "release")
    /\ UNCHANGED <<calmVars, store, queue, lock, logs>>

\* The deferred ReleaseLock deletes the key only if it still holds the worker's value.
ReleaseLock(i) ==
    /\ h[i].pc = "release"
    /\ \/ /\ ~Expired(i)
          /\ lock' = IF lock[JobOf(i)].by = i THEN [lock EXCEPT ![JobOf(i)] = Free] ELSE lock
       \/ (Failing \/ Expired(i)) /\ lock' = lock
    /\ Return(i)
    /\ UNCHANGED <<calmVars, store, wheel, queue, logs>>

\* callExecutor has the executor's answer and updates the row; a failed update is ignored.
CallReturns(l) ==
    /\ l.state = "running"
    /\ \/ logs' = (logs \ {l}) \cup {[l EXCEPT !.state = "done"]}
       \/ Failing /\ logs' = (logs \ {l}) \cup {[l EXCEPT !.state = "orphan"]}
    /\ UNCHANGED <<calmVars, store, wheel, queue, h, lock>>
-----------------------------------------------------------------------------
(* Job management on a node.  A call changes the store, then the wheel. *)

Call(n, op, j, row, label, arm) ==
    /\ op \in Ops /\ ops < MaxOps
    /\ ops' = ops + 1
    /\ mode[n] = "on"
    /\ manager[n].pc = "idle"
    /\ store' = [store EXCEPT ![n][j] = row]
    /\ manager' = [manager EXCEPT ![n] = [pc |-> label, job |-> j, arm |-> arm, at |-> row.next]]
    /\ UNCHANGED <<now, mode, table, wheel, cancels, firing, queue, h, lock, logs, manuals>>

\* The job a caller passes: its next time has just been computed.
Fresh(run) == [in |-> TRUE, run |-> run, next |-> NextTick(now)]

AddJob(n, j, run) == Call(n, "add", j, Fresh(run), IF run THEN "arm" ELSE "idle", FALSE)

\* UpdateJob cancels the wheel entry and adds a new one.
UpdateJob(n, j, run) == Call(n, "update", j, Fresh(run), "cancel", run)

RemoveJob(n, j) == Call(n, "remove", j, Gone, "cancel", FALSE)

\* StartJob takes a job that is not in the store from the table.
StartJob(n, j) ==
    LET row == IF store[n][j].in THEN store[n][j] ELSE table[j]
        next == IF row.next = 0 THEN NextTick(now) ELSE row.next
    IN  /\ row.in
        /\ Call(n, "start", j, [row EXCEPT !.run = TRUE, !.next = next], "arm", FALSE)

StopJob(n, j) ==
    /\ store[n][j].in
    /\ Call(n, "stop", j, [store[n][j] EXCEPT !.run = FALSE], "cancel", FALSE)

\* wheel.Cancel sends the ID to cancelCh.
CancelWheel(n) ==
    /\ manager[n].pc = "cancel"
    /\ IF InOrder
       THEN /\ wheel' = [wheel EXCEPT ![n][manager[n].job] = 0]
            /\ UNCHANGED cancels
       ELSE /\ cancels' = [cancels EXCEPT ![n] = @ \cup {manager[n].job}]
            /\ UNCHANGED wheel
    /\ manager' = [manager EXCEPT ![n] = IF @.arm THEN [@ EXCEPT !.pc = "arm"] ELSE NoCall]
    /\ UNCHANGED <<now, mode, table, store, firing, queue, h, lock, logs, manuals, ops>>

\* The wheel serves a cancel: the entry is dropped, whenever it was added.
ServeCancel(n, j) ==
    /\ mode[n] = "on"
    /\ j \in cancels[n]
    /\ cancels' = [cancels EXCEPT ![n] = @ \ {j}]
    /\ wheel' = [wheel EXCEPT ![n][j] = 0]
    /\ UNCHANGED <<now, mode, table, store, firing, queue, h, manager, lock, logs, manuals, ops>>

\* scheduleWheel of the job the caller passed, or that StartJob has read again.
ArmWheel(n) ==
    /\ manager[n].pc = "arm"
    /\ wheel' = [wheel EXCEPT ![n][manager[n].job] = manager[n].at]
    /\ manager' = [manager EXCEPT ![n] = NoCall]
    /\ UNCHANGED <<now, mode, table, store, cancels, firing, queue, h, lock, logs, manuals, ops>>
-----------------------------------------------------------------------------
\* Nothing is left to do at this time on any node.
Quiet ==
    /\ \A i \in Handlers : ~Busy(i)
    /\ \A n \in Nodes :
         /\ firing[n] = {} /\ cancels[n] = {} /\ manager[n].pc = "idle"
         /\ mode[n] = "on" =>
              queue[n] = <<>> /\ \A j \in Jobs : wheel[n][j] = 0 \/ wheel[n][j] > now

Tick ==
    /\ now < MaxTime
    /\ Prompt => Quiet
    /\ now' = now + 1
    /\ UNCHANGED <<mode, table, store, wheel, cancels, firing, queue, h, manager, lock, logs,
                   manuals, ops>>

Handle(i) ==
    \/ Take(i) \/ TryLock(i) \/ TryLockFail(i) \/ Limit(i) \/ Pass(i) \/ DiscardTrigger(i)
    \/ Send(i) \/ SendFail(i) \/ SendEnd(i) \/ Reschedule(i) \/ GetFresh(i)
    \/ ScheduleWheel(i) \/ ReleaseLock(i)

Manage(n, j) ==
    \/ \E run \in BOOLEAN : AddJob(n, j, run) \/ UpdateJob(n, j, run)
    \/ RemoveJob(n, j) \/ StartJob(n, j) \/ StopJob(n, j)

Next ==
    \/ Tick
    \/ \E n \in Nodes :
         \/ Start(n) \/ Stop(n) \/ Crash(n) \/ CancelWheel(n) \/ ArmWheel(n)
         \/ \E j \in Jobs :
              \/ Flush(n, j) \/ Fire(n, j) \/ TriggerJob(n, j) \/ ServeCancel(n, j)
              \/ Manage(n, j)
              \/ \E t \in Time : Callback(n, j, t)
    \/ \E i \in Handlers : Handle(i) \/ WorkerExit(i)
    \/ \E l \in logs : CallReturns(l)

Spec == Init /\ [][Next]_vars
-----------------------------------------------------------------------------
(* Properties *)

\* The Redis lock covers the whole dispatch, although it expires by itself: a trigger
\* is only sent by the worker that holds the job's lock at that moment.
DispatchUnderLock ==
    [][\A l \in logs' :
          l.state = "running" /\ (\A m \in logs : m.id # l.id)
              => lock[l.job].by = l.by /\ Held(l.job)]_vars

\* BlockDiscard: two executions of such a job, sent to one executor, never overlap,
\* on whichever nodes they are triggered.
DiscardNeverOverlaps ==
    ~Failing => \A l, m \in logs :
        l.job \in Discard /\ Fanout[l.job] = 1 /\ l.job = m.job
            /\ l.state = "running" /\ m.state = "running" => l = m

\* Whoever will give job j its next wheel entry on node n: an entry, a callback, a
\* queued task, a worker before its ScheduleWheel, or a management call.
Pursued(n, j) ==
    \/ wheel[n][j] # 0
    \/ \E t \in Time : <<j, t>> \in firing[n]
    \/ \E k \in DOMAIN queue[n] : queue[n][k].job = j
    \/ \E w \in Workers : JobOf(<<n, w>>) = j
                          /\ h[<<n, w>>].pc \notin {"idle", "gone", "release"}
    \/ manager[n].pc = "arm" /\ manager[n].job = j
    \/ manager[n].pc = "cancel" /\ manager[n].arm /\ manager[n].job = j

\* scheduler.go:12-13: the wheel fires at the exact moment a job is due.  So a running cron job
\* of a node that runs always has something that leads to its next firing.
RunningJobIsArmed ==
    \A n \in Nodes, j \in Jobs :
        mode[n] = "on" /\ CronOf[j] = "every" /\ store[n][j].in /\ store[n][j].run
            => Pursued(n, j)

\* scheduler.go:21: the lock prevents duplicate execution: one tick of a job is sent
\* to one executor once.
SameTickOnce ==
    \A l, m \in logs :
        ~l.manual /\ ~m.manual /\ l.job = m.job /\ l.at = m.at /\ l.shard = m.shard => l = m
=============================================================================
