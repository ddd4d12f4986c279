-------------------------- MODULE SchedulerProofs --------------------------
(***************************************************************************)
(* For any nodes, workers, jobs and bounds, with crashes, failing calls    *)
(* and a clock that may run on: a trigger is sent only by the worker that  *)
(* holds the job's Redis lock, because the lock outlives the deadline of   *)
(* the context that the dispatch runs under; a BlockDiscard job runs once  *)
(* at a time; and the state keeps its type.  For one node whose clock      *)
(* waits for it: one tick of a job is sent once, and, when moreover no     *)
(* call fails and the queue has room, a running cron job stays armed.      *)
(***************************************************************************)
EXTENDS MCSchedulerCases, SequenceTheorems, FiniteSetTheorems, TLAPS

Assumptions == SchedulerAssumption /\ Jobs # {}

Tasks == [job : Jobs, at : Int, manual : BOOLEAN]

\* The fields of a worker's state.
IsWorker(r) ==
    r = [pc |-> r.pc, task |-> r.task, due |-> r.due, left |-> r.left, at |-> r.at]

\* The part of the type that the proof needs.
Shape ==
    /\ now \in Nat
    /\ queue \in [Nodes -> Seq(Tasks)]
    /\ lock \in [Jobs -> [by : Handlers \cup {NoHandler}, until : Int]]
    /\ h = [i \in Handlers |-> h[i]]
    /\ \A i \in Handlers : IsWorker(h[i]) /\ h[i].task \in Tasks /\ h[i].due \in Int

\* The steps of handleTask after TryLock.
Inside == {"limit", "block", "send", "resched", "get", "add", "release"}

\* No deadline is further away than Deadline; and until its deadline a worker that has taken
\* the lock holds it.
Locked ==
    /\ \A i \in Handlers : h[i].due <= now + Deadline
    /\ \A i \in Handlers :
          h[i].pc \in Inside /\ h[i].due > now =>
              lock[JobOf(i)].by = i /\ lock[JobOf(i)].until >= h[i].due

IInv == Shape /\ Locked

LEMMA DeadlineIsTime == ASSUME Assumptions PROVE Deadline \in Nat
BY DEF Assumptions, SchedulerAssumption

LEMMA IdleIsWorker ==
    ASSUME NEW t
    PROVE  IsWorker(Idle(t)) /\ Idle(t).pc = "idle" /\ Idle(t).task = t /\ Idle(t).due = 0
BY DEF IsWorker, Idle

LEMMA NoTaskIsTask == ASSUME Assumptions PROVE NoTask \in Tasks
<1>1. (CHOOSE j \in Jobs : TRUE) \in Jobs
  BY DEF Assumptions
<1>2. QED
  BY <1>1 DEF NoTask, Tasks

LEMMA Initially == ASSUME Assumptions, Init PROVE IInv
<1>1. NoTask \in Tasks
  BY NoTaskIsTask
<1>2. \A i \in Handlers : /\ IsWorker(h[i]) /\ h[i].pc = "idle" /\ h[i].task = NoTask
                         /\ h[i].due = 0
  BY IdleIsWorker DEF Init
<1>3. queue \in [Nodes -> Seq(Tasks)]
  BY EmptySeq DEF Init
<1>4. lock \in [Jobs -> [by : Handlers \cup {NoHandler}, until : Int]]
  BY DEF Init, Free
<1>5. now = 0 /\ h = [i \in Handlers |-> h[i]]
  BY DEF Init
<1>6. Shape
  BY <1>1, <1>2, <1>3, <1>4, <1>5 DEF Shape
<1>7. Locked
  BY <1>2, <1>5 DEF Locked, Inside, Assumptions, SchedulerAssumption
<1>8. QED
  BY <1>6, <1>7 DEF IInv

\* A step of worker i that leaves the clock and the locks alone and starts no dispatch.
LEMMA MoveKeeps ==
    ASSUME IInv, NEW i \in Handlers, NEW r, IsWorker(r), r.task \in Tasks,
           h' = [h EXCEPT ![i] = r], now' = now, lock' = lock, queue' \in [Nodes -> Seq(Tasks)],
           r.due \in Int, r.due <= now + Deadline, Deadline \in Nat,
           r.pc \in Inside => h[i].pc \in Inside /\ r.task = h[i].task /\ r.due = h[i].due
    PROVE  IInv'
<1>1. \A k \in Handlers : h'[k] = IF k = i THEN r ELSE h[k]
  BY DEF IInv, Shape
<1>2. Shape'
  BY <1>1 DEF IInv, Shape
<1>3. Locked'
  BY <1>1 DEF IInv, Shape, Locked, JobOf
<1>4. QED
  BY <1>2, <1>3 DEF IInv

\* An update of fields of a worker's state.
LEMMA Updates ==
    ASSUME NEW r, IsWorker(r), NEW p, NEW x
    PROVE  /\ IsWorker([r EXCEPT !.pc = p])
           /\ [r EXCEPT !.pc = p].pc = p /\ [r EXCEPT !.pc = p].due = r.due
           /\ [r EXCEPT !.pc = p].task = r.task
           /\ IsWorker([r EXCEPT !.left = x])
           /\ [r EXCEPT !.left = x].pc = r.pc /\ [r EXCEPT !.left = x].due = r.due
           /\ [r EXCEPT !.left = x].task = r.task
           /\ IsWorker([r EXCEPT !.at = x])
           /\ [r EXCEPT !.at = x].pc = r.pc /\ [r EXCEPT !.at = x].due = r.due
           /\ [r EXCEPT !.at = x].task = r.task
<1> DEFINE s == [pc |-> r.pc, task |-> r.task, due |-> r.due, left |-> r.left, at |-> r.at]
<1>1. r = s
  BY DEF IsWorker
<1>2. [s EXCEPT !.pc = p] = [pc |-> p, task |-> r.task, due |-> r.due, left |-> r.left, at |-> r.at]
  OBVIOUS
<1>3. [s EXCEPT !.left = x] = [pc |-> r.pc, task |-> r.task, due |-> r.due, left |-> x, at |-> r.at]
  OBVIOUS
<1>4. [s EXCEPT !.at = x] = [pc |-> r.pc, task |-> r.task, due |-> r.due, left |-> r.left, at |-> x]
  OBVIOUS
<1> HIDE DEF s
<1>5. QED
  BY <1>1, <1>2, <1>3, <1>4 DEF IsWorker
-----------------------------------------------------------------------------
LEMMA GotoKeeps ==
    ASSUME Assumptions, IInv, NEW i \in Handlers, NEW label, Goto(i, label),
           UNCHANGED <<now, lock, queue>>, label \in Inside => h[i].pc \in Inside
    PROVE  IInv'
<1> DEFINE r == [h[i] EXCEPT !.pc = label]
<1>1. IsWorker(h[i]) /\ h[i].task \in Tasks
  BY DEF IInv, Shape
<1>2. IsWorker(r) /\ r.pc = label /\ r.due = h[i].due /\ r.task = h[i].task
  BY <1>1, Updates
<1>3. h' = [h EXCEPT ![i] = r]
  BY DEF Goto
<1>4. queue' \in [Nodes -> Seq(Tasks)]
  BY DEF IInv, Shape
<1>5. h[i].due \in Int /\ h[i].due <= now + Deadline
  BY DEF IInv, Shape, Locked
<1> HIDE DEF r
<1>6. QED
  BY <1>1, <1>2, <1>3, <1>4, <1>5, DeadlineIsTime, MoveKeeps

LEMMA ReturnKeeps ==
    ASSUME Assumptions, IInv, NEW i \in Handlers, Return(i), UNCHANGED <<now, lock, queue>>
    PROVE  IInv'
<1> DEFINE r == Idle(NoTask)
<1>1. IsWorker(r) /\ r.pc = "idle" /\ r.task \in Tasks /\ r.due = 0
  BY IdleIsWorker, NoTaskIsTask
<1>2. queue' \in [Nodes -> Seq(Tasks)] /\ now \in Nat
  BY DEF IInv, Shape
<1>3. h' = [h EXCEPT ![i] = r]
  BY DEF Return
<1> HIDE DEF r
<1>4. r.pc \notin Inside /\ r.due \in Int /\ r.due <= now + Deadline
  BY <1>1, <1>2, DeadlineIsTime DEF Inside
<1>5. QED
  BY <1>1, <1>2, <1>3, <1>4, DeadlineIsTime, MoveKeeps

LEMMA TakenIsWorker ==
    ASSUME NEW t, NEW d
    PROVE  [Idle(t) EXCEPT !.pc = "lock", !.due = d]
              = [pc |-> "lock", task |-> t, due |-> d, left |-> 0, at |-> 0]
<1>1. Idle(t) = [pc |-> "idle", task |-> t, due |-> 0, left |-> 0, at |-> 0]
  BY DEF Idle
<1>2. [[pc |-> "idle", task |-> t, due |-> 0, left |-> 0, at |-> 0] EXCEPT !.pc = "lock"]
         = [pc |-> "lock", task |-> t, due |-> 0, left |-> 0, at |-> 0]
  OBVIOUS
<1>3. [[pc |-> "lock", task |-> t, due |-> 0, left |-> 0, at |-> 0] EXCEPT !.due = d]
         = [pc |-> "lock", task |-> t, due |-> d, left |-> 0, at |-> 0]
  OBVIOUS
<1>4. QED
  BY <1>1, <1>2, <1>3, Zenon

LEMMA TakeKeeps == ASSUME Assumptions, IInv, NEW i \in Handlers, Take(i) PROVE IInv'
<1> DEFINE t == Head(queue[i[1]])
           r == [Idle(t) EXCEPT !.pc = "lock", !.due = now + Deadline]
<1>1. i[1] \in Nodes
  BY DEF Handlers
<1>2. queue[i[1]] \in Seq(Tasks) /\ queue[i[1]] # <<>>
  BY <1>1 DEF IInv, Shape, Take
<1>3. t \in Tasks /\ Tail(queue[i[1]]) \in Seq(Tasks)
  BY <1>2, HeadTailProperties
<1>4. queue' \in [Nodes -> Seq(Tasks)]
  BY <1>1, <1>3 DEF IInv, Shape, Take
<1>5. h' = [h EXCEPT ![i] = r] /\ UNCHANGED <<now, lock>>
  BY DEF Take, calmVars
<1> HIDE DEF t
<1>6. r = [pc |-> "lock", task |-> t, due |-> now + Deadline, left |-> 0, at |-> 0]
  BY TakenIsWorker
<1> HIDE DEF r
<1>7. IsWorker(r) /\ r.pc = "lock" /\ r.due = now + Deadline /\ r.task = t
  BY <1>6 DEF IsWorker
<1>8. now \in Nat /\ r.due \in Int /\ r.due <= now + Deadline /\ r.pc \notin Inside
  BY <1>7, DeadlineIsTime DEF IInv, Shape, Inside
<1>9. QED
  BY <1>3, <1>4, <1>5, <1>7, <1>8, DeadlineIsTime, MoveKeeps

LEMMA TryLockKeeps == ASSUME Assumptions, IInv, NEW i \in Handlers, TryLock(i) PROVE IInv'
<1> DEFINE r == [h[i] EXCEPT !.pc = "limit"]
           key == [by |-> i, until |-> now + LockTTL]
<1>1. IsWorker(h[i]) /\ h[i].task \in Tasks /\ now \in Nat /\ LockTTL \in Nat
  BY DEF IInv, Shape, Assumptions, SchedulerAssumption
<1>2. IsWorker(r) /\ r.pc = "limit" /\ r.due = h[i].due /\ r.task = h[i].task
  BY <1>1, Updates
<1>3. \A k \in Handlers : h'[k] = IF k = i THEN r ELSE h[k]
  BY DEF TryLock, Goto, IInv, Shape
<1>4. JobOf(i) \in Jobs
  BY <1>1 DEF JobOf, Tasks
<1>5. \A j \in Jobs : lock'[j] = IF j = JobOf(i) THEN key ELSE lock[j]
  BY <1>4 DEF TryLock, IInv, Shape
<1>6. key.by = i /\ key.until = now + LockTTL
  OBVIOUS
<1>7. Shape'
  <2>1. lock' \in [Jobs -> [by : Handlers \cup {NoHandler}, until : Int]]
    <3>1. key \in [by : Handlers \cup {NoHandler}, until : Int]
      BY <1>1
    <3> HIDE DEF key
    <3>2. lock' = [lock EXCEPT ![JobOf(i)] = key]
      BY DEF TryLock, key
    <3>3. QED
      BY <3>1, <3>2 DEF IInv, Shape
  <2>2. h' = [k \in Handlers |-> h'[k]]
    BY DEF TryLock, Goto, IInv, Shape
  <2>3. \A k \in Handlers : IsWorker(h'[k]) /\ h'[k].task \in Tasks /\ h'[k].due \in Int
    BY <1>2, <1>3 DEF IInv, Shape
  <2>4. UNCHANGED <<now, queue>>
    BY DEF TryLock, calmVars
  <2>5. QED
    BY <2>1, <2>2, <2>3, <2>4 DEF IInv, Shape
<1> HIDE DEF r, key
<1>8. now' = now /\ \A k \in Handlers : JobOf(k)' = JobOf(k) /\ h'[k].due = h[k].due
  BY <1>2, <1>3 DEF TryLock, calmVars, JobOf
<1>9. ASSUME NEW k \in Handlers, h'[k].pc \in Inside, h'[k].due > now
      PROVE  lock'[JobOf(k)].by = k /\ lock'[JobOf(k)].until >= h'[k].due
  <2>1. JobOf(k) \in Jobs
    BY DEF JobOf, Tasks, IInv, Shape
  <2>2. CASE k = i
    <3>1. lock'[JobOf(k)] = key /\ h'[k].due = h[k].due
      BY <1>4, <1>5, <1>8, <2>2
    <3>2. h[k].due <= now + Deadline /\ h[k].due \in Int
      BY DEF IInv, Shape, Locked
    <3>3. Deadline \in Int /\ LockTTL \in Int /\ LockTTL >= Deadline
      BY DEF Assumptions, SchedulerAssumption
    <3>4. QED
      BY <1>1, <1>6, <2>2, <3>1, <3>2, <3>3
  <2>3. CASE k # i
    <3>1. lock[JobOf(k)].by = k /\ lock[JobOf(k)].until >= h[k].due /\ h[k].due > now
      BY <1>3, <1>9, <2>3 DEF IInv, Locked
    <3>2. lock[JobOf(k)].until \in Int /\ h[k].due \in Int
      BY <2>1 DEF IInv, Shape
    <3>3. JobOf(k) # JobOf(i)
      BY <1>1, <3>1, <3>2 DEF TryLock, Held
    <3>4. QED
      BY <1>3, <1>5, <2>1, <2>3, <3>1, <3>3
  <2>4. QED
    BY <2>2, <2>3
<1>10. Locked'
  <2>1. \A k \in Handlers : h'[k].due <= now' + Deadline
    BY <1>8 DEF IInv, Locked
  <2>2. QED
    BY <1>8, <1>9, <2>1 DEF Locked
<1>11. QED
  BY <1>7, <1>10 DEF IInv

LEMMA ReleaseKeeps == ASSUME Assumptions, IInv, NEW i \in Handlers, ReleaseLock(i) PROVE IInv'
<1>1. CASE lock' = lock
  BY <1>1, ReturnKeeps DEF ReleaseLock, calmVars
<1>2. CASE lock' # lock
  <2>1. /\ lock[JobOf(i)].by = i /\ lock' = [lock EXCEPT ![JobOf(i)] = Free]
        /\ UNCHANGED <<now, queue>> /\ h' = [h EXCEPT ![i] = Idle(NoTask)]
    BY <1>2 DEF ReleaseLock, calmVars, Return
  <2>2. \A k \in Handlers : h'[k] = IF k = i THEN Idle(NoTask) ELSE h[k]
    BY <2>1 DEF IInv, Shape
  <2>3. /\ IsWorker(Idle(NoTask)) /\ Idle(NoTask).pc = "idle" /\ Idle(NoTask).task \in Tasks
        /\ Idle(NoTask).due = 0
    BY IdleIsWorker, NoTaskIsTask
  <2>4. Shape'
    <3>1. Free \in [by : Handlers \cup {NoHandler}, until : Int]
      BY DEF Free
    <3>2. lock' \in [Jobs -> [by : Handlers \cup {NoHandler}, until : Int]]
      BY <2>1, <3>1 DEF IInv, Shape
    <3>3. h' = [k \in Handlers |-> h'[k]]
      BY <2>1 DEF IInv, Shape
    <3>4. \A k \in Handlers : IsWorker(h'[k]) /\ h'[k].task \in Tasks /\ h'[k].due \in Int
      BY <2>2, <2>3 DEF IInv, Shape
    <3>5. QED
      BY <2>1, <3>2, <3>3, <3>4 DEF IInv, Shape
  <2>5. Locked'
    <3>1. \A k \in Handlers : h'[k].due <= now' + Deadline
      BY <2>1, <2>2, <2>3 DEF IInv, Shape, Locked, Assumptions, SchedulerAssumption
    <3>2. ASSUME NEW k \in Handlers, h'[k].pc \in Inside, h'[k].due > now
          PROVE  lock'[JobOf(k)'].by = k /\ lock'[JobOf(k)'].until >= h'[k].due
      <4>1. k # i /\ h'[k] = h[k]
        BY <2>2, <2>3, <3>2 DEF Inside
      <4>2. lock[JobOf(k)].by = k /\ lock[JobOf(k)].until >= h[k].due
        BY <3>2, <4>1 DEF IInv, Locked
      <4>3. JobOf(k)' = JobOf(k) /\ JobOf(k) # JobOf(i) /\ JobOf(k) \in Jobs
        BY <2>1, <4>1, <4>2 DEF JobOf, IInv, Shape, Tasks
      <4>4. QED
        BY <2>1, <4>1, <4>2, <4>3 DEF IInv, Shape
    <3>3. QED
      BY <2>1, <3>1, <3>2 DEF Locked
  <2>6. QED
    BY <2>4, <2>5 DEF IInv
<1>3. QED
  BY <1>1, <1>2

LEMMA HandleKeeps == ASSUME Assumptions, IInv, NEW i \in Handlers, Handle(i) PROVE IInv'
<1>1. CASE TryLockFail(i)
  BY <1>1, ReturnKeeps DEF TryLockFail, calmVars
<1>2. CASE Limit(i) \/ DiscardTrigger(i) \/ SendEnd(i) \/ ScheduleWheel(i)
  <2>1. PICK label : Goto(i, label)
    BY <1>2 DEF Limit, DiscardTrigger, SendEnd, ScheduleWheel
  <2>2. h[i].pc \in Inside /\ UNCHANGED <<now, lock, queue>>
    BY <1>2 DEF Limit, DiscardTrigger, SendEnd, ScheduleWheel, calmVars, Inside
  <2>3. QED
    BY <2>1, <2>2, GotoKeeps
<1>3. CASE Reschedule(i)
  <2>1. h[i].pc \in Inside /\ UNCHANGED <<now, lock, queue>>
    BY <1>3 DEF Reschedule, calmVars, Inside
  <2>2. PICK label : Goto(i, label)
    BY <1>3 DEF Reschedule
  <2>3. QED
    BY <2>1, <2>2, GotoKeeps
<1>4. ASSUME NEW r, IsWorker(r), r.task = h[i].task, r.due = h[i].due,
             h' = [h EXCEPT ![i] = r], h[i].pc \in Inside, UNCHANGED <<now, lock, queue>>
      PROVE  IInv'
  <2>1. r.task \in Tasks /\ queue' \in [Nodes -> Seq(Tasks)]
    BY <1>4 DEF IInv, Shape
  <2>2. r.due \in Int /\ r.due <= now + Deadline
    BY <1>4 DEF IInv, Shape, Locked
  <2>3. QED
    BY <1>4, <2>1, <2>2, DeadlineIsTime, MoveKeeps
<1>5. IsWorker(h[i])
  BY DEF IInv, Shape
<1>6. CASE Pass(i)
  <2> DEFINE p == [h[i] EXCEPT !.pc = "send"]
             r == [p EXCEPT !.left = Fanout[JobOf(i)]]
  <2>1. IsWorker(p) /\ p.task = h[i].task /\ p.due = h[i].due
    BY <1>5, Updates
  <2>2. h' = [h EXCEPT ![i] = r] /\ h[i].pc \in Inside /\ UNCHANGED <<now, lock, queue>>
    BY <1>6 DEF Pass, calmVars, Inside
  <2> HIDE DEF p
  <2>3. IsWorker(r) /\ r.task = p.task /\ r.due = p.due
    BY <2>1, Updates
  <2> HIDE DEF r
  <2>4. QED
    BY <1>4, <2>1, <2>2, <2>3
<1>7. CASE Send(i) \/ SendFail(i)
  <2> DEFINE r == [h[i] EXCEPT !.left = h[i].left - 1]
  <2>1. IsWorker(r) /\ r.task = h[i].task /\ r.due = h[i].due
    BY <1>5, Updates
  <2>2. h' = [h EXCEPT ![i] = r] /\ h[i].pc \in Inside /\ UNCHANGED <<now, lock, queue>>
    BY <1>7 DEF Send, SendFail, calmVars, Inside
  <2> HIDE DEF r
  <2>3. QED
    BY <1>4, <2>1, <2>2
<1>8. CASE GetFresh(i)
  <2> DEFINE fresh == store[i[1]][JobOf(i)]
             label == IF fresh.in /\ fresh.run THEN "add" ELSE "release"
             p == [h[i] EXCEPT !.pc = label]
             r == [p EXCEPT !.at = fresh.next]
  <2>1. \A x : /\ IsWorker([h[i] EXCEPT !.pc = x]) /\ [h[i] EXCEPT !.pc = x].due = h[i].due
              /\ [h[i] EXCEPT !.pc = x].task = h[i].task
    BY <1>5, Updates
  <2>2. IsWorker(p) /\ p.task = h[i].task /\ p.due = h[i].due
    BY <2>1, Zenon
  <2>3. h' = [h EXCEPT ![i] = r] /\ h[i].pc \in Inside /\ UNCHANGED <<now, lock, queue>>
    BY <1>8 DEF GetFresh, calmVars, Inside
  <2> HIDE DEF p
  <2>4. IsWorker(r) /\ r.task = p.task /\ r.due = p.due
    BY <2>2, Updates
  <2> HIDE DEF r
  <2>5. QED
    BY <1>4, <2>2, <2>3, <2>4
<1>9. QED
  BY <1>1, <1>2, <1>3, <1>6, <1>7, <1>8, TakeKeeps, TryLockKeeps, ReleaseKeeps DEF Handle

LEMMA TickKeeps == ASSUME Assumptions, IInv, Tick PROVE IInv'
<1>1. now' = now + 1 /\ UNCHANGED <<queue, h, lock>>
  BY DEF Tick
<1>2. Shape'
  BY <1>1 DEF IInv, Shape
<1>3. Locked'
  BY <1>1, DeadlineIsTime DEF IInv, Shape, Locked, JobOf
<1>4. QED
  BY <1>2, <1>3 DEF IInv

\* The steps that change the queue or nothing that the invariant reads.
LEMMA QueueKeeps ==
    ASSUME IInv, UNCHANGED <<now, h, lock>>, queue' \in [Nodes -> Seq(Tasks)]
    PROVE  IInv'
<1>1. Shape'
  BY DEF IInv, Shape
<1>2. Locked'
  BY DEF IInv, Locked, JobOf
<1>3. QED
  BY <1>1, <1>2 DEF IInv

LEMMA CrashKeeps == ASSUME Assumptions, IInv, NEW n \in Nodes, Crash(n) PROVE IInv'
<1>1. /\ now' = now /\ lock' = lock /\ queue' = [queue EXCEPT ![n] = <<>>]
      /\ h' = [i \in Handlers |-> IF i[1] = n THEN Idle(NoTask) ELSE h[i]]
  BY DEF Crash
<1>2. IsWorker(Idle(NoTask)) /\ Idle(NoTask).pc = "idle" /\ Idle(NoTask).task \in Tasks
      /\ Idle(NoTask).due = 0
  BY IdleIsWorker, NoTaskIsTask
<1>3. queue' \in [Nodes -> Seq(Tasks)]
  BY <1>1, EmptySeq DEF IInv, Shape
<1>4. \A i \in Handlers : h'[i] = Idle(NoTask) \/ h'[i] = h[i]
  BY <1>1
<1>5. Shape'
  <2>1. h' = [i \in Handlers |-> h'[i]]
    BY <1>1
  <2>2. \A i \in Handlers : IsWorker(h'[i]) /\ h'[i].task \in Tasks /\ h'[i].due \in Int
    <3>1. \A i \in Handlers : IsWorker(h[i]) /\ h[i].task \in Tasks /\ h[i].due \in Int
      BY DEF IInv, Shape
    <3>2. QED
      BY <1>2, <1>4, <3>1
  <2>3. QED
    BY <1>1, <1>3, <2>1, <2>2 DEF IInv, Shape
<1>6. Locked'
  <2>1. \A i \in Handlers : h'[i].due <= now + Deadline
    BY <1>2, <1>4, DeadlineIsTime DEF IInv, Shape, Locked
  <2>2. \A i \in Handlers : h'[i].pc \in Inside => h'[i] = h[i]
    BY <1>2, <1>4 DEF Inside
  <2>3. QED
    BY <1>1, <2>1, <2>2 DEF IInv, Locked, JobOf
<1>7. QED
  BY <1>5, <1>6 DEF IInv

LEMMA EnqueueKeeps ==
    ASSUME IInv, NEW n \in Nodes, NEW task \in Tasks, UNCHANGED <<now, h, lock>>,
           queue' = queue \/ queue' = [queue EXCEPT ![n] = Append(@, task)]
    PROVE  IInv'
<1>1. queue \in [Nodes -> Seq(Tasks)] /\ Append(queue[n], task) \in Seq(Tasks)
  BY DEF IInv, Shape
<1>2. queue' \in [Nodes -> Seq(Tasks)]
  BY <1>1
<1>3. QED
  BY <1>2, QueueKeeps

LEMMA NodeKeeps ==
    ASSUME Assumptions, IInv, NEW n \in Nodes, NEW j \in Jobs,
           \/ Start(n) \/ Stop(n) \/ CancelWheel(n) \/ ArmWheel(n) \/ Flush(n, j) \/ Fire(n, j)
           \/ TriggerJob(n, j) \/ ServeCancel(n, j) \/ Manage(n, j)
           \/ \E t \in Time : Callback(n, j, t)
    PROVE  IInv'
<1>1. queue \in [Nodes -> Seq(Tasks)] /\ now \in Nat
  BY DEF IInv, Shape
<1>2. CASE UNCHANGED <<now, h, lock, queue>>
  BY <1>1, <1>2, QueueKeeps
<1>3. CASE TriggerJob(n, j)
  <2>1. [job |-> j, at |-> now, manual |-> TRUE] \in Tasks
    BY <1>1 DEF Tasks
  <2>2. QED
    BY <1>3, <2>1, EnqueueKeeps DEF TriggerJob
<1>4. ASSUME NEW t \in Time, Callback(n, j, t) PROVE IInv'
  <2>1. [job |-> j, at |-> t, manual |-> FALSE] \in Tasks
    BY DEF Tasks, Time
  <2>2. QED
    BY <1>4, <2>1, EnqueueKeeps DEF Callback
<1>5. CASE Manage(n, j)
  BY <1>2, <1>5 DEF Manage, AddJob, UpdateJob, RemoveJob, StartJob, StopJob, Call
<1>6. CASE Start(n) \/ Stop(n) \/ CancelWheel(n) \/ ArmWheel(n)
  BY <1>2, <1>6 DEF Start, Stop, CancelWheel, ArmWheel
<1>7. CASE Flush(n, j) \/ Fire(n, j) \/ ServeCancel(n, j)
  BY <1>2, <1>7 DEF Flush, Fire, ServeCancel
<1>8. QED
  BY <1>3, <1>4, <1>5, <1>6, <1>7

LEMMA NextKeeps == ASSUME Assumptions, IInv, [Next]_vars PROVE IInv'
<1>1. queue \in [Nodes -> Seq(Tasks)]
  BY DEF IInv, Shape
<1>2. PICK j \in Jobs : TRUE
  BY DEF Assumptions
<1>3. ASSUME NEW i \in Handlers, WorkerExit(i) PROVE IInv'
  BY <1>3, GotoKeeps DEF WorkerExit, Goto, Inside
<1>4. ASSUME NEW l \in logs, CallReturns(l) PROVE IInv'
  BY <1>1, <1>4, QueueKeeps DEF CallReturns, calmVars
<1>5. CASE UNCHANGED vars
  BY <1>1, <1>5, QueueKeeps DEF vars
<1>6. ASSUME NEW n \in Nodes, Start(n) \/ Stop(n) \/ CancelWheel(n) \/ ArmWheel(n) PROVE IInv'
  BY <1>2, <1>6, NodeKeeps
<1>7. ASSUME NEW n \in Nodes, NEW k \in Jobs,
             \/ Flush(n, k) \/ Fire(n, k) \/ TriggerJob(n, k) \/ ServeCancel(n, k) \/ Manage(n, k)
             \/ \E t \in Time : Callback(n, k, t)
      PROVE  IInv'
  BY <1>7, NodeKeeps
<1>8. QED
  BY <1>3, <1>4, <1>5, <1>6, <1>7, TickKeeps, CrashKeeps, HandleKeeps DEF Next

\* The fields of a row.
IsRow(l) ==
    l = [id |-> l.id, job |-> l.job, at |-> l.at, manual |-> l.manual, by |-> l.by,
         shard |-> l.shard, state |-> l.state]

Rows == \A l \in logs : IsRow(l)

LEMMA NewRow ==
    ASSUME NEW i, NEW state, AddLog(i, state), Rows
    PROVE  /\ Rows'
           /\ \A l \in logs' : l \in logs \/ (l.by = i /\ l.job = JobOf(i) /\ l.state = state)
<1> DEFINE new == [id |-> Cardinality(logs) + 1, job |-> JobOf(i), at |-> h[i].task.at,
                   manual |-> h[i].task.manual, by |-> i, shard |-> h[i].left, state |-> state]
<1>1. logs' = logs \cup {new}
  BY DEF AddLog
<1>2. IsRow(new) /\ new.by = i /\ new.job = JobOf(i) /\ new.state = state
  BY DEF IsRow
<1> HIDE DEF new
<1>3. QED
  BY <1>1, <1>2 DEF Rows

LEMMA SettledRow ==
    ASSUME NEW l, IsRow(l), NEW x
    PROVE  /\ IsRow([l EXCEPT !.state = x]) /\ [l EXCEPT !.state = x].id = l.id
           /\ [l EXCEPT !.state = x].state = x
           /\ x = l.state => [l EXCEPT !.state = x] = l
<1> DEFINE r == [id |-> l.id, job |-> l.job, at |-> l.at, manual |-> l.manual, by |-> l.by,
                 shard |-> l.shard, state |-> l.state]
<1>1. l = r
  BY DEF IsRow
<1>2. [r EXCEPT !.state = x] = [id |-> l.id, job |-> l.job, at |-> l.at, manual |-> l.manual,
                               by |-> l.by, shard |-> l.shard, state |-> x]
  OBVIOUS
<1> HIDE DEF r
<1>3. QED
  BY <1>1, <1>2 DEF IsRow

\* Where a row after a step comes from: it was there, perhaps in another state, or was added.
Sources ==
    /\ Rows'
    /\ \A l \in logs' :
          \/ \E m \in logs : m.id = l.id
          \/ l.state = "orphan"
          \/ \E i \in Handlers : Send(i) /\ l.by = i /\ l.job = JobOf(i)

LEMMA RowSources == ASSUME Rows, [Next]_vars PROVE Sources
<1>1. ASSUME NEW i \in Handlers, Send(i) PROVE Sources
  <2>1. AddLog(i, "running")
    BY <1>1 DEF Send
  <2>2. QED
    BY <1>1, <2>1, NewRow DEF Sources
<1>2. CASE UNCHANGED logs
  BY <1>2 DEF Rows, Sources
<1>3. ASSUME NEW i \in Handlers, SendFail(i) PROVE Sources
  <2>1. CASE AddLog(i, "orphan")
    BY <2>1, NewRow DEF Sources
  <2>2. QED
    BY <1>2, <1>3, <2>1 DEF SendFail
<1>4. ASSUME NEW n \in Nodes, Crash(n) PROVE Sources
  <2> DEFINE x(m) == IF m.by[1] = n /\ m.state = "running" THEN "orphan" ELSE m.state
  <2>1. \A l \in logs' : \E m \in logs : l = [m EXCEPT !.state = x(m)]
    BY <1>4 DEF Crash
  <2> HIDE DEF x
  <2>2. ASSUME NEW l \in logs' PROVE IsRow(l) /\ \E m \in logs : m.id = l.id
    <3>1. PICK m \in logs : l = [m EXCEPT !.state = x(m)]
      BY <2>1
    <3>2. QED
      BY <3>1, SettledRow DEF Rows
  <2>3. QED
    BY <2>2 DEF Rows, Sources
<1>5. ASSUME NEW m \in logs, CallReturns(m) PROVE Sources
  <2>1. PICK x : logs' = (logs \ {m}) \cup {[m EXCEPT !.state = x]}
    BY <1>5 DEF CallReturns
  <2>2. ASSUME NEW l \in logs' PROVE IsRow(l) /\ \E k \in logs : k.id = l.id
    <3>1. CASE l \in logs
      BY <3>1 DEF Rows
    <3>2. CASE l = [m EXCEPT !.state = x]
      <4>1. IsRow(m)
        BY DEF Rows
      <4>2. IsRow([m EXCEPT !.state = x]) /\ [m EXCEPT !.state = x].id = m.id
        BY <4>1, SettledRow
      <4>3. QED
        BY <3>2, <4>2, Zenon
    <3>3. QED
      BY <2>1, <3>1, <3>2
  <2>3. QED
    BY <2>2 DEF Rows, Sources
<1>6. ASSUME NEW i \in Handlers, Handle(i) PROVE Sources
  <2>1. CASE Send(i) \/ SendFail(i)
    BY <1>1, <1>3, <2>1
  <2>2. CASE UNCHANGED logs
    BY <1>2, <2>2
  <2>3. QED
    BY <1>6, <2>1, <2>2
       DEF Handle, Take, TryLock, TryLockFail, Limit, Pass, DiscardTrigger, SendEnd, Reschedule,
           GetFresh, ScheduleWheel, ReleaseLock
<1>7. ASSUME NEW n \in Nodes, NEW j \in Jobs, Manage(n, j) PROVE Sources
  BY <1>2, <1>7 DEF Manage, AddJob, UpdateJob, RemoveJob, StartJob, StopJob, Call
<1>8. ASSUME NEW n \in Nodes, Start(n) \/ Stop(n) \/ CancelWheel(n) \/ ArmWheel(n) PROVE Sources
  BY <1>2, <1>8 DEF Start, Stop, CancelWheel, ArmWheel
<1>9. ASSUME NEW n \in Nodes, NEW j \in Jobs,
             \/ Flush(n, j) \/ Fire(n, j) \/ TriggerJob(n, j) \/ ServeCancel(n, j)
             \/ \E t \in Time : Callback(n, j, t)
      PROVE  Sources
  BY <1>2, <1>9 DEF Flush, Fire, TriggerJob, ServeCancel, Callback
<1>10. CASE Tick
  BY <1>2, <1>10 DEF Tick
<1>11. ASSUME NEW i \in Handlers, WorkerExit(i) PROVE Sources
  BY <1>2, <1>11 DEF WorkerExit
<1>12. CASE UNCHANGED vars
  BY <1>2, <1>12 DEF vars
<1>13. CASE Next
  <2>1. CASE Tick
    BY <1>10, <2>1
  <2>2. CASE \E i \in Handlers : Handle(i) \/ WorkerExit(i)
    BY <1>6, <1>11, <2>2
  <2>3. CASE \E m \in logs : CallReturns(m)
    <3>1. PICK m \in logs : CallReturns(m)
      BY <2>3
    <3>2. QED
      BY <1>5, <3>1
  <2>4. ASSUME NEW n \in Nodes,
               Start(n) \/ Stop(n) \/ Crash(n) \/ CancelWheel(n) \/ ArmWheel(n)
        PROVE  Sources
    BY <1>4, <1>8, <2>4
  <2>5. ASSUME NEW n \in Nodes, NEW j \in Jobs,
               \/ Flush(n, j) \/ Fire(n, j) \/ TriggerJob(n, j) \/ ServeCancel(n, j)
               \/ Manage(n, j) \/ \E t \in Time : Callback(n, j, t)
        PROVE  Sources
    <3>1. CASE Manage(n, j)
      BY <1>7, <3>1
    <3>2. CASE \/ Flush(n, j) \/ Fire(n, j) \/ TriggerJob(n, j) \/ ServeCancel(n, j)
               \/ \E t \in Time : Callback(n, j, t)
      BY <1>9, <3>2
    <3>3. QED
      BY <2>5, <3>1, <3>2
  <2>6. QED
    BY <1>13, <2>1, <2>2, <2>3, <2>4, <2>5 DEF Next
<1>14. QED
  BY <1>12, <1>13

\* Whenever a trigger is sent, its worker holds the job's lock at that moment, whatever
\* crashes, fails or lags and however the lock expires.
THEOREM SendsAreLocked == Assumptions => (Spec => DispatchUnderLock)
<1> SUFFICES ASSUME Assumptions PROVE Spec => DispatchUnderLock
  OBVIOUS
<1>1. Init => IInv /\ Rows
  BY Initially DEF Init, Rows
<1>2. IInv /\ Rows /\ [Next]_vars => IInv' /\ Rows'
  BY NextKeeps, RowSources DEF Sources
<1>3. ASSUME IInv, Rows, [Next]_vars, NEW l \in logs', l.state = "running",
             \A m \in logs : m.id # l.id
      PROVE  lock[l.job].by = l.by /\ Held(l.job)
  <2>1. PICK i \in Handlers : Send(i) /\ l.by = i /\ l.job = JobOf(i)
    BY <1>3, RowSources DEF Sources
  <2>2. h[i].pc \in Inside /\ ~(h[i].due <= now)
    BY <2>1 DEF Send, Expired, Inside
  <2>3. h[i].due \in Int /\ now \in Nat /\ lock[JobOf(i)].until \in Int
    BY <1>3 DEF IInv, Shape, JobOf, Tasks
  <2>4. lock[JobOf(i)].by = i /\ lock[JobOf(i)].until > now
    BY <1>3, <2>2, <2>3 DEF IInv, Locked
  <2>5. QED
    BY <2>1, <2>4 DEF Held
<1>4. IInv /\ Rows /\ [Next]_vars =>
         [\A l \in logs' : l.state = "running" /\ (\A m \in logs : m.id # l.id)
             => lock[l.job].by = l.by /\ Held(l.job)]_vars
  BY <1>3
<1>5. QED
  BY <1>1, <1>2, <1>4, PTL DEF Spec, DispatchUnderLock
-----------------------------------------------------------------------------
\* The jobs that BlockDiscard protects: their trigger goes to one executor.
Guarded(j) == j \in Discard /\ Fanout[j] = 1

\* Whoever may still send a trigger of such a job has found no running row of it, and
\* sends one.
Alone ==
    \A i \in Handlers :
        h[i].pc = "send" /\ h[i].due > now /\ Guarded(JobOf(i)) =>
            /\ h[i].left \in Int /\ h[i].left <= 1
            /\ h[i].left > 0 => \A l \in logs : l.job = JobOf(i) => l.state # "running"

\* Where a running row after a step comes from.
RunningSources ==
    \A l \in logs' : l.state = "running" =>
        \/ l \in logs
        \/ \E i \in Handlers : Send(i) /\ l.job = JobOf(i) /\ logs' = logs \cup {l}

LEMMA OldRows == ASSUME logs' \subseteq logs PROVE RunningSources
BY DEF RunningSources

LEMMA SentRow ==
    ASSUME NEW i \in Handlers, Send(i) PROVE RunningSources
<1> DEFINE new == [id |-> Cardinality(logs) + 1, job |-> JobOf(i), at |-> h[i].task.at,
                   manual |-> h[i].task.manual, by |-> i, shard |-> h[i].left,
                   state |-> "running"]
<1>1. logs' = logs \cup {new}
  BY DEF Send, AddLog
<1>2. new.job = JobOf(i)
  OBVIOUS
<1> HIDE DEF new
<1>3. QED
  BY <1>1, <1>2 DEF RunningSources

LEMMA RunningRowSources == ASSUME Rows, [Next]_vars PROVE RunningSources
<1>1. ASSUME NEW i \in Handlers, SendFail(i) PROVE RunningSources
  <2>1. CASE AddLog(i, "orphan")
    <3>1. \A l \in logs' : l \in logs \/ l.state = "orphan"
      BY <2>1, NewRow
    <3>2. QED
      BY <3>1 DEF RunningSources
  <2>2. QED
    BY <1>1, <2>1, OldRows DEF SendFail
<1>2. ASSUME NEW n \in Nodes, Crash(n) PROVE RunningSources
  <2> DEFINE x(m) == IF m.by[1] = n /\ m.state = "running" THEN "orphan" ELSE m.state
  <2>1. \A l \in logs' : \E m \in logs : l = [m EXCEPT !.state = x(m)]
    BY <1>2 DEF Crash
  <2>2. \A m : x(m) = "running" => x(m) = m.state
    OBVIOUS
  <2> HIDE DEF x
  <2>3. ASSUME NEW l \in logs', l.state = "running" PROVE l \in logs
    <3>1. PICK m \in logs : l = [m EXCEPT !.state = x(m)]
      BY <2>1
    <3>2. IsRow(m)
      BY DEF Rows
    <3>3. l.state = x(m) /\ (x(m) = m.state => l = m)
      BY <3>1, <3>2, SettledRow
    <3>4. QED
      BY <2>2, <2>3, <3>3
  <2>4. QED
    BY <2>3 DEF RunningSources
<1>3. ASSUME NEW m \in logs, CallReturns(m) PROVE RunningSources
  <2>1. PICK x \in {"done", "orphan"} : logs' = (logs \ {m}) \cup {[m EXCEPT !.state = x]}
    BY <1>3 DEF CallReturns
  <2>2. IsRow(m)
    BY DEF Rows
  <2>3. [m EXCEPT !.state = x].state = x
    BY <2>2, SettledRow
  <2>4. \A l \in logs' : l.state = "running" => l \in logs
    BY <2>1, <2>3
  <2>5. QED
    BY <2>4 DEF RunningSources
<1>4. ASSUME NEW i \in Handlers, Handle(i) PROVE RunningSources
  <2>1. CASE Send(i) \/ SendFail(i)
    BY <1>1, <2>1, SentRow
  <2>2. CASE UNCHANGED logs
    BY <2>2, OldRows
  <2>3. QED
    BY <1>4, <2>1, <2>2
       DEF Handle, Take, TryLock, TryLockFail, Limit, Pass, DiscardTrigger, SendEnd, Reschedule,
           GetFresh, ScheduleWheel, ReleaseLock
<1>5. ASSUME NEW n \in Nodes, NEW j \in Jobs, Manage(n, j) PROVE RunningSources
  BY <1>5, OldRows DEF Manage, AddJob, UpdateJob, RemoveJob, StartJob, StopJob, Call
<1>6. ASSUME NEW n \in Nodes, Start(n) \/ Stop(n) \/ CancelWheel(n) \/ ArmWheel(n)
      PROVE  RunningSources
  BY <1>6, OldRows DEF Start, Stop, CancelWheel, ArmWheel
<1>7. ASSUME NEW n \in Nodes, NEW j \in Jobs,
             \/ Flush(n, j) \/ Fire(n, j) \/ TriggerJob(n, j) \/ ServeCancel(n, j)
             \/ \E t \in Time : Callback(n, j, t)
      PROVE  RunningSources
  BY <1>7, OldRows DEF Flush, Fire, TriggerJob, ServeCancel, Callback
<1>8. CASE Tick \/ UNCHANGED vars
  BY <1>8, OldRows DEF Tick, vars
<1>9. ASSUME NEW i \in Handlers, WorkerExit(i) PROVE RunningSources
  BY <1>9, OldRows DEF WorkerExit
<1>10. ASSUME NEW n \in Nodes,
              \/ Start(n) \/ Stop(n) \/ Crash(n) \/ CancelWheel(n) \/ ArmWheel(n)
              \/ \E j \in Jobs :
                    \/ Flush(n, j) \/ Fire(n, j) \/ TriggerJob(n, j) \/ ServeCancel(n, j)
                    \/ Manage(n, j)
                    \/ \E t \in Time : Callback(n, j, t)
       PROVE  RunningSources
  <2>1. CASE Crash(n)
    BY <1>2, <2>1
  <2>2. CASE Start(n) \/ Stop(n) \/ CancelWheel(n) \/ ArmWheel(n)
    BY <1>6, <2>2
  <2>3. ASSUME NEW j \in Jobs, Manage(n, j) PROVE RunningSources
    BY <1>5, <2>3
  <2>4. ASSUME NEW j \in Jobs,
               \/ Flush(n, j) \/ Fire(n, j) \/ TriggerJob(n, j) \/ ServeCancel(n, j)
               \/ \E t \in Time : Callback(n, j, t)
        PROVE  RunningSources
    BY <1>7, <2>4
  <2>5. QED
    BY <1>10, <2>1, <2>2, <2>3, <2>4
<1>11. QED
  BY <1>3, <1>4, <1>8, <1>9, <1>10 DEF Next

\* What a worker in its send loop did in the step: it was there before, or has just been let
\* pass by the block strategy.
WasSending(k) ==
    /\ h[k].pc = "send" /\ h'[k].task = h[k].task /\ h'[k].due = h[k].due
    /\ h'[k].left = h[k].left \/ h'[k].left = h[k].left - 1

HasPassed(k) ==
    /\ Pass(k) /\ h'[k].task = h[k].task /\ h'[k].due = h[k].due
    /\ h'[k].left = Fanout[JobOf(k)] /\ logs' = logs

Sending == \A k \in Handlers : h'[k].pc = "send" => WasSending(k) \/ HasPassed(k)

LEMMA LeftUpdates ==
    ASSUME NEW r, IsWorker(r), NEW p, NEW x
    PROVE  [r EXCEPT !.left = x].left = x
<1> DEFINE s == [pc |-> r.pc, task |-> r.task, due |-> r.due, left |-> r.left, at |-> r.at]
<1>1. r = s
  BY DEF IsWorker
<1>2. [s EXCEPT !.left = x].left = x
  OBVIOUS
<1> HIDE DEF s
<1>3. QED
  BY <1>1, <1>2

\* A step of worker i after which it is not in the send loop, or has been there before.
LEMMA OneMoves ==
    ASSUME IInv, NEW i \in Handlers, NEW r, h' = [h EXCEPT ![i] = r],
           r.pc = "send" => WasSending(i) \/ HasPassed(i)
    PROVE  Sending
<1>1. \A k \in Handlers : h'[k] = IF k = i THEN r ELSE h[k]
  BY DEF IInv, Shape
<1>2. QED
  BY <1>1 DEF Sending, WasSending

LEMMA GotoMoves ==
    ASSUME IInv, NEW i \in Handlers, NEW label, label # "send", Goto(i, label)
    PROVE  Sending
<1> DEFINE r == [h[i] EXCEPT !.pc = label]
<1>1. IsWorker(h[i])
  BY DEF IInv, Shape
<1>2. r.pc = label /\ h' = [h EXCEPT ![i] = r]
  BY <1>1, Updates DEF Goto
<1> HIDE DEF r
<1>3. QED
  BY <1>2, OneMoves

LEMMA HandleMoves == ASSUME IInv, NEW i \in Handlers, Handle(i) PROVE Sending
<1>1. IsWorker(h[i]) /\ h = [k \in Handlers |-> h[k]]
  BY DEF IInv, Shape
<1>2. CASE TryLock(i) \/ Limit(i) \/ DiscardTrigger(i) \/ SendEnd(i) \/ Reschedule(i)
             \/ ScheduleWheel(i)
  <2>1. PICK label : label # "send" /\ Goto(i, label)
    BY <1>2 DEF TryLock, Limit, DiscardTrigger, SendEnd, Reschedule, ScheduleWheel
  <2>2. QED
    BY <2>1, GotoMoves
<1>3. CASE TryLockFail(i) \/ ReleaseLock(i)
  <2>1. h' = [h EXCEPT ![i] = Idle(NoTask)]
    BY <1>3 DEF TryLockFail, ReleaseLock, Return
  <2>2. Idle(NoTask).pc = "idle"
    BY IdleIsWorker
  <2>3. QED
    BY <2>1, <2>2, OneMoves
<1>4. CASE Take(i)
  <2> DEFINE t == Head(queue[i[1]])
             r == [Idle(t) EXCEPT !.pc = "lock", !.due = now + Deadline]
  <2>1. h' = [h EXCEPT ![i] = r]
    BY <1>4 DEF Take
  <2> HIDE DEF t
  <2>2. r = [pc |-> "lock", task |-> t, due |-> now + Deadline, left |-> 0, at |-> 0]
    BY TakenIsWorker
  <2>3. r.pc = "lock"
    BY <2>2
  <2> HIDE DEF r
  <2>4. QED
    BY <2>1, <2>3, OneMoves
<1>5. CASE Pass(i)
  <2> DEFINE p == [h[i] EXCEPT !.pc = "send"]
             r == [p EXCEPT !.left = Fanout[JobOf(i)]]
  <2>1. IsWorker(p) /\ p.task = h[i].task /\ p.due = h[i].due
    BY <1>1, Updates
  <2>2. h' = [h EXCEPT ![i] = r] /\ logs' = logs
    BY <1>5 DEF Pass
  <2> HIDE DEF p
  <2>3. r.task = h[i].task /\ r.due = h[i].due /\ r.left = Fanout[JobOf(i)]
    BY <2>1, Updates, LeftUpdates
  <2> HIDE DEF r
  <2>4. h'[i] = r
    BY <1>1, <2>2
  <2>5. HasPassed(i)
    BY <1>5, <2>2, <2>3, <2>4 DEF HasPassed
  <2>6. QED
    BY <2>2, <2>5, OneMoves
<1>6. CASE Send(i) \/ SendFail(i)
  <2> DEFINE r == [h[i] EXCEPT !.left = h[i].left - 1]
  <2>1. r.task = h[i].task /\ r.due = h[i].due /\ r.left = h[i].left - 1
    BY <1>1, Updates, LeftUpdates
  <2>2. h' = [h EXCEPT ![i] = r] /\ h[i].pc = "send"
    BY <1>6 DEF Send, SendFail
  <2> HIDE DEF r
  <2>3. h'[i] = r
    BY <1>1, <2>2
  <2>4. WasSending(i)
    BY <2>1, <2>2, <2>3 DEF WasSending
  <2>5. QED
    BY <2>2, <2>4, OneMoves
<1>7. CASE GetFresh(i)
  <2> DEFINE fresh == store[i[1]][JobOf(i)]
             label == IF fresh.in /\ fresh.run THEN "add" ELSE "release"
             p == [h[i] EXCEPT !.pc = label]
             r == [p EXCEPT !.at = fresh.next]
  <2>1. h' = [h EXCEPT ![i] = r]
    BY <1>7 DEF GetFresh
  <2>2. label # "send"
    OBVIOUS
  <2> HIDE DEF label
  <2>3. IsWorker(p) /\ p.pc = label
    BY <1>1, Updates
  <2> HIDE DEF p
  <2>4. r.pc = p.pc
    BY <2>3, Updates
  <2> HIDE DEF r
  <2>5. QED
    BY <2>1, <2>2, <2>3, <2>4, OneMoves
<1>8. QED
  BY <1>2, <1>3, <1>4, <1>5, <1>6, <1>7 DEF Handle

LEMMA WorkersMove == ASSUME IInv, [Next]_vars PROVE Sending
<1>1. CASE h' = h
  BY <1>1 DEF Sending, WasSending
<1>2. ASSUME NEW i \in Handlers, WorkerExit(i) PROVE Sending
  BY <1>2, GotoMoves DEF WorkerExit, Goto
<1>3. ASSUME NEW n \in Nodes, Crash(n) PROVE Sending
  <2>1. \A k \in Handlers : h'[k] = Idle(NoTask) \/ h'[k] = h[k]
    BY <1>3 DEF Crash
  <2>2. Idle(NoTask).pc = "idle"
    BY IdleIsWorker
  <2>3. QED
    BY <2>1, <2>2 DEF Sending, WasSending
<1>4. CASE Tick \/ UNCHANGED vars \/ \E l \in logs : CallReturns(l)
  BY <1>1, <1>4 DEF Tick, CallReturns, vars
<1>5. ASSUME NEW n \in Nodes, Start(n) \/ Stop(n) \/ CancelWheel(n) \/ ArmWheel(n) PROVE Sending
  BY <1>1, <1>5 DEF Start, Stop, CancelWheel, ArmWheel
<1>6. ASSUME NEW n \in Nodes, NEW j \in Jobs,
             \/ Flush(n, j) \/ Fire(n, j) \/ TriggerJob(n, j) \/ ServeCancel(n, j)
             \/ Manage(n, j) \/ \E t \in Time : Callback(n, j, t)
      PROVE  Sending
  BY <1>1, <1>6 DEF Flush, Fire, TriggerJob, ServeCancel, Callback, Manage, AddJob, UpdateJob,
                    RemoveJob, StartJob, StopJob, Call
<1>7. ASSUME NEW n \in Nodes,
             \/ Start(n) \/ Stop(n) \/ Crash(n) \/ CancelWheel(n) \/ ArmWheel(n)
             \/ \E j \in Jobs :
                   \/ Flush(n, j) \/ Fire(n, j) \/ TriggerJob(n, j) \/ ServeCancel(n, j)
                   \/ Manage(n, j)
                   \/ \E t \in Time : Callback(n, j, t)
      PROVE  Sending
  BY <1>3, <1>5, <1>6, <1>7
<1>8. QED
  BY <1>2, <1>4, <1>7, HandleMoves DEF Next

\* Only Tick moves the clock.
LEMMA ClockStands == ASSUME [Next]_vars PROVE Tick \/ now' = now
<1>1. ASSUME NEW i \in Handlers, Handle(i) PROVE now' = now
  BY <1>1 DEF Handle, Take, TryLock, TryLockFail, Limit, Pass, DiscardTrigger, Send, SendFail,
              SendEnd, Reschedule, GetFresh, ScheduleWheel, ReleaseLock, calmVars
<1>2. ASSUME NEW n \in Nodes, NEW j \in Jobs, Manage(n, j) PROVE now' = now
  BY <1>2 DEF Manage, AddJob, UpdateJob, RemoveJob, StartJob, StopJob, Call
<1>3. ASSUME NEW n \in Nodes,
             \/ Start(n) \/ Stop(n) \/ Crash(n) \/ CancelWheel(n) \/ ArmWheel(n)
             \/ \E j \in Jobs :
                   \/ Flush(n, j) \/ Fire(n, j) \/ TriggerJob(n, j) \/ ServeCancel(n, j)
                   \/ Manage(n, j)
                   \/ \E t \in Time : Callback(n, j, t)
      PROVE  now' = now
  BY <1>2, <1>3 DEF Start, Stop, Crash, CancelWheel, ArmWheel, Flush, Fire, TriggerJob,
                    ServeCancel, Callback
<1>4. ASSUME NEW i \in Handlers, WorkerExit(i) PROVE now' = now
  BY <1>4 DEF WorkerExit
<1>5. ASSUME NEW l \in logs, CallReturns(l) PROVE now' = now
  BY <1>5 DEF CallReturns, calmVars
<1>6. CASE UNCHANGED vars
  BY <1>6 DEF vars
<1>7. QED
  BY <1>1, <1>3, <1>4, <1>5, <1>6 DEF Next

LEMMA AloneStep ==
    ASSUME Assumptions, ~Failing, IInv, Rows, Alone, DiscardNeverOverlaps, [Next]_vars
    PROVE  Alone' /\ DiscardNeverOverlaps'
<1>1. now \in Nat /\ now' \in Nat /\ now <= now'
  <2>1. now \in Nat
    BY DEF IInv, Shape
  <2>2. CASE Tick
    BY <2>1, <2>2 DEF Tick
  <2>3. CASE now' = now
    BY <2>1, <2>3
  <2>4. QED
    BY <2>2, <2>3, ClockStands
<1>2. Sending /\ RunningSources
  BY WorkersMove, RunningRowSources
\* Who may still send after the step.
<1>3. ASSUME NEW k \in Handlers, h'[k].pc = "send", h'[k].due > now', Guarded(JobOf(k)')
      PROVE  /\ JobOf(k)' = JobOf(k) /\ ~Expired(k)
             /\ h[k].pc \in Inside
             /\ h'[k].left \in Int /\ h'[k].left <= 1
             /\ h'[k].left > 0 => \A l \in logs : l.job = JobOf(k) => l.state # "running"
  <2>1. h[k].due \in Int
    BY DEF IInv, Shape
  <2>2. h'[k].task = h[k].task /\ h'[k].due = h[k].due /\ h[k].pc \in Inside
    BY <1>2, <1>3 DEF Sending, WasSending, HasPassed, Pass, Inside
  <2>3. JobOf(k)' = JobOf(k) /\ h[k].due > now /\ ~Expired(k)
    BY <1>1, <1>3, <2>1, <2>2 DEF JobOf, Expired
  <2>4. CASE WasSending(k)
    <3>1. /\ h[k].left \in Int /\ h[k].left <= 1
          /\ h[k].left > 0 => \A l \in logs : l.job = JobOf(k) => l.state # "running"
      BY <1>3, <2>3, <2>4 DEF Alone, WasSending
    <3>2. h'[k].left = h[k].left \/ h'[k].left = h[k].left - 1
      BY <2>4 DEF WasSending
    <3>3. QED
      BY <2>2, <2>3, <3>1, <3>2
  <2>5. CASE HasPassed(k)
    <3>1. ~InProgress(JobOf(k)) /\ h'[k].left = 1
      BY <1>3, <2>3, <2>5 DEF HasPassed, Pass, Guarded
    <3>2. QED
      BY <2>2, <2>3, <3>1 DEF InProgress
  <2>6. QED
    BY <1>2, <1>3, <2>2, <2>3, <2>4, <2>5 DEF Sending
<1>4. CASE \E i \in Handlers : Send(i)
  <2>1. PICK i \in Handlers : Send(i)
    BY <1>4
  <2>2. PICK new : logs' = logs \cup {new} /\ new.job = JobOf(i)
    <3> DEFINE row == [id |-> Cardinality(logs) + 1, job |-> JobOf(i), at |-> h[i].task.at,
                       manual |-> h[i].task.manual, by |-> i, shard |-> h[i].left,
                       state |-> "running"]
    <3>1. logs' = logs \cup {row} /\ row.job = JobOf(i)
      BY <2>1 DEF Send, AddLog
    <3>2. QED
      BY <3>1
  <2>3. /\ h[i].pc = "send" /\ h[i].left > 0 /\ ~Expired(i) /\ now' = now
        /\ h' = [h EXCEPT ![i].left = @ - 1]
    BY <2>1 DEF Send, calmVars
  <2>4. h[i].due \in Int /\ h[i].due > now
    BY <1>1, <2>3 DEF IInv, Shape, Expired
  <2>5. Guarded(JobOf(i)) =>
           /\ h[i].left \in Int /\ h[i].left <= 1
           /\ \A l \in logs : l.job = JobOf(i) => l.state # "running"
    BY <2>3, <2>4 DEF Alone
  <2>6. DiscardNeverOverlaps'
    <3> SUFFICES ASSUME NEW l \in logs', NEW m \in logs', Guarded(l.job), l.job = m.job,
                        l.state = "running", m.state = "running"
                 PROVE  l = m
      BY DEF DiscardNeverOverlaps, Guarded
    <3>1. CASE l.job = JobOf(i)
      BY <2>2, <2>5, <3>1
    <3>2. CASE l.job # JobOf(i)
      BY <2>2, <3>2 DEF DiscardNeverOverlaps, Guarded
    <3>3. QED
      BY <3>1, <3>2
  <2>7. ASSUME NEW k \in Handlers, h'[k].pc = "send", h'[k].due > now', Guarded(JobOf(k)')
        PROVE  /\ h'[k].left \in Int /\ h'[k].left <= 1
               /\ h'[k].left > 0 => \A l \in logs' : l.job = JobOf(k)' => l.state # "running"
    <3>1. CASE k = i
      <4>1. IsWorker(h[i]) /\ h'[i] = [h[i] EXCEPT !.left = h[i].left - 1]
        BY <2>3 DEF IInv, Shape
      <4>2. h'[i].left = h[i].left - 1
        BY <4>1, LeftUpdates
      <4>3. JobOf(i)' = JobOf(i)
        BY <1>3, <2>7, <3>1
      <4>4. QED
        BY <2>5, <2>7, <3>1, <4>2, <4>3
    <3>2. CASE k # i
      <4>1. lock[JobOf(k)].by = k /\ lock[JobOf(i)].by = i
        <5>1. h[k].due > now /\ h[k].pc \in Inside
          BY <1>1, <1>3, <2>7 DEF Expired, IInv, Shape
        <5>2. h[i].pc \in Inside
          BY <2>3 DEF Inside
        <5>3. QED
          BY <2>4, <5>1, <5>2 DEF IInv, Locked
      <4>2. JobOf(k) # JobOf(i) /\ JobOf(k)' = JobOf(k)
        BY <1>3, <2>7, <3>2, <4>1
      <4>3. QED
        BY <1>3, <2>2, <2>7, <4>2
    <3>3. QED
      BY <3>1, <3>2
  <2>8. QED
    BY <2>6, <2>7 DEF Alone
<1>5. CASE ~ \E i \in Handlers : Send(i)
  <2>1. \A l \in logs' : l.state = "running" => l \in logs
    BY <1>2, <1>5 DEF RunningSources
  <2>2. DiscardNeverOverlaps'
    BY <2>1 DEF DiscardNeverOverlaps
  <2>3. Alone'
    BY <1>3, <2>1 DEF Alone
  <2>4. QED
    BY <2>2, <2>3
<1>6. QED
  BY <1>4, <1>5

\* applyBlockStrategy reads the rows and sendTrigger writes one later, on any node; yet no job
\* with BlockDiscard has two executions at once, because the lock that covers both outlives
\* the deadline after which nothing is sent.
THEOREM DiscardIsExclusive == Assumptions => (Spec => []DiscardNeverOverlaps)
<1>1. CASE Failing
  <2>1. DiscardNeverOverlaps
    BY <1>1 DEF DiscardNeverOverlaps
  <2>2. QED
    BY <2>1, PTL
<1>2. CASE ~Failing
  <2> SUFFICES ASSUME Assumptions PROVE Spec => []DiscardNeverOverlaps
    OBVIOUS
  <2> DEFINE Inv == IInv /\ Rows /\ Alone /\ DiscardNeverOverlaps
  <2>1. Init => Inv
    <3>1. \A i \in Handlers : Init => h[i].pc = "idle"
      BY IdleIsWorker DEF Init
    <3>2. QED
      BY <3>1, Initially DEF Init, Rows, Alone, DiscardNeverOverlaps
  <2>2. Inv /\ [Next]_vars => Inv'
    BY <1>2, NextKeeps, RowSources, AloneStep DEF Sources
  <2>3. QED
    BY <2>1, <2>2, PTL DEF Spec
<1>3. QED
  BY <1>1, <1>2
-----------------------------------------------------------------------------
\* The types.

LEMMA TickIsAhead ==
    ASSUME Assumptions, NEW t \in 0 .. MaxTime
    PROVE  NextTick(t) \in Time /\ NextTick(t) > t /\ NextTick(t) # 0
<1>1. t \in Int /\ Period \in Int /\ Period > 0 /\ MaxTime \in Nat
  BY DEF Assumptions, SchedulerAssumption
<1>2. /\ t \div Period \in Int /\ t % Period \in 0 .. Period - 1
      /\ t = Period * (t \div Period) + (t % Period)
  <2>1. t \div Period \in Int /\ t % Period \in 0 .. Period - 1
    BY <1>1
  <2>2. t = Period * (t \div Period) + (t % Period)
    BY <1>1, Z3T(30)
  <2>3. QED
    BY <2>1, <2>2
<1> DEFINE q == t \div Period
           r == t % Period
<1> HIDE DEF q, r
<1>3. q \in Int /\ r \in 0 .. Period - 1 /\ t = Period * q + r /\ NextTick(t) = (q + 1) * Period
  BY <1>2 DEF NextTick, q, r
<1>4. (q + 1) * Period = Period * q + Period /\ Period * q \in Int
  BY <1>1, <1>3
<1>5. NextTick(t) = t - r + Period
  BY <1>1, <1>3, <1>4
<1>6. QED
  BY <1>1, <1>3, <1>5 DEF Time

\* The rows are numbered in the order in which they were written.
Numbered == IsFiniteSet(logs) /\ \A l \in logs : l.id <= Cardinality(logs)

TypeInv == IInv /\ TypeOK /\ Numbered

LEMMA TypedInitially == ASSUME Assumptions, Init PROVE TypeInv
<1>1. IInv
  BY Initially
<1>2. NoTask \in Task /\ NoTask.job \in Jobs
  <2>1. (CHOOSE j \in Jobs : TRUE) \in Jobs
    BY DEF Assumptions
  <2>2. QED
    BY <2>1 DEF NoTask, Task, Time, Assumptions, SchedulerAssumption
<1>3. 0 \in 0 .. MaxTime /\ 0 \in Time /\ NextTick(0) \in Time
  <2>1. 0 \in 0 .. MaxTime
    BY DEF Assumptions, SchedulerAssumption
  <2>2. QED
    BY <2>1, TickIsAhead DEF Time, Assumptions, SchedulerAssumption
<1>4. TypeOK
  <2>1. now \in 0 .. MaxTime /\ manuals \in 0 .. MaxManual /\ ops \in 0 .. MaxOps
    BY DEF Init, Assumptions, SchedulerAssumption
  <2>2. /\ mode \in [Nodes -> {"off", "on", "stopping", "stopped", "crashed"}]
        /\ table \in [Jobs -> Row] /\ store \in [Nodes -> [Jobs -> Row]]
        /\ wheel \in [Nodes -> [Jobs -> Time]] /\ cancels \in [Nodes -> SUBSET Jobs]
        /\ firing \in [Nodes -> SUBSET (Jobs \X Time)]
    BY <1>3 DEF Init, Row, Gone
  <2>3. \A n \in Nodes : queue[n] \in Seq(Task) /\ Len(queue[n]) <= QueueCap
    BY EmptySeq DEF Init, Assumptions, SchedulerAssumption
  <2>4. h \in [Handlers -> [pc : {"idle", "gone", "lock", "limit", "block", "send", "resched",
                                   "get", "add", "release"},
                            task : Task, due : Nat, left : Nat, at : Time]]
    BY <1>2, <1>3 DEF Init, Idle
  <2>5. manager \in [Nodes -> [pc : {"idle", "cancel", "arm"}, job : Jobs, arm : BOOLEAN,
                               at : Time]]
    BY <1>2, <1>3 DEF Init, NoCall
  <2>6. lock \in [Jobs -> [by : Handlers \cup {NoHandler}, until : Nat]] /\ logs = {}
    BY DEF Init, Free
  <2>7. QED
    BY <2>1, <2>2, <2>3, <2>4, <2>5, <2>6 DEF TypeOK
<1>5. Numbered
  BY FS_EmptySet DEF Init, Numbered
<1>6. QED
  BY <1>1, <1>4, <1>5 DEF TypeInv

\* The steps that leave workers, locks, rows and queues alone.
LEMMA NodeTyped ==
    ASSUME Assumptions, TypeInv, NEW n \in Nodes, NEW j \in Jobs,
           \/ Start(n) \/ Stop(n) \/ CancelWheel(n) \/ ArmWheel(n) \/ Flush(n, j) \/ Fire(n, j)
           \/ ServeCancel(n, j) \/ Manage(n, j)
    PROVE  TypeOK' /\ Numbered'
<1>1. CASE UNCHANGED <<queue, h, lock, logs>> /\ now' = now
           /\ mode' \in [Nodes -> {"off", "on", "stopping", "stopped", "crashed"}]
           /\ table' \in [Jobs -> Row] /\ store' \in [Nodes -> [Jobs -> Row]]
           /\ wheel' \in [Nodes -> [Jobs -> Time]] /\ cancels' \in [Nodes -> SUBSET Jobs]
           /\ firing' \in [Nodes -> SUBSET (Jobs \X Time)]
           /\ manager' \in [Nodes -> [pc : {"idle", "cancel", "arm"}, job : Jobs, arm : BOOLEAN,
                                      at : Time]]
           /\ manuals' \in 0 .. MaxManual /\ ops' \in 0 .. MaxOps
  BY <1>1 DEF TypeInv, TypeOK, Numbered
<1>2. CASE Start(n)
  <2>1. \A k \in Jobs : table[k] \in Row /\ table[k].next \in Time /\ store[n][k] \in Row
    BY DEF TypeInv, TypeOK, Row
  <2>2. 0 \in Time
    BY DEF Time, Assumptions, SchedulerAssumption
  <2>3. store' \in [Nodes -> [Jobs -> Row]] /\ wheel' \in [Nodes -> [Jobs -> Time]]
    BY <1>2, <2>1, <2>2 DEF Start, TypeInv, TypeOK
  <2>4. mode' \in [Nodes -> {"off", "on", "stopping", "stopped", "crashed"}]
    BY <1>2 DEF Start, TypeInv, TypeOK
  <2>5. QED
    BY <1>1, <1>2, <2>3, <2>4 DEF Start, TypeInv, TypeOK
<1>3. CASE Stop(n)
  BY <1>1, <1>3 DEF Stop, TypeInv, TypeOK
<1>4. CASE CancelWheel(n)
  <2>1. 0 \in Time
    BY DEF Time, Assumptions, SchedulerAssumption
  <2>2. manager[n] \in [pc : {"idle", "cancel", "arm"}, job : Jobs, arm : BOOLEAN, at : Time]
    BY DEF TypeInv, TypeOK
  <2>3. wheel' \in [Nodes -> [Jobs -> Time]] /\ cancels' \in [Nodes -> SUBSET Jobs]
    <3>1. manager[n].job \in Jobs
      BY <2>2
    <3>2. wheel \in [Nodes -> [Jobs -> Time]] /\ cancels \in [Nodes -> SUBSET Jobs]
      BY DEF TypeInv, TypeOK
    <3>3. CASE InOrder
      BY <1>4, <2>1, <3>2, <3>3 DEF CancelWheel
    <3>4. CASE ~InOrder
      BY <1>4, <3>1, <3>2, <3>4 DEF CancelWheel
    <3>5. QED
      BY <3>3, <3>4
  <2>4. NoCall \in [pc : {"idle", "cancel", "arm"}, job : Jobs, arm : BOOLEAN, at : Time]
    <3>1. (CHOOSE k \in Jobs : TRUE) \in Jobs
      BY DEF Assumptions
    <3>2. QED
      BY <2>1, <3>1 DEF NoCall, NoTask
  <2>5. [manager[n] EXCEPT !.pc = "arm"]
           \in [pc : {"idle", "cancel", "arm"}, job : Jobs, arm : BOOLEAN, at : Time]
    BY <2>2
  <2>6. manager' \in [Nodes -> [pc : {"idle", "cancel", "arm"}, job : Jobs, arm : BOOLEAN,
                                at : Time]]
    BY <1>4, <2>4, <2>5 DEF CancelWheel, TypeInv, TypeOK
  <2>7. QED
    BY <1>1, <1>4, <2>3, <2>6 DEF CancelWheel, TypeInv, TypeOK
<1>5. CASE ArmWheel(n)
  <2>1. manager[n].at \in Time
    BY DEF TypeInv, TypeOK
  <2>2. NoCall \in [pc : {"idle", "cancel", "arm"}, job : Jobs, arm : BOOLEAN, at : Time]
    <3>1. (CHOOSE k \in Jobs : TRUE) \in Jobs /\ 0 \in Time
      BY DEF Assumptions, Time, SchedulerAssumption
    <3>2. QED
      BY <3>1 DEF NoCall, NoTask
  <2>3. QED
    BY <1>1, <1>5, <2>1, <2>2 DEF ArmWheel, TypeInv, TypeOK
<1>6. CASE Flush(n, j)
  BY <1>1, <1>6 DEF Flush, TypeInv, TypeOK
<1>7. CASE Fire(n, j)
  <2>1. 0 \in Time /\ wheel[n][j] \in Time
    BY DEF Time, Assumptions, SchedulerAssumption, TypeInv, TypeOK
  <2>2. QED
    BY <1>1, <1>7, <2>1 DEF Fire, TypeInv, TypeOK
<1>8. CASE ServeCancel(n, j)
  <2>1. 0 \in Time
    BY DEF Time, Assumptions, SchedulerAssumption
  <2>2. QED
    BY <1>1, <1>8, <2>1 DEF ServeCancel, TypeInv, TypeOK
<1>9. ASSUME NEW op, NEW row \in Row, NEW label \in {"idle", "cancel", "arm"},
             NEW arm \in BOOLEAN, Call(n, op, j, row, label, arm)
      PROVE  TypeOK' /\ Numbered'
  <2>1. ops' \in 0 .. MaxOps
    BY <1>9 DEF Call, TypeInv, TypeOK, Assumptions, SchedulerAssumption
  <2>2. row.next \in Time
    BY DEF Row
  <2>3. [pc |-> label, job |-> j, arm |-> arm, at |-> row.next]
           \in [pc : {"idle", "cancel", "arm"}, job : Jobs, arm : BOOLEAN, at : Time]
    BY <2>2
  <2>4. /\ store' \in [Nodes -> [Jobs -> Row]]
        /\ manager' \in [Nodes -> [pc : {"idle", "cancel", "arm"}, job : Jobs, arm : BOOLEAN,
                                   at : Time]]
    BY <1>9, <2>3 DEF Call, TypeInv, TypeOK
  <2>5. QED
    BY <1>1, <1>9, <2>1, <2>4 DEF Call, TypeInv, TypeOK
<1>10. CASE Manage(n, j)
  <2>1. NextTick(now) \in Time
    BY TickIsAhead DEF TypeInv, TypeOK
  <2>2. \A run \in BOOLEAN : Fresh(run) \in Row
    BY <2>1 DEF Fresh, Row
  <2>3. ASSUME NEW run \in BOOLEAN, AddJob(n, j, run) PROVE TypeOK' /\ Numbered'
    BY <1>9, <2>2, <2>3 DEF AddJob
  <2>4. ASSUME NEW run \in BOOLEAN, UpdateJob(n, j, run) PROVE TypeOK' /\ Numbered'
    BY <1>9, <2>2, <2>4 DEF UpdateJob
  <2>5. CASE RemoveJob(n, j)
    <3>1. Gone \in Row
      BY DEF Gone, Row, Time, Assumptions, SchedulerAssumption
    <3>2. QED
      BY <1>9, <2>5, <3>1 DEF RemoveJob
  <2>6. CASE StartJob(n, j)
    <3> DEFINE row == IF store[n][j].in THEN store[n][j] ELSE table[j]
               next == IF row.next = 0 THEN NextTick(now) ELSE row.next
               new == [row EXCEPT !.run = TRUE, !.next = next]
    <3>1. row \in Row
      BY DEF TypeInv, TypeOK
    <3>2. Call(n, "start", j, new, "arm", FALSE)
      BY <2>6 DEF StartJob
    <3> HIDE DEF row
    <3>3. next \in Time
      BY <2>1, <3>1 DEF Row
    <3> HIDE DEF next
    <3>4. new \in Row
      BY <3>1, <3>3 DEF Row
    <3> HIDE DEF new
    <3>5. QED
      BY <1>9, <3>2, <3>4
  <2>7. CASE StopJob(n, j)
    <3>1. store[n][j] \in Row
      BY DEF TypeInv, TypeOK
    <3>2. [store[n][j] EXCEPT !.run = FALSE] \in Row
      BY <3>1 DEF Row
    <3>3. QED
      BY <1>9, <2>7, <3>2 DEF StopJob
  <2>8. QED
    BY <1>10, <2>3, <2>4, <2>5, <2>6, <2>7 DEF Manage
<1>11. QED
  BY <1>2, <1>3, <1>4, <1>5, <1>6, <1>7, <1>8, <1>10

\* A trigger joins the queue.
LEMMA QueueTyped ==
    ASSUME Assumptions, TypeInv, NEW n \in Nodes, NEW j \in Jobs,
           TriggerJob(n, j) \/ \E t \in Time : Callback(n, j, t)
    PROVE  TypeOK' /\ Numbered'
<1>1. ASSUME NEW t \in Task,
             queue' = queue \/ (queue' = [queue EXCEPT ![n] = Append(@, t)]
                                /\ Len(queue[n]) < QueueCap)
      PROVE  \A m \in Nodes : queue'[m] \in Seq(Task) /\ Len(queue'[m]) <= QueueCap
  <2>1. \A m \in Nodes : queue[m] \in Seq(Task) /\ Len(queue[m]) <= QueueCap
    BY DEF TypeInv, TypeOK
  <2>2. CASE queue' = queue
    BY <2>1, <2>2
  <2>3. CASE queue' # queue
    <3>1. \A m \in Nodes : queue'[m] = IF m = n THEN Append(queue[n], t) ELSE queue[m]
      BY <1>1, <2>3 DEF TypeInv, IInv, Shape
    <3>2. Append(queue[n], t) \in Seq(Task) /\ Len(Append(queue[n], t)) = Len(queue[n]) + 1
      BY <2>1, AppendProperties
    <3>3. Len(queue[n]) \in Nat /\ QueueCap \in Nat /\ Len(queue[n]) < QueueCap
      BY <1>1, <2>1, <2>3, LenProperties DEF Assumptions, SchedulerAssumption
    <3>4. Len(Append(queue[n], t)) <= QueueCap
      BY <3>2, <3>3
    <3>5. QED
      BY <2>1, <3>1, <3>2, <3>4
  <2>4. QED
    BY <2>2, <2>3
<1>2. now \in Time
  BY DEF TypeInv, TypeOK, Time, Assumptions, SchedulerAssumption
<1>3. CASE TriggerJob(n, j)
  <2> DEFINE t == [job |-> j, at |-> now, manual |-> TRUE]
  <2>1. t \in Task
    BY <1>2 DEF Task
  <2> HIDE DEF t
  <2>2. \A m \in Nodes : queue'[m] \in Seq(Task) /\ Len(queue'[m]) <= QueueCap
    BY <1>1, <1>3, <2>1 DEF TriggerJob, t
  <2>3. manuals' \in 0 .. MaxManual
    BY <1>3 DEF TriggerJob, TypeInv, TypeOK, Assumptions, SchedulerAssumption
  <2>4. QED
    BY <1>3, <2>2, <2>3 DEF TriggerJob, TypeInv, TypeOK, Numbered
<1>4. ASSUME NEW at \in Time, Callback(n, j, at) PROVE TypeOK' /\ Numbered'
  <2> DEFINE t == [job |-> j, at |-> at, manual |-> FALSE]
  <2>1. t \in Task
    BY DEF Task
  <2> HIDE DEF t
  <2>2. queue' = queue \/ (queue' = [queue EXCEPT ![n] = Append(@, t)]
                           /\ Len(queue[n]) < QueueCap)
    BY <1>4 DEF Callback, t
  <2>3. \A m \in Nodes : queue'[m] \in Seq(Task) /\ Len(queue'[m]) <= QueueCap
    BY <1>1, <2>1, <2>2
  <2>4. firing' \in [Nodes -> SUBSET (Jobs \X Time)]
    BY <1>4 DEF Callback, TypeInv, TypeOK
  <2>5. QED
    BY <1>4, <2>3, <2>4 DEF Callback, TypeInv, TypeOK, Numbered
<1>5. QED
  BY <1>3, <1>4

WorkerStates ==
    [pc : {"idle", "gone", "lock", "limit", "block", "send", "resched", "get", "add", "release"},
     task : Task, due : Nat, left : Nat, at : Time]

LEMMA IdleState == ASSUME Assumptions, NEW t \in Task PROVE Idle(t) \in WorkerStates
<1>1. 0 \in Time
  BY DEF Time, Assumptions, SchedulerAssumption
<1>2. QED
  BY <1>1 DEF Idle, WorkerStates

LEMMA NoTaskTyped == ASSUME Assumptions PROVE NoTask \in Task
<1>1. (CHOOSE j \in Jobs : TRUE) \in Jobs
  BY DEF Assumptions
<1>2. QED
  BY <1>1 DEF NoTask, Task, Time, Assumptions, SchedulerAssumption

\* A step of worker i.
LEMMA WorkerTyped ==
    ASSUME TypeInv, NEW i \in Handlers, NEW r \in WorkerStates, h' = [h EXCEPT ![i] = r],
           UNCHANGED calmVars, store' \in [Nodes -> [Jobs -> Row]],
           wheel' \in [Nodes -> [Jobs -> Time]],
           \A n \in Nodes : queue'[n] \in Seq(Task) /\ Len(queue'[n]) <= QueueCap,
           lock' \in [Jobs -> [by : Handlers \cup {NoHandler}, until : Nat]],
           logs' \in SUBSET Log, \A l, m \in logs' : l.id = m.id => l = m
    PROVE  TypeOK'
<1>1. h' \in [Handlers -> WorkerStates]
  BY DEF TypeInv, TypeOK, WorkerStates
<1>2. QED
  BY <1>1 DEF TypeInv, TypeOK, WorkerStates, calmVars

\* What a step of a worker leaves alone.
LEMMA RestTyped ==
    ASSUME TypeInv
    PROVE  /\ store \in [Nodes -> [Jobs -> Row]] /\ wheel \in [Nodes -> [Jobs -> Time]]
           /\ \A n \in Nodes : queue[n] \in Seq(Task) /\ Len(queue[n]) <= QueueCap
           /\ lock \in [Jobs -> [by : Handlers \cup {NoHandler}, until : Nat]]
           /\ logs \in SUBSET Log /\ \A l, m \in logs : l.id = m.id => l = m
           /\ h \in [Handlers -> WorkerStates]
           /\ now \in 0 .. MaxTime
BY DEF TypeInv, TypeOK, WorkerStates

LEMMA RowAdded ==
    ASSUME Assumptions, TypeInv, NEW i \in Handlers, NEW state \in {"running", "orphan", "done"},
           AddLog(i, state)
    PROVE  logs' \in SUBSET Log /\ (\A l, m \in logs' : l.id = m.id => l = m) /\ Numbered'
<1> DEFINE new == [id |-> Cardinality(logs) + 1, job |-> JobOf(i), at |-> h[i].task.at,
                   manual |-> h[i].task.manual, by |-> i, shard |-> h[i].left, state |-> state]
<1>1. logs' = logs \cup {new} /\ new.id = Cardinality(logs) + 1 /\ Cardinality(logs) < MaxLogs
  BY DEF AddLog
<1>2. IsFiniteSet(logs) /\ Cardinality(logs) \in Nat /\ \A l \in logs : l.id <= Cardinality(logs)
  BY FS_CardinalityType DEF TypeInv, Numbered
<1>3. new \in Log
  <2>1. h[i] \in WorkerStates
    BY RestTyped
  <2>2. h[i].task \in Task /\ h[i].left \in Nat
    BY <2>1 DEF WorkerStates
  <2>3. JobOf(i) \in Jobs /\ h[i].task.at \in Time /\ h[i].task.manual \in BOOLEAN
    BY <2>2 DEF Task, JobOf
  <2>4. Cardinality(logs) + 1 \in 1 .. MaxLogs
    BY <1>1, <1>2 DEF Assumptions, SchedulerAssumption
  <2>5. QED
    BY <2>2, <2>3, <2>4 DEF Log
<1> HIDE DEF new
<1>4. \A l \in logs : l \in Log /\ l.id \in Int
  BY RestTyped DEF Log
<1>5. new \notin logs
  BY <1>1, <1>2, <1>4
<1>6. IsFiniteSet(logs') /\ Cardinality(logs') = Cardinality(logs) + 1
  BY <1>1, <1>2, <1>5, FS_AddElement
<1>7. Numbered'
  <2>1. \A l \in logs : l.id <= Cardinality(logs) + 1
    BY <1>2, <1>4
  <2>2. \A l \in logs' : l.id <= Cardinality(logs) + 1
    BY <1>1, <1>2, <2>1
  <2>3. QED
    BY <1>6, <2>2 DEF Numbered
<1>8. \A l, m \in logs' : l.id = m.id => l = m
  BY <1>1, <1>2, <1>4, RestTyped
<1>9. QED
  BY <1>1, <1>3, <1>7, <1>8, RestTyped

LEMMA SameRows ==
    ASSUME TypeInv, logs' = logs
    PROVE  logs' \in SUBSET Log /\ (\A l, m \in logs' : l.id = m.id => l = m) /\ Numbered'
BY RestTyped DEF TypeInv, Numbered

LEMMA GotoTyped ==
    ASSUME Assumptions, TypeInv, NEW i \in Handlers, NEW label, Goto(i, label),
           label \in {"idle", "gone", "lock", "limit", "block", "send", "resched", "get", "add",
                      "release"}
    PROVE  \E r \in WorkerStates : h' = [h EXCEPT ![i] = r]
<1>1. h[i] \in WorkerStates
  BY RestTyped
<1>2. [h[i] EXCEPT !.pc = label] \in WorkerStates
  BY <1>1 DEF WorkerStates
<1>3. h' = [h EXCEPT ![i] = [h[i] EXCEPT !.pc = label]]
  BY DEF Goto
<1>4. QED
  BY <1>2, <1>3

LEMMA HandleTyped ==
    ASSUME Assumptions, TypeInv, NEW i \in Handlers, Handle(i)
    PROVE  TypeOK' /\ Numbered'
<1>1. h[i] \in WorkerStates /\ h[i].task \in Task /\ JobOf(i) \in Jobs /\ i[1] \in Nodes
  BY RestTyped DEF WorkerStates, Task, JobOf, Handlers
<1>2. ASSUME UNCHANGED <<calmVars, store, wheel, queue, lock, logs>>,
             \E r \in WorkerStates : h' = [h EXCEPT ![i] = r]
      PROVE  TypeOK' /\ Numbered'
  <2>1. PICK r \in WorkerStates : h' = [h EXCEPT ![i] = r]
    BY <1>2
  <2>2. QED
    BY <1>2, <2>1, WorkerTyped, RestTyped, SameRows
<1>3. CASE Take(i)
  <2> DEFINE t == Head(queue[i[1]])
             r == [Idle(t) EXCEPT !.pc = "lock", !.due = now + Deadline]
  <2>1. queue[i[1]] \in Seq(Task) /\ queue[i[1]] # <<>> /\ Len(queue[i[1]]) <= QueueCap
    BY <1>1, <1>3, RestTyped DEF Take
  <2>2. t \in Task /\ Tail(queue[i[1]]) \in Seq(Task)
        /\ Len(Tail(queue[i[1]])) = Len(queue[i[1]]) - 1 /\ Len(queue[i[1]]) \in Nat
    BY <2>1, HeadTailProperties, LenProperties
  <2>3. \A n \in Nodes : queue'[n] = IF n = i[1] THEN Tail(queue[i[1]]) ELSE queue[n]
    BY <1>1, <1>3 DEF Take, TypeInv, IInv, Shape
  <2>4. Len(Tail(queue[i[1]])) <= QueueCap
    BY <2>1, <2>2 DEF Assumptions, SchedulerAssumption
  <2>5. \A n \in Nodes : queue'[n] \in Seq(Task) /\ Len(queue'[n]) <= QueueCap
    BY <2>2, <2>3, <2>4, RestTyped
  <2>6. h' = [h EXCEPT ![i] = r] /\ UNCHANGED <<calmVars, store, wheel, lock, logs>>
    BY <1>3 DEF Take
  <2> HIDE DEF t
  <2>7. r = [pc |-> "lock", task |-> t, due |-> now + Deadline, left |-> 0, at |-> 0]
    BY TakenIsWorker
  <2> HIDE DEF r
  <2>8. r \in WorkerStates
    <3>1. now + Deadline \in Nat /\ 0 \in Time
      BY RestTyped, DeadlineIsTime DEF Time, Assumptions, SchedulerAssumption
    <3>2. QED
      BY <2>2, <2>7, <3>1 DEF WorkerStates
  <2>9. QED
    BY <2>5, <2>6, <2>8, WorkerTyped, RestTyped, SameRows
<1>4. ASSUME NEW label \in {"idle", "gone", "lock", "limit", "block", "send", "resched", "get",
                            "add", "release"}, Goto(i, label)
      PROVE  \E r \in WorkerStates : h' = [h EXCEPT ![i] = r]
  BY <1>4, GotoTyped
<1>5. ASSUME Return(i) PROVE \E r \in WorkerStates : h' = [h EXCEPT ![i] = r]
  BY <1>5, IdleState, NoTaskTyped DEF Return
<1>6. CASE TryLock(i)
  <2> DEFINE key == [by |-> i, until |-> now + LockTTL]
  <2>1. key \in [by : Handlers \cup {NoHandler}, until : Nat]
    BY RestTyped DEF Assumptions, SchedulerAssumption
  <2> HIDE DEF key
  <2>2. lock' = [lock EXCEPT ![JobOf(i)] = key]
    BY <1>6 DEF TryLock, key
  <2>3. lock' \in [Jobs -> [by : Handlers \cup {NoHandler}, until : Nat]]
    BY <1>1, <2>1, <2>2, RestTyped
  <2>4. PICK r \in WorkerStates : h' = [h EXCEPT ![i] = r]
    BY <1>4, <1>6 DEF TryLock
  <2>5. QED
    BY <1>6, <2>3, <2>4, WorkerTyped, RestTyped, SameRows DEF TryLock
<1>7. CASE TryLockFail(i)
  BY <1>2, <1>5, <1>7 DEF TryLockFail
<1>8. CASE Limit(i) \/ DiscardTrigger(i) \/ SendEnd(i)
  BY <1>2, <1>4, <1>8 DEF Limit, DiscardTrigger, SendEnd
<1>9. CASE Pass(i)
  <2> DEFINE p == [h[i] EXCEPT !.pc = "send"]
             r == [p EXCEPT !.left = Fanout[JobOf(i)]]
  <2>1. Fanout[JobOf(i)] \in Nat
    BY <1>1 DEF Assumptions, SchedulerAssumption
  <2>2. p \in WorkerStates
    BY <1>1 DEF WorkerStates
  <2>3. h' = [h EXCEPT ![i] = r]
    BY <1>9 DEF Pass
  <2> HIDE DEF p
  <2>4. r \in WorkerStates
    BY <2>1, <2>2 DEF WorkerStates
  <2>5. QED
    BY <1>2, <1>9, <2>3, <2>4 DEF Pass
<1>10. CASE Send(i) \/ SendFail(i)
  <2> DEFINE r == [h[i] EXCEPT !.left = h[i].left - 1]
  <2>1. h[i].left \in Nat /\ h[i].left > 0
    BY <1>1, <1>10 DEF WorkerStates, Send, SendFail
  <2>2. r \in WorkerStates
    BY <1>1, <2>1 DEF WorkerStates
  <2>3. h' = [h EXCEPT ![i] = r] /\ UNCHANGED <<calmVars, store, wheel, queue, lock>>
    BY <1>10 DEF Send, SendFail
  <2> HIDE DEF r
  <2>4. logs' \in SUBSET Log /\ (\A l, m \in logs' : l.id = m.id => l = m) /\ Numbered'
    BY <1>10, RowAdded, SameRows DEF Send, SendFail
  <2>5. QED
    BY <2>2, <2>3, <2>4, WorkerTyped, RestTyped
<1>11. CASE Reschedule(i)
  <2>1. NextTick(now) \in Time
    BY TickIsAhead, RestTyped
  <2>2. CronOf[JobOf(i)] \in {"every", "none", "bad"}
    BY <1>1 DEF Assumptions, SchedulerAssumption
  <2>3. store' \in [Nodes -> [Jobs -> Row]]
    <3>1. store \in [Nodes -> [Jobs -> Row]] /\ store[i[1]][JobOf(i)] \in Row
      BY <1>1, RestTyped
    <3> DEFINE a == [store[i[1]][JobOf(i)] EXCEPT !.run = FALSE]
               b == [store[i[1]][JobOf(i)] EXCEPT !.next = NextTick(now)]
    <3>2. a \in Row /\ b \in Row
      BY <2>1, <3>1 DEF Row
    <3>3. \/ store' = store
          \/ store' = [store EXCEPT ![i[1]][JobOf(i)] = a]
          \/ store' = [store EXCEPT ![i[1]][JobOf(i)] = b]
      BY <1>11, <2>2 DEF Reschedule
    <3> HIDE DEF a, b
    <3>4. QED
      BY <1>1, <3>1, <3>2, <3>3
  <2>4. PICK r \in WorkerStates : h' = [h EXCEPT ![i] = r]
    BY <1>4, <1>11 DEF Reschedule
  <2>5. QED
    BY <1>11, <2>3, <2>4, WorkerTyped, RestTyped, SameRows DEF Reschedule
<1>12. CASE GetFresh(i)
  <2> DEFINE fresh == store[i[1]][JobOf(i)]
             label == IF fresh.in /\ fresh.run THEN "add" ELSE "release"
             p == [h[i] EXCEPT !.pc = label]
             r == [p EXCEPT !.at = fresh.next]
  <2>1. fresh.next \in Time
    BY <1>1, RestTyped DEF Row
  <2>2. h' = [h EXCEPT ![i] = r]
    BY <1>12 DEF GetFresh
  <2>3. label \in {"add", "release"}
    OBVIOUS
  <2> HIDE DEF fresh, label
  <2>4. p \in WorkerStates
    BY <1>1, <2>3 DEF WorkerStates
  <2> HIDE DEF p
  <2>5. r \in WorkerStates
    BY <2>1, <2>4 DEF WorkerStates
  <2> HIDE DEF r
  <2>6. QED
    BY <1>2, <1>12, <2>2, <2>5 DEF GetFresh
<1>13. CASE ScheduleWheel(i)
  <2>1. h[i].at \in Time
    BY <1>1 DEF WorkerStates
  <2>2. wheel' \in [Nodes -> [Jobs -> Time]]
    BY <1>1, <1>13, <2>1, RestTyped DEF ScheduleWheel
  <2>3. PICK r \in WorkerStates : h' = [h EXCEPT ![i] = r]
    BY <1>4, <1>13 DEF ScheduleWheel
  <2>4. QED
    BY <1>13, <2>2, <2>3, WorkerTyped, RestTyped, SameRows DEF ScheduleWheel
<1>14. CASE ReleaseLock(i)
  <2>1. Free \in [by : Handlers \cup {NoHandler}, until : Nat]
    BY DEF Free
  <2>2. lock' \in [Jobs -> [by : Handlers \cup {NoHandler}, until : Nat]]
    BY <1>1, <1>14, <2>1, RestTyped DEF ReleaseLock
  <2>3. PICK r \in WorkerStates : h' = [h EXCEPT ![i] = r]
    BY <1>5, <1>14 DEF ReleaseLock
  <2>4. QED
    BY <1>14, <2>2, <2>3, WorkerTyped, RestTyped, SameRows DEF ReleaseLock
<1>15. QED
  BY <1>3, <1>6, <1>7, <1>8, <1>9, <1>10, <1>11, <1>12, <1>13, <1>14 DEF Handle

\* The executor's answer settles a row, or a crash orphans some: the numbers stay.
LEMMA RowsSettled ==
    ASSUME TypeInv, NEW f \in [logs -> {"running", "orphan", "done"}],
           logs' = {[l EXCEPT !.state = f[l]] : l \in logs}
    PROVE  logs' \in SUBSET Log /\ (\A l, m \in logs' : l.id = m.id => l = m) /\ Numbered'
<1> DEFINE g == [l \in logs |-> [l EXCEPT !.state = f[l]]]
<1>1. \A l \in logs : l \in Log /\ IsRow(l) /\ g[l] \in Log /\ g[l].id = l.id
  <2>1. \A l \in logs : l \in Log
    BY RestTyped
  <2>2. \A l \in Log : IsRow(l)
    BY DEF Log, IsRow
  <2>3. \A l \in logs : g[l] \in Log
    BY <2>1 DEF Log
  <2>4. \A l \in logs : g[l].id = l.id
    BY <2>1, <2>2, SettledRow
  <2>5. QED
    BY <2>1, <2>2, <2>3, <2>4
<1>2. logs' = {g[l] : l \in logs}
  OBVIOUS
<1>3. \A l, m \in logs : l.id = m.id => l = m
  BY RestTyped
<1>4. g = [l \in logs |-> g[l]]
  OBVIOUS
<1> HIDE DEF g
<1>5. \A x \in logs' : \E l \in logs : g[l] = x
  BY <1>2
<1>6. g \in [logs -> logs']
  <2>1. \A l \in logs : g[l] \in logs'
    BY <1>2
  <2>2. QED
    BY <1>4, <2>1
<1>7. \A l, m \in logs : g[l] = g[m] => l = m
  BY <1>1, <1>3
<1>8. g \in Injection(logs, logs') /\ g \in Surjection(logs, logs')
  BY <1>5, <1>6, <1>7 DEF Injection, Surjection, IsInjective
<1>9. ExistsBijection(logs, logs')
  BY <1>8 DEF ExistsBijection, Bijection
<1>10. IsFiniteSet(logs') /\ Cardinality(logs') = Cardinality(logs)
  BY <1>9, FS_Bijection DEF TypeInv, Numbered
<1>11. ASSUME NEW x \in logs'
       PROVE  x \in Log /\ x.id <= Cardinality(logs')
  <2>1. PICK l \in logs : g[l] = x
    BY <1>5
  <2>2. QED
    BY <1>1, <1>10, <2>1 DEF TypeInv, Numbered
<1>12. ASSUME NEW x \in logs', NEW y \in logs', x.id = y.id
       PROVE  x = y
  <2>1. PICK l \in logs : g[l] = x
    BY <1>5
  <2>2. PICK m \in logs : g[m] = y
    BY <1>5
  <2>3. l = m
    BY <1>1, <1>3, <1>12, <2>1, <2>2
  <2>4. QED
    BY <2>1, <2>2, <2>3
<1>13. QED
  BY <1>10, <1>11, <1>12 DEF Numbered

LEMMA AnswerTyped ==
    ASSUME Assumptions, TypeInv, NEW l \in logs, CallReturns(l)
    PROVE  TypeOK' /\ Numbered'
<1>1. PICK x \in {"done", "orphan"} : logs' = (logs \ {l}) \cup {[l EXCEPT !.state = x]}
  BY DEF CallReturns
<1> DEFINE f == [m \in logs |-> IF m = l THEN x ELSE m.state]
<1>2. \A m \in logs : IsRow(m) /\ m.state \in {"running", "orphan", "done"}
  BY RestTyped DEF Log, IsRow
<1>3. f \in [logs -> {"running", "orphan", "done"}]
  BY <1>2
<1>4. \A m \in logs : m # l => [m EXCEPT !.state = f[m]] = m
  <2> TAKE m \in logs
  <2>1. IsRow(m) /\ (m # l => f[m] = m.state)
    BY <1>2
  <2> HIDE DEF f
  <2>2. QED
    BY <2>1, SettledRow
<1>5. f[l] = x
  OBVIOUS
<1> HIDE DEF f
<1>6. logs' = {[m EXCEPT !.state = f[m]] : m \in logs}
  BY <1>1, <1>4, <1>5
<1>7. logs' \in SUBSET Log /\ (\A k, m \in logs' : k.id = m.id => k = m) /\ Numbered'
  BY <1>3, <1>6, RowsSettled
<1>8. UNCHANGED <<calmVars, store, wheel, queue, h, lock>>
  BY DEF CallReturns
<1>9. QED
  BY <1>7, <1>8 DEF calmVars, TypeInv, TypeOK

LEMMA CrashTyped ==
    ASSUME Assumptions, TypeInv, NEW n \in Nodes, Crash(n)
    PROVE  TypeOK' /\ Numbered'
<1> DEFINE f == [l \in logs |-> IF l.by[1] = n /\ l.state = "running" THEN "orphan" ELSE l.state]
<1>1. f \in [logs -> {"running", "orphan", "done"}]
  BY RestTyped DEF Log
<1>2. logs' = {[l EXCEPT !.state = f[l]] : l \in logs}
  BY DEF Crash
<1> HIDE DEF f
<1>3. logs' \in SUBSET Log /\ (\A k, m \in logs' : k.id = m.id => k = m) /\ Numbered'
  BY <1>1, <1>2, RowsSettled
<1>4. 0 \in Time /\ Gone \in Row /\ NoTask \in Task
  BY NoTaskTyped DEF Time, Gone, Row, Assumptions, SchedulerAssumption
<1>5. h' \in [Handlers -> WorkerStates]
  BY <1>4, IdleState, RestTyped DEF Crash
<1>6. \A m \in Nodes : queue'[m] \in Seq(Task) /\ Len(queue'[m]) <= QueueCap
  <2>1. \A m \in Nodes : queue'[m] = <<>> \/ queue'[m] = queue[m]
    BY DEF Crash, TypeInv, IInv, Shape
  <2>2. <<>> \in Seq(Task) /\ Len(<<>>) = 0 /\ QueueCap \in Nat
    BY EmptySeq DEF Assumptions, SchedulerAssumption
  <2>3. \A m \in Nodes : queue[m] \in Seq(Task) /\ Len(queue[m]) <= QueueCap
    BY RestTyped
  <2>4. 0 <= QueueCap
    BY <2>2
  <2>5. QED
    BY <2>1, <2>2, <2>3, <2>4, Zenon
<1>7. /\ mode' \in [Nodes -> {"off", "on", "stopping", "stopped", "crashed"}]
      /\ store' \in [Nodes -> [Jobs -> Row]] /\ wheel' \in [Nodes -> [Jobs -> Time]]
      /\ cancels' \in [Nodes -> SUBSET Jobs] /\ firing' \in [Nodes -> SUBSET (Jobs \X Time)]
  BY <1>4 DEF Crash, TypeInv, TypeOK
<1>8. manager' \in [Nodes -> [pc : {"idle", "cancel", "arm"}, job : Jobs, arm : BOOLEAN,
                              at : Time]]
  <2>1. NoTask.job \in Jobs
    BY <1>4 DEF Task
  <2>2. NoCall \in [pc : {"idle", "cancel", "arm"}, job : Jobs, arm : BOOLEAN, at : Time]
    BY <1>4, <2>1 DEF NoCall
  <2>3. QED
    BY <2>2 DEF Crash, TypeInv, TypeOK
<1>9. UNCHANGED <<now, table, lock, manuals, ops>>
  BY DEF Crash
<1>10. QED
  BY <1>3, <1>5, <1>6, <1>7, <1>8, <1>9 DEF TypeInv, TypeOK, WorkerStates

LEMMA ExitTyped ==
    ASSUME Assumptions, TypeInv, NEW i \in Handlers, WorkerExit(i)
    PROVE  TypeOK' /\ Numbered'
<1>1. PICK r \in WorkerStates : h' = [h EXCEPT ![i] = r]
  BY GotoTyped DEF WorkerExit, Goto
<1>2. h' \in [Handlers -> WorkerStates]
  BY <1>1, RestTyped
<1>3. i[1] \in Nodes
  BY DEF Handlers
<1>4. mode' \in [Nodes -> {"off", "on", "stopping", "stopped", "crashed"}]
  BY <1>3 DEF WorkerExit, TypeInv, TypeOK
<1>5. UNCHANGED <<now, table, store, wheel, cancels, firing, queue, manager, lock, logs,
                  manuals, ops>>
  BY DEF WorkerExit
<1>6. QED
  BY <1>2, <1>4, <1>5 DEF TypeInv, TypeOK, Numbered, WorkerStates

LEMMA TickTyped == ASSUME Assumptions, TypeInv, Tick PROVE TypeOK' /\ Numbered'
<1>1. now' \in 0 .. MaxTime
  BY DEF Tick, TypeInv, TypeOK, Assumptions, SchedulerAssumption
<1>2. UNCHANGED <<mode, table, store, wheel, cancels, firing, queue, h, manager, lock, logs,
                  manuals, ops>>
  BY DEF Tick
<1>3. QED
  BY <1>1, <1>2 DEF TypeInv, TypeOK, Numbered

LEMMA NextTyped == ASSUME Assumptions, TypeInv, [Next]_vars PROVE TypeInv'
<1> SUFFICES TypeOK' /\ Numbered'
  BY NextKeeps DEF TypeInv
<1>1. PICK j \in Jobs : TRUE
  BY DEF Assumptions
<1>2. CASE UNCHANGED vars
  <2>1. UNCHANGED <<now, mode, table, store, wheel, cancels, firing, queue, h, manager, lock, logs,
                    manuals, ops>>
    BY <1>2 DEF vars
  <2>2. TypeOK'
    BY <2>1 DEF TypeInv, TypeOK
  <2>3. Numbered'
    BY <2>1 DEF TypeInv, Numbered
  <2>4. QED
    BY <2>2, <2>3
<1>3. ASSUME NEW n \in Nodes, Start(n) \/ Stop(n) \/ CancelWheel(n) \/ ArmWheel(n)
      PROVE  TypeOK' /\ Numbered'
  BY <1>1, <1>3, NodeTyped
<1>4. ASSUME NEW n \in Nodes, NEW k \in Jobs,
             \/ Flush(n, k) \/ Fire(n, k) \/ TriggerJob(n, k) \/ ServeCancel(n, k) \/ Manage(n, k)
             \/ \E t \in Time : Callback(n, k, t)
      PROVE  TypeOK' /\ Numbered'
  BY <1>4, NodeTyped, QueueTyped
<1>5. CASE Next
  <2>1. CASE Tick
    BY <2>1, TickTyped
  <2>2. CASE \E i \in Handlers : Handle(i) \/ WorkerExit(i)
    BY <2>2, HandleTyped, ExitTyped
  <2>3. CASE \E l \in logs : CallReturns(l)
    BY <2>3, AnswerTyped
  <2>4. CASE \E n \in Nodes : Start(n) \/ Stop(n) \/ Crash(n) \/ CancelWheel(n) \/ ArmWheel(n)
    BY <1>3, <2>4, CrashTyped
  <2>5. CASE \E n \in Nodes, k \in Jobs :
                \/ Flush(n, k) \/ Fire(n, k) \/ TriggerJob(n, k) \/ ServeCancel(n, k)
                \/ Manage(n, k) \/ \E t \in Time : Callback(n, k, t)
    BY <1>4, <2>5
  <2>6. QED
    BY <1>5, <2>1, <2>2, <2>3, <2>4, <2>5 DEF Next
<1>6. QED
  BY <1>2, <1>5

\* Type correctness, for any nodes: in particular every time stays within one period of the
\* clock's bound, and no two job_log rows get one number, although rows are settled and
\* orphaned in place.
THEOREM TypeCorrect == Assumptions => (Spec => []TypeOK)
<1> SUFFICES ASSUME Assumptions PROVE Spec => []TypeOK
  OBVIOUS
<1>1. Init => TypeInv
  BY TypedInitially
<1>2. TypeInv /\ [Next]_vars => TypeInv'
  BY NextTyped
<1>3. TypeInv => TypeOK
  BY DEF TypeInv
<1>4. QED
  BY <1>1, <1>2, <1>3, PTL DEF Spec

\* So the first instance of MCSchedulerCases keeps its types; the other two instantiate
\* TypeCorrect with constants of their own.
THEOREM CasesKeepTypes == Assumptions => (CasesSpec => [](case = "armed" => CasesTypeOK))
<1> SUFFICES ASSUME Assumptions PROVE CasesSpec => [](case = "armed" => CasesTypeOK)
  OBVIOUS
<1> DEFINE Inv == case = "armed" => TypeInv
<1>1. CasesInit => Inv
  BY TypedInitially DEF CasesInit
<1>2. Inv /\ [CasesNext]_<<vars, case>> => Inv'
  <2> SUFFICES ASSUME Inv, [CasesNext]_<<vars, case>>, case' = "armed"
               PROVE  TypeInv'
    OBVIOUS
  <2>1. case = "armed" /\ [Next]_vars
    BY DEF CasesNext
  <2>2. QED
    BY <2>1, NextTyped
<1>3. Inv => (case = "armed" => CasesTypeOK)
  BY DEF CasesTypeOK, TypeInv
<1>4. QED
  BY <1>1, <1>2, <1>3, PTL DEF CasesSpec
-----------------------------------------------------------------------------
\* The steps, grouped by what they leave alone.

\* A node's wheel, callbacks and management calls.
NodeMoves(n, j) ==
    \/ Start(n) \/ Stop(n) \/ CancelWheel(n) \/ ArmWheel(n) \/ Flush(n, j) \/ Fire(n, j)
    \/ TriggerJob(n, j) \/ ServeCancel(n, j) \/ Manage(n, j) \/ \E t \in Time : Callback(n, j, t)

LEMMA Splits ==
    ASSUME Assumptions, [Next]_vars
    PROVE  \/ UNCHANGED vars \/ Tick
           \/ \E n \in Nodes : Crash(n)
           \/ \E n \in Nodes, j \in Jobs : NodeMoves(n, j)
           \/ \E i \in Handlers : Handle(i)
           \/ \E i \in Handlers : WorkerExit(i)
           \/ \E l \in logs : CallReturns(l)
<1>1. PICK j \in Jobs : TRUE
  BY DEF Assumptions
<1>2. ASSUME NEW n \in Nodes, Start(n) \/ Stop(n) \/ CancelWheel(n) \/ ArmWheel(n)
      PROVE  NodeMoves(n, j)
  BY <1>2 DEF NodeMoves
<1>3. ASSUME NEW n \in Nodes, NEW k \in Jobs,
             \/ Flush(n, k) \/ Fire(n, k) \/ TriggerJob(n, k) \/ ServeCancel(n, k) \/ Manage(n, k)
             \/ \E t \in Time : Callback(n, k, t)
      PROVE  NodeMoves(n, k)
  BY <1>3 DEF NodeMoves
<1>4. QED
  BY <1>1, <1>2, <1>3 DEF Next

LEMMA NodeMovesKeep ==
    ASSUME TypeInv, NEW n \in Nodes, NEW j \in Jobs, NodeMoves(n, j)
    PROVE  /\ UNCHANGED <<now, h, lock, logs>>
           /\ \A m \in Nodes : mode'[m] = "crashed" => mode[m] = "crashed"
<1>1. CASE Manage(n, j)
  BY <1>1 DEF Manage, AddJob, UpdateJob, RemoveJob, StartJob, StopJob, Call
<1>2. CASE Start(n) \/ Stop(n)
  BY <1>2 DEF Start, Stop, TypeInv, TypeOK
<1>3. CASE CancelWheel(n) \/ ArmWheel(n) \/ Flush(n, j) \/ Fire(n, j)
  BY <1>3 DEF CancelWheel, ArmWheel, Flush, Fire
<1>4. CASE TriggerJob(n, j) \/ ServeCancel(n, j) \/ \E t \in Time : Callback(n, j, t)
  BY <1>4 DEF TriggerJob, ServeCancel, Callback
<1>5. QED
  BY <1>1, <1>2, <1>3, <1>4 DEF NodeMoves

\* Worker i goes on with its task, to the step named label.
Went(i, label) ==
    /\ h'[i].pc = label
    /\ h'[i].task = h[i].task /\ h'[i].due = h[i].due /\ h'[i].left = h[i].left
    /\ h'[i].at = h[i].at

\* It goes on with its task.
GoesOn(i) == h'[i].task = h[i].task /\ h'[i].due = h[i].due

LEMMA Moved ==
    ASSUME TypeInv, NEW i \in Handlers, Handle(i)
    PROVE  /\ \A k \in Handlers : k # i => h'[k] = h[k]
           /\ Take(i) => h'[i] = [pc |-> "lock", task |-> Head(queue[i[1]]),
                                  due |-> now + Deadline, left |-> 0, at |-> 0]
           /\ TryLock(i) => Went(i, "limit")
           /\ TryLockFail(i) => h'[i].pc = "idle"
           /\ Limit(i) => Went(i, "block") \/ Went(i, "resched")
           /\ Pass(i) => GoesOn(i) /\ h'[i].pc = "send" /\ h'[i].left = Fanout[JobOf(i)]
           /\ DiscardTrigger(i) => Went(i, "resched")
           /\ Send(i) \/ SendFail(i) =>
                 GoesOn(i) /\ h'[i].pc = "send" /\ h'[i].left = h[i].left - 1
           /\ SendEnd(i) => Went(i, "resched")
           /\ Reschedule(i) => Went(i, IF CronOf[JobOf(i)] = "every" THEN "get" ELSE "release")
           /\ GetFresh(i) =>
                 /\ GoesOn(i) /\ h'[i].at = store[i[1]][JobOf(i)].next
                 /\ h'[i].pc = IF store[i[1]][JobOf(i)].in /\ store[i[1]][JobOf(i)].run
                               THEN "add" ELSE "release"
           /\ ScheduleWheel(i) => Went(i, "release")
           /\ ReleaseLock(i) => h'[i].pc = "idle"
<1>1. h[i] \in WorkerStates /\ h \in [Handlers -> WorkerStates]
  BY RestTyped
<1>2. ASSUME NEW label, Goto(i, label)
      PROVE  Went(i, label) /\ \A k \in Handlers : k # i => h'[k] = h[k]
  BY <1>1, <1>2 DEF Goto, Went, WorkerStates
<1>3. ASSUME Return(i)
      PROVE  h'[i].pc = "idle" /\ \A k \in Handlers : k # i => h'[k] = h[k]
  <2>1. h'[i] = Idle(NoTask) /\ \A k \in Handlers : k # i => h'[k] = h[k]
    BY <1>1, <1>3 DEF Return
  <2>2. QED
    BY <2>1, IdleIsWorker
<1>4. ASSUME Take(i)
      PROVE  /\ h'[i] = [pc |-> "lock", task |-> Head(queue[i[1]]),
                         due |-> now + Deadline, left |-> 0, at |-> 0]
             /\ \A k \in Handlers : k # i => h'[k] = h[k]
  <2> DEFINE r == [Idle(Head(queue[i[1]])) EXCEPT !.pc = "lock", !.due = now + Deadline]
  <2>1. h' = [h EXCEPT ![i] = r]
    BY <1>4 DEF Take
  <2>2. r = [pc |-> "lock", task |-> Head(queue[i[1]]), due |-> now + Deadline, left |-> 0,
             at |-> 0]
    BY TakenIsWorker
  <2> HIDE DEF r
  <2>3. QED
    BY <1>1, <2>1, <2>2
<1>5. ASSUME Pass(i)
      PROVE  /\ GoesOn(i) /\ h'[i].pc = "send" /\ h'[i].left = Fanout[JobOf(i)]
             /\ \A k \in Handlers : k # i => h'[k] = h[k]
  BY <1>1, <1>5 DEF Pass, GoesOn, WorkerStates
<1>6. ASSUME Send(i) \/ SendFail(i)
      PROVE  /\ GoesOn(i) /\ h'[i].pc = "send" /\ h'[i].left = h[i].left - 1
             /\ \A k \in Handlers : k # i => h'[k] = h[k]
  <2>1. h' = [h EXCEPT ![i].left = @ - 1] /\ h[i].pc = "send"
    BY <1>6 DEF Send, SendFail
  <2>2. QED
    BY <1>1, <2>1 DEF GoesOn, WorkerStates
<1>7. ASSUME GetFresh(i)
      PROVE  /\ GoesOn(i) /\ h'[i].at = store[i[1]][JobOf(i)].next
             /\ h'[i].pc = IF store[i[1]][JobOf(i)].in /\ store[i[1]][JobOf(i)].run
                           THEN "add" ELSE "release"
             /\ \A k \in Handlers : k # i => h'[k] = h[k]
  <2> DEFINE fresh == store[i[1]][JobOf(i)]
             label == IF fresh.in /\ fresh.run THEN "add" ELSE "release"
  <2>1. h' = [h EXCEPT ![i].pc = label, ![i].at = fresh.next]
    BY <1>7 DEF GetFresh
  <2> HIDE DEF label
  <2>2. GoesOn(i) /\ h'[i].at = fresh.next /\ h'[i].pc = label
    BY <1>1, <2>1 DEF GoesOn, WorkerStates
  <2>3. \A k \in Handlers : k # i => h'[k] = h[k]
    BY <1>1, <2>1
  <2>4. QED
    BY <2>2, <2>3 DEF label
<1>8. /\ TryLock(i) => Goto(i, "limit")
      /\ Limit(i) => Goto(i, "block") \/ Goto(i, "resched")
      /\ DiscardTrigger(i) => Goto(i, "resched")
      /\ SendEnd(i) => Goto(i, "resched")
      /\ Reschedule(i) => Goto(i, IF CronOf[JobOf(i)] = "every" THEN "get" ELSE "release")
      /\ ScheduleWheel(i) => Goto(i, "release")
      /\ TryLockFail(i) \/ ReleaseLock(i) => Return(i)
  BY DEF TryLock, Limit, DiscardTrigger, SendEnd, Reschedule, ScheduleWheel, TryLockFail,
         ReleaseLock
<1>9. \A k \in Handlers : k # i => h'[k] = h[k]
  BY <1>2, <1>3, <1>4, <1>5, <1>6, <1>7, <1>8 DEF Handle
<1>10. QED
  BY <1>2, <1>3, <1>4, <1>5, <1>6, <1>7, <1>8, <1>9
-----------------------------------------------------------------------------
\* One node; time passes only when it has caught up; and no StartJob, which gives a job
\* a wheel entry at a time that may have passed.
Punctual ==
    /\ \A m, n \in Nodes : m = n
    /\ Prompt
    /\ "start" \notin Ops

Running(n, j) == store[n][j].in /\ store[n][j].run

\* The management call under way will give j a wheel entry.
Arming(n, j) ==
    /\ manager[n].job = j
    /\ manager[n].pc = "arm" \/ (manager[n].pc = "cancel" /\ manager[n].arm)

\* Whatever will become a wheel entry lies ahead of the clock.
Ahead ==
    /\ \A i \in Handlers : h[i].pc = "get" /\ store[i[1]][JobOf(i)].in
                              => store[i[1]][JobOf(i)].next > now
    /\ \A i \in Handlers : h[i].pc = "add" => h[i].at > now
    /\ \A n \in Nodes : Arming(n, manager[n].job) => manager[n].at > now

\* A node that has not started.
Unstarted ==
    \A n \in Nodes : mode[n] = "off" =>
        /\ \A j \in Jobs : ~store[n][j].in /\ wheel[n][j] = 0
        /\ firing[n] = {} /\ manager[n].pc = "idle"
        /\ \A i \in Handlers : i[1] = n => h[i].pc = "idle"
        /\ logs = {}
        /\ \A k \in DOMAIN queue[n] : queue[n][k].manual
        /\ Len(queue[n]) <= manuals

AheadInv == TypeInv /\ Ahead /\ Unstarted

LEMMA HandleLeaves ==
    ASSUME NEW i \in Handlers, Handle(i)
    PROVE  /\ UNCHANGED <<now, mode, table, cancels, firing, manager, manuals, ops>>
           /\ Reschedule(i) \/ store' = store
           /\ ScheduleWheel(i) \/ wheel' = wheel
           /\ Take(i) \/ queue' = queue
           /\ TryLock(i) \/ ReleaseLock(i) \/ lock' = lock
           /\ Send(i) \/ SendFail(i) \/ logs' = logs
<1>1. UNCHANGED calmVars
  BY DEF Handle, Take, TryLock, TryLockFail, Limit, Pass, DiscardTrigger, Send, SendFail,
         SendEnd, Reschedule, GetFresh, ScheduleWheel, ReleaseLock
<1>2. /\ Take(i) => UNCHANGED <<store, wheel, lock, logs>>
      /\ TryLock(i) \/ ReleaseLock(i) => UNCHANGED <<store, wheel, queue, logs>>
      /\ TryLockFail(i) \/ Limit(i) \/ Pass(i) \/ DiscardTrigger(i) \/ SendEnd(i) \/ GetFresh(i)
            => UNCHANGED <<store, wheel, queue, lock, logs>>
      /\ Send(i) \/ SendFail(i) => UNCHANGED <<store, wheel, queue, lock>>
      /\ Reschedule(i) => UNCHANGED <<wheel, queue, lock, logs>>
      /\ ScheduleWheel(i) => UNCHANGED <<store, queue, lock, logs>>
  BY DEF Take, TryLock, TryLockFail, Limit, Pass, DiscardTrigger, Send, SendFail,
         SendEnd, Reschedule, GetFresh, ScheduleWheel, ReleaseLock
<1>3. QED
  BY <1>1, <1>2 DEF Handle, calmVars

LEMMA NodeLeaves ==
    ASSUME NEW n \in Nodes, NEW j \in Jobs, NodeMoves(n, j)
    PROVE  /\ Start(n) \/ Stop(n) \/ mode' = mode
           /\ Start(n) \/ Manage(n, j) \/ store' = store
           /\ \/ Start(n) \/ CancelWheel(n) \/ ArmWheel(n) \/ Fire(n, j) \/ ServeCancel(n, j)
              \/ wheel' = wheel
           /\ CancelWheel(n) \/ ServeCancel(n, j) \/ cancels' = cancels
           /\ Fire(n, j) \/ (\E t \in Time : Callback(n, j, t)) \/ firing' = firing
           /\ TriggerJob(n, j) \/ (\E t \in Time : Callback(n, j, t)) \/ queue' = queue
           /\ CancelWheel(n) \/ ArmWheel(n) \/ Manage(n, j) \/ manager' = manager
           /\ Flush(n, j) \/ table' = table
           /\ TriggerJob(n, j) \/ manuals' = manuals
<1>1. /\ Start(n) => UNCHANGED <<table, cancels, firing, queue, manager, manuals>>
      /\ Stop(n) => UNCHANGED <<table, store, wheel, cancels, firing, queue, manager, manuals>>
      /\ CancelWheel(n) => UNCHANGED <<mode, table, store, firing, queue, manuals>>
      /\ ArmWheel(n) => UNCHANGED <<mode, table, store, cancels, firing, queue, manuals>>
      /\ Flush(n, j) => UNCHANGED <<mode, store, wheel, cancels, firing, queue, manager, manuals>>
      /\ Fire(n, j) => UNCHANGED <<mode, table, store, cancels, queue, manager, manuals>>
      /\ TriggerJob(n, j) => UNCHANGED <<mode, table, store, wheel, cancels, firing, manager>>
      /\ ServeCancel(n, j) => UNCHANGED <<mode, table, store, firing, queue, manager, manuals>>
  BY DEF Start, Stop, CancelWheel, ArmWheel, Flush, Fire, TriggerJob, ServeCancel
<1>2. Manage(n, j) => UNCHANGED <<mode, table, wheel, cancels, firing, queue, manuals>>
  BY DEF Manage, AddJob, UpdateJob, RemoveJob, StartJob, StopJob, Call
<1>3. (\E t \in Time : Callback(n, j, t)) =>
         UNCHANGED <<mode, table, store, wheel, cancels, manager, manuals>>
  BY DEF Callback
<1>4. QED
  BY <1>1, <1>2, <1>3 DEF NodeMoves

LEMMA Clock ==
    ASSUME Assumptions, TypeInv
    PROVE  now \in 0 .. MaxTime /\ now \in Nat /\ NextTick(now) > now
BY RestTyped, TickIsAhead DEF TypeInv, IInv, Shape

\* What a management call does to store and manager, unless it is StartJob.
LEMMA Managing ==
    ASSUME Assumptions, Punctual, TypeInv, NEW n \in Nodes, NEW j \in Jobs, Manage(n, j)
    PROVE  /\ mode[n] = "on" /\ manager[n].pc = "idle"
           /\ \A m \in Nodes, k \in Jobs : m # n \/ k # j => store'[m][k] = store[m][k]
           /\ \A m \in Nodes : m # n => manager'[m] = manager[m]
           /\ store'[n][j].in =>
                 store'[n][j].next > now
                 \/ (store[n][j].in /\ store'[n][j].next = store[n][j].next)
           /\ manager'[n].job = j
           /\ Arming(n, j)' => manager'[n].at > now
           /\ Running(n, j)' => Arming(n, j)'
<1>1. NextTick(now) > now
  BY Clock
<1> DEFINE Goal(row, label, arm) ==
             /\ mode[n] = "on" /\ manager[n].pc = "idle"
             /\ \A m \in Nodes, k \in Jobs : m # n \/ k # j => store'[m][k] = store[m][k]
             /\ \A m \in Nodes : m # n => manager'[m] = manager[m]
             /\ store'[n][j] = row
             /\ manager'[n].pc = label /\ manager'[n].job = j /\ manager'[n].arm = arm
             /\ manager'[n].at = row.next
<1>2. ASSUME NEW op, NEW row \in Row, NEW label \in {"idle", "cancel", "arm"},
             NEW arm \in BOOLEAN, Call(n, op, j, row, label, arm)
      PROVE  Goal(row, label, arm) /\ op \in Ops
  <2>1. manager'[n] = [pc |-> label, job |-> j, arm |-> arm, at |-> row.next]
    BY <1>2 DEF Call, TypeInv, TypeOK
  <2>2. /\ manager'[n].pc = label /\ manager'[n].job = j /\ manager'[n].arm = arm
        /\ manager'[n].at = row.next
    BY <2>1
  <2>3. /\ mode[n] = "on" /\ manager[n].pc = "idle" /\ op \in Ops
        /\ \A m \in Nodes, k \in Jobs : m # n \/ k # j => store'[m][k] = store[m][k]
        /\ \A m \in Nodes : m # n => manager'[m] = manager[m]
        /\ store'[n][j] = row
    BY <1>2 DEF Call, TypeInv, TypeOK
  <2>4. QED
    BY <2>2, <2>3
<1>3. \A run \in BOOLEAN : /\ Fresh(run) \in Row /\ Fresh(run).next = NextTick(now)
                          /\ Fresh(run).in /\ Fresh(run).run = run
  <2>1. NextTick(now) \in Time
    BY TickIsAhead, RestTyped
  <2>2. QED
    BY <2>1 DEF Fresh, Row
<1>4. ASSUME NEW run \in BOOLEAN, AddJob(n, j, run)
      PROVE  Goal(Fresh(run), IF run THEN "arm" ELSE "idle", FALSE)
  BY <1>2, <1>3, <1>4 DEF AddJob
<1>5. ASSUME NEW run \in BOOLEAN, UpdateJob(n, j, run)
      PROVE  Goal(Fresh(run), "cancel", run)
  BY ZenonT(30), <1>2, <1>3, <1>5 DEF UpdateJob
<1>6. ASSUME RemoveJob(n, j)
      PROVE  Goal(Gone, "cancel", FALSE) /\ ~Gone.in
  <2>1. Gone \in Row /\ ~Gone.in
    BY DEF Gone, Row, Time, Assumptions, SchedulerAssumption
  <2>2. QED
    BY <1>2, <1>6, <2>1 DEF RemoveJob
<1>7. ASSUME StopJob(n, j)
      PROVE  \E row \in Row : /\ Goal(row, "cancel", FALSE) /\ ~row.run
                              /\ row.next = store[n][j].next
                              /\ store[n][j].in
  <2> DEFINE row == [store[n][j] EXCEPT !.run = FALSE]
  <2>1. store[n][j] \in Row
    BY RestTyped
  <2>2. row \in Row /\ ~row.run /\ row.next = store[n][j].next
    BY <2>1 DEF Row
  <2>3. Call(n, "stop", j, row, "cancel", FALSE) /\ store[n][j].in
    BY <1>7 DEF StopJob
  <2> HIDE DEF row
  <2>4. Goal(row, "cancel", FALSE)
    BY <1>2, <2>2, <2>3
  <2>5. QED
    BY <2>2, <2>3, <2>4
<1>8. ~StartJob(n, j)
  BY DEF StartJob, Call, Punctual
<1>9. \/ \E run \in BOOLEAN : AddJob(n, j, run) \/ UpdateJob(n, j, run)
       \/ RemoveJob(n, j) \/ StopJob(n, j)
  BY <1>8 DEF Manage
<1>10. CASE \E run \in BOOLEAN : AddJob(n, j, run)
  <2>1. PICK run \in BOOLEAN : AddJob(n, j, run)
    BY <1>10
  <2>2. Goal(Fresh(run), IF run THEN "arm" ELSE "idle", FALSE)
    BY <1>4, <2>1
  <2>3. CASE run
    BY <1>1, <1>3, <2>2, <2>3 DEF Arming, Running
  <2>4. CASE ~run
    BY <1>1, <1>3, <2>2, <2>4 DEF Arming, Running
  <2>5. QED
    BY <2>3, <2>4
<1>11. CASE \E run \in BOOLEAN : UpdateJob(n, j, run)
  <2>1. PICK run \in BOOLEAN : UpdateJob(n, j, run)
    BY <1>11
  <2>2. Goal(Fresh(run), "cancel", run)
    BY <1>5, <2>1
  <2>3. QED
    BY <1>1, <1>3, <2>2 DEF Arming, Running
<1>12. CASE RemoveJob(n, j)
  BY <1>6, <1>12 DEF Arming, Running
<1>13. CASE StopJob(n, j)
  BY <1>7, <1>13 DEF Arming, Running
<1>14. QED
  BY <1>9, <1>10, <1>11, <1>12, <1>13

LEMMA ExitLeaves ==
    ASSUME TypeInv, NEW i \in Handlers, WorkerExit(i)
    PROVE  /\ UNCHANGED <<now, table, store, wheel, cancels, firing, queue, manager, lock, logs,
                          manuals, ops>>
           /\ h[i].pc = "idle" /\ h'[i].pc = "gone" /\ \A k \in Handlers : k # i => h'[k] = h[k]
           /\ mode[i[1]] = "stopping" /\ mode'[i[1]] \in {"stopping", "stopped"}
           /\ \A n \in Nodes : n # i[1] => mode'[n] = mode[n]
<1>1. h[i] \in WorkerStates /\ h \in [Handlers -> WorkerStates] /\ i[1] \in Nodes
  BY RestTyped DEF Handlers
<1>2. h' = [h EXCEPT ![i].pc = "gone"] /\ h[i].pc = "idle"
  BY DEF WorkerExit
<1>3. h'[i].pc = "gone" /\ \A k \in Handlers : k # i => h'[k] = h[k]
  BY <1>1, <1>2 DEF WorkerStates
<1>4. /\ mode[i[1]] = "stopping" /\ mode'[i[1]] \in {"stopping", "stopped"}
      /\ \A n \in Nodes : n # i[1] => mode'[n] = mode[n]
  BY <1>1 DEF WorkerExit, TypeInv, TypeOK
<1>5. QED
  BY <1>2, <1>3, <1>4 DEF WorkerExit

LEMMA CrashLeaves ==
    ASSUME TypeInv, NEW n \in Nodes, Crash(n)
    PROVE  /\ UNCHANGED <<now, table, lock, manuals, ops>>
           /\ mode'[n] = "crashed" /\ manager'[n].pc = "idle" /\ cancels'[n] = {} /\ firing'[n] = {}
           /\ queue'[n] = <<>> /\ mode[n] # "off"
           /\ \A j \in Jobs : ~store'[n][j].in /\ wheel'[n][j] = 0
           /\ \A i \in Handlers : IF i[1] = n THEN h'[i] = Idle(NoTask) /\ h'[i].pc = "idle"
                                  ELSE h'[i] = h[i]
<1>1. Idle(NoTask).pc = "idle" /\ NoCall.pc = "idle" /\ ~Gone.in
  BY IdleIsWorker DEF NoCall, Gone
<1>2. \A i \in Handlers : h'[i] = IF i[1] = n THEN Idle(NoTask) ELSE h[i]
  BY DEF Crash
<1>3. /\ mode'[n] = "crashed" /\ manager'[n] = NoCall /\ cancels'[n] = {} /\ firing'[n] = {}
      /\ queue'[n] = <<>> /\ \A j \in Jobs : store'[n][j] = Gone /\ wheel'[n][j] = 0
  BY DEF Crash, TypeInv, TypeOK, IInv, Shape
<1>4. UNCHANGED <<now, table, lock, manuals, ops>> /\ mode[n] # "off"
  BY DEF Crash
<1>5. QED
  BY <1>1, <1>2, <1>3, <1>4

\* A tick finds everything done.
LEMMA TickIsQuiet ==
    ASSUME Punctual, Tick
    PROVE  /\ Quiet /\ now' = now + 1
           /\ UNCHANGED <<mode, table, store, wheel, cancels, firing, queue, h, manager, lock, logs,
                          manuals, ops>>
BY DEF Tick, Punctual

\* What Ahead says of one worker.
AheadOf(i) ==
    /\ h[i].pc = "get" /\ store[i[1]][JobOf(i)].in => store[i[1]][JobOf(i)].next > now
    /\ h[i].pc = "add" => h[i].at > now

\* What reschedule does to the store.
LEMMA Rescheduled ==
    ASSUME Assumptions, NEW i \in Handlers, JobOf(i) \in Jobs, Reschedule(i)
    PROVE  LET n == i[1]
               j == JobOf(i)
           IN  /\ \/ store' = store
                  \/ store[n][j].in /\ store' = [store EXCEPT ![n][j].run = FALSE]
                  \/ store[n][j].in /\ store' = [store EXCEPT ![n][j].next = NextTick(now)]
               /\ CronOf[j] = "every" =>
                     store' = IF ~store[n][j].in THEN store
                              ELSE [store EXCEPT ![n][j].next = NextTick(now)]
<1> DEFINE n == i[1]
           j == JobOf(i)
<1>1. store' = IF ~store[n][j].in THEN store
               ELSE CASE CronOf[j] = "none" -> [store EXCEPT ![n][j].run = FALSE]
                      [] CronOf[j] = "every" -> [store EXCEPT ![n][j].next = NextTick(now)]
                      [] OTHER -> store
  BY DEF Reschedule
<1>2. CronOf[j] \in {"every", "none", "bad"}
  BY DEF Assumptions, SchedulerAssumption
<1> HIDE DEF n, j
<1>3. CASE ~store[n][j].in
  <2>1. store' = store
    BY <1>1, <1>3
  <2>2. QED
    BY <1>3, <2>1 DEF n, j
<1>4. CASE store[n][j].in /\ CronOf[j] = "none"
  <2>1. store' = [store EXCEPT ![n][j].run = FALSE]
    BY <1>1, <1>4
  <2>2. QED
    BY <1>4, <2>1 DEF n, j
<1>5. CASE store[n][j].in /\ CronOf[j] = "every"
  <2>1. store' = [store EXCEPT ![n][j].next = NextTick(now)]
    BY <1>1, <1>5
  <2>2. QED
    BY <1>5, <2>1 DEF n, j
<1>6. CASE store[n][j].in /\ CronOf[j] = "bad"
  <2>1. store' = store
    BY <1>1, <1>6
  <2>2. QED
    BY <1>6, <2>1 DEF n, j
<1>7. QED
  BY <1>2, <1>3, <1>4, <1>5, <1>6

\* reschedule computes a time ahead of the clock, and no other worker's step takes it back.
LEMMA AheadHandle ==
    ASSUME Assumptions, Punctual, TypeInv, Ahead, NEW i \in Handlers, Handle(i)
    PROVE  Ahead'
<1>1. /\ NextTick(now) > now /\ now' = now /\ manager' = manager
      /\ Reschedule(i) \/ store' = store
  BY Clock, HandleLeaves
<1>2. \A k \in Handlers : k[1] \in Nodes /\ h[k].task \in Task /\ JobOf(k) \in Jobs
  BY RestTyped DEF WorkerStates, Task, JobOf, Handlers
<1>3. \A k \in Handlers : k # i => h'[k] = h[k]
  BY Moved
<1>4. \A n \in Nodes, j \in Jobs : store'[n][j].in =>
         store[n][j].in /\ (store'[n][j].next = store[n][j].next \/ store'[n][j].next > now)
  <2>1. CASE store' = store
    BY <2>1
  <2>2. CASE Reschedule(i)
    <3>1. store \in [Nodes -> [Jobs -> Row]]
      BY RestTyped
    <3>2. i[1] \in Nodes /\ JobOf(i) \in Jobs /\ CronOf[JobOf(i)] \in {"every", "none", "bad"}
      BY <1>2 DEF Assumptions, SchedulerAssumption
    <3> DEFINE n == i[1]
               j == JobOf(i)
    <3>3. \/ store' = store
          \/ store[n][j].in /\ store' = [store EXCEPT ![n][j].run = FALSE]
          \/ store[n][j].in /\ store' = [store EXCEPT ![n][j].next = NextTick(now)]
      BY <2>2, <3>2, Rescheduled
    <3> HIDE DEF n, j
    <3>4. CASE store' = [store EXCEPT ![n][j].run = FALSE]
      BY <3>1, <3>2, <3>4 DEF Row, n, j
    <3>5. CASE store[n][j].in /\ store' = [store EXCEPT ![n][j].next = NextTick(now)]
      <4>1. \A m \in Nodes, k \in Jobs : m # n \/ k # j => store'[m][k] = store[m][k]
        BY <3>1, <3>2, <3>5 DEF n, j
      <4>2. store'[n][j].next = NextTick(now)
        BY <3>1, <3>2, <3>5 DEF Row, n, j
      <4>3. QED
        BY <1>1, <3>5, <4>1, <4>2
    <3>6. QED
      BY <2>1, <3>3, <3>4, <3>5
  <2>3. QED
    BY <1>1, <2>1, <2>2
<1>5. ASSUME NEW k \in Handlers, k # i PROVE AheadOf(k)'
  <2>1. AheadOf(k) /\ h'[k] = h[k] /\ JobOf(k)' = JobOf(k)
    BY <1>3, <1>5 DEF Ahead, AheadOf, JobOf
  <2>2. QED
    BY <1>1, <1>2, <1>4, <2>1 DEF AheadOf
<1>6. AheadOf(i)'
  <2>1. CASE Take(i) \/ TryLock(i) \/ TryLockFail(i) \/ Limit(i) \/ Pass(i) \/ DiscardTrigger(i)
             \/ Send(i) \/ SendFail(i) \/ SendEnd(i) \/ ScheduleWheel(i) \/ ReleaseLock(i)
    <3>1. h'[i].pc \notin {"get", "add"}
      <4>1. CASE Take(i)
        <5>1. h'[i] = [pc |-> "lock", task |-> Head(queue[i[1]]), due |-> now + Deadline,
                       left |-> 0, at |-> 0]
          BY <4>1, Moved
        <5>2. h'[i].pc = "lock"
          BY <5>1
        <5>3. QED
          BY <5>2
      <4>2. CASE TryLock(i) \/ TryLockFail(i) \/ Limit(i) \/ Pass(i)
        BY <4>2, Moved DEF Went
      <4>3. CASE DiscardTrigger(i) \/ Send(i) \/ SendFail(i) \/ SendEnd(i) \/ ScheduleWheel(i)
                 \/ ReleaseLock(i)
        BY <4>3, Moved DEF Went
      <4>4. QED
        BY <2>1, <4>1, <4>2, <4>3
    <3>2. QED
      BY <3>1 DEF AheadOf
  <2>2. CASE Reschedule(i)
    <3>1. CronOf[JobOf(i)] \in {"every", "none", "bad"} /\ JobOf(i)' = JobOf(i)
      BY <1>2, <2>2, Moved DEF Assumptions, SchedulerAssumption, Went, JobOf
    <3>2. CASE CronOf[JobOf(i)] = "every"
      <4>1. h'[i].pc = "get"
        BY <2>2, <3>2, Moved DEF Went
      <4>2. store' = IF ~store[i[1]][JobOf(i)].in THEN store
                     ELSE [store EXCEPT ![i[1]][JobOf(i)].next = NextTick(now)]
        BY <1>2, <2>2, <3>2, Rescheduled
      <4>3. store \in [Nodes -> [Jobs -> Row]] /\ i[1] \in Nodes /\ JobOf(i) \in Jobs
        BY <1>2, RestTyped
      <4>4. store[i[1]][JobOf(i)].in => store'[i[1]][JobOf(i)].next = NextTick(now)
        BY <4>2, <4>3 DEF Row
      <4>5. ~store[i[1]][JobOf(i)].in => ~store'[i[1]][JobOf(i)].in
        BY <4>2
      <4>6. QED
        BY <1>1, <3>1, <4>1, <4>4, <4>5 DEF AheadOf
    <3>3. CASE CronOf[JobOf(i)] # "every"
      BY <2>2, <3>3, Moved DEF Went, AheadOf
    <3>4. QED
      BY <3>2, <3>3
  <2>3. CASE GetFresh(i)
    <3>1. h[i].pc = "get" /\ AheadOf(i)
      BY <2>3 DEF GetFresh, Ahead, AheadOf
    <3>2. h'[i].pc \in {"add", "release"} /\ (h'[i].pc = "add" =>
             store[i[1]][JobOf(i)].in /\ h'[i].at = store[i[1]][JobOf(i)].next)
      BY <2>3, Moved
    <3>3. QED
      BY <1>1, <3>1, <3>2 DEF AheadOf
  <2>4. QED
    BY <2>1, <2>2, <2>3 DEF Handle
<1>7. \A n \in Nodes : Arming(n, manager[n].job)' => manager'[n].at > now'
  BY <1>1 DEF Ahead, Arming
<1>8. QED
  BY <1>5, <1>6, <1>7 DEF Ahead, AheadOf

LEMMA AheadNode ==
    ASSUME Assumptions, Punctual, AheadInv, NEW n \in Nodes, NEW j \in Jobs, NodeMoves(n, j)
    PROVE  Ahead'
<1> USE DEF AheadInv
<1>1. UNCHANGED <<now, h>> /\ NextTick(now) > now
  BY NodeMovesKeep, Clock
<1>2. \A k \in Handlers : k[1] \in Nodes /\ JobOf(k) \in Jobs /\ JobOf(k)' = JobOf(k)
  BY <1>1, RestTyped DEF WorkerStates, Task, JobOf, Handlers
<1>3. ASSUME NEW k \in Handlers PROVE AheadOf(k)'
  <2>1. AheadOf(k)
    BY DEF Ahead, AheadOf
  <2>2. CASE store' = store
    BY <1>1, <1>2, <2>1, <2>2 DEF AheadOf
  <2>3. CASE Start(n)
    <3>1. CASE k[1] = n
      BY <1>1, <2>3, <3>1 DEF Start, Unstarted, AheadOf
    <3>2. CASE k[1] # n
      <4>1. store'[k[1]] = store[k[1]]
        BY <1>2, <2>3, <3>2, RestTyped DEF Start
      <4>2. QED
        BY <1>1, <1>2, <2>1, <4>1 DEF AheadOf
    <3>3. QED
      BY <3>1, <3>2
  <2>4. CASE Manage(n, j)
    <3>1. CASE k[1] = n /\ JobOf(k) = j
      <4>1. store'[n][j].in => store'[n][j].next > now
                               \/ (store[n][j].in /\ store'[n][j].next = store[n][j].next)
        BY <2>4, Managing
      <4>2. QED
        BY <1>1, <1>2, <2>1, <3>1, <4>1 DEF AheadOf
    <3>2. CASE k[1] # n \/ JobOf(k) # j
      <4>1. store'[k[1]][JobOf(k)] = store[k[1]][JobOf(k)]
        BY <1>2, <2>4, <3>2, Managing
      <4>2. QED
        BY <1>1, <1>2, <2>1, <4>1 DEF AheadOf
    <3>3. QED
      BY <3>1, <3>2
  <2>5. QED
    BY <2>2, <2>3, <2>4, NodeLeaves
<1>4. ASSUME NEW m \in Nodes, Arming(m, manager[m].job)' PROVE manager'[m].at > now'
  <2>1. Arming(m, manager[m].job) => manager[m].at > now
    BY DEF Ahead
  <2>2. CASE manager'[m] = manager[m]
    BY <1>1, <1>4, <2>1, <2>2 DEF Arming
  <2>3. CASE CancelWheel(n) /\ m = n
    <3>1. manager[n] \in [pc : {"idle", "cancel", "arm"}, job : Jobs, arm : BOOLEAN, at : Time]
      BY DEF TypeInv, TypeOK
    <3>2. /\ manager[n].pc = "cancel"
          /\ manager'[n] = IF manager[n].arm THEN [manager[n] EXCEPT !.pc = "arm"] ELSE NoCall
      BY <2>3 DEF CancelWheel, TypeInv, TypeOK
    <3>3. NoCall.pc = "idle"
      BY DEF NoCall
    <3>4. manager[n].arm
      BY <1>4, <2>3, <3>2, <3>3 DEF Arming
    <3>5. manager'[n].at = manager[n].at
      BY <3>1, <3>2, <3>4
    <3>6. QED
      BY <1>1, <2>1, <2>3, <3>2, <3>4, <3>5 DEF Arming
  <2>4. CASE ArmWheel(n) /\ m = n
    <3>1. manager'[n] = NoCall /\ NoCall.pc = "idle"
      BY <2>4 DEF ArmWheel, NoCall, TypeInv, TypeOK
    <3>2. QED
      BY <1>4, <2>4, <3>1 DEF Arming
  <2>5. CASE Manage(n, j) /\ m = n
    BY <1>1, <1>4, <2>5, Managing
  <2>6. m # n => manager'[m] = manager[m]
    <3>1. CASE Manage(n, j)
      BY <3>1, Managing
    <3>2. CASE ~Manage(n, j)
      BY <3>2, NodeLeaves DEF CancelWheel, ArmWheel, TypeInv, TypeOK
    <3>3. QED
      BY <3>1, <3>2
  <2>7. QED
    BY <2>2, <2>3, <2>4, <2>5, <2>6, NodeLeaves
<1>5. QED
  BY <1>3, <1>4 DEF Ahead, AheadOf

LEMMA AheadStep ==
    ASSUME Assumptions, Punctual, AheadInv, [Next]_vars
    PROVE  Ahead'
<1> USE DEF AheadInv
<1>1. CASE UNCHANGED <<now, h, store, manager>>
  BY <1>1 DEF Ahead, JobOf, Arming
<1>2. CASE Tick
  <2>1. /\ \A i \in Handlers : h'[i].pc \notin {"get", "add"}
        /\ \A n \in Nodes : manager'[n].pc = "idle"
    BY <1>2, TickIsQuiet DEF Quiet, Busy
  <2>2. QED
    BY <2>1 DEF Ahead, Arming
<1>3. ASSUME NEW n \in Nodes, Crash(n) PROVE Ahead'
  <2>1. \A m \in Nodes : m = n
    BY DEF Punctual
  <2>2. \A i \in Handlers : i[1] = n
    BY <2>1 DEF Handlers
  <2>3. /\ \A i \in Handlers : h'[i].pc = "idle"
        /\ \A m \in Nodes : manager'[m].pc = "idle"
    BY <1>3, <2>1, <2>2, CrashLeaves
  <2>4. QED
    BY <2>3 DEF Ahead, Arming
<1>4. ASSUME NEW i \in Handlers, WorkerExit(i) PROVE Ahead'
  <2>1. UNCHANGED <<now, store, manager>> /\ h'[i].pc = "gone"
        /\ \A k \in Handlers : k # i => h'[k] = h[k]
    BY <1>4, ExitLeaves
  <2>2. QED
    BY <2>1 DEF Ahead, Arming, JobOf
<1>5. CASE (\E l \in logs : CallReturns(l)) \/ UNCHANGED vars
  BY <1>1, <1>5 DEF CallReturns, calmVars, vars
<1>6. QED
  BY <1>2, <1>3, <1>4, <1>5, AheadNode, AheadHandle, Splits

\* Until a node starts nothing but TriggerJob reaches it.
LEMMA UnstartedNode ==
    ASSUME Assumptions, Punctual, AheadInv, NEW n \in Nodes, NEW j \in Jobs, NodeMoves(n, j)
    PROVE  Unstarted'
<1> USE DEF AheadInv
<1>1. SUFFICES ASSUME mode'[n] = "off" PROVE Unstarted'
  BY DEF Unstarted, Punctual
<1>2. mode' = mode
  BY <1>1, NodeLeaves DEF Start, Stop, TypeInv, TypeOK
<1>3. /\ \A k \in Jobs : ~store[n][k].in /\ wheel[n][k] = 0
      /\ firing[n] = {} /\ manager[n].pc = "idle"
      /\ \A i \in Handlers : i[1] = n => h[i].pc = "idle"
      /\ logs = {}
      /\ \A k \in DOMAIN queue[n] : queue[n][k].manual
      /\ Len(queue[n]) <= manuals
  BY <1>1, <1>2 DEF Unstarted
<1>4. CASE TriggerJob(n, j)
  <2>1. UNCHANGED <<store, wheel, firing, manager, h, logs>>
    BY <1>4 DEF TriggerJob
  <2> DEFINE task == [job |-> j, at |-> now, manual |-> TRUE]
  <2>2. queue'[n] = Append(queue[n], task) /\ manuals' = manuals + 1
    BY <1>4 DEF TriggerJob, TypeInv, TypeOK, IInv, Shape
  <2>3. task \in Task /\ task.manual /\ queue[n] \in Seq(Task) /\ manuals \in Nat
    <3>1. now \in Time
      BY Clock DEF Assumptions, SchedulerAssumption, Time
    <3>2. task \in Task /\ task.manual
      BY <3>1 DEF Task
    <3>3. queue[n] \in Seq(Task) /\ manuals \in 0 .. MaxManual
      BY DEF TypeInv, TypeOK
    <3>4. QED
      BY <3>2, <3>3
  <2> HIDE DEF task
  <2>4. Len(queue'[n]) <= manuals'
    BY <1>3, <2>2, <2>3
  <2>5. \A k \in DOMAIN queue'[n] : queue'[n][k].manual
    BY <1>3, <2>2, <2>3
  <2>6. \A m \in Nodes : m = n
    BY DEF Punctual
  <2>7. QED
    BY <1>2, <1>3, <2>1, <2>4, <2>5, <2>6 DEF Unstarted
<1>5. CASE Flush(n, j)
  BY <1>1, <1>2, <1>5 DEF Flush
<1>6. ~(CancelWheel(n) \/ ArmWheel(n) \/ Fire(n, j) \/ ServeCancel(n, j) \/ Manage(n, j))
  BY <1>1, <1>2, <1>3, Managing DEF CancelWheel, ArmWheel, Fire, ServeCancel
<1>7. ~ \E t \in Time : Callback(n, j, t)
  BY <1>3 DEF Callback
<1>8. ~Start(n) /\ ~Stop(n)
  BY <1>1, <1>2 DEF Start, Stop, TypeInv, TypeOK
<1>9. QED
  BY <1>4, <1>5, <1>6, <1>7, <1>8 DEF NodeMoves

LEMMA UnstartedStep ==
    ASSUME Assumptions, Punctual, AheadInv, [Next]_vars
    PROVE  Unstarted'
<1> USE DEF AheadInv
<1>1. CASE UNCHANGED vars
  BY <1>1 DEF Unstarted, vars
<1>2. CASE Tick
  BY <1>2, TickIsQuiet DEF Unstarted
<1>3. ASSUME NEW n \in Nodes, Crash(n) PROVE Unstarted'
  <2>1. mode'[n] = "crashed" /\ \A m \in Nodes : m = n
    BY <1>3, CrashLeaves DEF Punctual
  <2>2. QED
    BY <2>1 DEF Unstarted
<1>4. ASSUME NEW i \in Handlers, WorkerExit(i) PROVE Unstarted'
  <2>1. mode'[i[1]] # "off" /\ \A m \in Nodes : m = i[1]
    BY <1>4, ExitLeaves DEF Punctual, Handlers
  <2>2. QED
    BY <2>1 DEF Unstarted
<1>5. ASSUME NEW l \in logs, CallReturns(l) PROVE Unstarted'
  <2>1. mode' = mode
    BY <1>5 DEF CallReturns, calmVars
  <2>2. QED
    BY <1>5, <2>1 DEF Unstarted
<1>6. ASSUME NEW i \in Handlers, Handle(i) PROVE Unstarted'
  <2>1. mode' = mode /\ i[1] \in Nodes /\ \A m \in Nodes : m = i[1]
    BY <1>6, HandleLeaves DEF Punctual, Handlers
  <2>2. h[i].pc # "idle" \/ mode[i[1]] # "off"
    BY <1>6 DEF Handle, Take, TryLock, TryLockFail, Limit, Pass, DiscardTrigger, Send, SendFail,
                SendEnd, Reschedule, GetFresh, ScheduleWheel, ReleaseLock
  <2>3. mode'[i[1]] # "off"
    BY <2>1, <2>2 DEF Unstarted
  <2>4. QED
    BY <2>1, <2>3 DEF Unstarted
<1>7. QED
  BY <1>1, <1>2, <1>3, <1>4, <1>5, <1>6, UnstartedNode, Splits

LEMMA AheadKept ==
    ASSUME Assumptions, Punctual, AheadInv, [Next]_vars
    PROVE  AheadInv'
BY NextTyped, AheadStep, UnstartedStep DEF AheadInv

LEMMA AheadInitially ==
    ASSUME Assumptions, Init
    PROVE  AheadInv
<1>1. TypeInv
  BY TypedInitially
<1>2. \A i \in Handlers : h[i].pc = "idle"
  BY IdleIsWorker DEF Init
<1>3. \A n \in Nodes : manager[n].pc = "idle" /\ queue[n] = <<>> /\ firing[n] = {}
  BY DEF Init, NoCall
<1>4. \A n \in Nodes, j \in Jobs : ~store[n][j].in /\ wheel[n][j] = 0
  BY DEF Init, Gone
<1>5. logs = {} /\ manuals = 0
  BY DEF Init
<1>6. Ahead
  BY <1>2, <1>3 DEF Ahead, Arming
<1>7. Unstarted
  BY <1>2, <1>3, <1>4, <1>5 DEF Unstarted
<1>8. QED
  BY <1>1, <1>6, <1>7 DEF AheadInv
-----------------------------------------------------------------------------
\* One tick of a job is sent to one executor once.  The automatic task of tick t of job j is
\* in one place at a time: a callback, the queue, a worker up to its send, or the log.

AutoTask(j, t) == [job |-> j, at |-> t, manual |-> FALSE]
Queued(n, j, t) == \E k \in DOMAIN queue[n] : queue[n][k] = AutoTask(j, t)
Sends(i, j, t) == h[i].pc \in {"lock", "limit", "block", "send"} /\ h[i].task = AutoTask(j, t)
IsAuto(l, j, t) == l.job = j /\ l.at = t /\ ~l.manual
Logged(j, t) == \E l \in logs : IsAuto(l, j, t)

\* The tick has left the wheel.
Left(n, j, t) ==
    \/ <<j, t>> \in firing[n] \/ Queued(n, j, t) \/ Logged(j, t)
    \/ \E i \in Handlers : Sends(i, j, t)

\* The next one lies behind it.
Past ==
    \A n \in Nodes, j \in Jobs, t \in Time :
        Left(n, j, t) => t <= now /\ (wheel[n][j] # 0 => wheel[n][j] > t)

FiredOnce ==
    \A n \in Nodes, j \in Jobs, t \in Time : <<j, t>> \in firing[n] =>
        ~Queued(n, j, t) /\ ~Logged(j, t) /\ \A i \in Handlers : ~Sends(i, j, t)

QueuedOnce ==
    \A n \in Nodes, j \in Jobs, t \in Time :
        /\ Queued(n, j, t) => ~Logged(j, t) /\ \A i \in Handlers : ~Sends(i, j, t)
        /\ \A k, m \in DOMAIN queue[n] :
              queue[n][k] = AutoTask(j, t) /\ queue[n][m] = AutoTask(j, t) => k = m

\* A worker sends the shards in falling order.
SentOnce ==
    \A i \in Handlers, j \in Jobs, t \in Time : Sends(i, j, t) =>
        /\ \A k \in Handlers : Sends(k, j, t) => i = k
        /\ \A l \in logs : IsAuto(l, j, t) => h[i].pc = "send" /\ l.shard > h[i].left

TickInv == AheadInv /\ Rows /\ Past /\ FiredOnce /\ QueuedOnce /\ SentOnce /\ SameTickOnce

\* The row is one of before the step, perhaps in another state.
Kept(l) ==
    \E m \in logs : /\ m.id = l.id /\ m.job = l.job /\ m.at = l.at /\ m.manual = l.manual
                    /\ m.shard = l.shard

\* The row is what worker i has just written.
Written(l, i) ==
    /\ Send(i) \/ SendFail(i)
    /\ l.id = Cardinality(logs) + 1 /\ l.job = JobOf(i) /\ l.at = h[i].task.at
    /\ l.manual = h[i].task.manual /\ l.shard = h[i].left

LEMMA SettledKept ==
    ASSUME NEW m \in logs, IsRow(m), NEW x, NEW l, l = [m EXCEPT !.state = x]
    PROVE  Kept(l)
<1> DEFINE r == [id |-> m.id, job |-> m.job, at |-> m.at, manual |-> m.manual, by |-> m.by,
                 shard |-> m.shard, state |-> m.state]
<1>1. m = r
  BY DEF IsRow
<1>2. l = [id |-> m.id, job |-> m.job, at |-> m.at, manual |-> m.manual,
           by |-> m.by, shard |-> m.shard, state |-> x]
  <2>1. [r EXCEPT !.state = x] = [id |-> m.id, job |-> m.job, at |-> m.at, manual |-> m.manual,
                                  by |-> m.by, shard |-> m.shard, state |-> x]
    OBVIOUS
  <2> HIDE DEF r
  <2>2. QED
    BY <1>1, <2>1
<1>3. QED
  BY <1>2 DEF Kept

LEMMA Origin ==
    ASSUME Assumptions, TypeInv, Rows, [Next]_vars, NEW l \in logs'
    PROVE  Kept(l) \/ \E i \in Handlers : Written(l, i)
<1>1. CASE logs' = logs
  BY <1>1 DEF Kept
<1>2. ASSUME NEW n \in Nodes, Crash(n) PROVE Kept(l)
  <2>1. PICK m \in logs : \E x : l = [m EXCEPT !.state = x]
    BY <1>2 DEF Crash
  <2>2. QED
    BY <2>1, SettledKept DEF Rows
<1>3. ASSUME NEW m \in logs, CallReturns(m) PROVE Kept(l)
  <2>1. l \in logs \/ \E x : l = [m EXCEPT !.state = x]
    BY <1>3 DEF CallReturns
  <2>2. QED
    BY <2>1, SettledKept DEF Rows, Kept
<1>4. ASSUME NEW i \in Handlers, Send(i) \/ SendFail(i) PROVE Kept(l) \/ Written(l, i)
  <2>1. CASE logs' = logs
    BY <2>1 DEF Kept
  <2>2. ASSUME NEW state, AddLog(i, state) PROVE Kept(l) \/ Written(l, i)
    <3> DEFINE new == [id |-> Cardinality(logs) + 1, job |-> JobOf(i), at |-> h[i].task.at,
                       manual |-> h[i].task.manual, by |-> i, shard |-> h[i].left,
                       state |-> state]
    <3>1. l \in logs \/ l = new
      BY <2>2 DEF AddLog
    <3>2. /\ new.id = Cardinality(logs) + 1 /\ new.job = JobOf(i) /\ new.at = h[i].task.at
          /\ new.manual = h[i].task.manual /\ new.shard = h[i].left
      OBVIOUS
    <3> HIDE DEF new
    <3>3. QED
      BY <1>4, <3>1, <3>2 DEF Kept, Written
  <2>3. QED
    BY <1>4, <2>1, <2>2 DEF Send, SendFail
<1>5. CASE Tick \/ UNCHANGED vars
  BY <1>1, <1>5 DEF Tick, vars
<1>6. QED
  BY <1>1, <1>2, <1>3, <1>4, <1>5, Splits, HandleLeaves, ExitLeaves, NodeMovesKeep

\* A worker that sends a tick has sent it before, or has just taken it; and it never goes
\* back among the shards.
LEMMA SendsFrom ==
    ASSUME TypeInv, NEW i \in Handlers, Handle(i), NEW k \in Handlers, NEW j \in Jobs,
           NEW t \in Time, Sends(k, j, t)'
    PROVE  \/ Take(i) /\ k = i /\ Head(queue[i[1]]) = AutoTask(j, t)
           \/ /\ Sends(k, j, t)
              /\ h[k].pc = "send" => h'[k].pc = "send" /\ h'[k].left <= h[k].left
<1>1. h[k] \in WorkerStates
  BY RestTyped
<1>2. h[k].left \in Nat
  BY <1>1 DEF WorkerStates
<1>3. AutoTask(j, t)' = AutoTask(j, t)
  BY DEF AutoTask
<1>4. h'[k].pc \in {"lock", "limit", "block", "send"} /\ h'[k].task = AutoTask(j, t)
  BY <1>3 DEF Sends
<1>5. CASE k # i
  <2>1. h'[k] = h[k]
    BY <1>5, Moved
  <2>2. QED
    BY <1>2, <1>4, <2>1 DEF Sends
<1>6. CASE k = i /\ Take(i)
  <2>1. h'[i] = [pc |-> "lock", task |-> Head(queue[i[1]]), due |-> now + Deadline,
                 left |-> 0, at |-> 0]
    BY <1>6, Moved
  <2>2. h'[i].task = Head(queue[i[1]])
    BY <2>1
  <2>3. QED
    BY <1>4, <1>6, <2>2
<1>7. CASE k = i /\ (TryLock(i) \/ Limit(i) \/ Pass(i))
  <2>1. h[i].pc \in {"lock", "limit", "block"}
    BY <1>7 DEF TryLock, Limit, Pass
  <2>2. h'[i].task = h[i].task
    BY <1>7, Moved DEF Went, GoesOn
  <2>3. QED
    BY <1>4, <1>7, <2>1, <2>2 DEF Sends
<1>8. CASE k = i /\ (Send(i) \/ SendFail(i))
  <2>1. h[i].pc = "send"
    BY <1>8 DEF Send, SendFail
  <2>2. h'[i].task = h[i].task /\ h'[i].pc = "send" /\ h'[i].left = h[i].left - 1
    BY <1>8, Moved DEF GoesOn
  <2>3. QED
    BY <1>2, <1>4, <1>8, <2>1, <2>2 DEF Sends
<1>9. CASE k = i /\ (TryLockFail(i) \/ DiscardTrigger(i) \/ SendEnd(i) \/ Reschedule(i))
  BY <1>4, <1>9, Moved DEF Went
<1>10. CASE k = i /\ (GetFresh(i) \/ ScheduleWheel(i) \/ ReleaseLock(i))
  <2>1. CASE GetFresh(i)
    <3>1. h'[i].pc = "add" \/ h'[i].pc = "release"
      BY <2>1, Moved
    <3>2. QED
      BY <1>4, <1>10, <3>1
  <2>2. CASE ScheduleWheel(i) \/ ReleaseLock(i)
    BY <1>4, <1>10, <2>2, Moved DEF Went
  <2>3. QED
    BY <1>10, <2>1, <2>2
<1>11. QED
  BY <1>5, <1>6, <1>7, <1>8, <1>9, <1>10 DEF Handle

\* What a step may do to a queue.
LEMMA QueueMoves ==
    ASSUME Assumptions, TypeInv, [Next]_vars, NEW n \in Nodes
    PROVE  \/ queue'[n] = queue[n]
           \/ mode'[n] = "crashed" /\ queue'[n] = <<>>
           \/ \E i \in Handlers : /\ i[1] = n /\ Take(i) /\ queue[n] # <<>>
                                  /\ queue'[n] = Tail(queue[n])
           \/ \E j \in Jobs, t \in Time : /\ Callback(n, j, t) /\ Len(queue[n]) < QueueCap
                                          /\ queue'[n] = Append(queue[n], AutoTask(j, t))
           \/ \E j \in Jobs : /\ TriggerJob(n, j)
                              /\ \E x \in Task : x.manual /\ queue'[n] = Append(queue[n], x)
<1>1. queue \in [Nodes -> Seq(Tasks)]
  BY DEF TypeInv, IInv, Shape
<1>2. ASSUME NEW m \in Nodes, NEW j \in Jobs, NEW t \in Time, Callback(m, j, t)
      PROVE  \/ queue'[n] = queue[n]
             \/ /\ m = n /\ Len(queue[n]) < QueueCap
                /\ queue'[n] = Append(queue[n], AutoTask(j, t))
  BY <1>1, <1>2 DEF Callback, AutoTask
<1>3. ASSUME NEW m \in Nodes, NEW j \in Jobs, TriggerJob(m, j)
      PROVE  \/ queue'[n] = queue[n]
             \/ m = n /\ \E x \in Task : x.manual /\ queue'[n] = Append(queue[n], x)
  <2> DEFINE task == [job |-> j, at |-> now, manual |-> TRUE]
  <2>1. queue' = [queue EXCEPT ![m] = Append(@, task)]
    BY <1>3 DEF TriggerJob
  <2>2. task \in Task /\ task.manual
    <3>1. now \in Time
      BY Clock DEF Assumptions, SchedulerAssumption, Time
    <3>2. QED
      BY <3>1 DEF Task
  <2> HIDE DEF task
  <2>3. QED
    BY <1>1, <2>1, <2>2
<1>4. ASSUME NEW i \in Handlers, Take(i)
      PROVE  \/ queue'[n] = queue[n]
             \/ i[1] = n /\ queue[n] # <<>> /\ queue'[n] = Tail(queue[n])
  BY <1>1, <1>4 DEF Take
<1>5. ASSUME NEW m \in Nodes, Crash(m)
      PROVE  queue'[n] = queue[n] \/ (mode'[n] = "crashed" /\ queue'[n] = <<>>)
  <2>1. CASE m = n
    BY <1>5, <2>1, CrashLeaves
  <2>2. CASE m # n
    BY <1>1, <1>5, <2>2 DEF Crash
  <2>3. QED
    BY <2>1, <2>2
<1>6. CASE UNCHANGED vars \/ Tick \/ \E l \in logs : CallReturns(l)
  BY <1>6 DEF vars, Tick, CallReturns
<1>7. ASSUME NEW m \in Nodes, NEW j \in Jobs, NodeMoves(m, j)
      PROVE  queue' = queue \/ TriggerJob(m, j) \/ \E t \in Time : Callback(m, j, t)
  BY <1>7, NodeLeaves
<1>8. ASSUME NEW i \in Handlers, Handle(i) PROVE queue' = queue \/ Take(i)
  BY <1>8, HandleLeaves
<1>9. ASSUME NEW i \in Handlers, WorkerExit(i) PROVE queue' = queue
  BY <1>9, ExitLeaves
<1>10. QED
  BY <1>2, <1>3, <1>4, <1>5, <1>6, <1>7, <1>8, <1>9, Splits

LEMMA QueuedFrom ==
    ASSUME Assumptions, TypeInv, [Next]_vars, NEW n \in Nodes, NEW j \in Jobs, NEW t \in Time,
           Queued(n, j, t)'
    PROVE  Queued(n, j, t) \/ Callback(n, j, t)
<1>1. queue[n] \in Seq(Task)
  BY RestTyped
<1>2. AutoTask(j, t)' = AutoTask(j, t) /\ ~AutoTask(j, t).manual
      /\ AutoTask(j, t).job = j /\ AutoTask(j, t).at = t
  BY DEF AutoTask
<1>3. PICK k \in DOMAIN queue'[n] : queue'[n][k] = AutoTask(j, t)
  BY <1>2 DEF Queued
<1>4. CASE queue'[n] = queue[n]
  BY <1>3, <1>4 DEF Queued
<1>5. CASE queue'[n] = <<>>
  BY <1>3, <1>5
<1>6. CASE queue[n] # <<>> /\ queue'[n] = Tail(queue[n])
  <2>1. k + 1 \in DOMAIN queue[n] /\ queue[n][k + 1] = queue'[n][k]
    BY <1>1, <1>3, <1>6
  <2>2. QED
    BY <1>3, <2>1 DEF Queued
<1>7. ASSUME NEW x \in Task, queue'[n] = Append(queue[n], x)
      PROVE  Queued(n, j, t) \/ x = AutoTask(j, t)
  <2>1. k \in 1 .. Len(queue[n]) + 1
    BY <1>1, <1>3, <1>7
  <2>2. CASE k = Len(queue[n]) + 1
    <3>1. queue'[n][k] = x
      BY <1>1, <1>7, <2>2
    <3>2. QED
      BY <1>3, <3>1
  <2>3. CASE k \in 1 .. Len(queue[n])
    <3>1. queue'[n][k] = queue[n][k] /\ k \in DOMAIN queue[n]
      BY <1>1, <1>7, <2>3
    <3>2. QED
      BY <1>3, <3>1 DEF Queued
  <2>4. QED
    BY <1>1, <2>1, <2>2, <2>3
<1>8. ASSUME NEW i \in Jobs, NEW u \in Time, Callback(n, i, u),
             queue'[n] = Append(queue[n], AutoTask(i, u))
      PROVE  Queued(n, j, t) \/ Callback(n, j, t)
  <2>1. AutoTask(i, u) \in Task /\ AutoTask(i, u).job = i /\ AutoTask(i, u).at = u
    BY DEF AutoTask, Task
  <2>2. Queued(n, j, t) \/ AutoTask(i, u) = AutoTask(j, t)
    BY <1>7, <1>8, <2>1
  <2>3. QED
    BY <1>2, <1>8, <2>1, <2>2
<1>9. QED
  BY <1>2, <1>4, <1>5, <1>6, <1>7, <1>8, QueueMoves

LEMMA FiringFrom ==
    ASSUME Assumptions, TypeInv, [Next]_vars, NEW n \in Nodes, NEW j \in Jobs, NEW t \in Time,
           <<j, t>> \in firing'[n]
    PROVE  <<j, t>> \in firing[n] \/ (Fire(n, j) /\ t = wheel[n][j])
<1>1. firing \in [Nodes -> SUBSET (Jobs \X Time)]
  BY DEF TypeInv, TypeOK
<1>2. ASSUME NEW m \in Nodes, NEW k \in Jobs, Fire(m, k)
      PROVE  <<j, t>> \in firing[n] \/ (Fire(n, j) /\ t = wheel[n][j])
  BY <1>1, <1>2 DEF Fire
<1>3. ASSUME NEW m \in Nodes, NEW k \in Jobs, NEW u \in Time, Callback(m, k, u)
      PROVE  <<j, t>> \in firing[n]
  BY <1>1, <1>3 DEF Callback
<1>4. ASSUME NEW m \in Nodes, Crash(m) PROVE <<j, t>> \in firing[n]
  BY <1>1, <1>4 DEF Crash
<1>5. CASE UNCHANGED vars \/ Tick \/ \E l \in logs : CallReturns(l)
  BY <1>5 DEF vars, Tick, CallReturns, calmVars
<1>6. ASSUME NEW m \in Nodes, NEW k \in Jobs, NodeMoves(m, k)
      PROVE  firing' = firing \/ Fire(m, k) \/ \E u \in Time : Callback(m, k, u)
  BY <1>6, NodeLeaves
<1>7. ASSUME NEW i \in Handlers, Handle(i) \/ WorkerExit(i) PROVE firing' = firing
  BY <1>7, HandleLeaves, ExitLeaves
<1>8. QED
  BY <1>2, <1>3, <1>4, <1>5, <1>6, <1>7, Splits

LEMMA SendsOrigin ==
    ASSUME Assumptions, TypeInv, [Next]_vars, NEW k \in Handlers, NEW j \in Jobs, NEW t \in Time,
           Sends(k, j, t)'
    PROVE  \/ /\ Take(k) /\ Head(queue[k[1]]) = AutoTask(j, t) /\ Queued(k[1], j, t)
           \/ /\ Sends(k, j, t)
              /\ h[k].pc = "send" => h'[k].pc = "send" /\ h'[k].left <= h[k].left
<1>1. h[k] \in WorkerStates /\ k[1] \in Nodes /\ h[k].left \in Nat
  BY RestTyped DEF Handlers, WorkerStates
<1>2. AutoTask(j, t)' = AutoTask(j, t)
  BY DEF AutoTask
<1>3. h'[k].pc \in {"lock", "limit", "block", "send"} /\ h'[k].task = AutoTask(j, t)
  BY <1>2 DEF Sends
<1>4. CASE h'[k] = h[k]
  BY <1>1, <1>3, <1>4 DEF Sends
<1>5. ASSUME NEW i \in Handlers, WorkerExit(i) PROVE h'[k] = h[k]
  BY <1>3, <1>5, ExitLeaves
<1>6. ASSUME NEW n \in Nodes, Crash(n) PROVE h'[k] = h[k]
  BY <1>3, <1>6, CrashLeaves
<1>7. CASE UNCHANGED vars \/ Tick \/ \E l \in logs : CallReturns(l)
  BY <1>4, <1>7 DEF vars, Tick, CallReturns
<1>8. ASSUME NEW i \in Handlers, Handle(i)
      PROVE  \/ /\ Take(k) /\ Head(queue[k[1]]) = AutoTask(j, t)
             \/ /\ Sends(k, j, t)
                /\ h[k].pc = "send" => h'[k].pc = "send" /\ h'[k].left <= h[k].left
  BY <1>8, SendsFrom
<1>9. ASSUME Take(k), Head(queue[k[1]]) = AutoTask(j, t) PROVE Queued(k[1], j, t)
  <2>1. queue[k[1]] \in Seq(Task) /\ queue[k[1]] # <<>>
    BY <1>1, <1>9, RestTyped DEF Take
  <2>2. 1 \in DOMAIN queue[k[1]] /\ queue[k[1]][1] = Head(queue[k[1]])
    BY <2>1
  <2>3. QED
    BY <1>9, <2>2 DEF Queued
<1>10. QED
  BY <1>4, <1>5, <1>6, <1>7, <1>8, <1>9, Splits, NodeMovesKeep

\* A worker with the automatic task of tick t of job j.
LEMMA AutoWorker ==
    ASSUME TypeInv, NEW i \in Handlers, NEW j, NEW t,
           JobOf(i) = j, h[i].task.at = t, ~h[i].task.manual
    PROVE  h[i].task = AutoTask(j, t)
<1>1. h[i].task \in Task
  BY RestTyped DEF WorkerStates
<1>2. QED
  BY <1>1 DEF JobOf, Task, AutoTask

LEMMA LoggedFrom ==
    ASSUME Assumptions, TypeInv, Rows, [Next]_vars, NEW j, NEW t, NEW l \in logs', IsAuto(l, j, t)
    PROVE  \/ \E m \in logs : IsAuto(m, j, t) /\ m.shard = l.shard /\ m.id = l.id
           \/ \E i \in Handlers : /\ Send(i) \/ SendFail(i)
                                  /\ Sends(i, j, t) /\ h[i].pc = "send" /\ l.shard = h[i].left
                                  /\ l.id = Cardinality(logs) + 1
<1>1. CASE Kept(l)
  BY <1>1 DEF Kept, IsAuto
<1>2. ASSUME NEW i \in Handlers, Written(l, i)
      PROVE  /\ Send(i) \/ SendFail(i)
             /\ Sends(i, j, t) /\ h[i].pc = "send" /\ l.shard = h[i].left
             /\ l.id = Cardinality(logs) + 1
  <2>1. h[i].task = AutoTask(j, t)
    BY <1>2, AutoWorker DEF Written, IsAuto
  <2>2. h[i].pc = "send"
    BY <1>2 DEF Written, Send, SendFail
  <2>3. QED
    BY <1>2, <2>1, <2>2 DEF Written, Sends
<1>3. QED
  BY <1>1, <1>2, Origin

\* An entry that appears in the wheel of a node that has started lies ahead of the clock.
LEMMA WheelFrom ==
    ASSUME Assumptions, Punctual, AheadInv, [Next]_vars, NEW n \in Nodes, NEW j \in Jobs
    PROVE  \/ wheel'[n][j] = wheel[n][j]
           \/ wheel'[n][j] = 0
           \/ wheel'[n][j] > now
           \/ mode[n] = "off"
<1> USE DEF AheadInv
<1>1. wheel \in [Nodes -> [Jobs -> Time]] /\ \A m \in Nodes : m = n
  BY RestTyped DEF Punctual
<1>2. ASSUME NEW m \in Nodes, CancelWheel(m)
      PROVE  wheel'[n][j] = wheel[n][j] \/ wheel'[n][j] = 0
  <2>1. wheel' = wheel \/ wheel' = [wheel EXCEPT ![m][manager[m].job] = 0]
    BY <1>2 DEF CancelWheel
  <2>2. QED
    BY <1>1, <2>1
<1>3. ASSUME NEW m \in Nodes, ArmWheel(m)
      PROVE  wheel'[n][j] = wheel[n][j] \/ wheel'[n][j] > now
  <2>1. manager[m].at > now /\ wheel' = [wheel EXCEPT ![m][manager[m].job] = manager[m].at]
    BY <1>3 DEF ArmWheel, Ahead, Arming
  <2>2. QED
    BY <1>1, <2>1
<1>4. ASSUME NEW m \in Nodes, NEW k \in Jobs, Fire(m, k) \/ ServeCancel(m, k)
      PROVE  wheel'[n][j] = wheel[n][j] \/ wheel'[n][j] = 0
  BY <1>1, <1>4 DEF Fire, ServeCancel
<1>5. ASSUME NEW m \in Nodes, Start(m) PROVE mode[n] = "off"
  BY <1>1, <1>5 DEF Start
<1>6. ASSUME NEW i \in Handlers, ScheduleWheel(i)
      PROVE  wheel'[n][j] = wheel[n][j] \/ wheel'[n][j] > now
  <2>1. h[i].at > now /\ wheel' = [wheel EXCEPT ![i[1]][JobOf(i)] = h[i].at]
    BY <1>6 DEF ScheduleWheel, Ahead
  <2>2. QED
    BY <1>1, <2>1
<1>7. ASSUME NEW m \in Nodes, Crash(m) PROVE wheel'[n][j] = 0
  BY <1>1, <1>7, CrashLeaves
<1>8. CASE UNCHANGED vars \/ Tick \/ \E l \in logs : CallReturns(l)
  BY <1>8 DEF vars, Tick, CallReturns
<1>9. ASSUME NEW m \in Nodes, NEW k \in Jobs, NodeMoves(m, k)
      PROVE  \/ Start(m) \/ CancelWheel(m) \/ ArmWheel(m) \/ Fire(m, k) \/ ServeCancel(m, k)
             \/ wheel' = wheel
  BY <1>9, NodeLeaves
<1>10. ASSUME NEW i \in Handlers, Handle(i) \/ WorkerExit(i)
       PROVE  ScheduleWheel(i) \/ wheel' = wheel
  BY <1>10, HandleLeaves, ExitLeaves
<1>11. QED
  BY <1>2, <1>3, <1>4, <1>5, <1>6, <1>7, <1>8, <1>9, <1>10, Splits

LEMMA LeftFrom ==
    ASSUME Assumptions, TypeInv, Rows, [Next]_vars, NEW n \in Nodes, \A m \in Nodes : m = n,
           NEW j \in Jobs, NEW t \in Time, Left(n, j, t)'
    PROVE  Left(n, j, t) \/ (Fire(n, j) /\ t = wheel[n][j])
<1>1. CASE <<j, t>> \in firing'[n]
  BY <1>1, FiringFrom DEF Left
<1>2. CASE Queued(n, j, t)'
  BY <1>2, QueuedFrom DEF Left, Callback
<1>3. CASE Logged(j, t)'
  <2>1. PICK l \in logs' : IsAuto(l, j, t)
    BY <1>3 DEF Logged, IsAuto
  <2>2. QED
    BY <2>1, LoggedFrom DEF Left, Logged
<1>4. CASE \E i \in Handlers : Sends(i, j, t)'
  <2>1. PICK i \in Handlers : Sends(i, j, t)'
    BY <1>4
  <2>2. i[1] = n
    BY DEF Handlers
  <2>3. QED
    BY <2>1, <2>2, SendsOrigin DEF Left
<1>5. QED
  BY <1>1, <1>2, <1>3, <1>4 DEF Left

\* The clock does not go back.
LEMMA ClockRuns ==
    ASSUME Assumptions, TypeInv, [Next]_vars
    PROVE  now \in Nat /\ now' \in Nat /\ now <= now'
<1>1. now \in Nat
  BY Clock
<1>2. CASE Tick
  BY <1>1, <1>2 DEF Tick
<1>3. now' = now \/ Tick
  BY ClockStands
<1>4. QED
  BY <1>1, <1>2, <1>3

LEMMA PastStep ==
    ASSUME Assumptions, Punctual, AheadInv, Rows, Past, [Next]_vars
    PROVE  Past'
<1> SUFFICES ASSUME NEW n \in Nodes, NEW j \in Jobs, NEW t \in Time, Left(n, j, t)'
             PROVE  t <= now' /\ (wheel'[n][j] # 0 => wheel'[n][j] > t)
  BY DEF Past
<1>1. now \in Nat /\ now' \in Nat /\ now <= now' /\ t \in Nat
      /\ wheel[n][j] \in Nat /\ wheel'[n][j] \in Nat
  <2>1. TypeInv'
    BY NextTyped DEF AheadInv
  <2>2. wheel[n][j] \in Time /\ wheel'[n][j] \in Time
    BY <2>1 DEF AheadInv, TypeInv, TypeOK
  <2>3. MaxTime \in Nat /\ Period \in Nat
    BY DEF Assumptions, SchedulerAssumption
  <2>4. QED
    BY <2>2, <2>3, ClockRuns DEF Time, AheadInv
<1>2. CASE Fire(n, j) /\ t = wheel[n][j]
  <2>1. wheel'[n][j] = 0 /\ wheel[n][j] <= now
    BY <1>2 DEF Fire, AheadInv, TypeInv, TypeOK
  <2>2. QED
    BY <1>1, <1>2, <2>1
<1>3. CASE Left(n, j, t)
  <2>1. t <= now /\ (wheel[n][j] # 0 => wheel[n][j] > t)
    BY <1>3 DEF Past
  <2>2. mode[n] # "off"
    <3>1. SUFFICES ASSUME mode[n] = "off" PROVE FALSE
      OBVIOUS
    <3>2. /\ firing[n] = {} /\ logs = {}
          /\ \A i \in Handlers : i[1] = n => h[i].pc = "idle"
          /\ \A k \in DOMAIN queue[n] : queue[n][k].manual
      BY <3>1 DEF AheadInv, Unstarted
    <3>3. \A i \in Handlers : i[1] = n
      BY DEF Punctual, Handlers
    <3>4. ~AutoTask(j, t).manual
      BY DEF AutoTask
    <3>5. QED
      BY <1>3, <3>2, <3>3, <3>4 DEF Left, Queued, Logged, Sends
  <2>3. QED
    BY <1>1, <2>1, <2>2, WheelFrom
<1>4. QED
  BY <1>2, <1>3, LeftFrom DEF AheadInv, Punctual

LEMMA FiredOnceStep ==
    ASSUME Assumptions, Punctual, TickInv, [Next]_vars
    PROVE  FiredOnce'
<1> USE DEF TickInv, AheadInv
<1> SUFFICES ASSUME NEW n \in Nodes, NEW j \in Jobs, NEW t \in Time, <<j, t>> \in firing'[n]
             PROVE  ~Queued(n, j, t)' /\ ~Logged(j, t)' /\ \A i \in Handlers : ~Sends(i, j, t)'
  BY DEF FiredOnce
<1>1. \A m \in Nodes : m = n
  BY DEF Punctual
<1>2. CASE Fire(n, j) /\ t = wheel[n][j]
  <2>1. wheel[n][j] # 0 /\ UNCHANGED <<queue, h, logs>>
    BY <1>2 DEF Fire
  <2>2. ~Left(n, j, t)
    <3>1. t \in Int
      BY DEF Time, Assumptions, SchedulerAssumption
    <3>2. Left(n, j, t) => wheel[n][j] > t
      BY <2>1 DEF Past
    <3>3. QED
      BY <1>2, <3>1, <3>2
  <2>3. ~Queued(n, j, t) /\ ~Logged(j, t) /\ \A i \in Handlers : ~Sends(i, j, t)
    BY <2>2 DEF Left
  <2>4. QED
    BY <2>1, <2>3 DEF Queued, Logged, Sends, IsAuto, AutoTask
<1>3. CASE <<j, t>> \in firing[n]
  <2>1. ~Queued(n, j, t) /\ ~Logged(j, t) /\ \A i \in Handlers : ~Sends(i, j, t)
    BY <1>3 DEF FiredOnce
  <2>2. ~Queued(n, j, t)'
    <3>1. ~Callback(n, j, t)
      BY DEF Callback, TypeInv, TypeOK
    <3>2. QED
      BY <2>1, <3>1, QueuedFrom
  <2>3. ~Logged(j, t)'
    BY <2>1, LoggedFrom DEF Logged, IsAuto
  <2>4. ASSUME NEW i \in Handlers PROVE ~Sends(i, j, t)'
    <3>1. i[1] = n
      BY <1>1 DEF Handlers
    <3>2. QED
      BY <2>1, <3>1, SendsOrigin
  <2>5. QED
    BY <2>2, <2>3, <2>4
<1>4. QED
  BY <1>2, <1>3, FiringFrom

\* No two places of a queue hold the task of one tick.
Single(q, j, t) ==
    \A k, m \in DOMAIN q : q[k] = AutoTask(j, t) /\ q[m] = AutoTask(j, t) => k = m

LEMMA SingleTail ==
    ASSUME NEW q \in Seq(Task), q # <<>>, NEW j, NEW t, Single(q, j, t)
    PROVE  /\ Single(Tail(q), j, t)
           /\ Head(q) = AutoTask(j, t) => \A k \in DOMAIN Tail(q) : Tail(q)[k] # AutoTask(j, t)
<1>1. \A k \in DOMAIN Tail(q) : k \in Int /\ k + 1 \in DOMAIN q /\ Tail(q)[k] = q[k + 1] /\ k # 0
  OBVIOUS
<1>2. 1 \in DOMAIN q /\ Head(q) = q[1]
  OBVIOUS
<1>3. Single(Tail(q), j, t)
  <2> SUFFICES ASSUME NEW k \in DOMAIN Tail(q), NEW m \in DOMAIN Tail(q),
                      Tail(q)[k] = AutoTask(j, t), Tail(q)[m] = AutoTask(j, t)
               PROVE  k = m
    BY DEF Single
  <2>1. k + 1 = m + 1
    BY <1>1 DEF Single
  <2>2. k \in Int /\ m \in Int
    BY <1>1
  <2>3. QED
    BY <2>1, <2>2
<1>4. ASSUME Head(q) = AutoTask(j, t), NEW k \in DOMAIN Tail(q), Tail(q)[k] = AutoTask(j, t)
      PROVE  FALSE
  <2>1. k + 1 = 1
    BY <1>1, <1>2, <1>4 DEF Single
  <2>2. QED
    BY <1>1, <2>1
<1>5. QED
  BY <1>3, <1>4

LEMMA SingleAppend ==
    ASSUME NEW q \in Seq(Task), NEW x \in Task, NEW j, NEW t, Single(q, j, t),
           x = AutoTask(j, t) => \A k \in DOMAIN q : q[k] # AutoTask(j, t)
    PROVE  Single(Append(q, x), j, t)
<1> DEFINE p == Append(q, x)
<1>1. DOMAIN p = 1 .. Len(q) + 1 /\ DOMAIN q = 1 .. Len(q) /\ Len(q) \in Nat
  OBVIOUS
<1>2. p[Len(q) + 1] = x
  OBVIOUS
<1>3. \A k \in 1 .. Len(q) : p[k] = q[k]
  OBVIOUS
<1> HIDE DEF p
<1> SUFFICES ASSUME NEW k \in DOMAIN p, NEW m \in DOMAIN p,
                    p[k] = AutoTask(j, t), p[m] = AutoTask(j, t)
             PROVE  k = m
  BY DEF Single, p
<1>4. CASE k \in DOMAIN q /\ m \in DOMAIN q
  BY <1>1, <1>3, <1>4 DEF Single
<1>5. CASE k \in DOMAIN q /\ m = Len(q) + 1
  BY <1>1, <1>2, <1>3, <1>5
<1>6. CASE k = Len(q) + 1 /\ m \in DOMAIN q
  BY <1>1, <1>2, <1>3, <1>6
<1>7. k \in DOMAIN q \/ k = Len(q) + 1
  BY <1>1
<1>8. m \in DOMAIN q \/ m = Len(q) + 1
  BY <1>1
<1>9. QED
  BY <1>4, <1>5, <1>6, <1>7, <1>8

LEMMA SingleStep ==
    ASSUME Assumptions, Punctual, TickInv, [Next]_vars, NEW n \in Nodes, NEW j \in Jobs,
           NEW t \in Time
    PROVE  Single(queue'[n], j, t)
<1>1. TypeInv
  BY DEF TickInv, AheadInv
<1>2. queue[n] \in Seq(Task) /\ Single(queue[n], j, t)
  BY <1>1, RestTyped DEF TickInv, QueuedOnce, Single
<1>3. CASE queue'[n] = queue[n]
  BY <1>2, <1>3
<1>4. CASE queue'[n] = <<>>
  BY <1>4 DEF Single
<1>5. CASE queue[n] # <<>> /\ queue'[n] = Tail(queue[n])
  BY <1>2, <1>5, SingleTail
<1>6. ASSUME NEW k \in Jobs, NEW u \in Time, Callback(n, k, u),
             queue'[n] = Append(queue[n], AutoTask(k, u))
      PROVE  Single(queue'[n], j, t)
  <2>1. AutoTask(k, u) \in Task /\ AutoTask(k, u).job = k /\ AutoTask(k, u).at = u
    BY DEF AutoTask, Task
  <2>2. AutoTask(j, t).job = j /\ AutoTask(j, t).at = t
    BY DEF AutoTask
  <2>3. ASSUME AutoTask(k, u) = AutoTask(j, t)
        PROVE  \A m \in DOMAIN queue[n] : queue[n][m] # AutoTask(j, t)
    <3>1. <<j, t>> \in firing[n]
      BY <1>6, <2>1, <2>2, <2>3 DEF Callback
    <3>2. QED
      BY <3>1 DEF TickInv, FiredOnce, Queued
  <2>4. QED
    BY <1>2, <1>6, <2>1, <2>3, SingleAppend
<1>7. ASSUME NEW x \in Task, x.manual, queue'[n] = Append(queue[n], x)
      PROVE  Single(queue'[n], j, t)
  <2>1. x # AutoTask(j, t)
    BY <1>7 DEF AutoTask
  <2>2. QED
    BY <1>2, <1>7, <2>1, SingleAppend
<1>8. QED
  BY <1>1, <1>3, <1>4, <1>5, <1>6, <1>7, QueueMoves

LEMMA QueuedOnceStep ==
    ASSUME Assumptions, Punctual, TickInv, [Next]_vars
    PROVE  QueuedOnce'
<1> USE DEF TickInv, AheadInv
<1>1. ASSUME NEW n \in Nodes, NEW j \in Jobs, NEW t \in Time, Queued(n, j, t)'
      PROVE  ~Logged(j, t)' /\ \A i \in Handlers : ~Sends(i, j, t)'
  <2>1. CASE Callback(n, j, t)
    <3>1. UNCHANGED <<h, logs>> /\ <<j, t>> \in firing[n]
      BY <2>1 DEF Callback
    <3>2. ~Logged(j, t) /\ \A i \in Handlers : ~Sends(i, j, t)
      BY <3>1 DEF FiredOnce
    <3>3. QED
      BY <3>1, <3>2 DEF Logged, IsAuto, Sends, AutoTask
  <2>2. CASE Queued(n, j, t)
    <3>1. ~Logged(j, t) /\ \A i \in Handlers : ~Sends(i, j, t)
      BY <2>2 DEF QueuedOnce
    <3>2. ~Logged(j, t)'
      BY <3>1, LoggedFrom DEF Logged, IsAuto
    <3>3. ASSUME NEW i \in Handlers, Sends(i, j, t)' PROVE FALSE
      <4>1. i[1] = n
        BY DEF Punctual, Handlers
      <4>2. Take(i) /\ Head(queue[n]) = AutoTask(j, t)
        BY <3>1, <3>3, <4>1, SendsOrigin
      <4>3. queue[n] \in Seq(Task) /\ queue[n] # <<>> /\ queue'[n] = Tail(queue[n])
        BY <4>1, <4>2, RestTyped DEF Take, IInv, TypeInv, Shape
      <4>4. Single(queue[n], j, t)
        BY DEF Single, QueuedOnce
      <4>5. \A k \in DOMAIN queue'[n] : queue'[n][k] # AutoTask(j, t)
        BY <4>2, <4>3, <4>4, SingleTail
      <4>6. QED
        BY <1>1, <4>5 DEF Queued, AutoTask
    <3>4. QED
      BY <3>2, <3>3
  <2>3. QED
    BY <1>1, <2>1, <2>2, QueuedFrom
<1>2. \A n \in Nodes, j \in Jobs, t \in Time : Single(queue'[n], j, t)
  BY SingleStep
<1>3. QED
  BY <1>1, <1>2 DEF QueuedOnce, Single, AutoTask

LEMMA SentOnceStep ==
    ASSUME Assumptions, Punctual, TickInv, [Next]_vars
    PROVE  SentOnce'
<1> USE DEF TickInv, AheadInv
<1> SUFFICES ASSUME NEW i \in Handlers, NEW j \in Jobs, NEW t \in Time, Sends(i, j, t)'
             PROVE  /\ \A k \in Handlers : Sends(k, j, t)' => i = k
                    /\ \A l \in logs' : IsAuto(l, j, t) => h'[i].pc = "send" /\ l.shard > h'[i].left
  BY DEF SentOnce, IsAuto
<1>1. CASE Take(i) /\ Queued(i[1], j, t)
  <2>1. i[1] \in Nodes /\ logs' = logs /\ Handle(i)
    BY <1>1 DEF Take, Handlers, Handle
  <2>2. ~Logged(j, t) /\ \A k \in Handlers : ~Sends(k, j, t)
    BY <1>1, <2>1 DEF QueuedOnce
  <2>3. ASSUME NEW k \in Handlers, Sends(k, j, t)' PROVE i = k
    BY <2>1, <2>2, <2>3, SendsFrom
  <2>4. QED
    BY <2>1, <2>2, <2>3 DEF Logged
<1>2. CASE /\ Sends(i, j, t)
           /\ h[i].pc = "send" => h'[i].pc = "send" /\ h'[i].left <= h[i].left
  <2>1. ASSUME NEW k \in Handlers, Sends(k, j, t)' PROVE i = k
    <3>1. k[1] \in Nodes
      BY DEF Handlers
    <3>2. ~Queued(k[1], j, t)
      BY <1>2, <3>1 DEF QueuedOnce
    <3>3. Sends(k, j, t)
      BY <2>1, <3>2, SendsOrigin
    <3>4. QED
      BY <1>2, <3>3 DEF SentOnce
  <2>2. ASSUME NEW l \in logs', IsAuto(l, j, t)
        PROVE  h'[i].pc = "send" /\ l.shard > h'[i].left
    <3>1. h[i].left \in Nat /\ h'[i].left \in Nat
      <4>1. TypeInv'
        BY NextTyped
      <4>2. QED
        BY <4>1 DEF TypeInv, TypeOK
    <3>2. CASE \E m \in logs : IsAuto(m, j, t) /\ m.shard = l.shard
      <4>1. PICK m \in logs : IsAuto(m, j, t) /\ m.shard = l.shard
        BY <3>2
      <4>2. h[i].pc = "send" /\ m.shard > h[i].left
        BY <1>2, <4>1 DEF SentOnce
      <4>3. m.shard \in Nat
        BY RestTyped DEF Log
      <4>4. QED
        BY <1>2, <3>1, <4>1, <4>2, <4>3
    <3>3. CASE \E k \in Handlers : /\ Send(k) \/ SendFail(k)
                                   /\ Sends(k, j, t) /\ h[k].pc = "send" /\ l.shard = h[k].left
      <4>1. (Send(i) \/ SendFail(i)) /\ l.shard = h[i].left
        BY <1>2, <3>3 DEF SentOnce
      <4>2. h'[i].pc = "send" /\ h'[i].left = h[i].left - 1
        BY <4>1, Moved DEF Handle
      <4>3. QED
        BY <3>1, <4>1, <4>2
    <3>4. QED
      BY <2>2, <3>2, <3>3, LoggedFrom
  <2>3. QED
    BY <2>1, <2>2
<1>3. QED
  BY <1>1, <1>2, SendsOrigin

LEMMA SameTickStep ==
    ASSUME Assumptions, Punctual, TickInv, [Next]_vars
    PROVE  SameTickOnce'
<1> USE DEF TickInv, AheadInv
<1> SUFFICES ASSUME NEW l \in logs', NEW m \in logs', ~l.manual, ~m.manual, l.job = m.job,
                    l.at = m.at, l.shard = m.shard
             PROVE  l = m
  BY DEF SameTickOnce
<1> DEFINE j == l.job
           t == l.at
           Was(x) == \E y \in logs : IsAuto(y, j, t) /\ y.shard = x.shard /\ y.id = x.id
           Is(x, i) == /\ Send(i) \/ SendFail(i)
                       /\ Sends(i, j, t) /\ h[i].pc = "send" /\ x.shard = h[i].left
                       /\ x.id = Cardinality(logs) + 1
<1>1. IsAuto(l, j, t) /\ IsAuto(m, j, t)
  BY DEF IsAuto
<1>2. TypeInv' /\ \A x, y \in logs' : x.id = y.id => x = y
  BY NextTyped DEF TypeInv, TypeOK
<1>3. j \in Jobs /\ t \in Time /\ l.shard \in Nat
  BY <1>2 DEF TypeInv, TypeOK, Log
<1>4. \A x \in logs' : IsAuto(x, j, t) => Was(x) \/ \E i \in Handlers : Is(x, i)
  BY LoggedFrom
<1> HIDE DEF j, t
<1>5. CASE Was(l) /\ Was(m)
  <2>1. l.id = m.id
    BY <1>5 DEF SameTickOnce, IsAuto
  <2>2. QED
    BY <1>2, <2>1
<1>6. ASSUME NEW x \in logs', Was(x), NEW i \in Handlers, NEW y \in logs', Is(y, i),
             x.shard = y.shard
      PROVE  FALSE
  <2>1. PICK z \in logs : IsAuto(z, j, t) /\ z.shard = x.shard
    BY <1>6
  <2>2. z.shard > h[i].left /\ h[i].left = z.shard
    BY <1>3, <1>6, <2>1 DEF SentOnce
  <2>3. z.shard \in Nat
    BY RestTyped DEF Log
  <2>4. QED
    BY <2>2, <2>3
<1>7. CASE (\E i \in Handlers : Is(l, i)) /\ \E i \in Handlers : Is(m, i)
  BY <1>2, <1>7
<1>8. QED
  BY <1>1, <1>4, <1>5, <1>6, <1>7

LEMMA TickInvKept ==
    ASSUME Assumptions, Punctual, TickInv, [Next]_vars
    PROVE  TickInv'
<1>1. AheadInv' /\ Rows'
  BY AheadKept, RowSources DEF TickInv, Sources
<1>2. Past' /\ FiredOnce' /\ QueuedOnce' /\ SentOnce' /\ SameTickOnce'
  BY PastStep, FiredOnceStep, QueuedOnceStep, SentOnceStep, SameTickStep DEF TickInv
<1>3. QED
  BY <1>1, <1>2 DEF TickInv

LEMMA TickInvInitially ==
    ASSUME Assumptions, Init
    PROVE  TickInv
<1>1. AheadInv
  BY AheadInitially
<1>2. \A n \in Nodes : firing[n] = {} /\ queue[n] = <<>>
  BY DEF Init
<1>3. logs = {} /\ \A i \in Handlers : h[i].pc = "idle"
  BY IdleIsWorker DEF Init
<1>4. \A j \in Jobs, t \in Time :
         /\ ~Logged(j, t) /\ \A i \in Handlers : ~Sends(i, j, t)
         /\ \A n \in Nodes : ~Queued(n, j, t)
  BY <1>2, <1>3 DEF Queued, Logged, Sends
<1>5. Rows /\ SameTickOnce
  BY <1>3 DEF Rows, SameTickOnce
<1>6. Past /\ FiredOnce /\ SentOnce
  BY <1>2, <1>3, <1>4 DEF Past, Left, FiredOnce, SentOnce
<1>7. QueuedOnce
  BY <1>2, <1>4 DEF QueuedOnce
<1>8. QED
  BY <1>1, <1>5, <1>6, <1>7 DEF TickInv

\* One tick of a job is sent to one executor once, for any number of workers, jobs and
\* executors, whatever calls fail, crash the node or arrive out of order: on one node, whose
\* clock waits for it, and where StartJob gives no job a wheel entry in the past.
THEOREM TickIsSentOnce == Assumptions /\ Punctual => (Spec => []SameTickOnce)
<1> SUFFICES ASSUME Assumptions, Punctual PROVE Spec => []SameTickOnce
  OBVIOUS
<1>1. Init => TickInv
  BY TickInvInitially
<1>2. TickInv /\ [Next]_vars => TickInv'
  BY TickInvKept
<1>3. TickInv => SameTickOnce
  BY DEF TickInv
<1>4. QED
  BY <1>1, <1>2, <1>3, PTL DEF Spec

\* So the first instance of MCSchedulerCases sends each tick once.
THEOREM CasesSendOnce == Assumptions /\ Punctual => (CasesSpec => []SentOncePerTick)
<1> SUFFICES ASSUME Assumptions, Punctual PROVE CasesSpec => []SentOncePerTick
  OBVIOUS
<1> DEFINE Inv == case = "armed" => TickInv
<1>1. CasesInit => Inv
  BY TickInvInitially DEF CasesInit
<1>2. Inv /\ [CasesNext]_<<vars, case>> => Inv'
  <2> SUFFICES ASSUME Inv, [CasesNext]_<<vars, case>>, case' = "armed"
               PROVE  TickInv'
    OBVIOUS
  <2>1. case = "armed" /\ [Next]_vars
    BY DEF CasesNext
  <2>2. QED
    BY <2>1, TickInvKept
<1>3. Inv => SentOncePerTick
  BY DEF SentOncePerTick, TickInv
<1>4. QED
  BY <1>1, <1>2, <1>3, PTL DEF CasesSpec
-----------------------------------------------------------------------------
\* A running cron job is armed: what each step does to one node.

LEMMA ModeStep ==
    ASSUME Assumptions, TypeInv, [Next]_vars, NEW n \in Nodes
    PROVE  /\ mode'[n] = "on" => mode[n] = "on" \/ Start(n)
           /\ mode[n] = "crashed" => mode'[n] = "crashed"
<1>1. mode \in [Nodes -> {"off", "on", "stopping", "stopped", "crashed"}]
  BY DEF TypeInv, TypeOK
<1>2. CASE mode' = mode
  BY <1>2
<1>3. ASSUME NEW m \in Nodes, Start(m) \/ Stop(m)
      PROVE  /\ mode'[n] = "on" => mode[n] = "on" \/ Start(n)
             /\ mode[n] = "crashed" => mode'[n] = "crashed"
  BY <1>1, <1>3 DEF Start, Stop
<1>4. ASSUME NEW m \in Nodes, Crash(m)
      PROVE  mode'[n] = mode[n] \/ mode'[n] = "crashed"
  BY <1>1, <1>4 DEF Crash
<1>5. ASSUME NEW i \in Handlers, WorkerExit(i)
      PROVE  mode'[n] = mode[n] \/ (mode[n] = "stopping" /\ mode'[n] \in {"stopping", "stopped"})
  BY <1>5, ExitLeaves
<1>6. CASE UNCHANGED vars \/ Tick \/ \E l \in logs : CallReturns(l)
  BY <1>2, <1>6 DEF vars, Tick, CallReturns, calmVars
<1>7. ASSUME NEW m \in Nodes, NEW j \in Jobs, NodeMoves(m, j)
      PROVE  Start(m) \/ Stop(m) \/ mode' = mode
  BY <1>7, NodeLeaves
<1>8. ASSUME NEW i \in Handlers, Handle(i) PROVE mode' = mode
  BY <1>8, HandleLeaves
<1>9. QED
  BY <1>2, <1>3, <1>4, <1>5, <1>6, <1>7, <1>8, Splits

\* What becomes of one wheel entry.
LEMMA WheelStep ==
    ASSUME Assumptions, Punctual, AheadInv, [Next]_vars, NEW n \in Nodes, NEW j \in Jobs
    PROVE  \/ wheel'[n][j] = wheel[n][j]
           \/ wheel'[n][j] > now
           \/ mode[n] = "off" \/ mode'[n] = "crashed"
           \/ Fire(n, j)
           \/ CancelWheel(n) /\ manager[n].job = j
           \/ ServeCancel(n, j)
<1> USE DEF AheadInv
<1>1. wheel \in [Nodes -> [Jobs -> Time]] /\ \A m \in Nodes : m = n
  BY RestTyped DEF Punctual
<1>2. ASSUME CancelWheel(n) PROVE wheel'[n][j] = wheel[n][j] \/ manager[n].job = j
  <2>1. wheel' = wheel \/ wheel' = [wheel EXCEPT ![n][manager[n].job] = 0]
    BY <1>2 DEF CancelWheel
  <2>2. QED
    BY <1>1, <2>1
<1>3. ASSUME ArmWheel(n) PROVE wheel'[n][j] = wheel[n][j] \/ wheel'[n][j] > now
  <2>1. manager[n].at > now /\ wheel' = [wheel EXCEPT ![n][manager[n].job] = manager[n].at]
    BY <1>3 DEF ArmWheel, Ahead, Arming
  <2>2. QED
    BY <1>1, <2>1
<1>4. ASSUME NEW k \in Jobs, Fire(n, k) \/ ServeCancel(n, k)
      PROVE  wheel'[n][j] = wheel[n][j] \/ k = j
  BY <1>1, <1>4 DEF Fire, ServeCancel
<1>5. ASSUME Start(n) PROVE mode[n] = "off"
  BY <1>5 DEF Start
<1>6. ASSUME NEW i \in Handlers, ScheduleWheel(i)
      PROVE  wheel'[n][j] = wheel[n][j] \/ wheel'[n][j] > now
  <2>1. h[i].at > now /\ wheel' = [wheel EXCEPT ![i[1]][JobOf(i)] = h[i].at]
    BY <1>6 DEF ScheduleWheel, Ahead
  <2>2. QED
    BY <1>1, <2>1
<1>7. ASSUME NEW m \in Nodes, Crash(m) PROVE mode'[n] = "crashed"
  BY <1>1, <1>7, CrashLeaves
<1>8. CASE UNCHANGED vars \/ Tick \/ \E l \in logs : CallReturns(l)
  BY <1>8 DEF vars, Tick, CallReturns
<1>9. ASSUME NEW m \in Nodes, NEW k \in Jobs, NodeMoves(m, k)
      PROVE  /\ m = n
             /\ \/ Start(n) \/ CancelWheel(n) \/ ArmWheel(n) \/ Fire(n, k) \/ ServeCancel(n, k)
                \/ wheel' = wheel
  BY <1>1, <1>9, NodeLeaves
<1>10. ASSUME NEW i \in Handlers, Handle(i) \/ WorkerExit(i)
       PROVE  ScheduleWheel(i) \/ wheel' = wheel
  BY <1>10, HandleLeaves, ExitLeaves
<1>11. QED
  BY <1>2, <1>3, <1>4, <1>5, <1>6, <1>7, <1>8, <1>9, <1>10, Splits

\* The rows of the store: only a management call, or Start, makes a job run.
LEMMA StoreStep ==
    ASSUME Assumptions, Punctual, AheadInv, [Next]_vars, NEW n \in Nodes, NEW j \in Jobs
    PROVE  /\ Running(n, j)' =>
                 Running(n, j) \/ mode[n] = "off" \/ (Manage(n, j) /\ Arming(n, j)')
           /\ store'[n][j].in =>
                 \/ store[n][j].in /\ store'[n][j].next = store[n][j].next
                 \/ store'[n][j].next > now
                 \/ Start(n)
<1> USE DEF AheadInv
<1> DEFINE Goal == /\ Running(n, j)' =>
                         Running(n, j) \/ mode[n] = "off" \/ (Manage(n, j) /\ Arming(n, j)')
                   /\ store'[n][j].in =>
                         \/ store[n][j].in /\ store'[n][j].next = store[n][j].next
                         \/ store'[n][j].next > now
                         \/ Start(n)
<1>1. store \in [Nodes -> [Jobs -> Row]] /\ \A m \in Nodes : m = n
  BY RestTyped DEF Punctual
<1>2. CASE store'[n][j] = store[n][j]
  BY <1>2 DEF Running
<1>3. CASE Start(n)
  BY <1>3 DEF Start
<1>4. CASE Manage(n, j)
  BY <1>4, Managing
<1>5. ASSUME NEW i \in Handlers, Reschedule(i) PROVE Goal
  <2>1. NextTick(now) > now /\ i[1] \in Nodes /\ JobOf(i) \in Jobs
    BY Clock, RestTyped DEF Handlers, WorkerStates, Task, JobOf
  <2> DEFINE m == i[1]
             k == JobOf(i)
  <2>2. \/ store' = store
        \/ store[m][k].in /\ store' = [store EXCEPT ![m][k].run = FALSE]
        \/ store[m][k].in /\ store' = [store EXCEPT ![m][k].next = NextTick(now)]
    BY <1>5, <2>1, Rescheduled
  <2>3. m \in Nodes /\ k \in Jobs
    BY <2>1
  <2> HIDE DEF m, k
  <2>4. CASE store' = [store EXCEPT ![m][k].run = FALSE]
    <3>1. \/ store'[n][j] = store[n][j]
          \/ store'[n][j] = [store[n][j] EXCEPT !.run = FALSE]
      BY <1>1, <2>3, <2>4
    <3>2. store[n][j] \in Row
      BY <1>1
    <3>3. CASE store'[n][j] = [store[n][j] EXCEPT !.run = FALSE]
      <4>1. ~store'[n][j].run /\ store'[n][j].next = store[n][j].next
            /\ store'[n][j].in = store[n][j].in
        BY <3>2, <3>3 DEF Row
      <4>2. QED
        BY <4>1 DEF Running
    <3>4. QED
      BY <1>2, <3>1, <3>3
  <2>5. CASE store' = [store EXCEPT ![m][k].next = NextTick(now)]
    <3>1. \/ store'[n][j] = store[n][j]
          \/ store'[n][j] = [store[n][j] EXCEPT !.next = NextTick(now)]
      BY <1>1, <2>3, <2>5
    <3>2. store[n][j] \in Row
      BY <1>1
    <3>3. CASE store'[n][j] = [store[n][j] EXCEPT !.next = NextTick(now)]
      <4>1. store'[n][j].next = NextTick(now) /\ store'[n][j].in = store[n][j].in
            /\ store'[n][j].run = store[n][j].run
        BY <3>2, <3>3 DEF Row
      <4>2. QED
        BY <2>1, <4>1 DEF Running
    <3>4. QED
      BY <1>2, <3>1, <3>3
  <2>6. QED
    BY <1>2, <2>2, <2>4, <2>5
<1>6. ASSUME NEW m \in Nodes, Crash(m) PROVE Goal
  BY <1>1, <1>6, CrashLeaves DEF Running
<1>7. CASE UNCHANGED vars \/ Tick \/ \E l \in logs : CallReturns(l)
  BY <1>2, <1>7 DEF vars, Tick, CallReturns
<1>8. ASSUME NEW m \in Nodes, NEW k \in Jobs, NodeMoves(m, k) PROVE Goal
  <2>1. m = n
    BY <1>1
  <2>2. Start(n) \/ Manage(n, k) \/ store' = store
    BY <1>8, <2>1, NodeLeaves
  <2>3. k # j /\ Manage(n, k) => store'[n][j] = store[n][j]
    BY Managing
  <2>4. QED
    BY <1>2, <1>3, <1>4, <2>2, <2>3
<1>9. ASSUME NEW i \in Handlers, Handle(i) \/ WorkerExit(i) PROVE Reschedule(i) \/ store' = store
  BY <1>9, HandleLeaves, ExitLeaves
<1>10. QED
  BY <1>2, <1>5, <1>6, <1>7, <1>8, <1>9, Splits

\* A management call arms its job in the end.
LEMMA ArmingStep ==
    ASSUME Assumptions, Punctual, AheadInv, [Next]_vars, NEW n \in Nodes, NEW j \in Jobs,
           Arming(n, j)
    PROVE  Arming(n, j)' \/ wheel'[n][j] > now \/ mode'[n] = "crashed"
<1> USE DEF AheadInv
<1>1. manager \in [Nodes -> [pc : {"idle", "cancel", "arm"}, job : Jobs, arm : BOOLEAN, at : Time]]
      /\ wheel \in [Nodes -> [Jobs -> Time]] /\ \A m \in Nodes : m = n
  BY RestTyped DEF Punctual, TypeInv, TypeOK
<1>2. CASE manager' = manager
  BY <1>2 DEF Arming
<1>3. CASE CancelWheel(n)
  <2>1. manager[n].pc = "cancel" /\ manager[n].arm /\ manager[n].job = j
    BY <1>3 DEF CancelWheel, Arming
  <2>2. manager' = [manager EXCEPT ![n].pc = "arm"]
    BY <1>1, <1>3, <2>1 DEF CancelWheel
  <2>3. manager'[n].pc = "arm" /\ manager'[n].job = j
    BY <1>1, <2>1, <2>2
  <2>4. QED
    BY <2>3 DEF Arming
<1>4. CASE ArmWheel(n)
  <2>1. manager[n].job = j /\ manager[n].at > now
    BY DEF Arming, Ahead
  <2>2. wheel'[n][j] = manager[n].at
    BY <1>1, <1>4, <2>1 DEF ArmWheel
  <2>3. QED
    BY <2>1, <2>2
<1>5. ASSUME NEW k \in Jobs PROVE ~Manage(n, k)
  BY Managing DEF Arming
<1>6. ASSUME NEW m \in Nodes, Crash(m) PROVE mode'[n] = "crashed"
  BY <1>1, <1>6, CrashLeaves
<1>7. CASE UNCHANGED vars \/ Tick \/ \E l \in logs : CallReturns(l)
  BY <1>2, <1>7 DEF vars, Tick, CallReturns, calmVars
<1>8. ASSUME NEW m \in Nodes, NEW k \in Jobs, NodeMoves(m, k)
      PROVE  CancelWheel(n) \/ ArmWheel(n) \/ manager' = manager
  BY <1>1, <1>5, <1>8, NodeLeaves
<1>9. ASSUME NEW i \in Handlers, Handle(i) \/ WorkerExit(i) PROVE manager' = manager
  BY <1>9, HandleLeaves, ExitLeaves
<1>10. QED
  BY <1>2, <1>3, <1>4, <1>6, <1>7, <1>8, <1>9, Splits

LEMMA FiringKept ==
    ASSUME Assumptions, TypeInv, [Next]_vars, NEW n \in Nodes, NEW j \in Jobs, NEW t \in Time,
           <<j, t>> \in firing[n]
    PROVE  <<j, t>> \in firing'[n] \/ Callback(n, j, t) \/ mode'[n] = "crashed"
<1>1. firing \in [Nodes -> SUBSET (Jobs \X Time)]
  BY DEF TypeInv, TypeOK
<1>2. ASSUME NEW m \in Nodes, NEW k \in Jobs, Fire(m, k)
      PROVE  <<j, t>> \in firing'[n]
  BY <1>1, <1>2 DEF Fire
<1>3. ASSUME NEW m \in Nodes, NEW k \in Jobs, NEW u \in Time, Callback(m, k, u)
      PROVE  <<j, t>> \in firing'[n] \/ Callback(n, j, t)
  BY <1>1, <1>3 DEF Callback
<1>4. ASSUME NEW m \in Nodes, Crash(m) PROVE <<j, t>> \in firing'[n] \/ mode'[n] = "crashed"
  <2>1. CASE m = n
    BY <1>4, <2>1, CrashLeaves
  <2>2. CASE m # n
    BY <1>1, <1>4, <2>2 DEF Crash
  <2>3. QED
    BY <2>1, <2>2
<1>5. CASE UNCHANGED vars \/ Tick \/ \E l \in logs : CallReturns(l)
  BY <1>5 DEF vars, Tick, CallReturns, calmVars
<1>6. ASSUME NEW m \in Nodes, NEW k \in Jobs, NodeMoves(m, k)
      PROVE  firing' = firing \/ Fire(m, k) \/ \E u \in Time : Callback(m, k, u)
  BY <1>6, NodeLeaves
<1>7. ASSUME NEW i \in Handlers, Handle(i) \/ WorkerExit(i) PROVE firing' = firing
  BY <1>7, HandleLeaves, ExitLeaves
<1>8. QED
  BY <1>2, <1>3, <1>4, <1>5, <1>6, <1>7, Splits

LEMMA WorkerStep ==
    ASSUME Assumptions, TypeInv, [Next]_vars, NEW k \in Handlers,
           h[k].pc \notin {"idle", "gone"} \/ h'[k].pc \notin {"idle", "gone"}
    PROVE  h'[k] = h[k] \/ Handle(k) \/ mode'[k[1]] = "crashed"
<1>1. ASSUME NEW i \in Handlers, Handle(i) PROVE h'[k] = h[k] \/ Handle(k)
  BY <1>1, Moved
<1>2. ASSUME NEW i \in Handlers, WorkerExit(i) PROVE h'[k] = h[k]
  BY <1>2, ExitLeaves
<1>3. ASSUME NEW n \in Nodes, Crash(n) PROVE h'[k] = h[k] \/ mode'[k[1]] = "crashed"
  BY <1>3, CrashLeaves
<1>4. CASE UNCHANGED vars \/ Tick \/ \E l \in logs : CallReturns(l)
  BY <1>4 DEF vars, Tick, CallReturns
<1>5. QED
  BY <1>1, <1>2, <1>3, <1>4, Splits, NodeMovesKeep
-----------------------------------------------------------------------------
\* A running cron job is armed: the invariant.

\* No call fails, the wheel keeps the order of the calls, and the queue has room.
Undisturbed ==
    /\ Punctual
    /\ InOrder /\ ~Failing
    /\ IsFiniteSet(Jobs) /\ QueueCap >= Cardinality(Jobs) + MaxManual

Timed ==
    /\ \A j \in Jobs : table[j].in => table[j].next # 0
    /\ \A n \in Nodes, j \in Jobs : store[n][j].in => store[n][j].next # 0

NoneLate == \A i \in Handlers : Busy(i) => h[i].due > now

\* A lock that is held is held by a worker of the node.
HeldInside ==
    \A n \in Nodes, j \in Jobs : mode[n] # "crashed" /\ Held(j) =>
        \E i \in Handlers : i[1] = n /\ h[i].pc \in Inside /\ JobOf(i) = j

\* A worker about to release the lock of a running cron job has given the job an entry.
Rearmed ==
    \A i \in Handlers :
        mode[i[1]] # "crashed" /\ h[i].pc = "release" /\ CronOf[JobOf(i)] = "every" =>
        \/ ~Running(i[1], JobOf(i)) \/ Arming(i[1], JobOf(i))
        \/ wheel[i[1]][JobOf(i)] > now

\* A cancel that no Add follows is about a job that does not run.
Dropped ==
    \A n \in Nodes : /\ cancels[n] = {}
                     /\ manager[n].pc = "cancel" /\ ~manager[n].arm
                           => ~Running(n, manager[n].job)

NotDue(n, j) == wheel[n][j] = 0 \/ wheel[n][j] > now

OneFiring ==
    \A n \in Nodes : \A e, f \in firing[n] :
        NotDue(n, e[1]) /\ (e[1] = f[1] => e = f)

\* The jobs that will ask for a place in the queue before time goes on.
Pending(n) == {j \in Jobs : ~NotDue(n, j) \/ \E t \in Time : <<j, t>> \in firing[n]}

Room ==
    \A n \in Nodes : mode[n] = "on" =>
        Len(queue[n]) + Cardinality(Pending(n)) <= manuals + Cardinality(Jobs)

ArmInv ==
    /\ AheadInv /\ Timed /\ NoneLate /\ HeldInside /\ Rearmed /\ Dropped /\ OneFiring /\ Room
    /\ RunningJobIsArmed

LEMMA TimedStep ==
    ASSUME Assumptions, Punctual, AheadInv, Timed, [Next]_vars
    PROVE  Timed'
<1>1. now \in Nat
  BY Clock DEF AheadInv
<1>2. ASSUME NEW n \in Nodes, NEW j \in Jobs, store'[n][j].in PROVE store'[n][j].next # 0
  <2>1. CASE Start(n)
    <3>1. \/ store'[n][j] = table[j] \/ store'[n][j] = store[n][j]
      BY <2>1, RestTyped DEF Start, AheadInv
    <3>2. QED
      BY <1>2, <3>1 DEF Timed
  <2>2. CASE store[n][j].in /\ store'[n][j].next = store[n][j].next
    BY <2>2 DEF Timed
  <2>3. CASE store'[n][j].next > now
    BY <1>1, <2>3
  <2>4. QED
    BY <1>2, <2>1, <2>2, <2>3, StoreStep
<1>3. ASSUME NEW j \in Jobs, table'[j].in PROVE table'[j].next # 0
  <2>1. CASE table' = table
    BY <1>3, <2>1 DEF Timed
  <2>2. ASSUME NEW n \in Nodes, NEW k \in Jobs, Flush(n, k) PROVE table'[j].next # 0
    <3>1. table'[j] = table[j] \/ table'[j] = store[n][j]
      BY <2>2 DEF Flush, AheadInv, TypeInv, TypeOK
    <3>2. QED
      BY <1>3, <3>1 DEF Timed
  <2>3. ASSUME NEW n \in Nodes, Crash(n) PROVE table' = table
    BY <2>3, CrashLeaves DEF AheadInv
  <2>4. CASE UNCHANGED vars \/ Tick \/ \E l \in logs : CallReturns(l)
    BY <2>1, <2>4 DEF vars, Tick, CallReturns, calmVars
  <2>5. ASSUME NEW i \in Handlers, Handle(i) \/ WorkerExit(i) PROVE table' = table
    BY <2>5, HandleLeaves, ExitLeaves DEF AheadInv
  <2>6. QED
    BY <2>1, <2>2, <2>3, <2>4, <2>5, Splits, NodeLeaves
<1>4. QED
  BY <1>2, <1>3 DEF Timed

\* Before the clock moves every worker is done.
LEMMA StillOrBusy ==
    ASSUME Punctual, [Next]_vars
    PROVE  \/ now' = now
           \/ /\ Tick /\ Quiet /\ now' = now + 1
              /\ UNCHANGED <<mode, table, store, wheel, cancels, firing, queue, h, manager, lock,
                             logs, manuals, ops>>
BY ClockStands, TickIsQuiet

LEMMA NoneLateStep ==
    ASSUME Assumptions, Punctual, AheadInv, NoneLate, [Next]_vars
    PROVE  NoneLate'
<1> USE DEF AheadInv
<1> SUFFICES ASSUME NEW k \in Handlers, h'[k].pc \notin {"idle", "gone"} PROVE h'[k].due > now'
  BY DEF NoneLate, Busy
<1>1. CASE Tick
  BY <1>1, TickIsQuiet DEF Quiet, Busy
<1>2. CASE h'[k] = h[k] /\ now' = now
  BY <1>2 DEF NoneLate, Busy
<1>3. ASSUME NEW n \in Nodes, Crash(n) PROVE h'[k] = h[k] /\ now' = now
  BY <1>3, CrashLeaves
<1>4. ASSUME NEW i \in Handlers, WorkerExit(i) PROVE h'[k] = h[k] /\ now' = now
  BY <1>4, ExitLeaves
<1>5. CASE UNCHANGED vars \/ \E l \in logs : CallReturns(l)
  BY <1>2, <1>5 DEF vars, CallReturns, calmVars
<1>6. CASE Handle(k)
  <2>1. now' = now /\ now \in Nat
    BY <1>6, HandleLeaves, Clock
  <2>2. CASE Take(k)
    <3>1. h'[k] = [pc |-> "lock", task |-> Head(queue[k[1]]), due |-> now + Deadline,
                   left |-> 0, at |-> 0]
      BY <1>6, <2>2, Moved
    <3>2. h'[k].due = now + Deadline
      BY <3>1
    <3>3. Deadline \in Nat /\ Deadline # 0
      BY DEF Assumptions, SchedulerAssumption
    <3>4. QED
      BY <2>1, <3>2, <3>3
  <2>3. CASE ~Take(k)
    <3>1. h[k].pc \notin {"idle", "gone"}
      BY <1>6, <2>3 DEF Handle, TryLock, TryLockFail, Limit, Pass, DiscardTrigger, Send,
                        SendFail, SendEnd, Reschedule, GetFresh, ScheduleWheel, ReleaseLock
    <3>2. h'[k].due = h[k].due
      BY <1>6, <2>3, Moved DEF Handle, Went, GoesOn
    <3>3. QED
      BY <2>1, <3>1, <3>2 DEF NoneLate, Busy
  <2>4. QED
    BY <2>2, <2>3
<1>7. ASSUME NEW i \in Handlers, Handle(i) PROVE Handle(k) \/ (h'[k] = h[k] /\ now' = now)
  BY <1>7, Moved, HandleLeaves
<1>8. QED
  BY <1>1, <1>2, <1>3, <1>4, <1>5, <1>6, <1>7, Splits, NodeMovesKeep

\* How the worker of a task goes on with it: it stays inside, or frees the lock.
LEMMA InsideStep ==
    ASSUME Assumptions, Undisturbed, AheadInv, NoneLate, NEW i \in Handlers, Handle(i),
           h[i].pc \in Inside
    PROVE  \/ h'[i].pc \in Inside /\ h'[i].task = h[i].task
           \/ ReleaseLock(i) /\ lock' = [lock EXCEPT ![JobOf(i)] = Free]
<1> USE DEF AheadInv
<1>1. CASE ReleaseLock(i)
  <2>1. h[i].due > now /\ h[i].due \in Int /\ now \in Int
    BY <1>1, RestTyped DEF ReleaseLock, NoneLate, Busy, WorkerStates
  <2>2. ~Expired(i) /\ lock[JobOf(i)].by = i
    BY <2>1 DEF Expired, TypeInv, IInv, Locked
  <2>3. QED
    BY <1>1, <2>2 DEF ReleaseLock, Undisturbed
<1>2. CASE Limit(i) \/ Pass(i) \/ DiscardTrigger(i) \/ Send(i) \/ SendFail(i) \/ SendEnd(i)
  BY <1>2, Moved DEF Went, GoesOn, Inside
<1>3. CASE Reschedule(i) \/ GetFresh(i) \/ ScheduleWheel(i)
  <2>1. CASE Reschedule(i)
    BY <2>1, Moved DEF Went, Inside
  <2>2. CASE GetFresh(i)
    BY <2>2, Moved DEF GoesOn, Inside
  <2>3. CASE ScheduleWheel(i)
    BY <2>3, Moved DEF Went, Inside
  <2>4. QED
    BY <1>3, <2>1, <2>2, <2>3
<1>4. ~Take(i) /\ ~TryLock(i) /\ ~TryLockFail(i)
  BY DEF Take, TryLock, TryLockFail, Inside
<1>5. QED
  BY <1>1, <1>2, <1>3, <1>4 DEF Handle

LEMMA HeldInsideStep ==
    ASSUME Assumptions, Undisturbed, AheadInv, NoneLate, HeldInside, [Next]_vars
    PROVE  HeldInside'
<1> USE DEF AheadInv
<1>1. Punctual
  BY DEF Undisturbed
<1> SUFFICES ASSUME NEW n \in Nodes, NEW j \in Jobs, mode'[n] # "crashed", Held(j)'
             PROVE  \E i \in Handlers : i[1] = n /\ h'[i].pc \in Inside /\ h'[i].task.job = j
  BY DEF HeldInside, JobOf
<1>2. mode[n] # "crashed" /\ \A m \in Nodes : m = n
  BY <1>1, ModeStep DEF Punctual
<1>3. \A k \in Handlers : k[1] = n
  BY <1>2 DEF Handlers
<1>4. now \in Nat /\ lock \in [Jobs -> [by : Handlers \cup {NoHandler}, until : Nat]]
  BY Clock, RestTyped
<1>5. ASSUME NEW i \in Handlers, TryLock(i), JobOf(i) = j
      PROVE  h'[i].pc \in Inside /\ h'[i].task.job = j
  BY <1>5, Moved DEF Handle, Went, Inside, JobOf
<1>6. Held(j) \/ \E i \in Handlers : TryLock(i) /\ JobOf(i) = j
  <2>1. CASE Tick
    BY <1>4, <2>1 DEF Tick, Held
  <2>2. ASSUME NEW i \in Handlers, TryLock(i)
        PROVE  Held(j) \/ JobOf(i) = j
    <3>1. lock'[j] = lock[j] \/ JobOf(i) = j
      BY <1>4, <2>2 DEF TryLock
    <3>2. now' = now
      BY <2>2 DEF TryLock, calmVars
    <3>3. QED
      BY <3>1, <3>2 DEF Held
  <2>3. ASSUME NEW i \in Handlers, ReleaseLock(i) PROVE Held(j)
    <3>1. now' = now
      BY <2>3 DEF ReleaseLock, calmVars
    <3>2. lock' = lock \/ lock' = [lock EXCEPT ![JobOf(i)] = Free]
      BY <2>3 DEF ReleaseLock
    <3>3. lock'[j] = lock[j] \/ lock'[j] = Free
      BY <1>4, <3>2
    <3>4. Free.until = 0
      BY DEF Free
    <3>5. QED
      BY <1>4, <3>1, <3>3, <3>4 DEF Held
  <2>4. CASE lock' = lock /\ now' = now
    BY <2>4 DEF Held
  <2>5. ASSUME NEW i \in Handlers, Handle(i)
        PROVE  TryLock(i) \/ ReleaseLock(i) \/ (lock' = lock /\ now' = now)
    BY <2>5, HandleLeaves
  <2>6. ASSUME NEW m \in Nodes, Crash(m) PROVE lock' = lock /\ now' = now
    BY <2>6, CrashLeaves
  <2>7. CASE UNCHANGED vars \/ \E l \in logs : CallReturns(l)
    BY <2>4, <2>7 DEF vars, CallReturns, calmVars
  <2>8. ASSUME NEW i \in Handlers, WorkerExit(i) PROVE lock' = lock /\ now' = now
    BY <2>8, ExitLeaves
  <2>9. QED
    BY <2>1, <2>2, <2>3, <2>4, <2>5, <2>6, <2>7, <2>8, Splits, NodeMovesKeep
<1>7. CASE Held(j)
  <2>1. PICK i \in Handlers : i[1] = n /\ h[i].pc \in Inside /\ JobOf(i) = j
    BY <1>2, <1>7 DEF HeldInside
  <2>2. CASE h'[i] = h[i]
    BY <2>1, <2>2 DEF JobOf
  <2>3. CASE Handle(i)
    <3>1. CASE ReleaseLock(i) /\ lock' = [lock EXCEPT ![JobOf(i)] = Free]
      <4>1. lock'[j] = Free /\ now' = now
        BY <1>4, <2>1, <3>1 DEF ReleaseLock, calmVars
      <4>2. Free.until = 0
        BY DEF Free
      <4>3. QED
        BY <1>4, <4>1, <4>2 DEF Held
    <3>2. CASE h'[i].pc \in Inside /\ h'[i].task = h[i].task
      BY <2>1, <3>2 DEF JobOf
    <3>3. QED
      BY <2>1, <2>3, <3>1, <3>2, InsideStep
  <2>4. h[i].pc \notin {"idle", "gone"}
    BY <2>1 DEF Inside
  <2>5. QED
    BY <1>3, <2>2, <2>3, <2>4, WorkerStep
<1>8. QED
  BY <1>3, <1>5, <1>6, <1>7

LEMMA DroppedStep ==
    ASSUME Assumptions, Undisturbed, AheadInv, Dropped, [Next]_vars
    PROVE  Dropped'
<1> USE DEF AheadInv
<1>1. Punctual
  BY DEF Undisturbed
<1> SUFFICES ASSUME NEW n \in Nodes
             PROVE  /\ cancels'[n] = {}
                    /\ manager'[n].pc = "cancel" /\ ~manager'[n].arm
                          => ~Running(n, manager[n].job)'
  BY DEF Dropped
<1>2. \A m \in Nodes : m = n
  BY <1>1 DEF Punctual
<1>3. manager[n] \in [pc : {"idle", "cancel", "arm"}, job : Jobs, arm : BOOLEAN, at : Time]
  BY DEF TypeInv, TypeOK
<1>4. CASE cancels' = cancels /\ manager' = manager
  <2>1. ASSUME manager[n].pc = "cancel", ~manager[n].arm PROVE ~Running(n, manager[n].job)'
    <3>1. ~Running(n, manager[n].job) /\ manager'[n].job = manager[n].job /\ manager[n].job \in Jobs
      BY <1>3, <1>4, <2>1 DEF Dropped
    <3>2. mode[n] # "off"
      BY <2>1 DEF Unstarted
    <3>3. ~ Manage(n, manager[n].job)
      BY <1>1, <2>1, <3>1, Managing
    <3>4. ASSUME NEW j \in Jobs, j = manager[n].job PROVE ~Running(n, j)'
      BY <1>1, <3>1, <3>2, <3>3, <3>4, StoreStep
    <3>5. QED
      BY <3>1, <3>4 DEF Running
  <2>2. QED
    BY <1>4, <2>1 DEF Dropped
<1>5. CASE CancelWheel(n)
  <2>1. cancels' = cancels
    BY <1>5 DEF CancelWheel, Undisturbed
  <2>2. manager'[n] = IF manager[n].arm THEN [manager[n] EXCEPT !.pc = "arm"] ELSE NoCall
    BY <1>5 DEF CancelWheel, TypeInv, TypeOK
  <2>3. NoCall.pc = "idle"
    BY DEF NoCall
  <2>4. manager'[n].pc # "cancel"
    BY <1>3, <2>2, <2>3
  <2>5. QED
    BY <2>1, <2>4 DEF Dropped
<1>6. CASE ArmWheel(n)
  <2>1. cancels' = cancels /\ manager'[n] = NoCall /\ NoCall.pc = "idle"
    BY <1>6 DEF ArmWheel, NoCall, TypeInv, TypeOK
  <2>2. QED
    BY <2>1 DEF Dropped
<1>7. ASSUME NEW j \in Jobs, Manage(n, j)
      PROVE  /\ cancels'[n] = {}
             /\ manager'[n].pc = "cancel" /\ ~manager'[n].arm
                   => ~Running(n, manager[n].job)'
  <2>1. cancels' = cancels
    BY <1>7 DEF Manage, AddJob, UpdateJob, RemoveJob, StartJob, StopJob, Call
  <2>2. manager'[n].job = j /\ (Running(n, j)' => Arming(n, j)')
    BY <1>1, <1>7, Managing
  <2>3. QED
    BY <2>1, <2>2 DEF Dropped, Arming, Running
<1>8. ASSUME NEW j \in Jobs PROVE ~ServeCancel(n, j)
  BY DEF ServeCancel, Dropped
<1>9. ASSUME NEW m \in Nodes, Crash(m)
      PROVE  cancels'[n] = {} /\ manager'[n].pc = "idle"
  BY <1>2, <1>9, CrashLeaves
<1>10. CASE UNCHANGED vars \/ Tick \/ \E l \in logs : CallReturns(l)
  BY <1>4, <1>10 DEF vars, Tick, CallReturns, calmVars
<1>11. ASSUME NEW m \in Nodes, NEW j \in Jobs, NodeMoves(m, j)
       PROVE  \/ CancelWheel(n) \/ ArmWheel(n) \/ Manage(n, j)
              \/ cancels' = cancels /\ manager' = manager
  BY <1>2, <1>8, <1>11, NodeLeaves
<1>12. ASSUME NEW i \in Handlers, Handle(i) \/ WorkerExit(i)
       PROVE  cancels' = cancels /\ manager' = manager
  BY <1>12, HandleLeaves, ExitLeaves
<1>13. QED
  BY <1>4, <1>5, <1>6, <1>7, <1>9, <1>10, <1>11, <1>12, Splits

LEMMA OneFiringStep ==
    ASSUME Assumptions, Punctual, AheadInv, OneFiring, [Next]_vars
    PROVE  OneFiring'
<1> USE DEF AheadInv
<1> SUFFICES ASSUME NEW n \in Nodes, NEW e \in firing'[n], NEW f \in firing'[n]
             PROVE  NotDue(n, e[1])' /\ (e[1] = f[1] => e = f)
  BY DEF OneFiring, NotDue
<1>1. firing[n] \subseteq Jobs \X Time /\ firing'[n] \subseteq Jobs \X Time
  <2>1. TypeInv'
    BY NextTyped
  <2>2. QED
    BY <2>1 DEF TypeInv, TypeOK
<1>2. ASSUME NEW g \in firing'[n] PROVE g[1] \in Jobs /\ g[2] \in Time /\ g = <<g[1], g[2]>>
  BY <1>1, <1>2
<1>3. ASSUME NEW g \in firing'[n]
      PROVE  g \in firing[n] \/ (Fire(n, g[1]) /\ g[2] = wheel[n][g[1]])
  <2>1. ASSUME NEW j \in Jobs, NEW t \in Time, g = <<j, t>>
        PROVE  g \in firing[n] \/ (Fire(n, g[1]) /\ g[2] = wheel[n][g[1]])
    BY <2>1, <1>3, FiringFrom
  <2>2. QED
    BY <1>2, <1>3, <2>1
<1>4. ASSUME NEW j \in Jobs, Fire(n, j)
      PROVE  /\ wheel'[n][j] = 0 /\ ~NotDue(n, j)
             /\ \A k \in Jobs : Fire(n, k) => k = j
  <2>1. wheel[n][j] # 0 /\ wheel[n][j] <= now /\ wheel[n][j] \in Int /\ now \in Int
    BY <1>4, Clock DEF Fire, TypeInv, TypeOK, Time, Assumptions, SchedulerAssumption
  <2>2. wheel'[n][j] = 0
    BY <1>4, RestTyped DEF Fire
  <2>3. ASSUME NEW k \in Jobs, Fire(n, k), k # j PROVE FALSE
    <3>1. wheel'[n][j] = wheel[n][j]
      BY <2>3, RestTyped DEF Fire
    <3>2. QED
      BY <2>1, <2>2, <3>1
  <2>4. QED
    BY <2>1, <2>2, <2>3 DEF NotDue
<1>5. e[1] = f[1] => e = f
  <2> SUFFICES ASSUME e[1] = f[1] PROVE e = f
    OBVIOUS
  <2>1. CASE e \in firing[n] /\ f \in firing[n]
    BY <2>1 DEF OneFiring
  <2>2. CASE Fire(n, e[1]) /\ e[2] = wheel[n][e[1]]
    <3>1. ~NotDue(n, e[1])
      BY <1>2, <1>4, <2>2
    <3>2. f \notin firing[n]
      BY <3>1 DEF OneFiring
    <3>3. f[2] = wheel[n][f[1]]
      BY <1>3, <3>2
    <3>4. QED
      BY <1>2, <2>2, <3>3
  <2>3. CASE Fire(n, f[1]) /\ f[2] = wheel[n][f[1]]
    <3>1. ~NotDue(n, f[1])
      BY <1>2, <1>4, <2>3
    <3>2. e \notin firing[n]
      BY <3>1 DEF OneFiring
    <3>3. e[2] = wheel[n][e[1]]
      BY <1>3, <3>2
    <3>4. QED
      BY <1>2, <2>3, <3>3
  <2>4. QED
    BY <1>3, <2>1, <2>2, <2>3
<1>6. NotDue(n, e[1])'
  <2>1. CASE Fire(n, e[1])
    BY <1>2, <1>4, <2>1 DEF NotDue
  <2>2. CASE e \in firing[n]
    <3>1. NotDue(n, e[1]) /\ now' = now
      BY <2>2, StillOrBusy DEF OneFiring, Quiet
    <3>2. mode[n] # "off"
      BY <2>2 DEF Unstarted
    <3>3. wheel'[n][e[1]] = wheel[n][e[1]] \/ wheel'[n][e[1]] = 0 \/ wheel'[n][e[1]] > now
      BY <1>2, <3>2, WheelFrom
    <3>4. QED
      BY <3>1, <3>3 DEF NotDue
  <2>3. QED
    BY <1>3, <2>1, <2>2
<1>7. QED
  BY <1>5, <1>6

\* What is left of a cron job that a worker has rescheduled stays.
LEMMA StaysRearmed ==
    ASSUME Assumptions, Undisturbed, AheadInv, Dropped, [Next]_vars, NEW n \in Nodes,
           NEW j \in Jobs, mode[n] # "off", mode'[n] # "crashed", ~Tick,
           ~Running(n, j) \/ Arming(n, j) \/ wheel[n][j] > now
    PROVE  ~Running(n, j)' \/ Arming(n, j)' \/ wheel'[n][j] > now'
<1>1. Punctual /\ now' = now
  BY StillOrBusy DEF Undisturbed
<1>2. CASE ~Running(n, j)
  BY <1>1, <1>2, StoreStep
<1>3. CASE Arming(n, j)
  BY <1>1, <1>3, ArmingStep
<1>4. CASE wheel[n][j] > now /\ ~Arming(n, j)
  <2>1. ~Fire(n, j) /\ ~ServeCancel(n, j)
    <3>1. wheel[n][j] \in Int /\ now \in Int
      BY Clock DEF AheadInv, TypeInv, TypeOK, Time, Assumptions, SchedulerAssumption
    <3>2. QED
      BY <1>4, <3>1 DEF Fire, ServeCancel, Dropped
  <2>2. CASE CancelWheel(n) /\ manager[n].job = j
    <3>1. ~Running(n, j)
      BY <1>4, <2>2 DEF CancelWheel, Arming, Dropped
    <3>2. QED
      BY <1>1, <3>1, StoreStep
  <2>3. QED
    BY <1>1, <1>4, <2>1, <2>2, WheelStep
<1>5. QED
  BY <1>2, <1>3, <1>4

LEMMA RearmedStep ==
    ASSUME Assumptions, Undisturbed, AheadInv, Dropped, Rearmed, [Next]_vars
    PROVE  Rearmed'
<1> USE DEF AheadInv
<1>1. Punctual
  BY DEF Undisturbed
<1> SUFFICES ASSUME NEW i \in Handlers, NEW n \in Nodes, NEW j \in Jobs, n = i[1],
                    j = h'[i].task.job, mode'[n] # "crashed", h'[i].pc = "release",
                    CronOf[j] = "every"
             PROVE  ~Running(n, j)' \/ Arming(n, j)' \/ wheel'[n][j] > now'
  <2>1. \A i \in Handlers : i[1] \in Nodes /\ h'[i].task.job \in Jobs
    <3>1. TypeInv'
      BY NextTyped
    <3>2. \A i \in Handlers : h'[i].task \in Task
      BY <3>1 DEF TypeInv, TypeOK
    <3>3. QED
      BY <3>2 DEF Task, Handlers
  <2>2. QED
    BY <2>1 DEF Rearmed, JobOf, Running, Arming
<1>2. ~Tick
  BY <1>1, TickIsQuiet DEF Quiet, Busy
<1>3. now' = now
  BY <1>1, <1>2, StillOrBusy
<1>4. CASE h'[i] = h[i]
  <2>1. mode[n] # "off" /\ mode[n] # "crashed"
    BY <1>4, ModeStep DEF Unstarted
  <2>2. JobOf(i) = j /\ h[i].pc = "release"
    BY <1>4 DEF JobOf
  <2>3. ~Running(n, j) \/ Arming(n, j) \/ wheel[n][j] > now
    BY <2>1, <2>2 DEF Rearmed
  <2>4. QED
    BY <1>2, <2>1, <2>3, StaysRearmed
<1>5. CASE ScheduleWheel(i)
  <2>1. h'[i].task = h[i].task /\ h[i].at > now
    BY <1>5, Moved DEF Handle, Went, Ahead, ScheduleWheel
  <2>2. wheel'[n][j] = h[i].at
    BY <1>5, <2>1, RestTyped DEF ScheduleWheel, JobOf
  <2>3. QED
    BY <1>3, <2>1, <2>2
<1>6. CASE GetFresh(i)
  <2>1. h'[i].task = h[i].task /\ store' = store
    BY <1>6, Moved DEF Handle, GoesOn, GetFresh
  <2>2. ~(store[n][j].in /\ store[n][j].run)
    BY <1>6, <2>1, Moved DEF Handle, JobOf
  <2>3. QED
    BY <2>1, <2>2 DEF Running
<1>7. CASE Handle(i) /\ ~ScheduleWheel(i) /\ ~GetFresh(i)
  <2>1. CASE Reschedule(i)
    <3>1. h'[i].task = h[i].task
      BY <2>1, Moved DEF Handle, Went
    <3>2. h'[i].pc = "get"
      BY <2>1, <3>1, Moved DEF Handle, Went, JobOf
    <3>3. QED
      BY <3>2
  <2>2. CASE Take(i)
    <3>1. h'[i] = [pc |-> "lock", task |-> Head(queue[i[1]]), due |-> now + Deadline,
                   left |-> 0, at |-> 0]
      BY <2>2, Moved DEF Handle
    <3>2. h'[i].pc = "lock"
      BY <3>1
    <3>3. QED
      BY <3>2
  <2>3. CASE TryLock(i) \/ TryLockFail(i) \/ Limit(i) \/ Pass(i) \/ DiscardTrigger(i)
    BY <2>3, Moved DEF Handle, Went
  <2>4. CASE Send(i) \/ SendFail(i) \/ SendEnd(i) \/ ReleaseLock(i)
    BY <2>4, Moved DEF Handle, Went
  <2>5. QED
    BY <1>7, <2>1, <2>2, <2>3, <2>4 DEF Handle
<1>8. QED
  BY <1>4, <1>5, <1>6, <1>7, WorkerStep

\* A set that loses an element, or none.
LEMMA Fewer ==
    ASSUME NEW A, NEW B, IsFiniteSet(A), B \subseteq A
    PROVE  /\ IsFiniteSet(B) /\ Cardinality(B) \in Nat /\ Cardinality(A) \in Nat
           /\ Cardinality(B) <= Cardinality(A)
           /\ \A x \in A : x \notin B => Cardinality(B) + 1 <= Cardinality(A)
<1>1. /\ IsFiniteSet(B) /\ Cardinality(B) \in Nat /\ Cardinality(A) \in Nat
      /\ Cardinality(B) <= Cardinality(A)
  BY FS_Subset, FS_CardinalityType
<1>2. ASSUME NEW x \in A, x \notin B PROVE Cardinality(B) + 1 <= Cardinality(A)
  <2>1. B \subseteq A \ {x} /\ IsFiniteSet(A \ {x}) /\ Cardinality(A \ {x}) = Cardinality(A) - 1
    BY <1>2, FS_RemoveElement
  <2>2. Cardinality(B) <= Cardinality(A \ {x})
    BY <2>1, FS_Subset
  <2>3. QED
    BY <1>1, <2>1, <2>2
<1>3. QED
  BY <1>1, <1>2

\* While the clock stands, jobs only leave Pending.
LEMMA PendingStep ==
    ASSUME Assumptions, Punctual, AheadInv, OneFiring, [Next]_vars, NEW n \in Nodes,
           mode[n] # "off", now' = now
    PROVE  /\ Pending(n)' \subseteq Pending(n)
           /\ \A j \in Jobs, t \in Time :
                 Callback(n, j, t) => j \in Pending(n) /\ j \notin Pending(n)'
<1> USE DEF AheadInv
<1>1. ASSUME NEW j \in Jobs, j \in Pending(n)' PROVE j \in Pending(n)
  <2>1. CASE ~NotDue(n, j)'
    <3>1. wheel'[n][j] = wheel[n][j]
      BY <2>1, WheelFrom DEF NotDue
    <3>2. QED
      BY <2>1, <3>1 DEF NotDue, Pending
  <2>2. CASE \E t \in Time : <<j, t>> \in firing'[n]
    <3>1. PICK t \in Time : <<j, t>> \in firing'[n]
      BY <2>2
    <3>2. CASE <<j, t>> \in firing[n]
      BY <3>2 DEF Pending
    <3>3. CASE Fire(n, j)
      <4>1. wheel[n][j] # 0 /\ wheel[n][j] <= now /\ wheel[n][j] \in Int /\ now \in Int
        BY <3>3, Clock DEF Fire, TypeInv, TypeOK, Time, Assumptions, SchedulerAssumption
      <4>2. QED
        BY <4>1 DEF NotDue, Pending
    <3>4. QED
      BY <3>1, <3>2, <3>3, FiringFrom
  <2>3. QED
    BY <1>1, <2>1, <2>2 DEF Pending
<1>2. ASSUME NEW j \in Jobs, NEW t \in Time, Callback(n, j, t)
      PROVE  j \in Pending(n) /\ j \notin Pending(n)'
  <2>1. <<j, t>> \in firing[n] /\ firing'[n] = firing[n] \ {<<j, t>>} /\ wheel' = wheel
    BY <1>2 DEF Callback, TypeInv, TypeOK
  <2>2. NotDue(n, j) /\ \A u \in Time : <<j, u>> \in firing[n] => u = t
    BY <2>1 DEF OneFiring
  <2>3. NotDue(n, j)' /\ \A u \in Time : <<j, u>> \notin firing'[n]
    BY <2>1, <2>2 DEF NotDue
  <2>4. QED
    BY <2>1, <2>3 DEF Pending
<1>3. QED
  BY <1>1, <1>2 DEF Pending

LEMMA PendingIsFinite ==
    ASSUME Assumptions, Undisturbed, NEW n \in Nodes
    PROVE  /\ IsFiniteSet(Pending(n)) /\ Cardinality(Pending(n)) <= Cardinality(Jobs)
           /\ Cardinality(Pending(n)) \in Nat /\ Cardinality(Jobs) \in Nat
BY Fewer DEF Undisturbed, Pending

\* A callback finds a place in the queue.
LEMMA CallbackFits ==
    ASSUME Assumptions, Undisturbed, AheadInv, OneFiring, Room, [Next]_vars, NEW n \in Nodes,
           mode[n] = "on", NEW j \in Jobs, NEW t \in Time, Callback(n, j, t)
    PROVE  Len(queue[n]) < QueueCap
<1>1. j \in Pending(n) /\ now' = now
  BY PendingStep, StillOrBusy DEF Callback, Undisturbed
<1>2. Cardinality(Pending(n)) \in Nat /\ Cardinality(Jobs) \in Nat /\ IsFiniteSet(Pending(n))
  BY PendingIsFinite
<1>3. Cardinality(Pending(n)) >= 1
  BY <1>1, <1>2, Fewer, FS_EmptySet
<1>4. Len(queue[n]) \in Nat /\ manuals \in 0 .. MaxManual /\ MaxManual \in Nat /\ QueueCap \in Nat
  BY RestTyped DEF AheadInv, TypeInv, TypeOK, Assumptions, SchedulerAssumption
<1>5. Len(queue[n]) + Cardinality(Pending(n)) <= manuals + Cardinality(Jobs)
  BY DEF Room
<1>6. QED
  BY <1>2, <1>3, <1>4, <1>5 DEF Undisturbed

LEMMA ManualsStep ==
    ASSUME Assumptions, TypeInv, [Next]_vars
    PROVE  manuals \in Nat /\ manuals' \in Nat /\ manuals' >= manuals
<1>1. manuals \in 0 .. MaxManual /\ MaxManual \in Nat
  BY DEF TypeInv, TypeOK, Assumptions, SchedulerAssumption
<1>2. CASE manuals' = manuals
  BY <1>1, <1>2
<1>3. ASSUME NEW n \in Nodes, NEW j \in Jobs, TriggerJob(n, j) PROVE manuals' = manuals + 1
  BY <1>3 DEF TriggerJob
<1>4. ASSUME NEW n \in Nodes, Crash(n) PROVE manuals' = manuals
  BY <1>4 DEF Crash
<1>5. CASE UNCHANGED vars \/ Tick \/ \E l \in logs : CallReturns(l)
  BY <1>2, <1>5 DEF vars, Tick, CallReturns, calmVars
<1>6. ASSUME NEW i \in Handlers, Handle(i) \/ WorkerExit(i) PROVE manuals' = manuals
  BY <1>6, HandleLeaves, ExitLeaves
<1>7. QED
  BY <1>1, <1>2, <1>3, <1>4, <1>5, <1>6, Splits, NodeLeaves

LEMMA RoomStep ==
    ASSUME Assumptions, Undisturbed, AheadInv, OneFiring, Room, [Next]_vars
    PROVE  Room'
<1> USE DEF AheadInv
<1> SUFFICES ASSUME NEW n \in Nodes, mode'[n] = "on"
             PROVE  Len(queue'[n]) + Cardinality(Pending(n)') <= manuals' + Cardinality(Jobs)
  BY DEF Room, Pending, NotDue
<1> DEFINE P == Pending(n)
           Q == Pending(n)'
<1>1. Punctual /\ IsFiniteSet(Jobs)
  BY DEF Undisturbed
<1>2. IsFiniteSet(P) /\ Cardinality(P) \in Nat
  BY PendingIsFinite
<1>3. Cardinality(Q) <= Cardinality(Jobs) /\ Cardinality(Q) \in Nat /\ Cardinality(Jobs) \in Nat
  <2>1. Q \subseteq Jobs
    BY DEF Pending
  <2> HIDE DEF Q
  <2>2. QED
    BY <1>1, <2>1, Fewer
<1>4. queue[n] \in Seq(Task) /\ Len(queue[n]) \in Nat
  BY RestTyped
<1>5. manuals \in Nat /\ manuals' \in Nat /\ manuals' >= manuals
  BY ManualsStep
<1>6. CASE Tick
  <2>1. queue'[n] = <<>>
    BY <1>1, <1>6, TickIsQuiet DEF Quiet
  <2>2. Len(queue'[n]) = 0
    BY <2>1
  <2> HIDE DEF Q
  <2>3. QED
    BY <1>3, <1>5, <2>2 DEF Q
<1>7. CASE Start(n)
  <2>1. queue' = queue /\ mode[n] = "off"
    BY <1>7 DEF Start
  <2>2. Len(queue[n]) <= manuals
    BY <2>1 DEF Unstarted
  <2> HIDE DEF Q
  <2>3. QED
    BY <1>3, <1>4, <1>5, <2>1, <2>2 DEF Q
<1>8. CASE mode[n] = "on" /\ ~Tick
  <2>1. now' = now
    BY <1>1, <1>8, StillOrBusy
  <2>2. /\ Q \subseteq P
        /\ \A j \in Jobs, t \in Time : Callback(n, j, t) => j \in P /\ j \notin Q
    BY <1>1, <1>8, <2>1, PendingStep
  <2>3. Len(queue[n]) + Cardinality(P) <= manuals + Cardinality(Jobs)
    BY <1>8 DEF Room
  <2> SUFFICES Len(queue'[n]) + Cardinality(Q) <= manuals' + Cardinality(Jobs)
    OBVIOUS
  <2> HIDE DEF P, Q
  <2>4. Cardinality(Q) <= Cardinality(P)
    BY <1>2, <2>2, Fewer
  <2>5. CASE Len(queue'[n]) \in Nat /\ Len(queue'[n]) <= Len(queue[n])
    BY <1>2, <1>3, <1>4, <1>5, <2>3, <2>4, <2>5
  <2>6. CASE queue[n] # <<>> /\ queue'[n] = Tail(queue[n])
    <3>1. Len(queue'[n]) = Len(queue[n]) - 1 /\ Len(queue[n]) # 0
      BY <1>4, <2>6
    <3>2. QED
      BY <1>4, <2>5, <3>1
  <2>7. ASSUME NEW j \in Jobs, NEW t \in Time, Callback(n, j, t),
               queue'[n] = Append(queue[n], AutoTask(j, t))
        PROVE  Len(queue'[n]) + Cardinality(Q) <= manuals' + Cardinality(Jobs)
    <3>1. Len(queue'[n]) = Len(queue[n]) + 1
      BY <1>4, <2>7
    <3>2. Cardinality(Q) + 1 <= Cardinality(P)
      BY <1>2, <2>2, <2>7, Fewer
    <3>3. QED
      BY <1>2, <1>3, <1>4, <1>5, <2>3, <3>1, <3>2
  <2>8. ASSUME NEW j \in Jobs, TriggerJob(n, j), NEW x, queue'[n] = Append(queue[n], x)
        PROVE  Len(queue'[n]) + Cardinality(Q) <= manuals' + Cardinality(Jobs)
    <3>1. Len(queue'[n]) = Len(queue[n]) + 1
      BY <1>4, <2>8
    <3>2. manuals' = manuals + 1
      BY <2>8 DEF TriggerJob
    <3>3. QED
      BY <1>2, <1>3, <1>4, <1>5, <2>3, <2>4, <3>1, <3>2
  <2>9. CASE queue'[n] = queue[n]
    BY <1>4, <2>5, <2>9
  <2>10. QED
    BY <2>6, <2>7, <2>8, <2>9, QueueMoves
<1>9. QED
  BY <1>6, <1>7, <1>8, ModeStep

LEMMA ArmedStart ==
    ASSUME Assumptions, AheadInv, Timed, NEW n \in Nodes, Start(n), NEW j \in Jobs,
           Running(n, j)'
    PROVE  wheel'[n][j] # 0
<1>1. store \in [Nodes -> [Jobs -> Row]] /\ wheel \in [Nodes -> [Jobs -> Time]]
  BY RestTyped DEF AheadInv
<1>2. ~store[n][j].in
  BY DEF Start, AheadInv, Unstarted
<1>3. store'[n][j] = IF table[j].in /\ table[j].run THEN table[j] ELSE store[n][j]
  BY <1>1 DEF Start
<1>4. table[j].in /\ table[j].run
  BY <1>2, <1>3 DEF Running
<1>5. wheel'[n][j] = table[j].next
  BY <1>1, <1>4 DEF Start
<1>6. QED
  BY <1>4, <1>5 DEF Timed

\* The task of a queue that the next worker has not yet taken.
LEMMA QueuedKept ==
    ASSUME Assumptions, TypeInv, [Next]_vars, NEW n \in Nodes, mode'[n] # "crashed",
           NEW k \in DOMAIN queue[n]
    PROVE  \/ \E m \in DOMAIN queue'[n] : queue'[n][m] = queue[n][k]
           \/ \E i \in Handlers : i[1] = n /\ h'[i].pc = "lock" /\ h'[i].task = queue[n][k]
<1>1. queue[n] \in Seq(Task)
  BY RestTyped
<1>2. CASE queue'[n] = queue[n]
  BY <1>2
<1>3. ASSUME NEW i \in Handlers, i[1] = n, Take(i), queue[n] # <<>>, queue'[n] = Tail(queue[n])
      PROVE  \/ \E m \in DOMAIN queue'[n] : queue'[n][m] = queue[n][k]
             \/ h'[i].pc = "lock" /\ h'[i].task = queue[n][k]
  <2>1. CASE k = 1
    <3>1. h'[i] = [pc |-> "lock", task |-> Head(queue[n]), due |-> now + Deadline,
                   left |-> 0, at |-> 0]
      BY <1>3, Moved DEF Handle
    <3>2. h'[i].pc = "lock" /\ h'[i].task = Head(queue[n])
      BY <3>1
    <3>3. Head(queue[n]) = queue[n][1]
      BY <1>1, <1>3
    <3>4. QED
      BY <2>1, <3>2, <3>3
  <2>2. CASE k # 1
    <3>1. k - 1 \in DOMAIN queue'[n] /\ queue'[n][k - 1] = queue[n][k]
      BY <1>1, <1>3, <2>2
    <3>2. QED
      BY <3>1
  <2>3. QED
    BY <2>1, <2>2
<1>4. ASSUME NEW x \in Task, queue'[n] = Append(queue[n], x)
      PROVE  \E m \in DOMAIN queue'[n] : queue'[n][m] = queue[n][k]
  <2>1. k \in DOMAIN queue'[n] /\ queue'[n][k] = queue[n][k]
    BY <1>1, <1>4
  <2>2. QED
    BY <2>1
<1>5. \A j \in Jobs, t \in Time : AutoTask(j, t) \in Task
  BY DEF AutoTask, Task
<1>6. QED
  BY <1>2, <1>3, <1>4, <1>5, QueueMoves

\* A callback whose job runs queues its task.
LEMMA CallbackQueues ==
    ASSUME Assumptions, TypeInv, NEW n \in Nodes, NEW j \in Jobs, NEW t \in Time,
           Callback(n, j, t), Running(n, j), Len(queue[n]) < QueueCap
    PROVE  \E k \in DOMAIN queue'[n] : queue'[n][k].job = j
<1>1. queue \in [Nodes -> Seq(Tasks)] /\ queue[n] \in Seq(Task)
  BY RestTyped DEF TypeInv, IInv, Shape
<1>2. queue'[n] = Append(queue[n], AutoTask(j, t))
  BY <1>1 DEF Callback, Running, AutoTask
<1>3. AutoTask(j, t).job = j
  BY DEF AutoTask
<1>4. Len(queue[n]) + 1 \in DOMAIN queue'[n] /\ queue'[n][Len(queue[n]) + 1] = AutoTask(j, t)
  BY <1>1, <1>2
<1>5. QED
  BY <1>3, <1>4

\* A worker of the node before the end of its task, for job j.
Chased(i, j) == JobOf(i) = j /\ h[i].pc \notin {"idle", "gone", "release"}

LEMMA WorkerOf ==
    ASSUME NEW n \in Nodes
    PROVE  /\ \A i \in Handlers : i[1] = n => i[2] \in Workers /\ i = <<n, i[2]>>
           /\ \A w \in Workers : <<n, w>> \in Handlers /\ <<n, w>>[1] = n
BY DEF Handlers

\* Who pursues a job, and who will.
LEMMA Pursuers ==
    ASSUME NEW n \in Nodes, NEW j \in Jobs
    PROVE  /\ Pursued(n, j) => \/ wheel[n][j] # 0
                               \/ \E t \in Time : <<j, t>> \in firing[n]
                               \/ \E k \in DOMAIN queue[n] : queue[n][k].job = j
                               \/ \E i \in Handlers : i[1] = n /\ Chased(i, j)
                               \/ Arming(n, j)
           /\ \/ wheel'[n][j] # 0
              \/ \E t \in Time : <<j, t>> \in firing'[n]
              \/ \E k \in DOMAIN queue'[n] : queue'[n][k].job = j
              \/ \E i \in Handlers : i[1] = n /\ Chased(i, j)'
              \/ Arming(n, j)'
              => Pursued(n, j)'
<1>1. ASSUME NEW w \in Workers, JobOf(<<n, w>>) = j,
             h[<<n, w>>].pc \notin {"idle", "gone", "release"}
      PROVE  \E i \in Handlers : i[1] = n /\ Chased(i, j)
  BY <1>1, WorkerOf DEF Chased
<1>2. ASSUME NEW i \in Handlers, i[1] = n, Chased(i, j)'
      PROVE  \E w \in Workers : /\ JobOf(<<n, w>>)' = j
                                /\ h'[<<n, w>>].pc \notin {"idle", "gone", "release"}
  <2>1. i[2] \in Workers /\ i = <<n, i[2]>>
    BY <1>2, WorkerOf
  <2>2. h'[<<n, i[2]>>].pc \notin {"idle", "gone", "release"} /\ h'[<<n, i[2]>>].task.job = j
    BY <1>2, <2>1 DEF Chased, JobOf
  <2>3. QED
    BY <2>1, <2>2 DEF JobOf
<1>3. QED
  BY <1>1, <1>2 DEF Pursued, Arming

\* A worker that chases a running cron job goes on, or has given the job an entry, or finds
\* its lock held by another worker that will or has.
LEMMA ChaseStep ==
    ASSUME Assumptions, Undisturbed, ArmInv, [Next]_vars, NEW n \in Nodes, mode[n] = "on",
           mode'[n] = "on", NEW i \in Handlers, i[1] = n, NEW j \in Jobs, Chased(i, j),
           CronOf[j] = "every", Running(n, j)
    PROVE  Pursued(n, j)' \/ ~Running(n, j)'
<1> USE DEF ArmInv, AheadInv
<1>1. Punctual /\ i[1] \in Nodes /\ n = i[1]
  BY DEF Undisturbed
<1>2. ASSUME NEW k \in Handlers, Chased(k, j)' PROVE Pursued(n, j)'
  <2>1. k[1] = n
    BY <1>1 DEF Punctual, Handlers
  <2>2. QED
    BY <1>2, <2>1, Pursuers
<1>3. CASE h'[i] = h[i]
  <2>1. Chased(i, j)'
    BY <1>3 DEF Chased, JobOf
  <2>2. QED
    BY <1>2, <2>1
<1>4. ASSUME TryLockFail(i) PROVE Pursued(n, j)' \/ ~Running(n, j)'
  <2>1. h[i].due > now /\ h[i].due \in Int /\ now \in Int
    <3>1. h[i].due > now
      BY <1>4 DEF TryLockFail, NoneLate, Busy
    <3>2. h[i] \in WorkerStates /\ now \in 0 .. MaxTime
      BY RestTyped
    <3>3. h[i].due \in Nat
      BY <3>2 DEF WorkerStates
    <3>4. QED
      BY <3>1, <3>2, <3>3
  <2>2. h[i].pc = "lock" /\ JobOf(i) = j /\ ~Expired(i)
    <3>1. h[i].pc = "lock" /\ JobOf(i) = j
      BY <1>4 DEF TryLockFail, Chased
    <3>2. ~Expired(i)
      BY <2>1 DEF Expired
    <3>3. QED
      BY <3>1, <3>2
  <2>3. ~Tick
    BY <1>1, <2>2, TickIsQuiet DEF Quiet, Busy
  <2>4. Held(j)
    BY <1>4, <2>2 DEF TryLockFail, Undisturbed
  <2>5. PICK k \in Handlers : k[1] = n /\ h[k].pc \in Inside /\ JobOf(k) = j
    BY <2>4 DEF HeldInside
  <2>6. h'[k] = h[k] /\ k # i
    BY <1>4, <2>2, <2>5, Moved DEF Handle, Inside
  <2>7. CASE h[k].pc = "release"
    <3>1. ~Running(n, j) \/ Arming(n, j) \/ wheel[n][j] > now
      BY <2>5, <2>7 DEF Rearmed
    <3>2. ~Running(n, j)' \/ Arming(n, j)' \/ wheel'[n][j] > now'
      BY <2>3, <3>1, StaysRearmed
    <3>3. now' \in Nat
      BY ClockRuns
    <3>4. wheel'[n][j] > now' => wheel'[n][j] # 0
      BY <3>3
    <3>5. QED
      BY <3>2, <3>4, Pursuers
  <2>8. CASE h[k].pc # "release"
    <3>1. Chased(k, j)'
      BY <2>5, <2>6, <2>8 DEF Chased, JobOf, Inside
    <3>2. QED
      BY <1>2, <3>1
  <2>9. QED
    BY <2>7, <2>8
<1>5. ASSUME ScheduleWheel(i) PROVE Pursued(n, j)'
  <2>1. h[i].at > now /\ now \in Nat /\ JobOf(i) = j
    BY <1>5, Clock DEF ScheduleWheel, Ahead, Chased
  <2>2. wheel'[n][j] = h[i].at
    BY <1>5, <2>1, RestTyped DEF ScheduleWheel
  <2>3. wheel'[n][j] # 0
    BY <2>1, <2>2
  <2>4. QED
    BY <2>3, Pursuers
<1>6. ASSUME GetFresh(i) PROVE Pursued(n, j)'
  <2>1. h'[i].task = h[i].task /\ h'[i].pc = "add"
    BY <1>6, Moved DEF Handle, GoesOn, Chased, Running
  <2>2. Chased(i, j)'
    BY <2>1 DEF Chased, JobOf
  <2>3. QED
    BY <1>2, <2>2
<1>7. ASSUME TryLock(i) \/ Limit(i) \/ Pass(i) \/ DiscardTrigger(i) \/ Send(i) \/ SendFail(i)
             \/ SendEnd(i) \/ Reschedule(i)
      PROVE  Pursued(n, j)'
  <2>1. h'[i].task = h[i].task
    BY <1>7, Moved DEF Handle, Went, GoesOn
  <2>2. h'[i].pc \in {"limit", "block", "send", "resched", "get"}
    <3>1. CASE Reschedule(i)
      BY <3>1, Moved DEF Handle, Went, Chased
    <3>2. CASE TryLock(i) \/ Limit(i) \/ Pass(i) \/ DiscardTrigger(i)
      BY <3>2, Moved DEF Handle, Went
    <3>3. CASE Send(i) \/ SendFail(i) \/ SendEnd(i)
      BY <3>3, Moved DEF Handle, Went
    <3>4. QED
      BY <1>7, <3>1, <3>2, <3>3
  <2>3. Chased(i, j)'
    BY <2>1, <2>2 DEF Chased, JobOf
  <2>4. QED
    BY <1>2, <2>3
<1>8. ~Take(i) /\ ~ReleaseLock(i)
  BY DEF Take, ReleaseLock, Chased
<1>9. h'[i] = h[i] \/ Handle(i)
  BY <1>1, WorkerStep DEF Chased
<1>10. QED
  BY <1>3, <1>4, <1>5, <1>6, <1>7, <1>8, <1>9 DEF Handle

LEMMA ArmedStep ==
    ASSUME Assumptions, Undisturbed, ArmInv, [Next]_vars
    PROVE  RunningJobIsArmed'
<1> USE DEF ArmInv, AheadInv
<1>1. Punctual
  BY DEF Undisturbed
<1> SUFFICES ASSUME NEW n \in Nodes, NEW j \in Jobs, mode'[n] = "on", CronOf[j] = "every",
                    Running(n, j)'
             PROVE  Pursued(n, j)'
  BY DEF RunningJobIsArmed, Running
<1>2. CASE Start(n)
  BY <1>2, ArmedStart, Pursuers
<1>3. CASE Arming(n, j)'
  BY <1>3, Pursuers
<1>4. CASE mode[n] = "on" /\ Running(n, j)
  <2>1. \/ wheel[n][j] # 0
        \/ \E t \in Time : <<j, t>> \in firing[n]
        \/ \E k \in DOMAIN queue[n] : queue[n][k].job = j
        \/ \E i \in Handlers : i[1] = n /\ Chased(i, j)
        \/ Arming(n, j)
    BY <1>4, Pursuers DEF RunningJobIsArmed, Running
  <2>2. now \in Nat
    BY Clock
  <2>3. CASE Arming(n, j)
    <3>1. Arming(n, j)' \/ wheel'[n][j] > now
      BY <1>1, <2>3, ArmingStep
    <3>2. wheel'[n][j] > now => wheel'[n][j] # 0
      BY <2>2
    <3>3. QED
      BY <3>1, <3>2, Pursuers
  <2>4. CASE wheel[n][j] # 0 /\ ~Arming(n, j)
    <3>1. CASE wheel'[n][j] = wheel[n][j]
      BY <2>4, <3>1, Pursuers
    <3>2. CASE wheel'[n][j] > now
      BY <2>2, <3>2, Pursuers
    <3>3. CASE Fire(n, j)
      <4>1. <<j, wheel[n][j]>> \in firing'[n] /\ wheel[n][j] \in Time
        BY <3>3 DEF Fire, TypeInv, TypeOK
      <4>2. QED
        BY <4>1, Pursuers
    <3>4. ~(CancelWheel(n) /\ manager[n].job = j)
      BY <1>4, <2>4 DEF CancelWheel, Arming, Dropped
    <3>5. ~ServeCancel(n, j)
      BY DEF ServeCancel, Dropped
    <3>6. QED
      BY <1>1, <1>4, <3>1, <3>2, <3>3, <3>4, <3>5, WheelStep
  <2>5. ASSUME NEW t \in Time, <<j, t>> \in firing[n] PROVE Pursued(n, j)'
    <3>1. CASE <<j, t>> \in firing'[n]
      BY <3>1, Pursuers
    <3>2. CASE Callback(n, j, t)
      <4>1. Len(queue[n]) < QueueCap
        BY <1>4, <3>2, CallbackFits
      <4>2. QED
        BY <1>4, <3>2, <4>1, CallbackQueues, Pursuers
    <3>3. QED
      BY <2>5, <3>1, <3>2, FiringKept
  <2>6. ASSUME NEW k \in DOMAIN queue[n], queue[n][k].job = j PROVE Pursued(n, j)'
    <3>1. CASE \E m \in DOMAIN queue'[n] : queue'[n][m] = queue[n][k]
      BY <2>6, <3>1, Pursuers
    <3>2. ASSUME NEW i \in Handlers, i[1] = n, h'[i].pc = "lock", h'[i].task = queue[n][k]
          PROVE  Pursued(n, j)'
      <4>1. Chased(i, j)'
        BY <2>6, <3>2 DEF Chased, JobOf
      <4>2. QED
        BY <3>2, <4>1, Pursuers
    <3>3. QED
      BY <3>1, <3>2, QueuedKept
  <2>7. ASSUME NEW i \in Handlers, i[1] = n, Chased(i, j) PROVE Pursued(n, j)'
    BY <1>4, <2>7, ChaseStep
  <2>8. QED
    BY <2>1, <2>3, <2>4, <2>5, <2>6, <2>7
<1>5. Running(n, j) \/ mode[n] = "off" \/ Arming(n, j)'
  BY <1>1, StoreStep
<1>6. mode[n] = "on" \/ Start(n)
  BY ModeStep
<1>7. QED
  BY <1>2, <1>3, <1>4, <1>5, <1>6

LEMMA ArmInvKept ==
    ASSUME Assumptions, Undisturbed, ArmInv, [Next]_vars
    PROVE  ArmInv'
<1>1. Punctual
  BY DEF Undisturbed
<1>2. AheadInv' /\ Timed' /\ NoneLate' /\ OneFiring'
  BY <1>1, AheadKept, TimedStep, NoneLateStep, OneFiringStep DEF ArmInv
<1>3. HeldInside' /\ Rearmed' /\ Dropped' /\ Room' /\ RunningJobIsArmed'
  BY HeldInsideStep, RearmedStep, DroppedStep, RoomStep, ArmedStep DEF ArmInv
<1>4. QED
  BY <1>2, <1>3 DEF ArmInv

LEMMA ArmInvInitially ==
    ASSUME Assumptions, Init
    PROVE  ArmInv
<1>1. AheadInv
  BY AheadInitially
<1>2. \A i \in Handlers : h[i].pc = "idle"
  BY IdleIsWorker DEF Init
<1>3. NextTick(0) # 0 /\ Period \in Nat /\ 0 \in 0 .. MaxTime
  <2>1. 0 \in 0 .. MaxTime
    BY DEF Assumptions, SchedulerAssumption
  <2>2. QED
    BY <2>1, TickIsAhead DEF Assumptions, SchedulerAssumption
<1>4. /\ \A j \in Jobs : table[j].next = NextTick(0)
      /\ \A n \in Nodes, j \in Jobs : ~store[n][j].in /\ wheel[n][j] = 0
  BY DEF Init, Gone
<1>5. \A n \in Nodes : /\ manager[n].pc = "idle" /\ firing[n] = {} /\ cancels[n] = {}
                      /\ mode[n] = "off"
  BY DEF Init, NoCall
<1>6. now = 0 /\ \A j \in Jobs : lock[j].until = 0
  BY DEF Init, Free
<1>7. Timed
  BY <1>3, <1>4 DEF Timed
<1>8. NoneLate /\ Rearmed
  BY <1>2 DEF NoneLate, Busy, Rearmed
<1>9. HeldInside
  BY <1>6 DEF HeldInside, Held
<1>10. Dropped /\ OneFiring /\ Room /\ RunningJobIsArmed
  BY <1>5 DEF Dropped, OneFiring, Room, RunningJobIsArmed
<1>11. QED
  BY <1>1, <1>7, <1>8, <1>9, <1>10 DEF ArmInv

\* A running cron job of a node that runs always has something that leads to its next
\* firing, for any number of workers and jobs, with crashes, discarded triggers and every
\* management call but StartJob: on one node whose clock waits for it, as long as no call
\* fails, the wheel serves Add and Cancel in order, and the queue has room for a trigger of
\* each job and the manual ones.
THEOREM JobsStayArmed == Assumptions /\ Undisturbed => (Spec => []RunningJobIsArmed)
<1> SUFFICES ASSUME Assumptions, Undisturbed PROVE Spec => []RunningJobIsArmed
  OBVIOUS
<1>1. Init => ArmInv
  BY ArmInvInitially
<1>2. ArmInv /\ [Next]_vars => ArmInv'
  BY ArmInvKept
<1>3. ArmInv => RunningJobIsArmed
  BY DEF ArmInv
<1>4. QED
  BY <1>1, <1>2, <1>3, PTL DEF Spec

\* So the first instance of MCSchedulerCases keeps its jobs armed.
THEOREM CasesStayArmed == Assumptions /\ Undisturbed => (CasesSpec => []ArmedThroughout)
<1> SUFFICES ASSUME Assumptions, Undisturbed PROVE CasesSpec => []ArmedThroughout
  OBVIOUS
<1> DEFINE Inv == case = "armed" => ArmInv
<1>1. CasesInit => Inv
  BY ArmInvInitially DEF CasesInit
<1>2. Inv /\ [CasesNext]_<<vars, case>> => Inv'
  <2> SUFFICES ASSUME Inv, [CasesNext]_<<vars, case>>, case' = "armed"
               PROVE  ArmInv'
    OBVIOUS
  <2>1. case = "armed" /\ [Next]_vars
    BY DEF CasesNext
  <2>2. QED
    BY <2>1, ArmInvKept
<1>3. Inv => ArmedThroughout
  BY DEF ArmedThroughout, ArmInv
<1>4. QED
  BY <1>1, <1>2, <1>3, PTL DEF CasesSpec
=============================================================================
