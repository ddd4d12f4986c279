------------------------------ MODULE AdminLife ------------------------------
(***************************************************************************)
(* The life of the admin processes: the leader election over etcd, the     *)
(* scheduler that its callbacks start and stop, and the shutdown of main.  *)
(* The election loop, each callback, the workers, the flush loop and the   *)
(* shutdown are goroutines of their own.  A process that cannot reach etcd *)
(* when it boots schedules as a standalone.  The etcd server (the lease of *)
(* 15 s, the election's keys, the observed leader) is external.            *)
(***************************************************************************)
EXTENDS Naturals, FiniteSets, Sequences, SequencesExt

CONSTANTS
    Processes,    \* lives of admin processes (a restart is another life)
    MaxWatchEnds  \* bound: observations that end by themselves

ASSUME LifeAssumption == MaxWatchEnds \in Nat

VARIABLES
    proc,   \* proc[p]: whether it is election or standalone, the step of main,
            \* the step of the election loop, isLeader, callbacks not yet run
    sched,  \* sched[p]: the scheduler of the process
    lease,  \* the processes whose session is alive at etcd
    keys,   \* the processes whose election key exists
    order,  \* the order in which the keys were created
    ends    \* observations that have ended by themselves

vars == <<proc, sched, lease, keys, order, ends>>

\* pool: the workers of wg; flush: the flush loop; dirty: whether the store has
\* changes that MySQL has not: of before Stop ("yes"), of a worker that ended after
\* it ("late"), of a final flush that failed ("failed"); closed: Stop has closed the
\* channels; failed: a Start returned an error.
NewScheduler == [running |-> FALSE, closed |-> FALSE, pool |-> "none", flush |-> "none",
                 dirty |-> "no", failed |-> FALSE]

NewProcess == [main |-> "new", election |-> FALSE, el |-> "none", isLeader |-> FALSE,
               starts |-> 0, stops |-> 0]

Init ==
    /\ proc = [p \in Processes |-> NewProcess]
    /\ sched = [p \in Processes |-> NewScheduler]
    /\ lease = {} /\ keys = {} /\ order = <<>> /\ ends = 0

TypeOK ==
    /\ proc \in [Processes ->
          [main : {"new", "up", "leave", "drain", "buffer", "http", "gone"},
           election : BOOLEAN, isLeader : BOOLEAN,
           el : {"none", "campaign", "wait", "observe", "returned"},
           starts : 0 .. 1 + MaxWatchEnds, stops : 0 .. 1 + MaxWatchEnds]]
    /\ ends \in 0 .. MaxWatchEnds
    /\ sched \in [Processes ->
          [running : BOOLEAN, closed : BOOLEAN, pool : {"none", "idle", "busy"},
           flush : {"none", "loop", "final", "done"},
           dirty : {"no", "yes", "late", "failed"}, failed : BOOLEAN]]
    /\ keys \subseteq lease /\ keys \subseteq ToSet(order) /\ lease \subseteq Processes

Alive(p) == proc[p].main \notin {"new", "gone"}

\* The election is won by the oldest key; Observe reports it.
Older(p) == {q \in keys : \E i, j \in DOMAIN order : i < j /\ order[i] = q /\ order[j] = p}
Leading(p) == p \in keys /\ Older(p) = {}
-----------------------------------------------------------------------------
(* The scheduler *)

\* Start: after a Stop it starts again, with a closed stopCh and a flush
\* context that has been cancelled.
Started(s, bootOK) ==
    IF s.running \/ ~bootOK THEN [s EXCEPT !.failed = TRUE]
    ELSE [s EXCEPT !.running = TRUE, !.pool = IF @ = "busy" THEN @ ELSE "idle",
                   !.flush = IF s.closed THEN "final" ELSE "loop"]

\* Stop's effects; the caller then waits for the workers.
Stopped(s) ==
    IF ~s.running THEN s
    ELSE [s EXCEPT !.running = FALSE, !.closed = TRUE, !.flush = "final"]

\* A second Stop of a scheduler that ran closes closed channels: a panic.
StopPanics(s) == s.running /\ s.closed

\* The process ends, with every goroutine; its session is no longer kept alive.
End(p) ==
    /\ proc' = [proc EXCEPT ![p] = [NewProcess EXCEPT !.main = "gone"]]
    /\ sched' = [sched EXCEPT ![p] = NewScheduler]
    /\ UNCHANGED <<lease, keys, order, ends>>

\* A worker takes a task; with stopCh closed too, select may still prefer one
\* (bound: one such task).
Take(p) ==
    /\ sched[p].pool = "idle" /\ (sched[p].closed => sched[p].dirty # "late")
    /\ sched' = [sched EXCEPT ![p].pool = "busy"]
    /\ UNCHANGED <<proc, lease, keys, order, ends>>

\* handleTask ends: the job's times have been set in the store.
Finish(p) ==
    /\ sched[p].pool = "busy"
    /\ sched' = [sched EXCEPT ![p].pool = "idle",
                              ![p].dirty = IF sched[p].closed THEN "late" ELSE "yes"]
    /\ UNCHANGED <<proc, lease, keys, order, ends>>

WorkersReturn(p) ==
    /\ sched[p].pool = "idle" /\ sched[p].closed
    /\ sched' = [sched EXCEPT ![p].pool = "none"]
    /\ UNCHANGED <<proc, lease, keys, order, ends>>

\* A tick of the flush loop; rows whose write fails are dirty again.
FlushTick(p) ==
    /\ sched[p].flush = "loop" /\ sched[p].dirty = "yes"
    /\ sched' = [sched EXCEPT ![p].dirty = "no"]
    /\ UNCHANGED <<proc, lease, keys, order, ends>>

\* Mutant of LastFlush: the loop returns without a final flush.
LoopReturns(p) ==
    /\ sched[p].flush = "final" /\ Alive(p)
    /\ sched' = [sched EXCEPT ![p].flush = "done"]
    /\ UNCHANGED <<proc, lease, keys, order, ends>>

\* The final flush, in a goroutine that nobody waits for.
LastFlush(p) ==
    /\ sched[p].flush = "final" /\ Alive(p)
    /\ \E left \in {"no", "failed"} :
          sched' = [sched EXCEPT ![p].flush = "done",
                                 ![p].dirty = IF @ = "no" THEN @ ELSE left]
    /\ UNCHANGED <<proc, lease, keys, order, ends>>
-----------------------------------------------------------------------------
(* The election loop and its callbacks *)

\* Mutant of Campaign: onElected is called before the election is won.
CampaignStartsEarly(p) ==
    /\ proc[p].el = "campaign" /\ proc[p].main = "up"
    /\ p \in lease
    /\ proc' = [proc EXCEPT ![p].el = "wait", ![p].starts = 1]
    /\ keys' = keys \cup {p}
    /\ order' = IF p \in keys THEN order ELSE Append(order, p)
    /\ UNCHANGED <<sched, lease, ends>>

\* Mutant of Campaign: it goes on without a session.
CampaignUnleased(p) ==
    /\ proc[p].el = "campaign" /\ proc[p].main = "up"
    /\ proc' = [proc EXCEPT ![p].el = "wait"]
    /\ keys' = keys \cup {p}
    /\ order' = IF p \in keys THEN order ELSE Append(order, p)
    /\ UNCHANGED <<sched, lease, ends>>

\* Campaign creates the key of the session, or finds the one it has, and waits;
\* without a session it fails and the loop tries again 3 s later.
Campaign(p) ==
    /\ proc[p].el = "campaign" /\ proc[p].main = "up"
    /\ p \in lease
    /\ proc' = [proc EXCEPT ![p].el = "wait"]
    /\ keys' = keys \cup {p}
    /\ order' = IF p \in keys THEN order ELSE Append(order, p)
    /\ UNCHANGED <<sched, lease, ends>>

\* Mutant of Elected: onElected is not called.
ElectedSilently(p) ==
    /\ proc[p].el = "wait" /\ Older(p) = {}
    /\ proc' = [proc EXCEPT ![p].el = "observe", ![p].isLeader = TRUE]
    /\ UNCHANGED <<sched, lease, keys, order, ends>>

\* Campaign returns when the older keys are gone (it does not look for its own).
Elected(p) ==
    /\ proc[p].el = "wait" /\ Older(p) = {}
    /\ proc' = [proc EXCEPT ![p].el = "observe", ![p].isLeader = TRUE, ![p].starts = @ + 1]
    /\ UNCHANGED <<sched, lease, keys, order, ends>>

\* The observation ends: not leader any more, onRevoked, and round the loop.
NotLeader(p) ==
    [proc[p] EXCEPT !.isLeader = FALSE, !.stops = @ + 1,
                    !.el = IF proc[p].main = "up" THEN "campaign" ELSE "returned"]

\* It reports the key of another process.
Deposed(p) ==
    /\ proc[p].el = "observe"
    /\ \E q \in Processes \ {p} : Leading(q)
    /\ proc' = [proc EXCEPT ![p] = NotLeader(p)]
    /\ UNCHANGED <<sched, lease, keys, order, ends>>

\* Its channel is closed (a watch that etcd cancelled).
WatchEnds(p) ==
    /\ proc[p].el = "observe" /\ ends < MaxWatchEnds
    /\ ends' = ends + 1
    /\ proc' = [proc EXCEPT ![p] = NotLeader(p)]
    /\ UNCHANGED <<sched, lease, keys, order>>

\* A Campaign that is still trying when the loop is told to stop returns.
Return(p) ==
    /\ proc[p].el = "campaign" /\ proc[p].main \in {"buffer", "http"}
    /\ proc' = [proc EXCEPT ![p].el = "returned"]
    /\ UNCHANGED <<sched, lease, keys, order, ends>>

OnElected(p) ==
    /\ proc[p].starts > 0
    /\ proc' = [proc EXCEPT ![p].starts = @ - 1]
    /\ \E ok \in BOOLEAN : sched' = [sched EXCEPT ![p] = Started(@, ok)]
    /\ UNCHANGED <<lease, keys, order, ends>>

OnRevoked(p) ==
    /\ proc[p].stops > 0
    /\ IF StopPanics(sched[p]) THEN End(p)
       ELSE /\ proc' = [proc EXCEPT ![p].stops = @ - 1]
            /\ sched' = [sched EXCEPT ![p] = Stopped(@)]
            /\ UNCHANGED <<lease, keys, order, ends>>

\* etcd drops a session that is not kept alive: a process that is gone, or one
\* that is cut off.
LeaseExpires(p) ==
    /\ p \in lease
    /\ lease' = lease \ {p} /\ keys' = keys \ {p}
    /\ UNCHANGED <<proc, sched, order, ends>>
-----------------------------------------------------------------------------
(* main *)

\* Connects to etcd, or fails to and starts the scheduler itself; a standalone
\* whose Start fails exits.
BootElection(p) ==
    /\ proc[p].main = "new"
    /\ proc' = [proc EXCEPT ![p].main = "up", ![p].election = TRUE, ![p].el = "campaign"]
    /\ lease' = lease \cup {p}
    /\ UNCHANGED <<sched, keys, order, ends>>

BootStandalone(p) ==
    /\ proc[p].main = "new"
    /\ \E ok \in BOOLEAN :
          /\ sched' = [sched EXCEPT ![p] = IF ok THEN Started(@, TRUE) ELSE @]
          /\ proc' = [proc EXCEPT ![p].main = IF ok THEN "up" ELSE "gone"]
    /\ UNCHANGED <<lease, keys, order, ends>>

Signal(p) ==
    /\ proc[p].main = "up"
    /\ proc' = [proc EXCEPT ![p].main = IF proc[p].election THEN "leave" ELSE "drain"]
    /\ sched' = [sched EXCEPT ![p] = IF proc[p].election THEN @ ELSE Stopped(@)]
    /\ UNCHANGED <<lease, keys, order, ends>>

\* LeaderElection.Stop: resigns if it leads and closes the session (either may
\* fail, and the key then lasts as long as the lease).  The scheduler is left
\* to onRevoked.
Leave(p) ==
    /\ proc[p].main = "leave"
    /\ proc' = [proc EXCEPT ![p].main = "buffer"]
    /\ \E ok \in BOOLEAN :
          /\ lease' = IF ok THEN lease \ {p} ELSE lease
          /\ keys' = IF ok THEN keys \ {p} ELSE keys
    /\ UNCHANGED <<sched, order, ends>>

\* Scheduler.Stop returns when the workers have.
Drained(p) ==
    /\ proc[p].main = "drain" /\ sched[p].pool = "none"
    /\ proc' = [proc EXCEPT ![p].main = "buffer"]
    /\ UNCHANGED <<sched, lease, keys, order, ends>>

\* logBuf.Stop; srv.Shutdown and the end of main follow.
StopBuffer(p) ==
    /\ proc[p].main = "buffer"
    /\ proc' = [proc EXCEPT ![p].main = "http"]
    /\ UNCHANGED <<sched, lease, keys, order, ends>>

Exit(p) == proc[p].main = "http" /\ End(p)

Crash(p) == Alive(p) /\ proc[p].main # "http" /\ End(p)

Next ==
    \E p \in Processes :
        \/ BootElection(p) \/ BootStandalone(p)
        \/ Signal(p) \/ Leave(p) \/ Drained(p) \/ StopBuffer(p) \/ Exit(p) \/ Crash(p)
        \/ Campaign(p) \/ Elected(p) \/ Deposed(p) \/ WatchEnds(p) \/ Return(p)
        \/ OnElected(p) \/ OnRevoked(p) \/ LeaseExpires(p)
        \/ Take(p) \/ Finish(p) \/ WorkersReturn(p) \/ FlushTick(p) \/ LastFlush(p)

Spec == Init /\ [][Next]_vars

\* Goroutines run, main's shutdown goes on, and the lease of a process that is
\* gone, or that has stopped its session, ends.
Fairness ==
    \A p \in Processes :
        /\ WF_vars(Campaign(p)) /\ WF_vars(Elected(p)) /\ WF_vars(Deposed(p))
        /\ WF_vars(OnElected(p)) /\ WF_vars(OnRevoked(p))
        /\ WF_vars(Leave(p)) /\ WF_vars(StopBuffer(p)) /\ WF_vars(Exit(p))
        /\ WF_vars(proc[p].main \in {"buffer", "http", "gone"} /\ LeaseExpires(p))

FairSpec == Spec /\ Fairness
-----------------------------------------------------------------------------
(* Properties *)

\* The election loop of p stands by its key: it has reached etcd, its session
\* has not been lost and it has not been told to stop.
Contends(p) == proc[p].main = "up" /\ proc[p].election /\ p \in lease

\* Two processes that contend never schedule together: whoever schedules
\* besides a contender has lost its session, is shutting down, or could not
\* reach etcd when it booted (LeaderElection.Run, main 365-412).
OneScheduler ==
    \A p, q \in Processes :
        p # q /\ Contends(p) /\ Contends(q) => ~(sched[p].running /\ sched[q].running)

\* Every update that a worker made before Stop is in the final flush: the store stays
\* dirty only if a row's write failed or a worker ended after Stop.
FlushIsLast == \A p \in Processes : sched[p].flush = "done" => sched[p].dirty # "yes"

BufferIsLast ==
    \A p \in Processes : proc[p].main = "http" /\ ~proc[p].election => sched[p].pool = "none"

\* The order of a shutdown: the last writers end before what they write to.  The final
\* flush comes after the updates made before Stop (Scheduler.Stop,
\* Store.StartFlushLoop), and a standalone's log buffer stops after the last worker has
\* returned, so that no trigger finds it stopped (main 431-444).
ShutdownOrder == FlushIsLast /\ BufferIsLast

\* As long as one process contends, somebody schedules in the end, whatever
\* becomes of the others, unless a Start fails or an observation ends early and
\* leaves its leader with a scheduler that has been stopped (LeaderElection.Run
\* with onElected and onRevoked in goroutines of their own).
Takeover ==
    (\E p \in Processes : <>[]Contends(p)) =>
        []<>(\E p \in Processes :
              sched[p].running \/ sched[p].failed \/ ends > 0)
=============================================================================
