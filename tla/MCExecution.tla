---------------------------- MODULE MCExecution -----------------------------
(* Both ends of an execution in one run: the executor's Runner with two        *)
(* requests of one log ID, and the admin's rows of a job that is its own child *)
(* and is retried.  They share no state.  In a behaviour one of them is at     *)
(* rest from the start: the executor has stopped, or no trigger, report or     *)
(* failure is to come.                                                         *)
EXTENDS LogRows

CONSTANTS r1, r2, l1, Stoppers, None, Graceful, TTLOutlives

MCJobs == {"parent"}
MCChildren == [j \in MCJobs |-> MCJobs]
MCRetryCount == [j \in MCJobs |-> 1]
Reqs == {r1, r2}
LogIDs == {l1}

VARIABLES
    pc, answer, dup, outcome, record, records, mu, jobs, wg, drained, cancelled, stopped, spc,
    clean, gcRunning, target

runnerVars == <<pc, answer, dup, outcome, record, records, mu, jobs, wg, drained, cancelled,
                stopped, spc, clean, gcRunning, target>>

Executor == INSTANCE Runner WITH Logs <- LogIDs, LogOf <- [r \in Reqs |-> l1]

RowsAtRest ==
    /\ row = [l \in Logs |-> Free]
    /\ call = [l \in Logs |-> "none"] /\ exec = [l \in Logs |-> "off"]
    /\ kill = [k \in Killers |-> NoKill]
    /\ tasks = [j \in Jobs |-> 0] /\ timers = [j \in Jobs |-> 0]
    /\ fires = MaxFires /\ reports = MaxReports
    /\ recovered = TRUE /\ lost = {}

RunnerStopped ==
    /\ pc = [r \in Reqs |-> "done"] /\ answer = [r \in Reqs |-> "stopped"]
    /\ dup = [r \in Reqs |-> None] /\ outcome = [r \in Reqs |-> "nil"]
    /\ record = [r \in Reqs |-> [state |-> "running", err |-> "nil"]]
    /\ records = [l \in LogIDs |-> None] /\ mu = None
    /\ jobs = [l \in LogIDs |-> None] /\ wg = 0 /\ drained = TRUE
    /\ cancelled = {} /\ stopped = TRUE
    /\ spc = [s \in Stoppers |-> "returned"] /\ clean = TRUE /\ gcRunning = FALSE
    /\ target = [k \in Killers |-> None]

ExecutionInit ==
    \/ Executor!Init /\ RowsAtRest
    \/ RunnerStopped /\ Init

ExecutionNext ==
    \/ Executor!Next /\ UNCHANGED vars
    \/ Next /\ UNCHANGED runnerVars

ExecutionSpec ==
    /\ ExecutionInit /\ [][ExecutionNext]_<<vars, runnerVars>>
    /\ Fairness /\ Executor!Fairness
-----------------------------------------------------------------------------
\* Stop returns even when handlers never do (Runner).
StopReturns == Executor!StopReturns

\* Once Stop has closed the executor, every admitted log ID ends up settled, if the handlers
\* return once they are cancelled (Runner).
DrainSettles == Executor!DrainSettles
=============================================================================
