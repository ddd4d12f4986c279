------------------------------- MODULE Runner -------------------------------
(***************************************************************************)
(* One executor process: internal/executor/job_runner.go (Runner.Run, Kill *)
(* and Stop), RunningJobSet of internal/executor/executor.go, and the      *)
(* idempotency table of pkg/idempotency, with every goroutine's steps      *)
(* interleaved: one goroutine per /run request and, once it is accepted,   *)
(* the goroutine of its handler; /kill requests; callers of Stop; the      *)
(* table's GC.  A step is one critical section, or one access made         *)
(* outside of the mutexes.                                                 *)
(*                                                                         *)
(* A Record and a runningJob are named by the request that created them,   *)
(* which is what their pointers tell apart.                                *)
(***************************************************************************)
EXTENDS Integers, FiniteSets

CONSTANTS
    Reqs,         \* the /run requests that reach the process
    Logs,         \* log IDs
    LogOf,        \* LogOf[r]: the log ID request r carries
    Killers,      \* the /kill requests
    Stoppers,     \* the callers of Stop
    None,
    Graceful,     \* gracefulTimeout > 0
    TTLOutlives   \* the TTL is longer than a goroutine takes from Complete to remove

ASSUME ReqsAssumption ==
    /\ IsFiniteSet(Reqs)
    /\ LogOf \in [Reqs -> Logs]
    /\ None \notin Reqs
    /\ Graceful \in BOOLEAN
    /\ TTLOutlives \in BOOLEAN

VARIABLES
    pc,         \* pc[r]: where request r's goroutines are
    answer,     \* answer[r]: what Run returned to r, or "none"
    dup,        \* dup[r]: the record TryAcquire returned to a duplicate
    outcome,    \* outcome[r]: what r's handler returned
    record,     \* record[r]: the Record that r created (state and Err)
    records,    \* Table.records: log ID -> Record, or None
    mu,         \* the request that holds Table.mu between two writes, or None
    jobs,       \* RunningJobSet.jobs: log ID -> runningJob, or None
    wg,         \* RunningJobSet.wg
    drained,    \* RunningJobSet.drained
    cancelled,  \* the requests whose execution context is cancelled
    stopped,    \* Runner.stopped
    spc,        \* spc[s]: where the caller s of Stop is
    clean,      \* a waitDone of Stop has returned true
    gcRunning,  \* the table's gcLoop has not been stopped
    target      \* target[k]: the runningJob that kill k has looked up, or None

reqVars == <<pc, answer, dup, outcome>>
tableVars == <<record, records, mu>>
jobVars == <<jobs, wg, drained>>
stopVars == <<stopped, spc, clean, gcRunning>>
vars == <<reqVars, tableVars, jobVars, cancelled, stopVars, target>>

ReqPC == {"new", "acquire", "inspect", "add", "rollback", "rollbackErr",
          "exec", "complete", "completeErr", "remove", "wgDone", "done"}
Answers == {"none", "nil", "stopped", "alreadyRunning", "handlerErr"}
Errs == {"nil", "stopped", "handlerErr"}
Record == [state : {"running", "success", "failed"}, err : Errs]
StopPC == {"idle", "close", "wait", "killAll", "forceWait", "idempotency", "returned"}

\* The goroutine of r's handler runs: from a successful add to wg.Done.
InFlight == {"exec", "complete", "completeErr", "remove", "wgDone"}
\* r owns the record of its log ID: from TryAcquire to the end of Complete.
Owning == {"add", "rollback", "rollbackErr", "exec", "complete", "completeErr"}

TypeOK ==
    /\ pc \in [Reqs -> ReqPC]
    /\ answer \in [Reqs -> Answers]
    /\ dup \in [Reqs -> Reqs \cup {None}]
    /\ outcome \in [Reqs -> Errs]
    /\ record \in [Reqs -> Record]
    /\ records \in [Logs -> Reqs \cup {None}]
    /\ mu \in Reqs \cup {None}
    /\ jobs \in [Logs -> Reqs \cup {None}]
    /\ wg \in Nat
    /\ drained \in BOOLEAN
    /\ cancelled \in SUBSET Reqs
    /\ stopped \in BOOLEAN
    /\ spc \in [Stoppers -> StopPC]
    /\ clean \in BOOLEAN
    /\ gcRunning \in BOOLEAN
    /\ target \in [Killers -> Reqs \cup {None}]

Init ==
    /\ pc = [r \in Reqs |-> "new"]
    /\ answer = [r \in Reqs |-> "none"]
    /\ dup = [r \in Reqs |-> None]
    /\ outcome = [r \in Reqs |-> "nil"]
    /\ record = [r \in Reqs |-> [state |-> "running", err |-> "nil"]]
    /\ records = [l \in Logs |-> None]
    /\ mu = None
    /\ jobs = [l \in Logs |-> None]
    /\ wg = 0
    /\ drained = FALSE
    /\ cancelled = {}
    /\ stopped = FALSE
    /\ spc = [s \in Stoppers |-> "idle"]
    /\ clean = FALSE
    /\ gcRunning = TRUE
    /\ target = [k \in Killers |-> None]
-----------------------------------------------------------------------------
(* Runner.Run *)

Goto(r, label) == pc' = [pc EXCEPT ![r] = label]

Reply(r, value) ==
    /\ answer' = [answer EXCEPT ![r] = value]
    /\ Goto(r, "done")

\* The fast path: one atomic load of stopped.
CheckStopped(r) ==
    /\ pc[r] = "new"
    /\ IF stopped
       THEN Reply(r, "stopped")
       ELSE Goto(r, "acquire") /\ UNCHANGED answer
    /\ UNCHANGED <<dup, outcome, tableVars, jobVars, cancelled, stopVars, target>>

\* Mutant of TryAcquire: a settled log ID may be executed again.
TryAcquireAgain(r) ==
    /\ pc[r] = "acquire"
    /\ mu = None
    /\ LET rec == records[LogOf[r]] IN
         IF rec = None \/ record[rec].state # "running"
         THEN /\ records' = [records EXCEPT ![LogOf[r]] = r]
              /\ Goto(r, "add")
              /\ UNCHANGED dup
         ELSE /\ dup' = [dup EXCEPT ![r] = rec]
              /\ Goto(r, "inspect")
              /\ UNCHANGED records
    /\ UNCHANGED <<answer, outcome, record, mu, jobVars, cancelled, stopVars, target>>

\* TryAcquire under Table.mu: a new record, or the existing one's pointer.
TryAcquire(r) ==
    /\ pc[r] = "acquire"
    /\ mu = None
    /\ \/ /\ records[LogOf[r]] = None
          /\ records' = [records EXCEPT ![LogOf[r]] = r]
          /\ Goto(r, "add")
          /\ UNCHANGED dup
       \/ /\ records[LogOf[r]] # None
          /\ dup' = [dup EXCEPT ![r] = records[LogOf[r]]]
          /\ Goto(r, "inspect")
          /\ UNCHANGED records
    /\ UNCHANGED <<answer, outcome, record, mu, jobVars, cancelled, stopVars, target>>

\* A duplicate reads rec.State and rec.Err without Table.mu.
Inspect(r) ==
    /\ pc[r] = "inspect"
    /\ LET rec == record[dup[r]] IN
         Reply(r, CASE rec.state = "running" -> "alreadyRunning"
                    [] rec.state = "success" -> "nil"
                    [] rec.state = "failed"  -> rec.err)
    /\ UNCHANGED <<dup, outcome, tableVars, jobVars, cancelled, stopVars, target>>

\* Mutant of Add: the barrier is left to the stopped flag.
AddUnguarded(r) ==
    /\ pc[r] = "add"
    /\ wg' = wg + 1
    /\ jobs' = [jobs EXCEPT ![LogOf[r]] = r]
    /\ answer' = [answer EXCEPT ![r] = "nil"]
    /\ Goto(r, "exec")
    /\ UNCHANGED <<dup, outcome, tableVars, drained, cancelled, stopVars, target>>

\* RunningJobSet.add under its mutex; on success Run starts the goroutine of
\* the handler and returns nil.
Add(r) ==
    /\ pc[r] = "add"
    /\ IF drained
       THEN /\ Goto(r, "rollback")
            /\ UNCHANGED <<answer, jobs, wg>>
       ELSE /\ wg' = wg + 1
            /\ jobs' = [jobs EXCEPT ![LogOf[r]] = r]
            /\ answer' = [answer EXCEPT ![r] = "nil"]
            /\ Goto(r, "exec")
    /\ UNCHANGED <<dup, outcome, tableVars, drained, cancelled, stopVars, target>>

\* Complete(logID, err) up to its write of rec.State: it does nothing without a
\* record or on a settled one, and on a failure it keeps Table.mu until rec.Err
\* is written too.
Complete(r, err, errLabel, endLabel) ==
    /\ mu = None
    /\ LET rec == records[LogOf[r]] IN
         IF rec # None /\ record[rec].state = "running"
         THEN IF err = "nil"
              THEN /\ record' = [record EXCEPT ![rec].state = "success"]
                   /\ Goto(r, endLabel)
                   /\ UNCHANGED mu
              ELSE /\ record' = [record EXCEPT ![rec].state = "failed"]
                   /\ mu' = r
                   /\ Goto(r, errLabel)
         ELSE /\ Goto(r, endLabel)
              /\ UNCHANGED <<record, mu>>
    /\ UNCHANGED records

\* The write of rec.Err, and the unlock.
CompleteErr(r, err) ==
    /\ record' = [record EXCEPT ![records[LogOf[r]]].err = err]
    /\ mu' = None
    /\ UNCHANGED records

\* Mutant of Rollback: a rejected request leaves its record running.
RollbackSkipped(r) ==
    /\ pc[r] = "rollback"
    /\ cancelled' = cancelled \cup {r}
    /\ Goto(r, "rollbackErr")
    /\ UNCHANGED <<answer, dup, outcome, tableVars, jobVars, stopVars, target>>

\* Mutant of Rollback: a rejected request is removed from the running set too.
RollbackRemoves(r) ==
    /\ pc[r] = "rollback"
    /\ Complete(r, "stopped", "rollbackErr", "rollbackErr")
    /\ cancelled' = cancelled \cup {r}
    /\ wg' = wg - 1
    /\ UNCHANGED <<answer, dup, outcome, jobs, drained, stopVars, target>>

\* A request that add() rejected cancels its context and rolls its record back.
Rollback(r) ==
    /\ pc[r] = "rollback"
    /\ Complete(r, "stopped", "rollbackErr", "rollbackErr")
    /\ cancelled' = cancelled \cup {r}
    /\ UNCHANGED <<answer, dup, outcome, jobVars, stopVars, target>>

RollbackErr(r) ==
    /\ pc[r] = "rollbackErr"
    /\ IF mu = r
       THEN CompleteErr(r, "stopped")
       ELSE UNCHANGED tableVars
    /\ Reply(r, "stopped")
    /\ UNCHANGED <<dup, outcome, jobVars, cancelled, stopVars, target>>

\* The handler, or the script engine, returns.
HandlerReturn(r) ==
    /\ pc[r] = "exec"
    /\ \E err \in {"nil", "handlerErr"} : outcome' = [outcome EXCEPT ![r] = err]
    /\ Goto(r, "complete")
    /\ UNCHANGED <<answer, dup, tableVars, jobVars, cancelled, stopVars, target>>

CompleteRun(r) ==
    /\ pc[r] = "complete"
    /\ Complete(r, outcome[r], "completeErr", "remove")
    /\ UNCHANGED <<answer, dup, outcome, jobVars, cancelled, stopVars, target>>

\* Mutant of CompleteRunErr: a job that ends while stopping counts as refused.
CompleteRunErrStopped(r) ==
    /\ pc[r] = "completeErr"
    /\ CompleteErr(r, IF stopped THEN "stopped" ELSE outcome[r])
    /\ Goto(r, "remove")
    /\ UNCHANGED <<answer, dup, outcome, jobVars, cancelled, stopVars, target>>

CompleteRunErr(r) ==
    /\ pc[r] = "completeErr"
    /\ CompleteErr(r, outcome[r])
    /\ Goto(r, "remove")
    /\ UNCHANGED <<answer, dup, outcome, jobVars, cancelled, stopVars, target>>

\* RunningJobSet.remove: the delete under the mutex, then wg.Done outside of it
\* and the deferred cancel.
Remove(r) ==
    /\ pc[r] = "remove"
    /\ jobs' = [jobs EXCEPT ![LogOf[r]] = None]
    /\ Goto(r, "wgDone")
    /\ UNCHANGED <<answer, dup, outcome, tableVars, wg, drained, cancelled, stopVars, target>>

WgDone(r) ==
    /\ pc[r] = "wgDone"
    /\ wg' = wg - 1
    /\ cancelled' = cancelled \cup {r}
    /\ Goto(r, "done")
    /\ UNCHANGED <<answer, dup, outcome, tableVars, jobs, drained, stopVars, target>>

\* context.WithTimeout fires.
Deadline(r) ==
    /\ pc[r] = "exec"
    /\ r \notin cancelled
    /\ cancelled' = cancelled \cup {r}
    /\ UNCHANGED <<reqVars, tableVars, jobVars, stopVars, target>>
-----------------------------------------------------------------------------
(* Runner.Kill: the lookup under the mutex, then cancel outside of it. *)

KillLookup(k, l) ==
    /\ target[k] = None
    /\ jobs[l] # None
    /\ target' = [target EXCEPT ![k] = jobs[l]]
    /\ UNCHANGED <<reqVars, tableVars, jobVars, cancelled, stopVars>>

KillCancel(k) ==
    /\ target[k] # None
    /\ target[k] \notin cancelled
    /\ cancelled' = cancelled \cup {target[k]}
    /\ UNCHANGED <<reqVars, tableVars, jobVars, stopVars, target>>
-----------------------------------------------------------------------------
(* Table.gc: the removal of a settled record whose TTL has passed.         *)

\* Mutant of Expire: the record of a running job expires too.
ExpireRunning(l) ==
    /\ gcRunning
    /\ mu = None
    /\ records[l] # None
    /\ records' = [records EXCEPT ![l] = None]
    /\ UNCHANGED <<reqVars, record, mu, jobVars, cancelled, stopVars, target>>

Expire(l) ==
    /\ gcRunning
    /\ mu = None
    /\ records[l] # None
    /\ record[records[l]].state # "running"
    /\ TTLOutlives => pc[records[l]] # "remove"
    /\ records' = [records EXCEPT ![l] = None]
    /\ UNCHANGED <<reqVars, record, mu, jobVars, cancelled, stopVars, target>>
-----------------------------------------------------------------------------
(* Runner.Stop *)

StopGoto(s, label) == spc' = [spc EXCEPT ![s] = label]

\* The compare-and-swap: only the first caller goes on, the others return.
StopCAS(s) ==
    /\ spc[s] = "idle"
    /\ stopped' = TRUE
    /\ StopGoto(s, IF stopped THEN "returned" ELSE "close")
    /\ UNCHANGED <<reqVars, tableVars, jobVars, cancelled, clean, gcRunning, target>>

\* Mutant of StopClose: the count is read and the set is left open.
StopCloseOpen(s) ==
    /\ spc[s] = "close"
    /\ StopGoto(s, IF Graceful THEN "wait" ELSE "killAll")
    /\ UNCHANGED <<reqVars, tableVars, jobVars, cancelled, stopped, clean, gcRunning, target>>

StopClose(s) ==
    /\ spc[s] = "close"
    /\ drained' = TRUE
    /\ StopGoto(s, IF Graceful THEN "wait" ELSE "killAll")
    /\ UNCHANGED <<reqVars, tableVars, jobs, wg, cancelled, stopped, clean, gcRunning, target>>

\* waitDone returns true: wg.Wait() returned before the timeout.
WaitDone(s) ==
    /\ spc[s] \in {"wait", "forceWait"}
    /\ wg = 0
    /\ clean' = TRUE
    /\ StopGoto(s, "idempotency")
    /\ UNCHANGED <<reqVars, tableVars, jobVars, cancelled, stopped, gcRunning, target>>

\* Mutant of WaitTimeout: the wait that follows killAll has no timeout.
WaitTimeoutOnce(s) ==
    /\ spc[s] = "wait"
    /\ StopGoto(s, "killAll")
    /\ UNCHANGED <<reqVars, tableVars, jobVars, cancelled, stopped, clean, gcRunning, target>>

\* waitDone returns false: after gracefulTimeout every job is killed, after five
\* more seconds Stop goes on all the same.
WaitTimeout(s) ==
    /\ spc[s] \in {"wait", "forceWait"}
    /\ StopGoto(s, IF spc[s] = "wait" THEN "killAll" ELSE "idempotency")
    /\ UNCHANGED <<reqVars, tableVars, jobVars, cancelled, stopped, clean, gcRunning, target>>

KillAll(s) ==
    /\ spc[s] = "killAll"
    /\ cancelled' = cancelled \cup {r \in Reqs : \E l \in Logs : jobs[l] = r}
    /\ StopGoto(s, "forceWait")
    /\ UNCHANGED <<reqVars, tableVars, jobVars, stopped, clean, gcRunning, target>>

\* idempotency.Stop ends the GC goroutine, and Stop returns.
StopReturn(s) ==
    /\ spc[s] = "idempotency"
    /\ gcRunning' = FALSE
    /\ StopGoto(s, "returned")
    /\ UNCHANGED <<reqVars, tableVars, jobVars, cancelled, stopped, clean, target>>
-----------------------------------------------------------------------------
ReqStep(r) ==
    \/ CheckStopped(r) \/ TryAcquire(r) \/ Inspect(r) \/ Add(r)
    \/ Rollback(r) \/ RollbackErr(r)
    \/ HandlerReturn(r) \/ CompleteRun(r) \/ CompleteRunErr(r)
    \/ Remove(r) \/ WgDone(r) \/ Deadline(r)

StopStep(s) ==
    \/ StopCAS(s) \/ StopClose(s) \/ WaitDone(s) \/ WaitTimeout(s)
    \/ KillAll(s) \/ StopReturn(s)

Next ==
    \/ \E r \in Reqs : ReqStep(r)
    \/ \E k \in Killers : KillCancel(k) \/ \E l \in Logs : KillLookup(k, l)
    \/ \E l \in Logs : Expire(l)
    \/ \E s \in Stoppers : StopStep(s)

Spec == Init /\ [][Next]_vars

\* The Go scheduler runs every goroutine and releases every mutex; a timer
\* fires.  Nothing makes a handler return.
Fairness ==
    /\ \A r \in Reqs :
         /\ WF_vars(CheckStopped(r)) /\ WF_vars(TryAcquire(r)) /\ WF_vars(Add(r))
         /\ WF_vars(Rollback(r)) /\ WF_vars(RollbackErr(r))
         /\ WF_vars(CompleteRun(r)) /\ WF_vars(CompleteRunErr(r))
         /\ WF_vars(Remove(r)) /\ WF_vars(WgDone(r))
    /\ \A s \in Stoppers :
         /\ WF_vars(StopClose(s)) /\ WF_vars(WaitTimeout(s))
         /\ WF_vars(KillAll(s)) /\ WF_vars(StopReturn(s))

FairSpec == Spec /\ Fairness
-----------------------------------------------------------------------------
(* Properties *)

\* One log ID is never executed by two goroutines at a time, whatever
\* duplicates, restarts of the GC and stops do: the request that executes it owns
\* the running record all along (Run, TryAcquire, Complete, gc).
ExecutorOwnsRecord ==
    \A r \in Reqs : pc[r] \in {"exec", "complete"} =>
        /\ records[LogOf[r]] = r
        /\ record[r].state = "running"
        /\ \A q \in Reqs \ {r} : LogOf[q] = LogOf[r] => pc[q] \notin Owning

\* A Stop whose waitDone returned true leaves no goroutine of a job behind and
\* none starts later (the barrier between add and close).
CleanStopIsFinal == clean => \A r \in Reqs : pc[r] \notin InFlight

\* When the forced phase of Stop begins to wait, every handler still running has
\* a cancelled context: killAll misses none and none starts after it.
KillAllReachesAll ==
    (\E s \in Stoppers : spc[s] = "forceWait") =>
        \A r \in Reqs : pc[r] = "exec" => r \in cancelled

\* A job that runs is in the set that Kill, IsIdle and count read, under its own
\* entry and not a later one's.
RunningIsTracked ==
    \A r \in Reqs : pc[r] \in InFlight \ {"wgDone"} => jobs[LogOf[r]] = r

\* The error a duplicate is answered with is its record's: handlerErr only if the
\* handler failed, and ErrRunnerStopped, on which the scheduler may go to another
\* executor, never for an execution that took place.
DuplicateErrorIsRecorded ==
    \A r \in Reqs : dup[r] # None =>
        /\ answer[r] = "handlerErr" => outcome[dup[r]] = "handlerErr"
        /\ answer[r] = "stopped" => answer[dup[r]] = "stopped"

\* idempotency.go:37 and executor_handler.go:33: a duplicate of a failed
\* execution is answered with its error, so nil means success.
DuplicateNilIsSuccess ==
    \A r \in Reqs : dup[r] # None /\ answer[r] = "nil" =>
        record[dup[r]].state = "success"

\* Stop returns even when handlers never do: both of its waits are bounded.
StopReturns == \A s \in Stoppers : spc[s] = "close" ~> spc[s] = "returned"

\* As the handlers of cmd/executor/main.go do, a handler returns once its context is
\* cancelled.
Cooperative ==
    \A r \in Reqs : pc[r] = "exec" /\ r \in cancelled ~> pc[r] # "exec"

\* Once Stop has closed the executor, every admitted log ID ends up settled, if the
\* handlers are cooperative: those not started are rolled back and the running ones
\* are cancelled.
DrainSettles ==
    Cooperative => \A l \in Logs : drained ~>
        (records[l] # None => record[records[l]].state # "running")

\* What the table answers for each log ID, and the log IDs in execution.
LedgerOf == [l \in Logs |->
    IF records[l] = None THEN "absent" ELSE record[records[l]].state]
Executing == {l \in Logs : \E r \in Reqs : LogOf[r] = l /\ pc[r] \in {"exec", "complete"}}

\* The ledger the executor implements.
Ledger == INSTANCE ExecutionLedger WITH
    ledger <- LedgerOf, executing <- Executing, closed <- drained

\* Runner, its running set and its table together implement ExecutionLedger.
ImplementsLedger == Ledger!Spec
=============================================================================
