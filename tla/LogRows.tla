------------------------------ MODULE LogRows -------------------------------
(***************************************************************************)
(* The status of job_log rows: written by the scheduler's callExecutor     *)
(* when the executor has answered, by KillJob and by ReportResult, and     *)
(* read by the retry service, which triggers jobs of failed rows again.    *)
(* No writer looks at the status it overwrites.                            *)
(*                                                                         *)
(* The work between the worker channel and a row (lock, limits, block      *)
(* strategy, route) is Scheduler's subject; here a task is skipped, or     *)
(* gets a failed row, or a running one and a call.  A row older than the   *)
(* retry window that nobody works on is forgotten and its name used again. *)
(***************************************************************************)
EXTENDS Integers, FiniteSets, FiniteSetsExt

CONSTANTS
    Logs,        \* names of rows
    Jobs,
    Children,    \* Children[j]: the jobs in j's child_job_ids
    RetryCount,  \* RetryCount[j]
    Killers,     \* requests that call KillJob
    Window,      \* the five minutes of ListRetryable
    Cap,         \* bound: tasks in the worker channel, per job
    MaxTimers,   \* bound: pending AfterFuncs, per job
    MaxFires,    \* bound: cron triggers
    MaxReports   \* bound: calls of ReportResult

VARIABLES
    row,        \* row[l]: its status, job, trigger type and age
    call,       \* call[l]: callExecutor: none, sent, ok, err, done
    exec,       \* exec[l]: the executor's side: off, refused, running, ended, killed
    kill,       \* kill[k]: the step of a KillJob and its row
    tasks,      \* tasks[j]: manual triggers of j in the worker channel
    timers,     \* timers[j]: pending retries of j
    fires, reports,
    recovered,  \* from now on every call succeeds
    lost        \* history: rows with no callExecutor, or whose callExecutor ended without a write

envVars == <<fires, reports, recovered>>
vars == <<row, call, exec, kill, tasks, timers, envVars, lost>>

Final == {"success", "fail", "killed"}
Free ==
    CHOOSE r \in {[status |-> "free", job |-> j, trig |-> "first", age |-> 0] : j \in Jobs} : TRUE
NoKill == [at |-> "idle"]

TypeOK ==
    /\ row \in [Logs -> [status : {"free", "running"} \cup Final, job : Jobs,
                         trig : {"first", "retry"}, age : 0 .. Window + 1]]
    /\ call \in [Logs -> {"none", "sent", "ok", "err", "done"}]
    /\ exec \in [Logs -> {"off", "refused", "running", "ended", "killed"}]
    /\ kill \in [Killers -> {NoKill} \cup [at : {"read", "killed"}, log : Logs]]
    /\ tasks \in [Jobs -> 0 .. Cap] /\ timers \in [Jobs -> 0 .. MaxTimers]
    /\ fires \in 0 .. MaxFires /\ reports \in 0 .. MaxReports
    /\ recovered \in BOOLEAN
    /\ lost \in SUBSET Logs

Init ==
    /\ row = [l \in Logs |-> Free]
    /\ call = [l \in Logs |-> "none"] /\ exec = [l \in Logs |-> "off"]
    /\ kill = [k \in Killers |-> NoKill]
    /\ tasks = [j \in Jobs |-> 0] /\ timers = [j \in Jobs |-> 0]
    /\ fires = 0 /\ reports = 0
    /\ recovered = FALSE
    /\ lost = {}
-----------------------------------------------------------------------------
(* The scheduler *)

\* The channel after a TriggerJob of every job in js; a full channel drops the trigger.
TriggerJobs(js) == [j \in Jobs |-> IF j \in js /\ tasks[j] < Cap THEN tasks[j] + 1 ELSE tasks[j]]

\* handleTask of job j: skipped, recordTriggerFail, or sendTrigger into row l.  The row's trigger
\* type is cron or manual, "first" in both cases.  The log buffer may store the row of a sendTrigger
\* whose Create reports an error: the row is Running and no call follows.
HandleTask(j) ==
    \/ UNCHANGED <<row, call, exec, lost>>
    \/ \E l \in Logs, sent \in {"failed", "unsent", "call"} :
         /\ row[l].status = "free" /\ (sent = "call" \/ ~recovered)
         /\ row' = [row EXCEPT ![l] = [status |-> IF sent = "failed" THEN "fail" ELSE "running",
                                       job |-> j, trig |-> "first", age |-> 0]]
         /\ call' = [call EXCEPT ![l] = IF sent = "call" THEN "sent" ELSE "done"]
         /\ exec' = [exec EXCEPT ![l] = IF sent = "call" THEN "off" ELSE "refused"]
         /\ lost' = IF sent = "unsent" THEN lost \cup {l} ELSE lost

CronFire(j) ==
    /\ fires < MaxFires /\ fires' = fires + 1
    /\ HandleTask(j)
    /\ UNCHANGED <<kill, tasks, timers, reports, recovered>>

Worker(j) ==
    /\ tasks[j] > 0 /\ tasks' = [tasks EXCEPT ![j] = @ - 1]
    /\ HandleTask(j)
    /\ UNCHANGED <<kill, timers, envVars>>

\* The executor takes the call, also after the client has given up, or refuses it.
Accept(l) ==
    /\ call[l] # "none" /\ exec[l] = "off"
    /\ exec' = [exec EXCEPT ![l] = "running"]
    /\ call' = [call EXCEPT ![l] = IF @ = "sent" THEN "ok" ELSE @]
    /\ UNCHANGED <<row, kill, tasks, timers, envVars, lost>>

Refuse(l) ==
    /\ call[l] = "sent" /\ exec[l] = "off" /\ ~recovered
    /\ exec' = [exec EXCEPT ![l] = "refused"]
    /\ call' = [call EXCEPT ![l] = "err"]
    /\ UNCHANGED <<row, kill, tasks, timers, envVars, lost>>

\* The call's timeout, or the loss of its answer.
CallTimeout(l) ==
    /\ call[l] \in {"sent", "ok"} /\ ~recovered
    /\ call' = [call EXCEPT ![l] = "err"]
    /\ UNCHANGED <<row, exec, kill, tasks, timers, envVars, lost>>

HandlerEnds(l) ==
    /\ exec[l] = "running"
    /\ exec' = [exec EXCEPT ![l] = "ended"]
    /\ UNCHANGED <<row, call, kill, tasks, timers, envVars, lost>>

\* Mutant of UpdateResult: a failed call returns at once.
UpdateResultOfSuccess(l) ==
    /\ call[l] \in {"ok", "err"}
    /\ call' = [call EXCEPT ![l] = "done"]
    /\ row' = [row EXCEPT ![l].status = IF call[l] = "ok" THEN "success" ELSE @]
    /\ UNCHANGED <<exec, kill, tasks, timers, envVars, lost>>

\* callExecutor's UpdateResult; its error is dropped.
UpdateResult(l) ==
    /\ call[l] \in {"ok", "err"}
    /\ call' = [call EXCEPT ![l] = "done"]
    /\ \/ /\ row' = [row EXCEPT ![l].status = IF call[l] = "ok" THEN "success" ELSE "fail"]
          /\ UNCHANGED lost
       \/ ~recovered /\ lost' = lost \cup {l} /\ UNCHANGED row
    /\ UNCHANGED <<exec, kill, tasks, timers, envVars>>

\* The admin process ends and starts again: its calls, kills, tasks and timers are gone.
Restart ==
    /\ ~recovered
    /\ \E l \in Logs : call[l] \in {"sent", "ok", "err"}
    /\ lost' = lost \cup {l \in Logs : call[l] \in {"sent", "ok", "err"}}
    /\ call' = [l \in Logs |-> IF call[l] = "none" THEN "none" ELSE "done"]
    /\ kill' = [k \in Killers |-> NoKill]
    /\ tasks' = [j \in Jobs |-> 0] /\ timers' = [j \in Jobs |-> 0]
    /\ UNCHANGED <<row, exec, envVars>>
-----------------------------------------------------------------------------
(* The services *)

\* KillJob: the row is read as Running; the executor kills, or does not know the log or its
\* answer is lost; the row is written.
KillRead(k, l) ==
    /\ kill[k] = NoKill /\ row[l].status = "running"
    /\ kill' = [kill EXCEPT ![k] = [at |-> "read", log |-> l]]
    /\ UNCHANGED <<row, call, exec, tasks, timers, envVars, lost>>

\* Mutant of KillCall: the executor's answer is not looked at.
KillCallBlind(k) ==
    /\ kill[k].at = "read"
    /\ exec' = [exec EXCEPT ![kill[k].log] = IF @ = "running" THEN "killed" ELSE @]
    /\ kill' = [kill EXCEPT ![k].at = "killed"]
    /\ UNCHANGED <<row, call, tasks, timers, envVars, lost>>

KillCall(k) ==
    /\ kill[k].at = "read"
    /\ LET running == exec[kill[k].log] = "running" IN
       /\ exec' = [exec EXCEPT ![kill[k].log] = IF running THEN "killed" ELSE @]
       /\ \/ running /\ kill' = [kill EXCEPT ![k].at = "killed"]
          \/ kill' = [kill EXCEPT ![k] = NoKill]
    /\ UNCHANGED <<row, call, tasks, timers, envVars, lost>>

KillWrite(k) ==
    /\ kill[k].at = "killed"
    /\ row' = [row EXCEPT ![kill[k].log].status = "killed"]
    /\ kill' = [kill EXCEPT ![k] = NoKill]
    /\ UNCHANGED <<call, exec, tasks, timers, envVars, lost>>

\* ReportResult for a row whose handler has run; a success triggers the children.
ReportResult(l, status) ==
    /\ reports < MaxReports /\ reports' = reports + 1
    /\ row[l].status # "free" /\ exec[l] \in {"running", "ended"}
    /\ row' = [row EXCEPT ![l].status = status]
    /\ tasks' = IF status = "success" THEN TriggerJobs(Children[row[l].job]) ELSE tasks
    /\ UNCHANGED <<call, exec, kill, timers, fires, recovered, lost>>

\* RetryService.Run: one timer for every failed row of the window that is not a retry itself
\* and whose job has fewer rows of type retry than its limit.
Retryable(j) == {l \in Logs : /\ row[l].status = "fail" /\ row[l].trig # "retry"
                              /\ row[l].job = j /\ row[l].age <= Window}
CountRetries(j) == Cardinality({l \in Logs : row[l].status # "free" /\ row[l].job = j
                                             /\ row[l].trig = "retry"})

\* Mutant of RetryScan: the age of a failed row does not matter.
RetryScanAll ==
    /\ timers' = [j \in Jobs |-> IF CountRetries(j) >= RetryCount[j] THEN timers[j]
         ELSE Min({MaxTimers, timers[j] + Cardinality({l \in Logs :
                    row[l].status = "fail" /\ row[l].job = j})})]
    /\ timers' # timers
    /\ UNCHANGED <<row, call, exec, kill, tasks, envVars, lost>>

RetryScan ==
    /\ timers' = [j \in Jobs |-> IF CountRetries(j) >= RetryCount[j] THEN timers[j]
         ELSE Min({MaxTimers, timers[j] + Cardinality(Retryable(j))})]
    /\ timers' # timers
    /\ UNCHANGED <<row, call, exec, kill, tasks, envVars, lost>>

RetryFire(j) ==
    /\ timers[j] > 0 /\ timers' = [timers EXCEPT ![j] = @ - 1]
    /\ tasks' = TriggerJobs({j})
    /\ UNCHANGED <<row, call, exec, kill, envVars, lost>>
-----------------------------------------------------------------------------
Busy(l) ==
    \/ row[l].status = "running"
    \/ call[l] \in {"sent", "ok", "err"}
    \/ exec[l] \in {"off", "running"}
    \/ \E k \in Killers : kill[k] # NoKill /\ kill[k].log = l

\* Time passes; a row that is done with and past the window is forgotten.
Age ==
    /\ \E l \in Logs : row[l].status # "free" /\ row[l].age <= Window
    /\ row' = [l \in Logs |-> IF row[l].status # "free" /\ row[l].age <= Window
                              THEN [row[l] EXCEPT !.age = @ + 1] ELSE row[l]]
    /\ UNCHANGED <<call, exec, kill, tasks, timers, envVars, lost>>

Forget(l) ==
    /\ row[l].status \in Final /\ row[l].age > Window /\ ~Busy(l)
    /\ row' = [row EXCEPT ![l] = Free]
    /\ call' = [call EXCEPT ![l] = "none"] /\ exec' = [exec EXCEPT ![l] = "off"]
    /\ lost' = lost \ {l}
    /\ UNCHANGED <<kill, tasks, timers, envVars>>

Recover ==
    /\ ~recovered /\ recovered' = TRUE
    /\ UNCHANGED <<row, call, exec, kill, tasks, timers, fires, reports, lost>>

Next ==
    \/ \E j \in Jobs : CronFire(j) \/ Worker(j) \/ RetryFire(j)
    \/ \E l \in Logs : Accept(l) \/ Refuse(l) \/ CallTimeout(l) \/ HandlerEnds(l) \/ UpdateResult(l)
                       \/ Forget(l)
    \/ \E l \in Logs, status \in {"success", "fail"} : ReportResult(l, status)
    \/ \E k \in Killers : KillCall(k) \/ KillWrite(k) \/ \E l \in Logs : KillRead(k, l)
    \/ RetryScan \/ Age \/ Restart \/ Recover

Spec == Init /\ [][Next]_vars

\* Timers fire, workers work, calls end at their timeout at the latest, handlers end.
Fairness ==
    /\ WF_vars(Age)
    /\ \A j \in Jobs : WF_vars(Worker(j)) /\ WF_vars(RetryFire(j))
    /\ \A l \in Logs : WF_vars(Accept(l)) /\ WF_vars(UpdateResult(l)) /\ WF_vars(HandlerEnds(l))

FairSpec == Spec /\ Fairness
-----------------------------------------------------------------------------
\* A verdict is earned: a row is Success or Killed only if the executor has accepted its log,
\* and Killed only if that execution was killed.
VerdictIsEarned ==
    \A l \in Logs :
        /\ row[l].status = "success" => exec[l] \notin {"off", "refused"}
        /\ row[l].status = "killed" => exec[l] = "killed"

\* A row stays Running only as long as a call is under way that will settle it: only a crash,
\* a failed update or a Create that reported an error for a row it stored leaves one behind.
RunningIsWatched ==
    \A l \in Logs : row[l].status = "running" => call[l] \in {"sent", "ok", "err"} \/ l \in lost

\* Retries end: once every call succeeds, the last failed rows leave the window and no timer is
\* pending any more, however often they were retried.
RetriesEnd == <>[]recovered => <>[](\A j \in Jobs : timers[j] = 0)
=============================================================================
