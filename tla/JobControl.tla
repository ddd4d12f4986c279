----------------------------- MODULE JobControl -----------------------------
(***************************************************************************)
(* One job's row in job_info and its two writers: the job service, whose   *)
(* calls read the row and write it back by separate statements, and the    *)
(* scheduler, which has loaded the job into its in-memory store when it    *)
(* started and saves the store's whole record whenever it is dirty.        *)
(* Neither tells the other.  Times are abstracted to whether               *)
(* NextTriggerTime is set, the rest of the definition to a version.        *)
(* GORM's Save updates the row of the record's ID, or inserts it when      *)
(* there is none (external).                                               *)
(***************************************************************************)
EXTENDS Integers

CONSTANTS
    Callers,   \* requests to the job service
    MaxDefs,   \* bound: versions of the definition
    MaxCalls,  \* bound: calls of the service
    NoJob      \* no row; no entry of the store

Job == [status : {"run", "stop"}, cron : BOOLEAN, timed : BOOLEAN, def : 0 .. MaxDefs]

\* The bounds are numbers, a job may be created, and NoJob is none of the records.
ASSUME ControlAssumption == MaxDefs \in Nat /\ MaxCalls \in Nat \ {0} /\ NoJob \notin Job

VARIABLES
    db,        \* the row
    entry,     \* the store's record
    dirty,     \* its dirty flag
    flushing,  \* the copy that the flush has drained and not yet saved
    pc, copy,  \* pc[c]: the step of caller c; copy[c]: the row it has read
    calls,     \* calls made
    want,      \* history: what the last call that returned nil asked for
    loaded,    \* history: the scheduler has loaded the job
    overlap    \* history: two calls have overlapped

schedVars == <<entry, dirty, flushing>>
callVars == <<pc, copy, calls, want, overlap>>
vars == <<db, schedVars, callVars, loaded>>

TypeOK ==
    /\ {db, entry, flushing} \subseteq Job \cup {NoJob}
    /\ dirty \in BOOLEAN /\ (dirty => entry # NoJob)
    /\ pc \in [Callers -> {"idle", "save", "startSave", "start", "stop", "delete"}]
    /\ copy \in [Callers -> Job \cup {NoJob}]
    /\ calls \in 0 .. MaxCalls
    /\ want \in {"run", "stop", "none"}
    /\ loaded \in BOOLEAN /\ overlap \in BOOLEAN

Init ==
    /\ db = NoJob /\ entry = NoJob /\ flushing = NoJob /\ dirty = FALSE
    /\ pc = [c \in Callers |-> "idle"] /\ copy = [c \in Callers |-> NoJob]
    /\ calls = 0
    /\ want = "none"
    /\ loaded = FALSE /\ overlap = FALSE
-----------------------------------------------------------------------------
(* The job service *)

\* A call of caller c begins with FindByID: without a row it fails.
Enter(c) ==
    /\ pc[c] = "idle" /\ calls < MaxCalls
    /\ db # NoJob
    /\ calls' = calls + 1
    /\ overlap' = (overlap \/ \E d \in Callers : pc[d] # "idle")
    /\ UNCHANGED <<db, schedVars, want, loaded>>

Goto(c, label, job) == pc' = [pc EXCEPT ![c] = label] /\ copy' = [copy EXCEPT ![c] = job]

Return(c, asked) == Goto(c, "idle", NoJob) /\ want' = asked /\ UNCHANGED <<calls, overlap>>

\* A job is created stopped; with a cron expression it has its next time.
CreateJob(cron) ==
    /\ calls = 0 /\ calls' = 1
    /\ db' = [status |-> "stop", cron |-> cron, timed |-> cron, def |-> 0]
    /\ want' = "stop"
    /\ UNCHANGED <<schedVars, pc, copy, overlap, loaded>>

\* UpdateJob changes the copy it has read; an expression in the request also sets the next time.
UpdateJob(c, cron) ==
    /\ db # NoJob /\ db.def < MaxDefs
    /\ Enter(c)
    /\ Goto(c, "save", [db EXCEPT !.def = @ + 1, !.cron = cron \/ @, !.timed = cron \/ @])

\* StartJob refuses a running job; with a cron expression it saves the row with a new time.
StartJob(c) ==
    /\ Enter(c) /\ db.status = "stop"
    /\ IF db.cron THEN Goto(c, "startSave", [db EXCEPT !.timed = TRUE]) ELSE Goto(c, "start", NoJob)

StopJob(c) == Enter(c) /\ Goto(c, "stop", NoJob)
DeleteJob(c) == Enter(c) /\ Goto(c, "delete", NoJob)

\* jobInfoDAO.Update; UpdateStatus and Delete change nothing when there is no row.
Save(c) ==
    /\ pc[c] \in {"save", "startSave"}
    /\ db' = copy[c]
    /\ IF pc[c] = "save" THEN Return(c, IF db = NoJob THEN copy[c].status ELSE want)
       ELSE Goto(c, "start", NoJob) /\ UNCHANGED <<calls, want, overlap>>
    /\ UNCHANGED <<schedVars, loaded>>

\* Mutant of UpdateStatus: StopJob passes JobRun too.
UpdateStatusRun(c) ==
    /\ pc[c] \in {"start", "stop"}
    /\ db' = IF db = NoJob THEN NoJob ELSE [db EXCEPT !.status = "run"]
    /\ Return(c, IF pc[c] = "start" THEN "run" ELSE "stop")
    /\ UNCHANGED <<schedVars, loaded>>

UpdateStatus(c) ==
    /\ pc[c] \in {"start", "stop"}
    /\ LET status == IF pc[c] = "start" THEN "run" ELSE "stop" IN
       /\ db' = IF db = NoJob THEN NoJob ELSE [db EXCEPT !.status = status]
       /\ Return(c, status)
    /\ UNCHANGED <<schedVars, loaded>>

Delete(c) ==
    /\ pc[c] = "delete"
    /\ db' = NoJob
    /\ Return(c, "none")
    /\ UNCHANGED <<schedVars, loaded>>

\* A statement fails: the call returns the error, what it has written stays, and the caller has
\* been promised nothing.
DaoFails(c) ==
    /\ pc[c] # "idle"
    /\ Return(c, IF db = NoJob THEN "none" ELSE db.status)
    /\ UNCHANGED <<db, schedVars, loaded>>
-----------------------------------------------------------------------------
(* The scheduler: start, a dispatched trigger, the flush, the end of the process *)

\* bootstrap, once per process, loads the job if its row is running.
Load ==
    /\ entry = NoJob /\ loaded' = TRUE
    /\ db # NoJob /\ db.status = "run"
    /\ entry' = db
    /\ UNCHANGED <<db, dirty, flushing, callVars>>

\* reschedule: a job with an expression gets a new next time, one without is stopped.
Reschedule ==
    /\ entry # NoJob
    /\ entry' = IF entry.cron THEN [entry EXCEPT !.timed = TRUE]
                ELSE [entry EXCEPT !.status = "stop"]
    /\ dirty' = TRUE
    /\ UNCHANGED <<db, flushing, callVars, loaded>>

DrainDirty ==
    /\ dirty /\ flushing = NoJob
    /\ flushing' = entry /\ dirty' = FALSE
    /\ UNCHANGED <<db, entry, callVars, loaded>>

\* storeFlusher.FlushJob saves the whole record; after a failure the entry is dirty again.
FlushJob ==
    /\ flushing # NoJob /\ flushing' = NoJob
    /\ \/ db' = flushing /\ UNCHANGED dirty
       \/ dirty' = TRUE /\ UNCHANGED db
    /\ UNCHANGED <<entry, callVars, loaded>>

\* The admin process ends; the next one loads again.
Crash ==
    /\ entry # NoJob
    /\ entry' = NoJob /\ flushing' = NoJob /\ dirty' = FALSE
    /\ UNCHANGED <<db, callVars, loaded>>
-----------------------------------------------------------------------------
Next ==
    \/ \E cron \in BOOLEAN : CreateJob(cron)
    \/ \E c \in Callers : \/ \E cron \in BOOLEAN : UpdateJob(c, cron)
                          \/ StartJob(c) \/ StopJob(c) \/ DeleteJob(c)
                          \/ Save(c) \/ UpdateStatus(c) \/ Delete(c) \/ DaoFails(c)
    \/ Load \/ Reschedule \/ DrainDirty \/ FlushJob \/ Crash

Spec == Init /\ [][Next]_vars
-----------------------------------------------------------------------------
CronRowHasNext == db # NoJob /\ db.cron => db.timed

Quiet == \A c \in Callers : pc[c] = "idle"

\* While the scheduler has not loaded the job, calls that did not overlap leave the row as the
\* last of them asked: started, stopped or gone.  And whichever writer was the last, calls that
\* overlap and the flush included, a row with a cron expression has a next trigger time, so
\* that the scheduler loads and arms it.
LastCallHolds ==
    /\ ~loaded /\ ~overlap /\ Quiet => want = IF db = NoJob THEN "none" ELSE db.status
    /\ CronRowHasNext

\* job_service.go:261: StopJob disables a job.
StopDisables == ~overlap /\ Quiet /\ want = "stop" => db = NoJob \/ db.status = "stop"
=============================================================================
