---------------------------- MODULE LogRowsProofs ----------------------------
(***************************************************************************)
(* For any rows, jobs and killers, and however often a call is lost, an    *)
(* admin process restarts or a row's name is used again: verdicts are      *)
(* earned, and only crashes and failed writes leave a row Running.         *)
(***************************************************************************)
EXTENDS LogRows, TLAPS

\* Free is a row of some job.
RowsAssumption == Jobs # {}

Statuses == {"free", "running"} \cup Final
Kills == [at : {"read", "killed"}, log : Logs]

\* The part of the type that the proofs need.
Shape ==
    /\ row \in [Logs -> [status : Statuses, job : Jobs, trig : {"first", "retry"}, age : Nat]]
    /\ call \in [Logs -> {"none", "sent", "ok", "err", "done"}]
    /\ exec \in [Logs -> {"off", "refused", "running", "ended", "killed"}]
    /\ kill \in [Killers -> {NoKill} \cup Kills]

\* A call that succeeded was accepted, a KillJob holds a row that is still there, and one that
\* is about to write has killed.
Earned ==
    /\ \A l \in Logs : call[l] = "ok" => exec[l] \notin {"off", "refused"}
    /\ \A k \in Killers : kill[k] # NoKill =>
          /\ row[kill[k].log].status # "free"
          /\ kill[k].at = "killed" => exec[kill[k].log] = "killed"

IInv == Shape /\ Earned /\ VerdictIsEarned

LEMMA FreeIsARow ==
    ASSUME RowsAssumption
    PROVE  /\ Free \in [status : Statuses, job : Jobs, trig : {"first", "retry"}, age : Nat]
           /\ Free.status = "free"
<1> DEFINE Rows == {[status |-> "free", job |-> j, trig |-> "first", age |-> 0] : j \in Jobs}
<1>1. \E r \in Rows : TRUE
  BY DEF RowsAssumption
<1>2. Free \in Rows
  BY <1>1 DEF Free
<1>3. QED
  BY <1>2 DEF Statuses

LEMMA KillsAreTold == ASSUME NEW x \in Kills PROVE x # NoKill
BY DEF Kills, NoKill

LEMMA Initially == ASSUME RowsAssumption, Init PROVE IInv
<1>1. Shape
  BY FreeIsARow DEF Init, Shape
<1>2. Earned
  BY DEF Init, Earned
<1>3. VerdictIsEarned
  BY FreeIsARow DEF Init, VerdictIsEarned
<1>4. QED
  BY <1>1, <1>2, <1>3 DEF IInv

LEMMA HandleTaskKeeps ==
    ASSUME IInv, NEW j \in Jobs, HandleTask(j), UNCHANGED kill
    PROVE  IInv'
<1> USE DEF IInv
<1>1. CASE UNCHANGED <<row, call, exec, lost>>
  BY <1>1 DEF Shape, Earned, VerdictIsEarned
<1>2. ASSUME NEW l \in Logs, NEW sent \in {"failed", "unsent", "call"},
             row[l].status = "free",
             row' = [row EXCEPT ![l] = [status |-> IF sent = "failed" THEN "fail" ELSE "running",
                                        job |-> j, trig |-> "first", age |-> 0]],
             call' = [call EXCEPT ![l] = IF sent = "call" THEN "sent" ELSE "done"],
             exec' = [exec EXCEPT ![l] = IF sent = "call" THEN "off" ELSE "refused"]
      PROVE  IInv'
  <2>1. Shape'
    BY <1>2 DEF Shape, Statuses, Final
  <2>2. Earned'
    <3>1. \A k \in Killers : kill[k] # NoKill => kill[k] \in Kills /\ kill[k].log # l
      BY <1>2 DEF Shape, Earned
    <3>2. QED
      BY <1>2, <3>1 DEF Shape, Earned, Kills
  <2>3. VerdictIsEarned'
    BY <1>2 DEF Shape, VerdictIsEarned
  <2>4. QED
    BY <2>1, <2>2, <2>3
<1>3. QED
  BY <1>1, <1>2 DEF HandleTask

\* The steps of a call: they change what the executor or callExecutor knows of one log.
LEMMA CallKeeps ==
    ASSUME IInv, NEW l \in Logs,
           Accept(l) \/ Refuse(l) \/ CallTimeout(l) \/ HandlerEnds(l) \/ UpdateResult(l)
    PROVE  IInv'
<1> USE DEF IInv
<1>1. CASE Accept(l)
  BY <1>1 DEF Accept, Shape, Earned, VerdictIsEarned
<1>2. CASE Refuse(l)
  BY <1>2 DEF Refuse, Shape, Earned, VerdictIsEarned
<1>3. CASE CallTimeout(l)
  BY <1>3 DEF CallTimeout, Shape, Earned, VerdictIsEarned
<1>4. CASE HandlerEnds(l)
  BY <1>4 DEF HandlerEnds, Shape, Earned, VerdictIsEarned
<1>5. CASE UpdateResult(l)
  <2>1. Shape'
    BY <1>5 DEF UpdateResult, Shape, Statuses, Final
  <2>2. Earned'
    BY <1>5, SMTT(30) DEF UpdateResult, Shape, Earned, Kills
  <2>3. VerdictIsEarned'
    BY <1>5, SMTT(30) DEF UpdateResult, Shape, Earned, VerdictIsEarned
  <2>4. QED
    BY <2>1, <2>2, <2>3
<1>6. QED
  BY <1>1, <1>2, <1>3, <1>4, <1>5

LEMMA KillKeeps ==
    ASSUME IInv, NEW k \in Killers,
           KillCall(k) \/ KillWrite(k) \/ \E l \in Logs : KillRead(k, l)
    PROVE  IInv'
<1> USE DEF IInv
<1>1. ASSUME NEW l \in Logs, KillRead(k, l) PROVE IInv'
  BY <1>1 DEF KillRead, Shape, Earned, VerdictIsEarned, Kills, NoKill
<1>2. CASE KillCall(k)
  <2>1. kill[k] \in Kills
    BY <1>2 DEF KillCall, Shape, NoKill
  <2>2. Shape'
    BY <1>2, <2>1 DEF KillCall, Shape, Kills
  <2>3. Earned' /\ VerdictIsEarned'
    BY <1>2, <2>1, KillsAreTold DEF KillCall, Shape, Earned, VerdictIsEarned, Kills
  <2>4. QED
    BY <2>2, <2>3
<1>3. CASE KillWrite(k)
  <2>1. kill[k] \in Kills /\ kill[k] # NoKill
    BY <1>3 DEF KillWrite, Shape, NoKill
  <2>2. Shape'
    BY <1>3, <2>1 DEF KillWrite, Shape, Kills, Statuses, Final
  <2>3. Earned' /\ VerdictIsEarned'
    BY <1>3, <2>1 DEF KillWrite, Shape, Earned, VerdictIsEarned, Kills
  <2>4. QED
    BY <2>2, <2>3
<1>4. QED
  BY <1>1, <1>2, <1>3

LEMMA NextKeeps == ASSUME RowsAssumption, IInv, [Next]_vars PROVE IInv'
<1>1. ASSUME NEW j \in Jobs, CronFire(j) \/ Worker(j) \/ RetryFire(j) PROVE IInv'
  <2>1. CASE CronFire(j) \/ Worker(j)
    BY <2>1, HandleTaskKeeps DEF CronFire, Worker
  <2>2. CASE RetryFire(j)
    BY <2>2 DEF RetryFire, IInv, Shape, Earned, VerdictIsEarned
  <2>3. QED
    BY <1>1, <2>1, <2>2
<1>2. ASSUME NEW l \in Logs, Forget(l) PROVE IInv'
  <2>1. Shape'
    BY <1>2, FreeIsARow DEF Forget, IInv, Shape
  <2>2. \A k \in Killers : kill[k] # NoKill => kill[k].log # l
    BY <1>2 DEF Forget, Busy
  <2>3. Earned'
    BY <1>2, <2>2 DEF Forget, IInv, Shape, Earned, Kills
  <2>4. VerdictIsEarned'
    BY <1>2, FreeIsARow DEF Forget, IInv, Shape, VerdictIsEarned
  <2>5. QED
    BY <2>1, <2>3, <2>4 DEF IInv
<1>3. ASSUME NEW l \in Logs, NEW status \in {"success", "fail"}, ReportResult(l, status)
      PROVE  IInv'
  <2>1. UNCHANGED <<call, exec, kill>> /\ row' = [row EXCEPT ![l].status = status]
    BY <1>3 DEF ReportResult
  <2>2. Shape'
    BY <1>3, <2>1 DEF IInv, Shape, Statuses, Final
  <2>3. Earned'
    BY <1>3, <2>1, SMTT(30) DEF IInv, Shape, Earned, Kills
  <2>4. VerdictIsEarned'
    BY <1>3, <2>1, SMTT(30) DEF ReportResult, IInv, Shape, VerdictIsEarned
  <2>5. QED
    BY <2>2, <2>3, <2>4 DEF IInv
<1>4. CASE RetryScan
  BY <1>4 DEF RetryScan, IInv, Shape, Earned, VerdictIsEarned
<1>5. CASE Age
  <2>1. Shape'
    BY <1>5, SMTT(30) DEF Age, IInv, Shape
  <2>2. \A l \in Logs : row'[l].status = row[l].status
    BY <1>5 DEF Age, IInv, Shape
  <2>3. Earned'
    BY <1>5, <2>2 DEF Age, IInv, Shape, Earned, Kills
  <2>4. VerdictIsEarned'
    BY <1>5, <2>2 DEF Age, IInv, VerdictIsEarned
  <2>5. QED
    BY <2>1, <2>3, <2>4 DEF IInv
<1>6. CASE Restart
  BY <1>6 DEF Restart, IInv, Shape, Earned, VerdictIsEarned
<1>7. CASE Recover \/ UNCHANGED vars
  BY <1>7 DEF Recover, vars, envVars, IInv, Shape, Earned, VerdictIsEarned
<1>8. QED
  BY <1>1, <1>2, <1>3, <1>4, <1>5, <1>6, <1>7, CallKeeps, KillKeeps DEF Next

\* Success and Killed are earned, whatever is lost, restarted, killed, reported or retried.
THEOREM VerdictsAreEarned == RowsAssumption => (Spec => []VerdictIsEarned)
<1> SUFFICES ASSUME RowsAssumption PROVE Spec => []VerdictIsEarned
  OBVIOUS
<1>1. Init => IInv
  BY Initially
<1>2. IInv /\ [Next]_vars => IInv'
  BY NextKeeps
<1>3. IInv => VerdictIsEarned
  BY DEF IInv
<1>4. QED
  BY <1>1, <1>2, <1>3, PTL DEF Spec

-----------------------------------------------------------------------------
LEMMA WatchKeeps ==
    ASSUME RowsAssumption, Shape, RunningIsWatched, [Next]_vars
    PROVE  RunningIsWatched'
<1> USE DEF Shape, RunningIsWatched
<1>1. ASSUME NEW j \in Jobs, HandleTask(j) PROVE RunningIsWatched'
  BY <1>1 DEF HandleTask
<1>2. ASSUME NEW l \in Logs, Accept(l) \/ Refuse(l) \/ CallTimeout(l) \/ HandlerEnds(l)
      PROVE  RunningIsWatched'
  BY <1>2 DEF Accept, Refuse, CallTimeout, HandlerEnds
<1>3. ASSUME NEW l \in Logs, UpdateResult(l) PROVE RunningIsWatched'
  BY <1>3 DEF UpdateResult
<1>4. ASSUME NEW l \in Logs, Forget(l) PROVE RunningIsWatched'
  BY <1>4, FreeIsARow DEF Forget
<1>5. ASSUME NEW l \in Logs, NEW status \in {"success", "fail"}, ReportResult(l, status)
      PROVE  RunningIsWatched'
  BY <1>5 DEF ReportResult
<1>6. ASSUME NEW k \in Killers, KillCall(k) \/ \E l \in Logs : KillRead(k, l)
      PROVE  RunningIsWatched'
  BY <1>6 DEF KillCall, KillRead
<1>7. ASSUME NEW k \in Killers, KillWrite(k) PROVE RunningIsWatched'
  BY <1>7 DEF KillWrite
<1>8. CASE Age
  BY <1>8 DEF Age
<1>9. CASE Restart
  BY <1>9 DEF Restart
<1>10. CASE (\E j \in Jobs : RetryFire(j)) \/ RetryScan \/ Recover \/ UNCHANGED vars
  BY <1>10 DEF RetryFire, RetryScan, Recover, vars, envVars
<1>11. QED
  BY <1>1, <1>2, <1>3, <1>4, <1>5, <1>6, <1>7, <1>8, <1>9, <1>10 DEF Next, CronFire, Worker

\* Whatever the order of writers, no row but those of a crash or of a failed write stays
\* Running with nobody to settle it.
THEOREM RunningRowsAreWatched == RowsAssumption => (Spec => []RunningIsWatched)
<1> SUFFICES ASSUME RowsAssumption PROVE Spec => []RunningIsWatched
  OBVIOUS
<1>1. Init => IInv /\ RunningIsWatched
  BY Initially, FreeIsARow DEF Init, RunningIsWatched
<1>2. IInv /\ RunningIsWatched /\ [Next]_vars => IInv' /\ RunningIsWatched'
  BY NextKeeps, WatchKeeps DEF IInv
<1>3. QED
  BY <1>1, <1>2, PTL DEF Spec
=============================================================================
