---------------------------- MODULE RunnerProofs ----------------------------
(***************************************************************************)
(* Theorems about Runner, for any requests, log IDs, kills and stops: the  *)
(* inductive invariant IInv and what follows from it, the two properties   *)
(* that also need the TTL to outlive a goroutine, and the refinement of    *)
(* ExecutionLedger.                                                        *)
(***************************************************************************)
EXTENDS Runner, FiniteSetTheorems, TLAPS

\* A duplicate that is about to read a record has its pointer.
DupIsKnown == \A r \in Reqs : pc[r] = "inspect" => dup[r] \in Reqs

\* A request that has not acquired its log ID has created no record.
FreshRecords ==
    \A r \in Reqs : pc[r] \in {"new", "acquire", "inspect"} =>
        /\ record[r].state = "running"
        /\ \A l \in Logs : records[l] # r

\* From TryAcquire to Complete the table has r's own record, and it is running.
OwnersRecord ==
    \A r \in Reqs : pc[r] \in {"add", "rollback", "exec", "complete"} =>
        /\ records[LogOf[r]] = r
        /\ record[r].state = "running"

\* Between the two writes of a failing Complete the request holds Table.mu.
MuHeld ==
    \A r \in Reqs : pc[r] \in {"rollbackErr", "completeErr"} =>
        /\ mu = r
        /\ records[LogOf[r]] = r

Flying == {r \in Reqs : pc[r] \in InFlight}

\* The WaitGroup counts the goroutines of the jobs.
WgCounts == wg = Cardinality(Flying)

\* A Stop that waits has closed the set; a clean one has seen it empty; a request that
\* rolls back was refused by a closed set.
Barrier ==
    /\ \A s \in Stoppers : spc[s] \in {"wait", "killAll", "forceWait"} => drained
    /\ clean => drained /\ Flying = {}
    /\ \A r \in Reqs : pc[r] = "rollback" => drained

Ownership == DupIsKnown /\ FreshRecords /\ OwnersRecord /\ MuHeld

IInv == TypeOK /\ Ownership /\ WgCounts /\ Barrier

-----------------------------------------------------------------------------
\* The type of the state, but for the counter.
Shape ==
    /\ pc \in [Reqs -> ReqPC]
    /\ answer \in [Reqs -> Answers]
    /\ dup \in [Reqs -> Reqs \cup {None}]
    /\ outcome \in [Reqs -> Errs]
    /\ record \in [Reqs -> Record]
    /\ records \in [Logs -> Reqs \cup {None}]
    /\ mu \in Reqs \cup {None}
    /\ jobs \in [Logs -> Reqs \cup {None}]
    /\ drained \in BOOLEAN
    /\ cancelled \in SUBSET Reqs
    /\ stopped \in BOOLEAN
    /\ spc \in [Stoppers -> StopPC]
    /\ clean \in BOOLEAN
    /\ gcRunning \in BOOLEAN
    /\ target \in [Killers -> Reqs \cup {None}]

\* Every step keeps the shape of the state.
LEMMA ShapeStep ==
    ASSUME Shape, DupIsKnown, [Next]_vars
    PROVE  Shape'
<1> USE DEF Shape
<1>1. CASE UNCHANGED vars
  BY <1>1 DEF vars, reqVars, tableVars, jobVars, stopVars
<1>2. ASSUME NEW r \in Reqs, ReqStep(r)
      PROVE  Shape'
  <2> USE DEF tableVars, jobVars, stopVars, reqVars, Goto, Reply
  <2>0. LogOf[r] \in Logs
    BY ReqsAssumption
  <2>1. CASE CheckStopped(r)
    BY <2>1 DEF CheckStopped, ReqPC, Answers
  <2>2. CASE TryAcquire(r)
    BY <2>0, <2>2 DEF TryAcquire, ReqPC
  <2>3. CASE Inspect(r)
    <3>1. record[dup[r]] \in Record
      BY <2>3 DEF Inspect, DupIsKnown
    <3>2. PICK a \in Answers : Reply(r, a)
      BY <2>3, <3>1 DEF Inspect, Record, Errs, Answers
    <3>3. QED
      BY <2>3, <3>2 DEF Inspect, ReqPC
  <2>4. CASE Add(r)
    BY <2>0, <2>4 DEF Add, ReqPC, Answers
  <2>5. ASSUME NEW err \in Errs, NEW label \in ReqPC, NEW other \in ReqPC,
               Complete(r, err, label, other)
        PROVE  record' \in [Reqs -> Record] /\ records' = records /\ mu' \in Reqs \cup {None}
               /\ pc' \in [Reqs -> ReqPC]
    <3>1. records[LogOf[r]] \in Reqs \cup {None}
      BY <2>0
    <3>2. ASSUME NEW rec \in Reqs
          PROVE  /\ [record EXCEPT ![rec].state = "success"] \in [Reqs -> Record]
                 /\ [record EXCEPT ![rec].state = "failed"] \in [Reqs -> Record]
      BY DEF Record
    <3>3. QED
      BY <2>5, <3>1, <3>2 DEF Complete
  <2>6. ASSUME NEW err \in Errs, CompleteErr(r, err)
        PROVE  record' \in [Reqs -> Record] /\ records' = records /\ mu' = None
    <3>1. records[LogOf[r]] \in Reqs \cup {None}
      BY <2>0
    <3>2. QED
      BY <2>6, <3>1 DEF CompleteErr, Record
  <2>7. CASE Rollback(r)
    <3>1. Complete(r, "stopped", "rollbackErr", "rollbackErr")
      BY <2>7 DEF Rollback
    <3>2. QED
      BY <2>7, <2>5, <3>1 DEF Rollback, ReqPC, Errs
  <2>8. CASE RollbackErr(r)
    BY <2>8, <2>6 DEF RollbackErr, ReqPC, Answers, Errs
  <2>9. CASE HandlerReturn(r)
    BY <2>9 DEF HandlerReturn, ReqPC, Errs
  <2>10. CASE CompleteRun(r)
    <3>1. Complete(r, outcome[r], "completeErr", "remove")
      BY <2>10 DEF CompleteRun
    <3>2. QED
      BY <2>10, <2>5, <3>1 DEF CompleteRun, ReqPC
  <2>11. CASE CompleteRunErr(r)
    BY <2>11, <2>6 DEF CompleteRunErr, ReqPC
  <2>12. CASE Remove(r)
    BY <2>0, <2>12 DEF Remove, ReqPC
  <2>13. CASE WgDone(r)
    BY <2>13 DEF WgDone, ReqPC
  <2>14. CASE Deadline(r)
    BY <2>14 DEF Deadline
  <2>15. QED
    BY <1>2, <2>1, <2>2, <2>3, <2>4, <2>7, <2>8, <2>9, <2>10, <2>11, <2>12, <2>13, <2>14
    DEF ReqStep
<1>3. ASSUME NEW k \in Killers, KillCancel(k) \/ \E l \in Logs : KillLookup(k, l)
      PROVE  Shape'
  BY <1>3 DEF KillCancel, KillLookup, tableVars, jobVars, stopVars, reqVars
<1>4. ASSUME NEW l \in Logs, Expire(l)
      PROVE  Shape'
  BY <1>4 DEF Expire, jobVars, stopVars, reqVars
<1>5. ASSUME NEW s \in Stoppers, StopStep(s)
      PROVE  Shape'
  BY <1>5 DEF StopStep, StopCAS, StopClose, WaitDone, WaitTimeout, KillAll, StopReturn, StopGoto,
              StopPC, tableVars, jobVars, reqVars
<1>6. QED
  BY <1>1, <1>2, <1>3, <1>4, <1>5 DEF Next

\* Complete, called by the owner of a running record, settles that record alone.
LEMMA OwnerCompletes ==
    ASSUME Shape, NEW r \in Reqs, NEW err, NEW label, NEW other,
           records[LogOf[r]] = r, record[r].state = "running",
           Complete(r, err, label, other)
    PROVE  /\ records' = records
           /\ record' \in [Reqs -> Record]
           /\ \A q \in Reqs \ {r} : record'[q] = record[q]
           /\ \/ err = "nil" /\ mu' = mu /\ pc' = [pc EXCEPT ![r] = other]
              \/ err # "nil" /\ mu' = r /\ pc' = [pc EXCEPT ![r] = label]
           /\ mu = None
<1>1. r # None
  BY ReqsAssumption
<1>2. QED
  BY <1>1 DEF Shape, Complete, Goto, Record

LEMMA OwnershipStep ==
    ASSUME Shape, Ownership, [Next]_vars
    PROVE  Ownership'
<1>0. Shape'
  BY ShapeStep DEF Ownership
<1>1. CASE UNCHANGED vars
  BY <1>1 DEF vars, reqVars, tableVars, Ownership, DupIsKnown, FreshRecords, OwnersRecord, MuHeld
<1>2. ASSUME NEW r \in Reqs, ReqStep(r)
      PROVE  Ownership'
  <2>0. r # None /\ LogOf[r] \in Logs /\ \A q \in Reqs : LogOf[q] \in Logs
    BY ReqsAssumption
  <2> USE DEF Shape, Ownership
  <2>1. CASE CheckStopped(r)
    BY <2>0, <2>1
    DEF CheckStopped, Reply, Goto, tableVars, DupIsKnown, FreshRecords, OwnersRecord, MuHeld
  <2>2. CASE TryAcquire(r)
    <3>1. CASE records[LogOf[r]] = None
      <4>1. /\ records' = [records EXCEPT ![LogOf[r]] = r] /\ pc' = [pc EXCEPT ![r] = "add"]
            /\ record' = record /\ mu = None /\ mu' = None /\ dup' = dup
        BY <2>0, <2>2, <3>1 DEF TryAcquire, Goto
      <4>2. record[r].state = "running" /\ \A l \in Logs : records[l] # r
        BY <2>2 DEF TryAcquire, FreshRecords
      <4>3. DupIsKnown' /\ FreshRecords'
        BY <2>0, <4>1 DEF DupIsKnown, FreshRecords
      <4>4. OwnersRecord'
        <5>1. ASSUME NEW q \in Reqs \ {r},
                     pc[q] \in {"add", "rollback", "exec", "complete"}
              PROVE  LogOf[q] # LogOf[r] /\ records'[LogOf[q]] = q /\ record[q].state = "running"
          BY <2>0, <3>1, <4>1, <5>1, ReqsAssumption DEF OwnersRecord
        <5>2. QED
          BY <2>0, <4>1, <4>2, <5>1 DEF OwnersRecord
      <4>5. MuHeld'
        BY <2>0, <4>1, ReqsAssumption DEF MuHeld
      <4>6. QED
        BY <4>3, <4>4, <4>5
    <3>2. CASE records[LogOf[r]] # None
      BY <2>0, <2>2, <3>2
      DEF TryAcquire, Goto, DupIsKnown, FreshRecords, OwnersRecord, MuHeld
    <3>3. QED
      BY <3>1, <3>2
  <2>3. CASE Inspect(r)
    <3>1. pc' = [pc EXCEPT ![r] = "done"] /\ dup' = dup /\ UNCHANGED <<record, records, mu>>
      BY <2>3 DEF Inspect, Reply, Goto, tableVars
    <3>2. QED
      BY <2>0, <3>1 DEF DupIsKnown, FreshRecords, OwnersRecord, MuHeld
  <2>4. CASE Add(r)
    <3>1. /\ pc[r] = "add" /\ dup' = dup /\ UNCHANGED <<record, records, mu>>
          /\ pc' = [pc EXCEPT ![r] = "rollback"] \/ pc' = [pc EXCEPT ![r] = "exec"]
      BY <2>4 DEF Add, Goto, tableVars
    <3>2. QED
      BY <2>0, <3>1 DEF DupIsKnown, FreshRecords, OwnersRecord, MuHeld
  <2>5. ASSUME NEW err, NEW label \in {"rollbackErr", "completeErr"},
               NEW other \in {"rollbackErr", "remove"}, err = "nil" => other = "remove",
               pc[r] \in {"rollback", "complete"}, Complete(r, err, label, other), dup' = dup
        PROVE  Ownership'
    <3>1. records[LogOf[r]] = r /\ record[r].state = "running"
      BY <2>5 DEF OwnersRecord
    <3>2. /\ records' = records
          /\ \A q \in Reqs \ {r} : record'[q] = record[q]
          /\ \/ err = "nil" /\ mu' = mu /\ pc' = [pc EXCEPT ![r] = other]
             \/ err # "nil" /\ mu' = r /\ pc' = [pc EXCEPT ![r] = label]
          /\ mu = None
      BY <2>5, <3>1, OwnerCompletes
    <3>3. DupIsKnown'
      BY <2>5, <3>2 DEF DupIsKnown
    <3>4. FreshRecords'
      BY <2>5, <3>2 DEF FreshRecords
    <3>5. OwnersRecord'
      BY <2>5, <3>2 DEF OwnersRecord
    <3>6. MuHeld'
      BY <2>0, <2>5, <3>1, <3>2, ReqsAssumption DEF MuHeld
    <3>7. QED
      BY <3>3, <3>4, <3>5, <3>6
  <2>6. ASSUME NEW err, pc[r] \in {"rollbackErr", "completeErr"}, CompleteErr(r, err),
               pc' = [pc EXCEPT ![r] = "remove"] \/ pc' = [pc EXCEPT ![r] = "done"], dup' = dup
        PROVE  Ownership'
    <3>1. records[LogOf[r]] = r /\ mu = r
      BY <2>6 DEF MuHeld
    <3>2. /\ records' = records
          /\ \A q \in Reqs \ {r} : record'[q] = record[q]
      BY <2>6, <3>1 DEF CompleteErr
    <3>3. DupIsKnown' /\ FreshRecords' /\ OwnersRecord'
      BY <2>6, <3>2 DEF DupIsKnown, FreshRecords, OwnersRecord
    <3>4. MuHeld'
      BY <2>6, <3>1, <3>2 DEF MuHeld
    <3>5. QED
      BY <3>3, <3>4
  <2>7. CASE Rollback(r)
    <3>1. pc[r] = "rollback" /\ Complete(r, "stopped", "rollbackErr", "rollbackErr") /\ dup' = dup
      BY <2>7 DEF Rollback
    <3>2. QED
      BY <3>1, <2>5
  <2>8. CASE RollbackErr(r)
    <3>1. pc[r] = "rollbackErr" /\ mu = r
      BY <2>8 DEF RollbackErr, MuHeld
    <3>2. CompleteErr(r, "stopped") /\ pc' = [pc EXCEPT ![r] = "done"] /\ dup' = dup
      BY <2>8, <3>1 DEF RollbackErr, Reply, Goto
    <3>3. QED
      BY <3>1, <3>2, <2>6
  <2>9. CASE HandlerReturn(r)
    <3>1. /\ pc[r] = "exec" /\ pc' = [pc EXCEPT ![r] = "complete"]
          /\ dup' = dup /\ UNCHANGED <<record, records, mu>>
      BY <2>9 DEF HandlerReturn, Goto, tableVars
    <3>2. QED
      BY <3>1 DEF DupIsKnown, FreshRecords, OwnersRecord, MuHeld
  <2>10. CASE CompleteRun(r)
    <3>1. pc[r] = "complete" /\ Complete(r, outcome[r], "completeErr", "remove") /\ dup' = dup
      BY <2>10 DEF CompleteRun
    <3>2. QED
      BY <3>1, <2>5
  <2>11. CASE CompleteRunErr(r)
    <3>1. /\ pc[r] = "completeErr" /\ CompleteErr(r, outcome[r])
          /\ pc' = [pc EXCEPT ![r] = "remove"] /\ dup' = dup
      BY <2>11 DEF CompleteRunErr, Goto
    <3>2. QED
      BY <3>1, <2>6
  <2>12. CASE Remove(r) \/ WgDone(r)
    <3>1. /\ pc' = [pc EXCEPT ![r] = "wgDone"] \/ pc' = [pc EXCEPT ![r] = "done"]
          /\ dup' = dup /\ UNCHANGED <<record, records, mu>>
      BY <2>12 DEF Remove, WgDone, Goto, tableVars
    <3>2. QED
      BY <3>1 DEF DupIsKnown, FreshRecords, OwnersRecord, MuHeld
  <2>13. CASE Deadline(r)
    BY <2>13 DEF Deadline, reqVars, tableVars, DupIsKnown, FreshRecords, OwnersRecord, MuHeld
  <2>14. QED
    BY <1>2, <2>1, <2>2, <2>3, <2>4, <2>7, <2>8, <2>9, <2>10, <2>11, <2>12, <2>13 DEF ReqStep
<1>3. ASSUME NEW l \in Logs, Expire(l)
      PROVE  Ownership'
  \* Only a settled record expires, and only while no Complete is half done.
  <2>1. /\ mu = None /\ records[l] # None /\ record[records[l]].state # "running"
        /\ records' = [records EXCEPT ![l] = None] /\ UNCHANGED <<pc, dup, record, mu>>
    BY <1>3 DEF Expire, reqVars
  <2>2. DupIsKnown' /\ FreshRecords'
    BY <2>1, ReqsAssumption DEF Shape, Ownership, DupIsKnown, FreshRecords
  <2>3. OwnersRecord'
    BY <2>1, ReqsAssumption DEF Shape, Ownership, OwnersRecord
  <2>4. MuHeld'
    BY <2>1, ReqsAssumption DEF Ownership, MuHeld
  <2>5. QED
    BY <2>2, <2>3, <2>4 DEF Ownership
<1>4. CASE UNCHANGED <<pc, dup, record, records, mu>>
  BY <1>4 DEF Ownership, DupIsKnown, FreshRecords, OwnersRecord, MuHeld
<1>5. ASSUME NEW k \in Killers, KillCancel(k) \/ \E l \in Logs : KillLookup(k, l)
      PROVE  UNCHANGED <<pc, dup, record, records, mu>>
  BY <1>5 DEF KillCancel, KillLookup, reqVars, tableVars
<1>6. ASSUME NEW s \in Stoppers, StopStep(s)
      PROVE  UNCHANGED <<pc, dup, record, records, mu>>
  BY <1>6 DEF StopStep, StopCAS, StopClose, WaitDone, WaitTimeout, KillAll, StopReturn, reqVars,
              tableVars
<1>7. QED
  BY <1>1, <1>2, <1>3, <1>4, <1>5, <1>6 DEF Next

-----------------------------------------------------------------------------
LEMMA FlyingIsFinite ==
    IsFiniteSet(Flying) /\ IsFiniteSet(Flying') /\ Cardinality(Flying) \in Nat
<1>1. IsFiniteSet(Flying) /\ IsFiniteSet(Flying')
  BY ReqsAssumption, FS_Subset DEF Flying
<1>2. QED
  BY <1>1, FS_CardinalityType

\* The counter follows the jobs in flight: one more with Add, one less with WgDone.
LEMMA CountStep ==
    ASSUME Shape, WgCounts, Barrier, [Next]_vars
    PROVE  WgCounts' /\ Barrier'
<1> USE DEF Shape
<1>1. ASSUME NEW r \in Reqs, Add(r)
      PROVE  WgCounts' /\ Barrier'
  <2>1. CASE drained
    <3>1. Flying' = Flying
      BY <1>1, <2>1 DEF Add, Goto, Flying, InFlight
    <3>2. UNCHANGED <<wg, drained, spc, clean>>
      BY <1>1, <2>1 DEF Add, stopVars
    <3>3. QED
      BY <2>1, <3>1, <3>2 DEF WgCounts, Barrier
  <2>2. CASE ~drained
    <3>1. r \notin Flying /\ Flying' = Flying \cup {r}
      BY <1>1, <2>2 DEF Add, Goto, Flying, InFlight
    <3>2. wg' = wg + 1 /\ UNCHANGED <<drained, spc, clean>>
      BY <1>1, <2>2 DEF Add, stopVars
    <3>3. Cardinality(Flying') = Cardinality(Flying) + 1
      BY <3>1, FlyingIsFinite, FS_AddElement
    <3>4. \A q \in Reqs : pc'[q] = "rollback" => pc[q] = "rollback"
      BY <1>1, <2>2 DEF Add, Goto
    <3>5. QED
      BY <2>2, <3>2, <3>3, <3>4 DEF WgCounts, Barrier
  <2>3. QED
    BY <2>1, <2>2
<1>2. ASSUME NEW r \in Reqs, WgDone(r)
      PROVE  WgCounts' /\ Barrier'
  <2>1. r \in Flying /\ Flying' = Flying \ {r}
    BY <1>2 DEF WgDone, Goto, Flying, InFlight
  <2>2. wg' = wg - 1 /\ UNCHANGED <<drained, spc, clean>>
    BY <1>2 DEF WgDone, stopVars
  <2>3. Cardinality(Flying') = Cardinality(Flying) - 1
    BY <2>1, FlyingIsFinite, FS_RemoveElement
  <2>4. \A q \in Reqs : pc'[q] = "rollback" => pc[q] = "rollback"
    BY <1>2 DEF WgDone, Goto
  <2>5. QED
    BY <2>1, <2>2, <2>3, <2>4, FlyingIsFinite DEF WgCounts, Barrier
\* Every other step of a request moves it within the set or outside of it.
<1>3. ASSUME NEW r \in Reqs, ReqStep(r), ~Add(r), ~WgDone(r)
      PROVE  WgCounts' /\ Barrier'
  <2>1. UNCHANGED <<wg, drained, spc, clean>>
    BY <1>3 DEF ReqStep, CheckStopped, TryAcquire, Inspect, Rollback, RollbackErr, HandlerReturn,
                CompleteRun, CompleteRunErr, Remove, Deadline, jobVars, stopVars
  <2>2. PICK label \in ReqPC : /\ pc' = [pc EXCEPT ![r] = label]
                               /\ label \in InFlight <=> pc[r] \in InFlight
                               /\ label = "rollback" => pc[r] = "rollback"
    <3> USE DEF Goto, Reply, ReqPC, InFlight
    <3>1. CASE CheckStopped(r) \/ TryAcquire(r) \/ Inspect(r)
      BY <3>1 DEF CheckStopped, TryAcquire, Inspect
    <3>2. CASE Rollback(r) \/ CompleteRun(r)
      BY <3>2 DEF Rollback, CompleteRun, Complete
    <3>3. CASE RollbackErr(r) \/ HandlerReturn(r) \/ CompleteRunErr(r) \/ Remove(r)
      BY <3>3 DEF RollbackErr, HandlerReturn, CompleteRunErr, Remove
    <3>4. CASE Deadline(r)
      BY <3>4 DEF Deadline, reqVars
    <3>5. QED
      BY <1>3, <3>1, <3>2, <3>3, <3>4 DEF ReqStep
  <2>3. Flying' = Flying
    BY <2>2 DEF Flying
  <2>4. QED
    BY <2>1, <2>2, <2>3 DEF WgCounts, Barrier
<1>4. CASE UNCHANGED <<pc, wg, drained, spc, clean>>
  BY <1>4 DEF WgCounts, Barrier, Flying
<1>5. ASSUME NEW s \in Stoppers, StopStep(s)
      PROVE  WgCounts' /\ Barrier'
  <2>1. UNCHANGED <<pc, wg>>
    BY <1>5 DEF StopStep, StopCAS, StopClose, WaitDone, WaitTimeout, KillAll, StopReturn, reqVars,
                jobVars
  <2>2. WgCounts' /\ Flying' = Flying
    BY <2>1 DEF WgCounts, Flying
  <2>3. CASE WaitDone(s)
    <3>1. Cardinality(Flying) = 0
      BY <2>3 DEF WaitDone, WgCounts
    <3>2. Flying = {}
      BY <3>1, FlyingIsFinite, FS_EmptySet
    <3>3. drained' = drained /\ spc' = [spc EXCEPT ![s] = "idempotency"] /\ drained
      BY <2>3 DEF WaitDone, StopGoto, jobVars, Barrier
    <3>4. QED
      BY <2>1, <2>2, <3>2, <3>3 DEF Barrier
  <2>4. CASE StopCAS(s) \/ StopClose(s) \/ WaitTimeout(s) \/ KillAll(s) \/ StopReturn(s)
    BY <2>1, <2>2, <2>4
    DEF Barrier, StopCAS, StopClose, WaitTimeout, KillAll, StopReturn, StopGoto, StopPC, jobVars
  <2>5. QED
    BY <1>5, <2>3, <2>4 DEF StopStep
<1>6. ASSUME NEW k \in Killers, KillCancel(k) \/ \E l \in Logs : KillLookup(k, l)
      PROVE  UNCHANGED <<pc, wg, drained, spc, clean>>
  BY <1>6 DEF KillCancel, KillLookup, reqVars, jobVars, stopVars
<1>7. ASSUME NEW l \in Logs, Expire(l)
      PROVE  UNCHANGED <<pc, wg, drained, spc, clean>>
  BY <1>7 DEF Expire, reqVars, jobVars, stopVars
<1>8. CASE UNCHANGED vars
  BY <1>4, <1>8 DEF vars, reqVars, jobVars, stopVars
<1>9. QED
  BY <1>1, <1>2, <1>3, <1>4, <1>5, <1>6, <1>7, <1>8 DEF Next

LEMMA Initially == Init => IInv
<1> SUFFICES ASSUME Init PROVE IInv
  OBVIOUS
<1>1. TypeOK
  BY DEF Init, TypeOK, ReqPC, Answers, Errs, Record, StopPC
<1>2. Ownership
  BY ReqsAssumption DEF Init, Ownership, DupIsKnown, FreshRecords, OwnersRecord, MuHeld
<1>3. Flying = {}
  BY DEF Init, Flying, InFlight
<1>4. WgCounts /\ Barrier
  BY <1>3, FS_EmptySet DEF Init, WgCounts, Barrier
<1>5. QED
  BY <1>1, <1>2, <1>4 DEF IInv

LEMMA InductiveStep == IInv /\ [Next]_vars => IInv'
<1> SUFFICES ASSUME IInv, [Next]_vars PROVE IInv'
  OBVIOUS
<1>1. Shape
  BY DEF IInv, TypeOK, Shape
<1>2. Shape'
  BY <1>1, ShapeStep DEF IInv, Ownership
<1>3. Ownership'
  BY <1>1, OwnershipStep DEF IInv
<1>4. WgCounts' /\ Barrier'
  BY <1>1, CountStep DEF IInv
<1>5. wg' \in Nat
  BY <1>4, FlyingIsFinite, FS_CardinalityType DEF WgCounts
<1>6. QED
  BY <1>2, <1>3, <1>4, <1>5 DEF IInv, TypeOK, Shape

LEMMA Inductive == Spec => []IInv
  BY Initially, InductiveStep, PTL DEF Spec

\* The state of the executor keeps its type; in particular the WaitGroup's counter
\* never goes below zero, which would panic (RunningJobSet.add and remove).
THEOREM TypeCorrect == Spec => []TypeOK
<1>1. IInv => TypeOK
  BY DEF IInv
<1>2. QED
  BY <1>1, Inductive, PTL

\* For any requests and log IDs, one log ID is never executed by two goroutines, and
\* the one that executes owns the running record (TryAcquire, Complete, gc).
THEOREM ExecutionIsExclusive == Spec => []ExecutorOwnsRecord
<1>1. IInv => ExecutorOwnsRecord
  BY ReqsAssumption DEF IInv, TypeOK, Ownership, OwnersRecord, MuHeld, ExecutorOwnsRecord, Owning
<1>2. QED
  BY <1>1, Inductive, PTL

\* A Stop that has seen the WaitGroup at zero leaves no goroutine of a job behind, and
\* none starts later.
THEOREM CleanStop == Spec => []CleanStopIsFinal
<1>1. IInv => CleanStopIsFinal
  BY DEF IInv, Barrier, CleanStopIsFinal, Flying
<1>2. QED
  BY <1>1, Inductive, PTL

-----------------------------------------------------------------------------
(* What duplicates are told *)

\* An error is only in the record of a request that met it: handlerErr once its handler has
\* failed, ErrRunnerStopped together with its own answer.  A request that has found another's
\* record executes nothing.
ErrsAreMet ==
    /\ \A r \in Reqs : outcome[r] # "stopped"
    /\ \A r \in Reqs : outcome[r] # "nil" =>
          pc[r] \in {"complete", "completeErr", "remove", "wgDone", "done"}
    /\ \A r \in Reqs : answer[r] \in {"handlerErr", "stopped"} => pc[r] = "done"
    /\ \A r \in Reqs : dup[r] # None => pc[r] \in {"inspect", "done"}
    /\ \A r \in Reqs : record[r].err = "handlerErr" => outcome[r] = "handlerErr"
    /\ \A r \in Reqs : record[r].err = "stopped" => answer[r] = "stopped"

Told == ErrsAreMet /\ DuplicateErrorIsRecorded

\* Complete settles a record and leaves its error.
LEMMA CompleteKeepsErr ==
    ASSUME Shape, NEW r \in Reqs, NEW err, NEW label, NEW other, Complete(r, err, label, other)
    PROVE  \A q \in Reqs : record'[q].err = record[q].err
<1>1. \/ record' = record
      \/ \E rec : record' = [record EXCEPT ![rec].state = "success"]
      \/ \E rec : record' = [record EXCEPT ![rec].state = "failed"]
  BY DEF Complete
<1>2. ASSUME NEW rec, NEW st, record' = [record EXCEPT ![rec].state = st], NEW q \in Reqs
      PROVE  record'[q].err = record[q].err
  BY <1>2 DEF Shape, Record
<1>3. QED
  BY <1>1, <1>2

LEMMA ToldStep == ASSUME IInv, Told, [Next]_vars PROVE Told'
<1>1. Shape /\ DupIsKnown /\ OwnersRecord /\ MuHeld /\ (\A r \in Reqs : dup[r] \in Reqs \cup {None})
  BY DEF IInv, TypeOK, Shape, Ownership
<1>2. CASE UNCHANGED <<pc, answer, dup, outcome, record>>
  BY <1>2 DEF Told, ErrsAreMet, DuplicateErrorIsRecorded
\* The request moves on, and what there is to tell stays.
<1>3. ASSUME NEW r \in Reqs, NEW label, pc' = [pc EXCEPT ![r] = label],
             UNCHANGED <<answer, dup, outcome>>,
             \A q \in Reqs : record'[q].err = record[q].err,
             pc[r] \in {"new", "add", "rollback", "complete", "remove", "wgDone"},
             pc[r] \in {"complete", "remove", "wgDone"} =>
                 label \in {"completeErr", "remove", "wgDone", "done"}
      PROVE  Told'
  BY <1>1, <1>3 DEF Told, ErrsAreMet, DuplicateErrorIsRecorded, Shape
<1>4. ASSUME NEW r \in Reqs, ReqStep(r) PROVE Told'
  <2> USE DEF Goto, Reply
  <2>1. CASE CheckStopped(r)
    <3>1. CASE stopped
      BY <1>1, <2>1, <3>1
         DEF CheckStopped, Told, ErrsAreMet, DuplicateErrorIsRecorded, Shape, tableVars
    <3>2. CASE ~stopped
      BY <1>3, <2>1, <3>2 DEF CheckStopped, tableVars
    <3>3. QED
      BY <3>1, <3>2
  <2>2. CASE TryAcquire(r)
    <3>1. /\ pc[r] = "acquire" /\ UNCHANGED <<answer, outcome, record>>
          /\ \/ pc' = [pc EXCEPT ![r] = "add"] /\ dup' = dup
             \/ /\ pc' = [pc EXCEPT ![r] = "inspect"]
                /\ \E q : dup' = [dup EXCEPT ![r] = q]
      BY <2>2 DEF TryAcquire
    <3>2. answer[r] # "stopped"
      BY <3>1 DEF Told, ErrsAreMet
    <3>3. answer[r] # "handlerErr"
      BY <3>1 DEF Told, ErrsAreMet
    <3>4. QED
      BY <1>1, <3>1, <3>2, <3>3 DEF Told, ErrsAreMet, DuplicateErrorIsRecorded, Shape
  <2>3. CASE Inspect(r)
    <3> DEFINE q == dup[r]
    <3>1. q \in Reqs /\ record[q] \in Record /\ pc[r] = "inspect"
      BY <1>1, <2>3 DEF Inspect, DupIsKnown, Shape
    <3>2. PICK a : /\ answer' = [answer EXCEPT ![r] = a] /\ pc' = [pc EXCEPT ![r] = "done"]
                   /\ UNCHANGED <<dup, outcome, record>>
                   /\ a = "handlerErr" => record[q].err = "handlerErr"
                   /\ a = "stopped" => record[q].err = "stopped"
      <4> DEFINE a == CASE record[q].state = "running" -> "alreadyRunning"
                        [] record[q].state = "success" -> "nil"
                        [] record[q].state = "failed"  -> record[q].err
      <4>1. /\ answer' = [answer EXCEPT ![r] = a] /\ pc' = [pc EXCEPT ![r] = "done"]
            /\ UNCHANGED <<dup, outcome, record>>
        BY <2>3 DEF Inspect, tableVars
      <4>2. a \in {"alreadyRunning", "nil", record[q].err}
        BY <3>1 DEF Record
      <4> HIDE DEF a
      <4>3. QED
        BY <4>1, <4>2
    <3>3. /\ a = "handlerErr" => outcome[q] = "handlerErr"
          /\ a = "stopped" => answer[q] = "stopped" /\ q # r
      BY <3>1, <3>2 DEF Told, ErrsAreMet
    <3>4. answer[r] # "stopped"
      BY <3>1 DEF Told, ErrsAreMet
    <3>5. QED
      BY <1>1, <3>1, <3>2, <3>3, <3>4 DEF Told, ErrsAreMet, DuplicateErrorIsRecorded, Shape
  <2>4. CASE Add(r)
    <3>1. CASE drained
      BY <1>3, <2>4, <3>1 DEF Add, tableVars
    <3>2. CASE ~drained
      <4>1. /\ pc[r] = "add" /\ pc' = [pc EXCEPT ![r] = "exec"]
            /\ answer' = [answer EXCEPT ![r] = "nil"] /\ UNCHANGED <<dup, outcome, record>>
        BY <2>4, <3>2 DEF Add, tableVars
      <4>2. answer[r] # "stopped" /\ outcome[r] = "nil"
        BY <4>1 DEF Told, ErrsAreMet
      <4>3. QED
        BY <1>1, <4>1, <4>2 DEF Told, ErrsAreMet, DuplicateErrorIsRecorded, Shape
    <3>3. QED
      BY <3>1, <3>2
  <2>5. CASE Rollback(r)
    <3>1. \A q \in Reqs : record'[q].err = record[q].err
      BY <1>1, <2>5, CompleteKeepsErr DEF Rollback
    <3>2. pc' = [pc EXCEPT ![r] = "rollbackErr"]
      BY <2>5 DEF Rollback, Complete
    <3>3. QED
      BY <1>3, <2>5, <3>1, <3>2 DEF Rollback
  <2>6. CASE RollbackErr(r)
    <3>1. /\ pc[r] = "rollbackErr" /\ mu = r /\ records[LogOf[r]] = r
          /\ answer' = [answer EXCEPT ![r] = "stopped"] /\ pc' = [pc EXCEPT ![r] = "done"]
          /\ UNCHANGED <<dup, outcome>>
      BY <1>1, <2>6 DEF RollbackErr, MuHeld
    <3>2. record' = [record EXCEPT ![r].err = "stopped"]
      BY <2>6, <3>1 DEF RollbackErr, CompleteErr
    <3>3. outcome[r] = "nil" /\ dup[r] = None
      BY <3>1 DEF Told, ErrsAreMet
    <3>4. /\ record'[r].err = "stopped" /\ \A q \in Reqs \ {r} : record'[q] = record[q]
          /\ answer'[r] = "stopped" /\ \A q \in Reqs \ {r} : answer'[q] = answer[q]
          /\ pc'[r] = "done" /\ \A q \in Reqs \ {r} : pc'[q] = pc[q]
      BY <1>1, <3>1, <3>2 DEF Shape, Record
    <3>5. QED
      BY <1>1, <3>1, <3>3, <3>4 DEF Told, ErrsAreMet, DuplicateErrorIsRecorded
  <2>7. CASE HandlerReturn(r)
    <3>1. PICK err \in {"nil", "handlerErr"} : outcome' = [outcome EXCEPT ![r] = err]
      BY <2>7 DEF HandlerReturn
    <3>2. /\ pc[r] = "exec" /\ pc' = [pc EXCEPT ![r] = "complete"]
          /\ UNCHANGED <<answer, dup, record>>
      BY <2>7 DEF HandlerReturn, tableVars
    <3>3. outcome[r] = "nil"
      BY <3>2 DEF Told, ErrsAreMet
    <3>4. QED
      BY <1>1, <3>1, <3>2, <3>3 DEF Told, ErrsAreMet, DuplicateErrorIsRecorded, Shape
  <2>8. CASE CompleteRun(r)
    <3>1. \A q \in Reqs : record'[q].err = record[q].err
      BY <1>1, <2>8, CompleteKeepsErr DEF CompleteRun
    <3>2. PICK label \in {"completeErr", "remove"} : pc' = [pc EXCEPT ![r] = label]
      BY <2>8 DEF CompleteRun, Complete
    <3>3. QED
      BY <1>3, <2>8, <3>1, <3>2 DEF CompleteRun
  <2>9. CASE CompleteRunErr(r)
    <3>1. /\ pc[r] = "completeErr" /\ records[LogOf[r]] = r
          /\ pc' = [pc EXCEPT ![r] = "remove"] /\ UNCHANGED <<answer, dup, outcome>>
      BY <1>1, <2>9 DEF CompleteRunErr, MuHeld
    <3>2. record' = [record EXCEPT ![r].err = outcome[r]]
      BY <2>9, <3>1 DEF CompleteRunErr, CompleteErr
    <3>3. outcome[r] # "stopped"
      BY DEF Told, ErrsAreMet
    <3>4. /\ record'[r].err = outcome[r] /\ \A q \in Reqs \ {r} : record'[q] = record[q]
          /\ pc'[r] = "remove" /\ \A q \in Reqs \ {r} : pc'[q] = pc[q]
      BY <1>1, <3>1, <3>2 DEF Shape, Record
    <3>5. QED
      BY <1>1, <3>1, <3>3, <3>4 DEF Told, ErrsAreMet, DuplicateErrorIsRecorded
  <2>10. CASE Remove(r) \/ WgDone(r)
    <3>1. /\ UNCHANGED <<answer, dup, outcome, record>> /\ pc[r] \in {"remove", "wgDone"}
          /\ \E label \in {"wgDone", "done"} : pc' = [pc EXCEPT ![r] = label]
      BY <2>10 DEF Remove, WgDone, tableVars
    <3>2. QED
      BY <1>3, <3>1
  <2>11. CASE Deadline(r)
    BY <1>2, <2>11 DEF Deadline, reqVars, tableVars
  <2>12. QED
    BY <1>4, <2>1, <2>2, <2>3, <2>4, <2>5, <2>6, <2>7, <2>8, <2>9, <2>10, <2>11 DEF ReqStep
<1>5. ASSUME NEW k \in Killers, KillCancel(k) \/ \E l \in Logs : KillLookup(k, l) PROVE Told'
  BY <1>2, <1>5 DEF KillCancel, KillLookup, reqVars, tableVars
<1>6. ASSUME NEW l \in Logs, Expire(l) PROVE Told'
  BY <1>2, <1>6 DEF Expire, reqVars
<1>7. ASSUME NEW s \in Stoppers, StopStep(s) PROVE Told'
  BY <1>2, <1>7 DEF StopStep, StopCAS, StopClose, WaitDone, WaitTimeout, KillAll, StopReturn,
                    reqVars, tableVars
<1>8. CASE UNCHANGED vars
  BY <1>2, <1>8 DEF vars, reqVars, tableVars
<1>9. QED
  BY <1>4, <1>5, <1>6, <1>7, <1>8 DEF Next

\* For any requests, stops and expiries, the error a duplicate is answered with is its
\* record's: ErrRunnerStopped, after which the scheduler may try another executor, only if the
\* execution it asks about was refused (Run, Complete).
THEOREM DuplicatesAreToldTheTruth == Spec => []DuplicateErrorIsRecorded
<1>1. Init => Told
  BY DEF Init, Told, ErrsAreMet, DuplicateErrorIsRecorded
<1>2. IInv /\ Told /\ [Next]_vars => Told'
  BY ToldStep
<1>3. Told => DuplicateErrorIsRecorded
  BY DEF Told
<1>4. QED
  BY <1>1, <1>2, <1>3, Inductive, PTL DEF Spec

-----------------------------------------------------------------------------
(* With a TTL that outlives the end of a goroutine, the set of running jobs is exact. *)

\* A request that is about to leave the set still owns its (settled) record.
LeaversRecord == \A r \in Reqs : pc[r] = "remove" => records[LogOf[r]] = r

Tracked == LeaversRecord /\ RunningIsTracked

LEMMA TrackedStep ==
    ASSUME TTLOutlives, IInv, Tracked, [Next]_vars
    PROVE  Tracked'
<1>0. Shape /\ LogOf \in [Reqs -> Logs] /\ None \notin Reqs
  BY ReqsAssumption DEF IInv, TypeOK, Shape
<1> DEFINE OnSet == {"exec", "complete", "completeErr", "remove"}
\* The jobs in the set and the requests that wait for it own their records, so that no
\* two of them have the same log ID.
<1>1. \A q \in Reqs : pc[q] \in OnSet \cup {"add"} => records[LogOf[q]] = q
  BY DEF IInv, Ownership, OwnersRecord, MuHeld, Tracked, LeaversRecord
<1>2. ASSUME NEW r \in Reqs, ReqStep(r)
      PROVE  Tracked'
  <2>1. CASE TryAcquire(r)
    <3>1. /\ UNCHANGED jobs /\ \A q \in Reqs : pc'[q] \in OnSet => pc[q] \in OnSet
          /\ \A l \in Logs : records[l] # None => records'[l] = records[l]
          /\ \A q \in Reqs : pc'[q] = "remove" => pc[q] = "remove"
          /\ \A q \in Reqs : pc'[q] \in OnSet => pc'[q] = pc[q]
      BY <1>0, <2>1 DEF TryAcquire, Goto, jobVars, Shape
    <3>2. QED
      BY <1>0, <1>1, <3>1 DEF Tracked, LeaversRecord, RunningIsTracked, InFlight
  <2>2. CASE Add(r)
    <3>1. /\ records' = records /\ pc[r] = "add"
          /\ \/ UNCHANGED jobs /\ pc' = [pc EXCEPT ![r] = "rollback"]
             \/ jobs' = [jobs EXCEPT ![LogOf[r]] = r] /\ pc' = [pc EXCEPT ![r] = "exec"]
      BY <2>2 DEF Add, Goto, tableVars
    <3>2. \A q \in Reqs \ {r} : pc[q] \in OnSet => LogOf[q] # LogOf[r]
      BY <1>1, <3>1
    <3>3. QED
      BY <1>0, <3>1, <3>2 DEF Shape, Tracked, LeaversRecord, RunningIsTracked, InFlight
  <2>3. CASE Remove(r)
    <3>1. /\ records' = records /\ pc[r] = "remove"
          /\ jobs' = [jobs EXCEPT ![LogOf[r]] = None] /\ pc' = [pc EXCEPT ![r] = "wgDone"]
      BY <2>3 DEF Remove, Goto, tableVars
    <3>2. \A q \in Reqs \ {r} : pc[q] \in OnSet => LogOf[q] # LogOf[r]
      BY <1>1, <3>1
    <3>3. QED
      BY <1>0, <3>1, <3>2 DEF Shape, Tracked, LeaversRecord, RunningIsTracked, InFlight
  <2>4. CASE CompleteRun(r) \/ CompleteRunErr(r) \/ HandlerReturn(r)
    <3>1. /\ records' = records /\ UNCHANGED jobs
          /\ pc[r] \in OnSet /\ \E label \in OnSet : pc' = [pc EXCEPT ![r] = label]
      BY <2>4 DEF CompleteRun, CompleteRunErr, HandlerReturn, Complete, CompleteErr, Goto,
                  tableVars, jobVars
    <3>2. QED
      BY <1>0, <1>1, <3>1 DEF Shape, Tracked, LeaversRecord, RunningIsTracked, InFlight
  <2>5. CASE CheckStopped(r) \/ Inspect(r) \/ Rollback(r) \/ RollbackErr(r) \/ WgDone(r)
             \/ Deadline(r)
    <3>1. /\ records' = records /\ UNCHANGED jobs
          /\ \/ UNCHANGED pc
             \/ \E label \in ReqPC \ OnSet : pc' = [pc EXCEPT ![r] = label]
      BY <2>5 DEF CheckStopped, Inspect, Rollback, RollbackErr, WgDone, Deadline, Complete,
                  CompleteErr, Goto, Reply, ReqPC, reqVars, tableVars, jobVars
    <3>2. QED
      BY <1>0, <3>1 DEF Shape, Tracked, LeaversRecord, RunningIsTracked, InFlight
  <2>6. QED
    BY <1>2, <2>1, <2>2, <2>3, <2>4, <2>5 DEF ReqStep
<1>3. ASSUME NEW l \in Logs, Expire(l)
      PROVE  Tracked'
  <2>1. /\ pc' = pc /\ UNCHANGED jobs /\ records' = [records EXCEPT ![l] = None]
        /\ pc[records[l]] # "remove"
    BY <1>3, TTLOutlives DEF Expire, reqVars, jobVars
  <2>2. QED
    BY <1>0, <2>1 DEF Shape, Tracked, LeaversRecord, RunningIsTracked
<1>4. CASE UNCHANGED <<pc, records, jobs>>
  BY <1>4 DEF Tracked, LeaversRecord, RunningIsTracked
<1>5. ASSUME NEW k \in Killers, KillCancel(k) \/ \E l \in Logs : KillLookup(k, l)
      PROVE  UNCHANGED <<pc, records, jobs>>
  BY <1>5 DEF KillCancel, KillLookup, reqVars, tableVars, jobVars
<1>6. ASSUME NEW s \in Stoppers, StopStep(s)
      PROVE  UNCHANGED <<pc, records, jobs>>
  BY <1>6 DEF StopStep, StopCAS, StopClose, WaitDone, WaitTimeout, KillAll, StopReturn, reqVars,
              tableVars, jobVars
<1>7. CASE UNCHANGED vars
  BY <1>4, <1>7 DEF vars, reqVars, tableVars, jobVars
<1>8. QED
  BY <1>2, <1>3, <1>4, <1>5, <1>6, <1>7 DEF Next

\* Kill, IsIdle and Stop see every job that runs, under its own entry, as long as a
\* record lives longer than a goroutine takes from Complete to remove.
THEOREM SetIsExact == TTLOutlives => (Spec => []RunningIsTracked)
<1> SUFFICES ASSUME TTLOutlives PROVE Spec => []RunningIsTracked
  OBVIOUS
<1>1. Init => Tracked
  BY DEF Init, Tracked, LeaversRecord, RunningIsTracked, InFlight
<1>2. IInv /\ Tracked /\ [Next]_vars => Tracked'
  BY TrackedStep
<1>3. Tracked => RunningIsTracked
  BY DEF Tracked
<1>4. QED
  BY <1>1, <1>2, <1>3, Inductive, PTL DEF Spec

LEMMA KillStep ==
    ASSUME IInv, Tracked, KillAllReachesAll, [Next]_vars
    PROVE  KillAllReachesAll'
<1>0. Shape /\ Barrier /\ RunningIsTracked /\ LogOf \in [Reqs -> Logs]
  BY ReqsAssumption DEF IInv, TypeOK, Shape, Tracked
<1>1. ASSUME NEW r \in Reqs, ReqStep(r)
      PROVE  KillAllReachesAll'
  <2>1. spc' = spc /\ cancelled \subseteq cancelled'
    BY <1>1 DEF ReqStep, CheckStopped, TryAcquire, Inspect, Add, Rollback, RollbackErr,
                HandlerReturn, CompleteRun, CompleteRunErr, Remove, WgDone, Deadline, stopVars
  <2>2. drained => \A q \in Reqs : pc'[q] = "exec" => pc[q] = "exec"
    <3> USE <1>0 DEF Goto, Reply, Shape
    <3>1. CASE CheckStopped(r) \/ TryAcquire(r) \/ Inspect(r) \/ Add(r)
      BY <3>1 DEF CheckStopped, TryAcquire, Inspect, Add
    <3>2. CASE Rollback(r) \/ CompleteRun(r)
      BY <3>2 DEF Rollback, CompleteRun, Complete
    <3>3. CASE RollbackErr(r) \/ HandlerReturn(r) \/ CompleteRunErr(r) \/ Remove(r) \/ WgDone(r)
      BY <3>3 DEF RollbackErr, HandlerReturn, CompleteRunErr, Remove, WgDone
    <3>4. CASE Deadline(r)
      BY <3>4 DEF Deadline, reqVars
    <3>5. QED
      BY <1>1, <3>1, <3>2, <3>3, <3>4 DEF ReqStep
  <2>3. QED
    BY <1>0, <2>1, <2>2 DEF KillAllReachesAll, Barrier
<1>2. ASSUME NEW s \in Stoppers, StopStep(s)
      PROVE  KillAllReachesAll'
  <2>1. CASE KillAll(s)
    \* Every handler that runs is in the set, hence killed.
    BY <1>0, <2>1 DEF KillAll, reqVars, KillAllReachesAll, RunningIsTracked, InFlight
  <2>2. CASE ~KillAll(s)
    <3>1. /\ UNCHANGED <<pc, cancelled>>
          /\ \A t \in Stoppers : spc'[t] = "forceWait" => spc[t] = "forceWait"
      BY <1>0, <1>2, <2>2 DEF Shape, StopStep, StopCAS, StopClose, WaitDone, WaitTimeout,
                              StopReturn, StopGoto, reqVars
    <3>2. QED
      BY <3>1 DEF KillAllReachesAll
  <2>3. QED
    BY <2>1, <2>2
<1>3. CASE pc' = pc /\ spc' = spc /\ cancelled \subseteq cancelled'
  BY <1>3 DEF KillAllReachesAll
<1>4. ASSUME NEW k \in Killers, KillCancel(k) \/ \E l \in Logs : KillLookup(k, l)
      PROVE  pc' = pc /\ spc' = spc /\ cancelled \subseteq cancelled'
  BY <1>4 DEF KillCancel, KillLookup, reqVars, stopVars
<1>5. ASSUME NEW l \in Logs, Expire(l)
      PROVE  pc' = pc /\ spc' = spc /\ cancelled \subseteq cancelled'
  BY <1>5 DEF Expire, reqVars, stopVars
<1>6. CASE UNCHANGED vars
  BY <1>3, <1>6 DEF vars, reqVars, stopVars
<1>7. QED
  BY <1>1, <1>2, <1>3, <1>4, <1>5, <1>6 DEF Next

\* The forced phase of Stop kills every job: killAll misses none, and none starts later.
THEOREM KillAllIsComplete == TTLOutlives => (Spec => []KillAllReachesAll)
<1> SUFFICES ASSUME TTLOutlives PROVE Spec => []KillAllReachesAll
  OBVIOUS
<1>1. Init => Tracked /\ KillAllReachesAll
  BY DEF Init, Tracked, LeaversRecord, RunningIsTracked, InFlight, KillAllReachesAll
<1>2. IInv /\ Tracked /\ KillAllReachesAll /\ [Next]_vars => Tracked' /\ KillAllReachesAll'
  BY TrackedStep, KillStep
<1>3. QED
  BY <1>1, <1>2, Inductive, PTL DEF Spec

-----------------------------------------------------------------------------
(* The runner, its set and its table implement ExecutionLedger.            *)

\* A record is in the table under the log ID of the request that created it.
Keyed == \A l \in Logs : records[l] # None => LogOf[records[l]] = l

LEMMA KeyedStep ==
    ASSUME Shape, Keyed, [Next]_vars
    PROVE  Keyed'
<1>0. LogOf \in [Reqs -> Logs] /\ None \notin Reqs
  BY ReqsAssumption
<1>1. ASSUME NEW r \in Reqs, TryAcquire(r)
      PROVE  Keyed'
  BY <1>0, <1>1 DEF TryAcquire, Shape, Keyed
<1>2. ASSUME NEW l \in Logs, Expire(l)
      PROVE  Keyed'
  BY <1>0, <1>2 DEF Expire, Shape, Keyed
<1>3. CASE records' = records
  BY <1>3 DEF Keyed
<1>4. ASSUME NEW r \in Reqs, ReqStep(r), ~TryAcquire(r)
      PROVE  records' = records
  BY <1>4 DEF ReqStep, CheckStopped, Inspect, Add, Rollback, RollbackErr, HandlerReturn,
              CompleteRun, CompleteRunErr, Remove, WgDone, Deadline, Complete, CompleteErr,
              tableVars
<1>5. ASSUME NEW k \in Killers, KillCancel(k) \/ \E l \in Logs : KillLookup(k, l)
      PROVE  records' = records
  BY <1>5 DEF KillCancel, KillLookup, tableVars
<1>6. ASSUME NEW s \in Stoppers, StopStep(s)
      PROVE  records' = records
  BY <1>6 DEF StopStep, StopCAS, StopClose, WaitDone, WaitTimeout, KillAll, StopReturn, tableVars
<1>7. CASE UNCHANGED vars
  BY <1>3, <1>7 DEF vars, tableVars
<1>8. QED
  BY <1>1, <1>2, <1>3, <1>4, <1>5, <1>6, <1>7 DEF Next

\* A request that owns a running record, and settles it, settles its log ID alone.
LEMMA LedgerSettles ==
    ASSUME Shape, Keyed, NEW r \in Reqs, NEW err, NEW label, NEW other,
           records[LogOf[r]] = r, record[r].state = "running",
           Complete(r, err, label, other)
    PROVE  \E settled \in {"success", "failed"} :
               LedgerOf' = [LedgerOf EXCEPT ![LogOf[r]] = settled]
<1>0. LogOf[r] \in Logs /\ r # None /\ record[r] \in Record
  BY ReqsAssumption DEF Shape
<1>1. PICK settled \in {"success", "failed"} : record' = [record EXCEPT ![r].state = settled]
  BY <1>0 DEF Complete
<1>2. record'[r].state = settled /\ \A q \in Reqs \ {r} : record'[q] = record[q]
  BY <1>0, <1>1 DEF Shape, Record
<1>3. records' = records /\ \A l \in Logs : records[l] = r => l = LogOf[r]
  BY <1>0 DEF Complete, Keyed
<1>4. \A l \in Logs : LedgerOf'[l] = IF l = LogOf[r] THEN settled ELSE LedgerOf[l]
  BY <1>0, <1>2, <1>3 DEF LedgerOf, Shape
<1>5. QED
  BY <1>0, <1>4 DEF LedgerOf

LEMMA LedgerStep ==
    ASSUME IInv, Keyed, [Next]_vars
    PROVE  [Ledger!Next]_(Ledger!ledgerVars)
<1> USE DEF Shape
<1>0. /\ Shape /\ LogOf \in [Reqs -> Logs] /\ None \notin Reqs
      /\ OwnersRecord /\ MuHeld /\ FreshRecords /\ Barrier
  BY ReqsAssumption DEF IInv, TypeOK, Ownership
\* The steps the ledger does not see.
<1>1. CASE UNCHANGED <<LedgerOf, Executing, drained>>
  BY <1>1 DEF Ledger!ledgerVars
<1>2. CASE UNCHANGED <<record, records, pc, drained>>
  BY <1>1, <1>2 DEF LedgerOf, Executing
<1>3. ASSUME NEW r \in Reqs, NEW label \in ReqPC \ {"exec", "complete"},
             pc' = [pc EXCEPT ![r] = label], pc[r] \notin {"exec", "complete"}
      PROVE  Executing' = Executing
  BY <1>0, <1>3 DEF Executing
<1>4. ASSUME NEW r \in Reqs, ReqStep(r)
      PROVE  [Ledger!Next]_(Ledger!ledgerVars)
  <2>0. LogOf[r] \in Logs
    BY <1>0
  <2>1. CASE CheckStopped(r) \/ Inspect(r) \/ Remove(r) \/ WgDone(r) \/ Deadline(r)
    <3>1. UNCHANGED <<record, records, drained>>
      BY <2>1 DEF CheckStopped, Inspect, Remove, WgDone, Deadline, tableVars, jobVars
    <3>2. CASE Deadline(r)
      BY <1>2, <3>1, <3>2 DEF Deadline, reqVars
    <3>3. CASE ~Deadline(r)
      <4>1. /\ pc[r] \notin {"exec", "complete"}
            /\ \E label \in ReqPC \ {"exec", "complete"} : pc' = [pc EXCEPT ![r] = label]
        BY <2>1, <3>3 DEF CheckStopped, Inspect, Remove, WgDone, Goto, Reply, ReqPC
      <4>2. QED
        BY <1>1, <1>3, <3>1, <4>1 DEF LedgerOf
    <3>4. QED
      BY <3>2, <3>3
  <2>2. CASE TryAcquire(r)
    <3>1. CASE records[LogOf[r]] = None
      <4>1. /\ records' = [records EXCEPT ![LogOf[r]] = r] /\ pc' = [pc EXCEPT ![r] = "add"]
            /\ record' = record /\ drained' = drained /\ pc[r] = "acquire"
        BY <2>2, <3>1 DEF TryAcquire, Goto, jobVars
      <4>2. LedgerOf' = [LedgerOf EXCEPT ![LogOf[r]] = "running"]
        BY <1>0, <2>0, <4>1 DEF LedgerOf, FreshRecords
      <4>3. Executing' = Executing
        BY <1>3, <4>1 DEF ReqPC
      <4>4. LedgerOf[LogOf[r]] = "absent"
        BY <2>0, <3>1 DEF LedgerOf
      <4>5. Ledger!Admit(LogOf[r])
        BY <4>1, <4>2, <4>3, <4>4 DEF Ledger!Admit
      <4>6. QED
        BY <2>0, <4>5 DEF Ledger!Next
    <3>2. CASE records[LogOf[r]] # None
      <4>1. /\ UNCHANGED <<record, records, drained>>
            /\ pc' = [pc EXCEPT ![r] = "inspect"] /\ pc[r] = "acquire"
        BY <2>2, <3>2 DEF TryAcquire, Goto, jobVars
      <4>2. QED
        BY <1>1, <1>3, <4>1 DEF LedgerOf, ReqPC
    <3>3. QED
      BY <3>1, <3>2
  <2>3. CASE Add(r)
    <3>1. pc[r] = "add" /\ UNCHANGED <<record, records, drained>> /\ LedgerOf' = LedgerOf
      BY <2>3 DEF Add, tableVars, LedgerOf
    <3>2. CASE drained
      <4>1. pc' = [pc EXCEPT ![r] = "rollback"]
        BY <2>3, <3>2 DEF Add, Goto
      <4>2. QED
        BY <1>1, <1>3, <3>1, <4>1 DEF ReqPC
    <3>3. CASE ~drained
      <4>1. pc' = [pc EXCEPT ![r] = "exec"]
        BY <2>3, <3>3 DEF Add, Goto
      <4>2. Executing' = Executing \cup {LogOf[r]}
        BY <1>0, <2>0, <3>1, <4>1 DEF Executing
      <4>3. LedgerOf[LogOf[r]] = "running" /\ LogOf[r] \notin Executing
        BY <1>0, <2>0, <3>1 DEF LedgerOf, Executing, OwnersRecord
      <4>4. Ledger!Start(LogOf[r])
        BY <3>1, <3>3, <4>2, <4>3 DEF Ledger!Start
      <4>5. QED
        BY <2>0, <4>4 DEF Ledger!Next
    <3>4. QED
      BY <3>2, <3>3
  <2>4. CASE Rollback(r)
    <3>1. pc[r] = "rollback" /\ Complete(r, "stopped", "rollbackErr", "rollbackErr")
      BY <2>4 DEF Rollback
    <3>2. records[LogOf[r]] = r /\ record[r].state = "running" /\ drained
      BY <1>0, <3>1 DEF OwnersRecord, Barrier
    <3>3. PICK settled \in {"success", "failed"} :
              LedgerOf' = [LedgerOf EXCEPT ![LogOf[r]] = settled]
      BY <1>0, <3>1, <3>2, LedgerSettles
    <3>4. /\ pc' = [pc EXCEPT ![r] = "rollbackErr"] /\ drained' = drained
          /\ record'[r].state = "failed" /\ records' = records
      BY <1>0, <2>4, <3>1, <3>2 DEF Rollback, Complete, Goto, jobVars, Record
    <3>5. LedgerOf'[LogOf[r]] = "failed" /\ LedgerOf[LogOf[r]] = "running"
      BY <1>0, <2>0, <3>2, <3>4 DEF LedgerOf
    <3>6. LedgerOf' = [LedgerOf EXCEPT ![LogOf[r]] = "failed"]
      BY <2>0, <3>3, <3>5 DEF LedgerOf
    <3>7. LogOf[r] \notin Executing /\ Executing' = Executing
      BY <1>0, <1>3, <3>1, <3>2, <3>4 DEF Executing, OwnersRecord, ReqPC
    <3>8. Ledger!Refuse(LogOf[r])
      BY <3>2, <3>4, <3>5, <3>6, <3>7 DEF Ledger!Refuse
    <3>9. QED
      BY <2>0, <3>8 DEF Ledger!Next
  \* The second write of a failing Complete changes the error alone.
  <2>5. CASE RollbackErr(r) \/ CompleteRunErr(r)
    <3>1. /\ pc[r] \in {"rollbackErr", "completeErr"}
          /\ \E err : CompleteErr(r, err)
          /\ \E label \in ReqPC \ {"exec", "complete"} : pc' = [pc EXCEPT ![r] = label]
          /\ drained' = drained
      BY <1>0, <2>5 DEF RollbackErr, CompleteRunErr, Goto, Reply, ReqPC, MuHeld, jobVars
    <3>2. records' = records /\ \A q \in Reqs : record'[q].state = record[q].state
      BY <1>0, <3>1 DEF CompleteErr, Record, MuHeld
    <3>3. LedgerOf' = LedgerOf
      BY <1>0, <3>2 DEF LedgerOf
    <3>4. QED
      BY <1>1, <1>3, <3>1, <3>3
  <2>6. CASE HandlerReturn(r)
    <3>1. /\ UNCHANGED <<record, records, drained>>
          /\ pc[r] = "exec" /\ pc' = [pc EXCEPT ![r] = "complete"]
      BY <2>6 DEF HandlerReturn, Goto, tableVars, jobVars
    <3>2. Executing' = Executing
      BY <1>0, <3>1 DEF Executing
    <3>3. QED
      BY <1>1, <3>1, <3>2 DEF LedgerOf
  <2>7. CASE CompleteRun(r)
    <3>1. pc[r] = "complete" /\ Complete(r, outcome[r], "completeErr", "remove")
      BY <2>7 DEF CompleteRun
    <3>2. records[LogOf[r]] = r /\ record[r].state = "running"
      BY <1>0, <3>1 DEF OwnersRecord
    <3>3. \E settled \in {"success", "failed"} :
              LedgerOf' = [LedgerOf EXCEPT ![LogOf[r]] = settled]
      BY <1>0, <3>1, <3>2, LedgerSettles
    <3>4. /\ drained' = drained
          /\ pc' = [pc EXCEPT ![r] = "completeErr"] \/ pc' = [pc EXCEPT ![r] = "remove"]
      BY <2>7, <3>1 DEF CompleteRun, Complete, Goto, jobVars
    \* No other request executes this log ID: it would own the same record.
    <3>5. \A q \in Reqs \ {r} : pc[q] \in {"exec", "complete"} => LogOf[q] # LogOf[r]
      BY <1>0, <3>2 DEF OwnersRecord
    <3>6. Executing' = Executing \ {LogOf[r]}
      BY <1>0, <2>0, <3>1, <3>4, <3>5 DEF Executing
    <3>7. LogOf[r] \in Executing /\ LedgerOf[LogOf[r]] = "running"
      BY <1>0, <2>0, <3>1, <3>2 DEF Executing, LedgerOf
    <3>8. Ledger!Settle(LogOf[r])
      BY <3>3, <3>4, <3>6, <3>7 DEF Ledger!Settle, Ledger!Settled
    <3>9. QED
      BY <2>0, <3>8 DEF Ledger!Next
  <2>8. QED
    BY <1>4, <2>1, <2>2, <2>3, <2>4, <2>5, <2>6, <2>7 DEF ReqStep
<1>5. ASSUME NEW k \in Killers, KillCancel(k) \/ \E l \in Logs : KillLookup(k, l)
      PROVE  UNCHANGED <<record, records, pc, drained>>
  BY <1>5 DEF KillCancel, KillLookup, reqVars, tableVars, jobVars
<1>6. ASSUME NEW l \in Logs, Expire(l)
      PROVE  Ledger!Forget(l)
  <2>1. /\ records' = [records EXCEPT ![l] = None] /\ UNCHANGED <<record, pc, drained>>
        /\ records[l] \in Reqs /\ record[records[l]].state \in {"success", "failed"}
    BY <1>0, <1>6 DEF Expire, reqVars, jobVars, Record
  <2>2. LedgerOf' = [LedgerOf EXCEPT ![l] = "absent"] /\ Executing' = Executing
    BY <1>0, <2>1 DEF LedgerOf, Executing
  <2>3. LedgerOf[l] \in {"success", "failed"}
    BY <1>0, <2>1 DEF LedgerOf
  <2>4. QED
    BY <2>1, <2>2, <2>3 DEF Ledger!Forget, Ledger!Settled
<1>7. ASSUME NEW s \in Stoppers, StopStep(s)
      PROVE  Ledger!Close \/ UNCHANGED <<record, records, pc, drained>>
  <2>1. UNCHANGED <<record, records, pc>> /\ LedgerOf' = LedgerOf /\ Executing' = Executing
    BY <1>7 DEF StopStep, StopCAS, StopClose, WaitDone, WaitTimeout, KillAll, StopReturn, reqVars,
                tableVars, LedgerOf, Executing
  <2>2. CASE StopClose(s)
    BY <2>1, <2>2 DEF StopClose, Ledger!Close
  <2>3. CASE ~StopClose(s)
    BY <1>7, <2>1, <2>3 DEF StopStep, StopCAS, WaitDone, WaitTimeout, KillAll, StopReturn, jobVars
  <2>4. QED
    BY <2>2, <2>3
<1>8. CASE UNCHANGED vars
  BY <1>2, <1>8 DEF vars, reqVars, tableVars, jobVars
<1>9. QED
  BY <1>2, <1>4, <1>5, <1>6, <1>7, <1>8 DEF Next, Ledger!Next

\* For any requests and log IDs, what the runner and its table do per log ID is a
\* behaviour of the ledger: admitted once until it expires, started only while open,
\* settled in one step.
THEOREM LedgerIsImplemented == Spec => ImplementsLedger
<1>1. Init => Ledger!Init
  BY DEF Init, Ledger!Init, LedgerOf, Executing
<1>2. Init => Keyed
  BY DEF Init, Keyed
<1>3. IInv /\ Keyed /\ [Next]_vars => Keyed'
  BY KeyedStep DEF IInv, TypeOK, Shape
<1>4. IInv /\ Keyed /\ [Next]_vars => [Ledger!Next]_(Ledger!ledgerVars)
  BY LedgerStep
<1>5. QED
  BY <1>1, <1>2, <1>3, <1>4, Inductive, PTL DEF Spec, ImplementsLedger, Ledger!Spec
=============================================================================
