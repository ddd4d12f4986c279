----------------------------- MODULE LogBuffer ------------------------------
(***************************************************************************)
(* pkg/logbuffer: the write-behind buffer of job_log rows.  Each caller of *)
(* Create sends its record to a bounded channel and waits until the flush  *)
(* goroutine has inserted a batch and signalled it; the goroutine drains   *)
(* the channel when Stop closes stopCh.  A select with several ready cases *)
(* takes any of them.                                                      *)
(*                                                                         *)
(* A record stands for its Create call too.  Its ID (JobLog.ID) is 0 when  *)
(* unset, Tmp when it is the temporary ID Create gave it, and otherwise    *)
(* the ID of a row; row i of the table is rows[i].                         *)
(***************************************************************************)
EXTENDS Integers, Sequences, SequencesExt

CONSTANTS
    Recs,       \* the records that are created
    BatchSize,
    RingCap

ASSUME BufferAssumption == BatchSize \in Nat \ {0} /\ RingCap \in Nat

Tmp == -1

VARIABLES
    batcher,  \* the inner DAO implements BatchCreator
    pc,       \* pc[r]: where the Create call of r is
    answer,   \* answer[r]: what it returned
    id,       \* id[r]: JobLog.ID
    ring,     \* Buffer.ring
    batch,    \* the entries received and not yet signalled
    inserted, \* the number of entries of the batch that are inserted
    back,     \* where the flush goroutine goes after writeBatch
    failed,   \* insertErr # nil
    fpc,      \* the flush goroutine
    signal,   \* signal[r]: what r's done channel holds
    idMap,    \* Buffer.idMap: the row of r's temporary ID, 0 if there is none
    rows,     \* the job_log table
    result,   \* result[r]: the row that got r's result, 0 if none did
    stopCh,   \* stopCh is closed
    early     \* history: the entries in the channel and the batch at the close

callVars == <<pc, answer>>
flushVars == <<batch, inserted, back, failed, fpc>>
stopVars == <<stopCh, early>>
vars == <<batcher, callVars, id, ring, flushVars, signal, idMap, rows, result, stopVars>>

IDs == {Tmp} \cup Nat

TypeOK ==
    /\ batcher \in BOOLEAN
    /\ pc \in [Recs -> {"new", "enqueue", "direct", "wait", "done"}]
    /\ answer \in [Recs -> {"none", "nil", "error"}]
    /\ id \in [Recs -> IDs]
    /\ ring \in Seq(Recs) /\ Len(ring) <= RingCap
    /\ batch \in Seq(Recs) /\ Len(batch) <= BatchSize
    /\ inserted \in 0 .. Len(batch)
    /\ back \in {"loop", "drain", "exited"}
    /\ failed \in BOOLEAN
    /\ fpc \in {"off", "loop", "drain", "reset", "insert", "signal", "exited"}
    /\ signal \in [Recs -> {"none", "nil", "error"}]
    /\ idMap \in [Recs -> Nat]
    /\ rows \in Seq(Recs)
    /\ result \in [Recs -> Nat]
    /\ stopCh \in BOOLEAN
    /\ early \in SUBSET Recs

Init ==
    /\ batcher \in BOOLEAN
    /\ pc = [r \in Recs |-> "new"]
    /\ answer = [r \in Recs |-> "none"]
    /\ id = [r \in Recs |-> 0]
    /\ ring = <<>> /\ batch = <<>>
    /\ inserted = 0
    /\ back = "loop"
    /\ failed = FALSE
    /\ fpc = "off"
    /\ signal = [r \in Recs |-> "none"]
    /\ idMap = [r \in Recs |-> 0]
    /\ rows = <<>>
    /\ result = [r \in Recs |-> 0]
    /\ stopCh = FALSE
    /\ early = {}
-----------------------------------------------------------------------------
(* Create *)

Goto(r, label) == pc' = [pc EXCEPT ![r] = label]
SetID(r, value) == id' = [id EXCEPT ![r] = value]

Reply(r, value) ==
    /\ answer' = [answer EXCEPT ![r] = value]
    /\ Goto(r, "done")

\* The record gets its temporary ID.
Create(r) ==
    /\ fpc # "off"
    /\ pc[r] = "new"
    /\ SetID(r, Tmp)
    /\ Goto(r, "enqueue")
    /\ UNCHANGED <<batcher, answer, ring, flushVars, signal, idMap, rows, result, stopVars>>

\* The first select: the send, the context, which may be done at any time, or stopCh.
Enqueue(r) ==
    /\ pc[r] = "enqueue"
    /\ Len(ring) < RingCap
    /\ ring' = Append(ring, r)
    /\ Goto(r, "wait")
    /\ UNCHANGED <<batcher, answer, id, flushVars, signal, idMap, rows, result, stopVars>>

EnqueueExpired(r) ==
    /\ pc[r] = "enqueue"
    /\ SetID(r, 0)
    /\ Reply(r, "error")
    /\ UNCHANGED <<batcher, ring, flushVars, signal, idMap, rows, result, stopVars>>

\* Mutant of EnqueueStopped: the record is sent to the channel as well.
EnqueueStoppedToo(r) ==
    /\ pc[r] = "enqueue"
    /\ stopCh
    /\ Len(ring) < RingCap
    /\ ring' = Append(ring, r)
    /\ SetID(r, 0)
    /\ Goto(r, "direct")
    /\ UNCHANGED <<batcher, answer, flushVars, signal, idMap, rows, result, stopVars>>

EnqueueStopped(r) ==
    /\ pc[r] = "enqueue"
    /\ stopCh
    /\ SetID(r, 0)
    /\ Goto(r, "direct")
    /\ UNCHANGED <<batcher, answer, ring, flushVars, signal, idMap, rows, result, stopVars>>

\* The synchronous insert of the shutdown, with the caller's context.  A failed
\* insert may have written its row.
Direct(r) ==
    /\ pc[r] = "direct"
    /\ \/ /\ rows' = Append(rows, r)
          /\ SetID(r, Len(rows) + 1)
          /\ Reply(r, "nil")
       \/ /\ rows' \in {rows, Append(rows, r)}
          /\ Reply(r, "error")
          /\ UNCHANGED id
    /\ UNCHANGED <<batcher, ring, flushVars, signal, idMap, result, stopVars>>

\* The second select: the signal of the flush goroutine, or the context.
Signalled(r) ==
    /\ pc[r] = "wait"
    /\ signal[r] # "none"
    /\ Reply(r, signal[r])
    /\ id' = IF signal[r] = "error" THEN [id EXCEPT ![r] = 0] ELSE id
    /\ UNCHANGED <<batcher, ring, flushVars, signal, idMap, rows, result, stopVars>>

WaitExpired(r) ==
    /\ pc[r] = "wait"
    /\ Reply(r, "error")
    /\ UNCHANGED <<batcher, id, ring, flushVars, signal, idMap, rows, result, stopVars>>

\* UpdateResult with the ID that Create left in the record: a temporary one is
\* replaced by its row and leaves the map.
UpdateResult(r) ==
    /\ answer[r] = "nil"
    /\ result[r] = 0
    /\ LET resolved == IF id[r] = Tmp /\ idMap[r] # 0 THEN idMap[r] ELSE id[r]
       IN  /\ result' = [result EXCEPT ![r] = resolved]
           /\ idMap' = IF resolved # id[r] THEN [idMap EXCEPT ![r] = 0] ELSE idMap
    /\ UNCHANGED <<batcher, callVars, id, ring, flushVars, signal, rows, stopVars>>
-----------------------------------------------------------------------------
(* The flush goroutine *)

Start ==
    /\ fpc = "off"
    /\ fpc' = "loop"
    /\ UNCHANGED <<batcher, callVars, id, ring, batch, inserted, back, failed, signal, idMap,
                   rows, result, stopVars>>

\* writeBatch is entered, and returns to label; an empty batch is not written.
Flush(entries, label) ==
    /\ batch' = entries
    /\ back' = label
    /\ fpc' = IF entries = <<>> THEN label ELSE "reset"

\* An entry is received, by the loop or by the drain.
Receive ==
    /\ fpc \in {"loop", "drain"}
    /\ ring # <<>>
    /\ ring' = Tail(ring)
    /\ LET entries == Append(batch, Head(ring)) IN
         IF Len(entries) >= BatchSize
         THEN Flush(entries, fpc)
         ELSE batch' = entries /\ UNCHANGED <<back, fpc>>
    /\ UNCHANGED <<batcher, callVars, id, inserted, failed, signal, idMap, rows, result, stopVars>>

\* Mutant of Tick: only full batches are written.
TickIdle ==
    /\ fpc = "loop" /\ Len(batch) >= BatchSize
    /\ Flush(batch, "loop")
    /\ UNCHANGED <<batcher, callVars, id, ring, inserted, failed, signal, idMap, rows, result,
                   stopVars>>

\* The ticker's case.
Tick ==
    /\ fpc = "loop"
    /\ Flush(batch, "loop")
    /\ UNCHANGED <<batcher, callVars, id, ring, inserted, failed, signal, idMap, rows, result,
                   stopVars>>

\* The case of stopCh.
SeeStop ==
    /\ fpc = "loop"
    /\ stopCh
    /\ fpc' = "drain"
    /\ UNCHANGED <<batcher, callVars, id, ring, batch, inserted, back, failed, signal, idMap,
                   rows, result, stopVars>>

\* Mutant of DrainEnd: the last, partial batch is not written.
DrainEndAtOnce ==
    /\ fpc = "drain"
    /\ ring = <<>>
    /\ fpc' = "exited"
    /\ UNCHANGED <<batcher, callVars, id, ring, batch, inserted, back, failed, signal, idMap,
                   rows, result, stopVars>>

\* The drain finds the channel empty: what it has is written, and the goroutine ends.
DrainEnd ==
    /\ fpc = "drain"
    /\ ring = <<>>
    /\ Flush(batch, "exited")
    /\ UNCHANGED <<batcher, callVars, id, ring, inserted, failed, signal, idMap, rows, result,
                   stopVars>>

Batched == ToSet(batch)

\* writeBatch: the temporary IDs are noted and reset.
Reset ==
    /\ fpc = "reset"
    /\ id' = [r \in Recs |-> IF r \in Batched THEN 0 ELSE id[r]]
    /\ failed' = FALSE
    /\ fpc' = "insert"
    /\ UNCHANGED <<batcher, callVars, ring, batch, inserted, back, signal, idMap, rows, result,
                   stopVars>>

\* CreateBatch: one statement, which gives each record the ID of its row.
InsertBatch ==
    /\ fpc = "insert"
    /\ batcher
    /\ rows' = rows \o batch
    /\ id' = [r \in Recs |-> IF \E k \in DOMAIN batch : batch[k] = r
                             THEN Len(rows) + CHOOSE k \in DOMAIN batch : batch[k] = r
                             ELSE id[r]]
    /\ inserted' = Len(batch)
    /\ fpc' = "signal"
    /\ UNCHANGED <<batcher, callVars, ring, batch, back, failed, signal, idMap, result, stopVars>>

\* Without CreateBatch the records are inserted one by one.
InsertNext ==
    /\ fpc = "insert"
    /\ ~batcher
    /\ LET r == batch[inserted + 1] IN
         /\ rows' = Append(rows, r)
         /\ SetID(r, Len(rows) + 1)
    /\ inserted' = inserted + 1
    /\ fpc' = IF inserted + 1 = Len(batch) THEN "signal" ELSE "insert"
    /\ UNCHANGED <<batcher, callVars, ring, batch, back, failed, signal, idMap, result, stopVars>>

\* An insert fails: the whole batch counts as failed, whatever has been written.
InsertFail ==
    /\ fpc = "insert"
    /\ \/ rows' = rows
       \/ batcher /\ rows' = rows \o batch
       \/ ~batcher /\ rows' = Append(rows, batch[inserted + 1])
    /\ failed' = TRUE
    /\ fpc' = "signal"
    /\ UNCHANGED <<batcher, callVars, id, ring, batch, inserted, back, signal, idMap, result,
                   stopVars>>

\* The map is filled and every caller is signalled, under idMapMu.
SignalAll ==
    /\ fpc = "signal"
    /\ signal' = [r \in Recs |-> IF r \notin Batched THEN signal[r]
                                 ELSE IF failed THEN "error" ELSE "nil"]
    /\ idMap' = [r \in Recs |-> IF r \in Batched /\ ~failed THEN id[r] ELSE idMap[r]]
    /\ batch' = <<>>
    /\ inserted' = 0
    /\ fpc' = back
    /\ UNCHANGED <<batcher, callVars, id, ring, back, failed, rows, result, stopVars>>

\* Stop closes stopCh; it returns when the goroutine has exited.
Stop ==
    /\ fpc # "off"
    /\ ~stopCh
    /\ stopCh' = TRUE
    /\ early' = ToSet(ring) \cup Batched
    /\ UNCHANGED <<batcher, callVars, id, ring, flushVars, signal, idMap, rows, result>>
-----------------------------------------------------------------------------
Caller(r) ==
    \/ Create(r) \/ Enqueue(r) \/ EnqueueExpired(r) \/ EnqueueStopped(r) \/ Direct(r)
    \/ Signalled(r) \/ WaitExpired(r) \/ UpdateResult(r)

FlushLoop ==
    \/ Receive \/ Tick \/ SeeStop \/ DrainEnd \/ Reset
    \/ InsertBatch \/ InsertNext \/ InsertFail \/ SignalAll

Next == (\E r \in Recs : Caller(r)) \/ Start \/ FlushLoop \/ Stop

Spec == Init /\ [][Next]_vars

\* The flush goroutine runs, and its select serves each case that stays ready.
FairSpec ==
    /\ Spec
    /\ WF_vars(Reset) /\ WF_vars(InsertBatch \/ InsertNext \/ InsertFail) /\ WF_vars(SignalAll)
    /\ WF_vars(DrainEnd)
    /\ SF_vars(Receive) /\ SF_vars(Tick) /\ SF_vars(SeeStop)
-----------------------------------------------------------------------------
(* Properties *)

\* logbuffer.go:28: Create behaves as a direct INSERT.  When it returns nil, the ID it
\* leaves is that of the record's own row, also for a record that had to fall back
\* while Stop drains; no record has two rows; and its result goes to its row.
CreatedIsStored ==
    /\ \A r \in Recs : answer[r] = "nil" => id[r] \in DOMAIN rows /\ rows[id[r]] = r
    /\ \A i, k \in DOMAIN rows : rows[i] = rows[k] => i = k
    /\ \A r \in Recs : result[r] # 0 => rows[result[r]] = r

\* logbuffer.go:148: every record that is in the buffer when Stop is called has been
\* written or refused, and its caller told, when Stop returns.
StopFlushes == fpc = "exited" => \A r \in early : signal[r] # "none"

\* A record the buffer accepts while it runs is written or refused after a time,
\* whether or not its batch fills up and whether or not Stop comes between.
AcceptedIsSettled ==
    \A r \in Recs : r \in ToSet(ring) \cup Batched /\ ~stopCh ~> signal[r] # "none"
=============================================================================
