------------------------------ MODULE JobStore ------------------------------
(***************************************************************************)
(* pkg/jobstore: the in-memory registry of jobs (a sync.Map of entries and *)
(* a heap of the runnable ones under heapMu), its dirty flags, and the     *)
(* background flush of dirty entries to the job_info table.  The map, the  *)
(* heap and the flags are changed by separate steps of concurrent callers; *)
(* the flush goroutine reads entries without heapMu.                       *)
(*                                                                         *)
(* A job's content is its status and its next trigger time.  The heap is   *)
(* the set of entries with heapIdx >= 0; an entry is named by the order of *)
(* its creation.                                                           *)
(***************************************************************************)
EXTENDS Integers, FiniteSets

CONSTANTS
    Ids,         \* job IDs
    Times,       \* trigger times, numbers
    Callers,     \* goroutines that call the store
    MaxEntries,  \* bound: entries ever created
    MaxOps,      \* bound: UpdateNextTrigger and UpdateStatus calls
    NoTime,      \* a nil NextTriggerTime
    NoJob

ASSUME StoreAssumption ==
    /\ Ids # {}
    /\ Times \subseteq Nat /\ Times # {} /\ NoTime \notin Times
    /\ MaxEntries \in Nat /\ MaxOps \in Nat

Job == [status : {"run", "stop"}, next : Times \cup {NoTime}]
Entries == 1 .. MaxEntries
Ref == 0 .. MaxEntries          \* an *Entry; 0 is nil

ASSUME NoJob \notin Job

VARIABLES
    made,      \* the number of entries created
    entry,     \* entry[e]: its job ID, its job and its dirty flag
    jobByID,   \* Store.jobByID: ID -> Ref
    heap,      \* the entries in Store.heap
    count,     \* Store.count
    heapHeld,  \* a caller holds heapMu between two of its writes
    pc,        \* pc[c]: the step of caller c
    at, old,   \* the entry c works on, and the one its Add has replaced
    arg,       \* the job c was called with
    ops,       \* the number of update calls made
    overlap,   \* history: two callers' operations have overlapped
    db,        \* the job_info table: ID -> Job, or NoJob
    fpc,       \* the flush goroutine: off, idle, drain, copy, write or done
    cancelled, \* the flush loop's context is cancelled
    final,     \* the flush under way is the last one
    todo,      \* IDs that DrainDirty has still to visit
    cur,       \* the entry whose flag DrainDirty has cleared and not yet copied
    batch      \* the copies DrainDirty returned and flush has not yet written

mapVars == <<made, jobByID, heap, count, heapHeld>>
storeVars == <<mapVars, entry>>
callerVars == <<pc, at, old, arg, ops, overlap>>
flushVars == <<fpc, cancelled, final, todo, cur, batch>>
vars == <<storeVars, callerVars, db, flushVars>>

JobOf(e) == entry[e].job
Runnable(j) == j.status = "run" /\ j.next # NoTime

TypeOK ==
    /\ made \in Ref
    /\ entry \in [Entries -> [id : Ids, job : Job, dirty : BOOLEAN]]
    /\ jobByID \in [Ids -> Ref]
    /\ heap \in SUBSET Entries
    /\ count \in Int
    /\ heapHeld \in BOOLEAN
    /\ pc \in [Callers -> {"idle", "addUnheap", "addCount", "addHeap", "remove", "next",
                           "nextDirty", "status", "statusDirty"}]
    /\ at \in [Callers -> Ref] /\ old \in [Callers -> Ref]
    /\ arg \in [Callers -> Job]
    /\ ops \in 0 .. MaxOps
    /\ overlap \in BOOLEAN
    /\ db \in [Ids -> Job \cup {NoJob}]
    /\ fpc \in {"off", "idle", "drain", "copy", "write", "done"}
    /\ cancelled \in BOOLEAN /\ final \in BOOLEAN
    /\ todo \in SUBSET Ids
    /\ cur \in Ref /\ (cur # 0 <=> fpc = "copy")
    /\ batch \in SUBSET [id : Ids, job : Job]

AnyJob == [status |-> "stop", next |-> NoTime]

\* The table may hold any jobs when the process starts; the store is empty.
Init ==
    /\ made = 0
    /\ entry = [e \in Entries |-> [id |-> CHOOSE i \in Ids : TRUE, job |-> AnyJob, dirty |-> FALSE]]
    /\ jobByID = [i \in Ids |-> 0]
    /\ heap = {}
    /\ count = 0
    /\ heapHeld = FALSE
    /\ pc = [c \in Callers |-> "idle"]
    /\ at = [c \in Callers |-> 0] /\ old = [c \in Callers |-> 0]
    /\ arg = [c \in Callers |-> AnyJob]
    /\ ops = 0
    /\ overlap = FALSE
    /\ db \in [Ids -> {NoJob, [status |-> "run", next |-> CHOOSE t \in Times : TRUE]}]
    /\ fpc = "off"
    /\ cancelled = FALSE /\ final = FALSE
    /\ todo = {}
    /\ cur = 0
    /\ batch = {}
-----------------------------------------------------------------------------
(* LoadAll and the start of the flush loop, in the order of Scheduler.Start *)

\* LoadAll of one job read from the table: the entry is clean.  Scheduler.Start calls
\* it once, before anyone has added the job.
LoadAll(i) ==
    /\ fpc = "off" /\ jobByID[i] = 0
    /\ ~heapHeld
    /\ db[i] # NoJob /\ db[i].status = "run"
    /\ made < MaxEntries
    /\ made' = made + 1
    /\ entry' = [entry EXCEPT ![made + 1] = [id |-> i, job |-> db[i], dirty |-> FALSE]]
    /\ jobByID' = [jobByID EXCEPT ![i] = made + 1]
    /\ count' = count + 1
    /\ heap' = heap \cup {e \in {made + 1} : Runnable(db[i])}
    /\ UNCHANGED <<heapHeld, callerVars, db, flushVars>>

StartFlushLoop ==
    /\ fpc = "off"
    /\ fpc' = "idle"
    /\ UNCHANGED <<storeVars, callerVars, db, cancelled, final, todo, cur, batch>>
-----------------------------------------------------------------------------
(* The callers' operations.  The limit that PopDue and PeekDue take is at least the *)
(* number of due jobs. *)

Goto(c, label) == pc' = [pc EXCEPT ![c] = label]

\* Caller c returns; its locals are gone.
Return(c) ==
    /\ Goto(c, "idle")
    /\ at' = [at EXCEPT ![c] = 0]
    /\ old' = [old EXCEPT ![c] = 0]
    /\ arg' = [arg EXCEPT ![c] = AnyJob]

Overlap(c) == overlap' = (overlap \/ \E d \in Callers \ {c} : pc[d] # "idle")

\* Caller c starts an operation on entry e with job j.
Begin(c, label, e, j) ==
    /\ fpc # "off"
    /\ pc[c] = "idle"
    /\ Goto(c, label)
    /\ at' = [at EXCEPT ![c] = e]
    /\ arg' = [arg EXCEPT ![c] = j]
    /\ Overlap(c)

\* Add: the Swap makes a new dirty entry visible and yields the one it replaces.
Add(c, i, j) ==
    /\ made < MaxEntries
    /\ made' = made + 1
    /\ entry' = [entry EXCEPT ![made + 1] = [id |-> i, job |-> j, dirty |-> TRUE]]
    /\ jobByID' = [jobByID EXCEPT ![i] = made + 1]
    /\ old' = [old EXCEPT ![c] = jobByID[i]]
    /\ Begin(c, IF jobByID[i] = 0 THEN "addCount" ELSE "addUnheap", made + 1, j)
    /\ UNCHANGED <<heap, count, heapHeld, ops, db, flushVars>>

AddCount(c) ==
    /\ pc[c] = "addCount"
    /\ count' = count + 1
    /\ Goto(c, "addHeap")
    /\ UNCHANGED <<made, entry, jobByID, heap, heapHeld, at, old, arg, ops, overlap, db, flushVars>>

\* Mutant of AddUnheap: the replaced entry stays in the heap.
AddUnheapSkipped(c) ==
    /\ pc[c] = "addUnheap"
    /\ Goto(c, "addHeap")
    /\ UNCHANGED <<storeVars, at, old, arg, ops, overlap, db, flushVars>>

\* Mutant of AddUnheap: a replacing Add counts the job again.
AddUnheapCounts(c) ==
    /\ pc[c] = "addUnheap"
    /\ ~heapHeld
    /\ heap' = heap \ {old[c]}
    /\ Goto(c, "addCount")
    /\ UNCHANGED <<made, entry, jobByID, count, heapHeld, at, old, arg, ops, overlap, db,
                   flushVars>>

AddUnheap(c) ==
    /\ pc[c] = "addUnheap"
    /\ ~heapHeld
    /\ heap' = heap \ {old[c]}
    /\ Goto(c, "addHeap")
    /\ UNCHANGED <<made, entry, jobByID, count, heapHeld, at, old, arg, ops, overlap, db,
                   flushVars>>

AddHeap(c) ==
    /\ pc[c] = "addHeap"
    /\ ~heapHeld
    /\ heap' = heap \cup {e \in {at[c]} : Runnable(arg[c])}
    /\ Return(c)
    /\ UNCHANGED <<made, entry, jobByID, count, heapHeld, ops, overlap, db, flushVars>>

\* Remove: LoadAndDelete, then removeFromHeap and the count.
Remove(c, i) ==
    /\ jobByID[i] # 0
    /\ jobByID' = [jobByID EXCEPT ![i] = 0]
    /\ Begin(c, "remove", jobByID[i], AnyJob)
    /\ UNCHANGED <<made, entry, heap, count, heapHeld, old, ops, db, flushVars>>

RemoveUnheap(c) ==
    /\ pc[c] = "remove"
    /\ ~heapHeld
    /\ heap' = heap \ {at[c]}
    /\ count' = count - 1
    /\ Return(c)
    /\ UNCHANGED <<made, entry, jobByID, heapHeld, ops, overlap, db, flushVars>>

\* UpdateNextTrigger and UpdateStatus load the entry; it may be replaced or removed
\* before they lock heapMu.
Update(c, label, i, j) ==
    /\ ops < MaxOps
    /\ ops' = ops + 1
    /\ jobByID[i] # 0
    /\ Begin(c, label, jobByID[i], j)
    /\ UNCHANGED <<storeVars, old, db, flushVars>>

UpdateNextTrigger(c, i, t) == Update(c, "next", i, [AnyJob EXCEPT !.next = t])
UpdateStatus(c, i, st) == Update(c, "status", i, [AnyJob EXCEPT !.status = st])

\* The write of the job under heapMu; the flag is set after it.
WriteJob(c, label, nextLabel, j) ==
    /\ pc[c] = label
    /\ ~heapHeld
    /\ heapHeld' = TRUE
    /\ entry' = [entry EXCEPT ![at[c]].job = j]
    /\ Goto(c, nextLabel)
    /\ UNCHANGED <<made, jobByID, heap, count, at, old, arg, ops, overlap, db, flushVars>>

WriteNext(c) == WriteJob(c, "next", "nextDirty", [JobOf(at[c]) EXCEPT !.next = arg[c].next])
WriteStatus(c) ==
    WriteJob(c, "status", "statusDirty", [JobOf(at[c]) EXCEPT !.status = arg[c].status])

\* The flag, the move in the heap and the unlock.
SetDirty(c, label, newHeap) ==
    /\ pc[c] = label
    /\ entry' = [entry EXCEPT ![at[c]].dirty = TRUE]
    /\ heap' = newHeap
    /\ heapHeld' = FALSE
    /\ Return(c)
    /\ UNCHANGED <<made, jobByID, count, ops, overlap, db, flushVars>>

DirtyNext(c) ==
    SetDirty(c, "nextDirty", heap \cup {e \in {at[c]} : JobOf(e).status = "run"})
DirtyStatus(c) ==
    SetDirty(c, "statusDirty",
        IF arg[c].status = "stop" THEN heap \ {at[c]}
        ELSE heap \cup {e \in {at[c]} : JobOf(e).next # NoTime})

\* The due entries; those whose status has changed leave the heap with them.
Due(t) == {e \in heap : JobOf(e).next # NoTime /\ JobOf(e).next <= t}
DueIds(t) == {entry[e].id : e \in {d \in Due(t) : JobOf(d).status = "run"}}

PopDue(c, t) ==
    /\ fpc # "off"
    /\ pc[c] = "idle"
    /\ ~heapHeld
    /\ heap' = heap \ Due(t)
    /\ UNCHANGED <<made, entry, jobByID, count, heapHeld, callerVars, db, flushVars>>

\* PeekDue pops the due entries and pushes the map's entries of their IDs.
PeekDue(c, t) ==
    /\ fpc # "off"
    /\ pc[c] = "idle"
    /\ ~heapHeld
    /\ heap' = (heap \ Due(t)) \cup ({jobByID[i] : i \in DueIds(t)} \ {0})
    /\ Overlap(c)
    /\ UNCHANGED <<made, entry, jobByID, count, heapHeld, pc, at, old, arg, ops, db, flushVars>>
-----------------------------------------------------------------------------
(* The flush goroutine *)

Cancel ==
    /\ fpc # "off" /\ ~cancelled
    /\ cancelled' = TRUE
    /\ UNCHANGED <<storeVars, callerVars, db, fpc, final, todo, cur, batch>>

\* The select of the loop: a tick, or the cancelled context and the last flush.
FlushStart ==
    /\ fpc = "idle"
    /\ todo' = {i \in Ids : jobByID[i] # 0}
    /\ fpc' = "drain"
    /\ final' \in {FALSE, cancelled}
    /\ UNCHANGED <<storeVars, callerVars, db, cancelled, cur, batch>>

\* DrainDirty: the compare-and-swap of the flag, then the copy, without heapMu.
DrainCAS(i) ==
    /\ fpc = "drain"
    /\ i \in todo
    /\ todo' = todo \ {i}
    /\ LET e == jobByID[i] IN
         IF e # 0 /\ entry[e].dirty
         THEN /\ entry' = [entry EXCEPT ![e].dirty = FALSE]
              /\ cur' = e
              /\ fpc' = "copy"
         ELSE UNCHANGED <<entry, cur, fpc>>
    /\ UNCHANGED <<mapVars, callerVars, db, cancelled, final, batch>>

\* Mutant of DrainCopy: the pointer to the copied entry stays.
DrainCopyKeeps ==
    /\ fpc = "copy"
    /\ batch' = batch \cup {[id |-> entry[cur].id, job |-> JobOf(cur)]}
    /\ fpc' = "drain"
    /\ UNCHANGED <<storeVars, callerVars, db, cancelled, final, todo, cur>>

DrainCopy ==
    /\ fpc = "copy"
    /\ batch' = batch \cup {[id |-> entry[cur].id, job |-> JobOf(cur)]}
    /\ cur' = 0
    /\ fpc' = "drain"
    /\ UNCHANGED <<storeVars, callerVars, db, cancelled, final, todo>>

DrainEnd ==
    /\ fpc = "drain"
    /\ todo = {}
    /\ fpc' = "write"
    /\ UNCHANGED <<storeVars, callerVars, db, cancelled, final, todo, cur, batch>>

\* Mutant of FlushJob: the flag is cleared once the row is saved.
FlushJobClears(b) ==
    /\ fpc = "write"
    /\ b \in batch
    /\ batch' = batch \ {b}
    /\ db' = [db EXCEPT ![b.id] = b.job]
    /\ entry' = [e \in Entries |-> IF e = jobByID[b.id] THEN [entry[e] EXCEPT !.dirty = FALSE]
                                                       ELSE entry[e]]
    /\ UNCHANGED <<mapVars, callerVars, fpc, cancelled, final, todo, cur>>

\* FlushJob saves the whole row (an upsert).
FlushJob(b) ==
    /\ fpc = "write"
    /\ b \in batch
    /\ batch' = batch \ {b}
    /\ db' = [db EXCEPT ![b.id] = b.job]
    /\ UNCHANGED <<storeVars, callerVars, fpc, cancelled, final, todo, cur>>

\* FlushJob fails: MarkDirty on whatever entry the ID has by now.
FlushFail(b) ==
    /\ fpc = "write"
    /\ b \in batch
    /\ batch' = batch \ {b}
    /\ entry' = [e \in Entries |-> IF e = jobByID[b.id] THEN [entry[e] EXCEPT !.dirty = TRUE]
                                                       ELSE entry[e]]
    /\ UNCHANGED <<mapVars, callerVars, db, fpc, cancelled, final, todo, cur>>

\* Mutant of FlushEnd: the loop ends after its first flush.
FlushEndForGood ==
    /\ fpc = "write"
    /\ batch = {}
    /\ fpc' = "done"
    /\ UNCHANGED <<storeVars, callerVars, db, cancelled, final, todo, cur, batch>>

FlushEnd ==
    /\ fpc = "write"
    /\ batch = {}
    /\ fpc' = IF final THEN "done" ELSE "idle"
    /\ UNCHANGED <<storeVars, callerVars, db, cancelled, final, todo, cur, batch>>
-----------------------------------------------------------------------------
CallerStep(c) ==
    \/ AddUnheap(c) \/ AddCount(c) \/ AddHeap(c) \/ RemoveUnheap(c)
    \/ WriteNext(c) \/ WriteStatus(c) \/ DirtyNext(c) \/ DirtyStatus(c)

Call(c, i) ==
    \/ \E j \in Job : Add(c, i, j)
    \/ Remove(c, i)
    \/ \E t \in Times : UpdateNextTrigger(c, i, t)
    \/ \E st \in {"run", "stop"} : UpdateStatus(c, i, st)

FlushStep ==
    \/ Cancel \/ FlushStart \/ DrainCopy \/ DrainEnd \/ FlushEnd
    \/ \E i \in Ids : DrainCAS(i)
    \/ \E b \in batch : FlushJob(b) \/ FlushFail(b)

Next ==
    \/ StartFlushLoop
    \/ \E i \in Ids : LoadAll(i)
    \/ \E c \in Callers :
         \/ CallerStep(c)
         \/ \E i \in Ids : Call(c, i)
         \/ \E t \in Times : PopDue(c, t) \/ PeekDue(c, t)
    \/ FlushStep

Spec == Init /\ [][Next]_vars

\* Goroutines run, and a row can be written now and then.
FairSpec ==
    /\ Spec
    /\ WF_vars(FlushStart) /\ WF_vars(DrainCopy) /\ WF_vars(DrainEnd) /\ WF_vars(FlushEnd)
    /\ \A i \in Ids : WF_vars(DrainCAS(i))
    /\ \A i \in Ids : SF_vars(\E b \in batch : b.id = i /\ FlushJob(b))
    /\ \A i \in Ids : WF_vars(\E b \in batch : b.id = i /\ (FlushJob(b) \/ FlushFail(b)))
    /\ \A c \in Callers : WF_vars(CallerStep(c))
-----------------------------------------------------------------------------
(* Properties *)

\* No update is lost by the flush: the row of a job is what the store has, unless
\* the entry is dirty, being copied, copied and about to be written, or being
\* changed by a caller that will set its flag.
CleanIsStored ==
    \A i \in Ids : jobByID[i] # 0 =>
        LET e == jobByID[i] IN
        \/ entry[e].dirty
        \/ db[i] = JobOf(e)
        \/ cur = e
        \/ [id |-> i, job |-> JobOf(e)] \in batch
        \/ \E c \in Callers : pc[c] \in {"nextDirty", "statusDirty"} /\ at[c] = e

AllIdle == \A c \in Callers : pc[c] = "idle"
Present == {i \in Ids : jobByID[i] # 0}

\* jobstore.go:131 and :170: once the operations have returned, Store.Len is the number of
\* jobs; and the heap, from which due jobs are taken, holds neither removed, replaced nor
\* stopped jobs, as long as no two operations have overlapped (Add publishes its entry
\* before it is in the heap, and pushes it there though it has been removed or stopped
\* meanwhile).
IndexesAgree ==
    AllIdle =>
        /\ count = Cardinality(Present)
        /\ ~overlap => \A e \in heap : jobByID[entry[e].id] = e /\ JobOf(e).status = "run"

\* Once callers have made their last call, the row of every job of the store comes to
\* be what the store has, unless the flush loop is told to end.
EventuallyStored ==
    <>[](fpc = "off" \/ cancelled \/ \A i \in Present : db[i] = JobOf(jobByID[i]))
=============================================================================
