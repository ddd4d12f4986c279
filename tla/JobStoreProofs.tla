--------------------------- MODULE JobStoreProofs ---------------------------
(***************************************************************************)
(* The flush loop of JobStore loses no update, for any jobs, times,        *)
(* callers and bounds.                                                     *)
(*                                                                         *)
(* CleanIsStored is not inductive: it must be known that a stale copy of a *)
(* job is never written over a newer row of a clean entry (Current), which *)
(* holds because a flush copies each job once and writes all its copies    *)
(* before the next one begins (Visits), and because an entry that replaces *)
(* one while it is copied is dirty (Replaced).                             *)
(***************************************************************************)
EXTENDS JobStore, FiniteSetTheorems, TLAPS

(* Types *)

EntryType == [id : Ids, job : Job, dirty : BOOLEAN]

LEMMA EntryUpdates ==
    ASSUME NEW r \in EntryType
    PROVE  /\ \A j \in Job : [r EXCEPT !.job = j] \in EntryType
           /\ \A d \in BOOLEAN : [r EXCEPT !.dirty = d] \in EntryType
BY DEF EntryType

LEMMA BoundsAreNatural == MaxEntries \in Nat /\ MaxOps \in Nat
BY StoreAssumption

LEMMA JobUpdates ==
    /\ AnyJob \in Job
    /\ \A j \in Job : /\ \A t \in Times \cup {NoTime} : [j EXCEPT !.next = t] \in Job
                      /\ \A st \in {"run", "stop"} : [j EXCEPT !.status = st] \in Job
BY DEF AnyJob, Job

\* A caller works on an entry, once the flush loop has been started.
Busy == \A c \in Callers : pc[c] # "idle" => at[c] # 0 /\ fpc # "off"

\* What the calls and steps of a caller change: its own locals.
LEMMA CallerTypes ==
    ASSUME TypeOK, Busy, NEW c \in Callers, NEW label \in {"idle", "addUnheap", "addCount", "addHeap",
               "remove", "next", "nextDirty", "status", "statusDirty"},
           pc' = [pc EXCEPT ![c] = label],
           at' = at \/ \E e \in Ref : at' = [at EXCEPT ![c] = e],
           old' = old \/ \E e \in Ref : old' = [old EXCEPT ![c] = e],
           arg' = arg \/ \E j \in Job : arg' = [arg EXCEPT ![c] = j],
           overlap' = overlap \/ (overlap' = (overlap \/ \E d \in Callers \ {c} : pc[d] # "idle")),
           made' \in Ref, entry' \in [Entries -> EntryType], jobByID' \in [Ids -> Ref],
           heap' \in SUBSET Entries, count' \in Int, heapHeld' \in BOOLEAN, ops' \in 0 .. MaxOps,
           UNCHANGED <<db, flushVars>>, label # "idle" => at'[c] # 0 /\ fpc # "off"
    PROVE  TypeOK' /\ Busy'
<1>1. /\ at' \in [Callers -> Ref] /\ old' \in [Callers -> Ref] /\ arg' \in [Callers -> Job]
      /\ pc' \in [Callers -> {"idle", "addUnheap", "addCount", "addHeap", "remove", "next",
                              "nextDirty", "status", "statusDirty"}]
  BY DEF TypeOK
<1>2. overlap' \in BOOLEAN
  BY DEF TypeOK
<1>3. /\ db' \in [Ids -> Job \cup {NoJob}]
      /\ fpc' \in {"off", "idle", "drain", "copy", "write", "done"}
      /\ cancelled' \in BOOLEAN /\ final' \in BOOLEAN /\ todo' \in SUBSET Ids
      /\ cur' \in Ref /\ (cur' # 0 <=> fpc' = "copy")
      /\ batch' \in SUBSET [id : Ids, job : Job]
  BY DEF TypeOK, flushVars
<1>4. TypeOK'
  BY <1>1, <1>2, <1>3 DEF TypeOK, Ref, Entries, EntryType, Job
<1>5. Busy'
  BY <1>3 DEF Busy, TypeOK, flushVars
<1>6. QED
  BY <1>4, <1>5

LEMMA StepTypes == ASSUME TypeOK, Busy, NEW c \in Callers, CallerStep(c) PROVE TypeOK' /\ Busy'
<1>1. /\ made \in Ref /\ entry \in [Entries -> EntryType] /\ jobByID \in [Ids -> Ref]
      /\ heap \in SUBSET Entries /\ count \in Int /\ heapHeld \in BOOLEAN /\ ops \in 0 .. MaxOps
      /\ 0 \in Ref /\ AnyJob \in Job /\ at[c] \in Ref /\ arg[c] \in Job /\ MaxEntries \in Nat
      /\ (at[c] # 0 => at[c] \in Entries) /\ (pc[c] # "idle" => at[c] # 0 /\ fpc # "off")
  BY JobUpdates, BoundsAreNatural DEF TypeOK, Busy, EntryType, Ref, Entries
<1>2. CASE AddUnheap(c)
  BY <1>1, <1>2, CallerTypes DEF AddUnheap, Goto
<1>3. CASE AddCount(c)
  <2>1. /\ pc' = [pc EXCEPT ![c] = "addHeap"] /\ count' \in Int /\ at' = at /\ old' = old
        /\ arg' = arg /\ overlap' = overlap /\ at'[c] # 0 /\ fpc # "off"
        /\ UNCHANGED <<made, entry, jobByID, heap, heapHeld, ops, db, flushVars>>
    BY <1>1, <1>3 DEF AddCount, Goto
  <2>2. QED
    BY <1>1, <2>1, CallerTypes
<1>4. CASE AddHeap(c)
  <2>1. heap' \in SUBSET Entries
    BY <1>1, <1>4 DEF AddHeap
  <2>2. QED
    BY <1>1, <1>4, <2>1, CallerTypes DEF AddHeap, Return, Goto
<1>5. CASE RemoveUnheap(c)
  <2>1. heap' \in SUBSET Entries /\ count' \in Int
    BY <1>1, <1>5 DEF RemoveUnheap
  <2>2. /\ pc' = [pc EXCEPT ![c] = "idle"] /\ at' = [at EXCEPT ![c] = 0]
        /\ old' = [old EXCEPT ![c] = 0] /\ arg' = [arg EXCEPT ![c] = AnyJob]
        /\ overlap' = overlap /\ UNCHANGED <<made, entry, jobByID, heapHeld, ops, db, flushVars>>
    BY <1>5 DEF RemoveUnheap, Return, Goto
  <2>3. QED
    BY <1>1, <2>1, <2>2, CallerTypes
<1>6. ASSUME NEW label, NEW next \in {"nextDirty", "statusDirty"}, NEW j,
             at[c] \in Entries => j \in Job, WriteJob(c, label, next, j), label # "idle"
      PROVE  TypeOK' /\ Busy'
  <2>1. entry' = [entry EXCEPT ![at[c]].job = j]
    BY <1>6 DEF WriteJob
  <2>2. entry' \in [Entries -> EntryType]
    BY <1>1, <1>6, <2>1, EntryUpdates
  <2>3. pc[c] # "idle"
    BY <1>6 DEF WriteJob
  <2>4. QED
    <3>1. /\ pc' = [pc EXCEPT ![c] = next] /\ heapHeld' = TRUE /\ at' = at /\ old' = old
          /\ arg' = arg /\ overlap' = overlap /\ at'[c] # 0 /\ fpc # "off"
          /\ UNCHANGED <<made, jobByID, heap, count, ops, db, flushVars>>
      BY <1>1, <1>6, <2>3 DEF WriteJob, Goto
    <3>2. QED
      BY <1>1, <2>2, <3>1, CallerTypes
<1>7. CASE WriteNext(c) \/ WriteStatus(c)
  <2>1. at[c] \in Entries => /\ [JobOf(at[c]) EXCEPT !.next = arg[c].next] \in Job
                             /\ [JobOf(at[c]) EXCEPT !.status = arg[c].status] \in Job
    BY <1>1, JobUpdates DEF JobOf, EntryType, Job
  <2>2. QED
    BY <1>6, <1>7, <2>1 DEF WriteNext, WriteStatus
<1>8. ASSUME NEW label, NEW newHeap \in SUBSET Entries, SetDirty(c, label, newHeap)
      PROVE  TypeOK' /\ Busy'
  <2>1. entry' = [entry EXCEPT ![at[c]].dirty = TRUE]
    BY <1>8 DEF SetDirty
  <2>2. entry' \in [Entries -> EntryType]
    BY <1>1, <2>1, EntryUpdates
  <2>3. QED
    BY <1>1, <1>8, <2>2, CallerTypes DEF SetDirty, Return, Goto
<1>9. CASE DirtyNext(c) \/ DirtyStatus(c)
  <2>1. /\ heap \cup {e \in {at[c]} : JobOf(e).status = "run"} \in SUBSET Entries
        /\ heap \cup {e \in {at[c]} : JobOf(e).next # NoTime} \in SUBSET Entries
        /\ heap \ {at[c]} \in SUBSET Entries
    BY <1>1, <1>9 DEF DirtyNext, DirtyStatus, SetDirty
  <2>2. QED
    BY <1>1, <1>8, <1>9, <2>1 DEF DirtyNext, DirtyStatus
<1>10. QED
  BY <1>2, <1>3, <1>4, <1>5, <1>7, <1>9 DEF CallerStep

LEMMA CallTypes ==
    ASSUME TypeOK, Busy, NEW c \in Callers, NEW i \in Ids, Call(c, i) PROVE TypeOK' /\ Busy'
<1>1. /\ made \in Ref /\ entry \in [Entries -> EntryType] /\ jobByID \in [Ids -> Ref]
      /\ heap \in SUBSET Entries /\ count \in Int /\ heapHeld \in BOOLEAN /\ ops \in 0 .. MaxOps
      /\ 0 \in Ref /\ AnyJob \in Job /\ MaxEntries \in Nat /\ MaxOps \in Nat /\ jobByID[i] \in Ref
  BY JobUpdates, BoundsAreNatural DEF TypeOK, EntryType, Ref, Entries
<1>2. ASSUME NEW j \in Job, Add(c, i, j) PROVE TypeOK' /\ Busy'
  <2>1. made' \in Ref /\ made + 1 \in Ref /\ made + 1 # 0 /\ made + 1 \in Entries
    BY <1>1, <1>2 DEF Add, Ref, Entries
  <2>2. [id |-> i, job |-> j, dirty |-> TRUE] \in EntryType
    BY DEF EntryType
  <2>3. entry' \in [Entries -> EntryType]
    BY <1>1, <1>2, <2>2 DEF Add
  <2>4. jobByID' \in [Ids -> Ref]
    BY <1>1, <1>2, <2>1 DEF Add
  <2>5. PICK label \in {"addCount", "addUnheap"} : Begin(c, label, made + 1, j)
    BY <1>2 DEF Add
  <2>6. at' = [at EXCEPT ![c] = made + 1] /\ at'[c] # 0 /\ fpc # "off"
    BY <2>1, <2>5 DEF Begin, TypeOK
  <2>7. QED
    BY <1>1, <1>2, <2>1, <2>3, <2>4, <2>5, <2>6, CallerTypes DEF Add, Begin, Goto, Overlap
<1>3. CASE Remove(c, i)
  <2>1. jobByID' \in [Ids -> Ref]
    BY <1>1, <1>3 DEF Remove
  <2>2. at' = [at EXCEPT ![c] = jobByID[i]] /\ at'[c] # 0 /\ fpc # "off"
    BY <1>3 DEF Remove, Begin, TypeOK
  <2>3. QED
    BY <1>1, <1>3, <2>1, <2>2, CallerTypes DEF Remove, Begin, Goto, Overlap
<1>4. ASSUME NEW label \in {"next", "status"}, NEW j \in Job, Update(c, label, i, j)
      PROVE  TypeOK' /\ Busy'
  <2>1. ops' \in 0 .. MaxOps
    BY <1>1, <1>4 DEF Update
  <2>2. at' = [at EXCEPT ![c] = jobByID[i]] /\ at'[c] # 0 /\ fpc # "off"
    BY <1>4 DEF Update, Begin, TypeOK
  <2>3. QED
    BY <1>1, <1>4, <2>1, <2>2, CallerTypes
       DEF Update, Begin, Goto, Overlap, storeVars, mapVars
<1>5. CASE \/ \E t \in Times : UpdateNextTrigger(c, i, t)
           \/ \E st \in {"run", "stop"} : UpdateStatus(c, i, st)
  BY <1>4, <1>5, JobUpdates DEF UpdateNextTrigger, UpdateStatus
<1>6. QED
  BY <1>2, <1>3, <1>5 DEF Call

\* What the steps of the flush goroutine change.
LEMMA FlushTypes ==
    ASSUME TypeOK, Busy, UNCHANGED <<mapVars, callerVars>>, entry' \in [Entries -> EntryType],
           db' \in [Ids -> Job \cup {NoJob}],
           fpc' \in {"off", "idle", "drain", "copy", "write", "done"},
           cancelled' \in BOOLEAN, final' \in BOOLEAN, todo' \in SUBSET Ids,
           cur' \in Ref, cur' # 0 <=> fpc' = "copy", batch' \in SUBSET [id : Ids, job : Job],
           fpc # "off" => fpc' # "off"
    PROVE  TypeOK' /\ Busy'
<1>1. TypeOK'
  BY DEF TypeOK, mapVars, callerVars, Ref, Entries, EntryType, Job
<1>2. Busy'
  BY DEF Busy, callerVars
<1>3. QED
  BY <1>1, <1>2

LEMMA FlushStepTypes == ASSUME TypeOK, Busy, FlushStep \/ StartFlushLoop PROVE TypeOK' /\ Busy'
<1>1. /\ entry \in [Entries -> EntryType] /\ db \in [Ids -> Job \cup {NoJob}]
      /\ fpc \in {"off", "idle", "drain", "copy", "write", "done"}
      /\ cancelled \in BOOLEAN /\ final \in BOOLEAN /\ todo \in SUBSET Ids
      /\ cur \in Ref /\ (cur # 0 <=> fpc = "copy") /\ batch \in SUBSET [id : Ids, job : Job]
      /\ jobByID \in [Ids -> Ref] /\ (cur # 0 => cur \in Entries) /\ 0 \in Ref
  BY BoundsAreNatural DEF TypeOK, EntryType, Ref, Entries
<1>2. CASE Cancel \/ FlushStart \/ DrainEnd \/ FlushEnd \/ StartFlushLoop
  BY <1>1, <1>2, FlushTypes
     DEF Cancel, FlushStart, DrainEnd, FlushEnd, StartFlushLoop, storeVars
<1>3. CASE DrainCopy
  <2> DEFINE b == [id |-> entry[cur].id, job |-> JobOf(cur)]
  <2>1. cur \in Entries
    BY <1>1, <1>3 DEF DrainCopy
  <2>2. b \in [id : Ids, job : Job]
    BY <1>1, <2>1 DEF JobOf, EntryType
  <2> HIDE DEF b
  <2>3. batch' = batch \cup {b}
    BY <1>3 DEF DrainCopy, b
  <2>4. QED
    BY <1>1, <1>3, <2>2, <2>3, FlushTypes DEF DrainCopy, storeVars
<1>4. ASSUME NEW i \in Ids, DrainCAS(i) PROVE TypeOK' /\ Busy'
  <2>1. todo' \in SUBSET Ids /\ UNCHANGED <<mapVars, callerVars, db, cancelled, final, batch>>
        /\ fpc = "drain"
    BY <1>1, <1>4 DEF DrainCAS
  <2>2. CASE UNCHANGED <<entry, cur, fpc>>
    BY <1>1, <2>1, <2>2, FlushTypes
  <2>3. CASE /\ jobByID[i] # 0
             /\ entry' = [entry EXCEPT ![jobByID[i]].dirty = FALSE]
             /\ cur' = jobByID[i] /\ fpc' = "copy"
    <3>1. entry' \in [Entries -> EntryType]
      BY <1>1, <2>3, EntryUpdates
    <3>2. QED
      BY <1>1, <2>1, <2>3, <3>1, FlushTypes
  <2>4. QED
    BY <1>4, <2>2, <2>3 DEF DrainCAS
<1>5. ASSUME NEW b \in batch, FlushJob(b) PROVE TypeOK' /\ Busy'
  <2>1. b.id \in Ids /\ b.job \in Job
    BY <1>1
  <2>2. db' \in [Ids -> Job \cup {NoJob}] /\ batch' \in SUBSET [id : Ids, job : Job]
    BY <1>1, <1>5, <2>1 DEF FlushJob
  <2>3. QED
    BY <1>1, <1>5, <2>2, FlushTypes DEF FlushJob, storeVars
<1>6. ASSUME NEW b \in batch, FlushFail(b) PROVE TypeOK' /\ Busy'
  <2>1. entry' \in [Entries -> EntryType] /\ batch' \in SUBSET [id : Ids, job : Job]
    BY <1>1, <1>6, EntryUpdates DEF FlushFail
  <2>2. QED
    BY <1>1, <1>6, <2>1, FlushTypes DEF FlushFail
<1>7. QED
  BY <1>2, <1>3, <1>4, <1>5, <1>6 DEF FlushStep

LEMMA LoadTypes == ASSUME TypeOK, Busy, NEW i \in Ids, LoadAll(i) PROVE TypeOK' /\ Busy'
<1>1. /\ made \in Ref /\ entry \in [Entries -> EntryType] /\ jobByID \in [Ids -> Ref]
      /\ heap \in SUBSET Entries /\ count \in Int /\ db[i] \in Job /\ MaxEntries \in Nat
  BY BoundsAreNatural DEF TypeOK, EntryType, Ref, Entries, LoadAll
<1>2. made' \in Ref /\ made + 1 \in Ref /\ made + 1 \in Entries
  BY <1>1 DEF LoadAll, Ref, Entries
<1>3. [id |-> i, job |-> db[i], dirty |-> FALSE] \in EntryType
  BY <1>1 DEF EntryType
<1>4. entry' \in [Entries -> EntryType]
  BY <1>1, <1>2, <1>3 DEF LoadAll
<1>5. jobByID' \in [Ids -> Ref] /\ heap' \in SUBSET Entries /\ count' \in Int
  BY <1>1, <1>2 DEF LoadAll
<1>6. UNCHANGED <<heapHeld, callerVars, db, flushVars>>
  BY DEF LoadAll
<1>7. QED
  BY <1>2, <1>4, <1>5, <1>6
     DEF TypeOK, Busy, callerVars, flushVars, Ref, Entries, EntryType, Job

LEMMA TypesHold == Spec => [](TypeOK /\ Busy)
<1>1. Init => TypeOK /\ Busy
  <2> SUFFICES ASSUME Init PROVE TypeOK /\ Busy
    OBVIOUS
  <2>1. (CHOOSE i \in Ids : TRUE) \in Ids /\ (CHOOSE t \in Times : TRUE) \in Times
    BY StoreAssumption
  <2>2. [status |-> "run", next |-> CHOOSE t \in Times : TRUE] \in Job
    BY <2>1 DEF Job
  <2>3. AnyJob \in Job /\ MaxEntries \in Nat /\ MaxOps \in Nat
    BY JobUpdates, BoundsAreNatural
  <2>4. entry \in [Entries -> [id : Ids, job : Job, dirty : BOOLEAN]]
    BY <2>1, <2>3 DEF Init
  <2>5. db \in [Ids -> Job \cup {NoJob}]
    <3> DEFINE j == [status |-> "run", next |-> CHOOSE t \in Times : TRUE]
    <3>1. j \in Job /\ db \in [Ids -> {NoJob, j}]
      BY <2>2 DEF Init
    <3> HIDE DEF j
    <3>2. QED
      BY <3>1
  <2>6. Busy
    BY DEF Init, Busy
  <2>7. /\ made \in Ref /\ jobByID \in [Ids -> Ref] /\ at \in [Callers -> Ref]
        /\ old \in [Callers -> Ref] /\ arg \in [Callers -> Job] /\ ops \in 0 .. MaxOps
        /\ cur \in Ref
    BY <2>3 DEF Init, Ref
  <2>8. pc \in [Callers -> {"idle", "addUnheap", "addCount", "addHeap", "remove", "next",
                            "nextDirty", "status", "statusDirty"}]
    BY DEF Init
  <2>9. /\ heap \in SUBSET Entries /\ count \in Int /\ heapHeld \in BOOLEAN /\ overlap \in BOOLEAN
        /\ fpc \in {"off", "idle", "drain", "copy", "write", "done"}
        /\ cancelled \in BOOLEAN /\ final \in BOOLEAN /\ todo \in SUBSET Ids
        /\ (cur # 0 <=> fpc = "copy") /\ batch \in SUBSET [id : Ids, job : Job]
    <3>1. /\ heap = {} /\ count = 0 /\ heapHeld = FALSE /\ overlap = FALSE /\ fpc = "off"
          /\ cancelled = FALSE /\ final = FALSE /\ todo = {} /\ cur = 0 /\ batch = {}
      BY DEF Init
    <3>2. /\ heap \in SUBSET Entries /\ todo \in SUBSET Ids
          /\ batch \in SUBSET [id : Ids, job : Job]
      BY <3>1
    <3>3. heapHeld \in BOOLEAN /\ overlap \in BOOLEAN /\ cancelled \in BOOLEAN /\ final \in BOOLEAN
      BY <3>1
    <3>4. /\ count \in Int /\ (cur # 0 <=> fpc = "copy")
          /\ fpc \in {"off", "idle", "drain", "copy", "write", "done"}
      BY <3>1
    <3>5. QED
      BY <3>2, <3>3, <3>4
  <2>10. QED
    BY <2>4, <2>5, <2>6, <2>7, <2>8, <2>9 DEF TypeOK
<1>2. TypeOK /\ Busy /\ [Next]_vars => TypeOK' /\ Busy'
  <2> SUFFICES ASSUME TypeOK, Busy, [Next]_vars PROVE TypeOK' /\ Busy'
    OBVIOUS
  <2>1. ASSUME NEW c \in Callers, NEW t \in Times, PopDue(c, t) \/ PeekDue(c, t)
        PROVE  TypeOK' /\ Busy'
    <3>1. heap' \in SUBSET Entries
      <4>1. \A i \in DueIds(t) : i \in Ids
        BY DEF DueIds, Due, TypeOK
      <4>2. {jobByID[i] : i \in DueIds(t)} \ {0} \subseteq Entries
        BY <4>1, BoundsAreNatural DEF TypeOK, Ref, Entries
      <4>3. heap' \subseteq heap \cup ({jobByID[i] : i \in DueIds(t)} \ {0})
        BY <2>1 DEF PopDue, PeekDue
      <4>4. QED
        BY <4>2, <4>3 DEF TypeOK
    <3>2. /\ UNCHANGED <<made, entry, jobByID, count, heapHeld, pc, at, old, arg, ops, db, flushVars>>
          /\ overlap' = overlap \/ (overlap' = (overlap \/ \E d \in Callers \ {c} : pc[d] # "idle"))
      BY <2>1 DEF PopDue, PeekDue, Overlap, callerVars
    <3>3. overlap' \in BOOLEAN
      BY <3>2 DEF TypeOK
    <3>4. QED
      BY <3>1, <3>2, <3>3 DEF TypeOK, Busy, flushVars, Ref, Entries, Job
  <2>2. CASE UNCHANGED vars
    BY <2>2 DEF TypeOK, Busy, vars, storeVars, mapVars, callerVars, flushVars, Ref, Entries, Job
  <2>3. QED
    BY <2>1, <2>2, StepTypes, CallTypes, FlushStepTypes, LoadTypes DEF Next
<1>3. QED
  BY <1>1, <1>2, PTL DEF Spec

\* The store keeps its types, for any jobs and callers: in particular no step follows a nil
\* entry, and the heap holds entries that have been made (jobstore.go).
THEOREM TypeCorrect == Spec => []TypeOK
BY TypesHold, PTL
-----------------------------------------------------------------------------
(* No lost update *)

Writing == {"nextDirty", "statusDirty"}
Pending(e) == \E c \in Callers : pc[c] \in Writing /\ at[c] = e

IsEntry(r) == r = [id |-> r.id, job |-> r.job, dirty |-> r.dirty]

\* Entries are made in order; a job is filed under its own ID.
Shape ==
    /\ made \in 0 .. MaxEntries
    /\ DOMAIN entry = Entries /\ \A e \in Entries : IsEntry(entry[e])
    /\ jobByID \in [Ids -> 0 .. made]
    /\ \A i \in Ids : jobByID[i] # 0 => entry[jobByID[i]].id = i
    /\ DOMAIN pc = Callers
    /\ at \in [Callers -> 0 .. made]
    /\ DOMAIN db = Ids
    /\ cur \in 0 .. made

\* A flush visits a job once: its copies are of different jobs, none of which it has still to
\* visit; and they are all written before the next flush.
Visits ==
    /\ \A b \in batch : b = [id |-> b.id, job |-> b.job]
    /\ \A b, d \in batch : b.id = d.id => b = d
    /\ fpc \in {"off", "idle", "done"} => batch = {}
    /\ fpc = "copy" <=> cur # 0
    /\ fpc \in {"drain", "copy"} => \A b \in batch : b.id \notin todo
    /\ cur # 0 => entry[cur].id \notin todo /\ \A b \in batch : b.id # entry[cur].id

\* The row of job i is e's, or will be when the batch is written.
Settled(i, e) ==
    /\ \A b \in batch : b.id = i => b.job = JobOf(e)
    /\ db[i] = JobOf(e) \/ [id |-> i, job |-> JobOf(e)] \in batch

Safe(i) ==
    \/ entry[jobByID[i]].dirty \/ cur = jobByID[i] \/ Pending(jobByID[i])
    \/ Settled(i, jobByID[i])

Current == \A i \in Ids : jobByID[i] # 0 => Safe(i)

\* An entry that has replaced the one being copied waits for the next flush.
Replaced ==
    cur # 0 => \A i \in Ids : entry[cur].id = i /\ jobByID[i] \notin {0, cur}
                   => entry[jobByID[i]].dirty

IInv == Shape /\ Visits /\ Current /\ Replaced
-----------------------------------------------------------------------------
\* An update of one field of an entry.
LEMMA Updates ==
    ASSUME NEW r, IsEntry(r), NEW x
    PROVE  /\ IsEntry([r EXCEPT !.job = x])
           /\ [r EXCEPT !.job = x].id = r.id /\ [r EXCEPT !.job = x].dirty = r.dirty
           /\ IsEntry([r EXCEPT !.dirty = x])
           /\ [r EXCEPT !.dirty = x].id = r.id /\ [r EXCEPT !.dirty = x].job = r.job
           /\ [r EXCEPT !.dirty = x].dirty = x
<1> DEFINE s == [id |-> r.id, job |-> r.job, dirty |-> r.dirty]
<1>1. r = s
  BY DEF IsEntry
<1>2. [s EXCEPT !.job = x] = [id |-> r.id, job |-> x, dirty |-> r.dirty]
  OBVIOUS
<1>3. [s EXCEPT !.dirty = x] = [id |-> r.id, job |-> r.job, dirty |-> x]
  OBVIOUS
<1> HIDE DEF s
<1>4. QED
  BY <1>1, <1>2, <1>3 DEF IsEntry

LEMMA NewEntry ==
    ASSUME NEW i, NEW j, NEW d
    PROVE  LET r == [id |-> i, job |-> j, dirty |-> d]
           IN  IsEntry(r) /\ r.id = i /\ r.job = j /\ r.dirty = d
BY DEF IsEntry

LEMMA Numbers ==
    ASSUME Shape
    PROVE  /\ made \in Nat /\ MaxEntries \in Nat
           /\ \A e \in 0 .. made : e # 0 => e \in Entries
           /\ \A i \in Ids : jobByID[i] # 0 => jobByID[i] \in Entries
BY StoreAssumption DEF Shape, Entries

LEMMA Initially == Init => IInv
<1> SUFFICES ASSUME Init PROVE IInv
  OBVIOUS
<1>1. DOMAIN entry = Entries
  BY DEF Init
<1>2. \A e \in Entries : IsEntry(entry[e])
  <2> DEFINE id == CHOOSE i \in Ids : TRUE
  <2>1. entry = [e \in Entries |-> [id |-> id, job |-> AnyJob, dirty |-> FALSE]]
    BY DEF Init
  <2> HIDE DEF id
  <2>2. QED
    BY <2>1, NewEntry
<1>3. Shape
  BY <1>1, <1>2, StoreAssumption DEF Init, Shape
<1>4. Visits
  BY DEF Init, Visits
<1>5. Current /\ Replaced
  BY DEF Init, Current, Replaced
<1>6. QED
  BY <1>3, <1>4, <1>5 DEF IInv

\* A step that leaves entries, batch and table alone, and no flag to be set.
LEMMA FrameKeeps ==
    ASSUME IInv, UNCHANGED <<made, entry, jobByID, db, fpc, todo, cur, batch>>,
           DOMAIN pc' = Callers, at' \in [Callers -> 0 .. made],
           \A c \in Callers : pc[c] \in Writing => pc'[c] = pc[c] /\ at'[c] = at[c]
    PROVE  IInv'
<1>1. Shape'
  BY DEF IInv, Shape
<1>2. Visits'
  BY DEF IInv, Visits
<1>3. \A x : Pending(x) => Pending(x)'
  BY DEF Pending
<1>4. Current'
  <2> SUFFICES ASSUME NEW i \in Ids, jobByID'[i] # 0 PROVE Safe(i)'
    BY DEF Current
  <2>1. Safe(i)
    BY DEF IInv, Current
  <2>2. Settled(i, jobByID[i]) => Settled(i, jobByID[i])'
    BY DEF Settled, JobOf
  <2>3. Pending(jobByID[i]) => Pending(jobByID[i])'
    BY <1>3 DEF Pending
  <2>4. QED
    BY <2>1, <2>2, <2>3 DEF Safe
<1>5. Replaced'
  BY DEF IInv, Replaced
<1>6. QED
  BY <1>1, <1>2, <1>4, <1>5 DEF IInv

LEMMA CallerKeeps ==
    ASSUME IInv, NEW c \in Callers, pc[c] \notin Writing,
           UNCHANGED <<made, entry, jobByID, db, fpc, todo, cur, batch>>,
           NEW label, pc' = [pc EXCEPT ![c] = label],
           NEW e \in 0 .. made, at' = [at EXCEPT ![c] = e] \/ at' = at
    PROVE  IInv'
<1>1. at' \in [Callers -> 0 .. made] /\ DOMAIN pc' = Callers
  BY DEF IInv, Shape
<1>2. \A d \in Callers : pc[d] \in Writing => pc'[d] = pc[d] /\ at'[d] = at[d]
  BY DEF IInv, Shape
<1>3. QED
  BY <1>1, <1>2, FrameKeeps

LEMMA StillKeeps ==
    ASSUME IInv, UNCHANGED <<made, entry, jobByID, pc, at, db, fpc, todo, cur, batch>>
    PROVE  IInv'
BY FrameKeeps DEF IInv, Shape

\* A caller steps through its operation, or begins one, without writing an entry.
LEMMA StepKeeps ==
    ASSUME IInv, NEW c \in Callers,
           \/ AddUnheap(c) \/ AddCount(c) \/ AddHeap(c) \/ RemoveUnheap(c)
           \/ \E i \in Ids : \/ \E t \in Times : UpdateNextTrigger(c, i, t)
                             \/ \E st \in {"run", "stop"} : UpdateStatus(c, i, st)
    PROVE  IInv'
<1>1. 0 \in 0 .. made
  BY StoreAssumption DEF IInv, Shape
<1>2. CASE AddUnheap(c)
  BY <1>1, <1>2, CallerKeeps DEF AddUnheap, Goto, storeVars, mapVars, flushVars, Writing
<1>3. CASE AddCount(c)
  BY <1>1, <1>3, CallerKeeps DEF AddCount, Goto, flushVars, Writing
<1>4. CASE AddHeap(c) \/ RemoveUnheap(c)
  BY <1>1, <1>4, CallerKeeps DEF AddHeap, RemoveUnheap, Return, Goto, flushVars, Writing
<1>5. ASSUME NEW i \in Ids, NEW label, NEW j, Update(c, label, i, j) PROVE IInv'
  <2>1. jobByID[i] \in 0 .. made
    BY DEF IInv, Shape
  <2>2. QED
    BY <2>1, <1>5, CallerKeeps
       DEF Update, Begin, Goto, storeVars, mapVars, flushVars, Writing
<1>6. CASE \E i \in Ids : \/ \E t \in Times : UpdateNextTrigger(c, i, t)
                          \/ \E st \in {"run", "stop"} : UpdateStatus(c, i, st)
  BY <1>5, <1>6 DEF UpdateNextTrigger, UpdateStatus
<1>7. QED
  BY <1>2, <1>3, <1>4, <1>6

\* A new entry is dirty, or it is what LoadAll has read from the table.
LEMMA InsertKeeps ==
    ASSUME IInv, NEW i \in Ids, NEW j, NEW d \in BOOLEAN, made < MaxEntries, made' = made + 1,
           entry' = [entry EXCEPT ![made + 1] = [id |-> i, job |-> j, dirty |-> d]],
           jobByID' = [jobByID EXCEPT ![i] = made + 1],
           UNCHANGED <<db, fpc, todo, cur, batch>>,
           DOMAIN pc' = Callers, at' \in [Callers -> 0 .. made'],
           \A c \in Callers : pc[c] \in Writing => pc'[c] = pc[c] /\ at'[c] = at[c],
           d \/ (batch = {} /\ db[i] = j /\ fpc = "off")
    PROVE  IInv'
<1> DEFINE new == [id |-> i, job |-> j, dirty |-> d]
<1>1. made \in Nat /\ MaxEntries \in Nat /\ made + 1 \in Entries
  BY StoreAssumption DEF IInv, Shape, Entries
<1>2. /\ DOMAIN entry' = Entries /\ entry'[made + 1] = new
      /\ \A e \in Entries : e # made + 1 => entry'[e] = entry[e]
  BY <1>1 DEF IInv, Shape
<1>3. IsEntry(new) /\ new.id = i /\ new.job = j /\ new.dirty = d
  BY DEF IsEntry
<1> HIDE DEF new
<1>4. jobByID' \in [Ids -> 0 .. made'] /\ jobByID'[i] = made + 1
      /\ \A k \in Ids \ {i} : jobByID'[k] = jobByID[k]
  BY <1>1 DEF IInv, Shape
<1>5. \A e \in 0 .. made : e # 0 => e \in Entries /\ entry'[e] = entry[e]
  BY <1>1, <1>2 DEF Entries
<1>6. Shape'
  <2>1. made' \in 0 .. MaxEntries /\ cur' \in 0 .. made' /\ DOMAIN db' = Ids
    BY <1>1 DEF IInv, Shape
  <2>2. \A e \in Entries : IsEntry(entry'[e])
    BY <1>2, <1>3 DEF IInv, Shape
  <2>3. \A k \in Ids : jobByID'[k] # 0 => entry'[jobByID'[k]].id = k
    BY <1>2, <1>3, <1>4, <1>5 DEF IInv, Shape
  <2>4. QED
    BY <2>1, <2>2, <2>3, <1>2, <1>4 DEF Shape
<1>7. Visits'
  BY <1>5 DEF IInv, Shape, Visits
<1>8. \A k \in Ids : k # i /\ jobByID[k] # 0 =>
         jobByID'[k] = jobByID[k] /\ entry'[jobByID[k]] = entry[jobByID[k]]
  BY <1>4, <1>5 DEF IInv, Shape
<1>9. Safe(i)'
  <2>1. entry'[jobByID'[i]] = new
    BY <1>2, <1>4
  <2>2. CASE d
    BY <2>1, <2>2, <1>3 DEF Safe
  <2>3. CASE batch = {} /\ db[i] = j
    BY <2>1, <2>3, <1>3 DEF Safe, Settled, JobOf
  <2>4. QED
    BY <2>2, <2>3
<1>10. ASSUME NEW k \in Ids, k # i, jobByID'[k] # 0 PROVE Safe(k)'
  <2>1. Safe(k) /\ jobByID'[k] = jobByID[k] /\ entry'[jobByID[k]] = entry[jobByID[k]]
    BY <1>4, <1>8, <1>10 DEF IInv, Current
  <2>2. Pending(jobByID[k]) => Pending(jobByID[k])'
    BY <2>1 DEF Pending
  <2>3. Settled(k, jobByID[k]) => Settled(k, jobByID[k])'
    BY <2>1 DEF Settled, JobOf
  <2>4. QED
    BY <2>1, <2>2, <2>3 DEF Safe
<1>11. Current'
  BY <1>9, <1>10 DEF Current
<1>12. Replaced'
  <2>1. cur # 0 => entry'[cur] = entry[cur] /\ fpc = "copy"
    BY <1>5 DEF IInv, Shape, Visits
  <2>2. cur # 0 => d
    BY <2>1
  <2>3. ASSUME cur # 0, NEW k \in Ids, entry[cur].id = k, jobByID'[k] \notin {0, cur}
        PROVE  entry'[jobByID'[k]].dirty
    <3>1. CASE k = i
      BY <2>2, <2>3, <3>1, <1>2, <1>3, <1>4
    <3>2. CASE k # i
      BY <2>3, <3>2, <1>4, <1>8 DEF IInv, Replaced
    <3>3. QED
      BY <3>1, <3>2
  <2>4. QED
    BY <2>1, <2>3 DEF Replaced
<1>13. QED
  BY <1>6, <1>7, <1>11, <1>12 DEF IInv

LEMMA LoadKeeps == ASSUME IInv, NEW i \in Ids, LoadAll(i) PROVE IInv'
<1>1. batch = {} /\ fpc = "off"
  BY DEF IInv, Visits, LoadAll
<1>2. made \in Nat /\ made < MaxEntries /\ made' = made + 1
  BY StoreAssumption DEF IInv, Shape, LoadAll
<1>3. UNCHANGED <<pc, at, db, fpc, todo, cur, batch>>
  BY DEF LoadAll, callerVars, flushVars
<1>4. DOMAIN pc' = Callers /\ at' \in [Callers -> 0 .. made']
  BY <1>2, <1>3 DEF IInv, Shape
<1>5. /\ entry' = [entry EXCEPT ![made + 1] = [id |-> i, job |-> db[i], dirty |-> FALSE]]
      /\ jobByID' = [jobByID EXCEPT ![i] = made + 1]
  BY DEF LoadAll
<1>6. QED
  BY <1>1, <1>2, <1>3, <1>4, <1>5, InsertKeeps

LEMMA AddKeeps ==
    ASSUME IInv, NEW c \in Callers, NEW i \in Ids, NEW j, Add(c, i, j) PROVE IInv'
<1>1. made \in Nat /\ made < MaxEntries /\ made' = made + 1
  BY StoreAssumption DEF IInv, Shape, Add
<1>2. UNCHANGED <<db, fpc, todo, cur, batch>>
  BY DEF Add, flushVars
<1>3. PICK label : pc' = [pc EXCEPT ![c] = label]
  BY DEF Add, Begin, Goto
<1>4. at' = [at EXCEPT ![c] = made + 1] /\ pc[c] = "idle"
  BY DEF Add, Begin
<1>5. DOMAIN pc' = Callers /\ at' \in [Callers -> 0 .. made']
  BY <1>1, <1>3, <1>4 DEF IInv, Shape
<1>6. \A d \in Callers : pc[d] \in Writing => pc'[d] = pc[d] /\ at'[d] = at[d]
  BY <1>3, <1>4 DEF Writing, IInv, Shape
<1>7. /\ entry' = [entry EXCEPT ![made + 1] = [id |-> i, job |-> j, dirty |-> TRUE]]
      /\ jobByID' = [jobByID EXCEPT ![i] = made + 1]
  BY DEF Add
<1>8. QED
  BY <1>1, <1>2, <1>5, <1>6, <1>7, InsertKeeps

LEMMA RemoveKeeps == ASSUME IInv, NEW c \in Callers, NEW i \in Ids, Remove(c, i) PROVE IInv'
<1>1. UNCHANGED <<made, entry, db, fpc, todo, cur, batch>>
  BY DEF Remove, flushVars
<1>2. jobByID' = [jobByID EXCEPT ![i] = 0] /\ pc[c] = "idle"
      /\ pc' = [pc EXCEPT ![c] = "remove"] /\ at' = [at EXCEPT ![c] = jobByID[i]]
  BY DEF Remove, Begin, Goto
<1>3. made \in Nat
  BY StoreAssumption DEF IInv, Shape
<1>4. Shape'
  BY <1>1, <1>2, <1>3 DEF IInv, Shape
<1>5. Visits'
  BY <1>1 DEF IInv, Visits
<1>6. ASSUME NEW k \in Ids, jobByID'[k] # 0 PROVE Safe(k)'
  <2>1. jobByID'[k] = jobByID[k] /\ Safe(k)
    BY <1>2, <1>6 DEF IInv, Shape, Current
  <2>2. Pending(jobByID[k]) => Pending(jobByID[k])'
    BY <1>2, <2>1 DEF Pending, Writing, IInv, Shape
  <2>3. Settled(k, jobByID[k]) => Settled(k, jobByID[k])'
    BY <1>1, <2>1 DEF Settled, JobOf
  <2>4. QED
    BY <1>1, <2>1, <2>2, <2>3 DEF Safe
<1>7. Replaced'
  BY <1>1, <1>2 DEF IInv, Shape, Replaced
<1>8. QED
  BY <1>4, <1>5, <1>6, <1>7 DEF IInv, Current
-----------------------------------------------------------------------------
\* Fields of an entry are written; its ID stays.
LEMMA WriteShape ==
    ASSUME Shape, Visits, UNCHANGED <<made, jobByID, fpc, todo, cur, batch>>, DOMAIN db' = Ids,
           DOMAIN pc' = Callers, at' \in [Callers -> 0 .. made], DOMAIN entry' = Entries,
           \A e \in Entries : IsEntry(entry'[e]) /\ entry'[e].id = entry[e].id
    PROVE  Shape' /\ Visits'
<1>1. \A e \in 0 .. made : e # 0 => e \in Entries
  BY StoreAssumption DEF Shape, Entries
<1>2. Shape'
  BY <1>1 DEF Shape
<1>3. Visits'
  BY <1>1 DEF Shape, Visits
<1>4. QED
  BY <1>2, <1>3

LEMMA WriteKeeps ==
    ASSUME IInv, NEW c \in Callers, NEW label, NEW next \in Writing, NEW j,
           WriteJob(c, label, next, j), label \notin Writing
    PROVE  IInv'
<1>1. UNCHANGED <<made, jobByID, at, db, fpc, todo, cur, batch>>
  BY DEF WriteJob, flushVars
<1>2. pc[c] \notin Writing /\ pc' = [pc EXCEPT ![c] = next]
      /\ entry' = [entry EXCEPT ![at[c]].job = j]
  BY DEF WriteJob, Goto
<1>3. /\ DOMAIN entry' = Entries
      /\ \A e \in Entries : e # at[c] => entry'[e] = entry[e]
      /\ at[c] \in Entries => entry'[at[c]] = [entry[at[c]] EXCEPT !.job = j]
  BY <1>2 DEF IInv, Shape
<1>4. ASSUME NEW e \in Entries
      PROVE  IsEntry(entry'[e]) /\ entry'[e].id = entry[e].id /\ entry'[e].dirty = entry[e].dirty
  <2>1. IsEntry(entry[e])
    BY DEF IInv, Shape
  <2>2. CASE e = at[c]
    <3> DEFINE new == [entry[e] EXCEPT !.job = j]
    <3>1. entry'[e] = new
      BY <2>2, <1>3
    <3>2. IsEntry(new) /\ new.id = entry[e].id /\ new.dirty = entry[e].dirty
      BY <2>1, Updates
    <3> HIDE DEF new
    <3>3. QED
      BY <3>1, <3>2
  <2>3. CASE e # at[c]
    BY <2>1, <2>3, <1>3
  <2>4. QED
    BY <2>2, <2>3
<1>5. DOMAIN pc' = Callers /\ at' \in [Callers -> 0 .. made] /\ DOMAIN db' = Ids
  BY <1>1, <1>2 DEF IInv, Shape
<1>6. Shape' /\ Visits'
  BY <1>1, <1>3, <1>4, <1>5, WriteShape DEF IInv
<1>7. ASSUME NEW i \in Ids, jobByID'[i] # 0 PROVE Safe(i)'
  <2>1. jobByID'[i] = jobByID[i] /\ jobByID[i] \in Entries /\ Safe(i)
    BY <1>1, <1>7, Numbers DEF IInv, Current
  <2>2. CASE jobByID[i] = at[c]
    <3>1. pc'[c] \in Writing /\ at'[c] = jobByID'[i]
      BY <1>1, <1>2, <2>1, <2>2 DEF IInv, Shape
    <3>2. QED
      BY <3>1 DEF Safe, Pending
  <2>3. CASE jobByID[i] # at[c]
    <3>1. entry'[jobByID[i]] = entry[jobByID[i]]
      BY <2>1, <2>3, <1>3
    <3>2. Pending(jobByID[i]) => Pending(jobByID[i])'
      BY <1>1, <1>2, <2>1 DEF Pending, IInv, Shape
    <3>3. Settled(i, jobByID[i]) => Settled(i, jobByID[i])'
      BY <1>1, <2>1, <3>1 DEF Settled, JobOf
    <3>4. QED
      BY <1>1, <2>1, <3>1, <3>2, <3>3 DEF Safe
  <2>4. QED
    BY <2>2, <2>3
<1>8. Replaced'
  BY <1>1, <1>4, Numbers DEF IInv, Replaced, Shape
<1>9. QED
  BY <1>6, <1>7, <1>8 DEF IInv, Current

LEMMA DirtyKeeps ==
    ASSUME IInv, NEW c \in Callers, NEW label, NEW newHeap, SetDirty(c, label, newHeap)
    PROVE  IInv'
<1>1. UNCHANGED <<made, jobByID, db, fpc, todo, cur, batch>>
  BY DEF SetDirty, flushVars
<1>2. pc' = [pc EXCEPT ![c] = "idle"] /\ at' = [at EXCEPT ![c] = 0]
      /\ entry' = [entry EXCEPT ![at[c]].dirty = TRUE]
  BY DEF SetDirty, Return, Goto
<1>3. /\ DOMAIN entry' = Entries
      /\ \A e \in Entries : e # at[c] => entry'[e] = entry[e]
      /\ at[c] \in Entries => entry'[at[c]] = [entry[at[c]] EXCEPT !.dirty = TRUE]
  BY <1>2 DEF IInv, Shape
<1>4. ASSUME NEW e \in Entries
      PROVE  /\ IsEntry(entry'[e]) /\ entry'[e].id = entry[e].id
             /\ e = at[c] \/ entry[e].dirty => entry'[e].dirty
  <2>1. IsEntry(entry[e])
    BY DEF IInv, Shape
  <2>2. CASE e = at[c]
    <3> DEFINE new == [entry[e] EXCEPT !.dirty = TRUE]
    <3>1. entry'[e] = new
      BY <2>2, <1>3
    <3>2. IsEntry(new) /\ new.id = entry[e].id /\ new.dirty = TRUE
      BY <2>1, Updates
    <3> HIDE DEF new
    <3>3. QED
      BY <3>1, <3>2
  <2>3. CASE e # at[c]
    BY <2>1, <2>3, <1>3
  <2>4. QED
    BY <2>2, <2>3
<1>5. DOMAIN pc' = Callers /\ at' \in [Callers -> 0 .. made] /\ DOMAIN db' = Ids
  BY <1>1, <1>2, Numbers DEF IInv, Shape
<1>6. Shape' /\ Visits'
  BY <1>1, <1>3, <1>4, <1>5, WriteShape DEF IInv
<1>7. ASSUME NEW i \in Ids, jobByID'[i] # 0 PROVE Safe(i)'
  <2>1. jobByID'[i] = jobByID[i] /\ jobByID[i] \in Entries /\ Safe(i)
    BY <1>1, <1>7, Numbers DEF IInv, Current
  <2>2. CASE jobByID[i] = at[c]
    BY <2>1, <2>2, <1>4 DEF Safe
  <2>3. CASE jobByID[i] # at[c]
    <3>1. entry'[jobByID[i]] = entry[jobByID[i]]
      BY <2>1, <2>3, <1>3
    <3>2. Pending(jobByID[i]) => Pending(jobByID[i])'
      BY <1>1, <1>2, <2>1, <2>3 DEF Pending, IInv, Shape
    <3>3. Settled(i, jobByID[i]) => Settled(i, jobByID[i])'
      BY <1>1, <2>1, <3>1 DEF Settled, JobOf
    <3>4. QED
      BY <1>1, <2>1, <3>1, <3>2, <3>3 DEF Safe
  <2>4. QED
    BY <2>2, <2>3
<1>8. Replaced'
  BY <1>1, <1>4, Numbers DEF IInv, Replaced, Shape
<1>9. QED
  BY <1>6, <1>7, <1>8 DEF IInv, Current
-----------------------------------------------------------------------------
LEMMA CASKeeps == ASSUME IInv, NEW i \in Ids, DrainCAS(i) PROVE IInv'
<1> DEFINE e == jobByID[i]
<1>1. UNCHANGED <<made, jobByID, pc, at, db, batch>> /\ todo' = todo \ {i} /\ fpc = "drain"
      /\ i \in todo /\ cur = 0
  BY DEF DrainCAS, mapVars, callerVars, IInv, Visits
<1>2. \A k \in Ids : jobByID[k] # 0 => jobByID[k] \in Entries /\ entry[jobByID[k]].id = k
  BY Numbers DEF IInv, Shape
<1>3. CASE UNCHANGED <<entry, cur, fpc>>
  <2>1. Shape' /\ Visits' /\ Replaced'
    BY <1>1, <1>3 DEF IInv, Shape, Visits, Replaced
  <2>2. ASSUME NEW k \in Ids, jobByID'[k] # 0 PROVE Safe(k)'
    BY <1>1, <1>3, <2>2 DEF IInv, Current, Safe, Settled, JobOf, Pending
  <2>3. QED
    BY <2>1, <2>2 DEF IInv, Current
<1>4. CASE /\ e # 0 /\ entry' = [entry EXCEPT ![e].dirty = FALSE]
           /\ cur' = e /\ fpc' = "copy"
  <2>1. e \in Entries /\ e \in 0 .. made
    BY <1>2, <1>4 DEF IInv, Shape
  <2>2. /\ DOMAIN entry' = Entries /\ entry'[e] = [entry[e] EXCEPT !.dirty = FALSE]
        /\ \A x \in Entries : x # e => entry'[x] = entry[x]
    BY <1>4, <2>1 DEF IInv, Shape
  <2> HIDE DEF e
  <2>3. ASSUME NEW x \in Entries PROVE IsEntry(entry'[x]) /\ entry'[x].id = entry[x].id
    <3>1. IsEntry(entry[x])
      BY DEF IInv, Shape
    <3>2. CASE x = e
      <4> DEFINE new == [entry[x] EXCEPT !.dirty = FALSE]
      <4>1. entry'[x] = new
        BY <3>2, <2>2
      <4>2. IsEntry(new) /\ new.id = entry[x].id
        BY <3>1, Updates
      <4> HIDE DEF new
      <4>3. QED
        BY <4>1, <4>2
    <3>3. CASE x # e
      BY <3>1, <3>3, <2>2
    <3>4. QED
      BY <3>2, <3>3
  <2>4. Shape'
    BY <1>1, <1>2, <1>4, <2>1, <2>2, <2>3 DEF IInv, Shape
  <2>5. entry'[e].id = i /\ e = jobByID[i]
    BY <1>2, <1>4, <2>1, <2>3 DEF e
  <2>6. Visits'
    BY <1>1, <1>4, <2>5 DEF IInv, Visits
  <2>7. ASSUME NEW k \in Ids, jobByID'[k] # 0 PROVE Safe(k)'
    <3>1. CASE jobByID[k] = e
      BY <1>1, <1>4, <3>1 DEF Safe
    <3>2. CASE jobByID[k] # e
      <4>1. entry'[jobByID[k]] = entry[jobByID[k]] /\ Safe(k) /\ jobByID'[k] = jobByID[k]
        BY <1>1, <1>2, <2>2, <2>7, <3>2 DEF IInv, Current
      <4>2. cur # jobByID[k]
        BY <1>1, <2>7
      <4>3. QED
        BY <1>1, <4>1, <4>2 DEF Safe, Settled, JobOf, Pending
    <3>3. QED
      BY <3>1, <3>2
  <2>8. Replaced'
    BY <1>1, <1>4, <2>5 DEF Replaced
  <2>9. QED
    BY <2>4, <2>6, <2>7, <2>8 DEF IInv, Current
<1>5. QED
  BY <1>3, <1>4 DEF DrainCAS

LEMMA CopyKeeps == ASSUME IInv, DrainCopy PROVE IInv'
<1> DEFINE b == [id |-> entry[cur].id, job |-> JobOf(cur)]
<1>1. UNCHANGED <<made, entry, jobByID, pc, at, db, todo>> /\ cur' = 0 /\ fpc' = "drain"
      /\ fpc = "copy" /\ batch' = batch \cup {b}
  BY DEF DrainCopy, storeVars, mapVars, callerVars
<1>2. cur # 0 /\ entry[cur].id \notin todo /\ \A d \in batch : d.id # entry[cur].id
  BY <1>1 DEF IInv, Visits
<1>3. b = [id |-> b.id, job |-> b.job] /\ b.id = entry[cur].id /\ b.job = JobOf(cur)
  OBVIOUS
<1> HIDE DEF b
<1>4. Shape' /\ Replaced'
  BY <1>1, Numbers DEF IInv, Shape, Replaced
<1>5. Visits'
  BY <1>1, <1>2, <1>3 DEF IInv, Visits
<1>6. ASSUME NEW i \in Ids, jobByID'[i] # 0 PROVE Safe(i)'
  <2>1. entry[jobByID[i]].id = i /\ jobByID'[i] = jobByID[i] /\ Safe(i)
    BY <1>1, <1>6 DEF IInv, Shape, Current
  <2>2. CASE cur = jobByID[i]
    <3>1. b = [id |-> i, job |-> JobOf(jobByID[i])]
      BY <2>1, <2>2, <1>3
    <3>2. \A d \in batch' : d.id = i => d.job = JobOf(jobByID[i])
      BY <2>1, <2>2, <1>1, <1>2, <1>3
    <3>3. QED
      BY <3>1, <3>2, <2>1, <1>1 DEF Safe, Settled, JobOf
  <2>3. CASE cur # jobByID[i] /\ entry[cur].id = i
    BY <2>1, <2>3, <1>1, <1>2, <1>6 DEF IInv, Replaced, Safe
  <2>4. CASE cur # jobByID[i] /\ entry[cur].id # i
    <3>1. Settled(i, jobByID[i]) => Settled(i, jobByID[i])'
      BY <2>1, <2>4, <1>1, <1>3 DEF Settled, JobOf
    <3>2. Pending(jobByID[i]) => Pending(jobByID[i])'
      BY <2>1, <1>1 DEF Pending
    <3>3. QED
      BY <1>1, <2>1, <2>4, <3>1, <3>2 DEF Safe
  <2>5. QED
    BY <2>2, <2>3, <2>4
<1>7. QED
  BY <1>4, <1>5, <1>6 DEF IInv, Current

\* The start and the end of a flush.
LEMMA TurnKeeps ==
    ASSUME IInv, FlushStart \/ DrainEnd \/ FlushEnd \/ StartFlushLoop PROVE IInv'
<1>1. UNCHANGED <<made, entry, jobByID, pc, at, db, cur, batch>>
  BY DEF FlushStart, DrainEnd, FlushEnd, StartFlushLoop, storeVars, mapVars, callerVars
<1>2. Shape' /\ Replaced'
  BY <1>1 DEF IInv, Shape, Replaced
<1>3. Visits'
  <2>1. CASE FlushStart \/ FlushEnd
    BY <1>1, <2>1 DEF FlushStart, FlushEnd, IInv, Visits
  <2>2. CASE DrainEnd \/ StartFlushLoop
    BY <1>1, <2>2 DEF DrainEnd, StartFlushLoop, IInv, Visits
  <2>3. QED
    BY <2>1, <2>2
<1>4. ASSUME NEW k \in Ids, jobByID'[k] # 0 PROVE Safe(k)'
  BY <1>1, <1>4 DEF IInv, Current, Safe, Settled, JobOf, Pending
<1>5. QED
  BY <1>2, <1>3, <1>4 DEF IInv, Current

LEMMA FlushJobKeeps == ASSUME IInv, NEW b \in batch, FlushJob(b) PROVE IInv'
<1>1. UNCHANGED <<made, entry, jobByID, pc, at, fpc, todo, cur>> /\ fpc = "write"
      /\ batch' = batch \ {b} /\ db' = [db EXCEPT ![b.id] = b.job]
  BY DEF FlushJob, storeVars, mapVars, callerVars
<1>2. Shape' /\ Replaced'
  BY <1>1 DEF IInv, Shape, Replaced
<1>3. Visits'
  BY <1>1 DEF IInv, Visits
<1>4. ASSUME NEW k \in Ids, jobByID'[k] # 0 PROVE Safe(k)'
  <2>1. Safe(k) /\ jobByID'[k] = jobByID[k]
    BY <1>1, <1>4 DEF IInv, Current
  <2>2. Pending(jobByID[k]) => Pending(jobByID[k])'
    BY <1>1, <2>1 DEF Pending
  <2>3. ASSUME Settled(k, jobByID[k]) PROVE Settled(k, jobByID[k])'
    <3>1. \A d \in batch' : d.id = k => d.job = JobOf(jobByID[k])
      BY <1>1, <2>3 DEF Settled
    <3>2. CASE b.id = k
      <4>1. db'[k] = JobOf(jobByID[k])
        BY <1>1, <2>3, <3>2 DEF Settled, IInv, Shape
      <4>2. QED
        BY <1>1, <2>1, <3>1, <4>1 DEF Settled, JobOf
    <3>3. CASE b.id # k
      <4>1. db'[k] = db[k]
        BY <1>1, <3>3 DEF IInv, Shape
      <4>2. [id |-> k, job |-> JobOf(jobByID[k])] # b
        BY <3>3
      <4>3. QED
        BY <1>1, <2>1, <2>3, <3>1, <4>1, <4>2 DEF Settled, JobOf
    <3>4. QED
      BY <3>2, <3>3
  <2>4. QED
    BY <1>1, <2>1, <2>2, <2>3 DEF Safe
<1>5. QED
  BY <1>2, <1>3, <1>4 DEF IInv, Current

LEMMA FlushFailKeeps == ASSUME IInv, NEW b \in batch, FlushFail(b) PROVE IInv'
<1>1. UNCHANGED <<made, jobByID, pc, at, db, fpc, todo, cur>> /\ batch' = batch \ {b}
      /\ fpc = "write"
      /\ entry' = [e \in Entries |-> IF e = jobByID[b.id] THEN [entry[e] EXCEPT !.dirty = TRUE]
                                                          ELSE entry[e]]
  BY DEF FlushFail, mapVars, callerVars
<1>2. ASSUME NEW e \in Entries
      PROVE  /\ IsEntry(entry'[e]) /\ entry'[e].id = entry[e].id /\ entry'[e].job = entry[e].job
             /\ e = jobByID[b.id] \/ entry[e].dirty => entry'[e].dirty
  <2>1. IsEntry(entry[e])
    BY DEF IInv, Shape
  <2>2. CASE e = jobByID[b.id]
    BY <2>1, <2>2, <1>1, Updates
  <2>3. CASE e # jobByID[b.id]
    BY <2>1, <2>3, <1>1
  <2>4. QED
    BY <2>2, <2>3
<1>3. cur = 0
  BY <1>1 DEF IInv, Visits
<1>4. Shape'
  BY <1>1, <1>2, Numbers DEF IInv, Shape
<1>5. Visits' /\ Replaced'
  BY <1>1, <1>3 DEF IInv, Visits, Replaced
<1>6. ASSUME NEW k \in Ids, jobByID'[k] # 0 PROVE Safe(k)'
  <2>1. Safe(k) /\ jobByID'[k] = jobByID[k] /\ jobByID[k] \in Entries
    BY <1>1, <1>6, Numbers DEF IInv, Current
  <2>2. CASE b.id = k
    BY <2>1, <2>2, <1>2 DEF Safe
  <2>3. CASE b.id # k
    <3>1. entry'[jobByID[k]].job = entry[jobByID[k]].job
          /\ (entry[jobByID[k]].dirty => entry'[jobByID[k]].dirty)
      BY <1>2, <2>1
    <3>2. [id |-> k, job |-> JobOf(jobByID[k])] # b
      BY <2>3
    <3>3. Settled(k, jobByID[k]) => Settled(k, jobByID[k])'
      BY <1>1, <2>1, <3>1, <3>2 DEF Settled, JobOf
    <3>4. Pending(jobByID[k]) => Pending(jobByID[k])'
      BY <1>1, <2>1 DEF Pending
    <3>5. QED
      BY <1>1, <2>1, <3>1, <3>3, <3>4 DEF Safe
  <2>4. QED
    BY <2>2, <2>3
<1>7. QED
  BY <1>4, <1>5, <1>6 DEF IInv, Current
-----------------------------------------------------------------------------
LEMMA NextKeeps == ASSUME IInv, [Next]_vars PROVE IInv'
<1>1. ASSUME NEW c \in Callers, CallerStep(c) PROVE IInv'
  <2>1. CASE AddUnheap(c) \/ AddCount(c) \/ AddHeap(c) \/ RemoveUnheap(c)
    BY <2>1, StepKeeps
  <2>2. CASE WriteNext(c) \/ WriteStatus(c)
    BY <2>2, WriteKeeps DEF WriteNext, WriteStatus, Writing
  <2>3. CASE DirtyNext(c) \/ DirtyStatus(c)
    BY <2>3, DirtyKeeps DEF DirtyNext, DirtyStatus
  <2>4. QED
    BY <1>1, <2>1, <2>2, <2>3 DEF CallerStep
<1>2. ASSUME NEW c \in Callers, NEW i \in Ids, Call(c, i) PROVE IInv'
  <2>1. CASE \E j \in Job : Add(c, i, j)
    BY <2>1, AddKeeps
  <2>2. CASE Remove(c, i)
    BY <2>2, RemoveKeeps
  <2>3. CASE \/ \E t \in Times : UpdateNextTrigger(c, i, t)
             \/ \E st \in {"run", "stop"} : UpdateStatus(c, i, st)
    BY <2>3, StepKeeps
  <2>4. QED
    BY <1>2, <2>1, <2>2, <2>3 DEF Call
<1>3. ASSUME NEW c \in Callers, NEW t \in Times, PopDue(c, t) \/ PeekDue(c, t) PROVE IInv'
  BY <1>3, StillKeeps DEF PopDue, PeekDue, callerVars, flushVars
<1>4. CASE FlushStep
  <2>1. CASE Cancel
    BY <2>1, StillKeeps DEF Cancel, storeVars, mapVars, callerVars
  <2>2. CASE FlushStart \/ DrainEnd \/ FlushEnd
    BY <2>2, TurnKeeps
  <2>3. CASE DrainCopy \/ \E i \in Ids : DrainCAS(i)
    BY <2>3, CopyKeeps, CASKeeps
  <2>4. CASE \E b \in batch : FlushJob(b) \/ FlushFail(b)
    BY <2>4, FlushJobKeeps, FlushFailKeeps
  <2>5. QED
    BY <1>4, <2>1, <2>2, <2>3, <2>4 DEF FlushStep
<1>5. CASE StartFlushLoop \/ \E i \in Ids : LoadAll(i)
  BY <1>5, TurnKeeps, LoadKeeps
<1>6. CASE UNCHANGED vars
  BY <1>6, StillKeeps DEF vars, storeVars, mapVars, callerVars, flushVars
<1>7. QED
  BY <1>1, <1>2, <1>3, <1>4, <1>5, <1>6 DEF Next

LEMMA Invariant == Spec => []IInv
<1>1. Init => IInv
  BY Initially
<1>2. IInv /\ [Next]_vars => IInv'
  BY NextKeeps
<1>3. QED
  BY <1>1, <1>2, PTL DEF Spec

\* No update is lost by the flush loop, however callers and the copies interleave and whichever
\* writes of rows fail.
THEOREM FlushLosesNothing == Spec => []CleanIsStored
<1>1. IInv => CleanIsStored
  BY DEF IInv, Current, Safe, Settled, Pending, Writing, CleanIsStored
<1>2. QED
  BY <1>1, Invariant, PTL
-----------------------------------------------------------------------------
(* The indexes *)

Counting == {c \in Callers : pc[c] = "addCount"}
Removing == {c \in Callers : pc[c] = "remove"}

\* The count is of the jobs in the map, but for the callers that have changed the map and
\* not yet the count.
Counted ==
    /\ IsFiniteSet(Present) /\ IsFiniteSet(Counting) /\ IsFiniteSet(Removing)
    /\ count = Cardinality(Present) - Cardinality(Counting) + Cardinality(Removing)

\* A caller that moves on from one step to another.
LEMMA CallerMoves ==
    ASSUME TypeOK, NEW c \in Callers, NEW label, pc' = [pc EXCEPT ![c] = label]
    PROVE  /\ label = "addCount" => Counting' = Counting \cup {c}
           /\ label # "addCount" => Counting' = Counting \ {c}
           /\ label # "addCount" /\ c \notin Counting => Counting' = Counting
           /\ label = "remove" => Removing' = Removing \cup {c}
           /\ label # "remove" => Removing' = Removing \ {c}
           /\ label # "remove" /\ c \notin Removing => Removing' = Removing
BY DEF TypeOK, Counting, Removing

LEMMA CountedStep == ASSUME TypeOK, Counted, [Next]_vars PROVE Counted'
<1>1. /\ IsFiniteSet(Present) /\ IsFiniteSet(Counting) /\ IsFiniteSet(Removing)
      /\ Cardinality(Present) \in Int /\ Cardinality(Counting) \in Int
      /\ Cardinality(Removing) \in Int /\ count \in Int
      /\ count = Cardinality(Present) - Cardinality(Counting) + Cardinality(Removing)
  BY FS_CardinalityType DEF Counted, TypeOK
<1>2. ASSUME UNCHANGED <<jobByID, count>>,
             \/ pc' = pc
             \/ \E c \in Callers, label \in {"idle", "addHeap", "next", "nextDirty", "status", "statusDirty"} :
                  pc[c] \notin {"addCount", "remove"} /\ pc' = [pc EXCEPT ![c] = label]
      PROVE  Counted'
  <2>1. Counting' = Counting /\ Removing' = Removing
    <3>1. CASE pc' = pc
      BY <3>1 DEF Counting, Removing
    <3>2. ASSUME NEW c \in Callers, pc[c] \notin {"addCount", "remove"},
                 NEW label \in {"idle", "addHeap", "next", "nextDirty", "status", "statusDirty"},
                 pc' = [pc EXCEPT ![c] = label]
          PROVE  Counting' = Counting /\ Removing' = Removing
      BY <3>2, CallerMoves DEF Counting, Removing
    <3>3. QED
      BY <1>2, <3>1, <3>2
  <2>2. Present' = Present
    BY <1>2 DEF Present
  <2>3. QED
    BY <1>1, <1>2, <2>1, <2>2 DEF Counted
<1>3. ASSUME NEW c \in Callers, CallerStep(c) PROVE Counted'
  <2>1. CASE AddCount(c)
    <3>1. /\ c \in Counting /\ c \notin Removing /\ Present' = Present /\ count' = count + 1
          /\ pc' = [pc EXCEPT ![c] = "addHeap"]
      BY <2>1 DEF AddCount, Goto, Counting, Removing, Present
    <3>2. Counting' = Counting \ {c} /\ Removing' = Removing
      <4> DEFINE label == "addHeap"
      <4>1. pc' = [pc EXCEPT ![c] = label] /\ label # "addCount" /\ label # "remove"
        BY <3>1
      <4> HIDE DEF label
      <4>2. QED
        BY <3>1, <4>1, CallerMoves
    <3>3. IsFiniteSet(Counting') /\ Cardinality(Counting') = Cardinality(Counting) - 1
      BY <1>1, <3>1, <3>2, FS_RemoveElement
    <3>4. QED
      BY <1>1, <3>1, <3>2, <3>3 DEF Counted
  <2>2. CASE RemoveUnheap(c)
    <3>1. /\ c \in Removing /\ c \notin Counting /\ Present' = Present /\ count' = count - 1
          /\ pc' = [pc EXCEPT ![c] = "idle"]
      BY <2>2 DEF RemoveUnheap, Return, Goto, Counting, Removing, Present
    <3>2. Removing' = Removing \ {c} /\ Counting' = Counting
      BY <3>1, CallerMoves
    <3>3. IsFiniteSet(Removing') /\ Cardinality(Removing') = Cardinality(Removing) - 1
      BY <1>1, <3>1, <3>2, FS_RemoveElement
    <3>4. QED
      BY <1>1, <3>1, <3>2, <3>3 DEF Counted
  <2>3. CASE AddUnheap(c) \/ AddHeap(c) \/ WriteNext(c) \/ WriteStatus(c) \/ DirtyNext(c)
             \/ DirtyStatus(c)
    BY <1>2, <2>3 DEF AddUnheap, AddHeap, WriteNext, WriteStatus, DirtyNext, DirtyStatus,
                      WriteJob, SetDirty, Return, Goto
  <2>4. QED
    BY <1>3, <2>1, <2>2, <2>3 DEF CallerStep
<1>4. ASSUME NEW c \in Callers, NEW i \in Ids, Call(c, i) PROVE Counted'
  <2>1. ASSUME NEW j \in Job, Add(c, i, j) PROVE Counted'
    <3>1. /\ count' = count /\ pc[c] = "idle" /\ jobByID' = [jobByID EXCEPT ![i] = made + 1]
          /\ pc' = [pc EXCEPT ![c] = IF jobByID[i] = 0 THEN "addCount" ELSE "addUnheap"]
      BY <2>1 DEF Add, Begin, Goto
    <3>2. Present' = Present \cup {i}
      BY <3>1 DEF Present, TypeOK, Ref
    <3>3. c \notin Counting /\ c \notin Removing
      BY <3>1 DEF Counting, Removing
    <3>4. CASE jobByID[i] = 0
      <4>1. Counting' = Counting \cup {c} /\ Removing' = Removing /\ i \notin Present
        BY <3>1, <3>3, <3>4, CallerMoves DEF Present
      <4>2. /\ IsFiniteSet(Present') /\ Cardinality(Present') = Cardinality(Present) + 1
            /\ IsFiniteSet(Counting') /\ Cardinality(Counting') = Cardinality(Counting) + 1
        BY <1>1, <3>2, <3>3, <4>1, FS_AddElement
      <4>3. QED
        BY <1>1, <3>1, <4>1, <4>2 DEF Counted
    <3>5. CASE jobByID[i] # 0
      <4>1. Present' = Present
        <5>1. i \in Present
          BY <3>5 DEF Present
        <5>2. QED
          BY <3>2, <5>1
      <4>2. Counting' = Counting /\ Removing' = Removing
        <5> DEFINE label == "addUnheap"
        <5>1. pc' = [pc EXCEPT ![c] = label] /\ label # "addCount" /\ label # "remove"
          BY <3>1, <3>5
        <5> HIDE DEF label
        <5>2. QED
          BY <3>3, <5>1, CallerMoves
      <4>3. QED
        BY <1>1, <3>1, <4>1, <4>2 DEF Counted
    <3>6. QED
      BY <3>4, <3>5
  <2>2. CASE Remove(c, i)
    <3>1. /\ count' = count /\ pc[c] = "idle" /\ jobByID' = [jobByID EXCEPT ![i] = 0]
          /\ i \in Present /\ pc' = [pc EXCEPT ![c] = "remove"]
      BY <2>2 DEF Remove, Begin, Goto, Present
    <3>2. Present' = Present \ {i}
      BY <3>1 DEF Present, TypeOK
    <3>3. Counting' = Counting /\ Removing' = Removing \cup {c} /\ c \notin Removing
      BY <3>1, CallerMoves DEF Counting, Removing
    <3>4. /\ IsFiniteSet(Present') /\ Cardinality(Present') = Cardinality(Present) - 1
          /\ IsFiniteSet(Removing') /\ Cardinality(Removing') = Cardinality(Removing) + 1
      BY <1>1, <3>1, <3>2, <3>3, FS_RemoveElement, FS_AddElement
    <3>5. QED
      BY <1>1, <3>1, <3>3, <3>4 DEF Counted
  <2>3. CASE \/ \E t \in Times : UpdateNextTrigger(c, i, t)
             \/ \E st \in {"run", "stop"} : UpdateStatus(c, i, st)
    BY <1>2, <2>3 DEF UpdateNextTrigger, UpdateStatus, Update, Begin, Goto, storeVars, mapVars
  <2>4. QED
    BY <1>4, <2>1, <2>2, <2>3 DEF Call
<1>5. ASSUME NEW i \in Ids, LoadAll(i) PROVE Counted'
  <2>1. /\ count' = count + 1 /\ pc' = pc /\ jobByID' = [jobByID EXCEPT ![i] = made + 1]
        /\ i \notin Present
    BY <1>5 DEF LoadAll, callerVars, Present
  <2>2. Present' = Present \cup {i} /\ Counting' = Counting /\ Removing' = Removing
    BY <2>1 DEF Present, Counting, Removing, TypeOK, Ref
  <2>3. IsFiniteSet(Present') /\ Cardinality(Present') = Cardinality(Present) + 1
    BY <1>1, <2>1, <2>2, FS_AddElement
  <2>4. QED
    BY <1>1, <2>1, <2>2, <2>3 DEF Counted
<1>6. ASSUME NEW c \in Callers, NEW t \in Times, PopDue(c, t) \/ PeekDue(c, t) PROVE Counted'
  BY <1>2, <1>6 DEF PopDue, PeekDue, callerVars
<1>7. CASE FlushStep \/ StartFlushLoop
  BY <1>2, <1>7 DEF FlushStep, StartFlushLoop, Cancel, FlushStart, DrainCopy, DrainEnd, FlushEnd,
                    DrainCAS, FlushJob, FlushFail, storeVars, mapVars, callerVars
<1>8. CASE UNCHANGED vars
  BY <1>2, <1>8 DEF vars, storeVars, mapVars, callerVars
<1>9. QED
  BY <1>3, <1>4, <1>5, <1>6, <1>7, <1>8 DEF Next

Adding == {"addUnheap", "addCount", "addHeap"}
Updating == {"next", "nextDirty", "status", "statusDirty"}

\* An entry that belongs in the heap, but for its trigger time; and one that caller c is
\* about to take out.
Right(e) == jobByID[entry[e].id] = e /\ JobOf(e).status = "run"
Excused(c, e) ==
    \/ pc[c] = "addUnheap" /\ old[c] = e
    \/ pc[c] \in {"remove", "statusDirty"} /\ at[c] = e

\* What the caller knows of its entry, as long as nobody else interferes.
Working(c) ==
    /\ pc[c] \in Adding \cup Updating => jobByID[entry[at[c]].id] = at[c]
    /\ pc[c] \in Adding => JobOf(at[c]) = arg[c]
    /\ pc[c] = "statusDirty" => JobOf(at[c]).status = arg[c].status

HeapIsRight == \A e \in heap : Right(e) \/ \E c \in Callers : Excused(c, e)

Orderly ==
    /\ heap \subseteq 1 .. made
    /\ ~overlap =>
         /\ \A c, d \in Callers : pc[c] # "idle" /\ pc[d] # "idle" => c = d
         /\ \A c \in Callers : Working(c)
         /\ HeapIsRight

\* What the earlier invariants give.
LEMMA Filed ==
    ASSUME TypeOK, Busy, IInv
    PROVE  /\ made \in Nat /\ MaxEntries \in Nat
           /\ \A e \in 1 .. made : e \in Entries /\ e # 0 /\ entry[e].id \in Ids
           /\ \A i \in Ids : jobByID[i] # 0 => jobByID[i] \in 1 .. made /\ entry[jobByID[i]].id = i
           /\ \A c \in Callers : pc[c] # "idle" => at[c] \in 1 .. made
           /\ \A c \in Callers : at[c] \in 0 .. made
BY BoundsAreNatural DEF TypeOK, Busy, IInv, Shape, Entries, Ref

\* A caller that is not idle is alone, and moves on.
LEMMA OneCaller ==
    ASSUME TypeOK, Orderly, ~overlap, overlap' = overlap, NEW c \in Callers, pc[c] # "idle",
           NEW label, pc' = [pc EXCEPT ![c] = label], heap' \subseteq 1 .. made',
           Working(c)',
           \A e \in heap' : Right(e)' \/ Excused(c, e)'
    PROVE  Orderly'
<1>1. \A d \in Callers \ {c} : pc'[d] = "idle"
  BY DEF Orderly, TypeOK
<1>2. \A a, b \in Callers : pc'[a] # "idle" /\ pc'[b] # "idle" => a = b
  BY <1>1
<1>3. \A d \in Callers : Working(d)'
  BY <1>1 DEF Working, Adding, Updating
<1>4. HeapIsRight'
  BY DEF HeapIsRight
<1>5. QED
  BY <1>2, <1>3, <1>4 DEF Orderly

\* A caller that begins, or peeks, while all are idle.
LEMMA AllWereIdle ==
    ASSUME Orderly, NEW c \in Callers, pc[c] = "idle", Overlap(c), ~overlap'
    PROVE  /\ ~overlap /\ \A d \in Callers : pc[d] = "idle"
           /\ \A e \in heap : Right(e)
<1>1. ~overlap /\ \A d \in Callers : pc[d] = "idle"
  BY DEF Overlap
<1>2. \A e \in heap : Right(e)
  BY <1>1 DEF Orderly, HeapIsRight, Excused
<1>3. QED
  BY <1>1, <1>2

LEMMA Begins ==
    ASSUME TypeOK, Orderly, NEW c \in Callers, pc[c] = "idle", Overlap(c),
           NEW label, pc' = [pc EXCEPT ![c] = label], heap' \subseteq 1 .. made',
           ~overlap' => Working(c)',
           ~overlap' => \A e \in heap' : Right(e)' \/ Excused(c, e)'
    PROVE  Orderly'
<1> SUFFICES ASSUME ~overlap' PROVE Orderly'
  BY DEF Orderly
<1>1. \A d \in Callers \ {c} : pc'[d] = "idle"
  BY AllWereIdle DEF TypeOK
<1>2. \A a, b \in Callers : pc'[a] # "idle" /\ pc'[b] # "idle" => a = b
  BY <1>1
<1>3. \A d \in Callers : Working(d)'
  BY <1>1 DEF Working, Adding, Updating
<1>4. HeapIsRight'
  BY DEF HeapIsRight
<1>5. QED
  BY <1>2, <1>3, <1>4 DEF Orderly

LEMMA CallOrderly ==
    ASSUME TypeOK, Busy, IInv, Orderly, NEW c \in Callers, NEW i \in Ids, Call(c, i)
    PROVE  Orderly'
<1>1. ASSUME NEW j \in Job, Add(c, i, j) PROVE Orderly'
  <2> DEFINE new == [id |-> i, job |-> j, dirty |-> TRUE]
  <2>1. /\ made' = made + 1 /\ made + 1 \in Entries /\ heap' = heap /\ pc[c] = "idle" /\ Overlap(c)
        /\ entry' = [entry EXCEPT ![made + 1] = new]
        /\ jobByID' = [jobByID EXCEPT ![i] = made + 1]
        /\ old' = [old EXCEPT ![c] = jobByID[i]] /\ at' = [at EXCEPT ![c] = made + 1]
        /\ arg' = [arg EXCEPT ![c] = j]
        /\ pc' = [pc EXCEPT ![c] = IF jobByID[i] = 0 THEN "addCount" ELSE "addUnheap"]
    BY <1>1, Filed DEF Add, Begin, Goto, Entries
  <2>2. /\ entry'[made + 1] = new /\ new.id = i /\ new.job = j
        /\ \A e \in Entries : e # made + 1 => entry'[e] = entry[e]
        /\ jobByID'[i] = made + 1 /\ \A k \in Ids \ {i} : jobByID'[k] = jobByID[k]
        /\ old'[c] = jobByID[i] /\ at'[c] = made + 1 /\ arg'[c] = j
        /\ pc'[c] = IF jobByID[i] = 0 THEN "addCount" ELSE "addUnheap"
    BY <2>1 DEF TypeOK
  <2> HIDE DEF new
  <2>3. heap' \subseteq 1 .. made'
    BY <2>1, Filed DEF Orderly
  <2>4. Working(c)'
    BY <2>2 DEF Working, JobOf, Adding, Updating
  <2>5. ASSUME ~overlap', NEW e \in heap' PROVE Right(e)' \/ Excused(c, e)'
    <3>1. e \in heap /\ Right(e) /\ e \in 1 .. made
      BY <2>1, <2>5, AllWereIdle DEF Orderly
    <3>2. entry'[e] = entry[e] /\ e \in Entries /\ entry[e].id \in Ids /\ e # 0
      BY <2>2, <3>1, Filed
    <3>3. CASE entry[e].id = i
      BY <2>2, <3>1, <3>2, <3>3 DEF Right, Excused
    <3>4. CASE entry[e].id # i
      BY <2>2, <3>1, <3>2, <3>4 DEF Right, JobOf
    <3>5. QED
      BY <3>3, <3>4
  <2>6. QED
    BY <2>1, <2>3, <2>4, <2>5, Begins
<1>2. CASE Remove(c, i)
  <2>1. /\ made' = made /\ heap' = heap /\ pc[c] = "idle" /\ Overlap(c) /\ entry' = entry
        /\ jobByID' = [jobByID EXCEPT ![i] = 0] /\ at' = [at EXCEPT ![c] = jobByID[i]]
        /\ pc' = [pc EXCEPT ![c] = "remove"]
    BY <1>2 DEF Remove, Begin, Goto
  <2>2. /\ pc'[c] = "remove" /\ at'[c] = jobByID[i]
        /\ \A k \in Ids \ {i} : jobByID'[k] = jobByID[k]
    BY <2>1 DEF TypeOK
  <2>3. Working(c)'
    BY <2>2 DEF Working, Adding, Updating
  <2>4. ASSUME ~overlap', NEW e \in heap' PROVE Right(e)' \/ Excused(c, e)'
    <3>1. e \in heap /\ Right(e) /\ e \in 1 .. made
      BY <2>1, <2>4, AllWereIdle DEF Orderly
    <3>2. entry[e].id \in Ids
      BY <3>1, Filed
    <3>3. QED
      BY <2>1, <2>2, <3>1, <3>2 DEF Right, Excused, JobOf
  <2>5. heap' \subseteq 1 .. made'
    BY <2>1 DEF Orderly
  <2>6. QED
    BY <2>1, <2>3, <2>4, <2>5, Begins
<1>3. ASSUME NEW label \in {"next", "status"}, NEW j, Update(c, label, i, j) PROVE Orderly'
  <2>1. /\ made' = made /\ heap' = heap /\ pc[c] = "idle" /\ Overlap(c) /\ entry' = entry
        /\ jobByID' = jobByID /\ at' = [at EXCEPT ![c] = jobByID[i]]
        /\ pc' = [pc EXCEPT ![c] = label] /\ jobByID[i] # 0
    BY <1>3 DEF Update, Begin, Goto, storeVars, mapVars
  <2>2. pc'[c] = label /\ at'[c] = jobByID[i] /\ entry[jobByID[i]].id = i
    BY <2>1, Filed DEF TypeOK
  <2>3. Working(c)'
    BY <2>1, <2>2 DEF Working, Adding, Updating
  <2>4. ASSUME ~overlap', NEW e \in heap' PROVE Right(e)'
    <3>1. e \in heap /\ Right(e)
      BY <2>1, <2>4, AllWereIdle
    <3>2. QED
      BY <2>1, <3>1 DEF Right, JobOf
  <2>5. heap' \subseteq 1 .. made'
    BY <2>1 DEF Orderly
  <2>6. QED
    BY <2>1, <2>3, <2>4, <2>5, Begins
<1>4. CASE \/ \E t \in Times : UpdateNextTrigger(c, i, t)
           \/ \E st \in {"run", "stop"} : UpdateStatus(c, i, st)
  BY <1>3, <1>4 DEF UpdateNextTrigger, UpdateStatus
<1>5. QED
  BY <1>1, <1>2, <1>4 DEF Call

LEMMA StepOrderly ==
    ASSUME TypeOK, Busy, IInv, Orderly, NEW c \in Callers, CallerStep(c)
    PROVE  Orderly'
<1>1. /\ pc[c] # "idle" /\ at[c] \in 1 .. made /\ at[c] \in Entries /\ heap \subseteq 1 .. made
      /\ JobOf(at[c]) \in Job /\ arg[c] \in Job
      /\ \A e \in 1 .. made : e \in Entries /\ entry[e].id \in Ids
  <2>1. pc[c] # "idle"
    BY DEF CallerStep, AddUnheap, AddCount, AddHeap, RemoveUnheap, WriteNext, WriteStatus,
           DirtyNext, DirtyStatus, WriteJob, SetDirty
  <2>2. at[c] \in 1 .. made
    BY <2>1, Filed
  <2>3. QED
    BY <2>1, <2>2, Filed DEF Orderly, TypeOK, JobOf
<1>2. made' = made /\ overlap' = overlap /\ jobByID' = jobByID
  BY DEF CallerStep, AddUnheap, AddCount, AddHeap, RemoveUnheap, WriteNext, WriteStatus,
         DirtyNext, DirtyStatus, WriteJob, SetDirty
<1>3. heap' \subseteq 1 .. made'
  <2>1. heap' \subseteq heap \cup {at[c]}
    BY DEF CallerStep, AddUnheap, AddCount, AddHeap, RemoveUnheap, WriteNext, WriteStatus,
           DirtyNext, DirtyStatus, WriteJob, SetDirty
  <2>2. QED
    BY <1>1, <1>2, <2>1
<1>4. CASE overlap
  BY <1>2, <1>3, <1>4 DEF Orderly
<1>5. CASE ~overlap
  <2>1. Working(c) /\ \A e \in heap : Right(e) \/ Excused(c, e)
    BY <1>1, <1>5 DEF Orderly, HeapIsRight, Excused
  <2>2. ASSUME NEW label, pc' = [pc EXCEPT ![c] = label], Working(c)',
               \A e \in heap' : Right(e)' \/ Excused(c, e)'
        PROVE  Orderly'
    BY <1>1, <1>2, <1>3, <1>5, <2>2, OneCaller
  \* The entries are as they were.
  <2>3. ASSUME entry' = entry, NEW e, Right(e) PROVE Right(e)'
    BY <1>2, <2>3 DEF Right, JobOf
  <2>4. CASE AddUnheap(c)
    <3>1. /\ pc[c] = "addUnheap" /\ pc' = [pc EXCEPT ![c] = "addHeap"] /\ entry' = entry
          /\ at' = at /\ arg' = arg /\ heap' = heap \ {old[c]}
      BY <2>4 DEF AddUnheap, Goto
    <3>2. pc'[c] = "addHeap"
      BY <3>1 DEF TypeOK
    <3>3. Working(c)'
      BY <1>2, <2>1, <3>1, <3>2 DEF Working, Adding, Updating, JobOf
    <3>4. \A e \in heap' : Right(e)'
      BY <2>1, <2>3, <3>1 DEF Excused
    <3>5. QED
      BY <2>2, <3>1, <3>3, <3>4
  <2>5. CASE AddCount(c)
    <3>1. /\ pc[c] = "addCount" /\ pc' = [pc EXCEPT ![c] = "addHeap"] /\ entry' = entry
          /\ at' = at /\ arg' = arg /\ heap' = heap
      BY <2>5 DEF AddCount, Goto
    <3>2. pc'[c] = "addHeap"
      BY <3>1 DEF TypeOK
    <3>3. Working(c)'
      BY <1>2, <2>1, <3>1, <3>2 DEF Working, Adding, Updating, JobOf
    <3>4. \A e \in heap' : Right(e)'
      BY <2>1, <2>3, <3>1 DEF Excused
    <3>5. QED
      BY <2>2, <3>1, <3>3, <3>4
  <2>6. CASE AddHeap(c)
    <3>1. /\ pc[c] = "addHeap" /\ pc' = [pc EXCEPT ![c] = "idle"] /\ entry' = entry
          /\ heap' = heap \cup {e \in {at[c]} : Runnable(arg[c])}
      BY <2>6 DEF AddHeap, Return, Goto
    <3>2. Runnable(arg[c]) => Right(at[c])
      BY <2>1, <3>1 DEF Working, Adding, Right, Runnable
    <3>3. Working(c)'
      BY <3>1 DEF Working, Adding, Updating, TypeOK
    <3>4. \A e \in heap' : Right(e)'
      BY <2>1, <2>3, <3>1, <3>2 DEF Excused
    <3>5. QED
      BY <2>2, <3>1, <3>3, <3>4
  <2>7. CASE RemoveUnheap(c)
    <3>1. /\ pc[c] = "remove" /\ pc' = [pc EXCEPT ![c] = "idle"] /\ entry' = entry
          /\ heap' = heap \ {at[c]}
      BY <2>7 DEF RemoveUnheap, Return, Goto
    <3>2. Working(c)'
      BY <3>1 DEF Working, Adding, Updating, TypeOK
    <3>3. \A e \in heap' : Right(e)'
      BY <2>1, <2>3, <3>1 DEF Excused
    <3>4. QED
      BY <2>2, <3>1, <3>2, <3>3
  <2>8. CASE WriteNext(c)
    <3> DEFINE job == [JobOf(at[c]) EXCEPT !.next = arg[c].next]
    <3>1. /\ pc[c] = "next" /\ pc' = [pc EXCEPT ![c] = "nextDirty"] /\ heap' = heap
          /\ at' = at /\ entry' = [entry EXCEPT ![at[c]].job = job]
      BY <2>8 DEF WriteNext, WriteJob, Goto
    <3>2. job.status = JobOf(at[c]).status /\ pc'[c] = "nextDirty"
      BY <1>1, <3>1 DEF Job, TypeOK
    <3> HIDE DEF job
    <3>3. \A e \in Entries : entry'[e].id = entry[e].id /\ entry'[e].job.status = entry[e].job.status
      BY <1>1, <3>1, <3>2 DEF TypeOK, JobOf
    <3>4. Working(c)'
      BY <1>1, <1>2, <2>1, <3>1, <3>2, <3>3 DEF Working, Adding, Updating
    <3>5. \A e \in heap' : Right(e)'
      BY <1>1, <1>2, <2>1, <3>1, <3>3 DEF Excused, Right, JobOf
    <3>6. QED
      BY <2>2, <3>1, <3>4, <3>5
  <2>9. CASE WriteStatus(c)
    <3> DEFINE job == [JobOf(at[c]) EXCEPT !.status = arg[c].status]
    <3>1. /\ pc[c] = "status" /\ pc' = [pc EXCEPT ![c] = "statusDirty"] /\ heap' = heap
          /\ at' = at /\ arg' = arg /\ entry' = [entry EXCEPT ![at[c]].job = job]
      BY <2>9 DEF WriteStatus, WriteJob, Goto
    <3>2. job.status = arg[c].status /\ pc'[c] = "statusDirty" /\ at'[c] = at[c]
      BY <1>1, <3>1 DEF Job, TypeOK
    <3> HIDE DEF job
    <3>3. /\ \A e \in Entries : entry'[e].id = entry[e].id
          /\ \A e \in Entries : e # at[c] => entry'[e] = entry[e]
          /\ entry'[at[c]].job = job
      BY <1>1, <3>1 DEF TypeOK
    <3>4. Working(c)'
      BY <1>1, <1>2, <2>1, <3>1, <3>2, <3>3 DEF Working, Adding, Updating, JobOf
    <3>5. \A e \in heap' : Right(e)' \/ Excused(c, e)'
      <4> SUFFICES ASSUME NEW e \in heap' PROVE Right(e)' \/ Excused(c, e)'
        OBVIOUS
      <4>1. e \in heap /\ Right(e) /\ e \in Entries
        BY <1>1, <2>1, <3>1 DEF Excused
      <4>2. CASE e = at[c]
        BY <3>2, <4>2 DEF Excused
      <4>3. CASE e # at[c]
        BY <1>2, <3>3, <4>1, <4>3 DEF Right, JobOf
      <4>4. QED
        BY <4>2, <4>3
    <3>6. QED
      BY <2>2, <3>1, <3>4, <3>5
  <2>10. ASSUME NEW label \in {"nextDirty", "statusDirty"}, NEW newHeap,
                SetDirty(c, label, newHeap),
                \A e \in newHeap : e \in Entries /\ Right(e)
         PROVE  Orderly'
    <3>1. /\ pc' = [pc EXCEPT ![c] = "idle"] /\ heap' = newHeap
          /\ entry' = [entry EXCEPT ![at[c]].dirty = TRUE]
      BY <2>10 DEF SetDirty, Return, Goto
    <3>2. \A e \in Entries : entry'[e].id = entry[e].id /\ entry'[e].job = entry[e].job
      BY <1>1, <3>1 DEF TypeOK
    <3>3. Working(c)'
      BY <3>1 DEF Working, Adding, Updating, TypeOK
    <3>4. \A e \in heap' : Right(e)'
      BY <1>2, <2>10, <3>1, <3>2 DEF Right, JobOf
    <3>5. QED
      BY <2>2, <3>1, <3>3, <3>4
  <2>11. CASE DirtyNext(c)
    <3> DEFINE newHeap == heap \cup {e \in {at[c]} : JobOf(e).status = "run"}
    <3>1. pc[c] = "nextDirty" /\ SetDirty(c, "nextDirty", newHeap)
      BY <2>11 DEF DirtyNext, SetDirty
    <3>2. JobOf(at[c]).status = "run" => Right(at[c])
      BY <2>1, <3>1 DEF Working, Updating, Right
    <3>3. \A e \in newHeap : e \in Entries /\ Right(e)
      BY <1>1, <2>1, <3>1, <3>2 DEF Excused
    <3> HIDE DEF newHeap
    <3>4. QED
      BY <2>10, <3>1, <3>3
  <2>12. CASE DirtyStatus(c)
    <3> DEFINE newHeap == IF arg[c].status = "stop" THEN heap \ {at[c]}
                          ELSE heap \cup {e \in {at[c]} : JobOf(e).next # NoTime}
    <3>1. pc[c] = "statusDirty" /\ SetDirty(c, "statusDirty", newHeap)
      BY <2>12 DEF DirtyStatus, SetDirty
    <3>2. arg[c].status # "stop" => Right(at[c])
      <4>1. arg[c].status # "stop" => arg[c].status = "run"
        BY <1>1 DEF Job
      <4>2. QED
        BY <2>1, <3>1, <4>1 DEF Working, Updating, Right
    <3>3. \A e \in newHeap : e \in Entries /\ Right(e)
      <4>1. \A e \in heap : e \in Entries /\ (Right(e) \/ e = at[c])
        BY <1>1, <2>1, <3>1 DEF Excused
      <4>2. QED
        BY <1>1, <3>2, <4>1
    <3> HIDE DEF newHeap
    <3>4. QED
      BY <2>10, <3>1, <3>3
  <2>13. QED
    BY <2>4, <2>5, <2>6, <2>7, <2>8, <2>9, <2>11, <2>12 DEF CallerStep
<1>6. QED
  BY <1>4, <1>5

LEMMA PopsOrderly ==
    ASSUME TypeOK, Busy, IInv, Orderly, NEW c \in Callers, NEW t \in Times,
           PopDue(c, t) \/ PeekDue(c, t)
    PROVE  Orderly'
<1>1. /\ UNCHANGED <<made, entry, jobByID, pc, at, old, arg>>
      /\ \A e : Right(e)' <=> Right(e)
      /\ \A d \in Callers, e \in heap : Excused(d, e)' <=> Excused(d, e)
      /\ \A d \in Callers : Working(d)' <=> Working(d)
  BY DEF PopDue, PeekDue, callerVars, Right, Excused, Working, JobOf
<1>2. CASE PopDue(c, t)
  <2>1. overlap' = overlap /\ heap' \subseteq heap
    BY <1>2 DEF PopDue, callerVars
  <2>2. QED
    BY <1>1, <2>1 DEF Orderly, HeapIsRight
<1>3. CASE PeekDue(c, t)
  <2>1. pc[c] = "idle" /\ pc' = pc /\ Overlap(c)
        /\ heap' = (heap \ Due(t)) \cup ({jobByID[i] : i \in DueIds(t)} \ {0})
    BY <1>3 DEF PeekDue
  <2>2. \A i \in DueIds(t) : \E e \in heap : i = entry[e].id /\ JobOf(e).status = "run"
    BY DEF DueIds, Due
  <2>3. \A i \in DueIds(t) : i \in Ids
    BY <2>2, Filed DEF Orderly
  <2>4. heap' \subseteq 1 .. made'
    <3>1. {jobByID[i] : i \in DueIds(t)} \ {0} \subseteq 1 .. made
      BY <2>3, Filed
    <3>2. QED
      BY <1>1, <2>1, <3>1 DEF Orderly
  <2>5. ASSUME ~overlap' PROVE heap' \subseteq heap
    <3>1. \A e \in heap : Right(e)
      BY <2>1, <2>5, AllWereIdle
    <3>2. \A i \in DueIds(t) : jobByID[i] \in heap
      BY <2>2, <3>1 DEF Right
    <3>3. QED
      BY <2>1, <3>2
  <2>6. QED
    <3> SUFFICES ASSUME ~overlap' PROVE Orderly'
      BY <2>4 DEF Orderly
    <3>1. /\ ~overlap /\ \A d \in Callers : pc[d] = "idle"
          /\ \A e \in heap : Right(e)
      BY <2>1, AllWereIdle
    <3>2. \A d \in Callers : Working(d)
      BY <3>1 DEF Orderly
    <3>3. QED
      BY <1>1, <2>1, <2>4, <2>5, <3>1, <3>2 DEF Orderly, HeapIsRight
<1>4. QED
  BY <1>2, <1>3

LEMMA LoadOrderly ==
    ASSUME TypeOK, Busy, IInv, Orderly, NEW i \in Ids, LoadAll(i)
    PROVE  Orderly'
<1> DEFINE new == [id |-> i, job |-> db[i], dirty |-> FALSE]
<1>1. /\ made' = made + 1 /\ made + 1 \in Entries /\ overlap' = overlap /\ pc' = pc
      /\ entry' = [entry EXCEPT ![made + 1] = new]
      /\ jobByID' = [jobByID EXCEPT ![i] = made + 1] /\ jobByID[i] = 0
      /\ heap' \subseteq heap \cup {made + 1}
  BY Filed DEF LoadAll, callerVars, Entries
<1>2. new.id = i /\ new.job.status = "run"
  BY DEF LoadAll
<1> HIDE DEF new
<1>3. \A d \in Callers : pc'[d] = "idle"
  BY <1>1 DEF LoadAll, Busy
<1>4. heap' \subseteq 1 .. made'
  BY <1>1, Filed DEF Orderly
<1>5. ASSUME ~overlap, NEW e \in heap' PROVE Right(e)'
  <2>1. CASE e = made + 1
    BY <1>1, <1>2, <2>1 DEF Right, JobOf, TypeOK
  <2>2. CASE e # made + 1
    <3>1. e \in heap /\ Right(e) /\ e \in 1 .. made
      BY <1>1, <1>3, <1>5, <2>2 DEF Orderly, HeapIsRight, Excused
    <3>2. e # 0 /\ e \in Entries /\ entry[e].id \in Ids
      BY <3>1, Filed
    <3>3. entry'[e] = entry[e] /\ entry[e].id # i
      BY <1>1, <2>2, <3>1, <3>2 DEF Right, TypeOK
    <3>4. QED
      BY <1>1, <3>1, <3>2, <3>3 DEF Right, JobOf, TypeOK
  <2>3. QED
    BY <2>1, <2>2
<1>6. \A d \in Callers : Working(d)'
  BY <1>3 DEF Working, Adding, Updating
<1>7. QED
  BY <1>1, <1>3, <1>4, <1>5, <1>6 DEF Orderly, HeapIsRight

\* The flush goroutine changes no more of an entry than its flag.
LEMMA FlushOrderly ==
    ASSUME TypeOK, Busy, IInv, Orderly, FlushStep \/ StartFlushLoop \/ UNCHANGED vars
    PROVE  Orderly'
<1>1. UNCHANGED <<made, jobByID, heap, pc, at, old, arg, overlap>>
  BY DEF FlushStep, StartFlushLoop, Cancel, FlushStart, DrainCopy, DrainEnd, FlushEnd,
         DrainCAS, FlushJob, FlushFail, vars, storeVars, mapVars, callerVars
<1>2. \A e \in Entries : entry'[e].id = entry[e].id /\ entry'[e].job = entry[e].job
  <2>1. ASSUME NEW i \in Ids, DrainCAS(i)
        PROVE  \A e \in Entries : entry'[e].id = entry[e].id /\ entry'[e].job = entry[e].job
    BY <2>1 DEF DrainCAS, TypeOK
  <2>2. ASSUME NEW b \in batch, FlushJob(b) \/ FlushFail(b)
        PROVE  \A e \in Entries : entry'[e].id = entry[e].id /\ entry'[e].job = entry[e].job
    BY <2>2 DEF FlushJob, FlushFail, TypeOK, storeVars
  <2>3. CASE \/ Cancel \/ FlushStart \/ DrainCopy \/ DrainEnd \/ FlushEnd
             \/ StartFlushLoop \/ UNCHANGED vars
    BY <2>3 DEF Cancel, FlushStart, DrainCopy, DrainEnd, FlushEnd, StartFlushLoop, vars, storeVars
  <2>4. QED
    BY <2>1, <2>2, <2>3 DEF FlushStep
<1>3. \A e \in 1 .. made : Right(e)' <=> Right(e)
  BY <1>1, <1>2, Filed DEF Right, JobOf
<1>4. \A d \in Callers, e \in heap : Excused(d, e)' <=> Excused(d, e)
  BY <1>1 DEF Excused
<1>5. ASSUME NEW d \in Callers, Working(d) PROVE Working(d)'
  <2>1. CASE pc[d] = "idle"
    BY <1>1, <2>1 DEF Working, Adding, Updating
  <2>2. CASE pc[d] # "idle"
    <3>1. at[d] \in Entries
      BY <2>2, Filed
    <3>2. QED
      BY <1>1, <1>2, <1>5, <3>1 DEF Working, JobOf
  <2>3. QED
    BY <2>1, <2>2
<1>6. QED
  BY <1>1, <1>3, <1>4, <1>5 DEF Orderly, HeapIsRight

\* Once the calls have returned, the count is of the jobs in the map, however they have
\* interleaved; and the heap holds, if no two have overlapped, only entries that are in the
\* map and run (jobstore.go:131 and :170).
THEOREM IndexesStayInStep == Spec => []IndexesAgree
<1>1. Init => Counted /\ Orderly
  <2> SUFFICES ASSUME Init PROVE Counted /\ Orderly
    OBVIOUS
  <2>1. Present = {} /\ Counting = {} /\ Removing = {} /\ count = 0
    BY DEF Init, Present, Counting, Removing
  <2>2. Counted
    BY <2>1, FS_EmptySet DEF Counted
  <2>3. Orderly
    BY DEF Init, Orderly, HeapIsRight, Working, Adding, Updating
  <2>4. QED
    BY <2>2, <2>3
<1>2. TypeOK /\ Busy /\ IInv /\ Counted /\ Orderly /\ [Next]_vars => (Counted /\ Orderly)'
  BY CountedStep, StepOrderly, CallOrderly, PopsOrderly, LoadOrderly, FlushOrderly DEF Next
<1>3. TypeOK /\ Counted /\ Orderly => IndexesAgree
  <2> SUFFICES ASSUME TypeOK, Counted, Orderly, AllIdle
               PROVE  /\ count = Cardinality(Present)
                      /\ ~overlap => \A e \in heap : jobByID[entry[e].id] = e /\ JobOf(e).status = "run"
    BY DEF IndexesAgree
  <2>1. Counting = {} /\ Removing = {}
    BY DEF AllIdle, Counting, Removing
  <2>2. count = Cardinality(Present)
    BY <2>1, FS_EmptySet, FS_CardinalityType DEF Counted
  <2>3. ~overlap => \A e \in heap : jobByID[entry[e].id] = e /\ JobOf(e).status = "run"
    BY DEF AllIdle, Orderly, HeapIsRight, Right, Excused
  <2>4. QED
    BY <2>2, <2>3
<1>4. QED
  BY <1>1, <1>2, <1>3, TypesHold, Invariant, PTL DEF Spec
=============================================================================
