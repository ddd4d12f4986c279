----------------------------- MODULE TimeWheel -----------------------------
(***************************************************************************)
(* pkg/timewheel: the hierarchical timing wheel.  Callers reach the wheel   *)
(* goroutine through two channels, addCh and cancelCh; the goroutine        *)
(* selects among them, its ticker and stopCh, and alone touches the slots.  *)
(*                                                                         *)
(* Time is counted in level-0 ticks (1 ms).  A tick carries the wall-clock  *)
(* time of its ticker; Go drops ticks that the goroutine was too slow to    *)
(* take, so that time jumps by up to MaxStep while the cursor moves by one. *)
(*                                                                         *)
(* A Task is named by the number of the Add call that made it.  The cap of  *)
(* a slot list (maxSlotLen = 100000) is not modelled.                       *)
(***************************************************************************)
EXTENDS Integers, Sequences, FiniteSets

CONSTANTS
    Slots,       \* Slots[k+1]: the number of slots of level k
    IDs,         \* task IDs
    FireTimes,   \* the fire times callers ask for
    MaxAdds,     \* bound: calls of Add
    MaxCancels,  \* bound: calls of Cancel
    Cap,         \* capacity of addCh and cancelCh
    MaxStep,     \* bound: how far one tick may advance the time (MaxStep - 1 are dropped)
    MaxTime      \* bound: the time at which the ticker stops

ASSUME WheelAssumption ==
    /\ Slots \in Seq(Nat \ {0}) /\ Slots # <<>>
    /\ IDs # {}
    /\ FireTimes \subseteq Nat /\ FireTimes # {}
    /\ {MaxAdds, MaxCancels, Cap, MaxStep, MaxTime} \subseteq Nat

Levels == 0 .. Len(Slots) - 1
NumSlots(k) == Slots[k + 1]
Tasks == 1 .. MaxAdds

\* LevelTick[k]: the span of one slot of level k; LevelTick[Len(Slots)] is maxWheelSpan.
LevelTick[k \in 0 .. Len(Slots)] ==
    IF k = 0 THEN 1 ELSE NumSlots(k - 1) * LevelTick[k - 1]

MaxWheelSpan == LevelTick[Len(Slots)]

VARIABLES
    added,       \* the number of Add calls made
    id, fireAt,  \* Task.ID and Task.FireAt, by task
    cancelled,   \* the tasks whose cancelled flag is set
    pos,         \* pos[t]: where task t is, see Position
    index,       \* TimeWheel.index: ID -> task, 0 when absent
    addCh,       \* tasks sent and not yet received
    cancelCh,    \* cancels sent and not yet received
    cursor,      \* the current slot of each level
    now,         \* TimeWheel.now
    dropped,     \* history: the ticks that were dropped
    wpc,         \* the wheel goroutine: off, select, drain, stuck or exited
    stopCh,      \* stopCh is closed
    cancels,     \* the number of Cancel calls made
    firedAt,     \* history: when t fired
    firstLevel   \* history: the level insert put t in, -1 if t was already due

time == <<now, dropped>>
callVars == <<added, id, fireAt, cancels>>
history == <<firedAt, firstLevel>>
vars == <<added, id, fireAt, cancelled, pos, index, addCh, cancelCh, cursor, now,
          dropped, wpc, stopCh, cancels, firedAt, firstLevel>>

\* <<kind, level, slot>>; level and slot mean something for kind "slot" only.
Position == {"none", "queued", "slot", "overflow", "fired", "gone"} \X Levels \X Nat
At(kind) == <<kind, 0, 0>>

Live(t) == pos[t][1] \in {"slot", "overflow"} /\ t \notin cancelled

TypeOK ==
    /\ added \in 0 .. MaxAdds
    /\ id \in [Tasks -> IDs]
    /\ fireAt \in [Tasks -> FireTimes]
    /\ cancelled \in SUBSET Tasks
    /\ pos \in [Tasks -> Position]
    /\ \A t \in Tasks : pos[t][1] = "slot" => pos[t][3] < NumSlots(pos[t][2])
    /\ index \in [IDs -> 0 .. MaxAdds]
    /\ addCh \in Seq(Tasks) /\ Len(addCh) <= Cap
    /\ cancelCh \in Seq(IDs) /\ Len(cancelCh) <= Cap
    /\ cursor \in [Levels -> Nat] /\ \A k \in Levels : cursor[k] < NumSlots(k)
    /\ now \in Nat
    /\ dropped \in Nat
    /\ wpc \in {"off", "select", "drain", "stuck", "exited"}
    /\ stopCh \in BOOLEAN
    /\ cancels \in 0 .. MaxCancels
    /\ firedAt \in [Tasks -> Nat \cup {-1}]
    /\ firstLevel \in [Tasks -> Levels \cup {-1}]

Init ==
    /\ added = 0
    /\ id = [t \in Tasks |-> CHOOSE i \in IDs : TRUE]
    /\ fireAt = [t \in Tasks |-> CHOOSE f \in FireTimes : TRUE]
    /\ cancelled = {}
    /\ pos = [t \in Tasks |-> At("none")]
    /\ index = [i \in IDs |-> 0]
    /\ addCh = <<>>
    /\ cancelCh = <<>>
    /\ cursor = [k \in Levels |-> 0]
    /\ now = 0
    /\ dropped = 0
    /\ wpc = "off"
    /\ stopCh = FALSE
    /\ cancels = 0
    /\ firedAt = [t \in Tasks |-> -1]
    /\ firstLevel = [t \in Tasks |-> -1]
-----------------------------------------------------------------------------
(* The callers *)

Start ==
    /\ wpc = "off"
    /\ wpc' = "select"
    /\ UNCHANGED <<callVars, cancelled, pos, index, addCh, cancelCh, cursor, time,
                   stopCh, history>>

\* Add sends to addCh, or gives up when stopCh is closed.
Add(i, f) ==
    /\ added < MaxAdds
    /\ added' = added + 1
    /\ id' = [id EXCEPT ![added + 1] = i]
    /\ fireAt' = [fireAt EXCEPT ![added + 1] = f]
    /\ \/ /\ Len(addCh) < Cap
          /\ addCh' = Append(addCh, added + 1)
          /\ pos' = [pos EXCEPT ![added + 1] = At("queued")]
       \/ /\ stopCh
          /\ pos' = [pos EXCEPT ![added + 1] = At("gone")]
          /\ UNCHANGED addCh
    /\ UNCHANGED <<cancelled, index, cancelCh, cursor, time, wpc, stopCh, cancels, history>>

\* Cancel sends to cancelCh, or gives up when stopCh is closed.
Cancel(i) ==
    /\ cancels < MaxCancels
    /\ cancels' = cancels + 1
    /\ \/ /\ Len(cancelCh) < Cap
          /\ cancelCh' = Append(cancelCh, i)
       \/ /\ stopCh
          /\ UNCHANGED cancelCh
    /\ UNCHANGED <<added, id, fireAt, cancelled, pos, index, addCh, cursor, time, wpc,
                   stopCh, history>>

\* Task.Cancel on the handle Add returned.
TaskCancel(t) ==
    /\ t <= added
    /\ cancelled' = cancelled \cup {t}
    /\ UNCHANGED <<callVars, pos, index, addCh, cancelCh, cursor, time, wpc, stopCh, history>>

\* Stop closes stopCh and waits for the goroutine.
Stop ==
    /\ wpc # "off"
    /\ ~stopCh
    /\ stopCh' = TRUE
    /\ UNCHANGED <<callVars, cancelled, pos, index, addCh, cancelCh, cursor, time, wpc, history>>
-----------------------------------------------------------------------------
(* The wheel goroutine *)

\* Mutant of Place: the slot does not wrap around.
PlaceNoWrap(t, c, n) ==
    LET delay == fireAt[t] - n
        level == CHOOSE k \in Levels : /\ delay < LevelTick[k + 1]
                                       /\ k > 0 => delay >= LevelTick[k]
        ticks == delay \div LevelTick[level] + 1
    IN  IF delay <= 0 THEN At(IF t \in cancelled THEN "gone" ELSE "fired")
        ELSE IF delay >= MaxWheelSpan THEN At("overflow")
        ELSE <<"slot", level, c[level] + ticks>>

\* Where place puts a task when the cursors are c and the time is n.  A task that
\* is due runs its fn at once, unless it is cancelled.
Place(t, c, n) ==
    LET delay == fireAt[t] - n
        level == CHOOSE k \in Levels : /\ delay < LevelTick[k + 1]
                                       /\ k > 0 => delay >= LevelTick[k]
        ticks == delay \div LevelTick[level] + 1
    IN  IF delay <= 0 THEN At(IF t \in cancelled THEN "gone" ELSE "fired")
        ELSE IF delay >= MaxWheelSpan THEN At("overflow")
        ELSE <<"slot", level, (c[level] + ticks) % NumSlots(level)>>

\* The tasks that run their fn as the positions become p: each is due now, and
\* leaves the index.
Fired(p) == {t \in Tasks : p[t] = At("fired") /\ pos[t] # At("fired")}

Fire(p, idx, n) ==
    /\ pos' = p
    /\ index' = [i \in IDs |-> IF \E t \in Fired(p) : id[t] = i THEN 0 ELSE idx[i]]
    /\ firedAt' = [t \in Tasks |-> IF t \in Fired(p) THEN n ELSE firedAt[t]]

Receiving == wpc \in {"select", "drain"}

\* Mutant of Insert: the older task of the ID is left alone.
InsertBeside ==
    /\ Receiving
    /\ addCh # <<>>
    /\ addCh' = Tail(addCh)
    /\ LET t == Head(addCh)
           p == Place(t, cursor, now)
       IN  /\ Fire([pos EXCEPT ![t] = p], [index EXCEPT ![id[t]] = t], now)
           /\ firstLevel' = [firstLevel EXCEPT ![t] = p[2]]
    /\ UNCHANGED <<callVars, cancelled, cancelCh, cursor, time, wpc, stopCh>>

\* insert: an older task of the same ID is cancelled, then the task is placed.
Insert ==
    /\ Receiving
    /\ addCh # <<>>
    /\ addCh' = Tail(addCh)
    /\ LET t == Head(addCh)
           p == Place(t, cursor, now)
       IN  /\ cancelled' = cancelled \cup ({index[id[t]]} \ {0})
           /\ Fire([pos EXCEPT ![t] = p], [index EXCEPT ![id[t]] = t], now)
           /\ firstLevel' = [firstLevel EXCEPT ![t] =
                               CASE p[1] = "slot" -> p[2]
                                 [] p[1] = "overflow" -> Len(Slots) - 1
                                 [] OTHER -> -1]
    /\ UNCHANGED <<callVars, cancelCh, cursor, time, wpc, stopCh>>

DoCancel ==
    /\ Receiving
    /\ cancelCh # <<>>
    /\ cancelCh' = Tail(cancelCh)
    /\ cancelled' = cancelled \cup ({index[Head(cancelCh)]} \ {0})
    /\ index' = [index EXCEPT ![Head(cancelCh)] = 0]
    /\ UNCHANGED <<callVars, pos, addCh, cursor, time, wpc, stopCh, history>>

\* The ticker's case of the select; tick first drains both channels.
TickArrives ==
    /\ wpc = "select"
    /\ now < MaxTime
    /\ wpc' = "drain"
    /\ UNCHANGED <<callVars, cancelled, pos, index, addCh, cancelCh, cursor, time,
                   stopCh, history>>

\* A position leaves the list it was in: a cancelled task is dropped, any other
\* one is placed again.
Replace(t, c, n) == IF t \in cancelled THEN At("gone") ELSE Place(t, c, n)

\* The levels whose cursor moves: a level moves when all lower ones roll over.
Advances(k) == \A j \in Levels : j < k => (cursor[j] + 1) % NumSlots(j) = 0
NextCursor == [k \in Levels |-> IF Advances(k) THEN (cursor[k] + 1) % NumSlots(k)
                                               ELSE cursor[k]]

\* cascadeOverflow, up to the horizon at time n.  A fire time in the horizon's own
\* tick lies after it, or equals it: see TickSelfLock.
InRange(t, n) == pos[t] = At("overflow") /\ fireAt[t] < n + MaxWheelSpan
Uncovered(p, n) == [t \in Tasks |-> IF InRange(t, n) THEN Replace(t, cursor, n) ELSE p[t]]

\* fireTasks on the current slot of level 0.
Popped(p) ==
    [t \in Tasks |-> IF p[t] = <<"slot", 0, NextCursor[0]>>
                     THEN At(IF t \in cancelled THEN "gone" ELSE "fired") ELSE p[t]]

\* Mutant of Cascaded: the tasks of a higher level's slot fire with it.
CascadedFires(p, n) ==
    [t \in Tasks |-> IF \E k \in Levels \ {0} : Advances(k) /\ p[t] = <<"slot", k, NextCursor[k]>>
                     THEN At(IF t \in cancelled THEN "gone" ELSE "fired") ELSE p[t]]

\* Mutant of Cascaded: the top level's slots are never cascaded.
CascadedBelowTop(p, n) ==
    [t \in Tasks |-> IF \E k \in Levels \ {0, Len(Slots) - 1} :
                           Advances(k) /\ p[t] = <<"slot", k, NextCursor[k]>>
                     THEN Replace(t, NextCursor, n) ELSE p[t]]

\* cascade on the current slot of every higher level that has moved.
Cascaded(p, n) ==
    [t \in Tasks |-> IF \E k \in Levels \ {0} : Advances(k) /\ p[t] = <<"slot", k, NextCursor[k]>>
                     THEN Replace(t, NextCursor, n) ELSE p[t]]

\* The rest of tick, once it has found both channels empty.
Tick(step) ==
    /\ wpc = "drain"
    /\ addCh = <<>> /\ cancelCh = <<>>
    /\ now' = now + step
    /\ dropped' = dropped + step - 1
    /\ cursor' = NextCursor
    /\ Fire(Cascaded(Popped(Uncovered(pos, now + step)), now + step), index, now + step)
    /\ wpc' = "select"
    /\ UNCHANGED <<callVars, cancelled, addCh, cancelCh, stopCh, firstLevel>>

\* cascadeOverflow holds overflowMu; a task whose delay is exactly maxWheelSpan, to
\* the nanosecond, is due to leave the heap, but place sends it back and locks
\* overflowMu again.
TickSelfLock(step) ==
    /\ wpc = "drain"
    /\ addCh = <<>> /\ cancelCh = <<>>
    /\ \E t \in Tasks \ cancelled :
         /\ pos[t] = At("overflow")
         /\ fireAt[t] = now + step + MaxWheelSpan
         /\ Fire([u \in Tasks |->
                    IF u = t THEN At("gone")
                    ELSE IF fireAt[u] < fireAt[t] THEN Uncovered(pos, now + step)[u]
                    ELSE pos[u]], index, now + step)
    /\ now' = now + step
    /\ dropped' = dropped + step - 1
    /\ wpc' = "stuck"
    /\ UNCHANGED <<callVars, cancelled, addCh, cancelCh, cursor, stopCh, firstLevel>>

Exit ==
    /\ wpc = "select"
    /\ stopCh
    /\ wpc' = "exited"
    /\ UNCHANGED <<callVars, cancelled, pos, index, addCh, cancelCh, cursor, time,
                   stopCh, history>>

Next ==
    \/ Start \/ Stop
    \/ \E i \in IDs, f \in FireTimes : Add(i, f)
    \/ \E i \in IDs : Cancel(i)
    \/ \E t \in Tasks : TaskCancel(t)
    \/ Insert \/ DoCancel \/ TickArrives \/ Exit
    \/ \E step \in 1 .. MaxStep : Tick(step) \/ TickSelfLock(step)

Spec == Init /\ [][Next]_vars
-----------------------------------------------------------------------------
(* Properties *)

\* A task that can still fire is the one the index knows for its ID: no ID has two
\* live tasks, so that no job is triggered twice by a replaced entry.
LiveIsIndexed == \A t \in Tasks : Live(t) => index[id[t]] = t

\* No task fires before its time, through any number of cascades and dropped ticks; and
\* none is late by more than one tick of the level insert put it in, plus the ticks that
\* were dropped: it has fired, or its time plus all of that is not over.
FiresOnTime ==
    /\ \A t \in Tasks : pos[t] = At("fired") => firedAt[t] >= fireAt[t]
    /\ \A t \in Tasks : firstLevel[t] >= 0 =>
           LET bound == fireAt[t] + LevelTick[firstLevel[t]] + dropped IN
           /\ pos[t] = At("fired") => firedAt[t] <= bound
           /\ Live(t) => now <= bound
=============================================================================
