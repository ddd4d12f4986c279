--------------------------- MODULE AdminLifeProofs ---------------------------
(***************************************************************************)
(* For any number of admin processes and any number of sessions lost and   *)
(* observations ended: two that contend never schedule together, and a     *)
(* shutdown ends the writers before what they write to.                    *)
(***************************************************************************)
EXTENDS AdminLife, SequenceTheorems, TLAPS

ProcessRecord == [main : {"new", "up", "leave", "drain", "buffer", "http", "gone"},
                  election : BOOLEAN, isLeader : BOOLEAN,
                  el : {"none", "campaign", "wait", "observe", "returned"},
                  starts : Nat, stops : Nat]
SchedulerRecord == [running : BOOLEAN, closed : BOOLEAN, pool : {"none", "idle", "busy"},
                    flush : {"none", "loop", "final", "done"},
                    dirty : {"no", "yes", "late", "failed"}, failed : BOOLEAN]

\* The part of the type that the proofs need.
Shape ==
    /\ proc \in [Processes -> ProcessRecord]
    /\ sched \in [Processes -> SchedulerRecord]
    /\ lease \subseteq Processes
    /\ order \in Seq(Processes)

Enrolled(p) == \E i \in DOMAIN order : order[i] = p

\* A session creates at most one key, which lasts as long as the session.
KeysOfLeases ==
    /\ \A i, j \in DOMAIN order : order[i] = order[j] => i = j
    /\ keys = {p \in lease : Enrolled(p)}
    /\ \A p \in Processes : proc[p].main = "new" =>
          p \notin lease /\ ~Enrolled(p) /\ proc[p] = [NewProcess EXCEPT !.main = "new"]
          /\ ~sched[p].running

\* Whoever has been elected and still contends has the oldest key.
ElectedIsOldest ==
    \A p \in Processes : Contends(p) =>
        /\ proc[p].el = "wait" => p \in keys
        /\ proc[p].el = "observe" \/ proc[p].starts > 0 \/ sched[p].running =>
              p \in keys /\ Older(p) = {}

IInv == Shape /\ KeysOfLeases /\ ElectedIsOldest

LEMMA Initially == ASSUME Init PROVE IInv
<1>1. Shape
  BY DEF Init, Shape, ProcessRecord, SchedulerRecord, NewProcess, NewScheduler
<1>2. KeysOfLeases
  BY DEF Init, KeysOfLeases, Enrolled, NewProcess, NewScheduler
<1>3. ElectedIsOldest
  BY DEF Init, ElectedIsOldest, Contends, NewProcess, NewScheduler
<1>4. QED
  BY <1>1, <1>2, <1>3 DEF IInv

LEMMA StartedKeeps ==
    ASSUME NEW s \in SchedulerRecord, NEW ok \in BOOLEAN
    PROVE  Started(s, ok) \in SchedulerRecord
<1>1. CASE s.running \/ ~ok
  BY <1>1 DEF Started, SchedulerRecord
<1>2. CASE ~(s.running \/ ~ok)
  <2> DEFINE pool == IF s.pool = "busy" THEN s.pool ELSE "idle"
             flush == IF s.closed THEN "final" ELSE "loop"
  <2>1. Started(s, ok) = [s EXCEPT !.running = TRUE, !.pool = pool, !.flush = flush]
    BY <1>2 DEF Started, SchedulerRecord
  <2>2. pool \in {"none", "idle", "busy"} /\ flush \in {"none", "loop", "final", "done"}
    OBVIOUS
  <2> HIDE DEF pool, flush
  <2>3. QED
    BY <2>1, <2>2 DEF SchedulerRecord
<1>3. QED
  BY <1>1, <1>2

LEMMA StoppedKeeps == ASSUME NEW s \in SchedulerRecord PROVE Stopped(s) \in SchedulerRecord
BY DEF Stopped, SchedulerRecord

LEMMA NotLeaderKeeps ==
    ASSUME Shape, NEW p \in Processes
    PROVE  /\ NotLeader(p) \in ProcessRecord
           /\ NotLeader(p).main = proc[p].main /\ NotLeader(p).election = proc[p].election
           /\ NotLeader(p).starts = proc[p].starts /\ NotLeader(p).el \in {"campaign", "returned"}
<1> DEFINE el == IF proc[p].main = "up" THEN "campaign" ELSE "returned"
<1>1. el \in {"campaign", "returned"}
  OBVIOUS
<1>2. NotLeader(p) = [proc[p] EXCEPT !.isLeader = FALSE, !.stops = @ + 1, !.el = el]
  BY DEF NotLeader
<1> HIDE DEF el
<1>3. proc[p] \in ProcessRecord /\ proc[p].stops + 1 \in Nat
  BY DEF Shape, ProcessRecord
<1>4. NotLeader(p) \in ProcessRecord
  BY <1>1, <1>2, <1>3 DEF ProcessRecord
<1>5. /\ NotLeader(p).main = proc[p].main /\ NotLeader(p).election = proc[p].election
      /\ NotLeader(p).starts = proc[p].starts /\ NotLeader(p).el = el
  BY <1>2, <1>3 DEF ProcessRecord
<1>6. QED
  BY <1>1, <1>4, <1>5

\* The processes keep their type.
LEMMA ProcStep == ASSUME Shape, [Next]_vars PROVE proc' \in [Processes -> ProcessRecord]
<1> USE DEF Shape, ProcessRecord
<1>1. ASSUME NEW p \in Processes, End(p) PROVE proc' \in [Processes -> ProcessRecord]
  BY <1>1 DEF End, NewProcess
<1>2. ASSUME NEW p \in Processes, BootElection(p) PROVE proc' \in [Processes -> ProcessRecord]
  <2>1. proc' = [proc EXCEPT ![p] = [proc[p] EXCEPT !.main = "up", !.election = TRUE,
                                                    !.el = "campaign"]]
    BY <1>2 DEF BootElection
  <2>2. QED
    BY <2>1
<1>3. ASSUME NEW p \in Processes, BootStandalone(p) PROVE proc' \in [Processes -> ProcessRecord]
  <2>1. PICK main \in {"up", "gone"} : proc' = [proc EXCEPT ![p].main = main]
    BY <1>3 DEF BootStandalone
  <2>2. main \in {"new", "up", "leave", "drain", "buffer", "http", "gone"}
    OBVIOUS
  <2>3. QED
    BY <2>1, <2>2, ZenonT(30)
<1>4. ASSUME NEW p \in Processes, Signal(p) PROVE proc' \in [Processes -> ProcessRecord]
  <2>1. PICK main \in {"leave", "drain"} : proc' = [proc EXCEPT ![p].main = main]
    BY <1>4 DEF Signal
  <2>2. QED
    BY <2>1
<1>5. ASSUME NEW p \in Processes, Leave(p) PROVE proc' \in [Processes -> ProcessRecord]
  BY <1>5 DEF Leave
<1>6. ASSUME NEW p \in Processes, Drained(p) PROVE proc' \in [Processes -> ProcessRecord]
  BY <1>6 DEF Drained
<1>7. ASSUME NEW p \in Processes, StopBuffer(p) PROVE proc' \in [Processes -> ProcessRecord]
  BY <1>7 DEF StopBuffer
<1>8. ASSUME NEW p \in Processes, Campaign(p) PROVE proc' \in [Processes -> ProcessRecord]
  BY <1>8 DEF Campaign
<1>9. ASSUME NEW p \in Processes, Elected(p) PROVE proc' \in [Processes -> ProcessRecord]
  BY <1>9, SMTT(40) DEF Elected
<1>10. ASSUME NEW p \in Processes, Deposed(p) PROVE proc' \in [Processes -> ProcessRecord]
  BY <1>10, NotLeaderKeeps DEF Deposed
<1>11. ASSUME NEW p \in Processes, WatchEnds(p) PROVE proc' \in [Processes -> ProcessRecord]
  BY <1>11, NotLeaderKeeps DEF WatchEnds
<1>12. ASSUME NEW p \in Processes, Return(p) PROVE proc' \in [Processes -> ProcessRecord]
  BY <1>12, SMTT(30) DEF Return
<1>13. ASSUME NEW p \in Processes, OnElected(p) PROVE proc' \in [Processes -> ProcessRecord]
  <2>1. proc' = [proc EXCEPT ![p].starts = @ - 1] /\ proc[p].starts - 1 \in Nat
    BY <1>13 DEF OnElected
  <2>2. QED
    BY <2>1
<1>14. ASSUME NEW p \in Processes, OnRevoked(p) PROVE proc' \in [Processes -> ProcessRecord]
  <2>1. CASE ~End(p)
    <3>1. proc' = [proc EXCEPT ![p].stops = @ - 1] /\ proc[p].stops - 1 \in Nat
      BY <1>14, <2>1 DEF OnRevoked
    <3>2. QED
      BY <3>1
  <2>2. QED
    BY <1>1, <2>1
<1>15. CASE UNCHANGED <<proc>>
  BY <1>15
<1>16. QED
  BY <1>1, <1>2, <1>3, <1>4, <1>5, <1>6, <1>7, <1>8, <1>9, <1>10, <1>11, <1>12, <1>13, <1>14, <1>15
     DEF Next, vars, Exit, Crash, LeaseExpires, Take, Finish, WorkersReturn, FlushTick, LastFlush

\* So do their schedulers.
LEMMA SchedStep == ASSUME Shape, [Next]_vars PROVE sched' \in [Processes -> SchedulerRecord]
<1> USE DEF Shape
<1>1. ASSUME NEW p \in Processes, End(p) PROVE sched' \in [Processes -> SchedulerRecord]
  BY <1>1 DEF End, NewScheduler, SchedulerRecord
<1>2. ASSUME NEW p \in Processes, BootStandalone(p) PROVE sched' \in [Processes -> SchedulerRecord]
  <2>1. CASE sched' = [sched EXCEPT ![p] = Started(@, TRUE)]
    BY <2>1, StartedKeeps
  <2>2. CASE sched' = sched
    BY <2>2
  <2>3. sched' = [sched EXCEPT ![p] = Started(@, TRUE)] \/ sched' = sched
    BY <1>2 DEF BootStandalone
  <2>4. QED
    BY <2>1, <2>2, <2>3
<1>3. ASSUME NEW p \in Processes, Signal(p) PROVE sched' \in [Processes -> SchedulerRecord]
  BY <1>3, StoppedKeeps DEF Signal
<1>4. ASSUME NEW p \in Processes, OnElected(p) PROVE sched' \in [Processes -> SchedulerRecord]
  BY <1>4, StartedKeeps DEF OnElected
<1>5. ASSUME NEW p \in Processes, OnRevoked(p) PROVE sched' \in [Processes -> SchedulerRecord]
  BY <1>5, <1>1, StoppedKeeps DEF OnRevoked
<1>6. ASSUME NEW p \in Processes, Take(p) PROVE sched' \in [Processes -> SchedulerRecord]
  BY <1>6 DEF Take, SchedulerRecord
<1>7. ASSUME NEW p \in Processes, Finish(p) PROVE sched' \in [Processes -> SchedulerRecord]
  <2>1. PICK dirty \in {"late", "yes"} :
          sched' = [sched EXCEPT ![p] = [sched[p] EXCEPT !.pool = "idle", !.dirty = dirty]]
    BY <1>7 DEF Finish, SchedulerRecord
  <2>2. QED
    BY <2>1 DEF SchedulerRecord
<1>8. ASSUME NEW p \in Processes, WorkersReturn(p) PROVE sched' \in [Processes -> SchedulerRecord]
  BY <1>8 DEF WorkersReturn, SchedulerRecord
<1>9. ASSUME NEW p \in Processes, FlushTick(p) PROVE sched' \in [Processes -> SchedulerRecord]
  BY <1>9 DEF FlushTick, SchedulerRecord
<1>10. ASSUME NEW p \in Processes, LastFlush(p) PROVE sched' \in [Processes -> SchedulerRecord]
  <2>1. PICK dirty \in {"no", "failed"} :
          sched' = [sched EXCEPT ![p] = [sched[p] EXCEPT !.flush = "done", !.dirty = dirty]]
    BY <1>10 DEF LastFlush, SchedulerRecord
  <2>2. QED
    BY <2>1 DEF SchedulerRecord
<1>11. CASE UNCHANGED <<sched>>
  BY <1>11
<1>12. QED
  BY <1>1, <1>2, <1>3, <1>4, <1>5, <1>6, <1>7, <1>8, <1>9, <1>10, <1>11
     DEF Next, vars, Exit, Crash, BootElection, Leave, Drained, StopBuffer, Campaign, Elected, Deposed,
         WatchEnds, Return, LeaseExpires

LEMMA ShapeStep == ASSUME Shape, [Next]_vars PROVE Shape'
<1>1. lease' \subseteq Processes /\ order' \in Seq(Processes)
  <2>1. CASE UNCHANGED <<lease, order>>
    BY <2>1 DEF Shape
  <2>2. ASSUME NEW p \in Processes, BootElection(p) \/ Leave(p) \/ LeaseExpires(p)
        PROVE  lease' \subseteq Processes /\ order' \in Seq(Processes)
    BY <2>2 DEF BootElection, Leave, LeaseExpires, Shape
  <2>3. ASSUME NEW p \in Processes, Campaign(p)
        PROVE  lease' \subseteq Processes /\ order' \in Seq(Processes)
    BY <2>3, AppendProperties DEF Campaign, Shape
  <2>4. QED
    BY <2>1, <2>2, <2>3
       DEF Next, vars, Exit, Crash, End, BootStandalone, Signal, Drained, StopBuffer,
           Elected, Deposed, WatchEnds, Return, OnElected, OnRevoked, Take, Finish, WorkersReturn,
       FlushTick, LastFlush
<1>2. QED
  BY <1>1, ProcStep, SchedStep DEF Shape

\* A step of the election loop, the callbacks or main that leaves etcd alone: it may only make
\* a contender elected that has the oldest key.
LEMMA Local ==
    ASSUME IInv, Shape', NEW p \in Processes, UNCHANGED <<lease, keys, order>>,
           \A q \in Processes \ {p} : proc'[q] = proc[q] /\ sched'[q] = sched[q],
           proc'[p].main # "new",
           proc'[p].main = "up" /\ proc'[p].election =>
              /\ proc[p].main = "up" /\ proc[p].election
              /\ proc'[p].el = "wait" => proc[p].el = "wait"
              /\ proc'[p].el = "observe" \/ proc'[p].starts > 0 \/ sched'[p].running =>
                    \/ proc[p].el = "observe" \/ proc[p].starts > 0 \/ sched[p].running
                    \/ proc[p].el = "wait" /\ Older(p) = {}
    PROVE  IInv'
<1>1. KeysOfLeases'
  BY DEF IInv, KeysOfLeases, Enrolled
<1>2. \A q \in Processes : Older(q)' = Older(q)
  BY DEF Older
<1>3. ElectedIsOldest'
  <2> SUFFICES ASSUME NEW q \in Processes, Contends(q)'
               PROVE  /\ proc'[q].el = "wait" => q \in keys
                      /\ proc'[q].el = "observe" \/ proc'[q].starts > 0 \/ sched'[q].running =>
                            q \in keys /\ Older(q) = {}
    BY <1>2 DEF ElectedIsOldest
  <2>1. CASE q # p
    BY <2>1 DEF IInv, ElectedIsOldest, Contends
  <2>2. CASE q = p
    BY <2>2 DEF IInv, ElectedIsOldest, Contends
  <2>3. QED
    BY <2>1, <2>2
<1>4. QED
  BY <1>1, <1>3 DEF IInv

\* A key that goes takes its session with it, and makes no other key younger.
LEMMA SessionEnds ==
    ASSUME IInv, Shape', NEW p \in Processes,
           lease' = lease \ {p}, keys' = keys \ {p}, UNCHANGED <<sched, order>>,
           \A q \in Processes \ {p} : proc'[q] = proc[q],
           proc'[p].main = "new" => proc'[p] = proc[p]
    PROVE  IInv'
<1>1. KeysOfLeases'
  BY DEF IInv, KeysOfLeases, Enrolled
<1>2. \A q \in Processes : Older(q) = {} => Older(q)' = {}
  BY DEF Older
<1>3. ElectedIsOldest'
  BY <1>2 DEF IInv, ElectedIsOldest, Contends
<1>4. QED
  BY <1>1, <1>3 DEF IInv

LEMMA CampaignKeeps == ASSUME IInv, Shape', NEW p \in Processes, Campaign(p) PROVE IInv'
<1> USE DEF Campaign
<1>1. proc' = [proc EXCEPT ![p].el = "wait"] /\ proc \in [Processes -> ProcessRecord]
  BY DEF IInv, Shape
<1>2. \A q \in Processes : q # p => proc'[q] = proc[q]
  BY <1>1
<1>3. /\ proc'[p].el = "wait" /\ proc'[p].starts = proc[p].starts
      /\ proc'[p].main = "up" /\ proc'[p].election = proc[p].election
  BY <1>1 DEF ProcessRecord
<1>4. CASE p \in keys
  <2>1. keys' = keys /\ order' = order
    BY <1>4
  <2>2. KeysOfLeases'
    BY <1>2, <1>3, <2>1 DEF IInv, KeysOfLeases, Enrolled
  <2>3. \A q \in Processes : Older(q)' = Older(q)
    BY <2>1 DEF Older
  <2>4. ElectedIsOldest'
    BY <1>2, <1>3, <1>4, <2>1, <2>3 DEF IInv, ElectedIsOldest, Contends
  <2>5. QED
    BY <2>2, <2>4 DEF IInv
<1>5. CASE p \notin keys
  <2>1. keys' = keys \cup {p} /\ order' = Append(order, p) /\ ~Enrolled(p)
    BY <1>5 DEF IInv, KeysOfLeases
  <2>2. /\ Len(order) \in Nat /\ DOMAIN order = 1 .. Len(order)
        /\ DOMAIN order' = 1 .. (Len(order) + 1)
        /\ order'[Len(order) + 1] = p
        /\ \A i \in DOMAIN order : order'[i] = order[i]
    BY <2>1, AppendProperties DEF IInv, Shape
  <2>3. \A q \in Processes : Enrolled(q)' <=> Enrolled(q) \/ q = p
    BY <2>2 DEF Enrolled
  <2>4. KeysOfLeases'
    <3>1. \A i, j \in DOMAIN order' : order'[i] = order'[j] => i = j
      BY <2>1, <2>2 DEF IInv, KeysOfLeases, Enrolled
    <3>2. keys' = {q \in lease' : Enrolled(q)'}
      BY <2>1, <2>3 DEF IInv, KeysOfLeases, Shape
    <3>3. QED
      BY <1>2, <1>3, <2>3, <3>1, <3>2 DEF IInv, KeysOfLeases
  <2>5. \A q \in keys : Older(q) = {} => Older(q)' = {}
    <3> SUFFICES ASSUME NEW q \in keys, Older(q) = {},
                        NEW x \in keys', NEW i \in DOMAIN order', NEW j \in DOMAIN order',
                        i < j, order'[i] = x, order'[j] = q
                 PROVE  FALSE
      BY DEF Older
    <3>1. j \in DOMAIN order
      BY <1>5, <2>2
    <3>2. i \in DOMAIN order
      BY <2>2, <3>1
    <3>3. x \in keys
      BY <2>1, <2>2, <3>2 DEF Enrolled
    <3>4. QED
      BY <2>2, <3>1, <3>2, <3>3 DEF Older
  <2>6. ElectedIsOldest'
    <3> SUFFICES ASSUME NEW q \in Processes, Contends(q)'
                 PROVE  /\ proc'[q].el = "wait" => q \in keys'
                        /\ proc'[q].el = "observe" \/ proc'[q].starts > 0 \/ sched'[q].running =>
                              q \in keys' /\ Older(q)' = {}
      BY DEF ElectedIsOldest
    <3>1. CASE q # p
      BY <1>2, <2>1, <2>5, <3>1 DEF IInv, ElectedIsOldest, Contends
    <3>2. CASE q = p
      BY <1>3, <1>5, <2>1, <3>2 DEF IInv, ElectedIsOldest, Contends
    <3>3. QED
      BY <3>1, <3>2
  <2>7. QED
    BY <2>4, <2>6 DEF IInv
<1>6. QED
  BY <1>4, <1>5

LEMMA BootKeeps ==
    ASSUME IInv, Shape', NEW p \in Processes, BootElection(p) \/ BootStandalone(p)
    PROVE  IInv'
<1>1. CASE BootElection(p)
  <2> USE <1>1 DEF BootElection
  <2>1. /\ ~Enrolled(p) /\ ~sched[p].running
        /\ proc'[p].starts = 0 /\ proc'[p].el = "campaign" /\ proc'[p].main = "up"
    BY DEF IInv, Shape, KeysOfLeases, NewProcess, ProcessRecord
  <2>2. KeysOfLeases'
    BY <2>1 DEF IInv, Shape, KeysOfLeases, Enrolled
  <2>3. \A q \in Processes : Older(q)' = Older(q)
    BY DEF Older
  <2>4. ElectedIsOldest'
    BY <2>1, <2>3 DEF IInv, Shape, ElectedIsOldest, Contends
  <2>5. QED
    BY <2>2, <2>4 DEF IInv
<1>2. CASE BootStandalone(p)
  <2>1. ~proc'[p].election /\ proc'[p].main # "new"
    <3>1. proc[p] = [NewProcess EXCEPT !.main = "new"]
      BY <1>2 DEF BootStandalone, IInv, KeysOfLeases
    <3>2. proc'[p].election = proc[p].election /\ proc'[p].main \in {"up", "gone"}
      BY <1>2, SMTT(20) DEF BootStandalone, IInv, Shape, ProcessRecord
    <3>3. QED
      BY <3>1, <3>2 DEF NewProcess
  <2>2. \A q \in Processes \ {p} : proc'[q] = proc[q] /\ sched'[q] = sched[q]
    BY <1>2 DEF BootStandalone, IInv, Shape
  <2>3. QED
    BY <1>2, <2>1, <2>2, Local DEF BootStandalone
<1>3. QED
  BY <1>1, <1>2

LEMMA EndKeeps == ASSUME IInv, Shape', NEW p \in Processes, End(p) PROVE IInv'
<1>1. proc'[p].main = "gone"
  BY DEF End, IInv, Shape, NewProcess
<1>2. \A q \in Processes \ {p} : proc'[q] = proc[q] /\ sched'[q] = sched[q]
  BY DEF End, IInv, Shape
<1>3. QED
  BY <1>1, <1>2, Local DEF End

LEMMA NextKeeps == ASSUME IInv, [Next]_vars PROVE IInv'
<1> USE ShapeStep
<1>1. Shape'
  BY DEF IInv
<1> USE <1>1
<1>2. ASSUME NEW p \in Processes, Exit(p) \/ Crash(p) PROVE IInv'
  BY <1>2, EndKeeps DEF Exit, Crash
<1>3. ASSUME NEW p \in Processes, Signal(p) \/ Drained(p) \/ StopBuffer(p) PROVE IInv'
  <2>1. /\ proc'[p].main \notin {"new", "up"} /\ UNCHANGED <<lease, keys, order>>
        /\ \A q \in Processes \ {p} : proc'[q] = proc[q] /\ sched'[q] = sched[q]
    BY <1>3 DEF Signal, Drained, StopBuffer, IInv, Shape, ProcessRecord
  <2>2. QED
    BY <2>1, Local
<1>4. ASSUME NEW p \in Processes, Leave(p) PROVE IInv'
  <2>1. /\ proc'[p].main = "buffer"
        /\ \A q \in Processes \ {p} : proc'[q] = proc[q] /\ sched'[q] = sched[q]
    BY <1>4 DEF Leave, IInv, Shape, ProcessRecord
  <2>2. CASE UNCHANGED <<lease, keys, order>>
    BY <2>1, <2>2, Local
  <2>3. CASE lease' = lease \ {p} /\ keys' = keys \ {p}
    BY <1>4, <2>1, <2>3, SessionEnds DEF Leave
  <2>4. QED
    BY <1>4, <2>2, <2>3 DEF Leave
<1>5. ASSUME NEW p \in Processes, Elected(p) PROVE IInv'
  <2>1. \A q \in Processes \ {p} : proc'[q] = proc[q] /\ sched'[q] = sched[q]
    BY <1>5 DEF Elected, IInv, Shape
  <2>2. /\ proc'[p].main = proc[p].main /\ proc'[p].election = proc[p].election
        /\ proc'[p].el = "observe"
    BY <1>5 DEF Elected, IInv, Shape, ProcessRecord
  <2>3. proc[p].main # "new"
    BY <1>5 DEF Elected, IInv, KeysOfLeases, NewProcess
  <2>4. QED
    BY <1>5, <2>1, <2>2, <2>3, Local DEF Elected
<1>6. ASSUME NEW p \in Processes, Deposed(p) \/ WatchEnds(p) \/ Return(p) PROVE IInv'
  <2>1. /\ \A q \in Processes \ {p} : proc'[q] = proc[q] /\ sched'[q] = sched[q]
        /\ sched'[p] = sched[p] /\ UNCHANGED <<lease, keys, order>>
    BY <1>6 DEF Deposed, WatchEnds, Return, IInv, Shape
  <2>2. /\ proc'[p].main = proc[p].main /\ proc'[p].election = proc[p].election
        /\ proc'[p].starts = proc[p].starts /\ proc'[p].el \in {"campaign", "returned"}
    <3>1. CASE proc' = [proc EXCEPT ![p] = NotLeader(p)]
      BY <3>1, NotLeaderKeeps DEF IInv, Shape
    <3>2. CASE Return(p)
      BY <3>2 DEF Return, IInv, Shape, ProcessRecord
    <3>3. QED
      BY <1>6, <3>1, <3>2 DEF Deposed, WatchEnds
  <2>3. proc[p].main # "new"
    BY <1>6 DEF Deposed, WatchEnds, Return, IInv, KeysOfLeases, NewProcess
  <2>4. QED
    BY <2>1, <2>2, <2>3, Local
<1>7. ASSUME NEW p \in Processes, OnElected(p) PROVE IInv'
  <2>1. /\ \A q \in Processes \ {p} : proc'[q] = proc[q] /\ sched'[q] = sched[q]
        /\ UNCHANGED <<lease, keys, order>> /\ proc[p].starts > 0
    BY <1>7 DEF OnElected, IInv, Shape
  <2>2. /\ proc'[p].main = proc[p].main /\ proc'[p].election = proc[p].election
        /\ proc'[p].el = proc[p].el
    BY <1>7 DEF OnElected, IInv, Shape, ProcessRecord
  <2>3. proc[p].main # "new"
    BY <2>1 DEF IInv, KeysOfLeases, NewProcess
  <2>4. QED
    BY <2>1, <2>2, <2>3, Local
<1>8. ASSUME NEW p \in Processes, OnRevoked(p) PROVE IInv'
  <2>1. CASE End(p)
    BY <2>1, EndKeeps
  <2>2. CASE ~End(p)
    <3>1. /\ \A q \in Processes \ {p} : proc'[q] = proc[q] /\ sched'[q] = sched[q]
          /\ UNCHANGED <<lease, keys, order>> /\ proc[p].stops > 0
      BY <1>8, <2>2 DEF OnRevoked, IInv, Shape
    <3>2. /\ proc'[p].main = proc[p].main /\ proc'[p].election = proc[p].election
          /\ proc'[p].el = proc[p].el /\ proc'[p].starts = proc[p].starts
          /\ sched'[p].running => sched[p].running
      BY <1>8, <2>2 DEF OnRevoked, Stopped, IInv, Shape, ProcessRecord, SchedulerRecord
    <3>3. proc[p].main # "new"
      BY <3>1 DEF IInv, KeysOfLeases, NewProcess
    <3>4. QED
      BY <3>1, <3>2, <3>3, Local
  <2>3. QED
    BY <2>1, <2>2
<1>9. ASSUME NEW p \in Processes, LeaseExpires(p) PROVE IInv'
  BY <1>9, SessionEnds DEF LeaseExpires
<1>10. ASSUME NEW p \in Processes,
              Take(p) \/ Finish(p) \/ WorkersReturn(p) \/ FlushTick(p) \/ LastFlush(p)
       PROVE  IInv'
  <2>1. /\ UNCHANGED <<proc, lease, keys, order>>
        /\ \A q \in Processes : sched'[q].running = sched[q].running
    <3>1. sched \in [Processes -> SchedulerRecord]
      BY DEF IInv, Shape
    <3>2. CASE Finish(p)
      BY <3>1, <3>2 DEF Finish, SchedulerRecord
    <3>3. CASE LastFlush(p)
      BY <3>1, <3>3 DEF LastFlush, SchedulerRecord
    <3>4. CASE Take(p)
      BY <3>1, <3>4 DEF Take, SchedulerRecord
    <3>5. CASE WorkersReturn(p)
      BY <3>1, <3>5 DEF WorkersReturn, SchedulerRecord
    <3>6. CASE FlushTick(p)
      BY <3>1, <3>6 DEF FlushTick, SchedulerRecord
    <3>7. QED
      BY <1>10, <3>2, <3>3, <3>4, <3>5, <3>6
  <2>2. \A q \in Processes : Older(q)' = Older(q)
    BY <2>1 DEF Older
  <2>3. QED
    BY <2>1, <2>2 DEF IInv, KeysOfLeases, ElectedIsOldest, Contends, Enrolled
<1>11. CASE UNCHANGED vars
  <2>1. \A q \in Processes : Older(q)' = Older(q)
    BY <1>11 DEF vars, Older
  <2>2. QED
    BY <1>11, <2>1 DEF vars, IInv, KeysOfLeases, ElectedIsOldest, Contends, Enrolled
<1>12. QED
  BY <1>2, <1>3, <1>4, <1>5, <1>6, <1>7, <1>8, <1>9, <1>10, <1>11, CampaignKeeps, BootKeeps
     DEF Next

LEMMA OldestIsOne == ASSUME IInv PROVE OneScheduler
<1> SUFFICES ASSUME NEW p \in Processes, NEW q \in Processes, p # q, Contends(p), Contends(q),
                    sched[p].running, sched[q].running
             PROVE  FALSE
  BY DEF OneScheduler
<1>1. p \in keys /\ q \in keys /\ Older(p) = {} /\ Older(q) = {}
  BY DEF IInv, ElectedIsOldest
<1>2. PICK i \in DOMAIN order : order[i] = p
  BY <1>1 DEF IInv, KeysOfLeases, Enrolled
<1>3. PICK j \in DOMAIN order : order[j] = q
  BY <1>1 DEF IInv, KeysOfLeases, Enrolled
<1>4. i \in Int /\ j \in Int /\ i # j
  BY <1>2, <1>3 DEF IInv, Shape
<1>5. CASE i < j
  BY <1>1, <1>2, <1>3, <1>5 DEF Older
<1>6. CASE j < i
  BY <1>1, <1>2, <1>3, <1>6 DEF Older
<1>7. QED
  BY <1>4, <1>5, <1>6

\* Two processes that contend never schedule together, whatever sessions are lost, whichever
\* observations end and however late the callbacks run.
THEOREM OneContenderSchedules == Spec => []OneScheduler
<1>1. Init => IInv
  BY Initially
<1>2. IInv /\ [Next]_vars => IInv'
  BY NextKeeps
<1>3. IInv => OneScheduler
  BY OldestIsOne
<1>4. QED
  BY <1>1, <1>2, <1>3, PTL DEF Spec

-----------------------------------------------------------------------------
(* The order of a shutdown *)

\* A final flush follows the close of stopCh; a standalone has no election loop and no callbacks,
\* and its log buffer stops when its workers have returned.
Closing ==
    \A p \in Processes :
        /\ sched[p].flush \in {"final", "done"} => sched[p].closed
        /\ proc[p].main = "leave" => proc[p].election
        /\ ~proc[p].election =>
              /\ proc[p].el = "none" /\ proc[p].starts = 0 /\ proc[p].stops = 0
              /\ proc[p].main \in {"buffer", "http"} => sched[p].pool = "none"

LEMMA ClosingStep ==
    ASSUME Shape, Closing, FlushIsLast, [Next]_vars
    PROVE  Closing' /\ FlushIsLast'
<1> USE DEF Shape, ProcessRecord, SchedulerRecord, Closing, FlushIsLast
<1>1. ASSUME NEW p \in Processes, End(p) PROVE Closing' /\ FlushIsLast'
  BY <1>1 DEF End, NewProcess, NewScheduler
<1>2. ASSUME NEW p \in Processes, OnRevoked(p) PROVE Closing' /\ FlushIsLast'
  <2>1. CASE ~End(p)
    <3>1. /\ proc' = [proc EXCEPT ![p].stops = @ - 1] /\ proc[p].stops > 0
          /\ sched' = [sched EXCEPT ![p] = Stopped(@)]
      BY <1>2, <2>1 DEF OnRevoked
    <3>2. proc[p].election
      BY <3>1
    <3>3. /\ Stopped(sched[p]).flush \in {"final", "done"} => Stopped(sched[p]).closed
          /\ Stopped(sched[p]).flush = "done" => Stopped(sched[p]).dirty # "yes"
      BY DEF Stopped
    <3>4. QED
      BY <3>1, <3>2, <3>3
  <2>2. QED
    BY <1>1, <2>1
<1>3. ASSUME NEW p \in Processes, BootElection(p) PROVE Closing' /\ FlushIsLast'
  BY <1>3 DEF BootElection
<1>4. ASSUME NEW p \in Processes, BootStandalone(p) PROVE Closing' /\ FlushIsLast'
  BY <1>4 DEF BootStandalone, Started
<1>5. ASSUME NEW p \in Processes, Signal(p) PROVE Closing' /\ FlushIsLast'
  BY <1>5 DEF Signal, Stopped
<1>6. ASSUME NEW p \in Processes, Leave(p) PROVE Closing' /\ FlushIsLast'
  BY <1>6 DEF Leave
<1>7. ASSUME NEW p \in Processes, Drained(p) PROVE Closing' /\ FlushIsLast'
  BY <1>7 DEF Drained
<1>8. ASSUME NEW p \in Processes, StopBuffer(p) PROVE Closing' /\ FlushIsLast'
  BY <1>8 DEF StopBuffer
<1>9. ASSUME NEW p \in Processes, Campaign(p) PROVE Closing' /\ FlushIsLast'
  BY <1>9 DEF Campaign
<1>10. ASSUME NEW p \in Processes, Elected(p) PROVE Closing' /\ FlushIsLast'
  BY <1>10 DEF Elected
<1>11. ASSUME NEW p \in Processes, Deposed(p) PROVE Closing' /\ FlushIsLast'
  BY <1>11 DEF Deposed, NotLeader
<1>12. ASSUME NEW p \in Processes, WatchEnds(p) PROVE Closing' /\ FlushIsLast'
  BY <1>12 DEF WatchEnds, NotLeader
<1>13. ASSUME NEW p \in Processes, Return(p) PROVE Closing' /\ FlushIsLast'
  BY <1>13 DEF Return
<1>14. ASSUME NEW p \in Processes, OnElected(p) PROVE Closing' /\ FlushIsLast'
  BY <1>14 DEF OnElected, Started
<1>15. ASSUME NEW p \in Processes, LeaseExpires(p) PROVE Closing' /\ FlushIsLast'
  BY <1>15 DEF LeaseExpires
<1>16. ASSUME NEW p \in Processes, Take(p) PROVE Closing' /\ FlushIsLast'
  BY <1>16 DEF Take
<1>17. ASSUME NEW p \in Processes, Finish(p) PROVE Closing' /\ FlushIsLast'
  BY <1>17 DEF Finish
<1>18. ASSUME NEW p \in Processes, WorkersReturn(p) PROVE Closing' /\ FlushIsLast'
  BY <1>18 DEF WorkersReturn
<1>19. ASSUME NEW p \in Processes, FlushTick(p) PROVE Closing' /\ FlushIsLast'
  BY <1>19 DEF FlushTick
<1>20. ASSUME NEW p \in Processes, LastFlush(p) PROVE Closing' /\ FlushIsLast'
  BY <1>20 DEF LastFlush
<1>21. CASE UNCHANGED vars
  BY <1>21 DEF vars
<1>22. QED
  BY <1>1, <1>2, <1>3, <1>4, <1>5, <1>6, <1>7, <1>8, <1>9, <1>10, <1>11,
     <1>12, <1>13, <1>14, <1>15, <1>16, <1>17, <1>18, <1>19, <1>20, <1>21
     DEF Next, Exit, Crash

\* The final flush has what the workers wrote before Stop, and a standalone's log buffer stops
\* after its last worker, for any number of processes that come and go.
THEOREM ShutdownIsOrdered == Spec => []ShutdownOrder
<1>1. Init => Shape /\ Closing /\ FlushIsLast
  BY Initially DEF IInv, Init, Closing, FlushIsLast, NewProcess, NewScheduler
<1>2. Shape /\ Closing /\ FlushIsLast /\ [Next]_vars => Shape' /\ Closing' /\ FlushIsLast'
  BY ShapeStep, ClosingStep
<1>3. Closing /\ FlushIsLast => ShutdownOrder
  BY DEF Closing, ShutdownOrder, BufferIsLast
<1>4. QED
  BY <1>1, <1>2, <1>3, PTL DEF Spec
-----------------------------------------------------------------------------
(* Types: how many callbacks can be waiting *)

\* A contender goes round the election loop only when an observation ends by itself: deposed,
\* it has no session to campaign with.  So the callbacks that wait are bounded by the
\* observations that have ended.
Rounds ==
    /\ ends \in 0 .. MaxWatchEnds
    /\ \A p \in Processes :
          /\ proc[p].starts <= 1 + ends /\ proc[p].stops <= 1 + ends
          /\ proc[p].el = "wait" => proc[p].starts <= ends
          /\ proc[p].el \in {"wait", "observe"} => proc[p].stops <= ends
          /\ proc[p].el = "campaign" /\ Contends(p) =>
                proc[p].starts <= ends /\ proc[p].stops <= ends

\* A step that starts no callback, enters no new step of the election loop and gains no session.
LEMMA SameRound ==
    ASSUME Shape, Shape', Rounds, NEW p \in Processes, ends' = ends,
           \A q \in Processes \ {p} : proc'[q] = proc[q] /\ (Contends(q)' => Contends(q)),
           proc'[p].starts <= proc[p].starts, proc'[p].stops <= proc[p].stops,
           proc'[p].el \in {proc[p].el, "none", "returned"}, Contends(p)' => Contends(p)
    PROVE  Rounds'
<1> SUFFICES ASSUME NEW q \in Processes
             PROVE  /\ proc'[q].starts <= 1 + ends /\ proc'[q].stops <= 1 + ends
                    /\ proc'[q].el = "wait" => proc'[q].starts <= ends
                    /\ proc'[q].el \in {"wait", "observe"} => proc'[q].stops <= ends
                    /\ proc'[q].el = "campaign" /\ Contends(q)' =>
                          proc'[q].starts <= ends /\ proc'[q].stops <= ends
  BY DEF Rounds
<1>1. /\ proc[q].starts \in Nat /\ proc[q].stops \in Nat
      /\ proc'[q].starts \in Nat /\ proc'[q].stops \in Nat /\ ends \in Int
  BY DEF Shape, ProcessRecord, Rounds
<1>2. proc'[q].starts <= proc[q].starts /\ proc'[q].stops <= proc[q].stops
  BY <1>1
<1>3. proc'[q].el \in {proc[q].el, "none", "returned"} /\ (Contends(q)' => Contends(q))
  OBVIOUS
<1>4. QED
  BY <1>1, <1>2, <1>3 DEF Rounds

\* A contender that observes is not deposed: it has the oldest key.
LEMMA DeposedIsCutOff ==
    ASSUME IInv, NEW p \in Processes, Deposed(p) PROVE ~Contends(p)
<1> SUFFICES ASSUME Contends(p) PROVE FALSE
  OBVIOUS
<1>1. p \in keys /\ Older(p) = {}
  BY DEF Deposed, IInv, ElectedIsOldest
<1>2. PICK q \in Processes \ {p} : q \in keys /\ Older(q) = {}
  BY DEF Deposed, Leading
<1>3. PICK i \in DOMAIN order : order[i] = p
  BY <1>1 DEF IInv, KeysOfLeases, Enrolled
<1>4. PICK j \in DOMAIN order : order[j] = q
  BY <1>2 DEF IInv, KeysOfLeases, Enrolled
<1>5. i \in Int /\ j \in Int /\ i # j
  BY <1>2, <1>3, <1>4 DEF IInv, Shape
<1>6. QED
  BY <1>1, <1>2, <1>3, <1>4, <1>5 DEF Older

LEMMA RoundsStep == ASSUME IInv, Closing, Rounds, [Next]_vars PROVE Rounds'
<1>1. Shape /\ Shape'
  BY ShapeStep DEF IInv
<1>2. ends \in Nat /\ MaxWatchEnds \in Nat
  BY LifeAssumption DEF Rounds
<1>3. \A p \in Processes : proc[p].starts \in Nat /\ proc[p].stops \in Nat
  BY <1>1 DEF Shape, ProcessRecord
<1>4. CASE UNCHANGED <<proc, ends>> /\ lease' \subseteq lease
  BY <1>1, <1>2, <1>3, <1>4 DEF Rounds, Contends
<1>5. ASSUME NEW p \in Processes, End(p) PROVE Rounds'
  <2>1. /\ ends' = ends /\ lease' = lease
        /\ proc' = [proc EXCEPT ![p] = [NewProcess EXCEPT !.main = "gone"]]
    BY <1>5 DEF End
  <2>2. proc'[p].main = "gone" /\ proc'[p].starts = 0 /\ proc'[p].stops = 0 /\ proc'[p].el = "none"
    BY <1>1, <2>1 DEF Shape, NewProcess
  <2>3. \A q \in Processes \ {p} : proc'[q] = proc[q]
    BY <1>1, <2>1 DEF Shape
  <2>4. QED
    BY <1>1, <1>3, <2>1, <2>2, <2>3, SameRound DEF Contends
<1>6. ASSUME NEW p \in Processes, BootElection(p) PROVE Rounds'
  <2>1. proc[p].starts = 0 /\ proc[p].stops = 0
    BY <1>6 DEF BootElection, IInv, KeysOfLeases, NewProcess
  <2>2. /\ proc' = [proc EXCEPT ![p] = [proc[p] EXCEPT !.main = "up", !.election = TRUE,
                                                      !.el = "campaign"]]
        /\ ends' = ends /\ lease' = lease \cup {p}
    BY <1>6 DEF BootElection
  <2>3. /\ proc'[p].starts = 0 /\ proc'[p].stops = 0 /\ proc'[p].el = "campaign"
        /\ \A q \in Processes \ {p} : proc'[q] = proc[q]
    BY <1>1, <2>1, <2>2 DEF Shape, ProcessRecord
  <2>4. QED
    BY <1>2, <2>2, <2>3 DEF Rounds, Contends
\* The steps of main: no callback is started, and none contends who has not.
<1>7. ASSUME NEW p \in Processes,
             BootStandalone(p) \/ Signal(p) \/ Leave(p) \/ Drained(p) \/ StopBuffer(p)
      PROVE  Rounds'
  <2>1. PICK main : proc' = [proc EXCEPT ![p].main = main]
    BY <1>7 DEF BootStandalone, Signal, Leave, Drained, StopBuffer
  <2>2. /\ proc'[p].starts = proc[p].starts /\ proc'[p].stops = proc[p].stops
        /\ proc'[p].el = proc[p].el /\ proc'[p].main = main
        /\ proc'[p].election = proc[p].election
        /\ \A q \in Processes \ {p} : proc'[q] = proc[q]
    BY <1>1, <2>1 DEF Shape, ProcessRecord
  <2>3. ends' = ends /\ lease' \subseteq lease
    BY <1>7 DEF BootStandalone, Signal, Leave, Drained, StopBuffer
  <2>4. ~Contends(p)'
    <3>1. CASE BootStandalone(p)
      BY <2>2, <3>1 DEF BootStandalone, IInv, KeysOfLeases, NewProcess, Contends
    <3>2. CASE Signal(p) \/ Leave(p) \/ Drained(p) \/ StopBuffer(p)
      BY <1>1, <3>2 DEF Signal, Leave, Drained, StopBuffer, Contends, Shape, ProcessRecord
    <3>3. QED
      BY <1>7, <3>1, <3>2
  <2>5. QED
    BY <1>1, <1>3, <2>2, <2>3, <2>4, SameRound DEF Contends
<1>8. ASSUME NEW p \in Processes, Campaign(p) PROVE Rounds'
  <2>1. proc[p].el = "campaign" /\ (proc[p].election => Contends(p))
    BY <1>8 DEF Campaign, Contends
  <2>2. proc[p].election
    BY <1>8 DEF Campaign, Closing
  <2>3. proc' = [proc EXCEPT ![p].el = "wait"] /\ ends' = ends /\ lease' = lease
    BY <1>8 DEF Campaign
  <2>4. QED
    BY <1>1, <1>2, <2>1, <2>2, <2>3 DEF Rounds, Contends, Shape, ProcessRecord
<1>9. ASSUME NEW p \in Processes, Elected(p) PROVE Rounds'
  <2>1. proc[p].el = "wait" /\ ends' = ends /\ lease' = lease
    BY <1>9 DEF Elected
  <2>2. /\ proc'[p].el = "observe" /\ proc'[p].starts = proc[p].starts + 1
        /\ proc'[p].stops = proc[p].stops /\ \A q \in Processes \ {p} : proc'[q] = proc[q]
    BY <1>1, <1>9 DEF Elected, Shape, ProcessRecord
  <2>3. QED
    BY <1>2, <1>3, <2>1, <2>2 DEF Rounds, Contends
<1>10. ASSUME NEW p \in Processes, Deposed(p) \/ WatchEnds(p) PROVE Rounds'
  <2>1. proc[p].el = "observe" /\ lease' = lease /\ proc' = [proc EXCEPT ![p] = NotLeader(p)]
    BY <1>10 DEF Deposed, WatchEnds
  <2>2. /\ proc'[p].starts = proc[p].starts /\ proc'[p].stops = proc[p].stops + 1
        /\ proc'[p].el \in {"campaign", "returned"}
        /\ proc'[p].main = proc[p].main /\ proc'[p].election = proc[p].election
        /\ \A q \in Processes \ {p} : proc'[q] = proc[q]
    <3>1. proc'[p] = NotLeader(p) /\ \A q \in Processes \ {p} : proc'[q] = proc[q]
      BY <1>1, <2>1 DEF Shape
    <3>2. NotLeader(p).stops = proc[p].stops + 1
      <4> DEFINE el == IF proc[p].main = "up" THEN "campaign" ELSE "returned"
      <4>1. NotLeader(p) = [proc[p] EXCEPT !.isLeader = FALSE, !.stops = @ + 1, !.el = el]
        BY DEF NotLeader
      <4> HIDE DEF el
      <4>2. QED
        BY <1>1, <4>1 DEF Shape, ProcessRecord
    <3>3. QED
      BY <1>1, <3>1, <3>2, NotLeaderKeeps
  <2>3. \A q \in Processes : Contends(q)' => Contends(q)
    BY <2>1, <2>2 DEF Contends
  <2>4. CASE Deposed(p)
    <3>1. ends' = ends /\ ~Contends(p)
      BY <2>4, DeposedIsCutOff DEF Deposed
    <3>2. QED
      BY <1>2, <1>3, <2>1, <2>2, <2>3, <3>1 DEF Rounds
  <2>5. CASE WatchEnds(p)
    <3>1. ends' = ends + 1 /\ ends + 1 \in 0 .. MaxWatchEnds
      BY <1>2, <2>5 DEF WatchEnds
    <3>2. QED
      BY <1>2, <1>3, <2>1, <2>2, <2>3, <3>1 DEF Rounds
  <2>6. QED
    BY <1>10, <2>4, <2>5
<1>11. ASSUME NEW p \in Processes, Return(p) PROVE Rounds'
  <2>1. /\ ends' = ends /\ lease' = lease /\ proc'[p].starts = proc[p].starts
        /\ proc'[p].stops = proc[p].stops /\ proc'[p].el = "returned"
        /\ proc'[p].main = proc[p].main /\ proc'[p].election = proc[p].election
        /\ \A q \in Processes \ {p} : proc'[q] = proc[q]
    BY <1>1, <1>11 DEF Return, Shape, ProcessRecord
  <2>2. QED
    BY <1>1, <1>3, <2>1, SameRound DEF Contends
<1>12. ASSUME NEW p \in Processes, OnElected(p) \/ (OnRevoked(p) /\ ~End(p)) PROVE Rounds'
  <2>1. /\ ends' = ends /\ lease' = lease /\ proc'[p].starts <= proc[p].starts
        /\ proc'[p].stops <= proc[p].stops /\ proc'[p].el = proc[p].el
        /\ proc'[p].main = proc[p].main /\ proc'[p].election = proc[p].election
        /\ \A q \in Processes \ {p} : proc'[q] = proc[q]
    <3>1. CASE OnElected(p)
      BY <1>1, <1>3, <3>1 DEF OnElected, Shape, ProcessRecord
    <3>2. CASE OnRevoked(p) /\ ~End(p)
      <4>1. proc' = [proc EXCEPT ![p].stops = @ - 1] /\ lease' = lease /\ ends' = ends
        BY <3>2 DEF OnRevoked
      <4>2. QED
        BY <1>1, <1>3, <4>1 DEF Shape, ProcessRecord
    <3>3. QED
      BY <1>12, <3>1, <3>2
  <2>2. QED
    BY <1>1, <2>1, SameRound DEF Contends
<1>13. QED
  BY <1>4, <1>5, <1>6, <1>7, <1>8, <1>9, <1>10, <1>11, <1>12
     DEF Next, vars, Exit, Crash, LeaseExpires, Take, Finish, WorkersReturn, FlushTick, LastFlush

\* The state keeps its type, whatever happens to the sessions: at most one call of onElected
\* and one of onRevoked more than the observations that have ended by themselves are waiting,
\* and every key belongs to a live session (LeaderElection.Run).
THEOREM TypeCorrect == Spec => []TypeOK
<1>1. Init => IInv /\ Closing /\ FlushIsLast /\ Rounds
  BY Initially, LifeAssumption
     DEF Init, Closing, FlushIsLast, Rounds, NewProcess, NewScheduler
<1>2. IInv /\ Closing /\ FlushIsLast /\ Rounds /\ [Next]_vars
          => (IInv /\ Closing /\ FlushIsLast /\ Rounds)'
  BY NextKeeps, ClosingStep, RoundsStep DEF IInv
<1>3. IInv /\ Rounds => TypeOK
  <2> SUFFICES ASSUME IInv, Rounds PROVE TypeOK
    OBVIOUS
  <2>1. ends \in 0 .. MaxWatchEnds /\ MaxWatchEnds \in Nat
    BY LifeAssumption DEF Rounds
  <2>2. /\ proc \in [Processes -> ProcessRecord] /\ sched \in [Processes -> SchedulerRecord]
        /\ lease \subseteq Processes
    BY DEF IInv, Shape
  <2>3. \A p \in Processes : /\ proc[p].starts \in 0 .. 1 + MaxWatchEnds
                             /\ proc[p].stops \in 0 .. 1 + MaxWatchEnds
    BY <2>1, <2>2 DEF Rounds, ProcessRecord
  <2>4. keys \subseteq lease /\ keys \subseteq ToSet(order)
    BY DEF IInv, KeysOfLeases, Enrolled, ToSet
  <2>5. QED
    BY <2>1, <2>2, <2>3, <2>4 DEF TypeOK, ProcessRecord, SchedulerRecord
<1>4. QED
  BY <1>1, <1>2, <1>3, PTL DEF Spec
=============================================================================
