------------------------------- MODULE Observer -------------------------------
(***************************************************************************)
(* pkg/metrics/observable.go: an observer takes events from the scheduler  *)
(* (or the executor) over channels that never block the caller, and loops  *)
(* of its own turn them into metrics.  Start makes a new stop channel and  *)
(* starts the loops; Stop closes it and waits for them outside the mutex,  *)
(* and a loop reads the field stopCh again before every select.            *)
(* The executor's observer is the one with a single loop and channel.      *)
(***************************************************************************)
EXTENDS Integers, FiniteSets

CONSTANTS
    Stoppers,    \* callers of Stop
    QueueCap,    \* capacity of a channel (triggerChanSize)
    MaxStarts,   \* bound: calls of Start that start
    MaxEvents    \* bound: events that are taken

\* What an observer of either kind has.
Kinds == {"scheduler", "executor"}
Channels == {"trigger", "rateLimited"}
ChannelsOf == [scheduler |-> Channels, executor |-> {"trigger"}]
LoopsOf == [scheduler |-> {"collect", "event"}, executor |-> {"event"}]

VARIABLES
    kind,
    running,
    stopCh,     \* the number of the current stop channel, that of its Start
    closed,     \* the stop channels that are closed
    loop,       \* loop[n][g]: the step of the loop n of Start g, and the channel it watches
    queue,      \* queue[ch]: the events in a channel
    early,      \* history: those of them that were there when Stop closed the channel
    taken,      \* events taken so far
    stop,       \* stop[c]: idle, waiting, or released from wg.Wait and not yet back
    overtaken,  \* history: a Start came while a Stop was waiting
    panicked    \* wg was used again before a Wait had returned

vars == <<kind, running, stopCh, closed, loop, queue, early, taken, stop, overtaken, panicked>>

Starts == 1 .. MaxStarts
NoLoop == [at |-> "none", watch |-> 0]
AllLoops == {"collect", "event"}
Alive(n, g) == loop[n][g].at \notin {"none", "done"}
AliveLoops == {x \in AllLoops \X Starts : Alive(x[1], x[2])}

Init ==
    /\ kind \in Kinds
    /\ running = FALSE /\ stopCh = 0 /\ closed = {}
    /\ loop = [n \in AllLoops |-> [g \in Starts |-> NoLoop]]
    /\ queue = [ch \in Channels |-> 0] /\ early = [ch \in Channels |-> 0]
    /\ taken = 0
    /\ stop = [c \in Stoppers |-> "idle"]
    /\ overtaken = FALSE /\ panicked = FALSE
-----------------------------------------------------------------------------
(* The callers *)

Start ==
    /\ ~running /\ running' = TRUE
    /\ stopCh < MaxStarts /\ stopCh' = stopCh + 1
    /\ loop' = [n \in AllLoops |-> [loop[n] EXCEPT ![stopCh'] =
                   IF n \in LoopsOf[kind] THEN [at |-> "read", watch |-> 0] ELSE @]]
    /\ overtaken' = (overtaken \/ \E c \in Stoppers : stop[c] # "idle")
    /\ UNCHANGED <<kind, closed, queue, early, taken, stop, panicked>>

\* A Stop of an observer that does not run returns at once.
Stop(c) ==
    /\ stop[c] = "idle" /\ running
    /\ running' = FALSE
    /\ closed' = closed \cup {stopCh}
    /\ early' = queue
    /\ stop' = [stop EXCEPT ![c] = IF AliveLoops = {} THEN "idle" ELSE "waiting"]
    /\ UNCHANGED <<kind, stopCh, loop, queue, taken, overtaken, panicked>>

\* wg.Wait of c comes back; it panics when the group has been used again meanwhile.
StopReturns(c) ==
    /\ stop[c] = "released"
    /\ stop' = [stop EXCEPT ![c] = "idle"]
    /\ panicked' = (AliveLoops # {})
    /\ UNCHANGED <<kind, running, stopCh, closed, loop, queue, early, taken, overtaken>>

\* A Notify whose channel is full drops the event.
Notify(ch) ==
    /\ ch \in ChannelsOf[kind]
    /\ taken < MaxEvents /\ taken' = taken + 1
    /\ queue[ch] < QueueCap
    /\ queue' = [queue EXCEPT ![ch] = @ + 1]
    /\ UNCHANGED <<kind, running, stopCh, closed, loop, early, stop, overtaken, panicked>>
-----------------------------------------------------------------------------
(* The loops *)

Goto(n, g, at) == loop' = [loop EXCEPT ![n][g].at = at]

\* The select reads stopCh before it waits.
Read(n, g) ==
    /\ loop[n][g].at = "read"
    /\ loop' = [loop EXCEPT ![n][g] = [at |-> "select", watch |-> stopCh]]
    /\ UNCHANGED <<kind, running, stopCh, closed, queue, early, taken, stop, overtaken, panicked>>

\* The loop returns; the last one releases those that wait.
Return(n, g) ==
    /\ Goto(n, g, "done")
    /\ stop' = IF AliveLoops = {<<n, g>>}
               THEN [c \in Stoppers |-> IF stop[c] = "waiting" THEN "released" ELSE stop[c]]
               ELSE stop
    /\ UNCHANGED <<kind, running, stopCh, closed, queue, early, taken, overtaken, panicked>>

\* The oldest event of a channel is taken out; the loop goes on at at.
Receive(g, ch, at) ==
    /\ queue[ch] > 0
    /\ queue' = [queue EXCEPT ![ch] = @ - 1]
    /\ early' = [early EXCEPT ![ch] = IF @ > 0 THEN @ - 1 ELSE 0]
    /\ Goto("event", g, at)
    /\ UNCHANGED <<kind, running, stopCh, closed, taken, stop, overtaken, panicked>>

\* collectLoop: a tick records the statistics.
CollectLoop(g) ==
    \/ loop["collect"][g].at = "select" /\ loop["collect"][g].watch \in closed
       /\ Return("collect", g)
    \/ /\ loop["collect"][g].at = "select" /\ Goto("collect", g, "record")
       /\ UNCHANGED <<kind, running, stopCh, closed, queue, early, taken, stop, overtaken, panicked>>

\* eventLoop: when several channels are ready, select takes any of them.
EventLoop(g) ==
    /\ loop["event"][g].at = "select"
    /\ \/ /\ loop["event"][g].watch \in closed
          /\ Goto("event", g, "drain")
          /\ UNCHANGED <<kind, running, stopCh, closed, queue, early, taken, stop, overtaken,
                         panicked>>
       \/ \E ch \in Channels : Receive(g, ch, "record")

Record(n, g) ==
    /\ loop[n][g].at = "record"
    /\ Goto(n, g, "read")
    /\ UNCHANGED <<kind, running, stopCh, closed, queue, early, taken, stop, overtaken, panicked>>

\* Mutant of DrainAll: one channel that is empty ends it.
DrainAllOnce(g) ==
    /\ loop["event"][g].at = "drain"
    /\ \/ \E ch \in Channels : Receive(g, ch, "drain")
       \/ (\E ch \in Channels : queue[ch] = 0) /\ Return("event", g)

DrainAll(g) ==
    /\ loop["event"][g].at = "drain"
    /\ \/ \E ch \in Channels : Receive(g, ch, "drain")
       \/ (\A ch \in Channels : queue[ch] = 0) /\ Return("event", g)

Next ==
    /\ ~panicked
    /\ \/ Start
       \/ \E c \in Stoppers : Stop(c) \/ StopReturns(c)
       \/ \E ch \in Channels : Notify(ch)
       \/ \E n \in AllLoops, g \in Starts : Read(n, g) \/ Record(n, g)
       \/ \E g \in Starts : CollectLoop(g) \/ EventLoop(g) \/ DrainAll(g)

Spec == Init /\ [][Next]_vars
-----------------------------------------------------------------------------
TypeOK ==
    /\ kind \in Kinds /\ running \in BOOLEAN
    /\ stopCh \in 0 .. MaxStarts /\ closed \subseteq Starts
    /\ loop \in [AllLoops -> [Starts ->
          [at : {"none", "read", "select", "record", "drain", "done"}, watch : 0 .. MaxStarts]]]
    /\ queue \in [Channels -> 0 .. QueueCap] /\ early \in [Channels -> 0 .. QueueCap]
    /\ \A ch \in Channels : early[ch] <= queue[ch]
    /\ taken \in 0 .. MaxEvents
    /\ stop \in [Stoppers -> {"idle", "waiting", "released"}]
    /\ overtaken \in BOOLEAN /\ panicked \in BOOLEAN

\* As long as no Start comes while a Stop waits: once Stop has returned, no loop is left
\* and every event that was taken before it closed the channel has been recorded
\* (drainAll); and while the observer runs, it has the loops of its last Start and no
\* others, so no event is left to a loop that is about to end.
StopDrains ==
    ~overtaken =>
        /\ ~panicked
        /\ ~running /\ (\A c \in Stoppers : stop[c] = "idle") =>
              AliveLoops = {} /\ \A ch \in Channels : early[ch] = 0
        /\ running => AliveLoops = LoopsOf[kind] \X {stopCh}
=============================================================================
