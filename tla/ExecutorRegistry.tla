-------------------------- MODULE ExecutorRegistry --------------------------
(***************************************************************************)
(* Which executors an admin process routes to.  An executor's registrar    *)
(* registers, beats and deregisters by HTTP; the admin's executor service  *)
(* keeps a row per address in sys_executor and an entry in the in-memory   *)
(* executor store (pkg/executorstore), which is what the scheduler routes  *)
(* by; the store's probe round, its TTL sweep and the service's row sweep  *)
(* run beside them; the entries are lost with the process and read back    *)
(* from the rows by Bootstrap.                                             *)
(*                                                                         *)
(* Times are ages: the time since the last heartbeat, which is told apart  *)
(* up to TTL + 1 only.  A probe holds a pointer to an entry: it is "stale" *)
(* once the store has replaced or removed that entry.  All addresses       *)
(* belong to one application.                                              *)
(***************************************************************************)
EXTENDS Integers

CONSTANTS
    Addrs,             \* executor addresses
    Slots,             \* HTTP requests the admin handles at a time
    TTL,               \* at least 1: HeartbeatTTL, and the service's heartbeatTimeout
    MaxStarts,         \* bound: starts of one executor process
    MaxBoots           \* bound: losses of the admin's memory

Ages == 0 .. TTL + 1
\* Mutant of Older: the age is not cut off.
OlderForEver(age) == age + 1

Older(age) == IF age <= TTL THEN age + 1 ELSE age
NoReq == [op |-> "none"]

VARIABLES
    row,     \* row[a]: the row of address a: its status and the age of heartbeat_time
    entry,   \* entry[a]: the store's entry: present, healthy, the age of its last beat
    probe,   \* probe[a]: the probe of a in the current round, and whether its pointer is stale
    req,     \* req[s]: the request in slot s, its next step, whether its client still waits
    proc,    \* proc[a]: the executor process and its registrar
    starts,  \* starts[a]: how often the process was started
    boot,    \* Bootstrap: "no", "listed" or "done"
    listed,  \* the addresses that ListOnline returned to Bootstrap
    boots,   \* losses of memory so far
    dead,    \* history: how long the process of a has been down
    missed,  \* history: a's entry was lost and no Register of a has come since
    raced    \* history: a call of a failed or was given up, or Bootstrap overtook its leave

storeVars == <<entry, probe>>
bootVars == <<boot, listed, boots>>
procVars == <<proc, starts, dead>>
vars == <<row, storeVars, req, procVars, bootVars, missed, raced>>

Requests == [op : {"register", "heartbeat", "deregister"}, addr : Addrs, waited : BOOLEAN,
             at : {"find", "create", "beatRow", "add", "touch", "remove", "offline"}]

Row == [status : {"none", "online", "offline"}, age : Ages]
Entry == [present : BOOLEAN, healthy : BOOLEAN, age : Ages]

TypeOK ==
    /\ row \in [Addrs -> Row]
    /\ entry \in [Addrs -> Entry]
    /\ probe \in [Addrs -> [at : {"no", "sent", "ok", "failed"}, stale : BOOLEAN]]
    /\ req \in [Slots -> Requests \cup {NoReq}]
    /\ proc \in [Addrs -> {"down", "starting", "idle", "beating", "rejoin", "rejoining",
                           "leaving", "left"}]
    /\ starts \in [Addrs -> 0 .. MaxStarts]
    /\ boot \in {"no", "listed", "done"}
    /\ listed \in SUBSET Addrs
    /\ boots \in 0 .. MaxBoots
    /\ dead \in [Addrs -> Ages]
    /\ missed \in SUBSET Addrs /\ raced \in SUBSET Addrs

NoEntry == [present |-> FALSE, healthy |-> FALSE, age |-> 0]
NoProbe == [at |-> "no", stale |-> FALSE]

Init ==
    /\ row = [a \in Addrs |-> [status |-> "none", age |-> 0]]
    /\ entry = [a \in Addrs |-> NoEntry]
    /\ probe = [a \in Addrs |-> NoProbe]
    /\ req = [s \in Slots |-> NoReq]
    /\ proc = [a \in Addrs |-> "down"]
    /\ starts = [a \in Addrs |-> 0]
    /\ boot = "no" /\ listed = {} /\ boots = 0
    /\ dead = [a \in Addrs |-> 0]
    /\ missed = {} /\ raced = {}
-----------------------------------------------------------------------------
(* What the store answers *)

\* The addresses of the app's group.
listAll == {a \in Addrs : entry[a].present}

\* Mutant of IsOnline: a probe's success is taken for a heartbeat.
IsOnlineByProbe(a) == a \in listAll /\ (entry[a].age < TTL \/ entry[a].healthy)

IsOnline(a) == a \in listAll /\ entry[a].age < TTL
ListOnlineAddresses == {a \in Addrs : IsOnline(a)}
ListHealthyAddresses == {a \in Addrs : IsOnline(a) /\ entry[a].healthy}

\* Store.Register of the addresses in as: fresh entries; probes of the old ones are stale.
Register(as) ==
    /\ entry' = [a \in Addrs |->
         IF a \in as THEN [present |-> TRUE, healthy |-> TRUE, age |-> 0] ELSE entry[a]]
    /\ probe' = [a \in Addrs |->
         IF a \in as /\ probe[a].at # "no" THEN [probe[a] EXCEPT !.stale = TRUE] ELSE probe[a]]
    /\ missed' = missed \ as

\* Store.Heartbeat: an address without an entry is ignored.
Heartbeat(a) ==
    /\ entry' = [entry EXCEPT ![a] =
         IF @.present THEN [present |-> TRUE, healthy |-> TRUE, age |-> 0] ELSE @]
    /\ UNCHANGED <<probe, missed>>

\* Store.Deregister
Deregister(a) ==
    /\ entry' = [entry EXCEPT ![a] = NoEntry]
    /\ probe' = [probe EXCEPT ![a].stale = probe[a].at # "no"]
    /\ UNCHANGED missed
-----------------------------------------------------------------------------
(* The registrar of an executor process *)

\* What the registrar does next when its call has returned.
AfterCall(pc, ok) ==
    CASE pc = "starting"  -> IF ok THEN "idle" ELSE "down"   \* a failed Start is fatal
      [] pc = "beating"   -> IF ok THEN "idle" ELSE "rejoin"
      [] pc = "rejoining" -> "idle"
      [] pc = "leaving"   -> "left"

\* a posts op: a handler takes it, or the admin cannot be reached.
Post(a, op, pc) ==
    /\ \/ \E s \in Slots :
            /\ req[s] = NoReq
            /\ req' = [req EXCEPT ![s] = [op |-> op, addr |-> a, waited |-> TRUE,
                 at |-> IF op = "deregister" THEN "remove" ELSE "find"]]
            /\ proc' = [proc EXCEPT ![a] = pc]
            /\ UNCHANGED raced
       \/ /\ proc' = [proc EXCEPT ![a] = AfterCall(pc, FALSE)]
          /\ raced' = raced \cup {b \in {a} : op = "deregister"}
          /\ UNCHANGED req
    /\ UNCHANGED <<row, storeVars, bootVars, missed>>

\* AutoRegistrar.Start
Start(a) ==
    /\ proc[a] = "down" /\ starts[a] < MaxStarts
    /\ starts' = [starts EXCEPT ![a] = @ + 1]
    /\ dead' = [dead EXCEPT ![a] = 0]
    /\ Post(a, "register", "starting")

\* A tick of beatLoop, and the register that follows a failed heartbeat.
Beat(a) == proc[a] = "idle" /\ Post(a, "heartbeat", "beating") /\ UNCHANGED <<starts, dead>>
Rejoin(a) == proc[a] = "rejoin" /\ Post(a, "register", "rejoining") /\ UNCHANGED <<starts, dead>>

\* AutoRegistrar.Stop, once beatLoop has ended.
Stop(a) == proc[a] = "idle" /\ Post(a, "deregister", "leaving") /\ UNCHANGED <<starts, dead>>

\* The client of slot s gives up (its timeout) while the handler goes on.
GiveUp(s) ==
    /\ req[s] # NoReq /\ req[s].waited
    /\ req' = [req EXCEPT ![s].waited = FALSE]
    /\ proc' = [proc EXCEPT ![req[s].addr] = AfterCall(@, FALSE)]
    /\ raced' = raced \cup {req[s].addr}
    /\ UNCHANGED <<row, storeVars, starts, dead, bootVars, missed>>

Pending(s, a) == req[s] # NoReq /\ req[s].addr = a

\* The process ends: after its shutdown ("left"), or by a crash.
End(a) ==
    /\ proc[a] # "down"
    /\ proc' = [proc EXCEPT ![a] = "down"]
    /\ req' = [s \in Slots |-> IF Pending(s, a)
                               THEN [req[s] EXCEPT !.waited = FALSE] ELSE req[s]]
    /\ raced' = raced \cup {b \in {a} : \E s \in Slots : Pending(s, a)}
    /\ UNCHANGED <<row, storeVars, starts, dead, bootVars, missed>>
-----------------------------------------------------------------------------
(* The executor service: one step per call of the DAO or of the store *)

Goto(s, at) == req' = [req EXCEPT ![s].at = at] /\ UNCHANGED proc

\* The handler of slot s ends; a client that still waits gets its answer.
Reply(s, ok) ==
    /\ req' = [req EXCEPT ![s] = NoReq]
    /\ proc' = IF req[s].waited
               THEN [proc EXCEPT ![req[s].addr] = AfterCall(@, ok)] ELSE proc

\* FindByAppAndAddress.  Without a row Register creates one, a heartbeat becomes a Register,
\* and a deregister is done.
Find(s) ==
    /\ req[s] # NoReq /\ req[s].at = "find"
    /\ LET found == row[req[s].addr].status # "none" IN
       CASE req[s].op = "register"   -> Goto(s, IF found THEN "beatRow" ELSE "create")
         [] req[s].op = "heartbeat"  ->
              IF found THEN Goto(s, "beatRow")
              ELSE req' = [req EXCEPT ![s].op = "register"] /\ UNCHANGED proc
         [] req[s].op = "deregister" -> IF found THEN Goto(s, "offline") ELSE Reply(s, TRUE)
    /\ UNCHANGED <<row, storeVars, starts, dead, bootVars, missed, raced>>

\* Create: the unique key refuses a second row of an address.
Create(s) ==
    /\ req[s] # NoReq /\ req[s].at = "create"
    /\ LET a == req[s].addr IN
       IF row[a].status = "none"
       THEN row' = [row EXCEPT ![a] = [status |-> "online", age |-> 0]] /\ Goto(s, "add")
       ELSE Reply(s, FALSE) /\ UNCHANGED row
    /\ UNCHANGED <<storeVars, starts, dead, bootVars, missed, raced>>

UpdateHeartbeat(s) ==
    /\ req[s] # NoReq /\ req[s].at = "beatRow"
    /\ row' = [row EXCEPT ![req[s].addr] = [status |-> "online", age |-> 0]]
    /\ Goto(s, IF req[s].op = "register" THEN "add" ELSE "touch")
    /\ UNCHANGED <<storeVars, starts, dead, bootVars, missed, raced>>

StoreCall(s) ==
    /\ req[s] # NoReq
    /\ \/ req[s].at = "add" /\ Register({req[s].addr}) /\ Reply(s, TRUE)
       \/ req[s].at = "touch" /\ Heartbeat(req[s].addr) /\ Reply(s, TRUE)
       \/ req[s].at = "remove" /\ Deregister(req[s].addr) /\ Goto(s, "find")
    /\ UNCHANGED <<row, starts, dead, bootVars, raced>>

UpdateStatus(s) ==
    /\ req[s] # NoReq /\ req[s].at = "offline"
    /\ row' = [row EXCEPT ![req[s].addr].status = "offline"]
    /\ Reply(s, TRUE)
    /\ UNCHANGED <<storeVars, starts, dead, bootVars, missed, raced>>

\* A call of the DAO fails (also because the client's context has ended): Register and
\* Heartbeat answer an error; Deregister's handler answers 200 all the same.
DaoFails(s) ==
    /\ req[s] # NoReq /\ req[s].at \in {"find", "create", "beatRow", "offline"}
    /\ Reply(s, req[s].op = "deregister")
    /\ raced' = raced \cup {req[s].addr}
    /\ UNCHANGED <<row, storeVars, starts, dead, bootVars, missed>>
-----------------------------------------------------------------------------
(* Background work of the admin *)

\* Time passes.
Tick ==
    /\ row' = [a \in Addrs |-> [row[a] EXCEPT !.age = Older(@)]]
    /\ entry' = [a \in Addrs |->
         IF entry[a].present THEN [entry[a] EXCEPT !.age = Older(@)] ELSE entry[a]]
    /\ dead' = [a \in Addrs |-> IF proc[a] = "down" THEN Older(dead[a]) ELSE dead[a]]
    /\ <<row', entry', dead'>> # <<row, entry, dead>>
    /\ UNCHANGED <<probe, req, proc, starts, bootVars, missed, raced>>

\* SweepOfflineExecutors, one UPDATE; and sweepTTL, entry by entry.
SweepRows ==
    /\ \E a \in Addrs : row[a].status = "online" /\ row[a].age > TTL
    /\ row' = [a \in Addrs |->
         IF row[a].status = "online" /\ row[a].age > TTL
         THEN [row[a] EXCEPT !.status = "offline"] ELSE row[a]]
    /\ UNCHANGED <<storeVars, req, procVars, bootVars, missed, raced>>

SweepTTL(a) ==
    /\ entry[a].present /\ entry[a].age >= TTL /\ entry[a].healthy
    /\ entry' = [entry EXCEPT ![a].healthy = FALSE]
    /\ UNCHANGED <<row, probe, req, procVars, bootVars, missed, raced>>

\* probeAll takes the entries; Beat of each answers, or fails or times out (which also stands
\* for the wait for the semaphore); probeOne writes the result to the entry it holds.  The round
\* ends when every probe has.
ProbeRound ==
    /\ \A a \in Addrs : probe[a].at = "no"
    /\ listAll # {}
    /\ probe' = [a \in Addrs |->
         IF a \in listAll THEN [at |-> "sent", stale |-> FALSE] ELSE NoProbe]
    /\ UNCHANGED <<row, entry, req, procVars, bootVars, missed, raced>>

ProbeAnswer(a) ==
    /\ probe[a].at = "sent"
    /\ \E result \in {"failed"} \cup {r \in {"ok"} : proc[a] \notin {"down", "starting"}} :
         probe' = [probe EXCEPT ![a].at = result]
    /\ UNCHANGED <<row, entry, req, procVars, bootVars, missed, raced>>

\* Mutant of ProbeOne: the result is stored under the address, not in the entry held.
ProbeOneByAddress(a) ==
    /\ probe[a].at \in {"ok", "failed"}
    /\ entry' = [entry EXCEPT ![a].present = TRUE, ![a].healthy = (probe[a].at = "ok")]
    /\ probe' = [probe EXCEPT ![a] = NoProbe]
    /\ UNCHANGED <<row, req, procVars, bootVars, missed, raced>>

ProbeOne(a) ==
    /\ probe[a].at \in {"ok", "failed"}
    /\ entry' = IF probe[a].stale THEN entry
                ELSE [entry EXCEPT ![a].healthy = (probe[a].at = "ok")]
    /\ probe' = [probe EXCEPT ![a] = NoProbe]
    /\ UNCHANGED <<row, req, procVars, bootVars, missed, raced>>

\* Scheduler.Start: ListOnline, then Bootstrap; requests are handled in between.
ListOnline ==
    /\ boot = "no"
    /\ boot' = "listed"
    /\ listed' = {a \in Addrs : row[a].status = "online"}
    /\ UNCHANGED <<row, storeVars, req, procVars, boots, missed, raced>>

Bootstrap ==
    /\ boot = "listed"
    /\ boot' = "done"
    /\ listed' = {}
    /\ Register(listed)
    /\ raced' = raced \cup {a \in listed : \/ row[a].status = "offline"
                                          \/ proc[a] \in {"leaving", "left", "down"}}
    /\ UNCHANGED <<row, req, procVars, boots>>

\* The admin process ends and a new one starts: the store and the handlers are gone, and the
\* clients that wait get an error.
Restart ==
    /\ boots < MaxBoots
    /\ boots' = boots + 1
    /\ boot' = "no" /\ listed' = {}
    /\ entry' = [a \in Addrs |-> NoEntry]
    /\ probe' = [a \in Addrs |-> NoProbe]
    /\ missed' = missed \cup listAll
    /\ LET waiting == {a \in Addrs : \E s \in Slots : Pending(s, a) /\ req[s].waited}
       IN /\ proc' = [a \in Addrs |-> IF a \in waiting THEN AfterCall(proc[a], FALSE) ELSE proc[a]]
          /\ raced' = raced \cup waiting
    /\ req' = [s \in Slots |-> NoReq]
    /\ UNCHANGED <<row, starts, dead>>
-----------------------------------------------------------------------------
Handler(s) == Find(s) \/ Create(s) \/ UpdateHeartbeat(s) \/ StoreCall(s) \/ UpdateStatus(s)

Next ==
    \/ \E a \in Addrs : Start(a) \/ Beat(a) \/ Rejoin(a) \/ Stop(a) \/ End(a)
    \/ \E s \in Slots : GiveUp(s) \/ Handler(s) \/ DaoFails(s)
    \/ Tick \/ SweepRows \/ ProbeRound \/ ListOnline \/ Bootstrap \/ Restart
    \/ \E a \in Addrs : SweepTTL(a) \/ ProbeAnswer(a) \/ ProbeOne(a)

Spec == Init /\ [][Next]_vars

-----------------------------------------------------------------------------
\* An executor whose calls all took effect and that has left is in no route, and its row is
\* offline: no heartbeat, probe or bootstrap brings it back.
CleanLeaveIsFinal ==
    \A a \in Addrs : proc[a] = "left" /\ a \notin raced =>
        ~entry[a].present /\ row[a].status = "offline"

\* Between two calls that took effect, an executor is in the store (unless the store was lost),
\* the store has heard of it no earlier than the table, and the row sweep has taken it offline
\* only for silence.
BeatingIsRouted ==
    \A a \in Addrs : proc[a] = "idle" /\ a \notin raced =>
        /\ a \notin missed => entry[a].present /\ entry[a].age <= row[a].age
        /\ row[a].status = "online" \/ row[a].age > TTL

\* TTL after the process of an executor has ended, with no call under way, no route leads to it.
DeadIsDropped ==
    \A a \in Addrs : dead[a] >= TTL /\ a \notin raced =>
        a \notin ListOnlineAddresses \cup ListHealthyAddresses

\* Routes follow the heartbeats: whoever beats is routed to, and whoever is dead is not; a late
\* success of a probe revives nobody, and neither sweep overrules a heartbeat (ExecutorService,
\* Store.Heartbeat, probeOne, sweepTTL).
RoutesFollowBeats == BeatingIsRouted /\ DeadIsDropped
=============================================================================
