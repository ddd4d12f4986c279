---------------------------- MODULE ClusterProofs ----------------------------
(***************************************************************************)
(* For every value of the constants, what the parts of the cluster         *)
(* promise: the executor registry, the rate limiter, the job service, the  *)
(* routers, the script engines, the templates and the observers.  Each has *)
(* an inductive invariant of its own; the cluster's is that of the part    *)
(* that is on.                                                             *)
(***************************************************************************)
EXTENDS MCCluster, Sequences, TLAPS, FiniteSetTheorems, WellFoundedInduction

-----------------------------------------------------------------------------
(* Division *)

LEMMA Division ==
    ASSUME NEW a \in Int, NEW b \in Int, b > 0
    PROVE  /\ a \div b \in Int /\ a % b \in 0 .. b - 1
           /\ a = b * (a \div b) + (a % b)
<1>1. a \div b \in Int /\ a % b \in 0 .. b - 1
  OBVIOUS
<1>2. a = b * (a \div b) + (a % b)
  BY Z3T(30)
<1>3. QED
  BY <1>1, <1>2

LEMMA ProductGrows ==
    ASSUME NEW b \in Int, b > 0, NEW x \in Int, NEW y \in Int, x < y
    PROVE  b * x + b <= b * y
<1>1. b * (y - x) >= b
  OBVIOUS
<1>2. b * (y - x) = b * y - b * x
  OBVIOUS
<1>3. b * x \in Int /\ b * y \in Int
  OBVIOUS
<1> QED BY <1>1, <1>2, <1>3

LEMMA DivisionUnique ==
    ASSUME NEW a \in Int, NEW b \in Int, b > 0, NEW q \in Int, NEW r \in 0 .. b - 1, a = b * q + r
    PROVE  a \div b = q /\ a % b = r
<1> DEFINE d == a \div b
           m == a % b
<1>1. d \in Int /\ m \in 0 .. b - 1 /\ a = b * d + m
  BY Division
<1> HIDE DEF d, m
<1>2. b * d \in Int /\ b * q \in Int
  BY <1>1
<1>3. ~(d < q)
  <2> SUFFICES ASSUME d < q PROVE FALSE OBVIOUS
  <2>1. b * d + b <= b * q
    BY <1>1, ProductGrows
  <2> QED BY <1>1, <1>2, <2>1
<1>4. ~(q < d)
  <2> SUFFICES ASSUME q < d PROVE FALSE OBVIOUS
  <2>1. b * q + b <= b * d
    BY <1>1, ProductGrows
  <2> QED BY <1>1, <1>2, <2>1
<1>5. d = q
  BY <1>1, <1>3, <1>4
<1> QED BY <1>1, <1>2, <1>5 DEF d, m

\* A count of ticks moves on by one: a level's turn ends, or it does not.
LEMMA NextQuotient ==
    ASSUME NEW a \in Int, NEW b \in Int, b > 0
    PROVE  /\ (a + 1) % b = 0 => (a + 1) \div b = a \div b + 1 /\ a + 1 = b * (a \div b + 1)
           /\ (a + 1) % b # 0 => (a + 1) \div b = a \div b
<1> DEFINE d == a \div b
           m == a % b
<1>1. d \in Int /\ m \in 0 .. b - 1 /\ a = b * d + m /\ b * d \in Int
  BY Division
<1> HIDE DEF d, m
<1>2. CASE m = b - 1
  <2>1. b * (d + 1) = b * d + b
    BY <1>1
  <2>2. a + 1 = b * (d + 1) + 0 /\ d + 1 \in Int
    BY <1>1, <1>2, <2>1
  <2>3. (a + 1) \div b = d + 1 /\ (a + 1) % b = 0
    BY <2>2, DivisionUnique
  <2> QED BY <2>2, <2>3 DEF d
<1>3. CASE m # b - 1
  <2>1. a + 1 = b * d + (m + 1) /\ m + 1 \in 0 .. b - 1
    BY <1>1, <1>3
  <2>2. (a + 1) \div b = d /\ (a + 1) % b = m + 1
    BY <1>1, <2>1, DivisionUnique
  <2>3. m + 1 # 0
    BY <1>1
  <2> QED BY <2>2, <2>3 DEF d
<1> QED BY <1>2, <1>3

-----------------------------------------------------------------------------
(* The executor registry *)

\* The row says online, or the sweep has taken it offline for silence.
Heard(a) == row[a].status = "online" \/ (row[a].status = "offline" /\ row[a].age > TTL)

\* Where the request q of the executor a may be.
Stage(q, a) ==
    \/ /\ proc[a] = "starting" /\ q.op = "register"
       /\ q.at \in {"find", "create", "beatRow", "add"}
       /\ q.at = "add" => Heard(a)
    \/ proc[a] = "beating" /\ q.op = "heartbeat" /\ q.at \in {"find", "beatRow", "touch"}
    \/ proc[a] = "rejoining" /\ q.op = "register" /\ q.at \in {"find", "beatRow", "add"}
    \/ /\ proc[a] = "leaving" /\ q.op = "deregister"
       /\ q.at = "remove" \/ (q.at \in {"find", "offline"} /\ ~listing[a].present)

\* What table and store know of the executor a.
Standing(a) ==
    /\ proc[a] \in {"idle", "rejoin", "beating", "rejoining"} =>
          Heard(a) /\ (a \notin missed => listing[a].present)
    /\ proc[a] \in {"idle", "rejoin"} /\ a \notin missed => listing[a].age <= row[a].age
    /\ proc[a] = "leaving" => row[a].status # "none"
    /\ proc[a] = "left" => ~listing[a].present /\ row[a].status = "offline"
    /\ listing[a].present => dead[a] <= listing[a].age

Sound(a) ==
    /\ Standing(a)
    /\ \A s \in Slots : Executors!Pending(s, a) => req[s].waited /\ Stage(req[s], a)

\* A client waits for the request in slot s.
Waited(s) == req[s] # Executors!NoReq /\ req[s].waited
Waiting == {"starting", "beating", "rejoining", "leaving"}

\* A client waits for one request at a time; a process that is up has not been
\* down for a while; and executors none of whose calls went astray are sound.
ExeInv ==
    /\ Executors!TypeOK
    /\ \A s \in Slots : Waited(s) => proc[req[s].addr] \in Waiting
    /\ \A s, t \in Slots : Waited(s) /\ Waited(t) /\ req[s].addr = req[t].addr => s = t
    /\ \A a \in Addrs : proc[a] # "down" => dead[a] = 0
    /\ \A a \in Addrs \ raced : Sound(a)

LEMMA ExeBounds == TTL \in Nat /\ MaxStarts \in Nat /\ MaxBoots \in Nat
BY ClusterAssumption

LEMMA AfterCallIs ==
    /\ Executors!AfterCall("starting", TRUE) = "idle"
    /\ Executors!AfterCall("starting", FALSE) = "down"
    /\ Executors!AfterCall("beating", TRUE) = "idle"
    /\ Executors!AfterCall("beating", FALSE) = "rejoin"
    /\ \A ok \in BOOLEAN : /\ Executors!AfterCall("rejoining", ok) = "idle"
                           /\ Executors!AfterCall("leaving", ok) = "left"
BY DEF Executors!AfterCall

LEMMA AfterCallEnds ==
    ASSUME NEW pc0 \in Waiting, NEW ok \in BOOLEAN
    PROVE  Executors!AfterCall(pc0, ok) \in {"down", "idle", "rejoin", "left"}
BY AfterCallIs DEF Waiting

LEMMA ExeInitially == ASSUME Executors!Init PROVE ExeInv
<1> USE ExeBounds DEF Executors!Init
<1>1. Executors!TypeOK
  BY DEF Executors!TypeOK, Executors!Row, Executors!Entry, Executors!Ages, Executors!NoEntry,
         Executors!NoProbe
<1>2. QED
  BY <1>1 DEF ExeInv, Waited, Sound, Standing, Executors!Pending, Executors!NoEntry

\* The fields of one executor, and that a request is none of no requests.
LEMMA ExeTyped ==
    ASSUME Executors!TypeOK
    PROVE  /\ \A a \in Addrs :
                 /\ row[a] \in Executors!Row /\ row[a].age \in 0 .. TTL + 1
                 /\ listing[a] \in Executors!Entry /\ listing[a].age \in 0 .. TTL + 1
                 /\ listing[a].present \in BOOLEAN /\ dead[a] \in 0 .. TTL + 1
           /\ \A s \in Slots : req[s] # Executors!NoReq =>
                 /\ req[s] \in Executors!Requests /\ req[s].addr \in Addrs
                 /\ req[s].waited \in BOOLEAN
           /\ Executors!NoReq \notin Executors!Requests
<1>1. Executors!NoReq \notin Executors!Requests
  BY DEF Executors!NoReq, Executors!Requests
<1>2. ASSUME NEW a \in Addrs
      PROVE  /\ row[a] \in Executors!Row /\ row[a].age \in 0 .. TTL + 1
             /\ listing[a] \in Executors!Entry /\ listing[a].age \in 0 .. TTL + 1
             /\ listing[a].present \in BOOLEAN /\ dead[a] \in 0 .. TTL + 1
  BY DEF Executors!TypeOK, Executors!Row, Executors!Entry, Executors!Ages
<1>3. ASSUME NEW s \in Slots, req[s] # Executors!NoReq
      PROVE  /\ req[s] \in Executors!Requests /\ req[s].addr \in Addrs
             /\ req[s].waited \in BOOLEAN
  BY <1>3 DEF Executors!TypeOK, Executors!Requests
<1>4. QED
  BY <1>1, <1>2, <1>3

\* A step that touches nothing of the executor b.
LEMMA Untouched ==
    ASSUME ExeInv, NEW b \in Addrs \ raced, row'[b] = row[b], proc'[b] = proc[b],
           listing'[b].present = listing[b].present, listing'[b].age = listing[b].age,
           dead'[b] = dead[b], b \in missed' <=> b \in missed,
           \A s \in Slots : Executors!Pending(s, b)' => req'[s] = req[s]
    PROVE  Sound(b)'
<1>1. Sound(b)
  BY DEF ExeInv
<1>2. Standing(b)'
  BY <1>1 DEF Sound, Standing, Heard
<1>3. ASSUME NEW s \in Slots, Executors!Pending(s, b)'
      PROVE  (req[s].waited /\ Stage(req[s], b))'
  <2>1. req'[s] = req[s] /\ Executors!Pending(s, b)
    BY <1>3 DEF Executors!Pending
  <2>2. req[s].waited /\ Stage(req[s], b)
    BY <1>1, <2>1 DEF Sound
  <2>3. QED
    BY <2>1, <2>2 DEF Stage, Heard
<1>4. QED
  BY <1>2, <1>3 DEF Sound

LEMMA OnlyPending ==
    ASSUME ExeInv, NEW a \in Addrs \ raced, NEW s \in Slots, Executors!Pending(s, a)
    PROVE  /\ Waited(s) /\ Stage(req[s], a) /\ Standing(a)
           /\ \A t \in Slots : Executors!Pending(t, a) => t = s
BY DEF ExeInv, Sound, Executors!Pending, Waited

\* A step of the handler in slot s, or of its client: what others have is untouched, and what
\* the executor of the request has is right, if its calls have not gone astray.
LEMMA HandlerKeeps ==
    ASSUME ExeInv, NEW s \in Slots, req[s] # Executors!NoReq, Executors!TypeOK',
           NEW a \in Addrs, a = req[s].addr, raced \subseteq raced', UNCHANGED dead,
           \A t \in Slots \ {s} : req'[t] = req[t],
           \/ req'[s] = Executors!NoReq
           \/ req'[s].addr = a /\ (req'[s].waited => req[s].waited),
           \A b \in Addrs \ {a} :
              /\ row'[b] = row[b] /\ proc'[b] = proc[b] /\ listing'[b] = listing[b]
              /\ b \in missed' <=> b \in missed,
           \/ proc'[a] = proc[a]
           \/ Waited(s) /\ ~Waited(s)' /\ proc'[a] \in {"down", "idle", "rejoin", "left"},
           a \notin raced' => Standing(a)',
           a \notin raced' /\ req'[s] # Executors!NoReq => (req[s].waited /\ Stage(req[s], a))'
    PROVE  ExeInv'
<1>1. \A t \in Slots : Waited(t)' => Waited(t) /\ req'[t].addr = req[t].addr
  BY DEF Waited
<1>2. \A t \in Slots : Waited(t)' => proc'[req'[t].addr] \in Waiting
  <2> SUFFICES ASSUME NEW t \in Slots, Waited(t)' PROVE proc'[req'[t].addr] \in Waiting
    OBVIOUS
  <2>1. Waited(t) /\ req'[t].addr = req[t].addr /\ req[t].addr \in Addrs
    BY <1>1, ExeTyped DEF Waited, ExeInv
  <2>2. proc[req[t].addr] \in Waiting
    BY <2>1 DEF ExeInv
  <2>3. CASE req[t].addr # a
    BY <2>1, <2>2, <2>3
  <2>4. CASE req[t].addr = a
    <3>1. proc'[a] = proc[a]
      <4> SUFFICES ASSUME Waited(s), ~Waited(s)' PROVE FALSE
        OBVIOUS
      <4>1. t = s
        BY <2>1, <2>4 DEF ExeInv
      <4>2. QED
        BY <4>1
    <3>2. QED
      BY <2>1, <2>2, <2>4, <3>1
  <2>5. QED
    BY <2>3, <2>4
<1>3. \A t, u \in Slots : Waited(t)' /\ Waited(u)' /\ req'[t].addr = req'[u].addr => t = u
  BY <1>1 DEF ExeInv
<1>4. \A b \in Addrs : proc'[b] # "down" => dead'[b] = 0
  <2>1. ASSUME NEW b \in Addrs, proc'[b] # "down" PROVE dead'[b] = 0
    <3>1. CASE proc'[b] = proc[b]
      BY <2>1, <3>1 DEF ExeInv
    <3>2. CASE proc'[b] # proc[b]
      <4>1. b = a /\ Waited(s)
        BY <3>2
      <4>2. proc[a] \in Waiting
        BY <4>1 DEF ExeInv
      <4>3. QED
        BY <4>1, <4>2 DEF ExeInv, Waiting
    <3>3. QED
      BY <3>1, <3>2
  <2>2. QED
    BY <2>1
<1>5. ASSUME NEW b \in Addrs \ raced', b # a PROVE Sound(b)'
  <2>1. \A t \in Slots : Executors!Pending(t, b)' => req'[t] = req[t]
    BY <1>5 DEF Executors!Pending
  <2>2. QED
    BY <1>5, <2>1, Untouched
<1>6. ASSUME a \notin raced' PROVE Sound(a)'
  <2>1. Executors!Pending(s, a)
    BY DEF Executors!Pending
  <2>2. \A t \in Slots : Executors!Pending(t, a)' => t = s
    BY <1>6, <2>1, OnlyPending DEF Executors!Pending
  <2>3. ASSUME NEW t \in Slots, Executors!Pending(t, a)'
        PROVE  (req[t].waited /\ Stage(req[t], a))'
    <3>1. t = s /\ req'[s] # Executors!NoReq
      BY <2>2, <2>3 DEF Executors!Pending
    <3>2. (req[s].waited /\ Stage(req[s], a))'
      BY <1>6, <3>1
    <3>3. QED
      BY <3>1, <3>2
  <2>4. QED
    BY <1>6, <2>3 DEF Sound
<1>7. QED
  BY <1>2, <1>3, <1>4, <1>5, <1>6 DEF ExeInv

\* What a handler's end, and its passing to the next step, do to requests and processes.
LEMMA ReplyIs ==
    ASSUME ExeInv, NEW s \in Slots, req[s] # Executors!NoReq, NEW a \in Addrs, a = req[s].addr,
           NEW ok \in BOOLEAN, Executors!Reply(s, ok)
    PROVE  /\ req' \in [Slots -> Executors!Requests \cup {Executors!NoReq}]
           /\ req'[s] = Executors!NoReq
           /\ \A t \in Slots \ {s} : req'[t] = req[t]
           /\ \A b \in Addrs \ {a} : proc'[b] = proc[b]
           /\ proc' \in [Addrs -> Waiting \cup {"down", "idle", "rejoin", "left"}]
           /\ \/ proc'[a] = proc[a]
              \/ Waited(s) /\ ~Waited(s)' /\ proc'[a] \in {"down", "idle", "rejoin", "left"}
           /\ a \notin raced => proc'[a] = Executors!AfterCall(proc[a], ok)
<1>1. /\ req \in [Slots -> Executors!Requests \cup {Executors!NoReq}]
      /\ proc \in [Addrs -> Waiting \cup {"down", "idle", "rejoin", "left"}]
  BY DEF ExeInv, Executors!TypeOK, Waiting
<1>2. /\ req' = [req EXCEPT ![s] = Executors!NoReq]
      /\ proc' = IF req[s].waited
                 THEN [proc EXCEPT ![a] = Executors!AfterCall(proc[a], ok)] ELSE proc
  BY DEF Executors!Reply
<1>3. req[s].waited => proc[a] \in Waiting
  BY DEF ExeInv, Waited
<1>4. req[s].waited => Executors!AfterCall(proc[a], ok) \in {"down", "idle", "rejoin", "left"}
  BY <1>3, AfterCallEnds
<1>5. a \notin raced => req[s].waited
  BY DEF ExeInv, Sound, Executors!Pending
<1>6. /\ req'[s] = Executors!NoReq
      /\ \A t \in Slots \ {s} : req'[t] = req[t]
      /\ req' \in [Slots -> Executors!Requests \cup {Executors!NoReq}]
  BY <1>1, <1>2
<1>7. ~Waited(s)'
  BY <1>6 DEF Waited
<1>8. CASE req[s].waited
  <2> HIDE DEF Waiting
  <2>1. proc' = [proc EXCEPT ![a] = Executors!AfterCall(proc[a], ok)]
    BY <1>2, <1>8
  <2>2. /\ \A b \in Addrs \ {a} : proc'[b] = proc[b]
        /\ proc'[a] = Executors!AfterCall(proc[a], ok)
        /\ proc' \in [Addrs -> Waiting \cup {"down", "idle", "rejoin", "left"}]
    BY <1>1, <1>4, <1>8, <2>1
  <2>3. Waited(s)
    BY <1>8 DEF Waited
  <2>4. QED
    BY <1>4, <1>6, <1>7, <1>8, <2>2, <2>3
<1>9. CASE ~req[s].waited
  BY <1>1, <1>2, <1>5, <1>6, <1>9
<1>10. QED
  BY <1>8, <1>9, ExeTyped DEF ExeInv

LEMMA GotoIs ==
    ASSUME ExeInv, NEW s \in Slots, req[s] # Executors!NoReq,
           NEW at \in {"find", "create", "beatRow", "add", "touch", "remove", "offline"},
           Executors!Goto(s, at)
    PROVE  /\ req' \in [Slots -> Executors!Requests \cup {Executors!NoReq}]
           /\ \A t \in Slots \ {s} : req'[t] = req[t]
           /\ req'[s].op = req[s].op /\ req'[s].addr = req[s].addr
           /\ req'[s].waited = req[s].waited /\ req'[s].at = at
           /\ proc' = proc
<1>1. req[s] \in Executors!Requests
  BY ExeTyped DEF ExeInv
<1>2. req \in [Slots -> Executors!Requests \cup {Executors!NoReq}]
  BY DEF ExeInv, Executors!TypeOK
<1>3. req' = [req EXCEPT ![s].at = at] /\ proc' = proc
  BY DEF Executors!Goto
<1>4. req'[s] = [req[s] EXCEPT !.at = at]
  BY <1>2, <1>3
<1>5. [req[s] EXCEPT !.at = at] \in Executors!Requests
  BY <1>1 DEF Executors!Requests
<1>6. /\ req'[s].op = req[s].op /\ req'[s].addr = req[s].addr
      /\ req'[s].waited = req[s].waited /\ req'[s].at = at
  BY <1>1, <1>4 DEF Executors!Requests
<1>7. QED
  BY <1>2, <1>3, <1>4, <1>5, <1>6

LEMMA FindKeeps ==
    ASSUME ExeInv, NEW s \in Slots, NEW a \in Addrs, a = req[s].addr,
           Executors!Find(s)
    PROVE  ExeInv'
<1> DEFINE found == row[a].status # "none"
<1>1. /\ req[s] # Executors!NoReq /\ req[s].at = "find"
      /\ UNCHANGED <<row, listing, probe, starts, dead, boot, listed, boots, missed, raced>>
  BY DEF Executors!Find, Executors!storeVars, Executors!bootVars
<1>2. a \in Addrs /\ req[s] \in Executors!Requests
  BY <1>1, ExeTyped DEF ExeInv
<1>3. a \notin raced => Waited(s) /\ Stage(req[s], a) /\ Standing(a)
  BY <1>1, <1>2, OnlyPending DEF Executors!Pending
<1>4. CASE req[s].op = "register"
  <2> DEFINE at == IF found THEN "beatRow" ELSE "create"
  <2>1. Executors!Goto(s, at)
    BY <1>4 DEF Executors!Find
  <2>2. /\ req' \in [Slots -> Executors!Requests \cup {Executors!NoReq}]
        /\ \A t \in Slots \ {s} : req'[t] = req[t]
        /\ req'[s].op = req[s].op /\ req'[s].addr = req[s].addr
        /\ req'[s].waited = req[s].waited /\ req'[s].at = at
        /\ proc' = proc
    BY <1>1, <2>1, GotoIs
  <2>3. Executors!TypeOK'
    BY <1>1, <2>2 DEF ExeInv, Executors!TypeOK
  <2>4. a \notin raced => Standing(a)'
    BY <1>1, <1>3, <2>2 DEF Standing, Heard
  <2>5. a \notin raced => (req[s].waited /\ Stage(req[s], a))'
    BY <1>1, <1>3, <1>4, <2>2 DEF Stage, Standing, Heard, Waited
  <2> HIDE DEF at
  <2>6. QED
    BY <1>1, <1>2, <2>2, <2>3, <2>4, <2>5, HandlerKeeps
<1>5. CASE req[s].op = "heartbeat" /\ found
  <2>1. Executors!Goto(s, "beatRow")
    BY <1>5 DEF Executors!Find
  <2>2. /\ req' \in [Slots -> Executors!Requests \cup {Executors!NoReq}]
        /\ \A t \in Slots \ {s} : req'[t] = req[t]
        /\ req'[s].op = req[s].op /\ req'[s].addr = req[s].addr
        /\ req'[s].waited = req[s].waited /\ req'[s].at = "beatRow"
        /\ proc' = proc
    BY <1>1, <2>1, GotoIs
  <2>3. Executors!TypeOK'
    BY <1>1, <2>2 DEF ExeInv, Executors!TypeOK
  <2>4. a \notin raced => Standing(a)'
    BY <1>1, <1>3, <2>2 DEF Standing, Heard
  <2>5. a \notin raced => (req[s].waited /\ Stage(req[s], a))'
    BY <1>1, <1>3, <1>5, <2>2 DEF Stage, Waited
  <2>6. QED
    BY <1>1, <1>2, <2>2, <2>3, <2>4, <2>5, HandlerKeeps
<1>6. CASE req[s].op = "heartbeat" /\ ~found
  <2>1. req' = [req EXCEPT ![s].op = "register"] /\ proc' = proc
    BY <1>6 DEF Executors!Find
  <2>2. req \in [Slots -> Executors!Requests \cup {Executors!NoReq}]
    BY DEF ExeInv, Executors!TypeOK
  <2>3. req'[s] = [req[s] EXCEPT !.op = "register"] /\ \A t \in Slots \ {s} : req'[t] = req[t]
    BY <2>1, <2>2
  <2>4. /\ req'[s] \in Executors!Requests
        /\ req'[s].addr = req[s].addr /\ req'[s].waited = req[s].waited
    BY <1>2, <2>3 DEF Executors!Requests
  <2>5. req' \in [Slots -> Executors!Requests \cup {Executors!NoReq}]
    BY <2>1, <2>2, <2>3, <2>4
  <2>6. Executors!TypeOK'
    BY <1>1, <2>1, <2>5 DEF ExeInv, Executors!TypeOK
  <2>7. a \in raced
    BY <1>3, <1>6 DEF Stage, Standing, Heard
  <2>8. QED
    BY <1>1, <1>2, <2>1, <2>3, <2>4, <2>6, <2>7, HandlerKeeps
<1>7. CASE req[s].op = "deregister" /\ found
  <2>1. Executors!Goto(s, "offline")
    BY <1>7 DEF Executors!Find
  <2>2. /\ req' \in [Slots -> Executors!Requests \cup {Executors!NoReq}]
        /\ \A t \in Slots \ {s} : req'[t] = req[t]
        /\ req'[s].op = req[s].op /\ req'[s].addr = req[s].addr
        /\ req'[s].waited = req[s].waited /\ req'[s].at = "offline"
        /\ proc' = proc
    BY <1>1, <2>1, GotoIs
  <2>3. Executors!TypeOK'
    BY <1>1, <2>2 DEF ExeInv, Executors!TypeOK
  <2>4. a \notin raced => Standing(a)'
    BY <1>1, <1>3, <2>2 DEF Standing, Heard
  <2>5. a \notin raced => (req[s].waited /\ Stage(req[s], a))'
    BY <1>1, <1>3, <1>7, <2>2 DEF Stage, Waited
  <2>6. QED
    BY <1>1, <1>2, <2>2, <2>3, <2>4, <2>5, HandlerKeeps
<1>8. CASE req[s].op = "deregister" /\ ~found
  <2>1. Executors!Reply(s, TRUE)
    BY <1>8 DEF Executors!Find
  <2>2. /\ req' \in [Slots -> Executors!Requests \cup {Executors!NoReq}]
        /\ req'[s] = Executors!NoReq
        /\ \A t \in Slots \ {s} : req'[t] = req[t]
        /\ \A b \in Addrs \ {a} : proc'[b] = proc[b]
        /\ proc' \in [Addrs -> Waiting \cup {"down", "idle", "rejoin", "left"}]
        /\ \/ proc'[a] = proc[a]
           \/ Waited(s) /\ ~Waited(s)' /\ proc'[a] \in {"down", "idle", "rejoin", "left"}
    BY <1>1, <1>2, <2>1, ReplyIs
  <2>3. Executors!TypeOK'
    BY <1>1, <2>2 DEF ExeInv, Executors!TypeOK, Waiting
  <2>4. a \in raced
    BY <1>3, <1>8 DEF Stage, Standing
  <2>5. QED
    BY <1>1, <1>2, <2>2, <2>3, <2>4, HandlerKeeps
<1>9. QED
  BY <1>2, <1>4, <1>5, <1>6, <1>7, <1>8 DEF Executors!Requests

LEMMA CreateKeeps ==
    ASSUME ExeInv, NEW s \in Slots, NEW a \in Addrs, a = req[s].addr,
           Executors!Create(s)
    PROVE  ExeInv'
<1>1. /\ req[s] # Executors!NoReq /\ req[s].at = "create"
      /\ UNCHANGED <<listing, probe, starts, dead, boot, listed, boots, missed, raced>>
  BY DEF Executors!Create, Executors!storeVars, Executors!bootVars
<1>2. a \in Addrs
  BY <1>1, ExeTyped DEF ExeInv
<1>3. a \notin raced => Waited(s) /\ Stage(req[s], a) /\ Standing(a)
  BY <1>1, <1>2, OnlyPending DEF Executors!Pending
<1>4. CASE row[a].status = "none"
  <2>1. /\ row' = [row EXCEPT ![a] = [status |-> "online", age |-> 0]]
        /\ Executors!Goto(s, "add")
    BY <1>4 DEF Executors!Create
  <2>2. /\ req' \in [Slots -> Executors!Requests \cup {Executors!NoReq}]
        /\ \A t \in Slots \ {s} : req'[t] = req[t]
        /\ req'[s].op = req[s].op /\ req'[s].addr = req[s].addr
        /\ req'[s].waited = req[s].waited /\ req'[s].at = "add"
        /\ proc' = proc
    BY <1>1, <2>1, GotoIs
  <2>3. row \in [Addrs -> Executors!Row]
    BY DEF ExeInv, Executors!TypeOK
  <2>4. /\ row'[a].status = "online" /\ \A b \in Addrs \ {a} : row'[b] = row[b]
        /\ row' \in [Addrs -> Executors!Row]
    BY <1>2, <2>1, <2>3, ExeBounds DEF Executors!Row, Executors!Ages
  <2>5. Executors!TypeOK'
    BY <1>1, <2>2, <2>4 DEF ExeInv, Executors!TypeOK
  <2>6. a \notin raced => proc[a] = "starting" /\ req[s].op = "register" /\ req[s].waited
    BY <1>1, <1>3 DEF Stage, Waited
  <2>7. a \notin raced => Standing(a)' /\ (req[s].waited /\ Stage(req[s], a))'
    BY <1>1, <1>3, <2>2, <2>4, <2>6 DEF Standing, Heard, Stage
  <2>8. QED
    BY <1>1, <1>2, <2>2, <2>4, <2>5, <2>7, HandlerKeeps
<1>5. CASE row[a].status # "none"
  <2>1. row' = row /\ Executors!Reply(s, FALSE)
    BY <1>5 DEF Executors!Create
  <2>2. /\ req' \in [Slots -> Executors!Requests \cup {Executors!NoReq}]
        /\ req'[s] = Executors!NoReq
        /\ \A t \in Slots \ {s} : req'[t] = req[t]
        /\ \A b \in Addrs \ {a} : proc'[b] = proc[b]
        /\ proc' \in [Addrs -> Waiting \cup {"down", "idle", "rejoin", "left"}]
        /\ \/ proc'[a] = proc[a]
           \/ Waited(s) /\ ~Waited(s)' /\ proc'[a] \in {"down", "idle", "rejoin", "left"}
        /\ a \notin raced => proc'[a] = Executors!AfterCall(proc[a], FALSE)
    BY <1>1, <1>2, <2>1, ReplyIs
  <2>3. Executors!TypeOK'
    BY <1>1, <2>1, <2>2 DEF ExeInv, Executors!TypeOK, Waiting
  <2>4. a \notin raced => proc'[a] = "down"
    BY <1>1, <1>3, <2>2, AfterCallIs DEF Stage
  <2>5. a \notin raced => Standing(a)'
    BY <1>1, <1>3, <2>1, <2>4 DEF Standing
  <2>6. QED
    BY <1>1, <1>2, <2>1, <2>2, <2>3, <2>5, HandlerKeeps
<1>6. QED
  BY <1>4, <1>5

LEMMA UpdateHeartbeatKeeps ==
    ASSUME ExeInv, NEW s \in Slots, NEW a \in Addrs, a = req[s].addr,
           Executors!UpdateHeartbeat(s)
    PROVE  ExeInv'
<1> DEFINE at == IF req[s].op = "register" THEN "add" ELSE "touch"
<1>1. /\ req[s] # Executors!NoReq /\ req[s].at = "beatRow"
      /\ row' = [row EXCEPT ![a] = [status |-> "online", age |-> 0]]
      /\ Executors!Goto(s, at)
      /\ UNCHANGED <<listing, probe, starts, dead, boot, listed, boots, missed, raced>>
  BY DEF Executors!UpdateHeartbeat, Executors!storeVars, Executors!bootVars
<1>2. a \in Addrs
  BY <1>1, ExeTyped DEF ExeInv
<1>3. a \notin raced => Waited(s) /\ Stage(req[s], a) /\ Standing(a)
  BY <1>1, <1>2, OnlyPending DEF Executors!Pending
<1>4. /\ req' \in [Slots -> Executors!Requests \cup {Executors!NoReq}]
      /\ \A t \in Slots \ {s} : req'[t] = req[t]
      /\ req'[s].op = req[s].op /\ req'[s].addr = req[s].addr
      /\ req'[s].waited = req[s].waited /\ req'[s].at = at
      /\ proc' = proc
  BY <1>1, GotoIs
<1>5. row \in [Addrs -> Executors!Row]
  BY DEF ExeInv, Executors!TypeOK
<1>6. /\ row'[a].status = "online" /\ \A b \in Addrs \ {a} : row'[b] = row[b]
      /\ row' \in [Addrs -> Executors!Row]
  BY <1>1, <1>2, <1>5, ExeBounds DEF Executors!Row, Executors!Ages
<1>7. Executors!TypeOK'
  BY <1>1, <1>4, <1>6 DEF ExeInv, Executors!TypeOK
<1>8. a \notin raced =>
        /\ req[s].waited
        /\ \/ proc[a] \in {"starting", "rejoining"} /\ req[s].op = "register"
           \/ proc[a] = "beating" /\ req[s].op = "heartbeat"
  BY <1>1, <1>3 DEF Stage, Waited
<1>9. a \notin raced => Standing(a)' /\ (req[s].waited /\ Stage(req[s], a))'
  BY <1>1, <1>3, <1>4, <1>6, <1>8 DEF Standing, Heard, Stage
<1> HIDE DEF at
<1>10. QED
  BY <1>1, <1>2, <1>4, <1>6, <1>7, <1>9, HandlerKeeps

LEMMA UpdateStatusKeeps ==
    ASSUME ExeInv, NEW s \in Slots, NEW a \in Addrs, a = req[s].addr,
           Executors!UpdateStatus(s)
    PROVE  ExeInv'
<1>1. /\ req[s] # Executors!NoReq /\ req[s].at = "offline"
      /\ row' = [row EXCEPT ![a].status = "offline"]
      /\ Executors!Reply(s, TRUE)
      /\ UNCHANGED <<listing, probe, starts, dead, boot, listed, boots, missed, raced>>
  BY DEF Executors!UpdateStatus, Executors!storeVars, Executors!bootVars
<1>2. a \in Addrs
  BY <1>1, ExeTyped DEF ExeInv
<1>3. a \notin raced => Waited(s) /\ Stage(req[s], a) /\ Standing(a)
  BY <1>1, <1>2, OnlyPending DEF Executors!Pending
<1>4. /\ req' \in [Slots -> Executors!Requests \cup {Executors!NoReq}]
      /\ req'[s] = Executors!NoReq
      /\ \A t \in Slots \ {s} : req'[t] = req[t]
      /\ \A b \in Addrs \ {a} : proc'[b] = proc[b]
      /\ proc' \in [Addrs -> Waiting \cup {"down", "idle", "rejoin", "left"}]
      /\ \/ proc'[a] = proc[a]
         \/ Waited(s) /\ ~Waited(s)' /\ proc'[a] \in {"down", "idle", "rejoin", "left"}
      /\ a \notin raced => proc'[a] = Executors!AfterCall(proc[a], TRUE)
  BY <1>1, <1>2, ReplyIs
<1>5. row \in [Addrs -> Executors!Row]
  BY DEF ExeInv, Executors!TypeOK
<1>6. /\ row'[a].status = "offline" /\ \A b \in Addrs \ {a} : row'[b] = row[b]
      /\ row' \in [Addrs -> Executors!Row]
  BY <1>1, <1>2, <1>5 DEF Executors!Row
<1>7. Executors!TypeOK'
  BY <1>1, <1>4, <1>6 DEF ExeInv, Executors!TypeOK, Waiting
<1>8. a \notin raced => proc'[a] = "left" /\ ~listing[a].present
  BY <1>1, <1>3, <1>4, AfterCallIs DEF Stage
<1>9. a \notin raced => Standing(a)'
  BY <1>1, <1>6, <1>8 DEF Standing
<1>10. QED
  BY <1>1, <1>2, <1>4, <1>6, <1>7, <1>9, HandlerKeeps

LEMMA DaoFailsKeeps ==
    ASSUME ExeInv, NEW s \in Slots, NEW a \in Addrs, a = req[s].addr,
           Executors!DaoFails(s)
    PROVE  ExeInv'
<1> DEFINE ok == req[s].op = "deregister"
<1>1. /\ req[s] # Executors!NoReq
      /\ Executors!Reply(s, ok)
      /\ raced' = raced \cup {a}
      /\ UNCHANGED <<row, listing, probe, starts, dead, boot, listed, boots, missed>>
  BY DEF Executors!DaoFails, Executors!storeVars, Executors!bootVars
<1>2. a \in Addrs /\ ok \in BOOLEAN
  BY <1>1, ExeTyped DEF ExeInv
<1> HIDE DEF ok
<1>3. /\ req' \in [Slots -> Executors!Requests \cup {Executors!NoReq}]
      /\ req'[s] = Executors!NoReq
      /\ \A t \in Slots \ {s} : req'[t] = req[t]
      /\ \A b \in Addrs \ {a} : proc'[b] = proc[b]
      /\ proc' \in [Addrs -> Waiting \cup {"down", "idle", "rejoin", "left"}]
      /\ \/ proc'[a] = proc[a]
         \/ Waited(s) /\ ~Waited(s)' /\ proc'[a] \in {"down", "idle", "rejoin", "left"}
  BY <1>1, <1>2, ReplyIs
<1>4. Executors!TypeOK'
  BY <1>1, <1>2, <1>3 DEF ExeInv, Executors!TypeOK, Waiting
<1>5. QED
  BY <1>1, <1>2, <1>3, <1>4, HandlerKeeps

LEMMA GiveUpKeeps ==
    ASSUME ExeInv, NEW s \in Slots, NEW a \in Addrs, a = req[s].addr,
           Executors!GiveUp(s)
    PROVE  ExeInv'
<1>1. /\ req[s] # Executors!NoReq /\ req[s].waited
      /\ req' = [req EXCEPT ![s].waited = FALSE]
      /\ proc' = [proc EXCEPT ![a] = Executors!AfterCall(proc[a], FALSE)]
      /\ raced' = raced \cup {a}
      /\ UNCHANGED <<row, listing, probe, starts, dead, boot, listed, boots, missed>>
  BY DEF Executors!GiveUp, Executors!storeVars, Executors!bootVars
<1>2. a \in Addrs /\ req[s] \in Executors!Requests
  BY <1>1, ExeTyped DEF ExeInv
<1>3. /\ req \in [Slots -> Executors!Requests \cup {Executors!NoReq}]
      /\ proc \in [Addrs -> Waiting \cup {"down", "idle", "rejoin", "left"}]
  BY DEF ExeInv, Executors!TypeOK, Waiting
<1>4. req'[s] = [req[s] EXCEPT !.waited = FALSE] /\ \A t \in Slots \ {s} : req'[t] = req[t]
  BY <1>1, <1>3
<1>5. /\ req'[s] \in Executors!Requests
      /\ req'[s].addr = req[s].addr /\ req'[s].waited = FALSE
  BY <1>2, <1>4 DEF Executors!Requests
<1>6. req' \in [Slots -> Executors!Requests \cup {Executors!NoReq}]
  BY <1>1, <1>3, <1>4, <1>5
<1>7. Executors!AfterCall(proc[a], FALSE) \in {"down", "idle", "rejoin", "left"}
  BY <1>1, AfterCallEnds DEF ExeInv, Waited
<1>8. /\ \A b \in Addrs \ {a} : proc'[b] = proc[b]
      /\ proc'[a] \in {"down", "idle", "rejoin", "left"}
      /\ proc' \in [Addrs -> Waiting \cup {"down", "idle", "rejoin", "left"}]
  BY <1>1, <1>2, <1>3, <1>7
<1>9. Executors!TypeOK'
  BY <1>1, <1>2, <1>6, <1>8 DEF ExeInv, Executors!TypeOK, Waiting
<1>10. Waited(s) /\ ~Waited(s)'
  BY <1>1, <1>5 DEF Waited
<1>11. QED
  BY <1>1, <1>2, <1>4, <1>5, <1>8, <1>9, <1>10, HandlerKeeps

LEMMA StoreCallKeeps ==
    ASSUME ExeInv, NEW s \in Slots, NEW a \in Addrs, a = req[s].addr,
           Executors!StoreCall(s)
    PROVE  ExeInv'
<1>1. /\ req[s] # Executors!NoReq
      /\ UNCHANGED <<row, starts, dead, boot, listed, boots, raced>>
  BY DEF Executors!StoreCall, Executors!bootVars
<1>2. a \in Addrs
  BY <1>1, ExeTyped DEF ExeInv
<1>3. a \notin raced => Waited(s) /\ Stage(req[s], a) /\ Standing(a)
  BY <1>1, <1>2, OnlyPending DEF Executors!Pending
<1>4. row[a].age \in 0 .. TTL + 1 /\ dead[a] \in 0 .. TTL + 1
  BY <1>2, ExeTyped DEF ExeInv
<1>5. proc[a] # "down" => dead[a] = 0
  BY <1>2 DEF ExeInv
<1>6. /\ listing \in [Addrs -> Executors!Entry]
      /\ probe \in [Addrs -> [at : {"no", "sent", "ok", "failed"}, stale : BOOLEAN]]
      /\ missed \in SUBSET Addrs
  BY DEF ExeInv, Executors!TypeOK
<1>7. CASE req[s].at = "add" /\ Executors!Register({a}) /\ Executors!Reply(s, TRUE)
  <2>1. /\ req' \in [Slots -> Executors!Requests \cup {Executors!NoReq}]
        /\ req'[s] = Executors!NoReq
        /\ \A t \in Slots \ {s} : req'[t] = req[t]
        /\ \A b \in Addrs \ {a} : proc'[b] = proc[b]
        /\ proc' \in [Addrs -> Waiting \cup {"down", "idle", "rejoin", "left"}]
        /\ \/ proc'[a] = proc[a]
           \/ Waited(s) /\ ~Waited(s)' /\ proc'[a] \in {"down", "idle", "rejoin", "left"}
        /\ a \notin raced => proc'[a] = Executors!AfterCall(proc[a], TRUE)
    BY <1>1, <1>2, <1>7, ReplyIs
  <2>2. /\ listing' \in [Addrs -> Executors!Entry]
        /\ listing'[a].present /\ listing'[a].age = 0
        /\ \A b \in Addrs \ {a} : listing'[b] = listing[b]
    BY <1>2, <1>6, <1>7, ExeBounds DEF Executors!Register, Executors!Entry, Executors!Ages
  <2>3. probe' \in [Addrs -> [at : {"no", "sent", "ok", "failed"}, stale : BOOLEAN]]
    BY <1>6, <1>7 DEF Executors!Register
  <2>4. missed' = missed \ {a}
    BY <1>7 DEF Executors!Register
  <2>5. Executors!TypeOK'
    BY <1>1, <2>1, <2>2, <2>3, <2>4 DEF ExeInv, Executors!TypeOK, Waiting
  <2>6. a \notin raced => proc'[a] = "idle" /\ Heard(a) /\ dead[a] = 0
    BY <1>3, <1>5, <1>7, <2>1, AfterCallIs DEF Stage, Standing
  <2>7. a \notin raced => Standing(a)'
    BY <1>1, <1>4, <2>2, <2>6 DEF Standing, Heard
  <2>8. QED
    BY <1>1, <1>2, <2>1, <2>2, <2>4, <2>5, <2>7, HandlerKeeps
<1>8. CASE req[s].at = "touch" /\ Executors!Heartbeat(a) /\ Executors!Reply(s, TRUE)
  <2>1. /\ req' \in [Slots -> Executors!Requests \cup {Executors!NoReq}]
        /\ req'[s] = Executors!NoReq
        /\ \A t \in Slots \ {s} : req'[t] = req[t]
        /\ \A b \in Addrs \ {a} : proc'[b] = proc[b]
        /\ proc' \in [Addrs -> Waiting \cup {"down", "idle", "rejoin", "left"}]
        /\ \/ proc'[a] = proc[a]
           \/ Waited(s) /\ ~Waited(s)' /\ proc'[a] \in {"down", "idle", "rejoin", "left"}
        /\ a \notin raced => proc'[a] = Executors!AfterCall(proc[a], TRUE)
    BY <1>1, <1>2, <1>8, ReplyIs
  <2>2. /\ listing' \in [Addrs -> Executors!Entry]
        /\ listing'[a].present = listing[a].present
        /\ listing[a].present => listing'[a].age = 0
        /\ \A b \in Addrs \ {a} : listing'[b] = listing[b]
    <3> DEFINE fresh == [present |-> TRUE, healthy |-> TRUE, age |-> 0]
    <3>1. listing' = [listing EXCEPT ![a] = IF listing[a].present THEN fresh ELSE listing[a]]
      BY <1>8 DEF Executors!Heartbeat
    <3>2. fresh \in Executors!Entry /\ fresh.present = TRUE /\ fresh.age = 0
      BY ExeBounds DEF Executors!Entry, Executors!Ages
    <3>3. listing[a].present \in BOOLEAN
      BY <1>2, ExeTyped DEF ExeInv
    <3> HIDE DEF fresh
    <3>4. CASE listing[a].present
      BY <1>2, <1>6, <3>1, <3>2, <3>4
    <3>5. CASE ~listing[a].present
      BY <1>2, <1>6, <3>1, <3>5
    <3>6. QED
      BY <3>4, <3>5
  <2>3. probe' = probe /\ missed' = missed
    BY <1>8 DEF Executors!Heartbeat
  <2>4. Executors!TypeOK'
    BY <1>1, <2>1, <2>2, <2>3 DEF ExeInv, Executors!TypeOK, Waiting
  <2>5. a \notin raced => proc[a] = "beating" /\ proc'[a] = "idle" /\ Standing(a) /\ dead[a] = 0
    BY <1>3, <1>5, <1>8, <2>1, AfterCallIs DEF Stage
  <2>6. a \notin raced => Standing(a)'
    BY <1>1, <1>4, <2>2, <2>3, <2>5 DEF Standing, Heard
  <2>7. QED
    BY <1>1, <1>2, <2>1, <2>2, <2>3, <2>4, <2>6, HandlerKeeps
<1>9. CASE req[s].at = "remove" /\ Executors!Deregister(a) /\ Executors!Goto(s, "find")
  <2>1. /\ req' \in [Slots -> Executors!Requests \cup {Executors!NoReq}]
        /\ \A t \in Slots \ {s} : req'[t] = req[t]
        /\ req'[s].op = req[s].op /\ req'[s].addr = req[s].addr
        /\ req'[s].waited = req[s].waited /\ req'[s].at = "find"
        /\ proc' = proc
    BY <1>1, <1>9, GotoIs
  <2>2. /\ listing' \in [Addrs -> Executors!Entry]
        /\ ~listing'[a].present
        /\ \A b \in Addrs \ {a} : listing'[b] = listing[b]
    BY <1>2, <1>6, <1>9, ExeBounds
    DEF Executors!Deregister, Executors!NoEntry, Executors!Entry, Executors!Ages
  <2>3. probe' \in [Addrs -> [at : {"no", "sent", "ok", "failed"}, stale : BOOLEAN]]
    BY <1>2, <1>6, <1>9 DEF Executors!Deregister
  <2>4. missed' = missed
    BY <1>9 DEF Executors!Deregister
  <2>5. Executors!TypeOK'
    BY <1>1, <2>1, <2>2, <2>3, <2>4 DEF ExeInv, Executors!TypeOK
  <2>6. a \notin raced =>
           proc[a] = "leaving" /\ req[s].op = "deregister" /\ req[s].waited /\ Standing(a)
    BY <1>3, <1>9 DEF Stage, Waited
  <2>7. a \notin raced => Standing(a)' /\ (req[s].waited /\ Stage(req[s], a))'
    BY <1>1, <2>1, <2>2, <2>6 DEF Standing, Stage
  <2>8. QED
    BY <1>1, <1>2, <2>1, <2>2, <2>4, <2>5, <2>7, HandlerKeeps
<1>10. QED
  BY <1>7, <1>8, <1>9 DEF Executors!StoreCall

\* A call is posted: the executor waits for nothing, so no handler has a request of it that
\* anyone waits for.
LEMMA PostKeeps ==
    ASSUME ExeInv, NEW a \in Addrs, NEW op, NEW pc0, Executors!Post(a, op, pc0),
           \/ /\ op = "register" /\ pc0 = "starting" /\ proc[a] = "down"
              /\ starts' \in [Addrs -> 0 .. MaxStarts] /\ dead' = [dead EXCEPT ![a] = 0]
           \/ /\ UNCHANGED <<starts, dead>>
              /\ \/ op = "heartbeat" /\ pc0 = "beating" /\ proc[a] = "idle"
                 \/ op = "register" /\ pc0 = "rejoining" /\ proc[a] = "rejoin"
                 \/ op = "deregister" /\ pc0 = "leaving" /\ proc[a] = "idle"
    PROVE  ExeInv'
<1>1. UNCHANGED <<row, listing, probe, boot, listed, boots, missed>>
  BY DEF Executors!Post, Executors!storeVars, Executors!bootVars
<1>2. \A t \in Slots : Waited(t) => req[t].addr # a
  BY DEF ExeInv, Waiting
<1>3. /\ req \in [Slots -> Executors!Requests \cup {Executors!NoReq}]
      /\ proc \in [Addrs -> Waiting \cup {"down", "idle", "rejoin", "left"}]
      /\ starts \in [Addrs -> 0 .. MaxStarts] /\ dead \in [Addrs -> 0 .. TTL + 1]
      /\ raced \in SUBSET Addrs
  BY DEF ExeInv, Executors!TypeOK, Waiting, Executors!Ages
<1>4. starts' \in [Addrs -> 0 .. MaxStarts] /\ dead' \in [Addrs -> 0 .. TTL + 1]
  BY <1>3, ExeBounds
<1>5. \A b \in Addrs \ {a} : dead'[b] = dead[b]
  BY <1>3
<1>6. dead'[a] = 0
  BY <1>3 DEF ExeInv
<1>7. /\ listing[a].age \in 0 .. TTL + 1
      /\ a \notin raced => Standing(a)
  BY ExeTyped DEF ExeInv, Sound
<1>8. a \notin raced => \A t \in Slots : ~Executors!Pending(t, a)
  BY <1>2 DEF ExeInv, Sound, Executors!Pending, Waited
<1>9. CASE \E s \in Slots :
             /\ req[s] = Executors!NoReq
             /\ req' = [req EXCEPT ![s] = [op |-> op, addr |-> a, waited |-> TRUE,
                          at |-> IF op = "deregister" THEN "remove" ELSE "find"]]
             /\ proc' = [proc EXCEPT ![a] = pc0]
             /\ UNCHANGED raced
  <2> DEFINE q == [op |-> op, addr |-> a, waited |-> TRUE,
                   at |-> IF op = "deregister" THEN "remove" ELSE "find"]
  <2>1. PICK s \in Slots : /\ req[s] = Executors!NoReq /\ req' = [req EXCEPT ![s] = q]
                           /\ proc' = [proc EXCEPT ![a] = pc0] /\ raced' = raced
    BY <1>9
  <2>2. /\ q \in Executors!Requests /\ q.addr = a /\ q.waited /\ q.op = op
        /\ q.at = IF op = "deregister" THEN "remove" ELSE "find"
    BY DEF Executors!Requests
  <2> HIDE DEF q
  <2>3. /\ req' \in [Slots -> Executors!Requests \cup {Executors!NoReq}]
        /\ req'[s] = q /\ \A t \in Slots \ {s} : req'[t] = req[t]
    BY <1>3, <2>1, <2>2
  <2>4. /\ proc' \in [Addrs -> Waiting \cup {"down", "idle", "rejoin", "left"}]
        /\ proc'[a] = pc0 /\ pc0 \in Waiting /\ \A b \in Addrs \ {a} : proc'[b] = proc[b]
    BY <1>3, <2>1 DEF Waiting
  <2>5. Executors!TypeOK'
    BY <1>1, <1>4, <2>1, <2>3, <2>4 DEF ExeInv, Executors!TypeOK, Waiting, Executors!Ages
  <2>6. \A t \in Slots \ {s} : Waited(t)' => Waited(t) /\ req'[t] = req[t]
    BY <2>3 DEF Waited
  <2>7. \A t \in Slots : Waited(t)' => proc'[req'[t].addr] \in Waiting
    <3>1. ASSUME NEW t \in Slots \ {s}, Waited(t)' PROVE proc'[req'[t].addr] \in Waiting
      <4>1. Waited(t) /\ req'[t] = req[t]
        BY <2>6, <3>1
      <4>2. req[t].addr # a /\ req[t].addr \in Addrs /\ proc[req[t].addr] \in Waiting
        BY <1>2, <4>1, ExeTyped DEF ExeInv, Waited
      <4>3. QED
        BY <2>4, <4>1, <4>2
    <3>2. QED
      BY <2>2, <2>3, <2>4, <3>1
  <2>8. \A t, u \in Slots : Waited(t)' /\ Waited(u)' /\ req'[t].addr = req'[u].addr => t = u
    BY <1>2, <2>2, <2>3, <2>6 DEF ExeInv
  <2>9. \A b \in Addrs : proc'[b] # "down" => dead'[b] = 0
    BY <1>5, <1>6, <2>4 DEF ExeInv
  <2>10. ASSUME NEW b \in Addrs \ raced', b # a PROVE Sound(b)'
    <3>1. \A t \in Slots : Executors!Pending(t, b)' => req'[t] = req[t]
      BY <2>2, <2>3, <2>10 DEF Executors!Pending
    <3>2. QED
      BY <1>1, <1>5, <2>1, <2>4, <2>10, <3>1, Untouched
  <2>11. ASSUME a \notin raced' PROVE Sound(a)'
    <3>1. Standing(a)'
      BY <1>1, <1>6, <1>7, <2>1, <2>4, <2>11 DEF Standing, Heard
    <3>2. ASSUME NEW t \in Slots, Executors!Pending(t, a)'
          PROVE  (req[t].waited /\ Stage(req[t], a))'
      <4>1. t = s
        BY <1>8, <2>1, <2>3, <2>11, <3>2 DEF Executors!Pending
      <4>2. QED
        BY <2>2, <2>3, <2>4, <4>1 DEF Stage
    <3>3. QED
      BY <3>1, <3>2 DEF Sound
  <2>12. QED
    BY <2>5, <2>7, <2>8, <2>9, <2>10, <2>11 DEF ExeInv
<1>10. CASE /\ proc' = [proc EXCEPT ![a] = Executors!AfterCall(pc0, FALSE)]
            /\ raced' = raced \cup {b \in {a} : op = "deregister"}
            /\ UNCHANGED req
  <2> DEFINE end == Executors!AfterCall(pc0, FALSE)
  <2>1. /\ end \in {"down", "idle", "rejoin", "left"}
        /\ pc0 = "starting" => end = "down"
        /\ pc0 = "beating" => end = "rejoin"
        /\ pc0 = "rejoining" => end = "idle"
    BY AfterCallIs
  <2> HIDE DEF end
  <2>2. /\ proc' \in [Addrs -> Waiting \cup {"down", "idle", "rejoin", "left"}]
        /\ proc'[a] = end /\ \A b \in Addrs \ {a} : proc'[b] = proc[b]
    BY <1>3, <1>10, <2>1 DEF end
  <2>3. raced \subseteq raced' /\ raced' \in SUBSET Addrs /\ req' = req
    BY <1>3, <1>10
  <2>4. Executors!TypeOK'
    BY <1>1, <1>4, <2>2, <2>3 DEF ExeInv, Executors!TypeOK, Waiting, Executors!Ages
  <2>5. \A t \in Slots : Waited(t)' => Waited(t) /\ req'[t].addr # a
    BY <1>2, <2>3 DEF Waited
  <2>6. \A t \in Slots : Waited(t)' => proc'[req'[t].addr] \in Waiting
    <3>1. ASSUME NEW t \in Slots, Waited(t)' PROVE proc'[req'[t].addr] \in Waiting
      <4>1. /\ req[t].addr # a /\ req[t].addr \in Addrs /\ proc[req[t].addr] \in Waiting
            /\ req'[t] = req[t]
        BY <2>3, <2>5, <3>1, ExeTyped DEF ExeInv, Waited
      <4>2. QED
        BY <2>2, <4>1
    <3>2. QED
      BY <3>1
  <2>7. \A t, u \in Slots : Waited(t)' /\ Waited(u)' /\ req'[t].addr = req'[u].addr => t = u
    BY <2>3, <2>5 DEF ExeInv
  <2>8. \A b \in Addrs : proc'[b] # "down" => dead'[b] = 0
    BY <1>5, <1>6, <2>2 DEF ExeInv
  <2>9. ASSUME NEW b \in Addrs \ raced', b # a PROVE Sound(b)'
    BY <1>1, <1>5, <2>2, <2>3, <2>9, Untouched
  <2>10. ASSUME a \notin raced' PROVE Sound(a)'
    <3>1. op # "deregister"
      BY <1>10, <2>10
    <3>2. Standing(a)'
      BY <1>1, <1>6, <1>7, <2>1, <2>2, <2>3, <2>10, <3>1 DEF Standing, Heard
    <3>3. \A t \in Slots : ~Executors!Pending(t, a)'
      BY <1>8, <2>3, <2>10 DEF Executors!Pending
    <3>4. QED
      BY <3>2, <3>3 DEF Sound
  <2>11. QED
    BY <2>4, <2>6, <2>7, <2>8, <2>9, <2>10 DEF ExeInv
<1>11. QED
  BY <1>9, <1>10 DEF Executors!Post

LEMMA RegistrarKeeps ==
    ASSUME ExeInv, NEW a \in Addrs,
           \/ Executors!Start(a) \/ Executors!Beat(a) \/ Executors!Rejoin(a) \/ Executors!Stop(a)
    PROVE  ExeInv'
<1>1. CASE Executors!Start(a)
  <2>1. /\ Executors!Post(a, "register", "starting") /\ proc[a] = "down"
        /\ starts[a] < MaxStarts /\ starts' = [starts EXCEPT ![a] = starts[a] + 1]
        /\ dead' = [dead EXCEPT ![a] = 0]
    BY <1>1 DEF Executors!Start
  <2>2. starts' \in [Addrs -> 0 .. MaxStarts]
    BY <2>1, ExeBounds DEF ExeInv, Executors!TypeOK
  <2>3. QED
    BY <2>1, <2>2, PostKeeps
<1>2. CASE Executors!Beat(a)
  BY <1>2, PostKeeps DEF Executors!Beat
<1>3. CASE Executors!Rejoin(a)
  BY <1>3, PostKeeps DEF Executors!Rejoin
<1>4. CASE Executors!Stop(a)
  BY <1>4, PostKeeps DEF Executors!Stop
<1>5. QED
  BY <1>1, <1>2, <1>3, <1>4

LEMMA EndKeeps ==
    ASSUME ExeInv, NEW a \in Addrs, Executors!End(a)
    PROVE  ExeInv'
<1>1. /\ proc' = [proc EXCEPT ![a] = "down"]
      /\ req' = [s \in Slots |-> IF Executors!Pending(s, a)
                                 THEN [req[s] EXCEPT !.waited = FALSE] ELSE req[s]]
      /\ raced' = raced \cup {b \in {a} : \E s \in Slots : Executors!Pending(s, a)}
      /\ UNCHANGED <<row, listing, probe, starts, dead, boot, listed, boots, missed>>
  BY DEF Executors!End, Executors!storeVars, Executors!bootVars
<1>2. /\ req \in [Slots -> Executors!Requests \cup {Executors!NoReq}]
      /\ proc \in [Addrs -> Waiting \cup {"down", "idle", "rejoin", "left"}]
      /\ raced \in SUBSET Addrs
  BY DEF ExeInv, Executors!TypeOK, Waiting
<1>3. /\ proc' \in [Addrs -> Waiting \cup {"down", "idle", "rejoin", "left"}]
      /\ proc'[a] = "down" /\ \A b \in Addrs \ {a} : proc'[b] = proc[b]
  BY <1>1, <1>2
<1>4. ASSUME NEW t \in Slots
      PROVE  /\ req'[t] \in Executors!Requests \cup {Executors!NoReq}
             /\ Executors!Pending(t, a) => ~req'[t].waited /\ req'[t].addr = a
             /\ ~Executors!Pending(t, a) => req'[t] = req[t]
  <2>1. CASE Executors!Pending(t, a)
    <3>1. req[t] \in Executors!Requests /\ req[t].addr = a
      BY <2>1, ExeTyped DEF ExeInv, Executors!Pending
    <3>2. req'[t] = [req[t] EXCEPT !.waited = FALSE]
      BY <1>1, <2>1
    <3>3. QED
      BY <2>1, <3>1, <3>2 DEF Executors!Requests
  <2>2. CASE ~Executors!Pending(t, a)
    BY <1>1, <1>2, <2>2
  <2>3. QED
    BY <2>1, <2>2
<1>5. req' \in [Slots -> Executors!Requests \cup {Executors!NoReq}]
  BY <1>1, <1>4
<1>6. raced \subseteq raced' /\ raced' \in SUBSET Addrs
  BY <1>1, <1>2
<1>7. Executors!TypeOK'
  BY <1>1, <1>3, <1>5, <1>6 DEF ExeInv, Executors!TypeOK, Waiting
<1>8. \A t \in Slots : Waited(t)' => Waited(t) /\ req'[t] = req[t] /\ req[t].addr # a
  BY <1>4 DEF Waited, Executors!Pending
<1>9. \A t \in Slots : Waited(t)' => proc'[req'[t].addr] \in Waiting
  <2>1. ASSUME NEW t \in Slots, Waited(t)' PROVE proc'[req'[t].addr] \in Waiting
    <3>1. /\ req[t].addr # a /\ req[t].addr \in Addrs /\ proc[req[t].addr] \in Waiting
          /\ req'[t] = req[t]
      BY <1>8, <2>1, ExeTyped DEF ExeInv, Waited
    <3>2. QED
      BY <1>3, <3>1
  <2>2. QED
    BY <2>1
<1>10. \A t, u \in Slots : Waited(t)' /\ Waited(u)' /\ req'[t].addr = req'[u].addr => t = u
  BY <1>8 DEF ExeInv
<1>11. \A b \in Addrs : proc'[b] # "down" => dead'[b] = 0
  BY <1>1, <1>3 DEF ExeInv
<1>12. ASSUME NEW b \in Addrs \ raced', b # a PROVE Sound(b)'
  <2>1. \A t \in Slots : Executors!Pending(t, b)' => req'[t] = req[t]
    BY <1>4, <1>12 DEF Executors!Pending
  <2>2. QED
    BY <1>1, <1>3, <1>6, <1>12, <2>1, Untouched
<1>13. ASSUME a \notin raced' PROVE Sound(a)'
  <2>1. \A s \in Slots : ~Executors!Pending(s, a)
    BY <1>1, <1>13
  <2>2. \A s \in Slots : ~Executors!Pending(s, a)'
    BY <1>4, <2>1 DEF Executors!Pending
  <2>3. listing[a].present => dead[a] <= listing[a].age
    BY <1>6, <1>13 DEF ExeInv, Sound, Standing
  <2>4. Standing(a)'
    BY <1>1, <1>3, <2>3 DEF Standing
  <2>5. QED
    BY <2>2, <2>4 DEF Sound
<1>14. QED
  BY <1>7, <1>9, <1>10, <1>11, <1>12, <1>13 DEF ExeInv

\* A step of the admin's background work: no request and no executor process moves.
LEMMA BackgroundKeeps ==
    ASSUME ExeInv, Executors!TypeOK', UNCHANGED <<req, proc>>, raced \subseteq raced',
           \A a \in Addrs : proc[a] # "down" => dead'[a] = 0,
           \A b \in Addrs \ raced' : Standing(b) => Standing(b)',
           \A b \in Addrs \ raced' : proc[b] = "starting" /\ Heard(b) => Heard(b)',
           \A b \in Addrs \ raced' : proc[b] = "leaving" /\ ~listing[b].present
                                        => ~listing'[b].present
    PROVE  ExeInv'
<1>1. ASSUME NEW b \in Addrs \ raced' PROVE Sound(b)'
  <2>1. Sound(b)
    BY DEF ExeInv
  <2>2. ASSUME NEW s \in Slots, Executors!Pending(s, b)'
        PROVE  (req[s].waited /\ Stage(req[s], b))'
    <3>1. req[s].waited /\ Stage(req[s], b) /\ req' = req
      BY <2>1, <2>2 DEF Sound, Executors!Pending
    <3>2. QED
      BY <3>1 DEF Stage
  <2>3. QED
    BY <2>1, <2>2 DEF Sound
<1>2. /\ \A s \in Slots : Waited(s)' => proc'[req'[s].addr] \in Waiting
      /\ \A s, t \in Slots : Waited(s)' /\ Waited(t)' /\ req'[s].addr = req'[t].addr => s = t
  BY DEF ExeInv, Waited
<1>3. QED
  BY <1>1, <1>2 DEF ExeInv

\* Ages only grow, and stay in order.
LEMMA OlderGrows ==
    \A m, n \in 0 .. TTL + 1 :
        /\ Executors!Older(m) \in 0 .. TTL + 1
        /\ m <= Executors!Older(m)
        /\ m <= n => Executors!Older(m) <= Executors!Older(n)
BY ExeBounds DEF Executors!Older

LEMMA TickKeeps == ASSUME ExeInv, Executors!Tick PROVE ExeInv'
<1>1. /\ row' = [a \in Addrs |-> [row[a] EXCEPT !.age = Executors!Older(row[a].age)]]
      /\ listing' = [a \in Addrs |->
           IF listing[a].present
           THEN [listing[a] EXCEPT !.age = Executors!Older(listing[a].age)] ELSE listing[a]]
      /\ dead' = [a \in Addrs |->
           IF proc[a] = "down" THEN Executors!Older(dead[a]) ELSE dead[a]]
      /\ UNCHANGED <<probe, req, proc, starts, boot, listed, boots, missed, raced>>
  BY DEF Executors!Tick, Executors!bootVars
<1>2. ASSUME NEW a \in Addrs
      PROVE  /\ row'[a] \in Executors!Row /\ row'[a].status = row[a].status
             /\ row'[a].age = Executors!Older(row[a].age)
             /\ listing'[a] \in Executors!Entry /\ listing'[a].present = listing[a].present
             /\ listing[a].present => listing'[a].age = Executors!Older(listing[a].age)
             /\ dead'[a] \in 0 .. TTL + 1
             /\ dead'[a] = IF proc[a] = "down" THEN Executors!Older(dead[a]) ELSE dead[a]
  <2>1. /\ row[a] \in Executors!Row /\ row[a].age \in 0 .. TTL + 1
        /\ listing[a] \in Executors!Entry /\ listing[a].age \in 0 .. TTL + 1
        /\ dead[a] \in 0 .. TTL + 1
    BY ExeTyped DEF ExeInv
  <2>2. /\ Executors!Older(row[a].age) \in 0 .. TTL + 1
        /\ Executors!Older(listing[a].age) \in 0 .. TTL + 1
        /\ Executors!Older(dead[a]) \in 0 .. TTL + 1
    BY <2>1, OlderGrows
  <2>3. row'[a] = [row[a] EXCEPT !.age = Executors!Older(row[a].age)]
    BY <1>1
  <2>4. /\ row'[a] \in Executors!Row /\ row'[a].status = row[a].status
        /\ row'[a].age = Executors!Older(row[a].age)
    BY <2>1, <2>2, <2>3 DEF Executors!Row, Executors!Ages
  <2>5. listing[a].present =>
          listing'[a] = [listing[a] EXCEPT !.age = Executors!Older(listing[a].age)]
    BY <1>1
  <2>6. ~listing[a].present => listing'[a] = listing[a]
    BY <1>1
  <2>7. /\ listing'[a] \in Executors!Entry /\ listing'[a].present = listing[a].present
        /\ listing[a].present => listing'[a].age = Executors!Older(listing[a].age)
    BY <2>1, <2>2, <2>5, <2>6 DEF Executors!Entry, Executors!Ages
  <2>8. dead'[a] = IF proc[a] = "down" THEN Executors!Older(dead[a]) ELSE dead[a]
    BY <1>1
  <2>9. QED
    BY <2>1, <2>2, <2>4, <2>7, <2>8
<1>3. /\ row' \in [Addrs -> Executors!Row] /\ listing' \in [Addrs -> Executors!Entry]
      /\ dead' \in [Addrs -> 0 .. TTL + 1]
  BY <1>1, <1>2
<1>4. Executors!TypeOK'
  BY <1>1, <1>3 DEF ExeInv, Executors!TypeOK, Executors!Ages
<1>5. \A a \in Addrs : proc[a] # "down" => dead'[a] = 0
  BY <1>2 DEF ExeInv
<1>6. ASSUME NEW b \in Addrs
      PROVE  /\ Heard(b) => Heard(b)'
             /\ Standing(b) => Standing(b)'
  <2>1. /\ row[b].age \in 0 .. TTL + 1 /\ listing[b].age \in 0 .. TTL + 1
        /\ dead[b] \in 0 .. TTL + 1
    BY ExeTyped DEF ExeInv
  <2>2. row'[b].age \in 0 .. TTL + 1 /\ row[b].age <= row'[b].age
    BY <1>2, <2>1, OlderGrows
  <2>3. Heard(b) => Heard(b)'
    BY <1>2, <2>1, <2>2, ExeBounds DEF Heard
  <2>4. listing[b].present /\ listing[b].age <= row[b].age => listing'[b].age <= row'[b].age
    BY <1>2, <2>1, OlderGrows
  <2>5. listing[b].present /\ dead[b] <= listing[b].age => dead'[b] <= listing'[b].age
    <3> SUFFICES ASSUME listing[b].present, dead[b] <= listing[b].age
                 PROVE  dead'[b] <= listing'[b].age
      OBVIOUS
    <3>1. /\ Executors!Older(dead[b]) <= Executors!Older(listing[b].age)
          /\ listing[b].age <= Executors!Older(listing[b].age)
          /\ Executors!Older(listing[b].age) \in 0 .. TTL + 1
      BY <2>1, OlderGrows
    <3>2. listing'[b].age = Executors!Older(listing[b].age)
      BY <1>2
    <3>3. dead'[b] = Executors!Older(dead[b]) \/ dead'[b] = dead[b]
      BY <1>2
    <3>4. QED
      BY <2>1, <3>1, <3>2, <3>3, ExeBounds
  <2>6. ASSUME Standing(b) PROVE Standing(b)'
    <3>1. proc'[b] = proc[b] /\ (b \in missed' <=> b \in missed)
      BY <1>1
    <3>2. /\ listing'[b].present = listing[b].present
          /\ row'[b].status = row[b].status
      BY <1>2
    <3>3. /\ proc'[b] \in {"idle", "rejoin", "beating", "rejoining"} =>
                Heard(b)' /\ (b \notin missed' => listing'[b].present)
          /\ proc'[b] = "leaving" => row'[b].status # "none"
          /\ proc'[b] = "left" => ~listing'[b].present /\ row'[b].status = "offline"
      BY <2>3, <2>6, <3>1, <3>2 DEF Standing
    <3>4. proc'[b] \in {"idle", "rejoin"} /\ b \notin missed' => listing'[b].age <= row'[b].age
      BY <2>4, <2>6, <3>1 DEF Standing
    <3>5. listing'[b].present => dead'[b] <= listing'[b].age
      BY <2>5, <2>6, <3>2 DEF Standing
    <3>6. QED
      BY <3>3, <3>4, <3>5 DEF Standing
  <2>7. QED
    BY <2>3, <2>6
<1>7. QED
  BY <1>1, <1>2, <1>4, <1>5, <1>6, BackgroundKeeps

LEMMA SweepRowsKeeps == ASSUME ExeInv, Executors!SweepRows PROVE ExeInv'
<1>1. /\ row' = [a \in Addrs |-> IF row[a].status = "online" /\ row[a].age > TTL
                                 THEN [row[a] EXCEPT !.status = "offline"] ELSE row[a]]
      /\ UNCHANGED <<listing, probe, req, proc, starts, dead, boot, listed, boots, missed, raced>>
  BY DEF Executors!SweepRows, Executors!storeVars, Executors!procVars, Executors!bootVars
<1>2. ASSUME NEW a \in Addrs
      PROVE  /\ row'[a] \in Executors!Row /\ row'[a].age = row[a].age
             /\ \/ row'[a].status = row[a].status
                \/ row[a].status = "online" /\ row'[a].status = "offline" /\ row[a].age > TTL
  <2>1. row[a] \in Executors!Row
    BY ExeTyped DEF ExeInv
  <2>2. CASE row[a].status = "online" /\ row[a].age > TTL
    <3>1. row'[a] = [row[a] EXCEPT !.status = "offline"]
      BY <1>1, <2>2
    <3>2. QED
      BY <2>1, <2>2, <3>1 DEF Executors!Row
  <2>3. CASE ~(row[a].status = "online" /\ row[a].age > TTL)
    BY <1>1, <2>1, <2>3
  <2>4. QED
    BY <2>2, <2>3
<1>3. row' \in [Addrs -> Executors!Row]
  BY <1>1, <1>2
<1>4. Executors!TypeOK'
  BY <1>1, <1>3 DEF ExeInv, Executors!TypeOK
<1>5. \A b \in Addrs : Heard(b) => Heard(b)'
  BY <1>2 DEF Heard
<1>6. \A b \in Addrs : Standing(b) => Standing(b)'
  BY <1>1, <1>2, <1>5 DEF Standing
<1>7. \A a \in Addrs : proc[a] # "down" => dead'[a] = 0
  BY <1>1 DEF ExeInv
<1>8. QED
  BY <1>1, <1>4, <1>5, <1>6, <1>7, BackgroundKeeps

\* A step that changes no more than the health of entries, the probes and the bootstrap's list.
LEMMA HealthKeeps ==
    ASSUME ExeInv, Executors!TypeOK',
           UNCHANGED <<row, req, proc, dead, missed, raced>>,
           \A a \in Addrs : /\ listing'[a].present = listing[a].present
                            /\ listing'[a].age = listing[a].age
    PROVE  ExeInv'
<1>1. \A b \in Addrs : Heard(b) => Heard(b)'
  BY DEF Heard
<1>2. \A b \in Addrs : Standing(b) => Standing(b)'
  BY <1>1 DEF Standing
<1>3. \A a \in Addrs : proc[a] # "down" => dead'[a] = 0
  BY DEF ExeInv
<1>4. QED
  BY <1>1, <1>2, <1>3, BackgroundKeeps

LEMMA ProbesKeep ==
    ASSUME ExeInv,
           \/ Executors!ProbeRound \/ Executors!ListOnline
           \/ \E a \in Addrs : \/ Executors!SweepTTL(a) \/ Executors!ProbeAnswer(a)
                               \/ Executors!ProbeOne(a)
    PROVE  ExeInv'
<1> DEFINE Probes == [Addrs -> [at : {"no", "sent", "ok", "failed"}, stale : BOOLEAN]]
<1>1. probe \in Probes /\ listing \in [Addrs -> Executors!Entry]
  BY DEF ExeInv, Executors!TypeOK
<1>2. CASE Executors!ProbeRound
  <2>1. probe' = [a \in Addrs |-> IF a \in Executors!listAll
                                  THEN [at |-> "sent", stale |-> FALSE] ELSE Executors!NoProbe]
    BY <1>2 DEF Executors!ProbeRound
  <2>2. /\ probe' \in Probes
    BY <2>1 DEF Executors!NoProbe
  <2>3. UNCHANGED <<row, listing, req, proc, starts, dead, boot, listed, boots, missed, raced>>
    BY <1>2 DEF Executors!ProbeRound, Executors!procVars, Executors!bootVars
  <2>4. Executors!TypeOK'
    BY <2>2, <2>3 DEF ExeInv, Executors!TypeOK
  <2>5. QED
    BY <2>3, <2>4, HealthKeeps
<1>3. CASE Executors!ListOnline
  <2>1. /\ boot' = "listed" /\ listed' = {a \in Addrs : row[a].status = "online"}
        /\ UNCHANGED <<row, listing, probe, req, proc, starts, dead, boots, missed, raced>>
    BY <1>3 DEF Executors!ListOnline, Executors!storeVars, Executors!procVars
  <2>2. Executors!TypeOK'
    BY <2>1 DEF ExeInv, Executors!TypeOK
  <2>3. QED
    BY <2>1, <2>2, HealthKeeps
<1>4. ASSUME NEW a \in Addrs, Executors!SweepTTL(a) PROVE ExeInv'
  <2>1. /\ listing' = [listing EXCEPT ![a].healthy = FALSE]
        /\ UNCHANGED <<row, probe, req, proc, starts, dead, boot, listed, boots, missed, raced>>
    BY <1>4 DEF Executors!SweepTTL, Executors!procVars, Executors!bootVars
  <2>2. /\ listing' \in [Addrs -> Executors!Entry]
        /\ \A b \in Addrs : /\ listing'[b].present = listing[b].present
                            /\ listing'[b].age = listing[b].age
    BY <1>1, <2>1 DEF Executors!Entry
  <2>3. Executors!TypeOK'
    BY <2>1, <2>2 DEF ExeInv, Executors!TypeOK
  <2>4. QED
    BY <2>1, <2>2, <2>3, HealthKeeps
<1>5. ASSUME NEW a \in Addrs, Executors!ProbeAnswer(a) PROVE ExeInv'
  <2>1. PICK result \in {"failed", "ok"} : probe' = [probe EXCEPT ![a].at = result]
    BY <1>5 DEF Executors!ProbeAnswer
  <2>2. probe' \in Probes
    BY <1>1, <2>1
  <2>3. UNCHANGED <<row, listing, req, proc, starts, dead, boot, listed, boots, missed, raced>>
    BY <1>5 DEF Executors!ProbeAnswer, Executors!procVars, Executors!bootVars
  <2>4. Executors!TypeOK'
    BY <2>2, <2>3 DEF ExeInv, Executors!TypeOK
  <2>5. QED
    BY <2>3, <2>4, HealthKeeps
<1>6. ASSUME NEW a \in Addrs, Executors!ProbeOne(a) PROVE ExeInv'
  <2> DEFINE up == probe[a].at = "ok"
  <2>1. /\ listing' = IF probe[a].stale THEN listing ELSE [listing EXCEPT ![a].healthy = up]
        /\ probe' = [probe EXCEPT ![a] = Executors!NoProbe]
        /\ UNCHANGED <<row, req, proc, starts, dead, boot, listed, boots, missed, raced>>
    BY <1>6 DEF Executors!ProbeOne, Executors!procVars, Executors!bootVars
  <2>2. up \in BOOLEAN
    OBVIOUS
  <2> HIDE DEF up
  <2>3. /\ listing' \in [Addrs -> Executors!Entry]
        /\ \A b \in Addrs : /\ listing'[b].present = listing[b].present
                            /\ listing'[b].age = listing[b].age
    BY <1>1, <2>1, <2>2 DEF Executors!Entry
  <2>4. probe' \in Probes
    BY <1>1, <2>1 DEF Executors!NoProbe
  <2>5. Executors!TypeOK'
    BY <2>1, <2>3, <2>4 DEF ExeInv, Executors!TypeOK
  <2>6. QED
    BY <2>1, <2>3, <2>5, HealthKeeps
<1>7. QED
  BY <1>2, <1>3, <1>4, <1>5, <1>6

LEMMA BootstrapKeeps == ASSUME ExeInv, Executors!Bootstrap PROVE ExeInv'
<1>1. /\ boot' = "done" /\ listed' = {}
      /\ listing' = [a \in Addrs |->
           IF a \in listed THEN [present |-> TRUE, healthy |-> TRUE, age |-> 0] ELSE listing[a]]
      /\ probe' = [a \in Addrs |-> IF a \in listed /\ probe[a].at # "no"
                                   THEN [probe[a] EXCEPT !.stale = TRUE] ELSE probe[a]]
      /\ missed' = missed \ listed
      /\ raced' = raced \cup {a \in listed : \/ row[a].status = "offline"
                                            \/ proc[a] \in {"leaving", "left", "down"}}
      /\ UNCHANGED <<row, req, proc, starts, dead, boots>>
  BY DEF Executors!Bootstrap, Executors!Register, Executors!procVars
<1>2. /\ listing \in [Addrs -> Executors!Entry]
      /\ probe \in [Addrs -> [at : {"no", "sent", "ok", "failed"}, stale : BOOLEAN]]
      /\ listed \in SUBSET Addrs /\ missed \in SUBSET Addrs /\ raced \in SUBSET Addrs
  BY DEF ExeInv, Executors!TypeOK
<1>3. ASSUME NEW a \in Addrs
      PROVE  /\ listing'[a] \in Executors!Entry
             /\ a \in listed => listing'[a].present /\ listing'[a].age = 0
             /\ a \notin listed => listing'[a] = listing[a]
             /\ probe'[a] \in [at : {"no", "sent", "ok", "failed"}, stale : BOOLEAN]
  <2>1. CASE a \in listed
    <3>1. listing'[a] = [present |-> TRUE, healthy |-> TRUE, age |-> 0]
      BY <1>1, <2>1
    <3>2. probe'[a] \in [at : {"no", "sent", "ok", "failed"}, stale : BOOLEAN]
      BY <1>1, <1>2, <2>1
    <3>3. QED
      BY <2>1, <3>1, <3>2, ExeBounds DEF Executors!Entry, Executors!Ages
  <2>2. CASE a \notin listed
    BY <1>1, <1>2, <2>2
  <2>3. QED
    BY <2>1, <2>2
<1>4. /\ listing' \in [Addrs -> Executors!Entry]
      /\ probe' \in [Addrs -> [at : {"no", "sent", "ok", "failed"}, stale : BOOLEAN]]
      /\ missed' \in SUBSET Addrs /\ raced' \in SUBSET Addrs /\ raced \subseteq raced'
  BY <1>1, <1>2, <1>3
<1>5. Executors!TypeOK'
  BY <1>1, <1>4 DEF ExeInv, Executors!TypeOK
<1>6. \A a \in Addrs : proc[a] # "down" => dead'[a] = 0
  BY <1>1 DEF ExeInv
<1>7. \A b \in Addrs : Heard(b) => Heard(b)'
  BY <1>1 DEF Heard
<1>8. ASSUME NEW b \in Addrs \ raced', Standing(b) PROVE Standing(b)'
  <2>1. CASE b \in listed
    <3>1. proc[b] \notin {"leaving", "left", "down"}
      BY <1>1, <2>1
    <3>2. dead'[b] = 0 /\ row'[b] = row[b] /\ row[b].age \in 0 .. TTL + 1
      BY <1>1, <1>6, <3>1, ExeTyped DEF ExeInv
    <3>3. listing'[b].present /\ listing'[b].age = 0
      BY <1>3, <2>1
    <3>4. QED
      BY <1>1, <1>7, <1>8, <3>1, <3>2, <3>3 DEF Standing
  <2>2. CASE b \notin listed
    BY <1>1, <1>3, <1>7, <1>8, <2>2 DEF Standing
  <2>3. QED
    BY <2>1, <2>2
<1>9. \A b \in Addrs \ raced' : proc[b] = "leaving" /\ ~listing[b].present
                                   => ~listing'[b].present
  BY <1>1, <1>3
<1>10. QED
  BY <1>1, <1>4, <1>5, <1>6, <1>7, <1>8, <1>9, BackgroundKeeps

LEMMA RestartKeeps == ASSUME ExeInv, Executors!Restart PROVE ExeInv'
<1> DEFINE waiting == {a \in Addrs : \E s \in Slots : Executors!Pending(s, a) /\ req[s].waited}
<1>1. /\ boots < MaxBoots /\ boots' = boots + 1
      /\ boot' = "no" /\ listed' = {}
      /\ listing' = [a \in Addrs |-> Executors!NoEntry]
      /\ probe' = [a \in Addrs |-> Executors!NoProbe]
      /\ missed' = missed \cup Executors!listAll
      /\ proc' = [a \in Addrs |-> IF a \in waiting
                                  THEN Executors!AfterCall(proc[a], FALSE) ELSE proc[a]]
      /\ raced' = raced \cup waiting
      /\ req' = [s \in Slots |-> Executors!NoReq]
      /\ UNCHANGED <<row, starts, dead>>
  BY DEF Executors!Restart
<1>2. \A a \in waiting : proc[a] \in Waiting
  BY DEF ExeInv, Waited, Executors!Pending
<1>3. waiting \subseteq Addrs
  OBVIOUS
<1>4. \A b \in Addrs \ (raced \cup waiting) : \A s \in Slots : ~Executors!Pending(s, b)
  BY DEF ExeInv, Sound
<1> HIDE DEF waiting
<1>5. proc \in [Addrs -> Waiting \cup {"down", "idle", "rejoin", "left"}]
  BY DEF ExeInv, Executors!TypeOK, Waiting
<1>6. /\ \A a \in waiting : Executors!AfterCall(proc[a], FALSE)
                              \in {"down", "idle", "rejoin", "left"}
      /\ \A a \in Addrs \ waiting : proc'[a] = proc[a]
  BY <1>1, <1>2, AfterCallEnds
<1>7. proc' \in [Addrs -> Waiting \cup {"down", "idle", "rejoin", "left"}]
  BY <1>1, <1>5, <1>6
<1>8. listing' \in [Addrs -> Executors!Entry] /\ \A a \in Addrs : ~listing'[a].present
  BY <1>1, ExeBounds DEF Executors!NoEntry, Executors!Entry, Executors!Ages
<1>9. probe' \in [Addrs -> [at : {"no", "sent", "ok", "failed"}, stale : BOOLEAN]]
  BY <1>1 DEF Executors!NoProbe
<1>10. boots' \in 0 .. MaxBoots
  BY <1>1, ExeBounds DEF ExeInv, Executors!TypeOK
<1>11. /\ req' \in [Slots -> Executors!Requests \cup {Executors!NoReq}]
       /\ \A s \in Slots : ~Waited(s)'
  BY <1>1 DEF Waited
<1>12. Executors!TypeOK'
  BY <1>1, <1>3, <1>7, <1>8, <1>9, <1>10, <1>11
  DEF ExeInv, Executors!TypeOK, Waiting, Executors!listAll
<1>13. ASSUME NEW a \in Addrs, proc'[a] # "down" PROVE dead'[a] = 0
  BY <1>1, <1>2, <1>6, <1>13 DEF ExeInv, Waiting
<1>14. ASSUME NEW b \in Addrs \ raced' PROVE Sound(b)'
  <2>1. proc'[b] = proc[b] /\ Standing(b) /\ row' = row
    BY <1>1, <1>6, <1>14 DEF ExeInv, Sound
  <2>2. b \in missed' <=> b \in missed \/ listing[b].present
    BY <1>1 DEF Executors!listAll
  <2>3. ~listing'[b].present
    BY <1>8
  <2>4. Standing(b)'
    BY <2>1, <2>2, <2>3 DEF Standing, Heard
  <2>5. \A s \in Slots : ~Executors!Pending(s, b)'
    BY <1>1 DEF Executors!Pending
  <2>6. QED
    BY <2>4, <2>5 DEF Sound
<1>15. QED
  BY <1>11, <1>12, <1>13, <1>14 DEF ExeInv

LEMMA ExeStep == ASSUME ExeInv, Executors!Next PROVE ExeInv'
<1>1. ASSUME NEW a \in Addrs,
             \/ Executors!Start(a) \/ Executors!Beat(a) \/ Executors!Rejoin(a)
             \/ Executors!Stop(a) \/ Executors!End(a)
      PROVE  ExeInv'
  BY <1>1, RegistrarKeeps, EndKeeps
<1>2. ASSUME NEW s \in Slots, Executors!GiveUp(s) \/ Executors!Handler(s) \/ Executors!DaoFails(s)
      PROVE  ExeInv'
  <2>1. req[s] # Executors!NoReq
    BY <1>2 DEF Executors!GiveUp, Executors!Handler, Executors!DaoFails, Executors!Find,
                Executors!Create, Executors!UpdateHeartbeat, Executors!StoreCall,
                Executors!UpdateStatus
  <2>2. PICK a \in Addrs : a = req[s].addr
    BY <2>1, ExeTyped DEF ExeInv
  <2>3. QED
    BY <1>2, <2>2, GiveUpKeeps, DaoFailsKeeps, FindKeeps, CreateKeeps, UpdateHeartbeatKeeps,
       StoreCallKeeps, UpdateStatusKeeps DEF Executors!Handler
<1>3. QED
  BY <1>1, <1>2, TickKeeps, SweepRowsKeeps, ProbesKeep, BootstrapKeeps, RestartKeeps
  DEF Executors!Next

\* Whoever has left cleanly stays out, whoever beats is routed to and whoever is dead is not.
LEMMA RoutesAreSound ==
    ASSUME ExeInv
    PROVE  Executors!TypeOK /\ Executors!CleanLeaveIsFinal /\ Executors!RoutesFollowBeats
<1>1. Executors!CleanLeaveIsFinal
  BY DEF ExeInv, Sound, Standing, Executors!CleanLeaveIsFinal
<1>2. Executors!BeatingIsRouted
  BY DEF ExeInv, Sound, Standing, Heard, Executors!BeatingIsRouted
<1>3. Executors!DeadIsDropped
  <2> SUFFICES ASSUME NEW a \in Addrs \ raced, dead[a] >= TTL, listing[a].present
               PROVE  ~(listing[a].age < TTL)
    BY DEF Executors!DeadIsDropped, Executors!ListOnlineAddresses,
           Executors!ListHealthyAddresses, Executors!IsOnline, Executors!listAll
  <2>1. dead[a] <= listing[a].age
    BY DEF ExeInv, Sound, Standing
  <2>2. dead[a] \in 0 .. TTL + 1 /\ listing[a].age \in 0 .. TTL + 1
    BY ExeTyped DEF ExeInv
  <2>3. QED
    BY <2>1, <2>2, ExeBounds
<1>4. QED
  BY <1>1, <1>2, <1>3 DEF ExeInv, Executors!RoutesFollowBeats

-----------------------------------------------------------------------------
(* The rate limiter *)

\* Up to the last refill a bucket has paid out and holds no more than it was full of and has
\* earned; the count is what the current window has granted, and later windows have nothing.
BucketHolds(l) ==
    /\ l.since <= l.last /\ l.last <= now
    /\ l.rate > 0 => l.spent + l.tokens <= l.capacity + (l.last - l.since) * l.rate

QuotaHolds(l) ==
    Limits!HasQuota(l) =>
        /\ l.winKey <= Limits!WindowOf(l)
        /\ l.count = l.grants[l.winKey]
        /\ \A k \in 0 .. MaxTime : l.grants[k] <= l.limit /\ (k > l.winKey => l.grants[k] = 0)

LimitInv ==
    /\ Limits!TypeOK
    /\ \A i \in 1 .. Len(limiters) : BucketHolds(limiters[i]) /\ QuotaHolds(limiters[i])

LEMMA LimitBounds ==
    MaxTime \in Nat /\ MaxLimiters \in Nat /\ Configs \subseteq Limits!Config
BY ClusterAssumption DEF Configs, Limits!Config

\* The quotient of a time is a time, and does not fall.
LEMMA WindowIsTime ==
    ASSUME NEW t \in 0 .. MaxTime, NEW w \in Nat, w > 0
    PROVE  t \div w \in 0 .. MaxTime /\ t \div w <= (t + 1) \div w
<1> DEFINE q == t \div w
           m == t % w
<1>1. MaxTime \in Nat /\ t \in Int /\ w \in Int
  BY LimitBounds
<1>2. q \in Int /\ m \in 0 .. w - 1 /\ t = w * q + m
  BY <1>1, Division
<1>3. q <= (t + 1) \div w
  BY <1>1, <1>2, NextQuotient
<1> HIDE DEF q, m
<1>4. q >= 0
  <2> SUFFICES ASSUME q < 0 PROVE FALSE
    BY <1>2
  <2>1. w * q + w <= w * 0
    BY <1>1, <1>2, ProductGrows
  <2>2. QED
    BY <1>1, <1>2, <2>1
<1>5. q <= t
  <2> SUFFICES ASSUME t < q PROVE FALSE
    BY <1>1, <1>2
  <2>1. w * t + w <= w * q
    BY <1>1, <1>2, ProductGrows
  <2>2. w * t >= t
    BY <1>1
  <2>3. w * q \in Int /\ w * t \in Int
    BY <1>1, <1>2
  <2>4. QED
    BY <1>1, <1>2, <2>1, <2>2, <2>3
<1>6. QED
  BY <1>1, <1>2, <1>3, <1>4, <1>5 DEF q

LEMMA LimitInitially == ASSUME Limits!Init PROVE LimitInv
<1> USE LimitBounds DEF Limits!Init
<1>1. Len(limiters) = 0 /\ limiters \in Seq(Limits!Limiter)
  OBVIOUS
<1>2. Limits!TypeOK
  BY <1>1 DEF Limits!TypeOK, Limits!Idle, Limits!Keys
<1>3. QED
  BY <1>1, <1>2 DEF LimitInv

\* What a bucket can pay now is what it held and has earned since.
LEMMA Earned ==
    ASSUME NEW l \in Limits!Limiter, BucketHolds(l), now \in 0 .. MaxTime
    PROVE  /\ Limits!Available(l) \in Nat
           /\ l.rate > 0 => l.spent + Limits!Available(l) <= l.capacity + (now - l.since) * l.rate
<1> DEFINE grown == (now - l.last) * l.rate
<1>1. /\ l.rate \in Nat /\ l.capacity \in Nat /\ l.tokens \in Nat /\ l.spent \in Nat
      /\ l.last \in Int /\ l.since \in Int /\ now \in Int /\ now - l.last \in Nat
      /\ now - l.since \in Nat /\ l.last - l.since \in Nat
  <2>1. /\ l.rate \in Nat /\ l.capacity \in Nat /\ l.tokens \in Nat /\ l.spent \in Nat
        /\ l.last \in Int /\ l.since \in Int /\ now \in Int
    BY LimitBounds DEF Limits!Limiter
  <2>2. l.since <= l.last /\ l.last <= now
    BY DEF BucketHolds
  <2>3. QED
    BY <2>1, <2>2
<1>2. grown \in Nat
  BY <1>1
<1>3. (l.last - l.since) * l.rate + grown = (now - l.since) * l.rate
  BY <1>1
<1>4. (l.last - l.since) * l.rate \in Int /\ (now - l.since) * l.rate \in Int
  BY <1>1
<1> HIDE DEF grown
<1>5. Limits!Available(l) = IF l.tokens + grown < l.capacity THEN l.tokens + grown ELSE l.capacity
  BY DEF Limits!Available, grown
<1>6. Limits!Available(l) \in Nat /\ Limits!Available(l) <= l.tokens + grown
  BY <1>1, <1>2, <1>5
<1>7. QED
  BY <1>1, <1>2, <1>3, <1>4, <1>6 DEF BucketHolds

\* One limiter is replaced by what an operation makes of it.
LEMMA LimiterMoves ==
    ASSUME LimitInv, NEW i \in 1 .. Len(limiters), NEW new \in Limits!Limiter,
           limiters' = [limiters EXCEPT ![i] = new], UNCHANGED <<now, registry>>,
           BucketHolds(new), QuotaHolds(new),
           check' \in [Workers -> [at : {"idle", "get", "bucket", "quota"}, key : Limits!Keys,
                                   i : 0 .. Len(limiters)]],
           \A w \in Workers : check'[w].at \in {"bucket", "quota"} => check'[w].i # 0
    PROVE  LimitInv'
<1>1. /\ limiters' \in Seq(Limits!Limiter) /\ Len(limiters') = Len(limiters)
      /\ \A j \in 1 .. Len(limiters) : limiters'[j] = IF j = i THEN new ELSE limiters[j]
  BY DEF LimitInv, Limits!TypeOK
<1>2. Limits!TypeOK'
  BY <1>1 DEF LimitInv, Limits!TypeOK
<1>3. QED
  BY <1>1, <1>2 DEF LimitInv, BucketHolds, QuotaHolds, Limits!WindowOf, Limits!HasQuota

\* A check goes on to a limiter that is there, or needs none.
LEMMA GetKeeps ==
    ASSUME LimitInv, NEW w \in Workers, NEW key \in Limits!Keys, Limits!Get(w, key),
           UNCHANGED <<now, limiters, registry>>
    PROVE  LimitInv'
<1> DEFINE new == IF registry[key] # 0 THEN [at |-> "bucket", key |-> key, i |-> registry[key]]
                  ELSE IF key = "job" THEN [at |-> "get", key |-> "app", i |-> 0]
                  ELSE Limits!Idle
<1>1. /\ registry[key] \in 0 .. Len(limiters) /\ Len(limiters) \in Nat
      /\ "job" \in Limits!Keys /\ "app" \in Limits!Keys
  BY DEF LimitInv, Limits!TypeOK, Limits!Keys
<1>2. /\ new \in [at : {"idle", "get", "bucket", "quota"}, key : Limits!Keys,
                  i : 0 .. Len(limiters)]
      /\ new.at \in {"bucket", "quota"} => new.i # 0
  BY <1>1 DEF Limits!Idle
<1>3. check' = [check EXCEPT ![w] = new]
  BY DEF Limits!Get
<1> HIDE DEF new
<1>4. /\ check' \in [Workers -> [at : {"idle", "get", "bucket", "quota"}, key : Limits!Keys,
                                 i : 0 .. Len(limiters)]]
      /\ \A v \in Workers : check'[v].at \in {"bucket", "quota"} => check'[v].i # 0
  BY <1>2, <1>3 DEF LimitInv, Limits!TypeOK
<1>5. Limits!TypeOK'
  BY <1>4 DEF LimitInv, Limits!TypeOK
<1>6. QED
  BY <1>5 DEF LimitInv, BucketHolds, QuotaHolds, Limits!WindowOf, Limits!HasQuota

\* Where a check goes after a layer has allowed or refused.
LEMMA CheckMoves ==
    ASSUME LimitInv, NEW w \in Workers, check[w].at \in {"bucket", "quota"},
           NEW new \in {[check[w] EXCEPT !.at = "quota"], Limits!Allowed(w), Limits!Idle},
           check' = [check EXCEPT ![w] = new]
    PROVE  /\ check' \in [Workers -> [at : {"idle", "get", "bucket", "quota"}, key : Limits!Keys,
                                      i : 0 .. Len(limiters)]]
           /\ \A v \in Workers : check'[v].at \in {"bucket", "quota"} => check'[v].i # 0
<1>1. /\ check[w] \in [at : {"idle", "get", "bucket", "quota"}, key : Limits!Keys,
                       i : 0 .. Len(limiters)]
      /\ check[w].i # 0 /\ 0 \in 0 .. Len(limiters)
      /\ "job" \in Limits!Keys /\ "app" \in Limits!Keys
  BY DEF LimitInv, Limits!TypeOK, Limits!Keys
<1>2. /\ new \in [at : {"idle", "get", "bucket", "quota"}, key : Limits!Keys,
                  i : 0 .. Len(limiters)]
      /\ new.at \in {"bucket", "quota"} => new.i # 0
  BY <1>1 DEF Limits!Allowed, Limits!Idle
<1>3. QED
  BY <1>2 DEF LimitInv, Limits!TypeOK

LEMMA TakeHolds ==
    ASSUME NEW l \in Limits!Limiter, BucketHolds(l), QuotaHolds(l), l.rate > 0,
           now \in 0 .. MaxTime,
           NEW new, \/ Limits!Available(l) >= 1 /\ new = Limits!TakeToken(l)
                    \/ new = Limits!Refilled(l)
    PROVE  new \in Limits!Limiter /\ BucketHolds(new) /\ QuotaHolds(new)
<1>1. /\ Limits!Available(l) \in Nat
      /\ l.spent + Limits!Available(l) <= l.capacity + (now - l.since) * l.rate
  BY Earned
<1>2. PICK n \in 0 .. 1 :
         /\ Limits!Available(l) - n \in Nat
         /\ new = [l EXCEPT !.tokens = Limits!Available(l) - n, !.last = now, !.spent = l.spent + n]
  <2>1. CASE Limits!Available(l) >= 1 /\ new = Limits!TakeToken(l)
    <3>1. new = [l EXCEPT !.tokens = Limits!Available(l) - 1, !.last = now, !.spent = l.spent + 1]
      BY <2>1 DEF Limits!TakeToken, Limits!Refilled, Limits!Limiter
    <3>2. QED
      BY <1>1, <2>1, <3>1
  <2>2. CASE new = Limits!Refilled(l)
    <3>1. Limits!Available(l) - 0 = Limits!Available(l) /\ l.spent + 0 = l.spent
      <4>1. Limits!Available(l) \in Int /\ l.spent \in Int
        BY <1>1 DEF Limits!Limiter
      <4>2. QED
        BY <4>1
    <3>2. new = [l EXCEPT !.tokens = Limits!Available(l), !.last = now, !.spent = l.spent]
      BY <2>2, ZenonT(40) DEF Limits!Refilled, Limits!Limiter
    <3>3. QED
      <4>1. 0 \in 0 .. 1 /\ Limits!Available(l) - 0 \in Nat
        BY <1>1, <3>1
      <4>2. new = [l EXCEPT !.tokens = Limits!Available(l) - 0, !.last = now,
                            !.spent = l.spent + 0]
        BY <3>1, <3>2, Zenon
      <4>3. QED
        BY <4>1, <4>2
  <2>3. QED
    BY <2>1, <2>2
<1>3. /\ new.tokens = Limits!Available(l) - n /\ new.last = now /\ new.spent = l.spent + n
      /\ new.rate = l.rate /\ new.capacity = l.capacity /\ new.since = l.since
      /\ new.window = l.window /\ new.limit = l.limit /\ new.count = l.count
      /\ new.winKey = l.winKey /\ new.grants = l.grants
  BY <1>2 DEF Limits!Limiter
<1>4. l.spent \in Nat /\ l.since \in Int /\ l.spent + n \in Nat
  BY LimitBounds, SMTT(20) DEF Limits!Limiter
<1>5. new \in Limits!Limiter
  BY <1>2, <1>4, ZenonT(40) DEF Limits!Limiter
<1>6. l.capacity + (now - l.since) * l.rate \in Int
  BY LimitBounds DEF Limits!Limiter
<1>7. BucketHolds(new)
  <2>1. new.since <= new.last /\ new.last <= now
    BY <1>3, LimitBounds DEF BucketHolds, Limits!Limiter
  <2>2. new.spent + new.tokens = l.spent + Limits!Available(l)
    BY <1>1, <1>2, <1>3, <1>4
  <2>3. new.capacity + (new.last - new.since) * new.rate = l.capacity + (now - l.since) * l.rate
    BY <1>3
  <2>4. QED
    BY <1>1, <2>1, <2>2, <2>3 DEF BucketHolds
<1>8. QED
  BY <1>3, <1>5, <1>7 DEF QuotaHolds, Limits!HasQuota, Limits!WindowOf

LEMMA RollHolds ==
    ASSUME NEW l \in Limits!Limiter, BucketHolds(l), QuotaHolds(l), Limits!HasQuota(l),
           now \in 0 .. MaxTime
    PROVE  /\ Limits!Rolled(l) \in Limits!Limiter /\ BucketHolds(Limits!Rolled(l))
           /\ QuotaHolds(Limits!Rolled(l))
           /\ Limits!Rolled(l).winKey = Limits!WindowOf(l)
           /\ Limits!Rolled(l).window = l.window /\ Limits!Rolled(l).limit = l.limit
<1>1. Limits!WindowOf(l) \in 0 .. MaxTime
  BY WindowIsTime DEF Limits!WindowOf, Limits!HasQuota, Limits!Limiter
<1>2. CASE l.winKey = Limits!WindowOf(l)
  BY <1>2 DEF Limits!Rolled
<1>3. CASE l.winKey # Limits!WindowOf(l)
  <2> DEFINE new == [l EXCEPT !.winKey = Limits!WindowOf(l), !.count = 0]
  <2>1. Limits!Rolled(l) = new
    BY <1>3 DEF Limits!Rolled
  <2>2. new \in Limits!Limiter
    BY <1>1 DEF Limits!Limiter
  <2>3. /\ new.tokens = l.tokens /\ new.last = l.last /\ new.spent = l.spent
        /\ new.rate = l.rate /\ new.capacity = l.capacity /\ new.since = l.since
        /\ new.window = l.window /\ new.limit = l.limit /\ new.count = 0
        /\ new.winKey = Limits!WindowOf(l) /\ new.grants = l.grants
    BY DEF Limits!Limiter
  <2> HIDE DEF new
  <2>4. BucketHolds(new)
    BY <2>3 DEF BucketHolds
  <2>5. Limits!WindowOf(new) = Limits!WindowOf(l) /\ l.winKey \in 0 .. MaxTime
    BY <2>3 DEF Limits!WindowOf, Limits!Limiter
  <2>6. l.winKey < Limits!WindowOf(l)
    BY <1>1, <1>3, <2>5, LimitBounds DEF QuotaHolds
  <2>7. QuotaHolds(new)
    BY <1>1, <2>3, <2>5, <2>6, LimitBounds DEF QuotaHolds
  <2>8. QED
    BY <2>1, <2>2, <2>3, <2>4, <2>7
<1>4. QED
  BY <1>2, <1>3

LEMMA GrantHolds ==
    ASSUME NEW l \in Limits!Limiter, BucketHolds(l), QuotaHolds(l), Limits!HasQuota(l),
           now \in 0 .. MaxTime, l.winKey = Limits!WindowOf(l), l.limit - l.count > 0
    PROVE  LET new == [l EXCEPT !.count = @ + 1, !.grants[Limits!WindowOf(l)] = @ + 1]
           IN  new \in Limits!Limiter /\ BucketHolds(new) /\ QuotaHolds(new)
<1> DEFINE k == Limits!WindowOf(l)
           granted == [l.grants EXCEPT ![k] = l.grants[k] + 1]
           new == [l EXCEPT !.count = l.count + 1, !.grants = granted]
<1>1. /\ k \in 0 .. MaxTime /\ l.grants \in [0 .. MaxTime -> Nat] /\ l.count \in Nat
      /\ l.limit \in Nat
  BY DEF Limits!Limiter
<1>2. [l EXCEPT !.count = @ + 1, !.grants[Limits!WindowOf(l)] = @ + 1] = new
  BY DEF Limits!Limiter
<1>3. l.count + 1 \in Nat
  BY <1>1
<1> HIDE DEF k
<1>4. /\ granted \in [0 .. MaxTime -> Nat]
      /\ \A j \in 0 .. MaxTime : granted[j] = IF j = k THEN l.grants[k] + 1 ELSE l.grants[j]
  <2> DEFINE g == l.grants
  <2>1. g \in [0 .. MaxTime -> Nat] /\ k \in 0 .. MaxTime
    BY <1>1
  <2> HIDE DEF g
  <2>2. g[k] + 1 \in Nat
    BY <2>1
  <2>3. /\ [g EXCEPT ![k] = g[k] + 1] \in [0 .. MaxTime -> Nat]
        /\ \A j \in 0 .. MaxTime : [g EXCEPT ![k] = g[k] + 1][j] = IF j = k THEN g[k] + 1 ELSE g[j]
    BY <2>1, <2>2
  <2>4. QED
    BY <2>3 DEF g
<1> HIDE DEF granted
<1>5. new \in Limits!Limiter
  BY <1>4, <1>3 DEF Limits!Limiter
<1>6. /\ new.tokens = l.tokens /\ new.last = l.last /\ new.spent = l.spent
      /\ new.rate = l.rate /\ new.capacity = l.capacity /\ new.since = l.since
      /\ new.window = l.window /\ new.limit = l.limit /\ new.count = l.count + 1
      /\ new.winKey = k /\ new.grants = granted
  BY DEF Limits!Limiter, k
<1> HIDE DEF new
<1>7. BucketHolds(new)
  BY <1>6 DEF BucketHolds
<1>8. Limits!WindowOf(new) = k
  BY <1>6 DEF k, Limits!WindowOf
<1>9. QuotaHolds(new)
  <2>1. /\ l.grants[k] = l.count
        /\ \A j \in 0 .. MaxTime : l.grants[j] <= l.limit /\ (j > k => l.grants[j] = 0)
    BY DEF QuotaHolds, k
  <2>2. \A j \in 0 .. MaxTime : granted[j] <= l.limit /\ (j > k => granted[j] = 0)
    BY <1>1, <1>4, <2>1
  <2>3. granted[k] = l.count + 1
    BY <1>1, <1>4, <2>1
  <2>4. QED
    BY <1>1, <1>6, <1>8, <2>2, <2>3, LimitBounds DEF QuotaHolds
<1>10. QED
  BY <1>2, <1>5, <1>7, <1>9 DEF k

LEMMA LimitStep == ASSUME LimitInv, Limits!Next PROVE LimitInv'
<1>1. /\ now \in 0 .. MaxTime /\ limiters \in Seq(Limits!Limiter) /\ Len(limiters) \in Nat
      /\ DOMAIN limiters = 1 .. Len(limiters)
      /\ \A i \in 1 .. Len(limiters) : limiters[i] \in Limits!Limiter
  BY DEF LimitInv, Limits!TypeOK
<1>2. CASE Limits!Tick
  <2>1. now' = now + 1 /\ now' \in 0 .. MaxTime /\ UNCHANGED <<limiters, registry, check>>
    BY <1>1, <1>2, LimitBounds DEF Limits!Tick
  <2>2. Limits!TypeOK'
    BY <2>1 DEF LimitInv, Limits!TypeOK
  <2>3. ASSUME NEW i \in 1 .. Len(limiters)
        PROVE  BucketHolds(limiters[i])' /\ QuotaHolds(limiters[i])'
    <3> DEFINE l == limiters[i]
    <3>1. l \in Limits!Limiter /\ BucketHolds(l) /\ QuotaHolds(l) /\ l' = l
      BY <1>1, <2>1 DEF LimitInv
    <3>2. l.last \in Int /\ l.winKey \in Int /\ now \in Int /\ l.window \in Nat
      BY <1>1, <3>1, LimitBounds DEF Limits!Limiter
    <3> HIDE DEF l
    <3>3. BucketHolds(l)'
      BY <2>1, <3>1, <3>2 DEF BucketHolds
    <3>4. Limits!HasQuota(l) => Limits!WindowOf(l) <= Limits!WindowOf(l)'
      BY <1>1, <2>1, <3>1, <3>2, WindowIsTime DEF Limits!WindowOf, Limits!HasQuota
    <3>5. Limits!HasQuota(l) => Limits!WindowOf(l) \in Int /\ Limits!WindowOf(l)' \in Int
      BY <1>1, <2>1, <3>1, <3>2, WindowIsTime DEF Limits!WindowOf, Limits!HasQuota
    <3>6. QuotaHolds(l)'
      BY <3>1, <3>2, <3>4, <3>5 DEF QuotaHolds, Limits!HasQuota
    <3>7. QED
      BY <3>3, <3>6 DEF l
  <2>4. QED
    BY <2>1, <2>2, <2>3 DEF LimitInv
<1>3. ASSUME NEW key \in Limits!Keys, Limits!Deregister(key) PROVE LimitInv'
  <2>1. /\ registry' \in [Limits!Keys -> 0 .. Len(limiters)]
        /\ UNCHANGED <<now, limiters, check>>
    BY <1>1, <1>3 DEF Limits!Deregister, LimitInv, Limits!TypeOK
  <2>2. Limits!TypeOK'
    BY <2>1 DEF LimitInv, Limits!TypeOK
  <2>3. QED
    BY <2>1, <2>2 DEF LimitInv, BucketHolds, QuotaHolds, Limits!WindowOf, Limits!HasQuota
<1>4. ASSUME NEW key \in Limits!Keys, NEW c \in Configs, Limits!Register(key, c) PROVE LimitInv'
  <2> DEFINE new == Limits!NewLimiter(c)
             n == Len(limiters)
  <2>1. /\ limiters' = Append(limiters, new) /\ registry' = [registry EXCEPT ![key] = n + 1]
        /\ UNCHANGED <<now, check>>
    BY <1>4 DEF Limits!Register
  <2>2. c.rate \in Nat /\ c.burst \in Nat /\ c.window \in Nat /\ c.limit \in Nat
    BY LimitBounds DEF Limits!Config
  <2>3. (IF c.window = 0 THEN 0 ELSE now \div c.window) \in 0 .. MaxTime
    BY <1>1, <2>2, WindowIsTime, LimitBounds
  <2>4. Limits!Capacity(c) \in Nat
    BY <2>2 DEF Limits!Capacity
  <2>5. new \in Limits!Limiter
    BY <1>1, <2>2, <2>3, <2>4 DEF Limits!NewLimiter, Limits!Limiter
  <2>6. BucketHolds(new)
    BY <1>1, <2>2, <2>4, LimitBounds DEF Limits!NewLimiter, BucketHolds
  <2>7. QuotaHolds(new)
    BY <1>1, <2>2, <2>3, LimitBounds
       DEF Limits!NewLimiter, QuotaHolds, Limits!HasQuota, Limits!WindowOf
  <2> HIDE DEF new
  <2>8. /\ limiters' \in Seq(Limits!Limiter) /\ Len(limiters') = n + 1
        /\ \A i \in 1 .. n + 1 : limiters'[i] = IF i = n + 1 THEN new ELSE limiters[i]
    BY <1>1, <2>1, <2>5
  <2>9. /\ registry' \in [Limits!Keys -> 0 .. n + 1]
        /\ check' \in [Workers -> [at : {"idle", "get", "bucket", "quota"}, key : Limits!Keys,
                                   i : 0 .. n + 1]]
    <3>1. 0 .. n \subseteq 0 .. n + 1 /\ n + 1 \in 0 .. n + 1
      BY <1>1
    <3>2. registry \in [Limits!Keys -> 0 .. n]
      BY DEF LimitInv, Limits!TypeOK
    <3>3. \A w \in Workers : check[w] \in
             [at : {"idle", "get", "bucket", "quota"}, key : Limits!Keys, i : 0 .. n + 1]
      BY <3>1 DEF LimitInv, Limits!TypeOK
    <3>4. check = [w \in Workers |-> check[w]]
      BY DEF LimitInv, Limits!TypeOK
    <3>5. QED
      BY <2>1, <3>1, <3>2, <3>3, <3>4
  <2>10. Limits!TypeOK'
    BY <2>1, <2>8, <2>9 DEF LimitInv, Limits!TypeOK
  <2>11. \A i \in 1 .. n + 1 : BucketHolds(limiters'[i]) /\ QuotaHolds(limiters'[i])
    BY <1>1, <2>6, <2>7, <2>8 DEF LimitInv
  <2>12. QED
    BY <2>1, <2>8, <2>10, <2>11
       DEF LimitInv, BucketHolds, QuotaHolds, Limits!WindowOf, Limits!HasQuota
<1>5. /\ check \in [Workers -> [at : {"idle", "get", "bucket", "quota"}, key : Limits!Keys,
                                i : 0 .. Len(limiters)]]
      /\ \A w \in Workers : check[w].at \in {"bucket", "quota"} => check[w].i # 0
  BY DEF LimitInv, Limits!TypeOK
<1>6. ASSUME NEW i \in 1 .. Len(limiters), Limits!Reset(i) PROVE LimitInv'
  <2> DEFINE l == limiters[i]
             new == [l EXCEPT !.tokens = l.capacity, !.last = now, !.since = now, !.spent = 0]
  <2>1. l \in Limits!Limiter /\ BucketHolds(l) /\ QuotaHolds(l)
    BY <1>1 DEF LimitInv
  <2>2. limiters' = [limiters EXCEPT ![i] = new] /\ UNCHANGED <<now, registry, check>>
    BY <1>1, <1>6 DEF Limits!Reset
  <2> HIDE DEF l
  <2>3. new \in Limits!Limiter
    BY <1>1, <2>1 DEF Limits!Limiter
  <2>4. BucketHolds(new)
    <3>1. /\ new.since = now /\ new.last = now /\ new.spent = 0 /\ new.tokens = l.capacity
          /\ new.capacity = l.capacity /\ new.rate = l.rate /\ l.rate \in Nat /\ l.capacity \in Nat
      BY <2>1 DEF Limits!Limiter
    <3>2. now \in Int /\ (now - now) * l.rate = 0
      BY <1>1, <3>1, LimitBounds
    <3>3. QED
      BY <3>1, <3>2 DEF BucketHolds
  <2>5. QuotaHolds(new)
    BY <2>1 DEF QuotaHolds, Limits!HasQuota, Limits!WindowOf, Limits!Limiter
  <2> HIDE DEF new
  <2>6. QED
    BY <1>5, <2>2, <2>3, <2>4, <2>5, LimiterMoves
<1>7. ASSUME NEW w \in Workers, Limits!CheckJob(w) \/ Limits!CheckApp(w) PROVE LimitInv'
  BY <1>7, GetKeeps DEF Limits!CheckJob, Limits!CheckApp, Limits!Keys
<1>8. ASSUME NEW w \in Workers, check[w].at \in {"bucket", "quota"}
      PROVE  check[w].i \in 1 .. Len(limiters)
  BY <1>1, <1>5, <1>8
<1>9. ASSUME NEW w \in Workers, Limits!AllowBucket(w) PROVE LimitInv'
  <2> DEFINE i == check[w].i
             l == limiters[i]
             off == l.rate = 0
             ok == off \/ Limits!Available(l) >= 1
             new == IF off THEN l ELSE IF ok THEN Limits!TakeToken(l) ELSE Limits!Refilled(l)
             next == IF ok THEN [check[w] EXCEPT !.at = "quota"] ELSE Limits!Idle
  <2>1. /\ check[w].at = "bucket" /\ limiters' = [limiters EXCEPT ![i] = new]
        /\ check' = [check EXCEPT ![w] = next] /\ UNCHANGED <<now, registry>>
    BY <1>9 DEF Limits!AllowBucket
  <2>2. i \in 1 .. Len(limiters)
    BY <1>8, <2>1
  <2>3. l \in Limits!Limiter /\ BucketHolds(l) /\ QuotaHolds(l) /\ l.rate \in Nat
    BY <1>1, <2>2 DEF LimitInv, Limits!Limiter
  <2>4. new \in Limits!Limiter /\ BucketHolds(new) /\ QuotaHolds(new)
    <3>1. CASE off
      BY <2>3, <3>1
    <3>2. CASE ~off
      <4>1. l.rate > 0
        BY <2>3, <3>2
      <4>2. \/ Limits!Available(l) >= 1 /\ new = Limits!TakeToken(l)
            \/ new = Limits!Refilled(l)
        BY <3>2
      <4> HIDE DEF new, l
      <4>3. QED
        BY <1>1, <2>3, <4>1, <4>2, TakeHolds
    <3>3. QED
      BY <3>1, <3>2
  <2> HIDE DEF new, ok
  <2>5. /\ check' \in [Workers -> [at : {"idle", "get", "bucket", "quota"}, key : Limits!Keys,
                                   i : 0 .. Len(limiters)]]
        /\ \A v \in Workers : check'[v].at \in {"bucket", "quota"} => check'[v].i # 0
    BY <2>1, CheckMoves
  <2> HIDE DEF i, l, next
  <2>6. QED
    BY <2>1, <2>2, <2>4, <2>5, LimiterMoves
<1>10. ASSUME NEW w \in Workers, Limits!AllowQuota(w) PROVE LimitInv'
  <2> DEFINE i == check[w].i
             l == limiters[i]
             ok == ~Limits!HasQuota(l) \/ Limits!Remaining(l) > 0
             new == IF ~Limits!HasQuota(l) THEN l
                    ELSE IF ok THEN [Limits!Rolled(l) EXCEPT !.count = @ + 1,
                                                 !.grants[Limits!WindowOf(l)] = @ + 1]
                    ELSE Limits!Rolled(l)
             next == IF ok THEN Limits!Allowed(w) ELSE Limits!Idle
  <2>1. /\ check[w].at = "quota" /\ limiters' = [limiters EXCEPT ![i] = new]
        /\ check' = [check EXCEPT ![w] = next] /\ UNCHANGED <<now, registry>>
    BY <1>10 DEF Limits!AllowQuota
  <2>2. i \in 1 .. Len(limiters)
    BY <1>8, <2>1
  <2>3. l \in Limits!Limiter /\ BucketHolds(l) /\ QuotaHolds(l)
    BY <1>1, <2>2 DEF LimitInv
  <2>4. new \in Limits!Limiter /\ BucketHolds(new) /\ QuotaHolds(new)
    <3> HIDE DEF l
    <3>1. CASE ~Limits!HasQuota(l)
      BY <2>3, <3>1
    <3>2. CASE Limits!HasQuota(l)
      <4> DEFINE rolled == Limits!Rolled(l)
      <4>1. /\ rolled \in Limits!Limiter /\ BucketHolds(rolled) /\ QuotaHolds(rolled)
            /\ rolled.winKey = Limits!WindowOf(l)
            /\ rolled.window = l.window /\ rolled.limit = l.limit
        BY <1>1, <2>3, <3>2, RollHolds
      <4>2. Limits!HasQuota(rolled) /\ Limits!WindowOf(rolled) = Limits!WindowOf(l)
        BY <3>2, <4>1 DEF Limits!HasQuota, Limits!WindowOf
      <4>3. ok => rolled.limit - rolled.count > 0
        BY <3>2, <4>1 DEF Limits!Remaining
      <4>4. new = IF ok THEN [rolled EXCEPT !.count = @ + 1,
                                            !.grants[Limits!WindowOf(rolled)] = @ + 1]
                  ELSE rolled
        BY <3>2, <4>2
      <4> HIDE DEF rolled, new, ok
      <4>5. QED
        BY <1>1, <4>1, <4>2, <4>3, <4>4, GrantHolds
    <3>3. QED
      BY <3>1, <3>2
  <2> HIDE DEF new, ok
  <2>5. /\ check' \in [Workers -> [at : {"idle", "get", "bucket", "quota"}, key : Limits!Keys,
                                   i : 0 .. Len(limiters)]]
        /\ \A v \in Workers : check'[v].at \in {"bucket", "quota"} => check'[v].i # 0
    BY <2>1, CheckMoves
  <2> HIDE DEF i, l, next
  <2>6. QED
    BY <2>1, <2>2, <2>4, <2>5, LimiterMoves
<1>11. QED
  BY <1>1, <1>2, <1>3, <1>4, <1>6, <1>7, <1>9, <1>10 DEF Limits!Next

LEMMA LimitIsKept == ASSUME LimitInv PROVE Limits!LimitsHold
<1>1. /\ now \in 0 .. MaxTime /\ DOMAIN limiters = 1 .. Len(limiters)
      /\ \A i \in 1 .. Len(limiters) : limiters[i] \in Limits!Limiter
  BY DEF LimitInv, Limits!TypeOK
<1>2. Limits!BucketEarnsItsTokens
  BY <1>1, Earned DEF LimitInv, Limits!BucketEarnsItsTokens
<1>3. Limits!WindowHoldsItsLimit
  BY <1>1 DEF LimitInv, QuotaHolds, Limits!WindowHoldsItsLimit
<1>4. QED
  BY <1>2, <1>3 DEF Limits!LimitsHold

-----------------------------------------------------------------------------
(* The job service *)

LEMMA ControlBounds == MaxDefs \in Nat /\ MaxCalls \in Nat \ {0} /\ NoJob \notin Job
BY ControlAssumption

\* A good record, or none.
Maybe == {j \in Job : j.cron => j.timed} \cup {NoJob}

\* Every record that may be written to the table has a next time if it has an expression.
Timed ==
    /\ db \in Maybe /\ entry \in Maybe /\ flushing \in Maybe
    /\ pc \in [Callers -> {"idle", "save", "startSave", "start", "stop", "delete"}]
    /\ copy \in [Callers -> Maybe]
    /\ \A c \in Callers : pc[c] \in {"save", "startSave"} => copy[c] # NoJob

\* Before the first Load the scheduler has nothing to flush.
Unloaded == ~loaded => entry = NoJob /\ flushing = NoJob

\* What the row says of the job.
Asked == IF db = NoJob THEN "none" ELSE db.status

\* Without overlap one call is under way, and it will write the status it has read.
Alone ==
    /\ calls = 0 => Quiet
    /\ ~overlap => \A c, d \in Callers : pc[c] # "idle" /\ pc[d] # "idle" => c = d
    /\ ~loaded /\ ~overlap =>
          /\ want = Asked
          /\ \A c \in Callers : pc[c] # "idle" =>
                /\ db # NoJob
                /\ pc[c] \in {"save", "startSave"} => copy[c].status = db.status

\* The plain variables; nothing is dirty or drained without an entry.
Shaped ==
    /\ calls \in 0 .. MaxCalls /\ want \in {"run", "stop", "none"}
    /\ dirty \in BOOLEAN /\ loaded \in BOOLEAN /\ overlap \in BOOLEAN
    /\ dirty \/ flushing # NoJob => entry # NoJob

ControlInv == Timed /\ Shaped /\ Unloaded /\ Alone

LEMMA ControlInitially == ASSUME Init PROVE ControlInv
<1>1. Timed
  BY DEF Init, Timed, Maybe
<1>2. Shaped
  <2>1. calls = 0 /\ 0 \in 0 .. MaxCalls
    BY ControlBounds DEF Init
  <2>2. QED
    BY <2>1 DEF Init, Shaped
<1>3. QED
  BY <1>1, <1>2 DEF Init, ControlInv, Unloaded, Alone, Asked, Quiet

LEMMA ThreeFields ==
    ASSUME NEW j \in Job, NEW d \in 0 .. MaxDefs, NEW a \in BOOLEAN, NEW b \in BOOLEAN
    PROVE  [j EXCEPT !.def = d, !.cron = a, !.timed = b] \in Job
BY DEF Job

LEMMA StatusIsSet ==
    ASSUME NEW j \in Maybe, j # NoJob, NEW status \in {"run", "stop"}
    PROVE  /\ [j EXCEPT !.status = status] \in Maybe
           /\ [j EXCEPT !.status = status] # NoJob
           /\ [j EXCEPT !.status = status].status = status
<1>1. j \in Job /\ (j.cron => j.timed)
  BY DEF Maybe
<1>2. [j EXCEPT !.status = status] \in Job
  BY <1>1 DEF Job
<1>3. QED
  BY <1>1, <1>2, ControlBounds DEF Maybe, Job

\* A new record built from a good one is good.
LEMMA Rewrites ==
    ASSUME NEW j \in Maybe, j # NoJob, NEW cron \in BOOLEAN
    PROVE  /\ [j EXCEPT !.timed = TRUE] \in Maybe \ {NoJob}
           /\ [j EXCEPT !.timed = TRUE].status = j.status
           /\ [status |-> "stop", cron |-> cron, timed |-> cron, def |-> 0] \in Maybe \ {NoJob}
<1>1. j \in Job /\ (j.cron => j.timed)
  BY DEF Maybe
<1>2. [j EXCEPT !.timed = TRUE] \in Job
  BY <1>1 DEF Job
<1>3. [status |-> "stop", cron |-> cron, timed |-> cron, def |-> 0] \in Job
  BY ControlBounds DEF Job
<1>4. /\ [j EXCEPT !.timed = TRUE] \in Maybe \ {NoJob}
      /\ [j EXCEPT !.timed = TRUE].status = j.status
  BY <1>1, <1>2, ControlBounds DEF Maybe, Job
<1>5. [status |-> "stop", cron |-> cron, timed |-> cron, def |-> 0] \in Maybe \ {NoJob}
  BY <1>3, ControlBounds DEF Maybe
<1>6. QED
  BY <1>4, <1>5

LEMMA Updated ==
    ASSUME NEW j \in Maybe, j # NoJob, j.def < MaxDefs, NEW cron \in BOOLEAN
    PROVE  /\ [j EXCEPT !.def = @ + 1, !.cron = cron \/ @, !.timed = cron \/ @] \in Maybe \ {NoJob}
           /\ [j EXCEPT !.def = @ + 1, !.cron = cron \/ @, !.timed = cron \/ @].status = j.status
<1>1. j \in Job /\ (j.cron => j.timed)
  BY DEF Maybe
<1> DEFINE new == [j EXCEPT !.def = @ + 1, !.cron = cron \/ @, !.timed = cron \/ @]
<1>2. j.def + 1 \in 0 .. MaxDefs
  <2>1. j.def \in 0 .. MaxDefs
    BY <1>1 DEF Job
  <2>2. QED
    BY <2>1, ControlBounds
<1>3. (cron \/ j.cron) \in BOOLEAN /\ (cron \/ j.timed) \in BOOLEAN
  BY Zenon
<1>4. new \in Job
  BY <1>1, <1>2, <1>3, ThreeFields, Zenon
<1>5. (new.cron <=> cron \/ j.cron) /\ (new.timed <=> cron \/ j.timed) /\ new.status = j.status
  BY <1>1 DEF Job
<1> HIDE DEF new
<1>6. new \in Maybe \ {NoJob} /\ new.status = j.status
  BY <1>1, <1>4, <1>5, ControlBounds DEF Maybe
<1>7. QED
  BY <1>6 DEF new

LEMMA EnterKeeps ==
    ASSUME ControlInv, NEW c \in Callers, Enter(c),
           NEW label \in {"save", "startSave", "start", "stop", "delete"}, NEW job \in Maybe,
           Goto(c, label, job),
           label \in {"save", "startSave"} => job # NoJob /\ job.status = db.status
    PROVE  ControlInv'
<1> USE DEF ControlInv, Enter, Goto, schedVars
<1>1. Timed'
  <2>1. db' \in Maybe /\ entry' \in Maybe /\ flushing' \in Maybe
    BY DEF Timed
  <2>2. pc' \in [Callers -> {"idle", "save", "startSave", "start", "stop", "delete"}]
    BY DEF Timed
  <2>3. copy' \in [Callers -> Maybe]
    BY DEF Timed
  <2>4. \A d \in Callers : pc'[d] \in {"save", "startSave"} => copy'[d] # NoJob
    BY DEF Timed
  <2>5. QED
    BY <2>1, <2>2, <2>3, <2>4 DEF Timed
<1>2. Shaped' /\ Unloaded'
  BY ControlBounds DEF Shaped, Unloaded
<1>3. Alone'
  <2>1. calls' # 0 /\ db # NoJob /\ db' = db /\ want' = want /\ loaded' = loaded
    BY ControlBounds DEF Shaped
  <2>2. ~overlap' => ~overlap /\ \A d \in Callers : pc[d] = "idle"
    OBVIOUS
  <2>3. \A d \in Callers : pc'[d] = IF d = c THEN label ELSE pc[d]
    BY DEF Timed
  <2>4. \A d \in Callers : copy'[d] = IF d = c THEN job ELSE copy[d]
    BY DEF Timed
  <2>5. QED
    BY <2>1, <2>2, <2>3, <2>4 DEF Alone, Asked
<1>4. QED
  BY <1>1, <1>2, <1>3

\* The last step of a call, or the one before: c goes on with no record to write.
LEMMA WriteKeeps ==
    ASSUME ControlInv, NEW c \in Callers, pc[c] # "idle", UNCHANGED <<schedVars, loaded>>,
           NEW label \in {"idle", "start"}, Goto(c, label, NoJob), UNCHANGED <<calls, overlap>>,
           db' \in Maybe, want' \in {"run", "stop", "none"},
           ~loaded /\ ~overlap => want' = Asked' /\ (label = "start" => db' # NoJob)
    PROVE  ControlInv'
<1> USE DEF ControlInv, Goto, schedVars
<1>1. Timed'
  <2>1. db' \in Maybe /\ entry' \in Maybe /\ flushing' \in Maybe /\ NoJob \in Maybe
    BY DEF Timed, Maybe
  <2>2. pc' \in [Callers -> {"idle", "save", "startSave", "start", "stop", "delete"}]
    BY DEF Timed
  <2>3. copy' \in [Callers -> Maybe]
    BY <2>1 DEF Timed
  <2>4. \A d \in Callers : pc'[d] \in {"save", "startSave"} => copy'[d] # NoJob
    BY DEF Timed
  <2>5. QED
    BY <2>1, <2>2, <2>3, <2>4 DEF Timed
<1>2. Shaped' /\ Unloaded'
  BY ControlBounds DEF Shaped, Unloaded
<1>3. Alone'
  <2>1. \A d \in Callers : pc'[d] = IF d = c THEN label ELSE pc[d]
    BY DEF Timed
  <2>2. calls # 0
    BY DEF Alone, Quiet
  <2>3. ~overlap => \A d \in Callers : pc[d] # "idle" => d = c
    BY DEF Alone
  <2>4. QED
    BY <2>1, <2>2, <2>3 DEF Alone
<1>4. QED
  BY <1>1, <1>2, <1>3

LEMMA CallerKeeps ==
    ASSUME ControlInv, NEW c \in Callers, NEW cron \in BOOLEAN,
           \/ UpdateJob(c, cron) \/ StartJob(c) \/ StopJob(c) \/ DeleteJob(c)
           \/ Save(c) \/ UpdateStatus(c) \/ Delete(c) \/ DaoFails(c)
    PROVE  ControlInv'
<1> USE DEF ControlInv
<1>1. db \in Maybe /\ NoJob \in Maybe
  BY DEF Timed, Maybe
<1>2. CASE UpdateJob(c, cron)
  <2> DEFINE job == [db EXCEPT !.def = @ + 1, !.cron = cron \/ @, !.timed = cron \/ @]
  <2>1. db # NoJob /\ db.def < MaxDefs /\ Enter(c) /\ Goto(c, "save", job)
    BY <1>2 DEF UpdateJob
  <2>2. job \in Maybe \ {NoJob} /\ job.status = db.status
    BY <1>1, <2>1, Updated
  <2> HIDE DEF job
  <2>3. QED
    BY <2>1, <2>2, EnterKeeps
<1>3. CASE StartJob(c)
  <2>1. db # NoJob
    BY <1>3 DEF StartJob, Enter
  <2>2. CASE db.cron
    BY <1>1, <1>3, <2>1, <2>2, Rewrites, EnterKeeps DEF StartJob
  <2>3. CASE ~db.cron
    BY <1>1, <1>3, <2>3, EnterKeeps DEF StartJob
  <2>4. QED
    BY <2>2, <2>3
<1>4. CASE StopJob(c) \/ DeleteJob(c)
  BY <1>1, <1>4, EnterKeeps DEF StopJob, DeleteJob
<1>5. CASE Save(c)
  <2>1. copy[c] \in Maybe /\ copy[c] # NoJob
    BY <1>5 DEF Save, Timed
  <2>2. ~loaded /\ ~overlap => db # NoJob /\ want = db.status /\ copy[c].status = db.status
    BY <1>5 DEF Save, Alone, Asked
  <2>3. want \in {"run", "stop", "none"} /\ copy[c].status \in {"run", "stop"}
    BY <2>1 DEF Shaped, Maybe, Job
  <2>4. CASE pc[c] = "save"
    BY <1>5, <2>1, <2>2, <2>3, <2>4, WriteKeeps DEF Save, Return, Asked
  <2>5. CASE pc[c] # "save"
    BY <1>5, <2>1, <2>2, <2>3, <2>5, WriteKeeps DEF Save, Asked
  <2>6. QED
    BY <2>4, <2>5
<1>6. CASE UpdateStatus(c)
  <2> DEFINE status == IF pc[c] = "start" THEN "run" ELSE "stop"
             next == IF db = NoJob THEN NoJob ELSE [db EXCEPT !.status = status]
  <2>1. db' = next /\ Return(c, status) /\ UNCHANGED <<schedVars, loaded>> /\ pc[c] # "idle"
    BY <1>6 DEF UpdateStatus
  <2>2. next \in Maybe
    BY <1>1, StatusIsSet
  <2>3. db # NoJob => next # NoJob /\ next.status = status
    <3> status \in {"run", "stop"}
      OBVIOUS
    <3> HIDE DEF status
    <3>1. ASSUME db # NoJob PROVE next = [db EXCEPT !.status = status]
      BY <3>1
    <3>2. ASSUME db # NoJob
          PROVE  /\ [db EXCEPT !.status = status] # NoJob
                 /\ [db EXCEPT !.status = status].status = status
      BY <1>1, <3>2, StatusIsSet
    <3>3. QED
      BY <3>1, <3>2
  <2>4. ~loaded /\ ~overlap => db # NoJob
    BY <2>1 DEF Alone
  <2>5. QED
    BY <2>1, <2>2, <2>3, <2>4, WriteKeeps DEF Return, Asked
<1>7. CASE Delete(c)
  BY <1>1, <1>7, WriteKeeps DEF Delete, Return, Asked
<1>8. CASE DaoFails(c)
  <2>1. db # NoJob => db.status \in {"run", "stop"}
    BY <1>1 DEF Maybe, Job
  <2>2. QED
    BY <1>1, <1>8, <2>1, WriteKeeps DEF DaoFails, Return, Asked
<1>9. QED
  BY <1>2, <1>3, <1>4, <1>5, <1>6, <1>7, <1>8

LEMMA ControlStep == ASSUME ControlInv, [Next]_vars PROVE ControlInv'
<1> USE DEF ControlInv
<1>1. ASSUME NEW cron \in BOOLEAN, CreateJob(cron) PROVE ControlInv'
  <2> DEFINE job == [status |-> "stop", cron |-> cron, timed |-> cron, def |-> 0]
  <2>1. job \in Maybe /\ job # NoJob /\ job.status = "stop"
    <3>1. job \in Job
      BY ControlBounds DEF Job
    <3>2. QED
      BY <3>1, ControlBounds DEF Maybe
  <2>2. \A c \in Callers : pc[c] = "idle"
    BY <1>1 DEF CreateJob, Alone, Quiet
  <2>3. /\ db' = job /\ want' = "stop" /\ calls' = 1
        /\ UNCHANGED <<entry, dirty, flushing, pc, copy, overlap, loaded>>
    BY <1>1 DEF CreateJob, schedVars
  <2> HIDE DEF job
  <2>4. Timed' /\ Unloaded'
    BY <2>1, <2>3 DEF Timed, Unloaded
  <2>5. Shaped'
    <3>1. calls' \in 0 .. MaxCalls
      BY <2>3, ControlBounds
    <3>2. QED
      BY <2>3, <3>1 DEF Shaped
  <2>6. Alone'
    BY <2>1, <2>2, <2>3 DEF Alone, Asked, Quiet
  <2>7. QED
    BY <2>4, <2>5, <2>6
<1>2. CASE Load
  <2>1. /\ entry = NoJob /\ loaded' = TRUE /\ db # NoJob /\ entry' = db
        /\ UNCHANGED <<db, dirty, flushing, pc, copy, calls, want, overlap>>
    BY <1>2 DEF Load, callVars
  <2>2. Timed' /\ Shaped' /\ Unloaded' /\ Alone'
    BY <2>1 DEF Timed, Shaped, Unloaded, Alone, Quiet
  <2>3. QED
    BY <2>2
<1>3. CASE Reschedule
  <2>1. entry \in Maybe /\ entry # NoJob /\ loaded
    BY <1>3 DEF Reschedule, Timed, Unloaded
  <2>2. entry' \in Maybe /\ entry' # NoJob
    BY <1>3, <2>1, Rewrites, StatusIsSet DEF Reschedule
  <2>3. dirty' = TRUE /\ UNCHANGED <<db, flushing, pc, copy, calls, want, overlap, loaded>>
    BY <1>3 DEF Reschedule, callVars
  <2>4. Timed' /\ Shaped' /\ Unloaded' /\ Alone'
    BY <2>1, <2>2, <2>3 DEF Timed, Shaped, Unloaded, Alone, Quiet
  <2>5. QED
    BY <2>4
<1>4. CASE DrainDirty
  <2>1. /\ dirty /\ flushing = NoJob /\ flushing' = entry /\ dirty' = FALSE
        /\ UNCHANGED <<db, entry, pc, copy, calls, want, overlap, loaded>>
    BY <1>4 DEF DrainDirty, callVars
  <2>2. Timed' /\ Unloaded' /\ Alone'
    BY <2>1 DEF Timed, Unloaded, Alone, Asked, Quiet
  <2>3. Shaped'
    BY <2>1 DEF Shaped
  <2>4. QED
    BY <2>2, <2>3
<1>5. CASE FlushJob
  <2>1. db' \in {db, flushing} /\ loaded /\ entry # NoJob
    BY <1>5 DEF FlushJob, Unloaded, Shaped
  <2>2. /\ UNCHANGED <<entry, pc, copy, calls, want, overlap, loaded>> /\ flushing' = NoJob
        /\ dirty' = dirty \/ dirty' = TRUE
    BY <1>5 DEF FlushJob, callVars
  <2>3. Timed'
    BY <2>1, <2>2 DEF Timed, Maybe
  <2>4. Unloaded' /\ Alone'
    BY <2>1, <2>2 DEF Unloaded, Alone, Quiet
  <2>5. Shaped'
    BY <2>1, <2>2 DEF Shaped
  <2>6. QED
    BY <2>3, <2>4, <2>5
<1>6. CASE Crash
  <2>1. /\ entry' = NoJob /\ flushing' = NoJob /\ dirty' = FALSE
        /\ UNCHANGED <<db, pc, copy, calls, want, overlap, loaded>>
    BY <1>6 DEF Crash, callVars
  <2>2. Timed' /\ Shaped' /\ Unloaded' /\ Alone'
    BY <2>1 DEF Timed, Maybe, Shaped, Unloaded, Alone, Asked, Quiet
  <2>3. QED
    BY <2>2
<1>7. CASE UNCHANGED vars
  <2>1. UNCHANGED <<db, entry, dirty, flushing, pc, copy, calls, want, overlap, loaded>>
    BY <1>7 DEF vars, schedVars, callVars
  <2>2. Timed' /\ Shaped' /\ Unloaded' /\ Alone'
    BY <2>1 DEF Timed, Shaped, Unloaded, Alone, Asked, Quiet
  <2>3. QED
    BY <2>2
<1>8. QED
  BY <1>1, <1>2, <1>3, <1>4, <1>5, <1>6, <1>7, CallerKeeps DEF Next

\* The types; the row says what the last call asked for, and a row with an expression has a
\* next time.
LEMMA ControlHolds == ASSUME ControlInv PROVE TypeOK /\ LastCallHolds
<1>1. {db, entry, flushing} \subseteq Job \cup {NoJob} /\ copy \in [Callers -> Job \cup {NoJob}]
  BY DEF ControlInv, Timed, Maybe
<1>2. TypeOK
  BY <1>1 DEF ControlInv, Timed, Shaped, TypeOK
<1>3. LastCallHolds
  BY DEF ControlInv, Timed, Maybe, Alone, Asked, CronRowHasNext, LastCallHolds
<1>4. QED
  BY <1>2, <1>3

-----------------------------------------------------------------------------
(* The routers *)

\* A set of natural numbers that is not empty has a least element.
LEMMA LeastNat ==
    ASSUME NEW T, T \subseteq Nat, T # {}
    PROVE  \E x \in T : \A y \in T : x <= y
<1> DEFINE U == {0 .. n : n \in T}
<1>1. U # {} /\ U \subseteq FiniteSubsetsOf(Nat)
  <2>1. ASSUME NEW n \in T PROVE 0 .. n \in SUBSET Nat /\ IsFiniteSet(0 .. n)
    BY FS_Interval
  <2>2. QED
    BY <2>1 DEF FiniteSubsetsOf
<1>2. PICK u \in U : \A v \in U : <<v, u>> \notin StrictSubsetOrdering(Nat)
  <2> HIDE DEF U
  <2>1. QED
    BY <1>1, FS_StrictSubsetOrderingWellFounded, WFMin
<1>3. PICK x \in T : u = 0 .. x
  OBVIOUS
<1>4. ASSUME NEW y \in T, y < x PROVE FALSE
  <2>1. /\ 0 .. y \in U /\ 0 .. y \subseteq 0 .. x /\ 0 .. y # 0 .. x
        /\ 0 .. x \subseteq Nat /\ 0 .. y \subseteq Nat
    BY <1>4
  <2>2. <<0 .. y, 0 .. x>> \in StrictSubsetOrdering(Nat)
    BY <2>1 DEF StrictSubsetOrdering
  <2>3. QED
    BY <1>2, <1>3, <2>1, <2>2
<1>5. QED
  BY <1>4

\* How many addresses the routers know, and what LFU's history says of the address a.
Known == Cardinality(RouteAddrs)
Served(a) == {c \in Routers!Lists \X (1 .. MaxRoutes) : c[2] <= chosen[c[1]][a]}

RouteTyped ==
    /\ strategy \in Routers!Strategies /\ hash \in Hashes
    /\ routed \in 0 .. MaxRoutes
    /\ counter \in [Routers!Lists -> 0 .. routed]
    /\ chosen \in [Routers!Lists -> [RouteAddrs -> 0 .. routed]]
    /\ count \in [RouteAddrs -> 0 .. routed] /\ lastUsed \in [RouteAddrs -> 0 .. routed]
    /\ recent \in Seq(RouteAddrs) /\ (Len(recent) = 0 \/ Len(recent) < Known)
    /\ whole \in BOOLEAN

\* Every round a list has gone through in full served all its addresses, and the round that
\* is under way the first of them.
Turns ==
    \A s \in Routers!Lists : \A i \in 1 .. Len(s) :
        chosen[s][s[i]] = counter[s] \div Len(s) + (IF i <= counter[s] % Len(s) THEN 1 ELSE 0)

\* What LFU counts is how often it has chosen, and no count is ahead by two.
Tally ==
    /\ \A a \in RouteAddrs : IsFiniteSet(Served(a)) /\ Cardinality(Served(a)) = count[a]
    /\ whole => Routers!Level(count, RouteAddrs)

\* The last addresses LRU has chosen are in the order of their times, and all others are older.
Trail ==
    /\ \A i, j \in 1 .. Len(recent) : i < j => lastUsed[recent[i]] < lastUsed[recent[j]]
    /\ \A b \in RouteAddrs : (\A i \in 1 .. Len(recent) : recent[i] # b) =>
          \A i \in 1 .. Len(recent) : lastUsed[b] < lastUsed[recent[i]]

RouteInv ==
    /\ RouteTyped
    /\ strategy = "ROUND_ROBIN" => Turns
    /\ strategy = "LFU" => Tally
    /\ strategy = "LRU" /\ whole => Trail

LEMMA SameCardinality == \A S : Routers!Cardinality(S) = Cardinality(S)
BY DEF Cardinality, Routers!Cardinality

LEMMA RouteBounds == MaxRoutes \in Nat /\ Known \in Nat /\ Hashes \subseteq Nat
BY ClusterAssumption, FS_CardinalityType DEF Known

\* A list names addresses, at least one, and none of them twice.
LEMMA ListIs ==
    ASSUME NEW s \in Routers!Lists
    PROVE  /\ Len(s) \in Nat /\ Len(s) >= 1 /\ s \in [1 .. Len(s) -> RouteAddrs]
           /\ \A i, j \in 1 .. Len(s) : s[i] = s[j] => i = j
           /\ Routers!ToSet(s) = {s[i] : i \in 1 .. Len(s)}
           /\ Routers!ToSet(s) \subseteq RouteAddrs
<1>1. PICK S \in SUBSET RouteAddrs : S # {} /\ s \in Routers!SetToSeqs(S)
  BY DEF Routers!Lists
<1>2. IsFiniteSet(S) /\ Cardinality(S) \in Nat /\ Cardinality(S) # 0
  BY <1>1, ClusterAssumption, FS_Subset, FS_CardinalityType, FS_EmptySet
<1>3. /\ s \in [1 .. Cardinality(S) -> S]
      /\ \A i, j \in 1 .. Cardinality(S) : i # j => s[i] # s[j]
  BY <1>1, SameCardinality DEF Routers!SetToSeqs
<1>4. Len(s) = Cardinality(S) /\ DOMAIN s = 1 .. Len(s)
  BY <1>2, <1>3
<1>5. Routers!ToSet(s) = {s[i] : i \in 1 .. Len(s)}
  BY <1>4 DEF Routers!ToSet
<1>6. QED
  BY <1>1, <1>2, <1>3, <1>4, <1>5

\* FirstLeast chooses an address of the list, and none of the list has a lesser value.
LEMMA FirstLeastIs ==
    ASSUME NEW s \in Routers!Lists, NEW value \in [RouteAddrs -> Nat]
    PROVE  /\ Routers!FirstLeast(s, value) \in Routers!ToSet(s)
           /\ \A b \in Routers!ToSet(s) : value[Routers!FirstLeast(s, value)] <= value[b]
<1> DEFINE D == 1 .. Len(s)
           First(i) == \A j \in D : value[s[i]] < value[s[j]]
                                    \/ (value[s[i]] = value[s[j]] /\ i <= j)
<1>1. /\ Len(s) \in Nat /\ Len(s) >= 1 /\ DOMAIN s = D
      /\ \A i \in D : s[i] \in RouteAddrs /\ value[s[i]] \in Nat
  BY ListIs
<1>2. PICK i0 \in D : \A j \in D : value[s[i0]] <= value[s[j]]
  <2> DEFINE T == {value[s[i]] : i \in D}
  <2>1. T \subseteq Nat /\ T # {}
    BY <1>1
  <2>2. PICK x \in T : \A y \in T : x <= y
    BY <2>1, LeastNat
  <2>3. QED
    BY <2>2
<1>3. PICK i1 \in {i \in D : value[s[i]] = value[s[i0]]} :
        \A j \in {i \in D : value[s[i]] = value[s[i0]]} : i1 <= j
  <2> DEFINE T == {i \in D : value[s[i]] = value[s[i0]]}
  <2>1. T \subseteq Nat /\ T # {}
    BY <1>1
  <2> HIDE DEF T
  <2>2. \E x \in T : \A y \in T : x <= y
    BY <2>1, LeastNat
  <2>3. QED
    BY <2>2 DEF T
<1>4. i1 \in D /\ First(i1)
  BY <1>1, <1>2, <1>3
<1> DEFINE i2 == CHOOSE i \in D : First(i)
<1>5. i2 \in D /\ First(i2)
  <2> HIDE DEF First, D
  <2>1. QED
    BY <1>4
<1>6. Routers!FirstLeast(s, value) = s[i2]
  BY <1>1 DEF Routers!FirstLeast
<1> HIDE DEF i2
<1>7. s[i2] \in Routers!ToSet(s)
  BY <1>5, ListIs
<1>8. ASSUME NEW b \in Routers!ToSet(s) PROVE value[s[i2]] <= value[b]
  <2>1. PICK j \in D : b = s[j]
    BY <1>8, ListIs
  <2>2. QED
    BY <1>1, <1>5, <2>1
<1>9. QED
  BY <1>6, <1>7, <1>8

LEMMA RouteInitially == ASSUME Routers!Init PROVE RouteInv
<1> USE RouteBounds DEF Routers!Init
<1>1. RouteTyped
  BY DEF RouteTyped
<1>2. Turns
  <2>1. ASSUME NEW s \in Routers!Lists, NEW i \in 1 .. Len(s)
        PROVE  chosen[s][s[i]] = counter[s] \div Len(s)
                                   + (IF i <= counter[s] % Len(s) THEN 1 ELSE 0)
    <3>1. Len(s) \in Nat /\ Len(s) >= 1 /\ s[i] \in RouteAddrs
      BY ListIs
    <3>2. chosen[s][s[i]] = 0 /\ counter[s] = 0
      BY <3>1
    <3>3. 0 = Len(s) * 0 + 0 /\ 0 \in 0 .. Len(s) - 1
      BY <3>1
    <3>4. 0 \div Len(s) = 0 /\ 0 % Len(s) = 0
      BY <3>1, <3>3, DivisionUnique
    <3>5. QED
      BY <3>2, <3>4
  <2>2. QED
    BY <2>1 DEF Turns
<1>3. Tally
  <2>1. ASSUME NEW a \in RouteAddrs
        PROVE  IsFiniteSet(Served(a)) /\ Cardinality(Served(a)) = count[a]
    <3>1. Served(a) = {} /\ count[a] = 0
      BY DEF Served
    <3>2. QED
      BY <3>1, FS_EmptySet
  <2>2. Routers!Level(count, RouteAddrs)
    BY DEF Routers!Level
  <2>3. QED
    BY <2>1, <2>2 DEF Tally
<1>4. Trail
  BY DEF Trail
<1>5. QED
  BY <1>1, <1>2, <1>3, <1>4 DEF RouteInv

\* What a call of the router does: it chooses an address of the list, and remembers it.
LEMMA RouteIs ==
    ASSUME RouteInv, NEW s \in Routers!Lists, Routers!Route(s)
    PROVE  \E a \in Routers!ToSet(s) :
              /\ a \in Routers!Candidates(s) /\ Routers!Choose(s, a)
              /\ routed < MaxRoutes /\ routed' = routed + 1
              /\ chosen' = IF strategy \in {"ROUND_ROBIN", "LFU"}
                           THEN [chosen EXCEPT ![s][a] = chosen[s][a] + 1] ELSE chosen
              /\ recent' = IF strategy # "LRU" THEN recent
                           ELSE IF Len(Append(recent, a)) < Known THEN Append(recent, a)
                           ELSE Tail(Append(recent, a))
              /\ whole' = (whole /\ Routers!ToSet(s) = RouteAddrs)
              /\ UNCHANGED <<strategy, hash>>
<1>1. PICK a \in Routers!Candidates(s) :
         /\ Routers!Choose(s, a)
         /\ chosen' = IF strategy \in {"ROUND_ROBIN", "LFU"}
                      THEN [chosen EXCEPT ![s][a] = chosen[s][a] + 1] ELSE chosen
         /\ recent' = LET r == Append(recent, a) IN
              CASE strategy # "LRU" -> recent
                [] strategy = "LRU" /\ Len(r) < Routers!Cardinality(RouteAddrs) -> r
                [] OTHER -> Tail(r)
  BY DEF Routers!Route
<1>2. a \in Routers!ToSet(s)
  <2>1. /\ Len(s) \in Nat /\ Len(s) >= 1 /\ Routers!ToSet(s) = {s[i] : i \in 1 .. Len(s)}
        /\ Head(s) = s[1]
    BY ListIs
  <2>2. /\ strategy \in Routers!Strategies /\ hash \in Nat /\ counter[s] \in Nat
        /\ count \in [RouteAddrs -> Nat] /\ lastUsed \in [RouteAddrs -> Nat]
    BY RouteBounds DEF RouteInv, RouteTyped
  <2>3. (hash % Len(s)) + 1 \in 1 .. Len(s) /\ (counter[s] % Len(s)) + 1 \in 1 .. Len(s)
    <3>1. hash % Len(s) \in 0 .. Len(s) - 1 /\ counter[s] % Len(s) \in 0 .. Len(s) - 1
      BY <2>1, <2>2, Division
    <3>2. QED
      BY <2>1, <3>1
  <2>4. /\ Routers!FirstLeast(s, count) \in Routers!ToSet(s)
        /\ Routers!FirstLeast(s, lastUsed) \in Routers!ToSet(s)
    BY <2>2, FirstLeastIs
  <2>5. CASE strategy \in {"FIRST", "FAILOVER"}
    BY <1>1, <2>1, <2>5 DEF Routers!Candidates
  <2>6. CASE strategy = "LAST"
    BY <1>1, <2>1, <2>6 DEF Routers!Candidates, Routers!Last
  <2>7. CASE strategy = "RANDOM"
    BY <1>1, <2>7 DEF Routers!Candidates
  <2>8. CASE strategy = "CONSISTENT_HASH"
    BY <1>1, <2>1, <2>3, <2>8 DEF Routers!Candidates
  <2>9. CASE strategy = "ROUND_ROBIN"
    BY <1>1, <2>1, <2>3, <2>9 DEF Routers!Candidates
  <2>10. CASE strategy = "LFU"
    BY <1>1, <2>4, <2>10 DEF Routers!Candidates
  <2>11. CASE strategy = "LRU"
    BY <1>1, <2>4, <2>11 DEF Routers!Candidates
  <2>12. QED
    BY <2>2, <2>5, <2>6, <2>7, <2>8, <2>9, <2>10, <2>11 DEF Routers!Strategies
<1>3. recent' = IF strategy # "LRU" THEN recent
                ELSE IF Len(Append(recent, a)) < Known THEN Append(recent, a)
                ELSE Tail(Append(recent, a))
  BY <1>1, SameCardinality DEF Known
<1>4. /\ routed < MaxRoutes /\ routed' = routed + 1
      /\ whole' = (whole /\ Routers!ToSet(s) = RouteAddrs)
      /\ UNCHANGED <<strategy, hash>>
  BY DEF Routers!Route
<1>5. QED
  BY <1>1, <1>2, <1>3, <1>4

\* Functions to 0 .. n that are raised by one at one place are functions to 0 .. n + 1.
LEMMA Raised ==
    ASSUME NEW S, NEW n \in Nat, NEW f \in [S -> 0 .. n], NEW x \in S
    PROVE  /\ [f EXCEPT ![x] = f[x] + 1] \in [S -> 0 .. n + 1]
           /\ f \in [S -> 0 .. n + 1]
           /\ [f EXCEPT ![x] = n + 1] \in [S -> 0 .. n + 1]
<1>1. f[x] + 1 \in 0 .. n + 1 /\ 0 .. n \subseteq 0 .. n + 1 /\ n + 1 \in 0 .. n + 1
  OBVIOUS
<1>2. QED
  BY <1>1

LEMMA RouteTypes ==
    ASSUME RouteInv, NEW s \in Routers!Lists, NEW a \in RouteAddrs, Routers!Choose(s, a),
           routed < MaxRoutes, routed' = routed + 1,
           chosen' = IF strategy \in {"ROUND_ROBIN", "LFU"}
                     THEN [chosen EXCEPT ![s][a] = chosen[s][a] + 1] ELSE chosen,
           recent' = IF strategy # "LRU" THEN recent
                     ELSE IF Len(Append(recent, a)) < Known THEN Append(recent, a)
                     ELSE Tail(Append(recent, a)),
           whole' \in BOOLEAN,
           UNCHANGED <<strategy, hash>>
    PROVE  RouteTyped'
<1>1. RouteTyped /\ routed \in Nat
  <2>1. RouteTyped /\ routed \in 0 .. MaxRoutes
    BY DEF RouteInv, RouteTyped
  <2>2. QED
    BY <2>1
<1>2. counter' \in [Routers!Lists -> 0 .. routed'] /\ count' \in [RouteAddrs -> 0 .. routed']
  BY <1>1, Raised DEF RouteTyped, Routers!Choose
<1>3. lastUsed' \in [RouteAddrs -> 0 .. routed']
  BY <1>1, Raised DEF RouteTyped, Routers!Choose
<1>4. chosen' \in [Routers!Lists -> [RouteAddrs -> 0 .. routed']]
  <2>1. /\ chosen \in [Routers!Lists -> [RouteAddrs -> 0 .. routed]]
        /\ 0 .. routed \subseteq 0 .. routed'
    BY <1>1 DEF RouteTyped
  <2>2. [chosen[s] EXCEPT ![a] = chosen[s][a] + 1] \in [RouteAddrs -> 0 .. routed']
    BY <1>1, <2>1, Raised
  <2>3. chosen \in [Routers!Lists -> [RouteAddrs -> 0 .. routed']]
    BY <2>1
  <2>4. [chosen EXCEPT ![s][a] = chosen[s][a] + 1]
          = [chosen EXCEPT ![s] = [chosen[s] EXCEPT ![a] = chosen[s][a] + 1]]
    BY <2>1
  <2>5. QED
    BY <2>2, <2>3, <2>4
<1>5. recent' \in Seq(RouteAddrs) /\ (Len(recent') = 0 \/ Len(recent') < Known)
  <2> DEFINE r == Append(recent, a)
  <2>1. /\ recent \in Seq(RouteAddrs) /\ Len(recent) \in Nat
        /\ Len(recent) = 0 \/ Len(recent) < Known
    BY <1>1 DEF RouteTyped
  <2>2. r \in Seq(RouteAddrs) /\ Len(r) = Len(recent) + 1
    BY <2>1
  <2>3. Tail(r) \in Seq(RouteAddrs) /\ Len(Tail(r)) = Len(recent)
    BY <2>1, <2>2
  <2> HIDE DEF r
  <2>4. QED
    BY <2>1, <2>2, <2>3 DEF r
<1>6. routed' \in 0 .. MaxRoutes
  BY <1>1, RouteBounds
<1>7. QED
  BY <1>1, <1>2, <1>3, <1>4, <1>5, <1>6 DEF RouteTyped

\* A counter moves on by one: a round of n ends, or goes on.
LEMMA NextTurn ==
    ASSUME NEW c \in Nat, NEW n \in Nat, n >= 1
    PROVE  /\ c \div n \in Int /\ c % n \in 0 .. n - 1
           /\ (c % n) + 1 = n => (c + 1) \div n = c \div n + 1 /\ (c + 1) % n = 0
           /\ (c % n) + 1 # n => (c + 1) \div n = c \div n /\ (c + 1) % n = (c % n) + 1
<1>1. /\ c \in Int /\ n \in Int /\ n > 0
      /\ c \div n \in Int /\ c % n \in 0 .. n - 1 /\ c = n * (c \div n) + (c % n)
  BY Division
<1>2. PICK q \in Int, m \in 0 .. n - 1 : q = c \div n /\ m = c % n /\ c = n * q + m
  BY <1>1
<1>3. n * q \in Int /\ n * (q + 1) = n * q + n
  BY <1>1
<1>4. ASSUME m + 1 = n PROVE (c + 1) \div n = q + 1 /\ (c + 1) % n = 0
  <2>1. c + 1 = n * (q + 1) + 0
    BY <1>1, <1>2, <1>3, <1>4
  <2>2. c + 1 \in Int /\ q + 1 \in Int /\ 0 \in 0 .. n - 1
    BY <1>1
  <2>3. QED
    BY <1>1, <2>1, <2>2, DivisionUnique
<1>5. ASSUME m + 1 # n PROVE (c + 1) \div n = q /\ (c + 1) % n = m + 1
  <2>1. c + 1 = n * q + (m + 1)
    BY <1>1, <1>2, <1>3
  <2>2. c + 1 \in Int /\ m + 1 \in 0 .. n - 1
    BY <1>1, <1>5
  <2>3. QED
    BY <1>1, <2>1, <2>2, DivisionUnique
<1>6. QED
  BY <1>1, <1>2, <1>4, <1>5

LEMMA TurnsKeep ==
    ASSUME RouteTyped, Turns, NEW s \in Routers!Lists,
           counter' = [counter EXCEPT ![s] = counter[s] + 1],
           chosen' = [chosen EXCEPT ![s][s[(counter[s] % Len(s)) + 1]]
                        = chosen[s][s[(counter[s] % Len(s)) + 1]] + 1]
    PROVE  Turns'
<1>1. PICK n \in Nat : n = Len(s)
  BY ListIs
<1>2. /\ n >= 1 /\ s \in [1 .. n -> RouteAddrs]
      /\ \A i, j \in 1 .. n : s[i] = s[j] => i = j
  BY <1>1, ListIs
<1>3. /\ counter \in [Routers!Lists -> 0 .. routed]
      /\ chosen \in [Routers!Lists -> [RouteAddrs -> 0 .. routed]]
      /\ routed \in Nat
  BY RouteBounds DEF RouteTyped
<1>4. PICK c \in Nat : c = counter[s]
  BY <1>3
<1>5. PICK q \in Int, m \in 0 .. n - 1 : q = c \div n /\ m = c % n
  BY <1>2, NextTurn
<1>6. /\ m + 1 = n => (c + 1) \div n = q + 1 /\ (c + 1) % n = 0
      /\ m + 1 # n => (c + 1) \div n = q /\ (c + 1) % n = m + 1
  BY <1>2, <1>5, NextTurn
<1>7. m + 1 \in 1 .. n /\ s[m + 1] \in RouteAddrs
  BY <1>2
<1>8. chosen' = [chosen EXCEPT ![s][s[m + 1]] = chosen[s][s[m + 1]] + 1]
  BY <1>1, <1>4, <1>5
<1>9. /\ counter'[s] = c + 1 /\ \A t \in Routers!Lists \ {s} : counter'[t] = counter[t]
      /\ \A t \in Routers!Lists \ {s} : chosen'[t] = chosen[t]
      /\ chosen'[s] = [chosen[s] EXCEPT ![s[m + 1]] = chosen[s][s[m + 1]] + 1]
  BY <1>3, <1>4, <1>7, <1>8
<1>10. ASSUME NEW i \in 1 .. n
       PROVE  chosen'[s][s[i]] = (c + 1) \div n + (IF i <= (c + 1) % n THEN 1 ELSE 0)
  <2>1. chosen'[s][s[i]] = chosen[s][s[i]] + (IF i = m + 1 THEN 1 ELSE 0)
    <3>1. s[i] = s[m + 1] <=> i = m + 1
      BY <1>2, <1>7
    <3>2. chosen[s] \in [RouteAddrs -> 0 .. routed] /\ s[i] \in RouteAddrs
      BY <1>2, <1>3
    <3>3. CASE i = m + 1
      BY <1>9, <3>2, <3>3
    <3>4. CASE i # m + 1
      <4>1. chosen'[s][s[i]] = chosen[s][s[i]] /\ chosen[s][s[i]] \in Int
        BY <1>9, <3>1, <3>2, <3>4
      <4>2. QED
        BY <3>4, <4>1
    <3>5. QED
      BY <3>3, <3>4
  <2>2. chosen[s][s[i]] = q + (IF i <= m THEN 1 ELSE 0)
    BY <1>1, <1>4, <1>5 DEF Turns
  <2>3. CASE m + 1 = n
    <3>1. (c + 1) \div n = q + 1 /\ (c + 1) % n = 0
      BY <1>6, <2>3
    <3>2. QED
      BY <1>2, <2>1, <2>2, <2>3, <3>1
  <2>4. CASE m + 1 # n
    <3>1. (c + 1) \div n = q /\ (c + 1) % n = m + 1
      BY <1>6, <2>4
    <3>2. QED
      BY <1>2, <2>1, <2>2, <2>4, <3>1
  <2>5. QED
    BY <2>3, <2>4
<1>11. ASSUME NEW t \in Routers!Lists, NEW i \in 1 .. Len(t)
       PROVE  chosen'[t][t[i]] = counter'[t] \div Len(t)
                                   + (IF i <= counter'[t] % Len(t) THEN 1 ELSE 0)
  <2>1. CASE t = s
    BY <1>1, <1>9, <1>10, <2>1
  <2>2. CASE t # s
    <3>1. chosen'[t] = chosen[t] /\ counter'[t] = counter[t]
      BY <1>9, <2>2
    <3>2. chosen[t][t[i]] = counter[t] \div Len(t) + (IF i <= counter[t] % Len(t) THEN 1 ELSE 0)
      BY DEF Turns
    <3>3. QED
      BY <3>1, <3>2
  <2>3. QED
    BY <2>1, <2>2
<1>12. QED
  BY <1>11 DEF Turns

LEMMA TallyKeeps ==
    ASSUME RouteTyped, Tally, NEW s \in Routers!Lists, NEW a \in RouteAddrs, routed < MaxRoutes,
           count' = [count EXCEPT ![a] = count[a] + 1],
           chosen' = [chosen EXCEPT ![s][a] = chosen[s][a] + 1],
           whole' => whole /\ \A b \in RouteAddrs : count[a] <= count[b]
    PROVE  Tally'
<1>1. /\ chosen \in [Routers!Lists -> [RouteAddrs -> 0 .. routed]]
      /\ count \in [RouteAddrs -> Nat] /\ routed \in Nat
  BY RouteBounds DEF RouteTyped
<1>2. PICK k \in 0 .. routed : k = chosen[s][a]
  BY <1>1
<1>3. chosen'[s][a] = k + 1
  BY <1>1, <1>2
<1>4. \A t \in Routers!Lists, b \in RouteAddrs :
         t # s \/ b # a => chosen'[t][b] = chosen[t][b]
  BY <1>1
<1>5. Served(a)' = Served(a) \cup {<<s, k + 1>>}
  <2>1. ASSUME NEW c \in Routers!Lists \X (1 .. MaxRoutes)
        PROVE  c[2] <= chosen'[c[1]][a] <=> c[2] <= chosen[c[1]][a] \/ c = <<s, k + 1>>
    <3>1. c[2] \in Int /\ c = <<c[1], c[2]>> /\ c[1] \in Routers!Lists
      OBVIOUS
    <3>2. CASE c[1] = s
      BY <1>2, <1>3, <3>1, <3>2
    <3>3. CASE c[1] # s
      BY <1>4, <3>1, <3>3
    <3>4. QED
      BY <3>2, <3>3
  <2>2. <<s, k + 1>> \in Routers!Lists \X (1 .. MaxRoutes)
    BY <1>1, RouteBounds
  <2>3. QED
    BY <2>1, <2>2 DEF Served
<1>6. <<s, k + 1>> \notin Served(a)
  BY <1>2 DEF Served
<1>7. ASSUME NEW b \in RouteAddrs
      PROVE  IsFiniteSet(Served(b)') /\ Cardinality(Served(b)') = count'[b]
  <2>1. IsFiniteSet(Served(b)) /\ Cardinality(Served(b)) = count[b]
    BY DEF Tally
  <2>2. CASE b = a
    <3>1. count'[a] = count[a] + 1
      BY <1>1
    <3>2. /\ IsFiniteSet(Served(a) \cup {<<s, k + 1>>})
          /\ Cardinality(Served(a) \cup {<<s, k + 1>>}) = Cardinality(Served(a)) + 1
      BY <1>6, <2>1, <2>2, FS_AddElement
    <3>3. QED
      BY <1>5, <2>1, <2>2, <3>1, <3>2
  <2>3. CASE b # a
    <3>1. Served(b)' = Served(b)
      BY <1>4, <2>3 DEF Served
    <3>2. count'[b] = count[b]
      BY <1>1, <2>3
    <3>3. QED
      BY <2>1, <3>1, <3>2
  <2>4. QED
    BY <2>2, <2>3
<1>8. ASSUME whole' PROVE Routers!Level(count, RouteAddrs)'
  <2>1. \A b, c \in RouteAddrs : count[b] <= count[c] + 1
    BY <1>8 DEF Tally, Routers!Level
  <2>2. \A b \in RouteAddrs : count[a] <= count[b]
    BY <1>8
  <2>3. \A b, c \in RouteAddrs : count'[b] <= count'[c] + 1
    BY <1>1, <2>1, <2>2
  <2>4. QED
    BY <2>3 DEF Routers!Level
<1>9. QED
  BY <1>7, <1>8 DEF Tally

\* Fewer addresses than there are leave one out.
LEMMA OneIsLeft ==
    ASSUME RouteTyped, Len(recent) < Known
    PROVE  \E b \in RouteAddrs : \A i \in 1 .. Len(recent) : recent[i] # b
<1> SUFFICES ASSUME \A b \in RouteAddrs : \E i \in 1 .. Len(recent) : recent[i] = b PROVE FALSE
  OBVIOUS
<1>1. recent \in [1 .. Len(recent) -> RouteAddrs] /\ Len(recent) \in Nat
  BY DEF RouteTyped
<1>2. recent \in Surjection(1 .. Len(recent), RouteAddrs)
  BY <1>1 DEF Surjection
<1>3. Known <= Len(recent)
  BY <1>1, <1>2, FS_SurjCardinalityBound DEF Known, ExistsSurjection
<1>4. QED
  BY <1>1, <1>3, RouteBounds

LEMMA TrailKeeps ==
    ASSUME RouteTyped, Trail, NEW a \in RouteAddrs,
           lastUsed' = [lastUsed EXCEPT ![a] = routed + 1],
           recent' = IF Len(Append(recent, a)) < Known THEN Append(recent, a)
                     ELSE Tail(Append(recent, a)),
           \A b \in RouteAddrs : lastUsed[a] <= lastUsed[b]
    PROVE  Trail'
<1> DEFINE n == Len(recent)
<1>1. /\ recent \in Seq(RouteAddrs) /\ n \in Nat /\ (n = 0 \/ n < Known)
      /\ \A i \in 1 .. n : recent[i] \in RouteAddrs
      /\ lastUsed \in [RouteAddrs -> 0 .. routed] /\ routed \in Nat
  BY RouteBounds DEF RouteTyped
\* The chosen address is none of the last ones: some address that is not is as old as it.
<1>2. \A i \in 1 .. n : recent[i] # a
  <2>1. CASE n = 0
    BY <2>1
  <2>2. CASE n < Known
    <3>1. PICK b \in RouteAddrs : \A i \in 1 .. n : recent[i] # b
      BY <2>2, OneIsLeft
    <3>2. ASSUME NEW i \in 1 .. n, recent[i] = a PROVE FALSE
      <4>1. lastUsed[b] < lastUsed[a]
        BY <3>1, <3>2 DEF Trail
      <4>2. lastUsed[a] <= lastUsed[b] /\ lastUsed[a] \in Int /\ lastUsed[b] \in Int
        BY <1>1
      <4>3. QED
        BY <4>1, <4>2
    <3>3. QED
      BY <3>2
  <2>3. QED
    BY <1>1, <2>1, <2>2
<1> DEFINE r == Append(recent, a)
<1>3. /\ Len(r) = n + 1 /\ r \in Seq(RouteAddrs) /\ r[n + 1] = a
      /\ \A i \in 1 .. n : r[i] = recent[i]
      /\ \A i \in 1 .. n + 1 : r[i] \in RouteAddrs
  BY <1>1
<1>4. /\ lastUsed'[a] = routed + 1 /\ \A b \in RouteAddrs \ {a} : lastUsed'[b] = lastUsed[b]
      /\ \A b \in RouteAddrs : lastUsed[b] < routed + 1 /\ lastUsed'[b] \in Int
  BY <1>1
\* The longer trail is in order, and who is not on it is older.
<1> HIDE DEF r, n
<1>5. \A i, j \in 1 .. n + 1 : i < j => lastUsed'[r[i]] < lastUsed'[r[j]]
  <2>1. ASSUME NEW i \in 1 .. n + 1, NEW j \in 1 .. n + 1, i < j
        PROVE  lastUsed'[r[i]] < lastUsed'[r[j]]
    <3>1. i \in 1 .. n
      BY <1>1, <2>1
    <3>2. r[i] = recent[i] /\ r[i] # a /\ r[i] \in RouteAddrs /\ lastUsed'[r[i]] = lastUsed[r[i]]
      BY <1>2, <1>3, <1>4, <3>1
    <3>3. CASE j = n + 1
      BY <1>3, <1>4, <3>2, <3>3
    <3>4. CASE j # n + 1
      <4>1. j \in 1 .. n /\ r[j] = recent[j] /\ lastUsed'[r[j]] = lastUsed[r[j]]
        BY <1>1, <1>2, <1>3, <1>4, <3>4
      <4>2. lastUsed[recent[i]] < lastUsed[recent[j]]
        BY <2>1, <3>1, <4>1 DEF Trail, n
      <4>3. QED
        BY <3>2, <4>1, <4>2
    <3>5. QED
      BY <3>3, <3>4
  <2>2. QED
    BY <2>1
<1>6. ASSUME NEW b \in RouteAddrs, \A i \in 1 .. n + 1 : r[i] # b, NEW i \in 1 .. n + 1
      PROVE  lastUsed'[b] < lastUsed'[r[i]]
  <2>1. b # a /\ \A j \in 1 .. n : recent[j] # b
    <3>1. n + 1 \in 1 .. n + 1 /\ 1 .. n \subseteq 1 .. n + 1
      BY <1>1
    <3>2. QED
      BY <1>3, <1>6, <3>1
  <2>2. CASE i = n + 1
    BY <1>3, <1>4, <2>1, <2>2
  <2>3. CASE i # n + 1
    <3>1. i \in 1 .. n /\ r[i] = recent[i] /\ lastUsed'[r[i]] = lastUsed[r[i]]
      BY <1>1, <1>2, <1>3, <1>4, <2>3
    <3>2. lastUsed[b] < lastUsed[recent[i]]
      BY <2>1, <3>1 DEF Trail, n
    <3>3. QED
      BY <1>4, <2>1, <3>1, <3>2
  <2>4. QED
    BY <2>2, <2>3
<1>7. CASE recent' = r
  <2>1. \A b \in RouteAddrs : (\A i \in 1 .. n + 1 : r[i] # b) =>
           \A i \in 1 .. n + 1 : lastUsed'[b] < lastUsed'[r[i]]
    BY <1>6
  <2>2. QED
    BY <1>3, <1>5, <1>7, <2>1 DEF Trail
<1>8. CASE recent' = Tail(r)
  <2>1. Len(recent') = n /\ \A i \in 1 .. n : recent'[i] = r[i + 1]
    <3>1. r # <<>>
      BY <1>1, <1>3
    <3>2. Len(Tail(r)) = Len(r) - 1
      BY <1>3, <3>1
    <3>3. \A i \in 1 .. Len(r) - 1 : Tail(r)[i] = r[i + 1]
      BY <1>3, <3>1
    <3>4. Len(r) - 1 = n
      BY <1>1, <1>3
    <3>5. QED
      BY <1>8, <3>2, <3>3, <3>4
  <2>2. \A i, j \in 1 .. n : i < j => lastUsed'[recent'[i]] < lastUsed'[recent'[j]]
    <3>1. ASSUME NEW i \in 1 .. n, NEW j \in 1 .. n, i < j
          PROVE  lastUsed'[recent'[i]] < lastUsed'[recent'[j]]
      <4>1. i + 1 \in 1 .. n + 1 /\ j + 1 \in 1 .. n + 1 /\ i + 1 < j + 1
        BY <1>1, <3>1
      <4>2. lastUsed'[r[i + 1]] < lastUsed'[r[j + 1]]
        BY <1>5, <4>1
      <4>3. QED
        BY <2>1, <4>2
    <3>2. QED
      BY <3>1
  <2>3. ASSUME NEW b \in RouteAddrs, \A i \in 1 .. n : recent'[i] # b, NEW i \in 1 .. n
        PROVE  lastUsed'[b] < lastUsed'[recent'[i]]
    <3>1. i + 1 \in 1 .. n + 1 /\ 1 \in 1 .. n + 1 /\ 1 < i + 1 /\ recent'[i] = r[i + 1]
      <4>1. n \in Nat /\ recent'[i] = r[i + 1]
        BY <1>1, <2>1
      <4>2. i + 1 \in 1 .. n + 1 /\ 1 \in 1 .. n + 1 /\ 1 < i + 1
        BY <4>1
      <4>3. QED
        BY <4>1, <4>2
    <3>2. CASE b = r[1]
      <4>1. lastUsed'[r[1]] < lastUsed'[r[i + 1]]
        BY <1>5, <3>1
      <4>2. QED
        BY <3>1, <3>2, <4>1
    <3>3. CASE b # r[1]
      <4>1. ASSUME NEW j \in 1 .. n + 1 PROVE r[j] # b
        <5>1. CASE j = 1
          BY <3>3, <5>1
        <5>2. CASE j # 1
          <6>1. j - 1 \in 1 .. n /\ (j - 1) + 1 = j
            BY <1>1, <5>2
          <6>2. QED
            BY <2>1, <2>3, <6>1
        <5>3. QED
          BY <5>1, <5>2
      <4>2. QED
        BY <1>6, <3>1, <4>1
    <3>4. QED
      BY <3>2, <3>3
  <2>4. QED
    BY <2>1, <2>2, <2>3 DEF Trail
<1>9. QED
  BY <1>7, <1>8 DEF r

LEMMA RouteStep == ASSUME RouteInv, Routers!Next PROVE RouteInv'
<1>1. PICK s \in Routers!Lists : Routers!Route(s)
  BY DEF Routers!Next
<1>2. PICK a \in Routers!ToSet(s) :
         /\ a \in Routers!Candidates(s) /\ Routers!Choose(s, a)
         /\ routed < MaxRoutes /\ routed' = routed + 1
         /\ chosen' = IF strategy \in {"ROUND_ROBIN", "LFU"}
                      THEN [chosen EXCEPT ![s][a] = chosen[s][a] + 1] ELSE chosen
         /\ recent' = IF strategy # "LRU" THEN recent
                      ELSE IF Len(Append(recent, a)) < Known THEN Append(recent, a)
                      ELSE Tail(Append(recent, a))
         /\ whole' = (whole /\ Routers!ToSet(s) = RouteAddrs)
         /\ UNCHANGED <<strategy, hash>>
  BY <1>1, RouteIs
<1>3. a \in RouteAddrs /\ whole' \in BOOLEAN
  BY <1>2, ListIs
<1>4. RouteTyped'
  BY <1>2, <1>3, RouteTypes
<1>5. count \in [RouteAddrs -> Nat] /\ lastUsed \in [RouteAddrs -> Nat]
  BY DEF RouteInv, RouteTyped
<1>6. ASSUME strategy' = "ROUND_ROBIN" PROVE Turns'
  <2>1. strategy = "ROUND_ROBIN"
    BY <1>2, <1>6
  <2>2. a = s[(counter[s] % Len(s)) + 1]
    BY <1>2, <2>1 DEF Routers!Candidates
  <2>3. /\ counter' = [counter EXCEPT ![s] = counter[s] + 1]
        /\ chosen' = [chosen EXCEPT ![s][a] = chosen[s][a] + 1]
    BY <1>2, <2>1 DEF Routers!Choose
  <2>4. QED
    BY <2>1, <2>2, <2>3, TurnsKeep DEF RouteInv
<1>7. ASSUME strategy' = "LFU" PROVE Tally'
  <2>1. strategy = "LFU"
    BY <1>2, <1>7
  <2>2. a = Routers!FirstLeast(s, count)
    BY <1>2, <2>1 DEF Routers!Candidates
  <2>3. /\ count' = [count EXCEPT ![a] = count[a] + 1]
        /\ chosen' = [chosen EXCEPT ![s][a] = chosen[s][a] + 1]
    BY <1>2, <2>1 DEF Routers!Choose
  <2>4. whole' => whole /\ \A b \in RouteAddrs : count[a] <= count[b]
    BY <1>2, <1>5, <2>2, FirstLeastIs
  <2>5. QED
    BY <1>2, <1>3, <2>1, <2>3, <2>4, TallyKeeps DEF RouteInv
<1>8. ASSUME strategy' = "LRU", whole' PROVE Trail'
  <2>1. strategy = "LRU" /\ whole /\ Routers!ToSet(s) = RouteAddrs
    BY <1>2, <1>8
  <2>2. a = Routers!FirstLeast(s, lastUsed)
    BY <1>2, <2>1 DEF Routers!Candidates
  <2>3. lastUsed' = [lastUsed EXCEPT ![a] = routed + 1]
    BY <1>2, <2>1 DEF Routers!Choose
  <2>4. \A b \in RouteAddrs : lastUsed[a] <= lastUsed[b]
    BY <1>5, <2>1, <2>2, FirstLeastIs
  <2>5. QED
    BY <1>2, <1>3, <2>1, <2>3, <2>4, TrailKeeps DEF RouteInv
<1>9. QED
  BY <1>4, <1>6, <1>7, <1>8 DEF RouteInv

\* Every strategy that counts spreads the load, whatever the order of the lists.
LEMMA RoutesSpread == ASSUME RouteInv PROVE Routers!TypeOK /\ Routers!LoadIsSpread
<1> DEFINE N == Cardinality(RouteAddrs)
<1>1. RouteTyped /\ routed \in 0 .. MaxRoutes /\ MaxRoutes \in Nat /\ N \in Nat
  BY RouteBounds DEF RouteInv, RouteTyped, Known
<1>2. Routers!TypeOK
  <2>1. 0 .. routed \subseteq 0 .. MaxRoutes
    BY <1>1
  <2>2. /\ counter \in [Routers!Lists -> 0 .. MaxRoutes]
        /\ count \in [RouteAddrs -> 0 .. MaxRoutes] /\ lastUsed \in [RouteAddrs -> 0 .. MaxRoutes]
    BY <1>1, <2>1 DEF RouteTyped
  <2>3. chosen \in [Routers!Lists -> [RouteAddrs -> 0 .. MaxRoutes]]
    <3>1. ASSUME NEW t \in Routers!Lists PROVE chosen[t] \in [RouteAddrs -> 0 .. MaxRoutes]
      BY <1>1, <2>1 DEF RouteTyped
    <3>2. QED
      BY <1>1, <3>1 DEF RouteTyped
  <2>4. recent \in Routers!BoundedSeq(RouteAddrs, Routers!Cardinality(RouteAddrs))
    <3>1. /\ recent \in [1 .. Len(recent) -> RouteAddrs] /\ Len(recent) \in 0 .. N
      BY <1>1 DEF RouteTyped, Known
    <3>2. QED
      BY <3>1, SameCardinality DEF Routers!BoundedSeq, Routers!SeqOf
  <2>5. QED
    BY <1>1, <2>2, <2>3, <2>4 DEF RouteTyped, Routers!TypeOK
<1>3. ASSUME strategy = "ROUND_ROBIN", NEW s \in Routers!Lists
      PROVE  Routers!Level(chosen[s], Routers!ToSet(s))
  <2>1. ASSUME NEW b \in Routers!ToSet(s)
        PROVE  chosen[s][b] \in {counter[s] \div Len(s), counter[s] \div Len(s) + 1}
    <3>1. PICK i \in 1 .. Len(s) : b = s[i]
      BY <2>1, ListIs
    <3>2. counter[s] \div Len(s) \in Int
      BY <1>1, ListIs, Division DEF RouteTyped
    <3>3. chosen[s][s[i]] = counter[s] \div Len(s)
                              + (IF i <= counter[s] % Len(s) THEN 1 ELSE 0)
      BY <1>3 DEF RouteInv, Turns
    <3>4. QED
      BY <3>1, <3>2, <3>3
  <2>2. counter[s] \div Len(s) \in Int
    BY <1>1, ListIs, Division DEF RouteTyped
  <2>3. QED
    BY <2>1, <2>2 DEF Routers!Level
<1>4. ASSUME strategy = "LFU", whole
      PROVE  Routers!Level([a \in RouteAddrs |-> Routers!Cardinality(
                {c \in Routers!Lists \X (1 .. MaxRoutes) : c[2] <= chosen[c[1]][a]})], RouteAddrs)
  <2>1. \A a \in RouteAddrs : Routers!Cardinality(
           {c \in Routers!Lists \X (1 .. MaxRoutes) : c[2] <= chosen[c[1]][a]}) = count[a]
    BY <1>4, SameCardinality DEF RouteInv, Tally, Served
  <2>2. Routers!Level(count, RouteAddrs)
    BY <1>4 DEF RouteInv, Tally
  <2>3. QED
    BY <2>1, <2>2 DEF Routers!Level
<1>5. ASSUME strategy = "LRU", whole PROVE Routers!IsInjective(recent)
  <2>1. Trail /\ recent \in Seq(RouteAddrs)
    BY <1>1, <1>5 DEF RouteInv, RouteTyped
  <2>2. ASSUME NEW i \in 1 .. Len(recent), NEW j \in 1 .. Len(recent), recent[i] = recent[j]
        PROVE  i = j
    <3>1. /\ i < j => lastUsed[recent[i]] < lastUsed[recent[j]]
          /\ j < i => lastUsed[recent[j]] < lastUsed[recent[i]]
      BY <2>1 DEF Trail
    <3>2. lastUsed[recent[i]] \in Int
      BY <1>1, <2>1 DEF RouteTyped
    <3>3. QED
      BY <2>2, <3>1, <3>2
  <2>3. DOMAIN recent = 1 .. Len(recent)
    BY <2>1
  <2>4. QED
    BY <2>2, <2>3 DEF Routers!IsInjective
<1>6. QED
  BY <1>2, <1>3, <1>4, <1>5 DEF Routers!LoadIsSpread

-----------------------------------------------------------------------------
(* Script engines *)

ScriptRuns == [at : {"idle", "write", "start", "running", "answered"},
               engine : Scripts!Engine, temp : BOOLEAN, child : BOOLEAN,
               proc : {"none", "running", "exit0", "failed", "killed"},
               sent : 0 .. MaxOutput, pipe : 0 .. MaxChunk, kept : 0 .. MaxOutput,
               copier : {"none", "copying", "short", "done"},
               answer : {"none", "nil", "error", "unsupported"}]

\* What the writer has kept of the bytes that have left the pipe.
Kept(e) == IF e.engine.limit = 0 \/ e.sent - e.pipe < e.engine.limit THEN e.sent - e.pipe
           ELSE e.engine.limit

\* Before the process starts nothing is there; the copier that goes on has kept what it should,
\* one that stopped short has reached the limit, one that is done has seen every writer go;
\* only a finished copier lets the answer be nil; and the answer takes the file away.
RunHolds(e) ==
    /\ e.pipe <= e.sent
    /\ e.at \in {"idle", "write", "start"} =>
          e.copier = "none" /\ e.proc = "none" /\ ~e.child /\ e.sent = 0 /\ e.answer = "none"
    /\ e.at = "running" => e.answer = "none" /\ e.copier # "none" /\ e.proc # "none"
    /\ e.proc = "running" => e.at = "running"
    /\ e.copier = "none" => e.sent = 0 /\ ~e.child /\ e.proc = "none"
    /\ e.copier = "short" => e.engine.limit > 0 /\ e.kept = e.engine.limit
    /\ e.copier # "short" => e.kept = Kept(e)
    /\ e.copier = "done" => e.pipe = 0 /\ e.proc # "running" /\ ~e.child
    /\ e.answer = "nil" => e.proc = "exit0" /\ e.copier = "done"
    /\ e.at = "answered" => ~e.temp

ScriptInv ==
    /\ engines \in [Scripts!Types -> Scripts!Engine] /\ read \in 0 .. Len(Configured)
    /\ run \in [Runs -> ScriptRuns]
    /\ \A r \in Runs : RunHolds(run[r])

LEMMA ConfiguredEngines ==
    /\ Len(Configured) = 4
    /\ \A i \in 1 .. 4 : /\ Configured[i].type \in Scripts!Types
                         /\ [type |-> Configured[i].type, mode |-> Configured[i].mode,
                             limit |-> Configured[i].limit] \in Scripts!Engine
<1>1. \A i \in 1 .. 4 : i = 1 \/ i = 2 \/ i = 3 \/ i = 4
  OBVIOUS
<1>2. \A i \in 1 .. 4 : /\ Configured[i].limit \in Nat
                        /\ Configured[i].mode \in {"inline", "file", "jar", "bad"}
  BY <1>1 DEF Configured
<1>3. Len(Configured) = 4 /\ DOMAIN Configured = 1 .. 4
  BY DEF Configured
<1>4. QED
  BY <1>2, <1>3 DEF Scripts!Types, Scripts!Engine

LEMMA ScriptInitially == ASSUME Scripts!Init PROVE ScriptInv
<1> USE DEF Scripts!Init
<1>1. MaxOutput \in Nat /\ MaxChunk \in Nat
  BY ClusterAssumption
<1>2. Scripts!None \in Scripts!Engine /\ Scripts!None.limit = 0
  BY DEF Scripts!None, Scripts!Engine
<1>3. \A t \in Builtin : Scripts!BuiltinEngine(t) \in Scripts!Engine
  BY DEF Scripts!BuiltinEngine, Scripts!Engine, Scripts!Types
<1>4. engines \in [Scripts!Types -> Scripts!Engine]
  BY <1>2, <1>3
<1>5. Scripts!NewRun \in ScriptRuns
  BY <1>1, <1>2 DEF Scripts!NewRun, ScriptRuns
<1>6. RunHolds(Scripts!NewRun)
  BY <1>2 DEF RunHolds, Scripts!NewRun, Kept
<1>7. QED
  BY <1>4, <1>5, <1>6, ConfiguredEngines DEF ScriptInv

\* One execution moves on.
LEMMA RunMoves ==
    ASSUME ScriptInv, UNCHANGED <<engines, read>>, NEW r \in Runs, NEW new \in ScriptRuns,
           run' = [run EXCEPT ![r] = new], RunHolds(new)
    PROVE  ScriptInv'
<1>1. run' \in [Runs -> ScriptRuns] /\ \A q \in Runs : run'[q] = IF q = r THEN new ELSE run[q]
  BY DEF ScriptInv
<1>2. QED
  BY <1>1 DEF ScriptInv

LEMMA AnswerHolds ==
    ASSUME ScriptInv, NEW r \in Runs, NEW a \in {"nil", "error", "unsupported"},
           run[r].at # "answered", run[r].proc # "running",
           a = "nil" => run[r].proc = "exit0" /\ run[r].copier = "done",
           Scripts!Answer(r, a), UNCHANGED <<engines, read>>
    PROVE  ScriptInv'
<1> DEFINE e == run[r]
           new == [e EXCEPT !.at = "answered", !.answer = a, !.temp = FALSE]
<1>1. run' = [run EXCEPT ![r] = new]
  BY DEF Scripts!Answer, ScriptInv
<1>2. e \in ScriptRuns /\ RunHolds(e)
  BY DEF ScriptInv
<1> HIDE DEF e
<1>3. new \in ScriptRuns
  BY <1>2 DEF ScriptRuns
<1>4. RunHolds(new)
  BY <1>2 DEF ScriptRuns, RunHolds, Kept, e
<1>5. QED
  BY <1>1, <1>3, <1>4, RunMoves

LEMMA WriteHolds ==
    ASSUME NEW e \in ScriptRuns, RunHolds(e), e.copier = "copying", e.pipe > 0
    PROVE  Scripts!LimitedWrite(e) \in ScriptRuns /\ RunHolds(Scripts!LimitedWrite(e))
<1> DEFINE left == e.engine.limit - e.kept
<1>1. /\ e.engine.limit \in Nat /\ e.kept \in 0 .. MaxOutput /\ e.pipe \in 0 .. MaxChunk
      /\ e.sent \in 0 .. MaxOutput /\ e.pipe <= e.sent /\ e.kept = Kept(e)
      /\ MaxOutput \in Nat /\ MaxChunk \in Nat
  BY ClusterAssumption DEF ScriptRuns, Scripts!Engine, RunHolds
<1>2. 0 \in 0 .. MaxChunk
  BY <1>1
<1>3. CASE e.engine.limit = 0 \/ (left > 0 /\ e.pipe <= left)
  <2> DEFINE new == [e EXCEPT !.pipe = 0, !.kept = e.kept + e.pipe]
  <2>1. Scripts!LimitedWrite(e) = new
    BY <1>1, <1>3 DEF Scripts!LimitedWrite
  <2>2. e.kept + e.pipe \in 0 .. MaxOutput /\ e.kept + e.pipe = e.sent
    BY <1>1, <1>3 DEF Kept
  <2>3. e.engine.limit = 0 \/ e.sent <= e.engine.limit
    BY <1>1, <1>3, <2>2
  <2>4. new \in ScriptRuns
    BY <1>2, <2>2 DEF ScriptRuns
  <2>5. /\ new.pipe = 0 /\ new.kept = e.sent /\ new.sent = e.sent /\ new.engine = e.engine
        /\ new.at = e.at /\ new.temp = e.temp /\ new.child = e.child /\ new.proc = e.proc
        /\ new.copier = e.copier /\ new.answer = e.answer
    BY <2>2 DEF ScriptRuns
  <2> HIDE DEF new
  <2>6. new.kept = Kept(new)
    BY <1>1, <2>3, <2>5 DEF Kept
  <2>7. RunHolds(new)
    BY <1>1, <2>5, <2>6 DEF RunHolds
  <2>8. QED
    BY <2>1, <2>4, <2>7
<1>4. CASE e.engine.limit > 0 /\ left <= 0
  <2>1. Scripts!LimitedWrite(e) = [e EXCEPT !.pipe = 0]
    BY <1>1, <1>4 DEF Scripts!LimitedWrite
  <2>2. QED
    BY <1>1, <1>4, <2>1 DEF ScriptRuns, RunHolds, Kept
<1>5. CASE e.engine.limit > 0 /\ left > 0 /\ e.pipe > left
  <2> DEFINE new == [e EXCEPT !.pipe = 0, !.kept = e.engine.limit, !.copier = "short"]
  <2>1. Scripts!LimitedWrite(e) = new
    BY <1>1, <1>5 DEF Scripts!LimitedWrite
  <2>2. e.engine.limit \in 0 .. MaxOutput
    BY <1>1, <1>5 DEF Kept
  <2>3. new \in ScriptRuns
    BY <1>2, <2>2 DEF ScriptRuns
  <2>4. /\ new.pipe = 0 /\ new.kept = e.engine.limit /\ new.sent = e.sent
        /\ new.engine = e.engine /\ new.copier = "short"
        /\ new.at = e.at /\ new.temp = e.temp /\ new.child = e.child /\ new.proc = e.proc
        /\ new.answer = e.answer
    BY DEF ScriptRuns
  <2> HIDE DEF new
  <2>5. RunHolds(new)
    BY <1>1, <1>5, <2>4 DEF RunHolds
  <2>6. QED
    BY <2>1, <2>3, <2>5
<1>6. QED
  BY <1>1, <1>3, <1>4, <1>5

LEMMA ScriptStep == ASSUME ScriptInv, Scripts!Next PROVE ScriptInv'
<1>1. CASE Scripts!Load
  <2>1. read + 1 \in 1 .. 4 /\ read' = read + 1 /\ run' = run
    BY <1>1, ConfiguredEngines DEF Scripts!Load, ScriptInv
  <2>2. engines' \in [Scripts!Types -> Scripts!Engine]
    BY <1>1, <2>1, ConfiguredEngines DEF Scripts!Load, ScriptInv
  <2>3. QED
    BY <2>1, <2>2, ConfiguredEngines DEF ScriptInv
<1>2. ASSUME NEW r \in Runs,
             \/ \E t \in Scripts!Types : Scripts!RunScript(r, t)
             \/ Scripts!WriteTempFile(r) \/ Scripts!StartProcess(r) \/ Scripts!Output(r)
             \/ Scripts!Copy(r) \/ Scripts!Fork(r)
             \/ \E how \in {"exit0", "failed", "killed"} : Scripts!ProcessEnds(r, how)
             \/ Scripts!ChildEnds(r) \/ Scripts!EndOfOutput(r) \/ Scripts!Wait(r)
      PROVE  ScriptInv'
  <2> DEFINE e == run[r]
  <2>1. e \in ScriptRuns /\ RunHolds(e) /\ run \in [Runs -> ScriptRuns]
    BY DEF ScriptInv
  <2>2. CASE \E t \in Scripts!Types : Scripts!RunScript(r, t)
    <3>1. PICK t \in Scripts!Types : Scripts!RunScript(r, t)
      BY <2>2
    <3>2. e.at = "idle" /\ UNCHANGED <<engines, read>> /\ engines[t] \in Scripts!Engine
      BY <3>1 DEF Scripts!RunScript, ScriptInv
    <3>3. CASE Scripts!Answer(r, "unsupported") \/ Scripts!Answer(r, "error")
      BY <2>1, <3>2, <3>3, AnswerHolds DEF RunHolds
    <3>4. CASE run' = [run EXCEPT ![r].engine = engines[t],
                          ![r].at = IF engines[t].mode = "file" THEN "write" ELSE "start"]
      <4> DEFINE new == [e EXCEPT !.engine = engines[t],
                            !.at = IF engines[t].mode = "file" THEN "write" ELSE "start"]
      <4>1. run' = [run EXCEPT ![r] = new]
        BY <2>1, <3>4
      <4> HIDE DEF e
      <4>2. new \in ScriptRuns
        BY <2>1, <3>2 DEF ScriptRuns
      <4>3. RunHolds(new)
        BY <2>1, <3>2 DEF RunHolds, ScriptRuns, Kept, Scripts!Engine
      <4>4. QED
        BY <3>2, <4>1, <4>2, <4>3, RunMoves
    <3>5. QED
      BY <3>1, <3>3, <3>4 DEF Scripts!RunScript
  <2>3. CASE Scripts!WriteTempFile(r)
    <3>1. e.at = "write" /\ UNCHANGED <<engines, read>>
      BY <2>3 DEF Scripts!WriteTempFile
    <3>2. CASE Scripts!Answer(r, "error")
      BY <2>1, <3>1, <3>2, AnswerHolds DEF RunHolds
    <3>3. CASE run' = [run EXCEPT ![r].at = "start", ![r].temp = TRUE]
      <4> DEFINE new == [e EXCEPT !.at = "start", !.temp = TRUE]
      <4>1. run' = [run EXCEPT ![r] = new]
        BY <2>1, <3>3
      <4> HIDE DEF e
      <4>2. new \in ScriptRuns
        BY <2>1 DEF ScriptRuns
      <4>3. RunHolds(new)
        BY <2>1, <3>1 DEF RunHolds, ScriptRuns, Kept
      <4>4. QED
        BY <3>1, <4>1, <4>2, <4>3, RunMoves
    <3>4. QED
      BY <2>3, <3>2, <3>3 DEF Scripts!WriteTempFile
  <2>4. CASE Scripts!StartProcess(r)
    <3>1. e.at = "start" /\ UNCHANGED <<engines, read>>
      BY <2>4 DEF Scripts!StartProcess
    <3>2. CASE Scripts!Answer(r, "error")
      BY <2>1, <3>1, <3>2, AnswerHolds DEF RunHolds
    <3>3. CASE run' = [run EXCEPT ![r].at = "running", ![r].proc = "running",
                                  ![r].copier = "copying"]
      <4> DEFINE new == [e EXCEPT !.at = "running", !.proc = "running", !.copier = "copying"]
      <4>1. run' = [run EXCEPT ![r] = new]
        BY <2>1, <3>3
      <4> HIDE DEF e
      <4>2. new \in ScriptRuns
        BY <2>1 DEF ScriptRuns
      <4>3. RunHolds(new)
        BY <2>1, <3>1 DEF RunHolds, ScriptRuns, Kept
      <4>4. QED
        BY <3>1, <4>1, <4>2, <4>3, RunMoves
    <3>4. QED
      BY <2>4, <3>2, <3>3 DEF Scripts!StartProcess
  <2>5. CASE Scripts!Output(r)
    <3>1. /\ e.proc = "running" \/ e.child
          /\ e.pipe = 0 /\ UNCHANGED <<engines, read>>
      BY <2>5 DEF Scripts!Output
    <3>2. ASSUME e.copier = "copying", NEW n \in 1 .. MaxChunk, e.sent + n <= MaxOutput,
                 run' = [run EXCEPT ![r].pipe = n, ![r].sent = @ + n]
          PROVE  ScriptInv'
      <4> DEFINE new == [e EXCEPT !.pipe = n, !.sent = e.sent + n]
      <4>1. run' = [run EXCEPT ![r] = new]
        BY <2>1, <3>2
      <4>2. e.sent \in Nat /\ e.sent + n \in 0 .. MaxOutput /\ n \in 0 .. MaxChunk
        BY <2>1, <3>2 DEF ScriptRuns
      <4> HIDE DEF e
      <4>3. new \in ScriptRuns
        BY <2>1, <4>2 DEF ScriptRuns
      <4>4. RunHolds(new)
        BY <2>1, <3>1, <3>2, <4>2 DEF RunHolds, ScriptRuns, Kept
      <4>5. QED
        BY <3>1, <4>1, <4>3, <4>4, RunMoves
    <3>3. CASE e.proc = "running" /\ run' = [run EXCEPT ![r].proc = "failed"]
      <4> DEFINE new == [e EXCEPT !.proc = "failed"]
      <4>1. run' = [run EXCEPT ![r] = new]
        BY <2>1, <3>3
      <4> HIDE DEF e
      <4>2. new \in ScriptRuns
        BY <2>1 DEF ScriptRuns
      <4>3. RunHolds(new)
        BY <2>1, <3>1, <3>3 DEF RunHolds, ScriptRuns, Kept
      <4>4. QED
        BY <3>1, <4>1, <4>2, <4>3, RunMoves
    <3>4. QED
      BY <2>5, <3>2, <3>3 DEF Scripts!Output
  <2>6. CASE Scripts!Copy(r)
    <3>1. /\ e.copier = "copying" /\ e.pipe > 0 /\ UNCHANGED <<engines, read>>
          /\ run' = [run EXCEPT ![r] = Scripts!LimitedWrite(e)]
      BY <2>6 DEF Scripts!Copy
    <3> HIDE DEF e
    <3>2. QED
      BY <2>1, <3>1, WriteHolds, RunMoves
  <2>7. CASE Scripts!Fork(r) \/ Scripts!ChildEnds(r)
    <3>1. PICK there \in BOOLEAN : /\ there => e.proc = "running"
                                   /\ run' = [run EXCEPT ![r].child = there]
                                   /\ UNCHANGED <<engines, read>>
      BY <2>7 DEF Scripts!Fork, Scripts!ChildEnds
    <3> DEFINE new == [e EXCEPT !.child = there]
    <3>2. run' = [run EXCEPT ![r] = new]
      BY <2>1, <3>1
    <3> HIDE DEF e
    <3>3. new \in ScriptRuns
      BY <2>1 DEF ScriptRuns
    <3>4. RunHolds(new)
      BY <2>1, <3>1 DEF RunHolds, ScriptRuns, Kept
    <3>5. QED
      BY <3>1, <3>2, <3>3, <3>4, RunMoves
  <2>8. CASE \E how \in {"exit0", "failed", "killed"} : Scripts!ProcessEnds(r, how)
    <3>1. PICK how \in {"exit0", "failed", "killed"} : Scripts!ProcessEnds(r, how)
      BY <2>8
    <3> DEFINE new == [e EXCEPT !.proc = how]
    <3>2. /\ e.proc = "running" /\ UNCHANGED <<engines, read>>
          /\ run' = [run EXCEPT ![r] = new]
      BY <2>1, <3>1 DEF Scripts!ProcessEnds
    <3> HIDE DEF e
    <3>3. new \in ScriptRuns
      BY <2>1 DEF ScriptRuns
    <3>4. RunHolds(new)
      BY <2>1, <3>2 DEF RunHolds, ScriptRuns, Kept
    <3>5. QED
      BY <3>2, <3>3, <3>4, RunMoves
  <2>9. CASE Scripts!EndOfOutput(r)
    <3> DEFINE new == [e EXCEPT !.copier = "done"]
    <3>1. /\ e.copier = "copying" /\ e.pipe = 0 /\ e.proc # "running" /\ ~e.child
          /\ UNCHANGED <<engines, read>>
          /\ run' = [run EXCEPT ![r] = new]
      BY <2>1, <2>9 DEF Scripts!EndOfOutput
    <3> HIDE DEF e
    <3>2. new \in ScriptRuns
      BY <2>1 DEF ScriptRuns
    <3>3. RunHolds(new)
      BY <2>1, <3>1 DEF RunHolds, ScriptRuns, Kept
    <3>4. QED
      BY <3>1, <3>2, <3>3, RunMoves
  <2>10. CASE Scripts!Wait(r)
    BY <2>10, AnswerHolds DEF Scripts!Wait
  <2>11. QED
    BY <1>2, <2>2, <2>3, <2>4, <2>5, <2>6, <2>7, <2>8, <2>9, <2>10
<1>3. QED
  BY <1>1, <1>2 DEF Scripts!Next

LEMMA ScriptHolds == ASSUME ScriptInv PROVE Scripts!TypeOK /\ Scripts!ScriptResultHolds
<1>1. Scripts!TypeOK
  BY DEF ScriptInv, Scripts!TypeOK, ScriptRuns
<1>2. ASSUME NEW r \in Runs
      PROVE  /\ run[r].answer = "nil" =>
                   /\ run[r].proc = "exit0"
                   /\ run[r].kept = IF \/ run[r].engine.limit = 0
                                       \/ run[r].sent < run[r].engine.limit
                                    THEN run[r].sent ELSE run[r].engine.limit
             /\ run[r].engine.limit > 0 => run[r].kept <= run[r].engine.limit
             /\ run[r].at = "answered" => ~run[r].temp
  <2> DEFINE e == run[r]
  <2>1. e \in ScriptRuns /\ RunHolds(e)
    BY DEF ScriptInv
  <2> HIDE DEF e
  <2>2. e.engine.limit \in Nat /\ e.sent \in Int /\ e.pipe \in Nat /\ e.sent - e.pipe \in Int
    BY <2>1 DEF ScriptRuns, Scripts!Engine
  <2>3. e.copier = "done" => e.pipe = 0 /\ e.kept = Kept(e)
    BY <2>1 DEF RunHolds
  <2>4. e.engine.limit > 0 => e.kept <= e.engine.limit
    BY <2>1, <2>2 DEF RunHolds, Kept
  <2>5. QED
    BY <2>1, <2>2, <2>3, <2>4 DEF RunHolds, Kept, e
<1>3. QED
  BY <1>1, <1>2 DEF Scripts!ScriptResultHolds

-----------------------------------------------------------------------------
(* Templates *)

\* No ID beyond the counter is indexed, the index and the registry agree, what a template
\* has now is a version of its name, and a job about to be created inherits from one.
TplInv ==
    /\ Tpl!TypeOK
    /\ Tpl!TemplatesAgree
    /\ \A i \in 1 .. MaxID : i > nextID => nameToID[i] = Tpl!NoName
    /\ \A n \in Names : Tpl!Exists(n) => templates[n].content \in versions[n]
    /\ \A c \in Callers : call[c].at = "job" =>
          \E f \in versions[call[c].name] : call[c].content = Tpl!Overridden(f, call[c].over)

LEMMA TplInitially == ASSUME Tpl!Init PROVE TplInv
<1> USE ClusterAssumption DEF Tpl!Init
<1>1. Tpl!TypeOK
  BY DEF Tpl!TypeOK, Tpl!NoCall
<1>2. Tpl!TemplatesAgree
  BY DEF Tpl!TemplatesAgree, Tpl!Exists
<1>3. QED
  BY <1>1, <1>2 DEF TplInv, Tpl!Exists, Tpl!NoCall

LEMMA OverriddenIsContent ==
    ASSUME NEW f \in Tpl!Content, NEW over \in Tpl!Content
    PROVE  Tpl!Overridden(f, over) \in Tpl!Content
BY DEF Tpl!Overridden, Tpl!Coalesce, Tpl!Content

\* What a call that goes on may hold.
TplCalls == {Tpl!NoCall} \cup
    [at : {"update", "import"}, name : Names, content : Tpl!Content] \cup
    [at : {"job"}, name : Names, over : Tpl!Content, content : Tpl!Content]

\* The registry changes only by Create, Update and Delete.
TplRegistry == <<templates, nameToID, nextID, updates, versions>>

\* A call that leaves the registry and the jobs alone.
LEMMA CallKeepsTpl ==
    ASSUME TplInv, UNCHANGED <<templates, nameToID, nextID, updates, jobs, versions>>,
           NEW c \in Callers, NEW new \in TplCalls, call' = [call EXCEPT ![c] = new],
           new.at = "job" =>
              \E f \in versions[new.name] : new.content = Tpl!Overridden(f, new.over)
    PROVE  TplInv'
<1>1. call' \in [Callers -> TplCalls]
  BY DEF TplInv, Tpl!TypeOK, TplCalls
<1>2. Tpl!TypeOK'
  BY <1>1 DEF TplInv, Tpl!TypeOK, TplCalls
<1>3. Tpl!TemplatesAgree'
  BY DEF TplInv, Tpl!TemplatesAgree, Tpl!Exists
<1>4. \A d \in Callers : call'[d] = IF d = c THEN new ELSE call[d]
  BY DEF TplInv, Tpl!TypeOK
<1>5. QED
  BY <1>2, <1>3, <1>4 DEF TplInv, Tpl!Exists

\* The registry changes, and versions only grow: calls and jobs find what they inherit from.
LEMMA VersionsGrow ==
    ASSUME TplInv, versions' \in [Names -> SUBSET Tpl!Content], UNCHANGED jobs,
           \A n \in Names : versions[n] \subseteq versions'[n],
           NEW c \in Callers, call' = call \/ call' = [call EXCEPT ![c] = Tpl!NoCall]
    PROVE  /\ call' \in [Callers -> TplCalls]
           /\ \A d \in Callers : call'[d].at = "job" => \E f \in versions'[call'[d].name] :
                 call'[d].content = Tpl!Overridden(f, call'[d].over)
           /\ \A j \in jobs' : \E f \in versions'[j.from] : j.content = Tpl!Overridden(f, j.over)
<1>1. call' \in [Callers -> TplCalls]
  BY DEF TplInv, Tpl!TypeOK, TplCalls
<1>2. \A d \in Callers : call'[d].at = "job" => call'[d] = call[d] /\ call[d].name \in Names
  BY DEF TplInv, Tpl!TypeOK, Tpl!NoCall
<1>3. \A j \in jobs : j.from \in Names
  BY DEF TplInv, Tpl!TypeOK
<1>4. QED
  BY <1>1, <1>2, <1>3 DEF TplInv, Tpl!TemplatesAgree

LEMMA CreateKeepsTpl ==
    ASSUME TplInv, NEW n \in Names, NEW f \in Tpl!Content, Tpl!Create(n, f), NEW c \in Callers,
           call' = call \/ call' = [call EXCEPT ![c] = Tpl!NoCall]
    PROVE  TplInv'
<1> USE ClusterAssumption
<1>1. /\ nextID' = nextID + 1 /\ nextID' \in 1 .. MaxID /\ nextID \in 0 .. MaxID
      /\ ~Tpl!Exists(n) /\ Tpl!Valid(f) /\ UNCHANGED <<updates, jobs>>
  BY SMTT(20) DEF Tpl!Create, TplInv, Tpl!TypeOK
<1>2. /\ \A m \in Names :
            templates'[m] = IF m = n THEN [id |-> nextID', content |-> f] ELSE templates[m]
      /\ \A m \in Names : versions'[m] = IF m = n THEN versions[n] \cup {f} ELSE versions[m]
      /\ \A i \in 1 .. MaxID : nameToID'[i] = IF i = nextID' THEN n ELSE nameToID[i]
  BY <1>1 DEF Tpl!Create, TplInv, Tpl!TypeOK
<1>3. /\ templates' \in [Names -> Tpl!Template \cup {Tpl!None}]
      /\ nameToID' \in [1 .. MaxID -> Names \cup {Tpl!NoName}]
      /\ versions' \in [Names -> SUBSET Tpl!Content]
  BY <1>1 DEF Tpl!Create, TplInv, Tpl!TypeOK, Tpl!Template
<1>4. /\ call' \in [Callers -> TplCalls]
      /\ \A d \in Callers : call'[d].at = "job" => \E g \in versions'[call'[d].name] :
            call'[d].content = Tpl!Overridden(g, call'[d].over)
      /\ \A j \in jobs' : \E g \in versions'[j.from] : j.content = Tpl!Overridden(g, j.over)
  BY <1>1, <1>2, <1>3, VersionsGrow
<1>5. Tpl!TypeOK'
  BY <1>1, <1>3, <1>4 DEF TplInv, Tpl!TypeOK, TplCalls
<1>6. \A m \in Names : Tpl!Exists(m)' <=> m = n \/ Tpl!Exists(m)
  <2>1. [id |-> nextID', content |-> f] # Tpl!None
    BY <1>1 DEF Tpl!None
  <2>2. QED
    BY <1>2, <2>1 DEF Tpl!Exists
<1>7. Tpl!TemplatesAgree'
  <2>1. \A i \in 1 .. MaxID, m \in Names :
           nameToID'[i] = m <=> Tpl!Exists(m)' /\ templates'[m].id = i
    <3> TAKE i \in 1 .. MaxID, m \in Names
    <3>1. nameToID[i] = m <=> Tpl!Exists(m) /\ templates[m].id = i
      BY DEF TplInv, Tpl!TemplatesAgree
    <3>2. i = nextID' => nameToID[i] = Tpl!NoName
      BY <1>1 DEF TplInv
    <3>3. QED
      BY <1>1, <1>2, <1>6, <3>1, <3>2
  <2>2. \A m \in Names : Tpl!Exists(m)' => Tpl!Valid(templates'[m].content)
    BY <1>1, <1>2, <1>6 DEF TplInv, Tpl!TemplatesAgree
  <2>3. QED
    BY <1>4, <2>1, <2>2 DEF Tpl!TemplatesAgree
<1>8. \A i \in 1 .. MaxID : i > nextID' => nameToID'[i] = Tpl!NoName
  BY <1>1, <1>2 DEF TplInv
<1>9. \A m \in Names : Tpl!Exists(m)' => templates'[m].content \in versions'[m]
  BY <1>2, <1>6 DEF TplInv
<1>10. QED
  BY <1>4, <1>5, <1>7, <1>8, <1>9 DEF TplInv

LEMMA UpdateKeepsTpl ==
    ASSUME TplInv, NEW n \in Names, NEW f \in Tpl!Content, Tpl!Update(n, f), NEW c \in Callers,
           call' = call \/ call' = [call EXCEPT ![c] = Tpl!NoCall]
    PROVE  TplInv'
<1> USE ClusterAssumption
<1>1. /\ updates' \in 0 .. MaxUpdates /\ UNCHANGED <<nameToID, nextID, jobs>>
      /\ Tpl!Exists(n) /\ Tpl!Valid(f) /\ templates[n] \in Tpl!Template
  BY DEF Tpl!Update, TplInv, Tpl!TypeOK, Tpl!Exists
<1>2. /\ \A m \in Names :
            templates'[m] = IF m = n THEN [templates[n] EXCEPT !.content = f] ELSE templates[m]
      /\ \A m \in Names : versions'[m] = IF m = n THEN versions[n] \cup {f} ELSE versions[m]
  BY <1>1 DEF Tpl!Update, TplInv, Tpl!TypeOK
<1> DEFINE new == [templates[n] EXCEPT !.content = f]
<1>3. new \in Tpl!Template /\ new.id = templates[n].id /\ new.content = f /\ new # Tpl!None
  BY <1>1 DEF Tpl!Template, Tpl!None
<1>4. /\ templates' \in [Names -> Tpl!Template \cup {Tpl!None}]
      /\ versions' \in [Names -> SUBSET Tpl!Content]
  BY <1>1, <1>3 DEF Tpl!Update, TplInv, Tpl!TypeOK
<1>5. /\ call' \in [Callers -> TplCalls]
      /\ \A d \in Callers : call'[d].at = "job" => \E g \in versions'[call'[d].name] :
            call'[d].content = Tpl!Overridden(g, call'[d].over)
      /\ \A j \in jobs' : \E g \in versions'[j.from] : j.content = Tpl!Overridden(g, j.over)
  BY <1>1, <1>2, <1>4, VersionsGrow
<1>6. Tpl!TypeOK'
  BY <1>1, <1>4, <1>5 DEF TplInv, Tpl!TypeOK, TplCalls
<1> HIDE DEF new
<1>7. \A m \in Names : /\ Tpl!Exists(m)' <=> Tpl!Exists(m)
                       /\ templates'[m].id = templates[m].id
                       /\ m # n => templates'[m] = templates[m]
  BY <1>1, <1>2, <1>3 DEF Tpl!Exists, new
<1>8. templates'[n].content = f
  BY <1>2, <1>3 DEF new
<1>9. Tpl!TemplatesAgree'
  BY <1>1, <1>5, <1>7, <1>8 DEF TplInv, Tpl!TemplatesAgree
<1>10. \A m \in Names : Tpl!Exists(m)' => templates'[m].content \in versions'[m]
  BY <1>2, <1>7, <1>8 DEF TplInv
<1>11. QED
  BY <1>1, <1>5, <1>6, <1>9, <1>10 DEF TplInv

LEMMA DeleteKeepsTpl ==
    ASSUME TplInv, NEW n \in Names, Tpl!Delete(n), UNCHANGED call
    PROVE  TplInv'
<1> USE ClusterAssumption
<1>1. /\ UNCHANGED <<nextID, updates, jobs, versions>>
      /\ Tpl!Exists(n) /\ templates[n].id \in 1 .. MaxID
  BY DEF Tpl!Delete, TplInv, Tpl!TypeOK, Tpl!Exists, Tpl!Template
<1>2. /\ \A m \in Names : templates'[m] = IF m = n THEN Tpl!None ELSE templates[m]
      /\ \A i \in 1 .. MaxID :
            nameToID'[i] = IF i = templates[n].id THEN Tpl!NoName ELSE nameToID[i]
  BY <1>1 DEF Tpl!Delete, TplInv, Tpl!TypeOK
<1>3. Tpl!TypeOK'
  BY <1>1 DEF Tpl!Delete, TplInv, Tpl!TypeOK
<1>4. \A m \in Names : Tpl!Exists(m)' <=> m # n /\ Tpl!Exists(m)
  BY <1>2 DEF Tpl!Exists
<1>5. Tpl!TemplatesAgree'
  <2>1. \A i \in 1 .. MaxID, m \in Names :
           nameToID'[i] = m <=> Tpl!Exists(m)' /\ templates'[m].id = i
    <3> TAKE i \in 1 .. MaxID, m \in Names
    <3>1. /\ nameToID[i] = m <=> Tpl!Exists(m) /\ templates[m].id = i
          /\ nameToID[i] = n <=> templates[n].id = i
      BY <1>1 DEF TplInv, Tpl!TemplatesAgree
    <3>2. QED
      BY <1>1, <1>2, <1>4, <3>1
  <2>2. QED
    BY <1>1, <1>2, <1>4, <2>1 DEF TplInv, Tpl!TemplatesAgree
<1>6. QED
  BY <1>1, <1>2, <1>3, <1>4, <1>5 DEF TplInv

LEMMA TplStep == ASSUME TplInv, Tpl!Next PROVE TplInv'
<1> USE DEF Tpl!At
<1>1. PICK c \in Callers :
         \/ Tpl!UpdateTemplate(c) \/ Tpl!ImportCreate(c) \/ Tpl!CreateJob(c)
         \/ \E n \in Names :
              \/ Tpl!DeleteTemplate(c, n)
              \/ \E f \in Tpl!Content : \/ Tpl!CreateTemplate(c, n, f) \/ Tpl!UpdateGet(c, n, f)
                                        \/ Tpl!ImportGet(c, n, f) \/ Tpl!Instantiate(c, n, f)
  BY DEF Tpl!Next
<1>2. Tpl!NoCall \in TplCalls /\ Tpl!NoCall.at = "idle"
  BY DEF TplCalls, Tpl!NoCall
<1>3. ASSUME Tpl!Fails(c) PROVE TplInv'
  BY <1>2, <1>3, CallKeepsTpl DEF Tpl!Fails, Tpl!Return
<1>4. CASE Tpl!UpdateTemplate(c) \/ Tpl!ImportCreate(c)
  <2>1. call[c].name \in Names /\ call[c].content \in Tpl!Content
    BY <1>4 DEF Tpl!UpdateTemplate, Tpl!ImportCreate, TplInv, Tpl!TypeOK, Tpl!NoCall
  <2>2. \/ Tpl!Update(call[c].name, call[c].content) /\ Tpl!Return(c)
        \/ Tpl!Create(call[c].name, call[c].content) /\ Tpl!Return(c)
        \/ Tpl!Fails(c)
    BY <1>4 DEF Tpl!UpdateTemplate, Tpl!ImportCreate
  <2>3. QED
    BY <1>3, <2>1, <2>2, CreateKeepsTpl, UpdateKeepsTpl DEF Tpl!Return
<1>5. CASE Tpl!CreateJob(c)
  <2>1. CASE Tpl!Fails(c)
    BY <1>3, <2>1
  <2>2. CASE ~Tpl!Fails(c)
    <3> DEFINE job == [from |-> call[c].name, over |-> call[c].over, content |-> call[c].content]
    <3>1. /\ call[c].at = "job" /\ jobs' = jobs \cup {job}
          /\ call' = [call EXCEPT ![c] = Tpl!NoCall]
          /\ UNCHANGED <<templates, nameToID, nextID, updates, versions>>
      BY <1>5, <2>2 DEF Tpl!CreateJob, Tpl!Return
    <3>2. job \in [from : Names, over : Tpl!Content, content : Tpl!Content]
      BY <3>1 DEF TplInv, Tpl!TypeOK, Tpl!NoCall
    <3>3. \E f \in versions[job.from] : job.content = Tpl!Overridden(f, job.over)
      BY <3>1 DEF TplInv
    <3>4. \A d \in Callers : call'[d] = IF d = c THEN Tpl!NoCall ELSE call[d]
      BY <3>1 DEF TplInv, Tpl!TypeOK
    <3> HIDE DEF job
    <3>5. call' \in [Callers -> TplCalls]
      BY <1>2, <3>1 DEF TplInv, Tpl!TypeOK, TplCalls
    <3>6. Tpl!TypeOK'
      BY <3>1, <3>2, <3>5 DEF TplInv, Tpl!TypeOK, TplCalls
    <3>7. Tpl!TemplatesAgree'
      BY <3>1, <3>3 DEF TplInv, Tpl!TemplatesAgree, Tpl!Exists
    <3>8. QED
      BY <1>2, <3>1, <3>4, <3>6, <3>7 DEF TplInv, Tpl!Exists
  <2>3. QED
    BY <2>1, <2>2
<1>6. ASSUME NEW n \in Names, Tpl!DeleteTemplate(c, n) PROVE TplInv'
  BY <1>6, DeleteKeepsTpl DEF Tpl!DeleteTemplate
<1>7. ASSUME NEW n \in Names, NEW f \in Tpl!Content, Tpl!CreateTemplate(c, n, f) PROVE TplInv'
  BY <1>7, CreateKeepsTpl DEF Tpl!CreateTemplate
<1>8. ASSUME NEW n \in Names, Tpl!Exists(n)
      PROVE  templates[n].content \in versions[n] /\ templates[n].content \in Tpl!Content
  BY <1>8 DEF TplInv, Tpl!TypeOK, Tpl!Exists, Tpl!Template
<1>9. ASSUME NEW n \in Names, NEW f \in Tpl!Content, Tpl!UpdateGet(c, n, f) PROVE TplInv'
  <2> DEFINE new == [at |-> "update", name |-> n,
                     content |-> Tpl!Overridden(templates[n].content, f)]
  <2>1. new \in TplCalls /\ new.at = "update"
    BY <1>8, <1>9, OverriddenIsContent DEF Tpl!UpdateGet, TplCalls
  <2>2. call' = [call EXCEPT ![c] = new]
    BY <1>9 DEF Tpl!UpdateGet
  <2> HIDE DEF new
  <2>3. QED
    BY <1>9, <2>1, <2>2, CallKeepsTpl DEF Tpl!UpdateGet
<1>10. ASSUME NEW n \in Names, NEW f \in Tpl!Content, Tpl!ImportGet(c, n, f) PROVE TplInv'
  <2> DEFINE new == [at |-> IF Tpl!Exists(n) THEN "update" ELSE "import", name |-> n, content |-> f]
  <2>1. new \in TplCalls /\ new.at # "job"
    BY DEF TplCalls
  <2>2. call' = [call EXCEPT ![c] = new]
    BY <1>10 DEF Tpl!ImportGet
  <2> HIDE DEF new
  <2>3. QED
    BY <1>10, <2>1, <2>2, CallKeepsTpl DEF Tpl!ImportGet
<1>11. ASSUME NEW n \in Names, NEW f \in Tpl!Content, Tpl!Instantiate(c, n, f) PROVE TplInv'
  <2> DEFINE new == [at |-> "job", name |-> n, over |-> f,
                     content |-> Tpl!Overridden(templates[n].content, f)]
  <2>1. templates[n].content \in versions[n] /\ templates[n].content \in Tpl!Content
    BY <1>8, <1>11 DEF Tpl!Instantiate
  <2>2. new \in TplCalls
    BY <2>1, OverriddenIsContent DEF TplCalls
  <2>3. \E g \in versions[new.name] : new.content = Tpl!Overridden(g, new.over)
    BY <2>1
  <2>4. call' = [call EXCEPT ![c] = new]
    BY <1>11 DEF Tpl!Instantiate
  <2> HIDE DEF new
  <2>5. QED
    BY <1>11, <2>2, <2>3, <2>4, CallKeepsTpl DEF Tpl!Instantiate
<1>12. QED
  BY <1>1, <1>4, <1>5, <1>6, <1>7, <1>9, <1>10, <1>11

-----------------------------------------------------------------------------
(* Observers *)

ObsLoops == [Observers!AllLoops -> [Observers!Starts ->
    [at : {"none", "read", "select", "record", "drain", "done"}, watch : 0 .. MaxStarts]]]

\* Only the loops of the last Start are alive, they watch its channel and drain only once it
\* is closed; while the observer runs they all are.
LoopsFollow ==
    /\ closed \subseteq 1 .. stopCh
    /\ running => stopCh \notin closed
    /\ \A n \in Observers!AllLoops, g \in Observers!Starts : Observers!Alive(n, g) =>
          /\ g = stopCh /\ n \in Observers!LoopsOf[kind]
          /\ loop[n][g].at = "select" => loop[n][g].watch = stopCh
          /\ loop[n][g].at = "drain" => ~running
    /\ running => \A n \in Observers!LoopsOf[kind] : Observers!Alive(n, stopCh)

\* Nobody waits while the observer runs, and who waits is released when no loop is left.
StopsWait ==
    /\ ~panicked
    /\ running => \A c \in Callers : stop[c] = "idle"
    /\ \A c \in Callers : stop[c] = "released" => Observers!AliveLoops = {}
    /\ ~running /\ (\A c \in Callers : stop[c] = "idle") => Observers!AliveLoops = {}

\* An event that was there when the channel was closed has an event loop that will take it.
EventsHaveALoop ==
    ~running /\ (\A g \in Observers!Starts : ~Observers!Alive("event", g)) =>
        \A ch \in Observers!Channels : early[ch] = 0

\* Unless a Start has come while a Stop waited, all three hold.
ObsInv ==
    /\ Observers!TypeOK
    /\ running => stopCh # 0
    /\ ~overtaken => LoopsFollow /\ StopsWait /\ EventsHaveALoop

LEMMA LoopsByKind ==
    ASSUME kind \in Observers!Kinds
    PROVE  /\ "event" \in Observers!LoopsOf[kind]
           /\ Observers!LoopsOf[kind] \subseteq Observers!AllLoops
           /\ Observers!ChannelsOf[kind] \subseteq Observers!Channels
BY DEF Observers!Kinds, Observers!LoopsOf, Observers!AllLoops, Observers!ChannelsOf, Observers!Channels

LEMMA WhoIsAlive ==
    /\ \A n \in Observers!AllLoops, g \in Observers!Starts :
          <<n, g>> \in Observers!AliveLoops <=> Observers!Alive(n, g)
    /\ \A x \in Observers!AliveLoops :
          /\ x[1] \in Observers!AllLoops /\ x[2] \in Observers!Starts
          /\ x = <<x[1], x[2]>> /\ Observers!Alive(x[1], x[2])
<1>1. ASSUME NEW n \in Observers!AllLoops, NEW g \in Observers!Starts
      PROVE  <<n, g>> \in Observers!AliveLoops <=> Observers!Alive(n, g)
  BY DEF Observers!AliveLoops
<1>2. ASSUME NEW x \in Observers!AliveLoops
      PROVE  /\ x[1] \in Observers!AllLoops /\ x[2] \in Observers!Starts
             /\ x = <<x[1], x[2]>> /\ Observers!Alive(x[1], x[2])
  <2>1. x \in Observers!AllLoops \X Observers!Starts /\ Observers!Alive(x[1], x[2])
    BY <1>2 DEF Observers!AliveLoops
  <2>2. QED
    BY <2>1
<1>3. QED
  BY <1>1, <1>2

LEMMA NoneAlive ==
    Observers!AliveLoops = {} <=>
        \A n \in Observers!AllLoops, g \in Observers!Starts : ~Observers!Alive(n, g)
BY WhoIsAlive

LEMMA NoneAliveNext ==
    (Observers!AliveLoops = {} <=>
        \A n \in Observers!AllLoops, g \in Observers!Starts : ~Observers!Alive(n, g))'
BY NoneAlive, PTL

LEMMA LastAlive ==
    ASSUME NEW n, NEW g, Observers!AliveLoops = {<<n, g>>}
    PROVE  \A m \in Observers!AllLoops, h \in Observers!Starts :
              Observers!Alive(m, h) => m = n /\ h = g
<1>1. ASSUME NEW m \in Observers!AllLoops, NEW h \in Observers!Starts, Observers!Alive(m, h)
      PROVE  <<m, h>> = <<n, g>>
  BY <1>1 DEF Observers!AliveLoops
<1>2. QED
  BY <1>1

LEMMA ObsBounds == MaxStarts \in Nat /\ QueueCap \in Nat /\ MaxEvents \in Nat
BY ClusterAssumption

LEMMA ObsInitially == ASSUME Observers!Init PROVE ObsInv
<1> USE ObsBounds DEF Observers!Init
<1>1. Observers!TypeOK
  <2>1. Observers!NoLoop \in
          [at : {"none", "read", "select", "record", "drain", "done"}, watch : 0 .. MaxStarts]
    BY DEF Observers!NoLoop
  <2>2. loop \in ObsLoops
    BY <2>1 DEF ObsLoops
  <2>3. queue \in [Observers!Channels -> 0 .. QueueCap] /\ early \in [Observers!Channels -> 0 .. QueueCap]
    OBVIOUS
  <2>4. stopCh \in 0 .. MaxStarts /\ taken \in 0 .. MaxEvents /\ closed \subseteq Observers!Starts
    OBVIOUS
  <2>5. \A ch \in Observers!Channels : early[ch] <= queue[ch]
    OBVIOUS
  <2>6. stop \in [Callers -> {"idle", "waiting", "released"}]
    OBVIOUS
  <2>7. QED
    BY <2>2, <2>3, <2>4, <2>5, <2>6 DEF Observers!TypeOK, ObsLoops
<1>2. \A n \in Observers!AllLoops, g \in Observers!Starts : ~Observers!Alive(n, g)
  BY DEF Observers!Alive, Observers!NoLoop
<1>3. QED
  BY <1>1, <1>2, NoneAlive DEF ObsInv, LoopsFollow, StopsWait, EventsHaveALoop

\* What Goto moves.
LEMMA GotoMoves ==
    ASSUME ObsInv, NEW n \in Observers!AllLoops, NEW g \in Observers!Starts,
           NEW at \in {"read", "record", "drain", "done"}, Observers!Goto(n, g, at)
    PROVE  /\ loop' \in ObsLoops
           /\ loop'[n][g].at = at
           /\ \A m \in Observers!AllLoops, h \in Observers!Starts :
                 (m = n /\ h = g) \/ loop'[m][h] = loop[m][h]
<1>1. loop \in ObsLoops
  BY DEF ObsInv, Observers!TypeOK, ObsLoops
<1>2. loop[n][g] \in [at : {"none", "read", "select", "record", "drain", "done"},
                     watch : 0 .. MaxStarts]
  BY <1>1 DEF ObsLoops
<1> DEFINE new == [loop[n][g] EXCEPT !.at = at]
<1>3. /\ new \in [at : {"none", "read", "select", "record", "drain", "done"},
                  watch : 0 .. MaxStarts]
      /\ new.at = at
  BY <1>2
<1>4. loop' = [loop EXCEPT ![n] = [loop[n] EXCEPT ![g] = new]]
  BY DEF Observers!Goto
<1> HIDE DEF new
<1>5. [loop[n] EXCEPT ![g] = new] \in [Observers!Starts ->
        [at : {"none", "read", "select", "record", "drain", "done"}, watch : 0 .. MaxStarts]]
  BY <1>1, <1>3 DEF ObsLoops
<1>6. QED
  BY <1>1, <1>3, <1>4, <1>5 DEF ObsLoops

\* One loop goes on to another step and stays alive.
LEMMA LoopGoesOn ==
    ASSUME ObsInv, NEW n \in Observers!AllLoops, NEW g \in Observers!Starts,
           Observers!Alive(n, g),
           NEW at \in {"read", "select", "record", "drain"},
           loop' \in ObsLoops, loop'[n][g].at = at,
           \A m \in Observers!AllLoops, h \in Observers!Starts :
              (m = n /\ h = g) \/ loop'[m][h] = loop[m][h],
           UNCHANGED <<kind, running, stopCh, closed, taken, stop, overtaken, panicked>>,
           queue' \in [Observers!Channels -> 0 .. QueueCap],
           early' \in [Observers!Channels -> 0 .. QueueCap],
           \A ch \in Observers!Channels :
              early'[ch] <= queue'[ch] /\ (early[ch] = 0 => early'[ch] = 0),
           ~overtaken /\ at = "select" => loop'[n][g].watch = stopCh,
           ~overtaken /\ at = "drain" => ~running
    PROVE  ObsInv'
<1>1. Observers!TypeOK'
  BY DEF ObsInv, Observers!TypeOK, ObsLoops
<1>2. \A m \in Observers!AllLoops, h \in Observers!Starts :
         Observers!Alive(m, h)' <=> Observers!Alive(m, h)
  BY DEF Observers!Alive
<1>3. Observers!AliveLoops = {} <=> Observers!AliveLoops' = {}
  <2>1. Observers!AliveLoops' = {} <=>
           \A m \in Observers!AllLoops, h \in Observers!Starts : ~Observers!Alive(m, h)'
    BY NoneAliveNext
  <2>2. QED
    BY <1>2, <2>1, NoneAlive
<1>4. Observers!LoopsOf[kind] \subseteq Observers!AllLoops /\ "event" \in Observers!AllLoops
  BY LoopsByKind DEF ObsInv, Observers!TypeOK, Observers!AllLoops
<1>5. running => stopCh \in Observers!Starts
  BY ObsBounds DEF ObsInv, Observers!TypeOK, Observers!Starts
<1>6. ~overtaken => LoopsFollow'
  BY <1>2, <1>4, <1>5 DEF ObsInv, LoopsFollow
<1>7. ~overtaken => StopsWait'
  BY <1>3 DEF ObsInv, StopsWait
<1>8. ~overtaken => EventsHaveALoop'
  BY <1>2, <1>4 DEF ObsInv, EventsHaveALoop
<1>9. QED
  BY <1>1, <1>6, <1>7, <1>8 DEF ObsInv

\* The loop n of Start g returns, and if it is the event loop, no event is left.
LEMMA LoopReturns ==
    ASSUME ObsInv, NEW n \in Observers!AllLoops, NEW g \in Observers!Starts,
           Observers!Alive(n, g), Observers!Return(n, g), ~overtaken => ~running,
           n = "event" => \A ch \in Observers!Channels : queue[ch] = 0
    PROVE  ObsInv'
<1> USE DEF Observers!Return
<1>1. /\ loop' \in ObsLoops /\ loop'[n][g].at = "done"
      /\ \A m \in Observers!AllLoops, h \in Observers!Starts :
            (m = n /\ h = g) \/ loop'[m][h] = loop[m][h]
  BY GotoMoves
<1>2. stop' \in [Callers -> {"idle", "waiting", "released"}]
  BY DEF ObsInv, Observers!TypeOK
<1>3. Observers!TypeOK'
  BY <1>1, <1>2 DEF ObsInv, Observers!TypeOK, ObsLoops
<1>4. \A m \in Observers!AllLoops, h \in Observers!Starts :
         Observers!Alive(m, h)' <=> Observers!Alive(m, h) /\ ~(m = n /\ h = g)
  BY <1>1 DEF Observers!Alive
<1>5. Observers!AliveLoops = {<<n, g>>} => Observers!AliveLoops' = {}
  <2>1. Observers!AliveLoops' = {} <=>
           \A m \in Observers!AllLoops, h \in Observers!Starts : ~Observers!Alive(m, h)'
    BY NoneAliveNext
  <2>2. QED
    BY <1>4, <2>1, LastAlive
<1>6. Observers!AliveLoops # {<<n, g>>} => Observers!AliveLoops' # {}
  <2> SUFFICES ASSUME Observers!AliveLoops # {<<n, g>>} PROVE Observers!AliveLoops' # {}
    OBVIOUS
  <2>1. <<n, g>> \in Observers!AliveLoops
    BY WhoIsAlive
  <2>2. PICK x \in Observers!AliveLoops : x # <<n, g>>
    BY <2>1
  <2>3. x[1] \in Observers!AllLoops /\ x[2] \in Observers!Starts /\ x = <<x[1], x[2]>>
    BY <2>2, WhoIsAlive
  <2>4. Observers!Alive(x[1], x[2])'
    BY <1>4, <2>2, <2>3, WhoIsAlive
  <2>5. Observers!AliveLoops' = {} <=>
           \A m \in Observers!AllLoops, h \in Observers!Starts : ~Observers!Alive(m, h)'
    BY NoneAliveNext
  <2>6. QED
    BY <2>3, <2>4, <2>5
<1>7. Observers!AliveLoops # {}
  BY NoneAlive
<1>8. ~overtaken => \A c \in Callers : stop[c] # "released"
  BY <1>7 DEF ObsInv, StopsWait
<1>9. ~overtaken => StopsWait'
  <2>1. CASE Observers!AliveLoops = {<<n, g>>}
    BY <1>5, <2>1 DEF ObsInv, StopsWait
  <2>2. CASE Observers!AliveLoops # {<<n, g>>}
    BY <1>7, <1>8, <2>2 DEF ObsInv, StopsWait
  <2>3. QED
    BY <2>1, <2>2
<1>10. ~overtaken => EventsHaveALoop'
  <2>1. CASE n = "event"
    BY <2>1, ObsBounds DEF ObsInv, Observers!TypeOK, EventsHaveALoop
  <2>2. CASE n # "event"
    BY <1>4, <2>2 DEF ObsInv, Observers!AllLoops, EventsHaveALoop
  <2>3. QED
    BY <2>1, <2>2
<1>11. ~overtaken =>
         \A m \in Observers!AllLoops, h \in Observers!Starts : Observers!Alive(m, h)' =>
            Observers!Alive(m, h) /\ loop'[m][h] = loop[m][h]
  BY <1>1, <1>4
<1>12. ~overtaken => LoopsFollow'
  BY <1>11 DEF ObsInv, LoopsFollow
<1>13. QED
  BY <1>3, <1>9, <1>10, <1>12 DEF ObsInv

LEMMA ObsStep == ASSUME ObsInv, Observers!Next PROVE ObsInv'
<1> USE ObsBounds
<1>1. /\ kind \in Observers!Kinds /\ Observers!LoopsOf[kind] \subseteq Observers!AllLoops
      /\ "event" \in Observers!LoopsOf[kind]
      /\ stopCh \in 0 .. MaxStarts /\ closed \subseteq Observers!Starts
  BY LoopsByKind DEF ObsInv, Observers!TypeOK
<1>2. ASSUME Observers!Start PROVE ObsInv'
  <2> USE <1>2 DEF Observers!Start
  <2>1. stopCh' = stopCh + 1 /\ stopCh' \in Observers!Starts /\ stopCh' # 0 /\ ~running /\ running'
    BY <1>1 DEF Observers!Starts
  <2>2. \A n \in Observers!AllLoops, g \in Observers!Starts :
           loop'[n][g] = IF g = stopCh' /\ n \in Observers!LoopsOf[kind]
                         THEN [at |-> "read", watch |-> 0] ELSE loop[n][g]
    BY <2>1 DEF ObsInv, Observers!TypeOK
  <2>3. loop' \in ObsLoops
    BY <2>1 DEF ObsInv, Observers!TypeOK, ObsLoops
  <2>4. Observers!TypeOK'
    BY <1>1, <2>1, <2>3 DEF ObsInv, Observers!TypeOK, Observers!Starts, ObsLoops
  <2>5. SUFFICES ASSUME ~overtaken' PROVE (LoopsFollow /\ StopsWait /\ EventsHaveALoop)'
    BY <2>1, <2>4 DEF ObsInv
  <2>6. /\ LoopsFollow /\ StopsWait /\ EventsHaveALoop
        /\ \A c \in Callers : stop[c] = "idle"
    BY <2>5 DEF ObsInv
  <2>7. \A n \in Observers!AllLoops, g \in Observers!Starts : ~Observers!Alive(n, g)
    BY <2>1, <2>6, NoneAlive DEF StopsWait
  <2>8. \A n \in Observers!AllLoops, g \in Observers!Starts :
           Observers!Alive(n, g)' <=> g = stopCh' /\ n \in Observers!LoopsOf[kind]
    BY <2>2, <2>7 DEF Observers!Alive
  <2>9. closed' \subseteq 1 .. stopCh' /\ stopCh' \notin closed'
    BY <1>1, <2>1, <2>6 DEF LoopsFollow
  <2>10. LoopsFollow'
    BY <1>1, <2>1, <2>2, <2>8, <2>9 DEF LoopsFollow
  <2>11. StopsWait' /\ EventsHaveALoop'
    BY <2>1, <2>6 DEF StopsWait, EventsHaveALoop
  <2>12. QED
    BY <2>10, <2>11
<1>3. ASSUME NEW c \in Callers, Observers!Stop(c) PROVE ObsInv'
  <2> USE <1>3 DEF Observers!Stop
  <2>1. stopCh \in Observers!Starts
    BY <1>1 DEF ObsInv, Observers!Starts
  <2>2. closed' \subseteq Observers!Starts
    BY <1>1, <2>1
  <2>3. stop' \in [Callers -> {"idle", "waiting", "released"}]
    BY DEF ObsInv, Observers!TypeOK
  <2>4. early' = queue /\ queue' = queue /\ \A ch \in Observers!Channels : early'[ch] <= queue'[ch]
    BY DEF ObsInv, Observers!TypeOK
  <2>5. Observers!TypeOK'
    BY <1>1, <2>2, <2>3, <2>4 DEF ObsInv, Observers!TypeOK
  <2>6. SUFFICES ASSUME ~overtaken PROVE (LoopsFollow /\ StopsWait /\ EventsHaveALoop)'
    BY <2>1, <2>5 DEF ObsInv
  <2>7. LoopsFollow /\ StopsWait /\ EventsHaveALoop
    BY <2>6 DEF ObsInv
  <2>8. \A n, g : Observers!Alive(n, g)' <=> Observers!Alive(n, g)
    BY DEF Observers!Alive
  <2>9. Observers!Alive("event", stopCh)
    BY <1>1, <2>7 DEF LoopsFollow
  <2>10. Observers!AliveLoops # {}
    BY <1>1, <2>1, <2>9, NoneAlive
  <2>11. \A d \in Callers : stop'[d] = IF d = c THEN "waiting" ELSE "idle"
    BY <2>7, <2>10 DEF ObsInv, Observers!TypeOK, StopsWait
  <2>12. closed' \subseteq 1 .. stopCh'
    BY <1>1, <2>1, <2>7 DEF LoopsFollow, Observers!Starts
  <2>13. LoopsFollow'
    BY <2>7, <2>8, <2>12 DEF LoopsFollow
  <2>14. StopsWait'
    BY <2>7, <2>11 DEF StopsWait
  <2>15. EventsHaveALoop'
    BY <2>1, <2>8, <2>9 DEF EventsHaveALoop
  <2>16. QED
    BY <2>13, <2>14, <2>15
<1>4. ASSUME UNCHANGED <<kind, running, stopCh, closed, loop, overtaken>>, Observers!TypeOK',
             \A ch \in Observers!Channels : early'[ch] = early[ch],
             ~overtaken => StopsWait'
      PROVE  ObsInv'
  <2>1. \A n, g : Observers!Alive(n, g)' <=> Observers!Alive(n, g)
    BY <1>4 DEF Observers!Alive
  <2>2. (LoopsFollow => LoopsFollow') /\ (EventsHaveALoop => EventsHaveALoop')
    BY <1>4, <2>1 DEF LoopsFollow, EventsHaveALoop
  <2>3. QED
    BY <1>4, <2>2 DEF ObsInv
<1>5. ASSUME NEW c \in Callers, Observers!StopReturns(c) PROVE ObsInv'
  <2> USE <1>5 DEF Observers!StopReturns
  <2>1. Observers!TypeOK'
    BY DEF ObsInv, Observers!TypeOK
  <2>2. Observers!AliveLoops' = Observers!AliveLoops
    BY DEF Observers!AliveLoops, Observers!Alive
  <2>3. \A d \in Callers : stop'[d] = IF d = c THEN "idle" ELSE stop[d]
    BY DEF ObsInv, Observers!TypeOK
  <2>4. StopsWait => StopsWait'
    BY <2>2, <2>3 DEF StopsWait
  <2>5. QED
    BY <1>4, <2>1, <2>4 DEF ObsInv
<1>6. ASSUME NEW ch \in Observers!Channels, Observers!Notify(ch) PROVE ObsInv'
  <2> USE <1>6 DEF Observers!Notify
  <2>1. Observers!TypeOK'
    BY DEF ObsInv, Observers!TypeOK
  <2>2. Observers!AliveLoops' = Observers!AliveLoops
    BY DEF Observers!AliveLoops, Observers!Alive
  <2>3. StopsWait => StopsWait'
    BY <2>2 DEF StopsWait
  <2>4. QED
    BY <1>4, <2>1, <2>3 DEF ObsInv
<1>7. /\ \A ch \in Observers!Channels : early[ch] <= queue[ch]
      /\ queue \in [Observers!Channels -> 0 .. QueueCap]
      /\ early \in [Observers!Channels -> 0 .. QueueCap]
  BY DEF ObsInv, Observers!TypeOK
<1>8. ASSUME NEW n \in Observers!AllLoops, NEW g \in Observers!Starts,
             Observers!Read(n, g) \/ Observers!Record(n, g)
      PROVE  ObsInv'
  <2>1. Observers!Alive(n, g)
    BY <1>8 DEF Observers!Read, Observers!Record, Observers!Alive
  <2>2. CASE Observers!Read(n, g)
    <3>1. /\ loop' \in ObsLoops /\ loop'[n][g] = [at |-> "select", watch |-> stopCh]
          /\ \A m \in Observers!AllLoops, h \in Observers!Starts :
                (m = n /\ h = g) \/ loop'[m][h] = loop[m][h]
      BY <1>1, <2>2 DEF Observers!Read, ObsInv, Observers!TypeOK, ObsLoops
    <3>2. loop'[n][g].at = "select" /\ loop'[n][g].watch = stopCh
      BY <3>1
    <3>3. QED
      BY <1>7, <2>1, <2>2, <3>1, <3>2, LoopGoesOn DEF Observers!Read
  <2>3. CASE Observers!Record(n, g)
    BY <1>7, <2>1, <2>3, LoopGoesOn, GotoMoves DEF Observers!Record
  <2>4. QED
    BY <1>8, <2>2, <2>3
<1>9. ASSUME NEW g \in Observers!Starts, NEW ch \in Observers!Channels,
             NEW at \in {"record", "drain"}, Observers!Receive(g, ch, at),
             loop["event"][g].at \in {"select", "drain"},
             ~overtaken /\ at = "drain" => ~running
      PROVE  ObsInv'
  <2>1. Observers!Alive("event", g) /\ "event" \in Observers!AllLoops
    BY <1>9 DEF Observers!Alive, Observers!AllLoops
  <2>2. /\ queue' \in [Observers!Channels -> 0 .. QueueCap]
        /\ early' \in [Observers!Channels -> 0 .. QueueCap]
    BY <1>9 DEF Observers!Receive, ObsInv, Observers!TypeOK
  <2>3. \A x \in Observers!Channels :
           early'[x] <= queue'[x] /\ (early[x] = 0 => early'[x] = 0)
    BY <1>9 DEF Observers!Receive, ObsInv, Observers!TypeOK
  <2>4. QED
    BY <1>9, <2>1, <2>2, <2>3, LoopGoesOn, GotoMoves DEF Observers!Receive
<1>10. ASSUME NEW g \in Observers!Starts, Observers!CollectLoop(g) PROVE ObsInv'
  <2>1. /\ loop["collect"][g].at = "select" /\ Observers!Alive("collect", g)
        /\ "collect" \in Observers!AllLoops
    BY <1>10 DEF Observers!CollectLoop, Observers!Alive, Observers!AllLoops
  <2>2. CASE loop["collect"][g].watch \in closed /\ Observers!Return("collect", g)
    <3>1. ~overtaken => ~running
      BY <2>1, <2>2 DEF ObsInv, LoopsFollow
    <3>2. QED
      BY <2>1, <2>2, <3>1, LoopReturns
  <2>3. CASE /\ Observers!Goto("collect", g, "record")
             /\ UNCHANGED <<kind, running, stopCh, closed, queue, early, taken, stop, overtaken,
                            panicked>>
    BY <1>7, <2>1, <2>3, LoopGoesOn, GotoMoves
  <2>4. QED
    BY <1>10, <2>2, <2>3 DEF Observers!CollectLoop
<1>11. ASSUME NEW g \in Observers!Starts, Observers!EventLoop(g) PROVE ObsInv'
  <2>1. /\ loop["event"][g].at = "select" /\ Observers!Alive("event", g)
        /\ "event" \in Observers!AllLoops
    BY <1>11 DEF Observers!EventLoop, Observers!Alive, Observers!AllLoops
  <2>2. CASE /\ loop["event"][g].watch \in closed /\ Observers!Goto("event", g, "drain")
             /\ UNCHANGED <<kind, running, stopCh, closed, queue, early, taken, stop, overtaken,
                            panicked>>
    <3>1. ~overtaken => ~running
      BY <2>1, <2>2 DEF ObsInv, LoopsFollow
    <3>2. QED
      BY <1>7, <2>1, <2>2, <3>1, LoopGoesOn, GotoMoves
  <2>3. CASE \E ch \in Observers!Channels : Observers!Receive(g, ch, "record")
    BY <1>9, <2>1, <2>3
  <2>4. QED
    BY <1>11, <2>2, <2>3 DEF Observers!EventLoop
<1>12. ASSUME NEW g \in Observers!Starts, Observers!DrainAll(g) PROVE ObsInv'
  <2>1. /\ loop["event"][g].at = "drain" /\ Observers!Alive("event", g)
        /\ "event" \in Observers!AllLoops
    BY <1>12 DEF Observers!DrainAll, Observers!Alive, Observers!AllLoops
  <2>2. ~overtaken => ~running
    BY <2>1 DEF ObsInv, LoopsFollow
  <2>3. CASE \E ch \in Observers!Channels : Observers!Receive(g, ch, "drain")
    BY <1>9, <2>1, <2>2, <2>3
  <2>4. CASE (\A ch \in Observers!Channels : queue[ch] = 0) /\ Observers!Return("event", g)
    BY <2>1, <2>2, <2>4, LoopReturns
  <2>5. QED
    BY <1>12, <2>3, <2>4 DEF Observers!DrainAll
<1>13. QED
  BY <1>2, <1>3, <1>5, <1>6, <1>8, <1>10, <1>11, <1>12 DEF Observers!Next

LEMMA ObsDrains == ASSUME ObsInv PROVE Observers!StopDrains
<1> SUFFICES ASSUME ~overtaken PROVE Observers!StopDrains
  BY DEF Observers!StopDrains
<1>1. Observers!LoopsOf[kind] \subseteq Observers!AllLoops /\ "event" \in Observers!AllLoops
  BY LoopsByKind DEF ObsInv, Observers!TypeOK, Observers!AllLoops
<1>2. ~running /\ (\A c \in Callers : stop[c] = "idle") =>
         Observers!AliveLoops = {} /\ \A ch \in Observers!Channels : early[ch] = 0
  BY <1>1, NoneAlive DEF ObsInv, StopsWait, EventsHaveALoop
<1>3. ASSUME running PROVE Observers!AliveLoops = Observers!LoopsOf[kind] \X {stopCh}
  <2>1. stopCh \in Observers!Starts
    BY <1>3, ObsBounds DEF ObsInv, Observers!TypeOK, Observers!Starts
  <2>2. \A n \in Observers!AllLoops, g \in Observers!Starts :
           Observers!Alive(n, g) <=> n \in Observers!LoopsOf[kind] /\ g = stopCh
    BY <1>3 DEF ObsInv, LoopsFollow
  <2>3. QED
    BY <1>1, <2>1, <2>2 DEF Observers!AliveLoops
<1>4. QED
  BY <1>2, <1>3 DEF ObsInv, StopsWait, Observers!StopDrains

-----------------------------------------------------------------------------
(* The cluster: one part moves, the others are off *)

\* The invariant of the part that is on; where the job service is off there is no job.
PartInv ==
    /\ part = "registry" => ExeInv
    /\ part = "limits" => LimitInv
    /\ IF part = "control" THEN ControlInv ELSE db = NoJob /\ loaded = TRUE
    /\ part = "routers" => RouteInv
    /\ part = "scripts" => ScriptInv
    /\ part = "templates" => TplInv
    /\ part = "observers" => ObsInv
    /\ part \in {"registry", "limits", "control", "routers", "scripts", "templates", "observers"}

clusterVars ==
    <<part, vars, registryVars, limitVars, routeVars, scriptVars, templateVars, observerVars>>

LEMMA ClusterInitially == ASSUME ClusterInit PROVE PartInv
BY ExeInitially, LimitInitially, ControlInitially, RouteInitially, ScriptInitially,
   TplInitially, ObsInitially
DEF ClusterInit, PartInv, ControlAtRest

LEMMA ClusterStep == ASSUME PartInv, ClusterNext PROVE PartInv'
BY ExeStep, LimitStep, ControlStep, RouteStep, ScriptStep, TplStep, ObsStep
DEF ClusterNext, PartInv, vars

LEMMA ExeStutters == ASSUME ExeInv, UNCHANGED registryVars PROVE ExeInv'
<1>1. UNCHANGED <<row, listing, probe, req, proc, starts, boot, listed, boots, dead, missed, raced>>
  BY DEF registryVars
<1>2. Executors!TypeOK'
  BY <1>1 DEF ExeInv, Executors!TypeOK
<1>3. QED
  BY <1>1, <1>2, HealthKeeps

LEMMA LimitStutters == ASSUME LimitInv, UNCHANGED limitVars PROVE LimitInv'
<1>1. UNCHANGED <<now, limiters, registry, check>>
  BY DEF limitVars
<1>2. Limits!TypeOK'
  BY <1>1 DEF LimitInv, Limits!TypeOK
<1>3. \A i \in 1 .. Len(limiters) : BucketHolds(limiters[i]) /\ QuotaHolds(limiters[i])
  BY DEF LimitInv
<1>4. QED
  BY <1>1, <1>2, <1>3
  DEF LimitInv, BucketHolds, QuotaHolds, Limits!HasQuota, Limits!WindowOf

LEMMA RouteStutters == ASSUME RouteInv, UNCHANGED routeVars PROVE RouteInv'
BY DEF routeVars, RouteInv, RouteTyped, Turns, Tally, Trail, Served, Routers!Level

LEMMA ScriptStutters == ASSUME ScriptInv, UNCHANGED scriptVars PROVE ScriptInv'
BY DEF scriptVars, ScriptInv, RunHolds, Kept

LEMMA TplStutters == ASSUME TplInv, UNCHANGED templateVars PROVE TplInv'
BY DEF templateVars, TplInv, Tpl!TypeOK, Tpl!TemplatesAgree, Tpl!Exists

LEMMA ObsStutters == ASSUME ObsInv, UNCHANGED observerVars PROVE ObsInv'
<1>1. UNCHANGED <<kind, running, stopCh, closed, loop, queue, early, taken, stop, overtaken,
                  panicked>>
  BY DEF observerVars
<1>2. Observers!TypeOK'
  BY <1>1 DEF ObsInv, Observers!TypeOK
<1>3. ~overtaken' => LoopsFollow' /\ StopsWait' /\ EventsHaveALoop'
  BY <1>1 DEF ObsInv, LoopsFollow, StopsWait, EventsHaveALoop, Observers!Alive,
              Observers!AliveLoops
<1>4. QED
  BY <1>1, <1>2, <1>3 DEF ObsInv

LEMMA ClusterStutters == ASSUME PartInv, UNCHANGED clusterVars PROVE PartInv'
<1>1. /\ part' = part /\ UNCHANGED vars /\ UNCHANGED registryVars /\ UNCHANGED limitVars
      /\ UNCHANGED routeVars /\ UNCHANGED scriptVars /\ UNCHANGED templateVars
      /\ UNCHANGED observerVars
  BY DEF clusterVars
<1>2. QED
  BY <1>1, ExeStutters, LimitStutters, ControlStep, RouteStutters, ScriptStutters, TplStutters,
     ObsStutters DEF PartInv, vars

LEMMA ClusterAlways == ClusterSpec => []PartInv
<1>1. ClusterInit => PartInv
  BY ClusterInitially
<1>2. PartInv /\ [ClusterNext]_clusterVars => PartInv'
  BY ClusterStep, ClusterStutters
<1>3. QED
  BY <1>1, <1>2, PTL DEF ClusterSpec, clusterVars

\* Every part keeps its types, whatever happens in it and in whichever order.
THEOREM TypeCorrect == ClusterSpec => []ClusterTypeOK
<1>1. PartInv => ClusterTypeOK
  BY RoutesAreSound, ControlHolds, RoutesSpread, ScriptHolds
  DEF PartInv, ClusterTypeOK, LimitInv, TplInv, ObsInv
<1>2. QED
  BY <1>1, ClusterAlways, PTL

\* An executor whose calls all took effect and that has left is in no route, for any number of
\* executors, requests and losses of the admin's memory, and any TTL (ExecutorRegistry).
THEOREM LeaversStayOut == ClusterSpec => []LeaveIsFinal
<1>1. PartInv => LeaveIsFinal
  BY RoutesAreSound DEF PartInv, LeaveIsFinal
<1>2. QED
  BY <1>1, ClusterAlways, PTL

\* Whoever beats is routed to and whoever has been dead for TTL is not, whatever late probes,
\* the two sweeps and Bootstrap do (ExecutorRegistry).
THEOREM RoutesFollow == ClusterSpec => []RoutesAreLive
<1>1. PartInv => RoutesAreLive
  BY RoutesAreSound DEF PartInv, RoutesAreLive
<1>2. QED
  BY <1>1, ClusterAlways, PTL

\* No bucket pays out tokens it has not earned and no window more than its limit, for any
\* number of workers, limiters and replacements (RateLimit).
THEOREM LimitsAreKept == ClusterSpec => []LimitsHold
<1>1. PartInv => LimitsHold
  BY LimitIsKept DEF PartInv, LimitsHold
<1>2. QED
  BY <1>1, ClusterAlways, PTL

\* Until the scheduler has loaded the job, calls that do not overlap are obeyed; and whichever
\* of the service and the flush wrote last, a row with an expression has a next time (JobControl).
THEOREM CallsAreObeyed == ClusterSpec => []LastCallHolds
<1>1. PartInv => LastCallHolds
  BY ControlHolds DEF PartInv, LastCallHolds, CronRowHasNext
<1>2. QED
  BY <1>1, ClusterAlways, PTL

\* Round robin, LFU and LRU spread the load for any finite set of addresses, whatever the lists
\* and their orders (Routes).
THEOREM LoadsAreSpread == ClusterSpec => []LoadIsSpread
<1>1. PartInv => LoadIsSpread
  BY RoutesSpread DEF PartInv, LoadIsSpread
<1>2. QED
  BY <1>1, ClusterAlways, PTL

\* A nil answer of a script means exit code 0 and its output up to the limit, and no temporary
\* file stays, for every limit, amount of output and interleaving of scripts (ScriptEngine).
THEOREM ResultsAreTrue == ClusterSpec => []ScriptResultHolds
<1>1. PartInv => ScriptResultHolds
  BY ScriptHolds DEF PartInv, ScriptResultHolds
<1>2. QED
  BY <1>1, ClusterAlways, PTL

\* The registry's two maps agree, templates are valid and a job inherits from one version of its
\* template, for any names, values and callers (Templates).
THEOREM TemplatesStayInStep == ClusterSpec => []TemplatesAgree
<1>1. PartInv => TemplatesAgree
  BY DEF PartInv, TplInv, TemplatesAgree
<1>2. QED
  BY <1>1, ClusterAlways, PTL

\* When Stop has returned, every event taken before it has been recorded and no loop is left,
\* for any number of callers, starts and events (Observer).
THEOREM StopsDrain == ClusterSpec => []StopDrains
<1>1. PartInv => StopDrains
  BY ObsDrains DEF PartInv, StopDrains
<1>2. QED
  BY <1>1, ClusterAlways, PTL
=============================================================================
