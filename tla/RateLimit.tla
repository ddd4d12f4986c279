------------------------------ MODULE RateLimit ------------------------------
(***************************************************************************)
(* pkg/ratelimit: a limiter is a token bucket that refills lazily, then a  *)
(* quota of a fixed window; CheckJob asks the job's limiter, then the      *)
(* app's.  Each layer has a mutex of its own, workers check concurrently,  *)
(* and a limiter may be replaced or removed under a worker that holds it.  *)
(* Tokens and times are whole numbers; 0 turns a layer off.                *)
(***************************************************************************)
EXTENDS Integers, Sequences

CONSTANTS
    Workers,
    Configs,      \* the configurations that are registered
    MaxTime,      \* bound: the clock
    MaxLimiters   \* bound: limiters registered

Keys == {"job", "app"}
Config == [rate : Nat, burst : Nat, window : Nat, limit : Nat]

RateLimitAssumption ==
    /\ Configs \subseteq Config
    /\ MaxTime \in Nat /\ MaxLimiters \in Nat

VARIABLES
    now,
    limiters,  \* every limiter ever registered
    registry,  \* registry[key]: the index of its limiter, 0 if it has none
    check      \* check[w]: where CheckJob of worker w is, and in which limiter

vars == <<now, limiters, registry, check>>

Idle == [at |-> "idle", key |-> "job", i |-> 0]

Init ==
    /\ now = 0 /\ limiters = <<>>
    /\ registry = [k \in Keys |-> 0]
    /\ check = [w \in Workers |-> Idle]
-----------------------------------------------------------------------------
(* The token bucket *)

Capacity(c) == IF c.burst = 0 THEN c.rate ELSE c.burst

\* Available: the tokens now; a refill has counted those up to l.last.
Available(l) ==
    LET tokens == l.tokens + (now - l.last) * l.rate
    IN  IF tokens < l.capacity THEN tokens ELSE l.capacity

Refilled(l) == [l EXCEPT !.tokens = Available(l), !.last = now]

\* Mutant of TakeToken: the time of the refill is not kept, and counts again.
TakeTokenAgain(l) == [l EXCEPT !.tokens = Available(l) - 1, !.spent = @ + 1]

\* AllowN(1): history spent counts the tokens since the bucket was last full.
TakeToken(l) == [Refilled(l) EXCEPT !.tokens = @ - 1, !.spent = @ + 1]
-----------------------------------------------------------------------------
(* The quota of a fixed window *)

WindowOf(l) == now \div l.window

\* A new window resets the count.
Rolled(l) == IF l.winKey = WindowOf(l) THEN l ELSE [l EXCEPT !.winKey = WindowOf(l), !.count = 0]

Remaining(l) == l.limit - Rolled(l).count

HasQuota(l) == l.window > 0 /\ l.limit > 0
-----------------------------------------------------------------------------
(* The registry *)

NewLimiter(c) ==
    [rate |-> c.rate, capacity |-> Capacity(c), tokens |-> Capacity(c), last |-> now,
     window |-> c.window, limit |-> c.limit, count |-> 0,
     winKey |-> IF c.window = 0 THEN 0 ELSE now \div c.window,
     since |-> now, spent |-> 0, grants |-> [k \in 0 .. MaxTime |-> 0]]

\* Register puts a new limiter in the place of the old one.
Register(key, c) ==
    /\ Len(limiters) < MaxLimiters
    /\ limiters' = Append(limiters, NewLimiter(c))
    /\ registry' = [registry EXCEPT ![key] = Len(limiters) + 1]
    /\ UNCHANGED <<now, check>>

Deregister(key) ==
    /\ registry[key] # 0
    /\ registry' = [registry EXCEPT ![key] = 0]
    /\ UNCHANGED <<now, limiters, check>>

\* Reset of a bucket; no code of the program calls it.
Reset(i) ==
    /\ limiters[i].rate > 0
    /\ limiters' = [limiters EXCEPT ![i].tokens = limiters[i].capacity, ![i].last = now,
                                    ![i].since = now, ![i].spent = 0]
    /\ UNCHANGED <<now, registry, check>>
-----------------------------------------------------------------------------
(* CheckJob *)

\* Get: without a limiter the check goes on to the app, or passes.
Get(w, key) ==
    check' = [check EXCEPT ![w] =
        IF registry[key] # 0 THEN [at |-> "bucket", key |-> key, i |-> registry[key]]
        ELSE IF key = "job" THEN [at |-> "get", key |-> "app", i |-> 0] ELSE Idle]

CheckJob(w) ==
    /\ check[w].at = "idle"
    /\ Get(w, "job")
    /\ UNCHANGED <<now, limiters, registry>>

CheckApp(w) ==
    /\ check[w].at = "get"
    /\ Get(w, "app")
    /\ UNCHANGED <<now, limiters, registry>>

\* The limiter allows: the app's turn, or the trigger passes.
Allowed(w) == IF check[w].key = "job" THEN [at |-> "get", key |-> "app", i |-> 0] ELSE Idle

AllowBucket(w) ==
    LET i == check[w].i
        l == limiters[i]
        off == l.rate = 0
        ok == off \/ Available(l) >= 1
    IN  /\ check[w].at = "bucket"
        /\ limiters' = [limiters EXCEPT ![i] =
               IF off THEN l ELSE IF ok THEN TakeToken(l) ELSE Refilled(l)]
        /\ check' = [check EXCEPT ![w] = IF ok THEN [@ EXCEPT !.at = "quota"] ELSE Idle]
        /\ UNCHANGED <<now, registry>>

AllowQuota(w) ==
    LET i == check[w].i
        l == limiters[i]
        ok == ~HasQuota(l) \/ Remaining(l) > 0
    IN  /\ check[w].at = "quota"
        /\ limiters' = [limiters EXCEPT ![i] =
               IF ~HasQuota(l) THEN l
               ELSE IF ok THEN [Rolled(l) EXCEPT !.count = @ + 1, !.grants[WindowOf(l)] = @ + 1]
               ELSE Rolled(l)]
        /\ check' = [check EXCEPT ![w] = IF ok THEN Allowed(w) ELSE Idle]
        /\ UNCHANGED <<now, registry>>

Tick ==
    /\ now < MaxTime
    /\ now' = now + 1
    /\ UNCHANGED <<limiters, registry, check>>

Next ==
    \/ Tick
    \/ \E key \in Keys : Deregister(key) \/ \E c \in Configs : Register(key, c)
    \/ \E i \in DOMAIN limiters : Reset(i)
    \/ \E w \in Workers : CheckJob(w) \/ CheckApp(w) \/ AllowBucket(w) \/ AllowQuota(w)

Spec == Init /\ [][Next]_vars
-----------------------------------------------------------------------------
Limiter == [rate : Nat, capacity : Nat, tokens : Nat, last : 0 .. MaxTime,
            window : Nat, limit : Nat, count : Nat, winKey : 0 .. MaxTime,
            since : 0 .. MaxTime, spent : Nat, grants : [0 .. MaxTime -> Nat]]

TypeOK ==
    /\ now \in 0 .. MaxTime
    /\ limiters \in Seq(Limiter)
    /\ registry \in [Keys -> 0 .. Len(limiters)]
    /\ check \in [Workers -> [at : {"idle", "get", "bucket", "quota"}, key : Keys,
                              i : 0 .. Len(limiters)]]
    /\ \A w \in Workers : check[w].at \in {"bucket", "quota"} => check[w].i # 0

\* Whatever workers check at once, a bucket never pays out more than it held when
\* it was full and has earned since, counting what it could pay now: a refill
\* counts no time twice (AllowN, Available).
BucketEarnsItsTokens ==
    \A i \in DOMAIN limiters :
        LET l == limiters[i] IN
        l.rate > 0 => l.spent + Available(l) <= l.capacity + (now - l.since) * l.rate

\* No window grants more than its limit to the workers together, and a limiter that
\* was replaced does not either (FixedWindowQuota.Allow).
WindowHoldsItsLimit ==
    \A i \in DOMAIN limiters :
        LET l == limiters[i] IN HasQuota(l) => \A k \in 0 .. MaxTime : l.grants[k] <= l.limit

LimitsHold == BucketEarnsItsTokens /\ WindowHoldsItsLimit
=============================================================================
