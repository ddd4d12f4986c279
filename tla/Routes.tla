------------------------------- MODULE Routes --------------------------------
(***************************************************************************)
(* internal/scheduler/route_strategy.go: the routers that choose one of    *)
(* the executor addresses a trigger may go to.  The list comes from the    *)
(* iteration of a map, so every order of every set of addresses is         *)
(* possible at every call.  A router's state is shared by all jobs of its  *)
(* strategy and guarded by one mutex: a call is one step.                  *)
(***************************************************************************)
EXTENDS Integers, Sequences, FiniteSets, SequencesExt

CONSTANTS
    Addrs,
    Hashes,    \* the FNV hashes of "jobID:param", of 32 bits
    MaxCalls   \* bound: calls of the router

Strategies == {"FIRST", "LAST", "ROUND_ROBIN", "RANDOM", "CONSISTENT_HASH", "FAILOVER", "LFU", "LRU"}

\* Every order of every set of addresses.
Lists == UNION {SetToSeqs(S) : S \in (SUBSET Addrs) \ {{}}}

VARIABLES
    strategy, hash,
    counter,   \* the counter of globalRoundRobin of each list (its listHash)
    count,     \* globalLFU's count of each address
    lastUsed,  \* globalLRU's time of each address, 0 if never
    calls,     \* calls so far; the clock advances between two of them
    chosen,    \* history (ROUND_ROBIN, LFU): how often each list led to each address
    recent,    \* history (LRU): the addresses of the last calls, one fewer than there are
    whole      \* history: every list so far has held all addresses

vars == <<strategy, hash, counter, count, lastUsed, calls, chosen, recent, whole>>

Init ==
    /\ strategy \in Strategies /\ hash \in Hashes
    /\ counter = [s \in Lists |-> 0]
    /\ count = [a \in Addrs |-> 0] /\ lastUsed = [a \in Addrs |-> 0]
    /\ calls = 0
    /\ chosen = [s \in Lists |-> [a \in Addrs |-> 0]]
    /\ recent = <<>> /\ whole = TRUE

\* The first address of the list with the least value.
FirstLeast(s, value) ==
    s[CHOOSE i \in DOMAIN s : \A j \in DOMAIN s :
        value[s[i]] < value[s[j]] \/ (value[s[i]] = value[s[j]] /\ i <= j)]

\* The addresses a router may choose from a list that is not empty.
Candidates(s) ==
    CASE strategy \in {"FIRST", "FAILOVER"} -> {Head(s)}
      [] strategy = "LAST" -> {Last(s)}
      [] strategy = "RANDOM" -> ToSet(s)
      [] strategy = "CONSISTENT_HASH" -> {s[(hash % Len(s)) + 1]}
      [] strategy = "ROUND_ROBIN" -> {s[(counter[s] % Len(s)) + 1]}
      [] strategy = "LFU" -> {FirstLeast(s, count)}
      [] strategy = "LRU" -> {FirstLeast(s, lastUsed)}

\* Mutant of Choose: the least used address is counted before the list is searched.
ChooseFirstCounts(s, a) ==
    /\ counter' = IF strategy = "ROUND_ROBIN" THEN [counter EXCEPT ![s] = @ + 1] ELSE counter
    /\ count' = IF strategy = "LFU" THEN [count EXCEPT ![Head(s)] = @ + 1] ELSE count
    /\ lastUsed' = IF strategy = "LRU" THEN [lastUsed EXCEPT ![a] = calls + 1] ELSE lastUsed

\* What the router remembers of its choice.
Choose(s, a) ==
    /\ counter' = IF strategy = "ROUND_ROBIN" THEN [counter EXCEPT ![s] = @ + 1] ELSE counter
    /\ count' = IF strategy = "LFU" THEN [count EXCEPT ![a] = @ + 1] ELSE count
    /\ lastUsed' = IF strategy = "LRU" THEN [lastUsed EXCEPT ![a] = calls + 1] ELSE lastUsed

Route(s) ==
    /\ calls < MaxCalls /\ calls' = calls + 1
    /\ \E a \in Candidates(s) :
          /\ Choose(s, a)
          /\ chosen' = IF strategy \in {"ROUND_ROBIN", "LFU"} THEN [chosen EXCEPT ![s][a] = @ + 1]
                       ELSE chosen
          /\ recent' = LET r == Append(recent, a) IN
                       CASE strategy # "LRU" -> recent
                         [] strategy = "LRU" /\ Len(r) < Cardinality(Addrs) -> r
                         [] OTHER -> Tail(r)
    /\ whole' = (whole /\ ToSet(s) = Addrs)
    /\ UNCHANGED <<strategy, hash>>

\* Without an address a route fails before anything is counted.
Next == \E s \in Lists : Route(s)

Spec == Init /\ [][Next]_vars
-----------------------------------------------------------------------------
TypeOK ==
    /\ strategy \in Strategies /\ hash \in Hashes
    /\ counter \in [Lists -> 0 .. MaxCalls] /\ chosen \in [Lists -> [Addrs -> 0 .. MaxCalls]]
    /\ count \in [Addrs -> 0 .. MaxCalls] /\ lastUsed \in [Addrs -> 0 .. MaxCalls]
    /\ calls \in 0 .. MaxCalls
    /\ recent \in BoundedSeq(Addrs, Cardinality(Addrs)) /\ whole \in BOOLEAN

Level(f, S) == \A a, b \in S : f[a] <= f[b] + 1

\* Load is spread whatever the order of the lists.  Round robin serves the addresses
\* of one list equally often up to one; as long as every list holds all addresses,
\* LFU serves all of them equally often up to one, and LRU comes back to an address
\* only after all others.
LoadIsSpread ==
    /\ strategy = "ROUND_ROBIN" => \A s \in Lists : Level(chosen[s], ToSet(s))
    /\ strategy = "LFU" /\ whole => Level([a \in Addrs |->
          Cardinality({c \in Lists \X (1 .. MaxCalls) : c[2] <= chosen[c[1]][a]})], Addrs)
    /\ strategy = "LRU" /\ whole => IsInjective(recent)
=============================================================================
