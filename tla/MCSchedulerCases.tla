-------------------------- MODULE MCSchedulerCases --------------------------
(* Three instances of Scheduler, one of which is chosen at the start: the one   *)
(* this module extends, one node with two workers, a queue that is large enough *)
(* and every management call but StartJob ("armed"); two nodes that may crash,  *)
(* a clock that does not wait for them and a BlockDiscard job ("lock"); one     *)
(* node whose Redis and database may fail, with two jobs and every management   *)
(* call ("manage").                                                             *)
EXTENDS Scheduler, TLC

CONSTANTS n1, n2, w1, w2, d1, j1, j2

Every == [j \in Jobs |-> "every"]
One == [j \in Jobs |-> 1]

Shared == INSTANCE Scheduler WITH
    Nodes <- {n1, n2}, Workers <- {w1}, Jobs <- {d1}, CronOf <- d1 :> "every", Discard <- {d1},
    Fanout <- d1 :> 1, LockTTL <- 1, Deadline <- 1, QueueCap <- 1, MaxTime <- 2,
    MaxManual <- 0, MaxLogs <- 3, MaxOps <- 0, Ops <- {},
    Failing <- FALSE, Crashing <- TRUE, Prompt <- FALSE, InOrder <- TRUE

Managed == INSTANCE Scheduler WITH
    Nodes <- {n1}, Workers <- {w1}, Jobs <- {j1, j2},
    CronOf <- (j1 :> "every") @@ (j2 :> "none"), Discard <- {},
    Fanout <- (j1 :> 2) @@ (j2 :> 1), LockTTL <- 1, Deadline <- 1, QueueCap <- 1,
    MaxTime <- 1, MaxManual <- 0, MaxLogs <- 2, MaxOps <- 1,
    Ops <- {"add", "update", "remove", "start", "stop"},
    Failing <- TRUE, Crashing <- FALSE, Prompt <- FALSE, InOrder <- FALSE

VARIABLE case

CasesInit ==
    \/ case = "armed" /\ Init
    \/ case = "lock" /\ Shared!Init
    \/ case = "manage" /\ Managed!Init

CasesNext ==
    /\ \/ case = "armed" /\ Next
       \/ case = "lock" /\ Shared!Next
       \/ case = "manage" /\ Managed!Next
    /\ UNCHANGED case

CasesSpec == CasesInit /\ [][CasesNext]_<<vars, case>>

Symmetry == Permutations({n1, n2}) \cup Permutations({w1, w2})
-----------------------------------------------------------------------------
\* Scheduler's properties that do not hold of every instance, each on those it is about.
CasesTypeOK ==
    CASE case = "armed"  -> TypeOK
      [] case = "lock"   -> Shared!TypeOK
      [] case = "manage" -> Managed!TypeOK

ArmedThroughout == case = "armed" => RunningJobIsArmed
SentOncePerTick == case = "armed" => SameTickOnce
=============================================================================
