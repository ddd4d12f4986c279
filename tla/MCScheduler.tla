---------------------------- MODULE MCScheduler -----------------------------
(* Small instances of Scheduler with two nodes that share one cron job. *)
EXTENDS Scheduler, TLC

CONSTANTS j1

Every == [j \in Jobs |-> "every"]
One == [j \in Jobs |-> 1]
NoOps == {}

Symmetry == Permutations(Nodes) \cup Permutations(Workers)
=============================================================================
