-------------------------- MODULE ExecutionLedger --------------------------
(***************************************************************************)
(* What the executor promises per log ID, as the state machine drawn in    *)
(* the package comment of pkg/idempotency: a log ID is absent, running,    *)
(* or settled; it is executed at most once between two absences; a closed  *)
(* executor starts nothing any more and refuses what it had admitted.      *)
(* Runner.tla implements this specification.                               *)
(***************************************************************************)
CONSTANT Logs

VARIABLES
    ledger,     \* ledger[l]: what the idempotency table answers for l
    executing,  \* the log IDs whose handler is running
    closed      \* the set of running jobs has been closed

ledgerVars == <<ledger, executing, closed>>

Settled == {"success", "failed"}

Init ==
    /\ ledger = [l \in Logs |-> "absent"]
    /\ executing = {}
    /\ closed = FALSE

\* The first request for l is given the right to execute.
Admit(l) ==
    /\ ledger[l] = "absent"
    /\ ledger' = [ledger EXCEPT ![l] = "running"]
    /\ UNCHANGED <<executing, closed>>

\* The handler of an admitted request starts, unless the executor is closed.
Start(l) ==
    /\ ledger[l] = "running"
    /\ l \notin executing
    /\ ~closed
    /\ executing' = executing \cup {l}
    /\ UNCHANGED <<ledger, closed>>

\* A request admitted before the close and not started is settled as failed.
Refuse(l) ==
    /\ ledger[l] = "running"
    /\ l \notin executing
    /\ closed
    /\ ledger' = [ledger EXCEPT ![l] = "failed"]
    /\ UNCHANGED <<executing, closed>>

\* The handler has returned and its outcome is recorded, in one step.
Settle(l) ==
    /\ ledger[l] = "running"
    /\ l \in executing
    /\ \E outcome \in Settled : ledger' = [ledger EXCEPT ![l] = outcome]
    /\ executing' = executing \ {l}
    /\ UNCHANGED closed

\* The retention time of a settled record is over.
Forget(l) ==
    /\ ledger[l] \in Settled
    /\ ledger' = [ledger EXCEPT ![l] = "absent"]
    /\ UNCHANGED <<executing, closed>>

Close ==
    /\ closed' = TRUE
    /\ UNCHANGED <<ledger, executing>>

Next ==
    \/ Close
    \/ \E l \in Logs : Admit(l) \/ Start(l) \/ Refuse(l) \/ Settle(l) \/ Forget(l)

Spec == Init /\ [][Next]_ledgerVars
=============================================================================
