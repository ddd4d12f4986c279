------------------------------ MODULE MCRunner ------------------------------
(* Small instances of Runner: two duplicates of one log ID beside a request of *)
(* another, one kill, and one or two callers of Stop.                          *)
EXTENDS Runner, TLC

CONSTANTS r1, r2, r3, l1, l2

MCReqs == {r1, r2, r3}
MCLogs == {l1, l2}
MCLogOf == [r \in MCReqs |-> IF r = r3 THEN l2 ELSE l1]

Symmetry == Permutations({r1, r2})
=============================================================================
