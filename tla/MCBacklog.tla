----------------------------- MODULE MCBacklog -----------------------------
(* The instance of Backlog that TLC checks: the bootstrap manifest lists a, *)
(* and b is edited to depend on it.                                        *)
EXTENDS Backlog, TLC
CONSTANTS a, b, r1, r2

DepsByText == a :> [n \in 0 .. MaxEdits |-> {}]
           @@ b :> [n \in 0 .. MaxEdits |-> IF n = 0 THEN {} ELSE {a}]

Interchangeable == Permutations(Runs)
=============================================================================
