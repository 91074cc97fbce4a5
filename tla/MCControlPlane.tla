--------------------------- MODULE MCControlPlane ---------------------------
(* Constants for the instances of ControlPlane that TLC checks. *)
EXTENDS ControlPlane
CONSTANTS e1, e2, x

OneProject  == [e \in Executions |-> x]
DistinctKey == [e \in Executions |-> e]
OneSlot     == [p \in Projects |-> 1]
=============================================================================
