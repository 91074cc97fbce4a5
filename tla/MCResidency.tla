---------------------------- MODULE MCResidency ----------------------------
(* Residency with two keys and two configurations. Under one only key 2 is    *)
(* enabled, and is small; under the other it does not fit beside key 1 unless *)
(* it was loaded under the first, and what was loaded under it is too large   *)
(* for the first.                                                             *)
EXTENDS Residency

MCConfigs ==
  {[enabled |-> {1, 2}, count |-> 2, memory |-> 2, restarts |-> 1, size |-> <<1, 2>>],
   [enabled |-> {2}, count |-> 1, memory |-> 1, restarts |-> 1, size |-> <<1, 1>>]}
=============================================================================
