------------------------------ MODULE MCDrive ------------------------------
(* The instance of Drive: 3 depends on 1 and overlaps 2. *)
EXTENDS Drive, TLC

ThreeNeedsOne == 1 :> {} @@ 2 :> {} @@ 3 :> {1}
TwoAndThree   == 1 :> {} @@ 2 :> {3} @@ 3 :> {2}
=============================================================================
