--------------------------- MODULE MCReservation ---------------------------
(* The instance of Reservation that TLC checks. *)
EXTENDS Reservation, TLC
CONSTANTS r1, r2, money, slots

(* The owners are interchangeable, and so are the pools. *)
Interchangeable == Permutations(Owners) \cup Permutations(Pools)
=============================================================================
