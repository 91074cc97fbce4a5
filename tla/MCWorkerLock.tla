--------------------------- MODULE MCWorkerLock ---------------------------
(* The pid assignment of the instance of WorkerLock that TLC checks.       *)
EXTENDS WorkerLock, TLC
CONSTANTS p1, p2, p3, a, b, c

(* p1 and p3 are incarnations under one pid: a claim of p1 can name a pid  *)
(* that an unrelated process runs under by the time it is read.            *)
ReusedPid == p1 :> a @@ p2 :> b @@ p3 :> a
=============================================================================
