-------------------------- MODULE WorkerLockProofs --------------------------
(***************************************************************************)
(* Proofs about the ownership lock for any number of processes and any     *)
(* assignment of pids: exclusion of owners and the protection of a live    *)
(* process's claim.                                                        *)
(***************************************************************************)
EXTENDS WorkerLock, TLAPS

USE DEF Recovering, Owning, Delegating

(* A previous boot's files satisfy the lock's invariant. *)
LEMMA InitLockInv == Init => LockInv
<1> SUFFICES ASSUME Init PROVE LockInv
    OBVIOUS
<1>1. TypeOK
  BY DEF Init, TypeOK, Contents, Steps
<1>2. \A p \in Procs : pc[p] \in {"idle", "dead"}
  BY DEF Init
<1>3. claim \in Procs => pc[claim] # "idle"
  BY DisjointAssumption DEF Init
<1> QED
  BY <1>1, <1>2, <1>3 DEF LockInv, Owns

(* Every step of acquire, of Drop and every death keeps the invariant. *)
LEMMA NextLockInv == LockInv /\ [Next]_vars => LockInv'
<1> SUFFICES ASSUME LockInv, [Next]_vars PROVE LockInv'
    OBVIOUS
<1> USE DisjointAssumption, PidAssumption DEF LockInv, TypeOK, Contents, Steps, Owns, Alive, Goto
<1>1. ASSUME NEW p \in Procs, NEW by \in Pids \cup {Absent}, Start(p, by) PROVE LockInv'
  BY <1>1 DEF Start
<1>2. ASSUME NEW p \in Procs, ReadClaim(p) PROVE LockInv'
  BY <1>2 DEF ReadClaim, Matches
<1>3. ASSUME NEW p \in Procs, EnterRecovery(p) PROVE LockInv'
  BY <1>3 DEF EnterRecovery
<1>4. ASSUME NEW p \in Procs, VerifyClaim(p) PROVE LockInv'
  BY <1>4 DEF VerifyClaim
<1>5. ASSUME NEW p \in Procs, RemoveClaim(p) PROVE LockInv'
  BY <1>5 DEF RemoveClaim
<1>6. ASSUME NEW p \in Procs, LeaveRecovery(p) PROVE LockInv'
  <2>1. /\ pc[p] \in {"unguard_ok", "unguard_err"}
        /\ UNCHANGED <<claim, original>>
    BY <1>6 DEF LeaveRecovery
  <2>2. /\ pc'[p] \in {"create", "failed"}
        /\ \A q \in Procs : q # p => pc'[q] = pc[q]
    BY <1>6 DEF LeaveRecovery
  <2>3. TypeOK'
    BY <1>6 DEF LeaveRecovery
  <2>4. \A q \in Procs : pc'[q] \notin Recovering
    BY <2>1, <2>2
  <2>5. \A q \in Procs : Owns(q)' => claim' = q
    BY <2>1, <2>2
  <2>6. \A q \in Procs : pc'[q] \in {"guard", "verify", "remove"} =>
           /\ original'[q] # Absent
           /\ original'[q] \in Procs => pc'[original'[q]] = "dead"
    BY <2>1, <2>2
  <2>7. claim' \in Procs => pc'[claim'] # "idle"
    BY <2>1, <2>2
  <2> QED BY <2>3, <2>4, <2>5, <2>6, <2>7
<1>7. ASSUME NEW p \in Procs, CreateClaim(p) PROVE LockInv'
  BY <1>7 DEF CreateClaim
<1>8. ASSUME NEW p \in Procs, RecordGeneration(p) PROVE LockInv'
  BY <1>8 DEF RecordGeneration
<1>9. ASSUME NEW p \in Procs, ReadDelegate(p) PROVE LockInv'
  BY <1>9 DEF ReadDelegate
<1>10. ASSUME NEW p \in Procs, RemoveDelegate(p) PROVE LockInv'
  BY <1>10 DEF RemoveDelegate
<1>11. ASSUME NEW p \in Procs, CreateDelegate(p) PROVE LockInv'
  <2>1. CASE delegate = Absent
    <3>1. TypeOK'
      BY <1>11, <2>1 DEF CreateDelegate
    <3>2. pc' = [pc EXCEPT ![p] = "d_write"] /\ UNCHANGED <<original, claim, guard>>
      BY <1>11, <2>1 DEF CreateDelegate
    <3> QED BY <1>11, <3>1, <3>2 DEF CreateDelegate
  <2>2. CASE delegate # Absent
    BY <1>11, <2>2 DEF CreateDelegate
  <2> QED BY <2>1, <2>2
<1>12. ASSUME NEW p \in Procs, WriteDelegate(p) PROVE LockInv'
  BY <1>12 DEF WriteDelegate
<1>13. ASSUME NEW p \in Procs, DropRead(p) PROVE LockInv'
  BY <1>13 DEF DropRead
<1>14. ASSUME NEW p \in Procs, DropRemove(p) PROVE LockInv'
  BY <1>14 DEF DropRemove
<1>15. ASSUME NEW p \in Procs, Retry(p) PROVE LockInv'
  BY <1>15 DEF Retry
<1>16. ASSUME NEW p \in Procs, Die(p) PROVE LockInv'
  BY <1>16 DEF Die
<1>17. CASE UNCHANGED vars
  BY <1>17 DEF vars
<1> QED
  BY <1>1, <1>2, <1>3, <1>4, <1>5, <1>6, <1>7, <1>8, <1>9, <1>10, <1>11, <1>12,
     <1>13, <1>14, <1>15, <1>16, <1>17 DEF Next, Step

(* The invariant behind exclusion holds in every reachable state: the files *)
(* of worker_lock.rs always agree with what each process believes of them.  *)
THEOREM Invariance == Spec => []LockInv
<1> QED
  BY InitLockInv, NextLockInv, PTL DEF Spec

(* Two processes are never both the mutating orchestrator. *)
THEOREM Exclusion == Spec => []OwnerExclusion
<1>1. LockInv => OwnerExclusion
  BY DEF LockInv, OwnerExclusion
<1> QED
  BY <1>1, Invariance, PTL

(* The claim of a live process leaves the disk only by its own Drop. *)
THEOREM LiveClaimKept == Spec => LiveClaimIsKept
<1>1. ASSUME LockInv, [Next]_vars, NEW p \in Procs,
             claim = p, Alive(p), claim' # p
      PROVE  pc[p] = "dropping"
  <2> USE <1>1, DisjointAssumption DEF LockInv, Alive, Owns
  <2>1. ~ UNCHANGED claim
    OBVIOUS
  <2>2. PICK q \in Procs : \/ RemoveClaim(q) \/ CreateClaim(q) \/ DropRemove(q)
    BY <2>1 DEF Next, Step, vars, Start, ReadClaim, EnterRecovery, VerifyClaim,
       LeaveRecovery, RecordGeneration, ReadDelegate, RemoveDelegate, CreateDelegate,
       WriteDelegate, DropRead, Retry, Die
  <2>3. ~ RemoveClaim(q)
    BY DEF RemoveClaim
  <2>4. ~ CreateClaim(q)
    BY <2>1 DEF CreateClaim
  <2>5. DropRemove(q)
    BY <2>2, <2>3, <2>4
  <2>6. pc[q] = "dropping"
    BY <2>5, <2>1 DEF DropRemove
  <2> QED
    BY <2>6
<1>2. LockInv /\ [Next]_vars =>
        [\A p \in Procs : claim = p /\ Alive(p) /\ claim' # p => pc[p] = "dropping"]_vars
  BY <1>1
<1> QED
  BY <1>2, Invariance, PTL DEF Spec, LiveClaimIsKept
=============================================================================
