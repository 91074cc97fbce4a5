----------------------------- MODULE WorkerLock -----------------------------
(***************************************************************************)
(* The file-system lock that makes one process the mutating orchestrator   *)
(* of an installation: crates/familiar-ai-daemon/src/worker_lock.rs.       *)
(*                                                                         *)
(* Three files of the runtime directory are shared by the daemon, the      *)
(* drive/run/resume/delivery commands and the commands a live owner        *)
(* dispatches:                                                             *)
(*   claim     control-plane.claim, the ownership claim;                   *)
(*   guard     control-plane.recovery, O_EXCL guard of a recovery;         *)
(*   delegate  control-plane.delegate, the lock of the owner's delegate.   *)
(* Every system call that reads or changes one of them is a step of its    *)
(* own, and a process may die between any two steps.                       *)
(*                                                                         *)
(* Abstractions.  A process of the model is one incarnation: it stands for *)
(* the pid, the process-start identity and the random nonce that a claim   *)
(* records, so claims of two processes differ, while two incarnations may  *)
(* share a pid (PidOf).  The claim's generation number, installation id    *)
(* and socket path take no part in any decision of the lock and are left   *)
(* out.  Claims are linked into place whole (create), so a claim file is   *)
(* never seen partly written; the delegate file is created empty and then  *)
(* written, so it can be.                                                  *)
(***************************************************************************)
CONSTANTS Procs,      \* process incarnations
          Pids,       \* process ids; also the text of a legacy claim file
          PidOf,      \* the pid each incarnation runs under
          Absent,     \* no such file; no delegation variable
          Garbage     \* a claim file that does not parse

ASSUME PidAssumption == PidOf \in [Procs -> Pids]
ASSUME DisjointAssumption ==
  /\ Absent \notin Procs \cup Pids
  /\ Garbage \notin Procs \cup Pids \cup {Absent}
  /\ Procs \cap Pids = {}

VARIABLES
  pc,         \* where each process is in WorkerLock::acquire or Drop
  env,        \* FAMILIAR_AI_DELEGATED_BY: the pid it names, or Absent
  original,   \* the claim text each process read at the start of acquire
  claim,      \* control-plane.claim
  guard,      \* whether control-plane.recovery exists
  delegate,   \* control-plane.delegate: the process whose file it is
  written     \* whether that file already holds its JSON body

vars == <<pc, env, original, claim, guard, delegate, written>>

Contents == Procs \cup Pids \cup {Absent, Garbage}

Recovering == {"verify", "remove", "unguard_ok", "unguard_err"}
Owning     == {"claimed", "held", "dropping"}
Delegating == {"d_held", "d_dropping"}
Steps == {"idle", "read_claim", "guard", "create", "d_read", "d_remove",
          "d_create", "d_write", "failed", "done", "dead"}
            \cup Recovering \cup Owning \cup Delegating

TypeOK ==
  /\ pc \in [Procs -> Steps]
  /\ env \in [Procs -> Pids \cup {Absent}]
  /\ original \in [Procs -> Contents]
  /\ claim \in Contents
  /\ guard \in BOOLEAN
  /\ delegate \in Procs \cup {Absent}
  /\ written \in BOOLEAN

Alive(p) == pc[p] \notin {"idle", "dead"}

(* process_alive: some process runs under that pid, whoever it is. *)
PidAlive(pid) == \E q \in Procs : Alive(q) /\ PidOf[q] = pid

(* Fault: a claimant whose acquire returned an error is taken for dead. *)
MatchesUnlessFailed(c) == c \in Procs /\ Alive(c) /\ pc[c] # "failed"

(* claim_process_matches: the pid is alive and has the recorded process-   *)
(* start identity, so it is the very incarnation that wrote the claim.     *)
Matches(c) == c \in Procs /\ Alive(c)

(* delegated_by: the variable names the pid the claim records. *)
DelegatedBy(p, c) == c \in Procs /\ env[p] = PidOf[c]

(* The files a previous boot or version can have left: the claim or the    *)
(* delegate file of a dead process, a legacy claim that is a bare pid, or  *)
(* text that does not parse.                                               *)
Init ==
  /\ pc \in [Procs -> {"idle", "dead"}]
  /\ env = [p \in Procs |-> Absent]
  /\ original = [p \in Procs |-> Absent]
  /\ claim \in {Absent, Garbage} \cup Pids \cup {p \in Procs : pc[p] = "dead"}
  /\ guard = FALSE
  /\ delegate \in {Absent} \cup {p \in Procs : pc[p] = "dead"}
  /\ written \in BOOLEAN

Goto(p, step) == pc' = [pc EXCEPT ![p] = step]

-----------------------------------------------------------------------------
(* A process starts: by hand without the variable, or dispatched by a      *)
(* process that owns the claim (or by a child of it) with the owner's pid. *)
(* The kernel gives out a pid only once its last process is gone.          *)
Start(p, by) ==
  /\ pc[p] = "idle"
  /\ \A q \in Procs : Alive(q) => PidOf[q] # PidOf[p]
  /\ \/ by = Absent
     \/ \E q \in Procs : pc[q] = "held" /\ by = PidOf[q]
     \/ \E q \in Procs : Alive(q) /\ by = env[q]
  /\ env' = [env EXCEPT ![p] = by]
  /\ Goto(p, "read_claim")
  /\ UNCHANGED <<original, claim, guard, delegate, written>>

(* acquire_inner, first read of the claim: delegate, refuse, recover or go *)
(* straight to creation.                                                   *)
ReadClaim(p) ==
  /\ pc[p] = "read_claim"
  /\ original' = [original EXCEPT ![p] = claim]
  /\ Goto(p, IF claim = Absent THEN "create"
             ELSE IF claim \in Procs
               THEN IF DelegatedBy(p, claim)
                      THEN IF PidAlive(PidOf[claim]) THEN "d_read" ELSE "failed"
                      ELSE IF Matches(claim) THEN "failed" ELSE "guard"
               ELSE IF claim \in Pids /\ PidAlive(claim) THEN "failed" ELSE "guard")
  /\ UNCHANGED <<env, claim, guard, delegate, written>>

(* recover_exact: take the O_EXCL guard, check that the claim is still the *)
(* text that was judged stale, remove it, and remove the guard either way. *)
EnterRecovery(p) ==
  /\ pc[p] = "guard"
  /\ guard' = TRUE
  /\ Goto(p, IF guard THEN "failed" ELSE "verify")
  /\ UNCHANGED <<env, original, claim, delegate, written>>

(* Fault: the claim is not read again under the guard. *)
VerifyClaimSkipped(p) ==
  /\ pc[p] = "verify"
  /\ Goto(p, "remove")
  /\ UNCHANGED <<env, original, claim, guard, delegate, written>>

VerifyClaim(p) ==
  /\ pc[p] = "verify"
  /\ Goto(p, IF claim = original[p] THEN "remove" ELSE "unguard_err")
  /\ UNCHANGED <<env, original, claim, guard, delegate, written>>

RemoveClaim(p) ==
  /\ pc[p] = "remove"
  /\ claim' = Absent
  /\ Goto(p, IF claim = Absent THEN "unguard_err" ELSE "unguard_ok")
  /\ UNCHANGED <<env, original, guard, delegate, written>>

LeaveRecovery(p) ==
  /\ pc[p] \in {"unguard_ok", "unguard_err"}
  /\ guard' = FALSE
  /\ Goto(p, IF pc[p] = "unguard_ok" THEN "create" ELSE "failed")
  /\ UNCHANGED <<env, original, claim, delegate, written>>

(* create: hard_link of a complete temporary file; fails if a claim exists *)
CreateClaim(p) ==
  /\ pc[p] = "create"
  /\ claim' = IF claim = Absent THEN p ELSE claim
  /\ Goto(p, IF claim = Absent THEN "claimed" ELSE "failed")
  /\ UNCHANGED <<env, original, guard, delegate, written>>

(* The generation file is written after the link.  If that write fails,    *)
(* acquire returns the error and leaves the claim where it is.             *)
RecordGeneration(p) ==
  /\ pc[p] = "claimed"
  /\ Goto(p, "held") \/ Goto(p, "failed")
  /\ UNCHANGED <<env, original, claim, guard, delegate, written>>

-----------------------------------------------------------------------------
(* acquire_delegation: read the delegate file, refuse if it names a live   *)
(* delegate, otherwise remove it; then create it O_EXCL and write it.      *)
ReadDelegate(p) ==
  /\ pc[p] = "d_read"
  /\ Goto(p, IF delegate = Absent THEN "d_create"
             ELSE IF written /\ Alive(delegate) THEN "failed" ELSE "d_remove")
  /\ UNCHANGED <<env, original, claim, guard, delegate, written>>

RemoveDelegate(p) ==
  /\ pc[p] = "d_remove"
  /\ delegate' = Absent
  /\ Goto(p, "d_create")
  /\ UNCHANGED <<env, original, claim, guard, written>>

CreateDelegate(p) ==
  /\ pc[p] = "d_create"
  /\ \/ /\ delegate = Absent
        /\ delegate' = p
        /\ written' = FALSE
        /\ Goto(p, "d_write")
     \/ /\ delegate # Absent
        /\ Goto(p, "failed")
        /\ UNCHANGED <<delegate, written>>
  /\ UNCHANGED <<env, original, claim, guard>>

(* The body goes to the file this process opened, which may no longer be   *)
(* the one at the path.                                                    *)
WriteDelegate(p) ==
  /\ pc[p] = "d_write"
  /\ written' = IF delegate = p THEN TRUE ELSE written
  /\ Goto(p, "d_held")
  /\ UNCHANGED <<env, original, claim, guard, delegate>>

-----------------------------------------------------------------------------
(* Drop: read the file; if it is still exactly this lock's claim, remove   *)
(* whatever is at the path.                                                *)
DropRead(p) ==
  /\ \/ /\ pc[p] = "held"
        /\ Goto(p, IF claim = p THEN "dropping" ELSE "done")
     \/ /\ pc[p] = "d_held"
        /\ Goto(p, IF delegate = p /\ written THEN "d_dropping" ELSE "done")
  /\ UNCHANGED <<env, original, claim, guard, delegate, written>>

DropRemove(p) ==
  /\ \/ /\ pc[p] = "dropping"
        /\ claim' = Absent
        /\ UNCHANGED delegate
     \/ /\ pc[p] = "d_dropping"
        /\ delegate' = Absent
        /\ UNCHANGED claim
  /\ Goto(p, "done")
  /\ UNCHANGED <<env, original, guard, written>>

(* resolve_mutation_owner calls acquire again after AlreadyExists. *)
Retry(p) ==
  /\ pc[p] = "failed"
  /\ Goto(p, "read_claim")
  /\ UNCHANGED <<env, original, claim, guard, delegate, written>>

(* A process exits, or is killed, at any point; no file is cleaned up. *)
Die(p) ==
  /\ Alive(p)
  /\ Goto(p, "dead")
  /\ UNCHANGED <<env, original, claim, guard, delegate, written>>

Step(p) ==
  \/ \E by \in Pids \cup {Absent} : Start(p, by)
  \/ ReadClaim(p) \/ EnterRecovery(p) \/ VerifyClaim(p) \/ RemoveClaim(p)
  \/ LeaveRecovery(p) \/ CreateClaim(p) \/ RecordGeneration(p)
  \/ ReadDelegate(p) \/ RemoveDelegate(p) \/ CreateDelegate(p) \/ WriteDelegate(p)
  \/ DropRead(p) \/ DropRemove(p) \/ Retry(p) \/ Die(p)

Next == \E p \in Procs : Step(p)

Spec == Init /\ [][Next]_vars

-----------------------------------------------------------------------------
Owns(p) == pc[p] \in Owning

(* Exactly one mutating orchestrator: two live processes never both pass   *)
(* WorkerLock::acquire as owners, whatever mix of fresh claims, stale or   *)
(* legacy claims, concurrent recoveries, releases and deaths precedes it   *)
(* (PRD-056: ownership races resolve to one mutating orchestrator).        *)
OwnerExclusion == \A p, q \in Procs : Owns(p) /\ Owns(q) => p = q

(* Nobody deletes or replaces the claim of a live process but that process *)
(* dropping its own lock, also when it is no owner: acquire may fail after *)
(* the link and leave the claim to a process that goes on running.  It is  *)
(* the failure of FAM-BUG-027 (a claimant "recovered" the winner's claim)  *)
(* and FAM-BUG-093 (a delegate deleted the daemon's claim on exit).        *)
LiveClaimIsKept ==
  [][\A p \in Procs :
       claim = p /\ Alive(p) /\ claim' # p => pc[p] = "dropping"]_vars

(* Why exclusion holds: an owner's claim is on disk, recoveries exclude    *)
(* each other through the guard, and the claim a recovery is about to      *)
(* remove is still the claim of a process that is dead for good.           *)
LockInv ==
  /\ TypeOK
  /\ \A p \in Procs : Owns(p) => claim = p
  /\ \A p \in Procs : pc[p] \in Recovering => guard
  /\ \A p, q \in Procs : pc[p] \in Recovering /\ pc[q] \in Recovering => p = q
  /\ \A p \in Procs : pc[p] \in {"guard", "verify", "remove"} =>
        /\ original[p] # Absent
        /\ original[p] \in Procs => pc[original[p]] = "dead"
  /\ \A p \in Procs : pc[p] = "remove" => claim = original[p]
  /\ claim \in Procs => pc[claim] # "idle"
=============================================================================
