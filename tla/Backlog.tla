------------------------------ MODULE Backlog ------------------------------
(***************************************************************************)
(* The backlog of product requirement documents (PRDs) and the claim a run *)
(* takes on one:                                                           *)
(*   crates/familiar-ai-storage/src/repos/backlog.rs    (the rows),        *)
(*   crates/familiar-ai-storage/src/repos/bootstrap.rs  (bootstrap),       *)
(*   crates/familiar-ai-daemon/src/run.rs               (admission, end),  *)
(*   crates/familiar-ai-daemon/src/cli/backlog.rs       (human recovery).  *)
(*                                                                         *)
(* A PRD is a file, in the active directory or archived under done/, and   *)
(* one row per path it was seen at.  Every session (a run, or the operator *)
(* process that stands for the reconciler and the CLI) first reads the     *)
(* files and only then, in later transactions, acts on what it saw, while  *)
(* people edit and archive files and other sessions act.                   *)
(*                                                                         *)
(* Abstractions.  The row of the archived path is always completed, so it  *)
(* is only none, present or missing.  Of the event log the model keeps the *)
(* latest event of each active path.  The terminal review that completion  *)
(* validates is clean or not.  A PRD is not deleted and not moved back.    *)
(* What it depends on is declared in its text, so every session goes by    *)
(* the dependencies of the texts it discovered.                            *)
(* Each transaction is one step; a refused one that changes nothing ends   *)
(* the run it belongs to and is otherwise no step.                         *)
(***************************************************************************)
EXTENDS Integers, FiniteSets

CONSTANTS Prds, Runs, Operator,
          Deps,         \* the dependencies each version of a PRD's text declares
          Manifest,     \* the PRDs of the bootstrap manifest
          Edited,       \* bound: the PRDs whose text is edited
          MaxEdits      \* bound: edits of one PRD's text

ASSUME DepsAssumption == Deps \in [Prds -> [0 .. MaxEdits -> SUBSET Prds]]
ASSUME BacklogAssumption ==
  /\ Manifest \subseteq Prds
  /\ Edited \subseteq Prds
  /\ MaxEdits \in Nat
  /\ Operator \notin Runs
  /\ Runs \cap {"none", "bootstrap", "rollback", "other"} = {}

Sessions == Runs \cup {Operator}

VARIABLES
  \* the working tree
  file,         \* "active" or "archived"
  text,         \* version of the text: its content hash
  \* the database
  status,       \* status of the row of the active path ("none": no row)
  hash,         \* its content_hash
  missing,      \* active paths whose missing_since is set
  last,         \* latest status event: the run that claimed, or a kind
  twin,         \* the row of the archived path
  checkpoint,   \* execution_checkpoints: "none", "open" or "completed"
  boot,         \* the bootstrap lineage
  pinned,       \* content hashes of the manifest it applied
  \* the sessions
  pc, target,   \* stage of each run, and the PRD it is for
  seen          \* what each session discovered: file and text of every PRD

tree == <<file, text>>
rows == <<status, hash, missing, last, twin>>
lineage == <<boot, pinned>>
db   == <<rows, checkpoint, lineage>>
vars == <<tree, db, pc, target, seen>>

Views == [Prds -> {"active", "archived"} \X (0 .. MaxEdits)]
Stages == {"idle", "discovered", "admitted", "rechecked", "claimed", "implemented",
           "reviewed", "landed", "completed", "stopped"}

TypeOK ==
  /\ file \in [Prds -> {"active", "archived"}]
  /\ text \in [Prds -> 0 .. MaxEdits]
  /\ status \in [Prds -> {"none", "pending", "in_progress", "completed"}]
  /\ hash \in [Prds -> 0 .. MaxEdits]
  /\ missing \subseteq {p \in Prds : status[p] # "none"}
  /\ last \in [Prds -> Runs \cup {"none", "bootstrap", "rollback", "other"}]
  /\ twin \in [Prds -> {"none", "present", "missing"}]
  /\ checkpoint \in [Prds -> {"none", "open", "completed"}]
  /\ boot \in {"never", "applied", "rolled_back", "reapplied", "closed"}
  /\ pinned \in [Manifest -> 0 .. MaxEdits]
  /\ pc \in [Runs -> Stages]
  /\ target \in [Runs -> Prds]
  /\ seen \in [Sessions -> Views]

OnDisk == [p \in Prds |-> <<file[p], text[p]>>]

Init ==
  /\ file = [p \in Prds |-> "active"]
  /\ text = [p \in Prds |-> 0]
  /\ status = [p \in Prds |-> "none"]
  /\ hash = [p \in Prds |-> 0]
  /\ missing = {}
  /\ last = [p \in Prds |-> "none"]
  /\ twin = [p \in Prds |-> "none"]
  /\ checkpoint = [p \in Prds |-> "none"]
  /\ boot = "never"
  /\ pinned = [p \in Manifest |-> 0]
  /\ pc = [r \in Runs |-> "idle"]
  /\ target \in [Runs -> Prds]
  /\ seen = [s \in Sessions |-> OnDisk]

SeenActive(view, p) == view[p][1] = "active"
SeenText(view, p)   == view[p][2]
DependsOn(view, p)  == Deps[p][SeenText(view, p)]
Goto(r, stage)      == pc' = [pc EXCEPT ![r] = stage]

(* validate_graph: no PRD depends on itself, directly or through others:   *)
(* of any PRDs some one depends on none of them.                           *)
ValidGraph(view) ==
  \A S \in SUBSET Prds \ {{}} : \E p \in S : DependsOn(view, p) \cap S = {}

-----------------------------------------------------------------------------
(* reconcile: every row becomes missing, then every PRD of the view is put *)
(* in: a new active row is pending, a known one keeps its status and takes *)
(* the view's hash; a path under done/ is completed.  The Statuses are     *)
(* those of the active rows after that.                                    *)
Statuses(view) ==
  [p \in Prds |-> IF status[p] = "none" /\ SeenActive(view, p) THEN "pending" ELSE status[p]]

Hashes(view) ==
  [p \in Prds |-> IF SeenActive(view, p) THEN SeenText(view, p) ELSE hash[p]]

Twins(view) ==
  [p \in Prds |-> IF ~ SeenActive(view, p) THEN "present"
                  ELSE IF twin[p] = "none" THEN "none" ELSE "missing"]

Missing(view) == {p \in Prds : status[p] # "none" /\ ~ SeenActive(view, p)}

Reconcile(view) ==
  /\ hash' = Hashes(view)
  /\ missing' = Missing(view)
  /\ twin' = Twins(view)

(* Whether the entry of a PRD in the reconciled snapshot is completed. *)
EntryCompleted(view, p) == ~ SeenActive(view, p) \/ status[p] = "completed"

DependenciesCompleted(view, p) == \A d \in DependsOn(view, p) : EntryCompleted(view, d)

(* admit_run_prd: the target is active and pending, its dependencies are   *)
(* completed.                                                              *)
Admits(view, p) ==
  /\ SeenActive(view, p)
  /\ Statuses(view)[p] = "pending"
  /\ DependenciesCompleted(view, p)

-----------------------------------------------------------------------------
(* People work on the files at any time. *)
Edit(p) ==
  /\ p \in Edited
  /\ file[p] = "active"
  /\ text[p] < MaxEdits
  /\ text' = [text EXCEPT ![p] = @ + 1]
  /\ UNCHANGED <<file, db, pc, target, seen>>

Archive(p) ==
  /\ file[p] = "active"
  /\ file' = [file EXCEPT ![p] = "archived"]
  /\ UNCHANGED <<text, db, pc, target, seen>>

-----------------------------------------------------------------------------
(* A run: read the files and validate what they declare, *)
Discover(r) ==
  /\ pc[r] = "idle"
  /\ file[target[r]] = "active"
  /\ ValidGraph(OnDisk)
  /\ seen' = [seen EXCEPT ![r] = OnDisk]
  /\ Goto(r, "discovered")
  /\ UNCHANGED <<tree, db, target>>

(* reconcile_and_snapshot, then admit_run_prd on the snapshot, *)
Admit(r) ==
  /\ pc[r] = "discovered"
  /\ status' = Statuses(seen[r])
  /\ Reconcile(seen[r])
  /\ Goto(r, IF Admits(seen[r], target[r]) THEN "admitted" ELSE "stopped")
  /\ UNCHANGED <<tree, last, checkpoint, lineage, target, seen>>

(* read the files again: they must not have changed meanwhile, *)
Recheck(r) ==
  /\ pc[r] = "admitted"
  /\ Goto(r, IF OnDisk = seen[r] THEN "rechecked" ELSE "stopped")
  /\ UNCHANGED <<tree, db, target, seen>>

(* The row of the target is still the pending one that was admitted. *)
Claimable(r, p) ==
  /\ status[p] = "pending"
  /\ hash[p] = SeenText(seen[r], p)
  /\ p \notin missing

(* claim_run: reconcile again, admit again and claim, in one transaction.  *)
Claim(r) ==
  LET p == target[r] IN
  /\ pc[r] = "rechecked"
  /\ \/ /\ Claimable(r, p)
        /\ Admits(seen[r], p)
        /\ Reconcile(seen[r])
        /\ status' = [Statuses(seen[r]) EXCEPT ![p] = "in_progress"]
        /\ last' = [last EXCEPT ![p] = r]
        /\ Goto(r, "claimed")
     \/ /\ ~ (Claimable(r, p) /\ Admits(seen[r], p))
        /\ Goto(r, "stopped")
        /\ UNCHANGED rows
  /\ UNCHANGED <<tree, checkpoint, lineage, target, seen>>

(* The agent's candidate is put in the PRD's one checkpoint, *)
Implement(r) ==
  /\ pc[r] = "claimed"
  /\ checkpoint' = [checkpoint EXCEPT ![target[r]] = "open"]
  /\ Goto(r, "implemented")
  /\ UNCHANGED <<tree, rows, lineage, target, seen>>

(* and reviewed: a clean review goes on, any other outcome leaves the      *)
(* claim in progress for a human.                                          *)
Review(r) ==
  /\ pc[r] = "implemented"
  /\ Goto(r, "reviewed") \/ Goto(r, "stopped")
  /\ UNCHANGED <<tree, db, target, seen>>

(* Landing a reviewed candidate moves the PRD file to done/: before the    *)
(* row is completed when a checkpoint is resumed, after it in a drive,     *)
(* whose checkout is fast-forwarded last.                                  *)
Land(r) ==
  /\ pc[r] \in {"reviewed", "completed"}
  /\ file[target[r]] = "active"
  /\ file' = [file EXCEPT ![target[r]] = "archived"]
  /\ Goto(r, IF pc[r] = "reviewed" THEN "landed" ELSE "completed")
  /\ UNCHANGED <<text, db, target, seen>>

(* Fault: a row that is missing is never completed (FAM-BUG-106). *)
CompletionAdmittedStrictly(r) ==
  LET p == target[r] IN
  /\ status[p] = "in_progress"
  /\ hash[p] = SeenText(seen[r], p)
  /\ p \notin missing
  /\ last[p] = r

(* Fault: whoever claimed last, the run that was reviewed completes. *)
CompletionAdmittedToAnyone(r) ==
  LET p == target[r] IN
  /\ hash[p] = SeenText(seen[r], p)
  /\ p \in missing => twin[p] = "present"

(* complete_run_with, its conditions: the claim is this run's and for this *)
(* text, and the row is not missing unless its archived twin is there.     *)
CompletionAdmitted(r) ==
  LET p == target[r] IN
  /\ status[p] = "in_progress"
  /\ hash[p] = SeenText(seen[r], p)
  /\ p \in missing => twin[p] = "present"
  /\ last[p] = r

(* complete_run_with.  A drive completes the checkpoint in the same        *)
(* transaction, a run or a resume in later ones.                           *)
Complete(r) ==
  LET p == target[r] IN
  /\ pc[r] \in {"reviewed", "landed"}
  /\ \/ /\ CompletionAdmitted(r)
        /\ status' = [status EXCEPT ![p] = "completed"]
        /\ last' = [last EXCEPT ![p] = "other"]
        /\ checkpoint' \in {checkpoint, [checkpoint EXCEPT ![p] = "completed"]}
        /\ Goto(r, "completed")
     \/ /\ ~ CompletionAdmitted(r)
        /\ Goto(r, "stopped")
        /\ UNCHANGED <<status, last, checkpoint>>
  /\ UNCHANGED <<tree, hash, missing, twin, lineage, target, seen>>

(* Fault: the checkpoint is closed before the row is completed. *)
CloseCheckpointFirst(r) ==
  /\ pc[r] \in {"reviewed", "completed"}
  /\ checkpoint[target[r]] = "open"
  /\ checkpoint' = [checkpoint EXCEPT ![target[r]] = "completed"]
  /\ UNCHANGED <<tree, rows, lineage, pc, target, seen>>

CloseCheckpoint(r) ==
  /\ pc[r] = "completed"
  /\ checkpoint[target[r]] = "open"
  /\ checkpoint' = [checkpoint EXCEPT ![target[r]] = "completed"]
  /\ UNCHANGED <<tree, rows, lineage, pc, target, seen>>

(* A run dies between any two of its steps. *)
Die(r) ==
  /\ pc[r] \notin {"idle", "completed", "stopped"}
  /\ Goto(r, "stopped")
  /\ UNCHANGED <<tree, db, target, seen>>

-----------------------------------------------------------------------------
(* The operator session: discovery and reconciliation by the reconciler,   *)
(* the dashboard, next or a recovery command; only a command validates the *)
(* dependencies before it acts, *)
OperatorDiscovers ==
  /\ seen' = [seen EXCEPT ![Operator] = OnDisk]
  /\ UNCHANGED <<tree, db, pc, target>>

OperatorReconciles ==
  /\ status' = Statuses(seen[Operator])
  /\ Reconcile(seen[Operator])
  /\ UNCHANGED <<tree, last, checkpoint, lineage, pc, target, seen>>

Addressed(p) ==
  /\ ValidGraph(seen[Operator])
  /\ SeenActive(seen[Operator], p)
  /\ hash[p] = SeenText(seen[Operator], p)
  /\ p \notin missing

(* Fault: the row is updated and the status event is not appended. *)
RecoverSilently(p, next) ==
  /\ status[p] = "in_progress"
  /\ Addressed(p)
  /\ last[p] \in Runs
  /\ status' = [status EXCEPT ![p] = next]
  /\ UNCHANGED <<tree, hash, missing, last, twin, checkpoint, lineage, pc, target, seen>>

(* recover: release a claim, or complete it by hand. *)
Recover(p, next) ==
  /\ status[p] = "in_progress"
  /\ Addressed(p)
  /\ last[p] \in Runs
  /\ status' = [status EXCEPT ![p] = next]
  /\ last' = [last EXCEPT ![p] = "other"]
  /\ UNCHANGED <<tree, hash, missing, twin, checkpoint, lineage, pc, target, seen>>

(* record_complete, with its own reconciliation. *)
RecordComplete(p) ==
  /\ status[p] = "pending"
  /\ Addressed(p)
  /\ DependenciesCompleted(seen[Operator], p)
  /\ Reconcile(seen[Operator])
  /\ status' = [Statuses(seen[Operator]) EXCEPT ![p] = "completed"]
  /\ last' = [last EXCEPT ![p] = "other"]
  /\ UNCHANGED <<tree, checkpoint, lineage, pc, target, seen>>

(* approve_and_complete: the row and its checkpoint together. *)
ApproveAndComplete(p) ==
  /\ status[p] \in {"pending", "in_progress"}
  /\ Addressed(p)
  /\ checkpoint[p] = "open"
  /\ status' = [status EXCEPT ![p] = "completed"]
  /\ last' = [last EXCEPT ![p] = "other"]
  /\ checkpoint' = [checkpoint EXCEPT ![p] = "completed"]
  /\ UNCHANGED <<tree, hash, missing, twin, lineage, pc, target, seen>>

(* apply and rollback read the row of every PRD they were given. *)
RowsExist(view) ==
  \A p \in Prds : IF SeenActive(view, p) THEN status[p] # "none" ELSE twin[p] # "none"

(* bootstrap apply: all PRDs of the manifest are pending and untouched, or *)
(* were touched by the rolled-back application only, and depend on each    *)
(* other or on PRDs completed with an event on record.                     *)
BootstrapApply ==
  /\ boot \in {"never", "rolled_back"}
  /\ ValidGraph(seen[Operator])
  /\ RowsExist(seen[Operator])
  /\ \A p \in Manifest :
       /\ status[p] = "pending"
       /\ Addressed(p)
       /\ IF boot = "never" THEN last[p] = "none"
          ELSE last[p] = "rollback" /\ pinned[p] = hash[p]
       /\ \A d \in DependsOn(seen[Operator], p) \ Manifest :
            SeenActive(seen[Operator], d) /\ status[d] = "completed"
  /\ status' = [p \in Prds |-> IF p \in Manifest THEN "completed" ELSE status[p]]
  /\ last' = [p \in Prds |-> IF p \in Manifest THEN "bootstrap" ELSE last[p]]
  /\ boot' = IF boot = "never" THEN "applied" ELSE "reapplied"
  /\ pinned' = [p \in Manifest |-> hash[p]]
  /\ UNCHANGED <<tree, hash, missing, twin, checkpoint, pc, target, seen>>

(* depends_on_target: p is in every set closed under depending on the      *)
(* manifest or on a member, by the texts of the view.                      *)
DependsOnManifest(view, p) ==
  \A S \in SUBSET Prds :
    (\A q \in Prds : DependsOn(view, q) \cap (Manifest \cup S) # {} => q \in S) => p \in S

(* Fault: only completed dependents block a rollback. *)
RollbackBlockedByCompleted(view) ==
  \E p \in Prds \ Manifest :
    /\ ~ SeenActive(view, p) \/ status[p] = "completed"
    /\ DependsOnManifest(view, p)

(* A dependent that was started keeps the bootstrap in place. *)
RollbackBlocked(view) ==
  \E p \in Prds \ Manifest :
    /\ ~ SeenActive(view, p) \/ status[p] \in {"in_progress", "completed"}
    /\ DependsOnManifest(view, p)

(* bootstrap rollback: restore the PRDs to pending. *)
BootstrapRollback ==
  LET view == seen[Operator] IN
  /\ boot \in {"applied", "reapplied"}
  /\ ValidGraph(view)
  /\ \A p \in Manifest :
       /\ SeenActive(view, p)
       /\ pinned[p] = SeenText(view, p)
       /\ status[p] = "completed"
       /\ last[p] = "bootstrap"
  /\ RowsExist(view)
  /\ ~ RollbackBlocked(view)
  /\ status' = [p \in Prds |-> IF p \in Manifest THEN "pending" ELSE status[p]]
  /\ last' = [p \in Prds |-> IF p \in Manifest THEN "rollback" ELSE last[p]]
  /\ boot' = IF boot = "applied" THEN "rolled_back" ELSE "closed"
  /\ UNCHANGED pinned
  /\ UNCHANGED <<tree, hash, missing, twin, checkpoint, pc, target, seen>>

-----------------------------------------------------------------------------
RunStep(r) ==
  \/ Discover(r) \/ Admit(r) \/ Recheck(r) \/ Claim(r) \/ Implement(r) \/ Review(r)
  \/ Land(r) \/ Complete(r) \/ CloseCheckpoint(r) \/ Die(r)

OperatorStep ==
  \/ OperatorDiscovers \/ OperatorReconciles \/ BootstrapApply \/ BootstrapRollback
  \/ \E p \in Prds : \/ Recover(p, "pending") \/ Recover(p, "completed")
                     \/ RecordComplete(p) \/ ApproveAndComplete(p)

Next ==
  \/ \E p \in Prds : Edit(p) \/ Archive(p)
  \/ \E r \in Runs : RunStep(r)
  \/ OperatorStep

Spec == Init /\ [][Next]_vars

-----------------------------------------------------------------------------
(* The status of a row and the event log agree: a row is in progress       *)
(* exactly while its latest event is a run's claim, so recovery never      *)
(* meets the audit corruption it checks for, and a claim has one owner.    *)
ClaimIsLatestEvent == \A p \in Prds : status[p] = "in_progress" <=> last[p] \in Runs

(* A PRD is claimed only once everything its text depends on is completed, *)
(* and that lasts as long as the claim: neither a stale discovery, nor a   *)
(* file archived or edited meanwhile, nor the rollback of a bootstrap takes *)
(* a dependency away from under a running claim; unless who rolls it back  *)
(* had discovered another text of the PRD than the one that was claimed.   *)
Done(d)      == status[d] = "completed" \/ twin[d] # "none"
Holds(r, p)  == status[p] = "in_progress" /\ last[p] = r

RolledBackOverAnEdit(r, p, d) ==
  /\ last[d] = "bootstrap"
  /\ last'[d] = "rollback"
  /\ SeenText(seen[Operator], p) # SeenText(seen[r], p)

DependenciesKept ==
  [][\A r \in Runs, p \in Prds : Holds(r, p)' =>
       \A d \in DependsOn(seen[r], p) :
         \/ Done(d)'
         \/ Holds(r, p) /\ (~ Done(d) \/ RolledBackOverAnEdit(r, p, d))]_vars

(* Two runs never both complete one PRD, even when a human releases the    *)
(* claim of a run that is still alive and another run claims it again.     *)
CompletedOnce ==
  \A r, s \in Runs :
    pc[r] = "completed" /\ pc[s] = "completed" /\ target[r] = target[s] => r = s

(* FAM-BUG-106: a run that archived its PRD on landing is not refused      *)
(* completion for it: as long as its claim stands and the text was not     *)
(* edited, whoever reconciles with whatever view.                          *)
LandedRunCompletes ==
  \A r \in Runs :
    /\ pc[r] = "landed"
    /\ last[target[r]] = r
    /\ hash[target[r]] = SeenText(seen[r], target[r])
    => CompletionAdmitted(r)

(* A checkpoint that is closed belongs to a completed PRD, so resuming     *)
(* never passes over work that is still open: the two are closed in        *)
(* different transactions by a run and by a resume, in one by a drive and  *)
(* by a human, and a run whose claim was released may come back in between.*)
ClosedCheckpointIsCompleted ==
  \A p \in Prds : checkpoint[p] = "completed" => status[p] = "completed"

(* A row that is completed stays so, except that a bootstrap is rolled     *)
(* back before anything else happened to it.                               *)
CompletionOnlyRolledBack ==
  [][\A p \in Prds : status[p] = "completed" /\ status'[p] # "completed" =>
       /\ last[p] = "bootstrap"
       /\ last'[p] = "rollback"]_vars
=============================================================================
