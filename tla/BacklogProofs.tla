--------------------------- MODULE BacklogProofs ---------------------------
(***************************************************************************)
(* Every safety property of Backlog, for any set of PRDs and whatever their *)
(* texts declare, any number of runs and edits, proved from one inductive  *)
(* invariant.                                                              *)
(***************************************************************************)
EXTENDS Backlog, TLAPS

(* A row that reconciliation marked missing has its archived twin. *)
MissingIsArchived == \A p \in missing : twin[p] = "present"

(* The row a run completed keeps that run's completion for ever. *)
CompletedStays ==
  \A r \in Runs : pc[r] = "completed" =>
    status[target[r]] = "completed" /\ last[target[r]] = "other"

BacklogInv ==
  /\ TypeOK
  /\ ClaimIsLatestEvent
  /\ MissingIsArchived
  /\ CompletedStays
  /\ CompletedOnce

-----------------------------------------------------------------------------
(* reconcile (repos/backlog.rs) gives every row a well-typed status, hash, *)
(* missing mark and archived twin, whatever discovery it is handed.        *)
LEMMA ReconcileType ==
  ASSUME TypeOK, NEW view \in Views
  PROVE  /\ Statuses(view) \in [Prds -> {"none", "pending", "in_progress", "completed"}]
         /\ Hashes(view) \in [Prds -> 0 .. MaxEdits]
         /\ Twins(view) \in [Prds -> {"none", "present", "missing"}]
         /\ Missing(view) \subseteq {p \in Prds : Statuses(view)[p] # "none"}
BY DEF TypeOK, Views, Statuses, Hashes, Twins, Missing, SeenActive, SeenText

(* reconcile only ever creates pending rows: it neither starts, finishes   *)
(* nor reopens a PRD, marks missing only what it saw archived, and keeps   *)
(* every archived row.                                                     *)
LEMMA ReconcileKeeps ==
  ASSUME TypeOK, NEW view \in Views
  PROVE  /\ \A p \in Prds : status[p] # "none" => Statuses(view)[p] = status[p]
         /\ \A p \in Prds : status[p] = "none" => Statuses(view)[p] \in {"none", "pending"}
         /\ \A p \in Missing(view) : Twins(view)[p] = "present"
         /\ \A p \in Prds : twin[p] # "none" => Twins(view)[p] # "none"
         /\ \A p \in Prds : ~ SeenActive(view, p) => Twins(view)[p] = "present"
BY DEF TypeOK, Statuses, Twins, Missing

(* depends_on_target (repos/bootstrap.rs) finds direct dependents at least. *)
LEMMA DirectDependent ==
  ASSUME NEW view \in Views, NEW p \in Prds, DependsOn(view, p) \cap Manifest # {}
  PROVE  DependsOnManifest(view, p)
BY DEF DependsOnManifest

(* What a session discovered is a view of the files, whenever it was read. *)
LEMMA Seen ==
  ASSUME TypeOK, NEW s \in Sessions
  PROVE  seen[s] \in Views
BY DEF TypeOK

(* A database nobody reconciled yet satisfies the inductive invariant. *)
LEMMA InitInv == Init => BacklogInv
<1> SUFFICES ASSUME Init PROVE BacklogInv
  OBVIOUS
<1>1. TypeOK
  BY BacklogAssumption DEF Init, TypeOK, OnDisk, Views, Stages
<1>2. QED
  BY <1>1, BacklogAssumption DEF Init, BacklogInv, ClaimIsLatestEvent,
       MissingIsArchived, CompletedStays, CompletedOnce

(* Every transaction and every step of a run keeps the tables and the      *)
(* sessions well-typed.                                                    *)
LEMMA TypeStep == TypeOK /\ [Next]_vars => TypeOK'
<1> SUFFICES ASSUME TypeOK, [Next]_vars PROVE TypeOK'
  OBVIOUS
<1> USE BacklogAssumption DEF tree, rows, db, lineage, Goto, Stages, Sessions
<1>0. OnDisk \in Views
  BY DEF TypeOK, OnDisk, Views
<1>1. ASSUME NEW p \in Prds, Edit(p) \/ Archive(p) PROVE TypeOK'
  BY <1>1 DEF TypeOK, Edit, Archive
<1>2. ASSUME NEW r \in Runs, Discover(r) PROVE TypeOK'
  BY <1>2, <1>0 DEF TypeOK, Discover
<1>3. ASSUME NEW r \in Runs, Admit(r) PROVE TypeOK'
  <2>1. seen[r] \in Views
    BY Seen
  <2>2. /\ status' \in [Prds -> {"none", "pending", "in_progress", "completed"}]
        /\ hash' \in [Prds -> 0 .. MaxEdits]
        /\ twin' \in [Prds -> {"none", "present", "missing"}]
        /\ missing' \subseteq {p \in Prds : status'[p] # "none"}
    BY <1>3, <2>1, ReconcileType DEF Admit, Reconcile
  <2>3. pc' \in [Runs -> Stages]
    BY <1>3 DEF TypeOK, Admit
  <2>4. QED
    BY <1>3, <2>2, <2>3 DEF TypeOK, Admit
<1>4. ASSUME NEW r \in Runs, Recheck(r) \/ Review(r) \/ Land(r) \/ Die(r) PROVE TypeOK'
  BY <1>4 DEF TypeOK, Recheck, Review, Land, Die
<1>5. ASSUME NEW r \in Runs, Claim(r) PROVE TypeOK'
  <2>1. seen[r] \in Views /\ target[r] \in Prds
    BY Seen DEF TypeOK
  <2>2. CASE Admits(seen[r], target[r]) /\ Reconcile(seen[r])
              /\ status' = [Statuses(seen[r]) EXCEPT ![target[r]] = "in_progress"]
              /\ last' = [last EXCEPT ![target[r]] = r]
    <3>1. status' \in [Prds -> {"none", "pending", "in_progress", "completed"}]
      BY <2>1, <2>2, ReconcileType
    <3>2. missing' \subseteq {p \in Prds : status'[p] # "none"}
      BY <2>1, <2>2, ReconcileType DEF Reconcile
    <3>3. hash' \in [Prds -> 0 .. MaxEdits] /\ twin' \in [Prds -> {"none", "present", "missing"}]
      BY <2>1, <2>2, ReconcileType DEF Reconcile
    <3>4. pc' \in [Runs -> Stages] /\ UNCHANGED <<tree, checkpoint, lineage, target, seen>>
      BY <1>5 DEF TypeOK, Claim
    <3>5. QED
      BY <2>1, <2>2, <3>1, <3>2, <3>3, <3>4 DEF TypeOK
  <2>3. CASE UNCHANGED rows
    BY <1>5, <2>3 DEF TypeOK, Claim
  <2>4. QED
    BY <1>5, <2>2, <2>3 DEF Claim
<1>6. ASSUME NEW r \in Runs, Implement(r) \/ CloseCheckpoint(r) PROVE TypeOK'
  BY <1>6 DEF TypeOK, Implement, CloseCheckpoint
<1>7. ASSUME NEW r \in Runs, Complete(r) PROVE TypeOK'
  BY <1>7 DEF TypeOK, Complete
<1>8. CASE OperatorDiscovers
  BY <1>8, <1>0 DEF TypeOK, OperatorDiscovers
<1>9. CASE OperatorReconciles
  <2>1. seen[Operator] \in Views
    BY Seen
  <2>2. QED
    BY <1>9, <2>1, ReconcileType DEF TypeOK, OperatorReconciles, Reconcile
<1>10. ASSUME NEW p \in Prds, Recover(p, "pending") \/ Recover(p, "completed") PROVE TypeOK'
  BY <1>10 DEF TypeOK, Recover
<1>11. ASSUME NEW p \in Prds, RecordComplete(p) PROVE TypeOK'
  <2>1. seen[Operator] \in Views
    BY Seen
  <2>2. status' \in [Prds -> {"none", "pending", "in_progress", "completed"}]
    BY <1>11, <2>1, ReconcileType DEF RecordComplete
  <2>3. missing' \subseteq {q \in Prds : status'[q] # "none"}
    BY <1>11, <2>1, ReconcileType DEF RecordComplete, Reconcile
  <2>4. QED
    BY <1>11, <2>1, <2>2, <2>3, ReconcileType DEF TypeOK, RecordComplete, Reconcile
<1>12. ASSUME NEW p \in Prds, ApproveAndComplete(p) PROVE TypeOK'
  BY <1>12 DEF TypeOK, ApproveAndComplete
<1>13. CASE BootstrapApply
  BY <1>13 DEF TypeOK, BootstrapApply
<1>14. CASE BootstrapRollback
  BY <1>14 DEF TypeOK, BootstrapRollback
<1>15. CASE UNCHANGED vars
  BY <1>15 DEF TypeOK, vars
<1>16. QED
  BY <1>1, <1>2, <1>3, <1>4, <1>5, <1>6, <1>7, <1>8, <1>9, <1>10, <1>11, <1>12, <1>13, <1>14,
     <1>15 DEF Next, RunStep, OperatorStep

(* The four parts besides the types. *)
Safe ==
  /\ ClaimIsLatestEvent
  /\ MissingIsArchived
  /\ CompletedStays
  /\ CompletedOnce

(* A step that writes no row and completes no run preserves them. *)
LEMMA RowsUntouched ==
  ASSUME Safe, UNCHANGED <<status, last, missing, twin, target>>,
         \A r \in Runs : pc'[r] = "completed" => pc[r] = "completed"
  PROVE  Safe'
BY DEF Safe, ClaimIsLatestEvent, MissingIsArchived, CompletedStays, CompletedOnce

(* So does a reconciliation, alone. *)
LEMMA ReconcileOnly ==
  ASSUME TypeOK, Safe, NEW view \in Views, Reconcile(view), status' = Statuses(view),
         UNCHANGED <<last, target>>,
         \A r \in Runs : pc'[r] = "completed" => pc[r] = "completed"
  PROVE  Safe'
<1>1. ClaimIsLatestEvent'
  BY ReconcileKeeps, ReconcileType DEF Safe, ClaimIsLatestEvent
<1>3. MissingIsArchived'
  BY ReconcileKeeps DEF MissingIsArchived, Reconcile
<1>4. CompletedStays' /\ CompletedOnce'
  BY ReconcileKeeps DEF Safe, CompletedStays, CompletedOnce, TypeOK
<1>5. QED
  BY <1>1, <1>3, <1>4 DEF Safe

(* claim_run takes a pending row, which no run has completed. *)
LEMMA ClaimSafe ==
  ASSUME TypeOK, Safe, NEW r \in Runs, Claim(r)
  PROVE  Safe'
<1> DEFINE p == target[r]
           view == seen[r]
<1>0. p \in Prds /\ view \in Views
  BY Seen DEF TypeOK, Sessions
<1>1. pc[r] # "completed" /\ \A s \in Runs : pc'[s] = "completed" => pc[s] = "completed" /\ s # r
  BY DEF Claim, Goto, TypeOK
<1>2. CASE UNCHANGED rows
  BY <1>1, <1>2, RowsUntouched DEF Claim, rows
<1>3. CASE /\ Claimable(r, p)
           /\ Admits(view, p)
           /\ Reconcile(view)
           /\ status' = [Statuses(view) EXCEPT ![p] = "in_progress"]
           /\ last' = [last EXCEPT ![p] = r]
  <2>1. status'[p] = "in_progress" /\ \A q \in Prds \ {p} : status'[q] = Statuses(view)[q]
    BY <1>0, <1>3, ReconcileType
  <2>2. last'[p] = r /\ \A q \in Prds \ {p} : last'[q] = last[q]
    BY <1>0, <1>3 DEF TypeOK
  <2>3. status[p] = "pending"
    BY <1>3 DEF Claimable
  <2>4. ClaimIsLatestEvent'
    BY <1>0, <2>1, <2>2, ReconcileKeeps DEF Safe, ClaimIsLatestEvent
  <2>7. MissingIsArchived'
    BY <1>0, <1>3, ReconcileKeeps DEF MissingIsArchived, Reconcile
  <2>8. target' = target
    BY DEF Claim
  <2>9. CompletedStays'
    BY <1>0, <1>1, <2>1, <2>2, <2>3, <2>8, ReconcileKeeps DEF Safe, CompletedStays, TypeOK
  <2>10. CompletedOnce'
    BY <1>1, <2>8 DEF Safe, CompletedOnce
  <2>11. QED
    BY <2>4, <2>7, <2>9, <2>10 DEF Safe
<1>4. QED
  BY <1>2, <1>3 DEF Claim

(* complete_run_with: the run still holds the claim it completes, so no    *)
(* other run has completed that PRD.                                       *)
LEMMA CompleteSafe ==
  ASSUME TypeOK, Safe, NEW r \in Runs, Complete(r)
  PROVE  Safe'
<1> DEFINE p == target[r]
<1>0. p \in Prds /\ pc[r] # "completed" /\ target' = target
  BY DEF TypeOK, Complete
<1>1. CASE ~ CompletionAdmitted(r)
  <2>1. \A s \in Runs : pc'[s] = "completed" => pc[s] = "completed"
    BY <1>1 DEF Complete, Goto, TypeOK
  <2>2. QED
    BY <1>1, <2>1, RowsUntouched DEF Complete
<1>2. CASE CompletionAdmitted(r)
  <2>1. status[p] = "in_progress"
    BY <1>2 DEF CompletionAdmitted
  <2>2. status' = [status EXCEPT ![p] = "completed"] /\ last' = [last EXCEPT ![p] = "other"]
    BY <1>2 DEF Complete
  <2>3. \A s \in Runs : pc'[s] = "completed" => pc[s] = "completed" \/ s = r
    BY DEF Complete, Goto, TypeOK
  <2>4. UNCHANGED <<missing, twin>>
    BY DEF Complete
  <2>5. ClaimIsLatestEvent'
    BY <1>0, <2>2, BacklogAssumption DEF Safe, ClaimIsLatestEvent, TypeOK
  <2>7. MissingIsArchived'
    BY <2>4 DEF Safe, MissingIsArchived
  <2>8. CompletedStays'
    BY <1>0, <2>2, <2>3 DEF Safe, CompletedStays, TypeOK
  <2>9. CompletedOnce'
    BY <1>0, <2>1, <2>3 DEF Safe, CompletedOnce, CompletedStays
  <2>10. QED
    BY <2>5, <2>7, <2>8, <2>9 DEF Safe
<1>3. QED
  BY <1>1, <1>2

(* A human command that moves one row out of pending or in_progress, and   *)
(* records it as the latest event, preserves them.                         *)
LEMMA HumanSafe ==
  ASSUME TypeOK, Safe, NEW p \in Prds, NEW next \in {"pending", "completed"},
         status[p] \in {"pending", "in_progress"},
         status' = [status EXCEPT ![p] = next], last' = [last EXCEPT ![p] = "other"],
         UNCHANGED <<missing, twin, pc, target>>
  PROVE  Safe'
<1>1. ClaimIsLatestEvent'
  BY BacklogAssumption DEF Safe, ClaimIsLatestEvent, TypeOK
<1>3. MissingIsArchived' /\ CompletedOnce'
  BY DEF Safe, MissingIsArchived, CompletedOnce
<1>4. CompletedStays'
  BY DEF Safe, CompletedStays, TypeOK
<1>5. QED
  BY <1>1, <1>3, <1>4 DEF Safe

(* record_complete reconciles in the same transaction. *)
LEMMA RecordCompleteSafe ==
  ASSUME TypeOK, Safe, NEW p \in Prds, RecordComplete(p)
  PROVE  Safe'
<1> DEFINE view == seen[Operator]
<1>0. view \in Views
  BY Seen DEF Sessions
<1>1. status[p] = "pending" /\ Reconcile(view) /\ UNCHANGED <<pc, target>>
  BY DEF RecordComplete
<1>2. status'[p] = "completed" /\ \A q \in Prds \ {p} : status'[q] = Statuses(view)[q]
  BY <1>0, ReconcileType DEF RecordComplete
<1>3. last'[p] = "other" /\ \A q \in Prds \ {p} : last'[q] = last[q]
  BY DEF RecordComplete, TypeOK
<1>4. ClaimIsLatestEvent'
  BY <1>0, <1>2, <1>3, ReconcileKeeps, BacklogAssumption DEF Safe, ClaimIsLatestEvent
<1>7. MissingIsArchived'
  BY <1>0, <1>1, ReconcileKeeps DEF MissingIsArchived, Reconcile
<1>8. CompletedStays'
  BY <1>0, <1>1, <1>2, <1>3, ReconcileKeeps DEF Safe, CompletedStays, TypeOK
<1>9. CompletedOnce'
  BY <1>1 DEF Safe, CompletedOnce
<1>10. QED
  BY <1>4, <1>7, <1>8, <1>9 DEF Safe

(* bootstrap apply completes pending rows only. *)
LEMMA ApplySafe ==
  ASSUME TypeOK, Safe, BootstrapApply
  PROVE  Safe'
<1>1. \A p \in Manifest : p \in Prds /\ status[p] = "pending"
  BY BacklogAssumption DEF BootstrapApply
<1>2. /\ \A p \in Prds : status'[p] = IF p \in Manifest THEN "completed" ELSE status[p]
      /\ \A p \in Prds : last'[p] = IF p \in Manifest THEN "bootstrap" ELSE last[p]
      /\ UNCHANGED <<missing, twin, pc, target>>
  BY DEF BootstrapApply
<1>3. ClaimIsLatestEvent'
  BY <1>1, <1>2, BacklogAssumption DEF Safe, ClaimIsLatestEvent
<1>5. MissingIsArchived' /\ CompletedOnce'
  BY <1>2 DEF Safe, MissingIsArchived, CompletedOnce
<1>6. CompletedStays'
  BY <1>1, <1>2 DEF Safe, CompletedStays, TypeOK
<1>7. QED
  BY <1>3, <1>5, <1>6 DEF Safe

(* bootstrap rollback reopens rows that no run completed. *)
LEMMA RollbackSafe ==
  ASSUME TypeOK, Safe, BootstrapRollback
  PROVE  Safe'
<1>1. \A p \in Manifest : p \in Prds /\ status[p] = "completed" /\ last[p] = "bootstrap"
  BY BacklogAssumption DEF BootstrapRollback
<1>2. /\ \A p \in Prds : status'[p] = IF p \in Manifest THEN "pending" ELSE status[p]
      /\ \A p \in Prds : last'[p] = IF p \in Manifest THEN "rollback" ELSE last[p]
      /\ UNCHANGED <<missing, twin, pc, target>>
  BY DEF BootstrapRollback
<1>3. ClaimIsLatestEvent'
  BY <1>1, <1>2, BacklogAssumption DEF Safe, ClaimIsLatestEvent
<1>6. MissingIsArchived' /\ CompletedOnce'
  BY <1>2 DEF Safe, MissingIsArchived, CompletedOnce
<1>7. CompletedStays'
  BY <1>1, <1>2 DEF Safe, CompletedStays, TypeOK
<1>8. QED
  BY <1>3, <1>6, <1>7 DEF Safe

(* Every step of a run, of the operator or of the people who edit and      *)
(* archive the files preserves the safety part of the invariant.           *)
LEMMA SafeStep == TypeOK /\ Safe /\ [Next]_vars => Safe'
<1> SUFFICES ASSUME TypeOK, Safe, [Next]_vars PROVE Safe'
  OBVIOUS
<1>1. ASSUME NEW p \in Prds, Edit(p) \/ Archive(p) PROVE Safe'
  BY <1>1, RowsUntouched DEF Edit, Archive, db, rows
<1>2. ASSUME NEW r \in Runs, Discover(r) \/ Recheck(r) \/ Implement(r) \/ Review(r)
                               \/ Land(r) \/ CloseCheckpoint(r) \/ Die(r)
      PROVE Safe'
  <2>1. UNCHANGED <<status, last, missing, twin, target>>
    BY <1>2 DEF Discover, Recheck, Implement, Review, Land, CloseCheckpoint, Die, db, rows
  <2>2. \A s \in Runs : pc'[s] = "completed" => pc[s] = "completed"
    BY <1>2 DEF Discover, Recheck, Implement, Review, Land, CloseCheckpoint, Die, Goto, TypeOK
  <2>3. QED
    BY <2>1, <2>2, RowsUntouched
<1>3. ASSUME NEW r \in Runs, Admit(r) PROVE Safe'
  <2>1. seen[r] \in Views
    BY Seen DEF Sessions
  <2>2. \A s \in Runs : pc'[s] = "completed" => pc[s] = "completed"
    BY <1>3 DEF Admit, Goto, TypeOK
  <2>3. QED
    BY <1>3, <2>1, <2>2, ReconcileOnly DEF Admit
<1>4. ASSUME NEW r \in Runs, Claim(r) PROVE Safe'
  BY <1>4, ClaimSafe
<1>5. ASSUME NEW r \in Runs, Complete(r) PROVE Safe'
  BY <1>5, CompleteSafe
<1>6. CASE OperatorDiscovers
  BY <1>6, RowsUntouched DEF OperatorDiscovers, db, rows
<1>7. CASE OperatorReconciles
  <2>1. seen[Operator] \in Views
    BY Seen DEF Sessions
  <2>2. QED
    BY <1>7, <2>1, ReconcileOnly DEF OperatorReconciles
<1>8. ASSUME NEW p \in Prds, NEW next \in {"pending", "completed"}, Recover(p, next) PROVE Safe'
  BY <1>8, HumanSafe DEF Recover
<1>9. ASSUME NEW p \in Prds, RecordComplete(p) PROVE Safe'
  BY <1>9, RecordCompleteSafe
<1>10. ASSUME NEW p \in Prds, ApproveAndComplete(p) PROVE Safe'
  BY <1>10, HumanSafe DEF ApproveAndComplete
<1>11. CASE BootstrapApply
  BY <1>11, ApplySafe
<1>12. CASE BootstrapRollback
  BY <1>12, RollbackSafe
<1>13. CASE UNCHANGED vars
  BY <1>13, RowsUntouched DEF vars, db, rows
<1>14. QED
  BY <1>1, <1>2, <1>3, <1>4, <1>5, <1>6, <1>7, <1>8, <1>9, <1>10, <1>11, <1>12, <1>13
  DEF Next, RunStep, OperatorStep

-----------------------------------------------------------------------------
(* The inductive invariant holds in every reachable state. *)
THEOREM Invariance == Spec => []BacklogInv
<1>1. BacklogInv <=> TypeOK /\ Safe
  BY DEF BacklogInv, Safe
<1>2. BacklogInv /\ [Next]_vars => BacklogInv'
  <2>1. ASSUME BacklogInv, [Next]_vars PROVE TypeOK' /\ Safe'
    BY <2>1, <1>1, TypeStep, SafeStep
  <2>2. QED
    BY <2>1 DEF BacklogInv, Safe
<1>3. QED
  BY <1>2, InitInv, PTL DEF Spec

(* The tables, the files and the sessions stay well-typed under every      *)
(* transaction.                                                            *)
THEOREM Typing == Spec => []TypeOK
<1>1. BacklogInv => TypeOK
  BY DEF BacklogInv
<1>2. QED
  BY <1>1, Invariance, PTL

(* The audit log and the status column of repos/backlog.rs agree on who    *)
(* holds a claim.                                                          *)
THEOREM OneClaimOnRecord == Spec => []ClaimIsLatestEvent
<1>1. BacklogInv => ClaimIsLatestEvent
  BY DEF BacklogInv
<1>2. QED
  BY <1>1, Invariance, PTL

(* No PRD is completed by two runs, however many there are. *)
THEOREM OneCompletion == Spec => []CompletedOnce
<1>1. BacklogInv => CompletedOnce
  BY DEF BacklogInv
<1>2. QED
  BY <1>1, Invariance, PTL

(* A run that landed is admitted to completion while its claim stands      *)
(* (FAM-BUG-106).                                                          *)
THEOREM LandingCompletes == Spec => []LandedRunCompletes
<1>1. BacklogInv => LandedRunCompletes
  BY DEF BacklogInv, TypeOK, ClaimIsLatestEvent, MissingIsArchived, LandedRunCompletes,
         CompletionAdmitted
<1>2. QED
  BY <1>1, Invariance, PTL

(* What a row has reached is lost by the rollback of a bootstrap only, and *)
(* an archived row by nothing at all.                                      *)
LEMMA DoneKept ==
  ASSUME TypeOK, [Next]_vars, NEW d \in Prds
  PROVE  /\ status[d] = "completed" => status'[d] = "completed" \/ (BootstrapRollback /\ d \in Manifest)
         /\ twin[d] # "none" => twin'[d] # "none"
<1> DEFINE Kept ==
      /\ status[d] = "completed" => status'[d] = "completed" \/ (BootstrapRollback /\ d \in Manifest)
      /\ twin[d] # "none" => twin'[d] # "none"
<1>1. ASSUME NEW view \in Views, status' = Statuses(view), twin' = Twins(view) PROVE Kept
  BY <1>1, ReconcileKeeps
<1>2. ASSUME UNCHANGED <<status, twin>> PROVE Kept
  BY <1>2
<1>3. ASSUME NEW r \in Runs, Claim(r) PROVE Kept
  <2>1. seen[r] \in Views /\ target[r] \in Prds
    BY Seen DEF Sessions, TypeOK
  <2>2. CASE UNCHANGED rows
    BY <2>2, <1>2 DEF rows
  <2>3. CASE Claimable(r, target[r])
             /\ status' = [Statuses(seen[r]) EXCEPT ![target[r]] = "in_progress"]
             /\ twin' = Twins(seen[r])
    BY <2>1, <2>3, ReconcileKeeps, ReconcileType DEF Claimable
  <2>4. QED
    BY <1>3, <2>2, <2>3 DEF Claim, Reconcile
<1>4. ASSUME NEW r \in Runs, Complete(r) PROVE Kept
  BY <1>4 DEF Complete, TypeOK
<1>5. ASSUME NEW p \in Prds, NEW next \in {"pending", "completed"}, Recover(p, next)
      PROVE Kept
  BY <1>5 DEF Recover, TypeOK
<1>6. ASSUME NEW p \in Prds, RecordComplete(p) PROVE Kept
  <2>1. seen[Operator] \in Views
    BY Seen DEF Sessions
  <2>2. QED
    BY <1>6, <2>1, ReconcileKeeps, ReconcileType DEF RecordComplete, Reconcile, TypeOK
<1>7. ASSUME NEW p \in Prds, ApproveAndComplete(p) PROVE Kept
  BY <1>7 DEF ApproveAndComplete, TypeOK
<1>8. CASE BootstrapApply
  BY <1>8 DEF BootstrapApply
<1>9. CASE BootstrapRollback
  BY <1>9 DEF BootstrapRollback
<1>10. ASSUME NEW r \in Runs, Admit(r) PROVE Kept
  <2>1. seen[r] \in Views
    BY Seen DEF Sessions
  <2>2. QED
    BY <1>10, <2>1, <1>1 DEF Admit, Reconcile
<1>11. CASE OperatorReconciles
  <2>1. seen[Operator] \in Views
    BY Seen DEF Sessions
  <2>2. QED
    BY <1>11, <2>1, <1>1 DEF OperatorReconciles, Reconcile
<1>12. ASSUME NEW r \in Runs, Discover(r) \/ Recheck(r) \/ Implement(r) \/ Review(r)
                               \/ Land(r) \/ CloseCheckpoint(r) \/ Die(r)
       PROVE Kept
  BY <1>12, <1>2 DEF Discover, Recheck, Implement, Review, Land, CloseCheckpoint, Die, db, rows
<1>13. ASSUME NEW p \in Prds, Edit(p) \/ Archive(p) PROVE Kept
  BY <1>13, <1>2 DEF Edit, Archive, db, rows
<1>14. CASE OperatorDiscovers
  BY <1>14, <1>2 DEF OperatorDiscovers, db, rows
<1>15. CASE UNCHANGED vars
  BY <1>15, <1>2 DEF vars, db, rows
<1>16. QED
  BY <1>3, <1>4, <1>5, <1>6, <1>7, <1>8, <1>9, <1>10, <1>11, <1>12, <1>13, <1>14, <1>15
  DEF Next, RunStep, OperatorStep

(* A run comes by a claim in claim_run only. *)
LEMMA ClaimedByClaim ==
  ASSUME TypeOK, [Next]_vars, NEW r \in Runs, NEW p \in Prds, Holds(r, p)'
  PROVE  \/ Holds(r, p)
         \/ /\ Claim(r)
            /\ Claimable(r, p) /\ Admits(seen[r], p) /\ Reconcile(seen[r])
            /\ status' = [Statuses(seen[r]) EXCEPT ![p] = "in_progress"]
<1> DEFINE Had == Holds(r, p)
<1> USE DEF Holds
<1>1. ASSUME NEW view \in Views, status' = Statuses(view), UNCHANGED last PROVE Had
  BY <1>1, ReconcileKeeps
<1>2. ASSUME UNCHANGED <<status, last>> PROVE Had
  BY <1>2
<1>3. ASSUME NEW s \in Runs, Claim(s) PROVE Had \/ (s = r /\ target[r] = p /\ ~ UNCHANGED rows)
  <2>1. seen[s] \in Views /\ target[s] \in Prds
    BY Seen DEF Sessions, TypeOK
  <2>2. CASE UNCHANGED rows
    BY <1>2, <2>2 DEF rows
  <2>3. CASE /\ ~ UNCHANGED rows
             /\ status' = [Statuses(seen[s]) EXCEPT ![target[s]] = "in_progress"]
             /\ last' = [last EXCEPT ![target[s]] = s]
    <3>1. CASE target[s] = p
      BY <2>1, <2>3, <3>1 DEF TypeOK
    <3>2. CASE target[s] # p
      BY <2>1, <2>3, <3>2, ReconcileKeeps, ReconcileType DEF TypeOK
    <3>3. QED
      BY <3>1, <3>2
  <2>4. QED
    BY <1>3, <2>2, <2>3 DEF Claim
<1>4. ASSUME Claim(r), target[r] = p, ~ UNCHANGED rows
      PROVE  /\ Claimable(r, p) /\ Admits(seen[r], p) /\ Reconcile(seen[r])
             /\ status' = [Statuses(seen[r]) EXCEPT ![p] = "in_progress"]
  BY <1>4 DEF Claim
<1>5. ASSUME NEW s \in Runs, Complete(s) PROVE Had
  BY <1>5, BacklogAssumption DEF Complete, TypeOK
<1>6. ASSUME NEW q \in Prds, NEW next \in {"pending", "completed"}, Recover(q, next) PROVE Had
  BY <1>6 DEF Recover, TypeOK
<1>7. ASSUME NEW q \in Prds, RecordComplete(q) PROVE Had
  <2>1. seen[Operator] \in Views
    BY Seen DEF Sessions
  <2>2. QED
    BY <1>7, <2>1, ReconcileKeeps, ReconcileType DEF RecordComplete, TypeOK
<1>8. ASSUME NEW q \in Prds, ApproveAndComplete(q) PROVE Had
  BY <1>8 DEF ApproveAndComplete, TypeOK
<1>9. CASE BootstrapApply
  BY <1>9 DEF BootstrapApply
<1>10. CASE BootstrapRollback
  BY <1>10 DEF BootstrapRollback
<1>11. ASSUME NEW s \in Runs, Admit(s) PROVE Had
  <2>1. seen[s] \in Views
    BY Seen DEF Sessions
  <2>2. QED
    BY <1>1, <1>11, <2>1 DEF Admit
<1>12. CASE OperatorReconciles
  <2>1. seen[Operator] \in Views
    BY Seen DEF Sessions
  <2>2. QED
    BY <1>1, <1>12, <2>1 DEF OperatorReconciles
<1>13. ASSUME NEW s \in Runs, Discover(s) \/ Recheck(s) \/ Implement(s) \/ Review(s)
                                \/ Land(s) \/ CloseCheckpoint(s) \/ Die(s)
       PROVE Had
  BY <1>2, <1>13 DEF Discover, Recheck, Implement, Review, Land, CloseCheckpoint, Die, db, rows
<1>14. ASSUME NEW q \in Prds, Edit(q) \/ Archive(q) PROVE Had
  BY <1>2, <1>14 DEF Edit, Archive, db, rows
<1>15. CASE OperatorDiscovers \/ UNCHANGED vars
  BY <1>2, <1>15 DEF OperatorDiscovers, vars, db, rows
<1>16. QED
  BY <1>3, <1>4, <1>5, <1>6, <1>7, <1>8, <1>9, <1>10, <1>11, <1>12, <1>13, <1>14, <1>15
  DEF Next, RunStep, OperatorStep

(* Only the rollback of a bootstrap reopens a completed PRD. *)
THEOREM ReopenedByRollbackOnly == Spec => CompletionOnlyRolledBack
<1>1. BacklogInv /\ [Next]_vars =>
        [\A p \in Prds : status[p] = "completed" /\ status'[p] # "completed" =>
           /\ last[p] = "bootstrap"
           /\ last'[p] = "rollback"]_vars
  <2> SUFFICES ASSUME TypeOK, [Next]_vars, NEW p \in Prds,
                      status[p] = "completed", status'[p] # "completed"
               PROVE  last[p] = "bootstrap" /\ last'[p] = "rollback"
    BY DEF BacklogInv
  <2>1. BootstrapRollback /\ p \in Manifest
    BY DoneKept
  <2>2. QED
    BY <2>1 DEF BootstrapRollback
<1>2. QED
  BY <1>1, Invariance, PTL DEF Spec, CompletionOnlyRolledBack

(* A claimed PRD's dependencies are completed when it is claimed and as    *)
(* long as it is claimed, whatever its texts declare: claim_run judges     *)
(* them in its own transaction, and a rollback is blocked by the claim     *)
(* unless it was judged on another text.                                   *)
THEOREM DependenciesFirst == Spec => DependenciesKept
<1> DEFINE Steps ==
      \A r \in Runs, p \in Prds : Holds(r, p)' =>
        \A d \in DependsOn(seen[r], p) :
          \/ Done(d)'
          \/ Holds(r, p) /\ (~ Done(d) \/ RolledBackOverAnEdit(r, p, d))
<1>1. BacklogInv /\ [Next]_vars => Steps
  <2> SUFFICES ASSUME TypeOK, [Next]_vars, NEW r \in Runs, NEW p \in Prds, Holds(r, p)',
                      NEW d \in DependsOn(seen[r], p), ~ Done(d)'
               PROVE  Holds(r, p) /\ (~ Done(d) \/ RolledBackOverAnEdit(r, p, d))
    BY DEF BacklogInv
  <2>0. seen[r] \in Views /\ seen[Operator] \in Views
    BY Seen DEF Sessions
  <2>1. d \in Prds
    BY <2>0, DepsAssumption DEF DependsOn, SeenText, Views
  <2>2. Holds(r, p)
    <3>1. SUFFICES ASSUME Claimable(r, p), Admits(seen[r], p), Reconcile(seen[r]),
                          status' = [Statuses(seen[r]) EXCEPT ![p] = "in_progress"]
                   PROVE  FALSE
      BY ClaimedByClaim
    <3>2. ~ SeenActive(seen[r], d) \/ status[d] = "completed"
      BY <3>1 DEF Admits, DependenciesCompleted, EntryCompleted
    <3>3. CASE ~ SeenActive(seen[r], d)
      <4>1. Twins(seen[r])[d] = "present"
        BY <2>0, <2>1, <3>3, ReconcileKeeps
      <4>2. twin'[d] = "present"
        BY <3>1, <4>1 DEF Reconcile
      <4>3. QED
        BY <4>2 DEF Done
    <3>4. CASE status[d] = "completed"
      BY <2>0, <2>1, <3>1, <3>4, ReconcileKeeps, ReconcileType DEF Claimable, Done
    <3>5. QED
      BY <3>2, <3>3, <3>4
  <2>3. ASSUME Done(d) PROVE RolledBackOverAnEdit(r, p, d)
    <3>1. BootstrapRollback /\ d \in Manifest
      BY <2>1, <2>3, DoneKept DEF Done
    <3>2. p \notin Manifest /\ status[p] = "in_progress"
      BY <2>2, <3>1 DEF Holds, BootstrapRollback
    <3>3. ~ DependsOnManifest(seen[Operator], p)
      BY <3>1, <3>2 DEF BootstrapRollback, RollbackBlocked
    <3>4. d \notin DependsOn(seen[Operator], p)
      BY <2>0, <3>1, <3>3, DirectDependent
    <3>5. SeenText(seen[Operator], p) # SeenText(seen[r], p)
      BY <3>4 DEF DependsOn
    <3>6. QED
      BY <2>1, <3>1, <3>5 DEF RolledBackOverAnEdit, BootstrapRollback
  <2>4. QED
    BY <2>2, <2>3
<1>2. BacklogInv /\ [Next]_vars => [Steps]_vars
  BY <1>1
<1>3. QED
  BY <1>2, Invariance, PTL DEF Spec, DependenciesKept

-----------------------------------------------------------------------------
(* Why a closed checkpoint belongs to a completed PRD: whoever closed it   *)
(* completed the row otherwise than by a bootstrap, and that is never      *)
(* undone.                                                                 *)
ClosedWithRow ==
  \A p \in Prds : checkpoint[p] = "completed" => status[p] = "completed" /\ last[p] = "other"

(* No transaction of repos/backlog.rs or repos/bootstrap.rs touches a row  *)
(* that was completed otherwise than by a bootstrap.                       *)
LEMMA RowKept ==
  ASSUME TypeOK, [Next]_vars, NEW q \in Prds, status[q] = "completed", last[q] = "other"
  PROVE  status'[q] = "completed" /\ last'[q] = "other"
<1> DEFINE Kept == status'[q] = "completed" /\ last'[q] = "other"
<1>1. ASSUME NEW view \in Views, status' = Statuses(view), UNCHANGED last PROVE Kept
  BY <1>1, ReconcileKeeps
<1>2. ASSUME UNCHANGED <<status, last>> PROVE Kept
  BY <1>2
<1>3. ASSUME NEW r \in Runs, Claim(r) PROVE Kept
  <2>1. seen[r] \in Views /\ target[r] \in Prds
    BY Seen DEF Sessions, TypeOK
  <2>2. CASE UNCHANGED rows
    BY <2>2, <1>2 DEF rows
  <2>3. CASE /\ Claimable(r, target[r])
             /\ status' = [Statuses(seen[r]) EXCEPT ![target[r]] = "in_progress"]
             /\ last' = [last EXCEPT ![target[r]] = r]
    <3>1. target[r] # q
      BY <2>3 DEF Claimable
    <3>2. QED
      BY <2>1, <2>3, <3>1, ReconcileKeeps, ReconcileType DEF TypeOK
  <2>4. QED
    BY <1>3, <2>2, <2>3 DEF Claim
<1>4. ASSUME NEW r \in Runs, Complete(r) PROVE Kept
  BY <1>4 DEF Complete, TypeOK
<1>5. ASSUME NEW p \in Prds, NEW next \in {"pending", "completed"}, Recover(p, next) PROVE Kept
  BY <1>5 DEF Recover, TypeOK
<1>6. ASSUME NEW p \in Prds, RecordComplete(p) PROVE Kept
  <2>1. seen[Operator] \in Views
    BY Seen DEF Sessions
  <2>2. p # q
    BY <1>6 DEF RecordComplete
  <2>3. QED
    BY <1>6, <2>1, <2>2, ReconcileKeeps, ReconcileType DEF RecordComplete, TypeOK
<1>7. ASSUME NEW p \in Prds, ApproveAndComplete(p) PROVE Kept
  BY <1>7 DEF ApproveAndComplete, TypeOK
<1>8. CASE BootstrapApply
  BY <1>8 DEF BootstrapApply
<1>9. CASE BootstrapRollback
  BY <1>9 DEF BootstrapRollback
<1>10. ASSUME NEW r \in Runs, Admit(r) PROVE Kept
  <2>1. seen[r] \in Views
    BY Seen DEF Sessions
  <2>2. QED
    BY <1>1, <1>10, <2>1 DEF Admit
<1>11. CASE OperatorReconciles
  <2>1. seen[Operator] \in Views
    BY Seen DEF Sessions
  <2>2. QED
    BY <1>1, <1>11, <2>1 DEF OperatorReconciles
<1>12. ASSUME NEW r \in Runs, Discover(r) \/ Recheck(r) \/ Implement(r) \/ Review(r)
                                \/ Land(r) \/ CloseCheckpoint(r) \/ Die(r)
       PROVE Kept
  BY <1>2, <1>12 DEF Discover, Recheck, Implement, Review, Land, CloseCheckpoint, Die, db, rows
<1>13. ASSUME NEW p \in Prds, Edit(p) \/ Archive(p) PROVE Kept
  BY <1>2, <1>13 DEF Edit, Archive, db, rows
<1>14. CASE OperatorDiscovers
  BY <1>2, <1>14 DEF OperatorDiscovers, db, rows
<1>15. CASE UNCHANGED vars
  BY <1>2, <1>15 DEF vars, db, rows
<1>16. QED
  BY <1>3, <1>4, <1>5, <1>6, <1>7, <1>8, <1>9, <1>10, <1>11, <1>12, <1>13, <1>14, <1>15
  DEF Next, RunStep, OperatorStep

(* The transactions that close a checkpoint: each completes the row too,   *)
(* or is a step of the run that completed it.                              *)
LEMMA ClosedByCompletion ==
  ASSUME BacklogInv, [Next]_vars, NEW q \in Prds, checkpoint'[q] = "completed"
  PROVE  checkpoint[q] = "completed" \/ (status'[q] = "completed" /\ last'[q] = "other")
<1> DEFINE Closed == checkpoint[q] = "completed" \/ (status'[q] = "completed" /\ last'[q] = "other")
<1>0. TypeOK
  BY DEF BacklogInv
<1>1. ASSUME UNCHANGED checkpoint PROVE Closed
  BY <1>1
<1>2. ASSUME NEW r \in Runs, Implement(r) PROVE Closed
  BY <1>0, <1>2 DEF Implement, TypeOK
<1>3. ASSUME NEW r \in Runs, Complete(r) PROVE Closed
  <2>1. CASE UNCHANGED checkpoint
    BY <1>1, <2>1
  <2>2. CASE /\ checkpoint' = [checkpoint EXCEPT ![target[r]] = "completed"]
             /\ status' = [status EXCEPT ![target[r]] = "completed"]
             /\ last' = [last EXCEPT ![target[r]] = "other"]
    BY <1>0, <2>2 DEF TypeOK
  <2>3. QED
    BY <1>3, <2>1, <2>2 DEF Complete
<1>4. ASSUME NEW r \in Runs, CloseCheckpoint(r) PROVE Closed
  <2>1. status[target[r]] = "completed" /\ last[target[r]] = "other"
    BY <1>4 DEF CloseCheckpoint, BacklogInv, CompletedStays
  <2>2. UNCHANGED <<status, last>>
    BY <1>4 DEF CloseCheckpoint, rows
  <2>3. checkpoint[q] = "completed" \/ q = target[r]
    BY <1>0, <1>4 DEF CloseCheckpoint, TypeOK
  <2>4. QED
    BY <2>1, <2>2, <2>3
<1>5. ASSUME NEW p \in Prds, ApproveAndComplete(p) PROVE Closed
  BY <1>0, <1>5 DEF ApproveAndComplete, TypeOK
<1>6. ASSUME NEW r \in Runs, Discover(r) \/ Admit(r) \/ Recheck(r) \/ Claim(r) \/ Review(r)
                               \/ Land(r) \/ Die(r)
      PROVE Closed
  BY <1>1, <1>6 DEF Discover, Admit, Recheck, Claim, Review, Land, Die, db
<1>7. ASSUME NEW p \in Prds, \/ Edit(p) \/ Archive(p) \/ Recover(p, "pending")
                             \/ Recover(p, "completed") \/ RecordComplete(p)
      PROVE Closed
  BY <1>1, <1>7 DEF Edit, Archive, Recover, RecordComplete, db
<1>8. CASE OperatorDiscovers \/ OperatorReconciles \/ BootstrapApply \/ BootstrapRollback
           \/ UNCHANGED vars
  BY <1>1, <1>8 DEF OperatorDiscovers, OperatorReconciles, BootstrapApply, BootstrapRollback,
                    db, vars
<1>9. QED
  BY <1>2, <1>3, <1>4, <1>5, <1>6, <1>7, <1>8 DEF Next, RunStep, OperatorStep

(* A closed checkpoint belongs to a completed PRD, in whichever order      *)
(* run.rs, resume.rs, drive.rs and the human commands close the two.       *)
THEOREM CheckpointsFollowRows == Spec => []ClosedCheckpointIsCompleted
<1>1. Init => ClosedWithRow
  BY DEF Init, ClosedWithRow
<1>2. BacklogInv /\ ClosedWithRow /\ [Next]_vars => ClosedWithRow'
  <2> SUFFICES ASSUME BacklogInv, ClosedWithRow, [Next]_vars,
                      NEW q \in Prds, checkpoint'[q] = "completed"
               PROVE  status'[q] = "completed" /\ last'[q] = "other"
    BY DEF ClosedWithRow
  <2>1. checkpoint[q] = "completed" \/ (status'[q] = "completed" /\ last'[q] = "other")
    BY ClosedByCompletion
  <2>2. CASE checkpoint[q] = "completed"
    BY <2>2, RowKept DEF ClosedWithRow, BacklogInv
  <2>3. QED
    BY <2>1, <2>2
<1>3. ClosedWithRow => ClosedCheckpointIsCompleted
  BY DEF ClosedWithRow, ClosedCheckpointIsCompleted
<1>4. QED
  BY <1>1, <1>2, <1>3, Invariance, PTL DEF Spec
=============================================================================
