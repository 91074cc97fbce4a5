------------------------- MODULE ControlPlaneProofs -------------------------
(***************************************************************************)
(* Proofs about the execution queue and its supervision for any number of  *)
(* executions and projects, any ceilings and any number of upsets: the     *)
(* slot ledger agrees with the executions, completion means success, a     *)
(* bound survivor is never replaced, an outcome is final, and the whole    *)
(* implements the durable queue of ExecutionQueue.tla.                     *)
(***************************************************************************)
EXTENDS ControlPlane, FiniteSetTheorems, TLAPS

(* An execution is claimed once, and once more for every upset: what is    *)
(* claimable, or was left running by a dead daemon, by one whose drain has *)
(* run out or by a supervisor whose outcome the database refused, has used *)
(* up at most one attempt per upset; what ran was claimed.                 *)
AttemptsPerUpset ==
  /\ \A w \in lost : w[2] <= upsets
  /\ \A e \in Executions :
       /\ attempt[e] <= upsets + 1
       /\ state[e] \in {"running", "ambiguous_live_orphan", "completed"} => attempt[e] # 0
       /\ \/ state[e] \in {"none", "queued"}
          \/ state[e] = "running" /\ daemon \in {"down", "starting", "expired"}
          => attempt[e] <= upsets

(* A daemon that is up has a supervisor for every running execution but    *)
(* those whose outcome the database refused, and one that is not has no    *)
(* task at all.  A supervised execution runs, or was cancelled under its   *)
(* supervisor.                                                             *)
Supervised ==
  /\ daemon \in {"down", "starting"} =>
       \A e \in Executions : task[e] = "none" /\ cancel[e] = NoCancel
  /\ \A e \in Executions :
       /\ state[e] = "running" /\ daemon \notin {"down", "starting"} =>
            task[e] # "none" \/ Current(e) \in lost
       /\ task[e] # "none" =>
            /\ attempt[e] # 0
            /\ state[e] \in {"running", "cancelled", "foreground_ended"}

(* The worker of a stage of the supervisor. *)
StagesAgree ==
  \A e \in Executions :
    /\ task[e] = "claimed" => proc[Current(e)] = "none"
    /\ task[e] \in {"claimed", "spawned"} => row[Current(e)] = "none"
    /\ task[e] = "spawned" => proc[Current(e)] = "gated"

(* Rows and processes exist for attempts that were made; the row of the    *)
(* current attempt is the one the execution is bound to, and it is open as *)
(* long as the execution runs.                                             *)
RowsAgree ==
  \A e \in Executions :
    /\ \A a \in Attempts : a > attempt[e] => row[<<e, a>>] = "none" /\ proc[<<e, a>>] = "none"
    /\ bound[e] # 0 => row[<<e, bound[e]>>] # "none"
    /\ attempt[e] # 0 /\ row[<<e, attempt[e]>>] # "none" => bound[e] = attempt[e]
    /\ state[e] = "running" /\ attempt[e] # 0 =>
         row[<<e, attempt[e]>>] \in {"none", "running"}

(* A worker with a row that is alive belongs to the current attempt, of an *)
(* execution that is not waiting to be claimed; and the list of survivors  *)
(* a starting daemon works from misses none of them.                       *)
LiveRows ==
  /\ \A e \in Executions, a \in Attempts :
       row[<<e, a>>] # "none" /\ Live(<<e, a>>) =>
         a = attempt[e] /\ state[e] \notin {"none", "queued"}
  /\ daemon = "starting" =>
       \A w \in Workers : row[w] = "running" /\ Live(w) => w \in survivors

ControlInv ==
  /\ TypeOK /\ AttemptsPerUpset /\ Supervised /\ StagesAgree /\ RowsAgree /\ LiveRows
  /\ SlotLedger /\ CompletedMeansSucceeded

-----------------------------------------------------------------------------
(* As many workers as executions: a worker is named after its execution.   *)
LEMMA CountCurrent ==
  ASSUME TypeOK, NEW M \in SUBSET Executions
  PROVE  /\ IsFiniteSet(M)
         /\ Cardinality({Current(e) : e \in M}) = Cardinality(M)
         /\ Cardinality(M) \in Nat
<1> DEFINE f == [e \in M |-> Current(e)]
<1>1. IsFiniteSet(M) /\ Cardinality(M) \in Nat
  BY CeilingAssumption, FS_Subset, FS_CardinalityType
<1>2. f \in Bijection(M, {Current(e) : e \in M})
  BY DEF Bijection, Injection, IsInjective, Surjection, Current
<1>3. ExistsBijection(M, {Current(e) : e \in M})
  BY <1>2 DEF ExistsBijection
<1> QED
  BY <1>1, <1>3, FS_Bijection

(* Some of the executions leave: so many fewer stay. *)
LEMMA CountStaying ==
  ASSUME NEW M \in SUBSET Executions, NEW L
  PROVE  /\ Cardinality(M \ L) = Cardinality(M) - Cardinality(M \cap L)
         /\ Cardinality(M) \in Nat /\ Cardinality(M \cap L) \in Nat
         /\ Cardinality(M \ L) \in Nat
  BY CeilingAssumption, FS_Subset, FS_CardinalityType, FS_Difference, FS_Intersection

(* One execution that was not among them joins. *)
LEMMA CountJoining ==
  ASSUME NEW M \in SUBSET Executions, NEW e \in Executions, e \notin M
  PROVE  /\ Cardinality(M \cup {e}) = Cardinality(M) + 1
         /\ Cardinality(M) \in Nat
  BY CeilingAssumption, FS_Subset, FS_CardinalityType, FS_AddElement

(* release_control_plane_reservation returns exactly the slots of the      *)
(* executions that leave, and never meets the pool's capacity.             *)
LEMMA ReleaseLedger ==
  ASSUME TypeOK, SlotLedger, NEW L \in SUBSET Executions, Release(L), UNCHANGED attempt,
         Occupied' = Occupied \ L
  PROVE  /\ SlotLedger'
         /\ held' \subseteq Workers
         /\ free' \in [Projects \cup {"global"} -> Nat]
<1>1. HeldBy(L) = {Current(e) : e \in Occupied \cap L}
  BY DEF HeldBy, SlotLedger, Current
<1>2. held' = {Current(e)' : e \in Occupied'}
  BY <1>1 DEF Release, SlotLedger, Current
<1>3. /\ Returned("global", L) = GlobalCeiling - Cardinality(Occupied \ L)
      /\ Returned("global", L) \in Nat
  <2> DEFINE slots == {w \in HeldBy(L) : "global" = "global" \/ ProjectOf[w[1]] = "global"}
  <2>1. slots = {Current(e) : e \in Occupied \cap L}
    BY <1>1
  <2>2. Occupied \in SUBSET Executions /\ Occupied \cap L \in SUBSET Executions
    BY DEF Occupied
  <2>3. Cardinality({Current(e) : e \in Occupied \cap L}) = Cardinality(Occupied \cap L)
    BY <2>2, CountCurrent
  <2>4. /\ Cardinality(Occupied \ L) = Cardinality(Occupied) - Cardinality(Occupied \cap L)
        /\ Cardinality(Occupied) \in Nat /\ Cardinality(Occupied \cap L) \in Nat
        /\ Cardinality(Occupied \ L) \in Nat
    BY <2>2, CountStaying
  <2>5. free["global"] = GlobalCeiling - Cardinality(Occupied) /\ free["global"] \in Nat
    BY DEF SlotLedger, TypeOK
  <2>6. Cardinality(slots) = Cardinality(Occupied \cap L)
    BY <2>1, <2>3, Zenon
  <2>7. Returned("global", L) =
          IF free["global"] + Cardinality(slots) > GlobalCeiling
            THEN GlobalCeiling ELSE free["global"] + Cardinality(slots)
    BY DEF Returned
  <2> HIDE DEF slots
  <2> QED
    BY <2>4, <2>5, <2>6, <2>7, CeilingAssumption
<1>4. ASSUME NEW p \in Projects
      PROVE  /\ Returned(p, L) = Ceiling[p] - Cardinality(OccupiedBy(p) \ L)
             /\ Returned(p, L) \in Nat
  <2>1. p # "global"
    BY CeilingAssumption
  <2> DEFINE slots == {w \in HeldBy(L) : p = "global" \/ ProjectOf[w[1]] = p}
  <2>2. slots = {Current(e) : e \in OccupiedBy(p) \cap L}
    BY <1>1, <2>1 DEF OccupiedBy, Current
  <2>3. OccupiedBy(p) \in SUBSET Executions /\ OccupiedBy(p) \cap L \in SUBSET Executions
    BY DEF Occupied, OccupiedBy
  <2>4. Cardinality({Current(e) : e \in OccupiedBy(p) \cap L}) =
          Cardinality(OccupiedBy(p) \cap L)
    BY <2>3, CountCurrent
  <2>5. /\ Cardinality(OccupiedBy(p) \ L) =
             Cardinality(OccupiedBy(p)) - Cardinality(OccupiedBy(p) \cap L)
        /\ Cardinality(OccupiedBy(p)) \in Nat /\ Cardinality(OccupiedBy(p) \cap L) \in Nat
        /\ Cardinality(OccupiedBy(p) \ L) \in Nat
    BY <2>3, CountStaying
  <2>6. free[p] = Ceiling[p] - Cardinality(OccupiedBy(p)) /\ free[p] \in Nat
    BY DEF SlotLedger, TypeOK
  <2>7. Ceiling[p] \in Nat
    BY CeilingAssumption
  <2>8. Cardinality(slots) = Cardinality(OccupiedBy(p) \cap L)
    BY <2>2, <2>4, Zenon
  <2>9. Returned(p, L) =
          IF free[p] + Cardinality(slots) > Ceiling[p]
            THEN Ceiling[p] ELSE free[p] + Cardinality(slots)
    BY <2>1 DEF Returned
  <2> HIDE DEF slots
  <2> QED
    BY <2>5, <2>6, <2>7, <2>8, <2>9
<1>5. DOMAIN free = Projects \cup {"global"}
  BY DEF TypeOK
<1>6. free' \in [Projects \cup {"global"} -> Nat]
  BY <1>3, <1>4, <1>5 DEF Release
<1>7. free'["global"] = GlobalCeiling - Cardinality(Occupied')
  BY <1>3, <1>5 DEF Release
<1>8. ASSUME NEW p \in Projects
      PROVE  free'[p] = Ceiling[p] - Cardinality(OccupiedBy(p)')
  <2>1. OccupiedBy(p)' = OccupiedBy(p) \ L
    BY DEF OccupiedBy
  <2> QED
    BY <1>4, <1>5, <2>1 DEF Release
<1>9. held' \subseteq Workers
  BY DEF Release, HeldBy, TypeOK
<1> QED
  BY <1>2, <1>6, <1>7, <1>8, <1>9 DEF SlotLedger

(* finish, as the other parts of the invariant see it: the outcome is      *)
(* recorded for a running or queued execution and nothing else changes.    *)
LEMMA FinishEffect ==
  ASSUME TypeOK, NEW e \in Executions, NEW outcome \in Terminal, Finish(e, outcome)
  PROVE  /\ state' \in [Executions -> States]
         /\ \A x \in Executions : x # e => state'[x] = state[x]
         /\ state'[e] = IF state[e] \in {"running", "queued"} THEN outcome ELSE state[e]
  BY DEF Finish, TypeOK, States

(* finish leaves the ledger balanced. *)
LEMMA FinishLedger ==
  ASSUME TypeOK, SlotLedger, NEW e \in Executions, NEW outcome \in Terminal,
         Finish(e, outcome), UNCHANGED attempt
  PROVE  /\ SlotLedger'
         /\ held' \subseteq Workers
         /\ free' \in [Projects \cup {"global"} -> Nat]
<1>1. CASE state[e] \in {"running", "queued"}
  <2>1. Occupied' = Occupied \ {e}
    BY <1>1 DEF Finish, Occupied, TypeOK, Terminal
  <2> QED
    BY <1>1, <2>1, ReleaseLedger DEF Finish
<1>2. CASE state[e] \notin {"running", "queued"}
  <2>1. UNCHANGED <<state, held, free, attempt>>
    BY <1>2 DEF Finish
  <2>2. /\ held' \subseteq Workers
        /\ free' \in [Projects \cup {"global"} -> Nat]
    BY <2>1 DEF TypeOK
  <2>3. Occupied' = Occupied /\ \A p : OccupiedBy(p)' = OccupiedBy(p)
    BY <2>1 DEF Occupied, OccupiedBy
  <2>4. SlotLedger'
    BY <2>1, <2>3 DEF SlotLedger, Current
  <2> QED
    BY <2>2, <2>4
<1> QED
  BY <1>1, <1>2

(* The current worker of an execution that was claimed is a worker. *)
LEMMA CurrentWorker ==
  ASSUME TypeOK, NEW e \in Executions, attempt[e] # 0
  PROVE  Current(e) \in Workers /\ attempt[e] \in Attempts
  BY DEF TypeOK, Current, Workers

(* The outcome an operator's cancellation records. *)
LEMMA CancelOutcome ==
  ASSUME TypeOK, NEW e \in Executions, cancel[e] # NoCancel
  PROVE  cancel[e][1] \in {"cancelled", "foreground_ended"} /\ cancel[e][1] \in Terminal
  BY DEF TypeOK, Terminal

(* The ledger and the types of its two tables, which stand or fall with it. *)
SlotsKept ==
  /\ SlotLedger
  /\ held \subseteq Workers
  /\ free \in [Projects \cup {"global"} -> Nat]

(* A step that moves no execution into or out of a slot. *)
LEMMA SlotFrame ==
  ASSUME TypeOK, SlotLedger, UNCHANGED <<attempt, held, free>>, Occupied' = Occupied
  PROVE  SlotsKept'
<1>1. \A p : OccupiedBy(p)' = OccupiedBy(p)
  BY DEF OccupiedBy
<1>2. {Current(e) : e \in Occupied}' = {Current(e) : e \in Occupied}
  BY DEF Current
<1>3. SlotLedger'
  BY <1>1, <1>2 DEF SlotLedger
<1> QED
  BY <1>3 DEF SlotsKept, TypeOK

(* claim_next takes one slot of each pool, and there was one to take. *)
LEMMA ClaimLedger ==
  ASSUME ControlInv, NEW e \in Executions, ClaimNext(e)
  PROVE  /\ SlotsKept'
         /\ attempt' \in [Executions -> Attempts \cup {0}]
         /\ attempt'[e] = attempt[e] + 1 /\ attempt[e] + 1 \in Attempts
         /\ attempt[e] + 1 > attempt[e]
         /\ \A x \in Executions : x # e => attempt'[x] = attempt[x]
<1> DEFINE p == ProjectOf[e]
<1>a. TypeOK /\ AttemptsPerUpset /\ SlotLedger
  BY DEF ControlInv
<1>b. p \in Projects /\ p # "global" /\ Ceiling[p] \in Nat /\ GlobalCeiling \in Nat
  BY CeilingAssumption
<1>1. e \notin Occupied /\ Occupied' = Occupied \cup {e}
  BY <1>a DEF ClaimNext, Occupied, TypeOK
<1>2. attempt[e] + 1 \in Attempts /\ attempt[e] + 1 > attempt[e]
  BY <1>a, CeilingAssumption DEF ClaimNext, AttemptsPerUpset, TypeOK, Attempts
<1>3. /\ attempt' \in [Executions -> Attempts \cup {0}]
      /\ attempt'[e] = attempt[e] + 1
      /\ \A x \in Executions : x # e => attempt'[x] = attempt[x]
  BY <1>a, <1>2 DEF ClaimNext, TypeOK
<1>4. held' = {Current(x)' : x \in Occupied'}
  <2>1. held = {Current(x) : x \in Occupied} /\ held' = held \cup {<<e, attempt[e] + 1>>}
    BY <1>a DEF SlotLedger, ClaimNext
  <2>2. \A x \in Occupied : Current(x)' = Current(x)
    BY <1>1, <1>3 DEF Current, Occupied
  <2>3. Current(e)' = <<e, attempt[e] + 1>>
    BY <1>3 DEF Current
  <2> QED
    BY <1>1, <2>1, <2>2, <2>3
<1>5. held' \subseteq Workers
  BY <1>a, <1>2 DEF ClaimNext, TypeOK, Workers
<1>6. /\ Cardinality(Occupied') = Cardinality(Occupied) + 1
      /\ Cardinality(Occupied) \in Nat
  BY <1>1, CountJoining DEF Occupied
<1>7. OccupiedBy(p)' = OccupiedBy(p) \cup {e} /\ e \notin OccupiedBy(p)
  BY <1>1 DEF OccupiedBy
<1>8. /\ Cardinality(OccupiedBy(p)') = Cardinality(OccupiedBy(p)) + 1
      /\ Cardinality(OccupiedBy(p)) \in Nat
  <2>1. OccupiedBy(p) \in SUBSET Executions
    BY DEF OccupiedBy, Occupied
  <2> HIDE DEF p
  <2> QED
    BY <1>7, <2>1, CountJoining
<1>9. \A q \in Projects : q # p => OccupiedBy(q)' = OccupiedBy(q)
  BY <1>1 DEF OccupiedBy
<1>10. /\ Cardinality(Occupied) < GlobalCeiling
       /\ Cardinality(OccupiedBy(p)) < Ceiling[p]
       /\ free' = [free EXCEPT !["global"] = GlobalCeiling - Cardinality(Occupied) - 1,
                               ![p] = Ceiling[p] - Cardinality(OccupiedBy(p)) - 1]
  BY DEF ClaimNext
<1>11. free \in [Projects \cup {"global"} -> Nat]
  BY <1>a DEF TypeOK
<1> HIDE DEF p
<1>12. /\ free' \in [Projects \cup {"global"} -> Nat]
       /\ free'["global"] = GlobalCeiling - Cardinality(Occupied')
       /\ free'[p] = Ceiling[p] - Cardinality(OccupiedBy(p)')
       /\ \A q \in Projects : q # p => free'[q] = free[q]
  BY <1>b, <1>6, <1>8, <1>10, <1>11, CeilingAssumption
<1>13. ASSUME NEW q \in Projects
       PROVE  free'[q] = Ceiling[q] - Cardinality(OccupiedBy(q)')
  <2>1. CASE q = p
    BY <2>1, <1>12
  <2>2. CASE q # p
    BY <2>2, <1>9, <1>12, <1>a DEF SlotLedger
  <2> QED
    BY <2>1, <2>2
<1> QED
  BY <1>2, <1>3, <1>4, <1>5, <1>12, <1>13 DEF SlotsKept, SlotLedger

(* recover_running returns the slots of what it requeues and keeps those   *)
(* of the live orphans.                                                    *)
LEMMA RecoverLedger ==
  ASSUME TypeOK, SlotLedger, Recover
  PROVE  SlotsKept'
<1>1. CASE RecoveryConflicts
  BY <1>1, SlotFrame DEF Recover, durable, Occupied
<1>2. CASE ~ RecoveryConflicts
  <2>1. Requeue
    BY <1>2 DEF Recover
  <2>2. Occupied' = Occupied \ (Interrupted \ Orphaned)
    BY <2>1 DEF Requeue, Occupied, Interrupted, Orphaned, TypeOK
  <2>3. Interrupted \ Orphaned \in SUBSET Executions
    BY DEF Interrupted
  <2>4. Release(Interrupted \ Orphaned) /\ UNCHANGED attempt
    BY <2>1 DEF Requeue
  <2> QED
    BY <2>2, <2>3, <2>4, ReleaseLedger DEF SlotsKept
<1> QED
  BY <1>1, <1>2

(* The slot ledger, step by step. *)
LEMMA SlotStep == ControlInv /\ [Next]_vars => SlotsKept'
<1> SUFFICES ASSUME ControlInv, [Next]_vars PROVE SlotsKept'
    OBVIOUS
<1> USE DEF durable, inDaemon, os, history
<1>a. TypeOK /\ SlotLedger
  BY DEF ControlInv
<1>1. ASSUME NEW e \in Executions, Submit(e) PROVE SlotsKept'
  <2>1. Occupied' = Occupied
    BY <1>a, <1>1 DEF Submit, Occupied, TypeOK
  <2> QED
    BY <1>a, <1>1, <2>1, SlotFrame DEF Submit
<1>2. ASSUME NEW e \in Executions, ClaimNext(e) PROVE SlotsKept'
  BY <1>2, ClaimLedger
<1>3. ASSUME NEW e \in Executions, Spawn(e) PROVE SlotsKept'
  <2>1. CASE Finish(e, "failed")
    BY <1>a, <1>3, <2>1, FinishLedger DEF SlotsKept, Terminal, Spawn
  <2>2. CASE UNCHANGED <<state, held, free>>
    BY <1>a, <1>3, <2>2, SlotFrame DEF Occupied, Spawn
  <2> QED
    BY <1>3, <2>1, <2>2 DEF Spawn
<1>4. ASSUME NEW e \in Executions, Bind(e) PROVE SlotsKept'
  BY <1>a, <1>4, SlotFrame DEF Occupied, Bind, Kill
<1>5. ASSUME NEW e \in Executions, OpenGate(e) PROVE SlotsKept'
  <2>1. CASE Finish(e, "failed")
    BY <1>a, <1>5, <2>1, FinishLedger DEF SlotsKept, Terminal, OpenGate
  <2>2. CASE UNCHANGED <<state, held, free>>
    BY <1>a, <1>5, <2>2, SlotFrame DEF Occupied, OpenGate
  <2> QED
    BY <1>5, <2>1, <2>2 DEF OpenGate
<1>6. ASSUME NEW e \in Executions, Reap(e) PROVE SlotsKept'
  BY <1>a, <1>6, FinishLedger DEF SlotsKept, Terminal, Reap
<1>7. ASSUME NEW e \in Executions, TimeOut(e) PROVE SlotsKept'
  BY <1>a, <1>7, FinishLedger DEF SlotsKept, Terminal, TimeOut, Kill
<1>8. ASSUME NEW e \in Executions, Interrupt(e) PROVE SlotsKept'
  BY <1>a, <1>8, SlotFrame DEF Occupied, Interrupt
<1>9. ASSUME NEW e \in Executions, ReapInterrupted(e) PROVE SlotsKept'
  BY <1>a, <1>9, FinishLedger DEF SlotsKept, Terminal, ReapInterrupted
<1>10. ASSUME NEW e \in Executions, NEW outcome \in {"cancelled", "foreground_ended"},
             CancelLookup(e, outcome) PROVE SlotsKept'
  BY <1>a, <1>10, SlotFrame DEF Occupied, CancelLookup
<1>11. ASSUME NEW e \in Executions, CancelRecord(e) PROVE SlotsKept'
  BY <1>a, <1>11, CancelOutcome, FinishLedger DEF SlotsKept, CancelRecord
<1>12. ASSUME NEW w \in Workers, NEW how \in {"succeeded", "gone"}, ProcessEnds(w, how)
       PROVE  SlotsKept'
  BY <1>a, <1>12, SlotFrame DEF Occupied, ProcessEnds
<1>13. ASSUME Gone PROVE SlotsKept'
  BY <1>a, <1>13, SlotFrame DEF Occupied, Gone
<1>14. ASSUME BeginShutdown PROVE SlotsKept'
  BY <1>a, <1>14, SlotFrame DEF Occupied, BeginShutdown
<1>15. ASSUME StopClaiming PROVE SlotsKept'
  BY <1>a, <1>15, SlotFrame DEF Occupied, StopClaiming
<1>16. ASSUME DrainExpires PROVE SlotsKept'
  BY <1>a, <1>16, SlotFrame DEF Occupied, DrainExpires
<1>17. ASSUME VerifySurvivors PROVE SlotsKept'
  BY <1>a, <1>17, SlotFrame DEF Occupied, VerifySurvivors
<1>18. ASSUME Recover PROVE SlotsKept'
  BY <1>a, <1>18, RecoverLedger
<1>19. ASSUME UNCHANGED vars PROVE SlotsKept'
  BY <1>a, <1>19, SlotFrame DEF Occupied, vars
<1>20. ASSUME NEW e \in Executions, StorageFails(e) PROVE SlotsKept'
  BY <1>a, <1>20, SlotFrame DEF Occupied, StorageFails, Kill
<1> QED
  BY <1>1, <1>2, <1>3, <1>4, <1>5, <1>6, <1>7, <1>8, <1>9, <1>10, <1>11,
     <1>12, <1>13, <1>14, <1>15, <1>16, <1>17, <1>18, <1>19, <1>20
  DEF Next, Supervise, EndShutdown, Crash

(* Types are kept. *)
LEMMA TypeStep == ControlInv /\ [Next]_vars => TypeOK'
<1> SUFFICES ASSUME ControlInv, [Next]_vars PROVE TypeOK'
    OBVIOUS
<1> USE DEF durable, inDaemon, os, history
<1>b. SlotsKept'
  BY SlotStep
<1>a. TypeOK
  BY DEF ControlInv
<1>1. ASSUME NEW e \in Executions, Submit(e) PROVE TypeOK'
  BY <1>a, <1>b, <1>1 DEF SlotsKept, TypeOK, States, Terminal, Kinds, Submit
<1>2. ASSUME NEW e \in Executions, ClaimNext(e) PROVE TypeOK'
  <2>1. attempt' \in [Executions -> Attempts \cup {0}]
    BY <1>2, ClaimLedger
  <2> QED
    BY <1>a, <1>b, <1>2, <2>1 DEF SlotsKept, TypeOK, States, ClaimNext
<1>3. ASSUME NEW e \in Executions, Spawn(e) PROVE TypeOK'
  <2>1. state' \in [Executions -> States]
    BY <1>a, <1>3, FinishEffect DEF Spawn, TypeOK, Terminal
  <2>2. task' \in [Executions -> {"none", "claimed", "spawned", "bound", "waiting",
                                "interrupting"}]
    BY <1>a, <1>3 DEF Spawn, TypeOK
  <2>a. proc[Current(e)] \in {"none", "gated", "running", "succeeded", "gone"}
    BY <1>a, <1>3, CurrentWorker DEF Spawn, ControlInv, Supervised, TypeOK
  <2>3. \E p \in {"none", "gated", "running", "succeeded", "gone"} :
          proc' \in {proc, [proc EXCEPT ![Current(e)] = p]}
    BY <1>3, <2>a DEF Spawn
  <2>4. proc' \in [Workers -> {"none", "gated", "running", "succeeded", "gone"}]
    BY <1>a, <2>3 DEF TypeOK
  <2>5. signalled' \subseteq Workers
    BY <1>a, <1>3 DEF Spawn, TypeOK
  <2>6. UNCHANGED <<attempt, bound, row, recovered, daemon, survivors, cancel, history>>
    BY <1>3 DEF Spawn
  <2> QED
    BY <1>a, <1>b, <2>1, <2>2, <2>4, <2>5, <2>6 DEF SlotsKept, TypeOK
<1>4. ASSUME NEW e \in Executions, Bind(e) PROVE TypeOK'
  <2>1. row' \in [Workers -> {"none", "running", "exited", "ambiguous"}]
    BY <1>a, <1>4 DEF TypeOK, Bind
  <2>2. bound' \in [Executions -> Attempts \cup {0}]
    BY <1>a, <1>4 DEF TypeOK, Bind
  <2> QED
    BY <1>a, <1>b, <1>4, <2>1, <2>2 DEF SlotsKept, TypeOK, Bind, Kill
<1>5. ASSUME NEW e \in Executions, OpenGate(e) PROVE TypeOK'
  <2>1. state' \in [Executions -> States]
    BY <1>a, <1>5, FinishEffect DEF OpenGate, TypeOK, Terminal
  <2>2. task' \in [Executions -> {"none", "claimed", "spawned", "bound", "waiting",
                                "interrupting"}]
    BY <1>a, <1>5 DEF OpenGate, TypeOK
  <2>a. proc[Current(e)] \in {"none", "gated", "running", "succeeded", "gone"}
    BY <1>a, <1>5, CurrentWorker DEF OpenGate, ControlInv, Supervised, TypeOK
  <2>3. \E p \in {"none", "gated", "running", "succeeded", "gone"} :
          proc' \in {proc, [proc EXCEPT ![Current(e)] = p]}
    BY <1>5, <2>a DEF OpenGate, Kill
  <2>4. proc' \in [Workers -> {"none", "gated", "running", "succeeded", "gone"}]
    BY <1>a, <2>3 DEF TypeOK
  <2>5. signalled' \subseteq Workers
    BY <1>a, <1>5 DEF OpenGate, Kill, TypeOK
  <2>6. UNCHANGED <<attempt, bound, row, recovered, daemon, survivors, cancel, history>>
    BY <1>5 DEF OpenGate
  <2> QED
    BY <1>a, <1>b, <2>1, <2>2, <2>4, <2>5, <2>6 DEF SlotsKept, TypeOK
<1>6. ASSUME NEW e \in Executions, Reap(e) PROVE TypeOK'
  BY <1>a, <1>b, <1>6, FinishEffect DEF SlotsKept, TypeOK, States, Terminal, Kinds, Reap
<1>7. ASSUME NEW e \in Executions, TimeOut(e) PROVE TypeOK'
  BY <1>a, <1>b, <1>7, FinishEffect DEF SlotsKept, TypeOK, States, Terminal, Kinds,
     TimeOut, Kill, Current
<1>8. ASSUME NEW e \in Executions, Interrupt(e) PROVE TypeOK'
  BY <1>a, <1>b, <1>8 DEF SlotsKept, TypeOK, States, Terminal, Kinds, Interrupt
<1>9. ASSUME NEW e \in Executions, ReapInterrupted(e) PROVE TypeOK'
  BY <1>a, <1>b, <1>9, FinishEffect DEF SlotsKept, TypeOK, States, Terminal, Kinds,
     ReapInterrupted
<1>10. ASSUME NEW e \in Executions, NEW outcome \in {"cancelled", "foreground_ended"},
             CancelLookup(e, outcome) PROVE TypeOK'
  <2>1. cancel' \in [Executions -> {NoCancel} \cup
                                   ({"cancelled", "foreground_ended"} \X (Attempts \cup {0}))]
    BY <1>a, <1>10 DEF TypeOK, CancelLookup
  <2> QED
    BY <1>a, <1>b, <1>10, <2>1 DEF SlotsKept, TypeOK, CancelLookup
<1>11. ASSUME NEW e \in Executions, CancelRecord(e) PROVE TypeOK'
  BY <1>a, <1>b, <1>11, CancelOutcome, FinishEffect DEF SlotsKept, TypeOK, CancelRecord
<1>12. ASSUME NEW w \in Workers, NEW how \in {"succeeded", "gone"}, ProcessEnds(w, how)
       PROVE  TypeOK'
  BY <1>a, <1>b, <1>12 DEF SlotsKept, TypeOK, States, Terminal, Kinds, ProcessEnds
<1>13. ASSUME Crash \/ EndShutdown PROVE TypeOK'
  BY <1>a, <1>b, <1>13, CeilingAssumption DEF SlotsKept, TypeOK, States, Terminal, Kinds,
     Gone, Crash, EndShutdown
<1>14. ASSUME BeginShutdown PROVE TypeOK'
  BY <1>a, <1>b, <1>14 DEF SlotsKept, TypeOK, States, Terminal, Kinds, BeginShutdown
<1>15. ASSUME StopClaiming PROVE TypeOK'
  BY <1>a, <1>b, <1>15 DEF SlotsKept, TypeOK, States, Terminal, Kinds, StopClaiming
<1>16. ASSUME DrainExpires PROVE TypeOK'
  BY <1>a, <1>b, <1>16, CeilingAssumption DEF SlotsKept, TypeOK, States, Terminal, Kinds,
     DrainExpires
<1>17. ASSUME VerifySurvivors PROVE TypeOK'
  BY <1>a, <1>b, <1>17 DEF SlotsKept, TypeOK, States, Terminal, Kinds, VerifySurvivors
<1>18. ASSUME Recover PROVE TypeOK'
  <2>1. CASE RecoveryConflicts
    BY <1>a, <1>18, <2>1 DEF TypeOK, Recover
  <2>2. CASE ~ RecoveryConflicts
    <3>1. Requeue
      BY <1>18, <2>2 DEF Recover
    <3>2. /\ state' \in [Executions -> States]
          /\ row' \in [Workers -> {"none", "running", "exited", "ambiguous"}]
      BY <1>a, <3>1 DEF TypeOK, Requeue, States
    <3>3. recovered' \in [Executions -> SUBSET Kinds]
      BY <1>a, <3>1 DEF TypeOK, Requeue, Kinds, RecoveryKind
    <3> QED
      BY <1>a, <1>b, <1>18, <3>1, <3>2, <3>3 DEF SlotsKept, TypeOK, Recover, Requeue
  <2> QED
    BY <2>1, <2>2
<1>19. ASSUME UNCHANGED vars PROVE TypeOK'
  BY <1>a, <1>19 DEF TypeOK, vars
<1>20. ASSUME NEW e \in Executions, StorageFails(e) PROVE TypeOK'
  <2>1. Current(e) \in Workers
    BY <1>a, <1>20, CurrentWorker DEF ControlInv, Supervised, StorageFails
  <2> QED
    BY <1>a, <1>b, <1>20, <2>1, CeilingAssumption
    DEF SlotsKept, TypeOK, States, Terminal, Kinds, StorageFails, Kill
<1> QED
  BY <1>1, <1>2, <1>3, <1>4, <1>5, <1>6, <1>7, <1>8, <1>9, <1>10, <1>11,
     <1>12, <1>13, <1>14, <1>15, <1>16, <1>17, <1>18, <1>19, <1>20
  DEF Next, Supervise, EndShutdown

(* One attempt more only after an upset. *)
LEMMA AttemptsStep == ControlInv /\ [Next]_vars => AttemptsPerUpset'
<1> SUFFICES ASSUME ControlInv, [Next]_vars PROVE AttemptsPerUpset'
    OBVIOUS
<1> USE DEF durable, inDaemon, os, history
<1>a. TypeOK /\ AttemptsPerUpset /\ Supervised
  BY DEF ControlInv
<1>1. ASSUME NEW e \in Executions, Submit(e) PROVE AttemptsPerUpset'
  BY <1>a, <1>1 DEF AttemptsPerUpset, TypeOK, Attempts, Submit
<1>2. ASSUME NEW e \in Executions, ClaimNext(e) PROVE AttemptsPerUpset'
  BY <1>a, <1>2, ClaimLedger DEF AttemptsPerUpset, TypeOK, Attempts, ClaimNext
<1>3. ASSUME NEW e \in Executions, Spawn(e) PROVE AttemptsPerUpset'
  BY <1>a, <1>3, FinishEffect DEF AttemptsPerUpset, TypeOK, Supervised, Terminal, Spawn
<1>4. ASSUME NEW e \in Executions, Bind(e) PROVE AttemptsPerUpset'
  BY <1>a, <1>4 DEF AttemptsPerUpset, TypeOK, Attempts, Bind, Kill
<1>5. ASSUME NEW e \in Executions, OpenGate(e) PROVE AttemptsPerUpset'
  BY <1>a, <1>5, FinishEffect DEF AttemptsPerUpset, TypeOK, Supervised, Terminal,
     OpenGate, Kill
<1>6. ASSUME NEW e \in Executions, Reap(e) PROVE AttemptsPerUpset'
  BY <1>a, <1>6, FinishEffect DEF AttemptsPerUpset, TypeOK, Supervised, Terminal, Reap
<1>7. ASSUME NEW e \in Executions, TimeOut(e) PROVE AttemptsPerUpset'
  BY <1>a, <1>7, FinishEffect DEF AttemptsPerUpset, TypeOK, Supervised, Terminal, TimeOut,
     Kill
<1>8. ASSUME NEW e \in Executions, Interrupt(e) PROVE AttemptsPerUpset'
  BY <1>a, <1>8 DEF AttemptsPerUpset, TypeOK, Attempts, Interrupt
<1>9. ASSUME NEW e \in Executions, ReapInterrupted(e) PROVE AttemptsPerUpset'
  BY <1>a, <1>9, FinishEffect DEF AttemptsPerUpset, TypeOK, Supervised, Terminal,
     ReapInterrupted
<1>10. ASSUME NEW e \in Executions, NEW outcome \in {"cancelled", "foreground_ended"},
             CancelLookup(e, outcome) PROVE AttemptsPerUpset'
  BY <1>a, <1>10 DEF AttemptsPerUpset, TypeOK, Attempts, CancelLookup
<1>11. ASSUME NEW e \in Executions, CancelRecord(e) PROVE AttemptsPerUpset'
  BY <1>a, <1>11, CancelOutcome, FinishEffect DEF AttemptsPerUpset, TypeOK, Supervised,
     Terminal, CancelRecord
<1>12. ASSUME NEW w \in Workers, NEW how \in {"succeeded", "gone"}, ProcessEnds(w, how)
       PROVE  AttemptsPerUpset'
  BY <1>a, <1>12 DEF AttemptsPerUpset, TypeOK, Attempts, ProcessEnds
<1>13. ASSUME Crash \/ EndShutdown PROVE AttemptsPerUpset'
  <2>1. /\ UNCHANGED <<attempt, state, lost>> /\ daemon' = "down"
        /\ upsets' \in {upsets, upsets + 1}
        /\ \A w \in lost : w[2] \in Nat
    BY <1>a, <1>13 DEF TypeOK, Workers, Attempts, Gone, Crash, EndShutdown
  <2>2. CASE upsets' = upsets + 1
    BY <1>a, <2>1, <2>2, CeilingAssumption DEF AttemptsPerUpset, TypeOK, Attempts
  <2>3. CASE upsets' = upsets
    <3>1. EndShutdown
      BY <1>a, <1>13, <2>3, CeilingAssumption DEF Crash, TypeOK
    <3>2. ASSUME NEW x \in Executions, state[x] = "running"
          PROVE  attempt[x] <= upsets
      BY <1>a, <3>1, <3>2 DEF AttemptsPerUpset, Supervised, Current, EndShutdown
    <3> QED
      BY <1>a, <2>1, <2>3, <3>2 DEF AttemptsPerUpset
  <2> QED
    BY <2>1, <2>2, <2>3
<1>14. ASSUME BeginShutdown PROVE AttemptsPerUpset'
  BY <1>a, <1>14 DEF AttemptsPerUpset, TypeOK, Attempts, BeginShutdown
<1>15. ASSUME StopClaiming PROVE AttemptsPerUpset'
  BY <1>a, <1>15 DEF AttemptsPerUpset, TypeOK, Attempts, StopClaiming
<1>16. ASSUME DrainExpires PROVE AttemptsPerUpset'
  BY <1>a, <1>16, CeilingAssumption DEF AttemptsPerUpset, TypeOK, Attempts, Workers,
     DrainExpires
<1>17. ASSUME VerifySurvivors PROVE AttemptsPerUpset'
  BY <1>a, <1>17 DEF AttemptsPerUpset, TypeOK, Attempts, VerifySurvivors
<1>18. ASSUME Recover PROVE AttemptsPerUpset'
  <2>1. CASE RecoveryConflicts
    BY <1>a, <1>18, <2>1 DEF AttemptsPerUpset, Recover
  <2>2. CASE ~ RecoveryConflicts
    <3>1. /\ UNCHANGED <<attempt, history>> /\ daemon' = "up"
          /\ \A x \in Executions : x \notin Interrupted => state'[x] = state[x]
          /\ \A x \in Executions :
               x \in Interrupted => state'[x] \in {"queued", "ambiguous_live_orphan"}
      BY <1>a, <1>18, <2>2 DEF Recover, Requeue, Orphaned
    <3> QED
      BY <1>a, <1>18, <3>1 DEF AttemptsPerUpset, Interrupted, Recover
  <2> QED
    BY <2>1, <2>2
<1>19. ASSUME UNCHANGED vars PROVE AttemptsPerUpset'
  BY <1>a, <1>19 DEF AttemptsPerUpset, TypeOK, Attempts, vars
<1>20. ASSUME NEW e \in Executions, StorageFails(e) PROVE AttemptsPerUpset'
  <2>1. /\ UNCHANGED <<attempt, state, daemon>> /\ upsets' = upsets + 1
        /\ lost' = lost \cup {Current(e)}
        /\ \A w \in lost : w[2] \in Nat
    BY <1>a, <1>20 DEF TypeOK, Workers, Attempts, StorageFails
  <2>2. Current(e)[2] = attempt[e] /\ attempt[e] <= upsets + 1
    BY <1>a DEF AttemptsPerUpset, Current
  <2>3. upsets \in Nat /\ \A x \in Executions : attempt[x] \in Nat
    BY <1>a, CeilingAssumption DEF TypeOK, Attempts
  <2>4. \A w \in lost' : w[2] <= upsets'
    BY <1>a, <2>1, <2>2, <2>3 DEF AttemptsPerUpset
  <2>5. \A x \in Executions : attempt[x] <= upsets'
    BY <1>a, <2>1, <2>3 DEF AttemptsPerUpset
  <2>6. upsets' \in Nat
    BY <2>1, <2>3
  <2> QED
    BY <1>a, <2>1, <2>3, <2>4, <2>5, <2>6 DEF AttemptsPerUpset
<1> QED
  BY <1>1, <1>2, <1>3, <1>4, <1>5, <1>6, <1>7, <1>8, <1>9, <1>10, <1>11,
     <1>12, <1>13, <1>14, <1>15, <1>16, <1>17, <1>18, <1>19, <1>20
  DEF Next, Supervise, EndShutdown

(* Every running execution of a daemon that is up has its supervisor. *)
LEMMA SupervisedStep == ControlInv /\ [Next]_vars => Supervised'
<1> SUFFICES ASSUME ControlInv, [Next]_vars PROVE Supervised'
    OBVIOUS
<1> USE DEF durable, inDaemon, os, history
<1>a. TypeOK /\ AttemptsPerUpset /\ Supervised
  BY DEF ControlInv
<1>1. ASSUME NEW e \in Executions, Submit(e) PROVE Supervised'
  BY <1>a, <1>1 DEF Supervised, Current, TypeOK, Submit
<1>2. ASSUME NEW e \in Executions, ClaimNext(e) PROVE Supervised'
  BY <1>a, <1>2, ClaimLedger DEF Supervised, Current, TypeOK, Attempts, ClaimNext
<1>3. ASSUME NEW e \in Executions, Spawn(e) PROVE Supervised'
  BY <1>a, <1>3, FinishEffect DEF Supervised, Current, TypeOK, Terminal, Spawn
<1>4. ASSUME NEW e \in Executions, Bind(e) PROVE Supervised'
  BY <1>a, <1>4 DEF Supervised, Current, TypeOK, Bind, Kill
<1>5. ASSUME NEW e \in Executions, OpenGate(e) PROVE Supervised'
  BY <1>a, <1>5, FinishEffect DEF Supervised, Current, TypeOK, Terminal, OpenGate, Kill
<1>6. ASSUME NEW e \in Executions, Reap(e) PROVE Supervised'
  BY <1>a, <1>6, FinishEffect DEF Supervised, Current, TypeOK, Terminal, Reap
<1>7. ASSUME NEW e \in Executions, TimeOut(e) PROVE Supervised'
  BY <1>a, <1>7, FinishEffect DEF Supervised, Current, TypeOK, Terminal, TimeOut, Kill
<1>8. ASSUME NEW e \in Executions, Interrupt(e) PROVE Supervised'
  BY <1>a, <1>8 DEF Supervised, Current, TypeOK, Interrupt
<1>9. ASSUME NEW e \in Executions, ReapInterrupted(e) PROVE Supervised'
  BY <1>a, <1>9, FinishEffect DEF Supervised, Current, TypeOK, Terminal, ReapInterrupted
<1>10. ASSUME NEW e \in Executions, NEW outcome \in {"cancelled", "foreground_ended"},
             CancelLookup(e, outcome) PROVE Supervised'
  BY <1>a, <1>10 DEF Supervised, Current, TypeOK, CancelLookup
<1>11. ASSUME NEW e \in Executions, CancelRecord(e) PROVE Supervised'
  BY <1>a, <1>11, CancelOutcome, FinishEffect DEF Supervised, Current, TypeOK, Terminal,
     CancelRecord
<1>12. ASSUME NEW w \in Workers, NEW how \in {"succeeded", "gone"}, ProcessEnds(w, how)
       PROVE  Supervised'
  BY <1>a, <1>12 DEF Supervised, Current, TypeOK, ProcessEnds
<1>13. ASSUME Gone PROVE Supervised'
  BY <1>a, <1>13 DEF Supervised, Current, TypeOK, Gone
<1>14. ASSUME BeginShutdown PROVE Supervised'
  BY <1>a, <1>14 DEF Supervised, Current, TypeOK, BeginShutdown
<1>15. ASSUME StopClaiming PROVE Supervised'
  BY <1>a, <1>15 DEF Supervised, Current, TypeOK, StopClaiming
<1>16. ASSUME DrainExpires PROVE Supervised'
  BY <1>a, <1>16 DEF Supervised, Current, TypeOK, DrainExpires
<1>17. ASSUME VerifySurvivors PROVE Supervised'
  BY <1>a, <1>17 DEF Supervised, Current, TypeOK, VerifySurvivors
<1>18. ASSUME Recover PROVE Supervised'
  BY <1>a, <1>18 DEF Supervised, Current, TypeOK, Interrupted, Recover, Requeue
<1>19. ASSUME UNCHANGED vars PROVE Supervised'
  BY <1>a, <1>19 DEF Supervised, Current, TypeOK, vars
<1>20. ASSUME NEW e \in Executions, StorageFails(e) PROVE Supervised'
  BY <1>a, <1>20 DEF Supervised, Current, TypeOK, Terminal, StorageFails, Kill
<1> QED
  BY <1>1, <1>2, <1>3, <1>4, <1>5, <1>6, <1>7, <1>8, <1>9, <1>10, <1>11,
     <1>12, <1>13, <1>14, <1>15, <1>16, <1>17, <1>18, <1>19, <1>20
  DEF Next, Supervise, EndShutdown, Crash

(* When the stages stay right: no task enters the first two stages, and    *)
(* the workers of the tasks that are in them are left alone.               *)
LEMMA StagesFrame ==
  ASSUME StagesAgree, UNCHANGED attempt,
         \A x \in Executions : task'[x] \in {"claimed", "spawned"} =>
           /\ task'[x] = task[x]
           /\ proc'[Current(x)] = proc[Current(x)]
           /\ row'[Current(x)] = row[Current(x)]
  PROVE  StagesAgree'
  BY DEF StagesAgree, Current

(* When rows keep following attempts: no row, binding or attempt changes,  *)
(* no attempt still to be made gets a process, and no execution starts or  *)
(* completes without an attempt.                                           *)
LEMMA RowsFrame ==
  ASSUME RowsAgree, UNCHANGED <<attempt, bound, row>>,
         \A x \in Executions, a \in Attempts : a > attempt[x] /\ proc[<<x, a>>] = "none" =>
           proc'[<<x, a>>] = "none",
         \A x \in Executions : state'[x] = "running" => state[x] = "running"
  PROVE  RowsAgree'
<1>1. attempt' = attempt /\ bound' = bound /\ row' = row
  OBVIOUS
<1> SUFFICES ASSUME NEW x \in Executions
             PROVE  /\ \A a \in Attempts : a > attempt'[x] =>
                         row'[<<x, a>>] = "none" /\ proc'[<<x, a>>] = "none"
                    /\ bound'[x] # 0 => row'[<<x, bound'[x]>>] # "none"
                    /\ attempt'[x] # 0 /\ row'[<<x, attempt'[x]>>] # "none" =>
                         bound'[x] = attempt'[x]
                    /\ state'[x] = "running" /\ attempt'[x] # 0 =>
                         row'[<<x, attempt'[x]>>] \in {"none", "running"}
  BY Zenon DEF RowsAgree
<1>2. \A a \in Attempts : a > attempt[x] => row[<<x, a>>] = "none" /\ proc[<<x, a>>] = "none"
  BY Zenon DEF RowsAgree
<1> QED
  BY <1>1, <1>2, Zenon DEF RowsAgree

(* When completion keeps its meaning. *)
LEMMA CompletedFrame ==
  ASSUME CompletedMeansSucceeded, UNCHANGED attempt,
         \A x \in Executions : state'[x] = "completed" =>
           /\ state[x] = "completed"
           /\ proc[Current(x)] = "succeeded" => proc'[Current(x)] = "succeeded"
  PROVE  CompletedMeansSucceeded'
  BY DEF CompletedMeansSucceeded, Current

(* The stages of the supervisors. *)
LEMMA StagesStep == ControlInv /\ [Next]_vars => StagesAgree'
<1> SUFFICES ASSUME ControlInv, [Next]_vars PROVE StagesAgree'
    OBVIOUS
<1> USE DEF durable, inDaemon, os, history
<1>a. TypeOK /\ Supervised /\ StagesAgree /\ RowsAgree
  BY DEF ControlInv
<1>1. ASSUME NEW e \in Executions, Submit(e) PROVE StagesAgree'
  <2>1. UNCHANGED attempt /\ \A x \in Executions : task'[x] \in {"claimed", "spawned"} =>
          /\ task'[x] = task[x]
          /\ proc'[Current(x)] = proc[Current(x)]
          /\ row'[Current(x)] = row[Current(x)]
    BY <1>a, <1>1 DEF TypeOK, Supervised, StagesAgree, Current, Submit
  <2> QED
    BY <1>a, <2>1, StagesFrame
<1>2. ASSUME NEW e \in Executions, ClaimNext(e) PROVE StagesAgree'
  <2>1. /\ attempt[e] + 1 \in Attempts /\ attempt'[e] = attempt[e] + 1
        /\ \A x \in Executions : x # e => attempt'[x] = attempt[x]
        /\ UNCHANGED <<row, proc>>
        /\ attempt[e] + 1 > attempt[e]
    BY <1>a, <1>2, ClaimLedger DEF ClaimNext, TypeOK, Attempts
  <2>2. row[<<e, attempt[e] + 1>>] = "none" /\ proc[<<e, attempt[e] + 1>>] = "none"
    BY <1>a, <2>1 DEF RowsAgree
  <2>3. /\ task'[e] = "claimed"
        /\ \A x \in Executions : x # e => task'[x] = task[x]
    BY <1>a, <1>2 DEF ClaimNext, TypeOK
  <2> QED
    BY <1>a, <2>1, <2>2, <2>3 DEF StagesAgree, Current
<1>3. ASSUME NEW e \in Executions, Spawn(e) PROVE StagesAgree'
  <2>1. CASE Finish(e, "failed") /\ task' = [task EXCEPT ![e] = "none"] /\ UNCHANGED proc
    <3>1. UNCHANGED attempt /\ \A x \in Executions : task'[x] \in {"claimed", "spawned"} =>
            /\ task'[x] = task[x]
            /\ proc'[Current(x)] = proc[Current(x)]
            /\ row'[Current(x)] = row[Current(x)]
      BY <1>a, <1>3, <2>1 DEF Spawn, TypeOK
    <3> QED
      BY <1>a, <3>1, StagesFrame
  <2>2. CASE /\ proc' = [proc EXCEPT ![Current(e)] = "gated"]
             /\ task' = [task EXCEPT ![e] = "spawned"]
    <3>1. Current(e) \in Workers
      BY <1>a, <1>3, CurrentWorker DEF Supervised, Spawn
    <3>2. /\ proc'[Current(e)] = "gated"
          /\ \A x \in Executions : x # e /\ Current(x) \in Workers =>
               proc'[Current(x)] = proc[Current(x)]
      BY <1>a, <2>2, <3>1 DEF TypeOK, Current
    <3>5. \A x \in Executions : task[x] # "none" => Current(x) \in Workers
      BY <1>a, CurrentWorker DEF Supervised
    <3>3. task'[e] = "spawned" /\ \A x \in Executions : x # e => task'[x] = task[x]
      BY <1>a, <2>2 DEF TypeOK
    <3>4. task[e] = "claimed" /\ UNCHANGED <<attempt, row>>
      BY <1>3 DEF Spawn
    <3> QED
      BY <1>a, <3>2, <3>3, <3>4, <3>5 DEF StagesAgree, Current
  <2> QED
    BY <1>3, <2>1, <2>2 DEF Spawn
<1>4. ASSUME NEW e \in Executions, Bind(e) PROVE StagesAgree'
  <2>1. ASSUME NEW x \in Executions, task'[x] \in {"claimed", "spawned"}
        PROVE  /\ task'[x] = task[x]
               /\ proc'[Current(x)] = proc[Current(x)]
               /\ row'[Current(x)] = row[Current(x)]
    <3>1. x # e /\ task'[x] = task[x]
      BY <1>a, <1>4, <2>1 DEF TypeOK, Bind
    <3>2. Current(x) \in Workers /\ Current(x) # Current(e)
      BY <1>a, <2>1, <3>1, CurrentWorker DEF Supervised, Current
    <3> QED
      BY <1>a, <1>4, <3>1, <3>2 DEF TypeOK, Bind, Kill
  <2> QED
    BY <1>a, <1>4, <2>1, StagesFrame DEF Bind
<1>5. ASSUME NEW e \in Executions, OpenGate(e) PROVE StagesAgree'
  <2>1. ASSUME NEW x \in Executions, task'[x] \in {"claimed", "spawned"}
        PROVE  /\ task'[x] = task[x]
               /\ proc'[Current(x)] = proc[Current(x)]
               /\ row'[Current(x)] = row[Current(x)]
    <3>1. x # e /\ task'[x] = task[x]
      BY <1>a, <1>5, <2>1 DEF TypeOK, OpenGate
    <3>2. Current(x) \in Workers /\ Current(x) # Current(e)
      BY <1>a, <2>1, <3>1, CurrentWorker DEF Supervised, Current
    <3> QED
      BY <1>a, <1>5, <3>1, <3>2 DEF TypeOK, OpenGate, Kill
  <2> QED
    BY <1>a, <1>5, <2>1, StagesFrame DEF OpenGate
<1>6. ASSUME NEW e \in Executions, Reap(e) PROVE StagesAgree'
  <2>1. UNCHANGED attempt /\ \A x \in Executions : task'[x] \in {"claimed", "spawned"} =>
          /\ task'[x] = task[x]
          /\ proc'[Current(x)] = proc[Current(x)]
          /\ row'[Current(x)] = row[Current(x)]
    BY <1>a, <1>6 DEF TypeOK, Supervised, StagesAgree, Current, Reap, Terminal
  <2> QED
    BY <1>a, <2>1, StagesFrame
<1>7. ASSUME NEW e \in Executions, TimeOut(e) PROVE StagesAgree'
  <2>1. ASSUME NEW x \in Executions, task'[x] \in {"claimed", "spawned"}
        PROVE  /\ task'[x] = task[x]
               /\ proc'[Current(x)] = proc[Current(x)]
               /\ row'[Current(x)] = row[Current(x)]
    <3>1. x # e /\ task'[x] = task[x]
      BY <1>a, <1>7, <2>1 DEF TypeOK, TimeOut
    <3>2. Current(x) \in Workers /\ Current(x) # Current(e)
      BY <1>a, <2>1, <3>1, CurrentWorker DEF Supervised, Current
    <3> QED
      BY <1>a, <1>7, <3>1, <3>2 DEF TypeOK, TimeOut, Kill
  <2> QED
    BY <1>a, <1>7, <2>1, StagesFrame DEF TimeOut
<1>8. ASSUME NEW e \in Executions, Interrupt(e) PROVE StagesAgree'
  <2>1. UNCHANGED attempt /\ \A x \in Executions : task'[x] \in {"claimed", "spawned"} =>
          /\ task'[x] = task[x]
          /\ proc'[Current(x)] = proc[Current(x)]
          /\ row'[Current(x)] = row[Current(x)]
    BY <1>a, <1>8 DEF TypeOK, Supervised, StagesAgree, Current, Interrupt
  <2> QED
    BY <1>a, <2>1, StagesFrame
<1>9. ASSUME NEW e \in Executions, ReapInterrupted(e) PROVE StagesAgree'
  <2>1. UNCHANGED attempt /\ \A x \in Executions : task'[x] \in {"claimed", "spawned"} =>
          /\ task'[x] = task[x]
          /\ proc'[Current(x)] = proc[Current(x)]
          /\ row'[Current(x)] = row[Current(x)]
    BY <1>a, <1>9 DEF TypeOK, Supervised, StagesAgree, Current, ReapInterrupted, Terminal
  <2> QED
    BY <1>a, <2>1, StagesFrame
<1>10. ASSUME NEW e \in Executions, NEW outcome \in {"cancelled", "foreground_ended"},
             CancelLookup(e, outcome) PROVE StagesAgree'
  <2>1. UNCHANGED attempt /\ \A x \in Executions : task'[x] \in {"claimed", "spawned"} =>
          /\ task'[x] = task[x]
          /\ proc'[Current(x)] = proc[Current(x)]
          /\ row'[Current(x)] = row[Current(x)]
    BY <1>a, <1>10 DEF TypeOK, Supervised, StagesAgree, Current, CancelLookup
  <2> QED
    BY <1>a, <2>1, StagesFrame
<1>11. ASSUME NEW e \in Executions, CancelRecord(e) PROVE StagesAgree'
  <2>1. UNCHANGED attempt /\ \A x \in Executions : task'[x] \in {"claimed", "spawned"} =>
          /\ task'[x] = task[x]
          /\ proc'[Current(x)] = proc[Current(x)]
          /\ row'[Current(x)] = row[Current(x)]
    BY <1>a, <1>11 DEF TypeOK, Supervised, StagesAgree, Current, CancelRecord, Terminal
  <2> QED
    BY <1>a, <2>1, StagesFrame
<1>12. ASSUME NEW w \in Workers, NEW how \in {"succeeded", "gone"}, ProcessEnds(w, how)
       PROVE  StagesAgree'
  <2>1. UNCHANGED attempt /\ \A x \in Executions : task'[x] \in {"claimed", "spawned"} =>
          /\ task'[x] = task[x]
          /\ proc'[Current(x)] = proc[Current(x)]
          /\ row'[Current(x)] = row[Current(x)]
    BY <1>a, <1>12 DEF TypeOK, Supervised, StagesAgree, Current, ProcessEnds
  <2> QED
    BY <1>a, <2>1, StagesFrame
<1>13. ASSUME Gone PROVE StagesAgree'
  <2>1. UNCHANGED attempt /\ \A x \in Executions : task'[x] \in {"claimed", "spawned"} =>
          /\ task'[x] = task[x]
          /\ proc'[Current(x)] = proc[Current(x)]
          /\ row'[Current(x)] = row[Current(x)]
    BY <1>a, <1>13 DEF TypeOK, Supervised, StagesAgree, Current, Gone
  <2> QED
    BY <1>a, <2>1, StagesFrame
<1>14. ASSUME BeginShutdown PROVE StagesAgree'
  BY <1>a, <1>14 DEF StagesAgree, Current, BeginShutdown
<1>15. ASSUME StopClaiming PROVE StagesAgree'
  BY <1>a, <1>15 DEF StagesAgree, Current, StopClaiming
<1>16. ASSUME DrainExpires PROVE StagesAgree'
  BY <1>a, <1>16 DEF StagesAgree, Current, DrainExpires
<1>17. ASSUME VerifySurvivors PROVE StagesAgree'
  BY <1>a, <1>17 DEF StagesAgree, Current, VerifySurvivors
<1>18. ASSUME Recover PROVE StagesAgree'
  <2>1. UNCHANGED attempt /\ \A x \in Executions : task'[x] \in {"claimed", "spawned"} =>
          /\ task'[x] = task[x]
          /\ proc'[Current(x)] = proc[Current(x)]
          /\ row'[Current(x)] = row[Current(x)]
    BY <1>a, <1>18 DEF TypeOK, Supervised, StagesAgree, Current, Recover, Requeue,
       Interrupted, Orphaned
  <2> QED
    BY <1>a, <2>1, StagesFrame
<1>19. ASSUME UNCHANGED vars PROVE StagesAgree'
  BY <1>a, <1>19 DEF StagesAgree, Current, vars
<1>20. ASSUME NEW e \in Executions, StorageFails(e) PROVE StagesAgree'
  <2>1. ASSUME NEW x \in Executions, task'[x] \in {"claimed", "spawned"}
        PROVE  /\ task'[x] = task[x]
               /\ proc'[Current(x)] = proc[Current(x)]
               /\ row'[Current(x)] = row[Current(x)]
    <3>1. x # e /\ task'[x] = task[x]
      BY <1>a, <1>20, <2>1 DEF TypeOK, StorageFails
    <3>2. Current(x) \in Workers /\ Current(x) # Current(e)
      BY <1>a, <2>1, <3>1, CurrentWorker DEF Supervised, Current
    <3> QED
      BY <1>a, <1>20, <3>1, <3>2 DEF TypeOK, StorageFails, Kill
  <2> QED
    BY <1>a, <1>20, <2>1, StagesFrame DEF StorageFails
<1> QED
  BY <1>1, <1>2, <1>3, <1>4, <1>5, <1>6, <1>7, <1>8, <1>9, <1>10, <1>11,
     <1>12, <1>13, <1>14, <1>15, <1>16, <1>17, <1>18, <1>19, <1>20
  DEF Next, Supervise, EndShutdown, Crash

(* Rows follow attempts. *)
LEMMA RowsStep == ControlInv /\ [Next]_vars => RowsAgree'
<1> SUFFICES ASSUME ControlInv, [Next]_vars PROVE RowsAgree'
    OBVIOUS
<1> USE DEF durable, inDaemon, os, history
<1>a. TypeOK /\ Supervised /\ RowsAgree
  BY DEF ControlInv
<1>1. ASSUME NEW e \in Executions, Submit(e) PROVE RowsAgree'
  <2>1. UNCHANGED <<attempt, bound, row>>
    BY <1>a, <1>1 DEF TypeOK, Submit
  <2>2. \A x \in Executions, a \in Attempts : a > attempt[x] /\ proc[<<x, a>>] = "none" =>
          proc'[<<x, a>>] = "none"
    BY <1>a, <1>1 DEF TypeOK, Live, Workers, Submit
  <2>3. \A x \in Executions : state'[x] = "running" => state[x] = "running"
    BY <1>a, <1>1 DEF TypeOK, Supervised, Submit
  <2> QED
    BY <1>a, <2>1, <2>2, <2>3, RowsFrame
<1>2. ASSUME NEW e \in Executions, ClaimNext(e) PROVE RowsAgree'
  <2>1. /\ attempt[e] + 1 \in Attempts /\ attempt'[e] = attempt[e] + 1
        /\ attempt[e] + 1 > attempt[e]
        /\ \A x \in Executions : x # e => attempt'[x] = attempt[x]
    BY <1>2, ClaimLedger
  <2>2. row' = row /\ proc' = proc /\ bound' = bound
    BY <1>2 DEF ClaimNext
  <2>3. \A x \in Executions : x # e => state'[x] = state[x]
    BY <1>a, <1>2 DEF ClaimNext, TypeOK
  <2>4. attempt[e] \in Int
    BY <1>a DEF TypeOK, Attempts
  <2>5. ASSUME NEW x \in Executions, x # e
        PROVE  /\ \A a \in Attempts : a > attempt'[x] =>
                    row'[<<x, a>>] = "none" /\ proc'[<<x, a>>] = "none"
               /\ bound'[x] # 0 => row'[<<x, bound'[x]>>] # "none"
               /\ attempt'[x] # 0 /\ row'[<<x, attempt'[x]>>] # "none" =>
                    bound'[x] = attempt'[x]
               /\ state'[x] = "running" /\ attempt'[x] # 0 =>
                    row'[<<x, attempt'[x]>>] \in {"none", "running"}
    <3>1. attempt'[x] = attempt[x] /\ state'[x] = state[x]
      BY <2>1, <2>3, <2>5
    <3> QED
      BY <1>a, <2>2, <3>1, Zenon DEF RowsAgree
  <2>6. \A a \in Attempts : a > attempt[e] + 1 => a > attempt[e]
    BY <2>4 DEF Attempts
  <2>7. \A a \in Attempts : a > attempt'[e] => row'[<<e, a>>] = "none" /\ proc'[<<e, a>>] = "none"
    BY <1>a, <2>1, <2>2, <2>6, Zenon DEF RowsAgree
  <2>8. bound'[e] # 0 => row'[<<e, bound'[e]>>] # "none"
    BY <1>a, <2>2, Zenon DEF RowsAgree
  <2>9. row'[<<e, attempt'[e]>>] = "none"
    BY <1>a, <2>1, <2>2, Zenon DEF RowsAgree
  <2> QED
    BY <2>5, <2>7, <2>8, <2>9, Zenon DEF RowsAgree
<1>3. ASSUME NEW e \in Executions, Spawn(e) PROVE RowsAgree'
  <2>1. UNCHANGED <<attempt, bound, row>>
    BY <1>3 DEF Spawn
  <2>2. ASSUME NEW x \in Executions, NEW a \in Attempts, a > attempt[x], proc[<<x, a>>] = "none"
        PROVE  proc'[<<x, a>>] = "none"
    <3>1. <<x, a>> \in Workers /\ <<x, a>> # Current(e)
      BY <1>a, <2>2 DEF Workers, Attempts, Current, TypeOK
    <3> QED
      BY <1>a, <1>3, <2>2, <3>1 DEF Spawn, TypeOK
  <2>3. \A x \in Executions : state'[x] = "running" => state[x] = "running"
    BY <1>a, <1>3, FinishEffect DEF Spawn, TypeOK, Supervised, Terminal
  <2> QED
    BY <1>a, <2>1, <2>2, <2>3, RowsFrame
<1>4. ASSUME NEW e \in Executions, Bind(e) PROVE RowsAgree'
  <2>1. CASE state[e] = "running" /\ task' = [task EXCEPT ![e] = "bound"]
    <3>1. Current(e) \in Workers /\ attempt[e] \in Attempts /\ attempt[e] # 0
      BY <1>a, <1>4, CurrentWorker DEF Supervised, Bind
    <3>2. /\ row' = [row EXCEPT ![Current(e)] = "running"]
          /\ bound' = [bound EXCEPT ![e] = attempt[e]]
          /\ UNCHANGED <<state, attempt, proc>>
      BY <1>a, <1>4, <2>1 DEF Bind, TypeOK
    <3>3. /\ bound'[e] = attempt[e] /\ \A x \in Executions : x # e => bound'[x] = bound[x]
          /\ row'[<<e, attempt[e]>>] = "running"
          /\ \A x \in Executions, a \in Attempts : <<x, a>> # <<e, attempt[e]>> =>
               row'[<<x, a>>] = row[<<x, a>>]
      BY <1>a, <3>1, <3>2 DEF TypeOK, Current, Workers
    <3>4. ASSUME NEW x \in Executions, NEW a \in Attempts, a > attempt[x]
          PROVE  row'[<<x, a>>] = "none" /\ proc'[<<x, a>>] = "none"
      <4>1. <<x, a>> # <<e, attempt[e]>>
        BY <3>1, <3>4 DEF Attempts
      <4>2. row[<<x, a>>] = "none" /\ proc[<<x, a>>] = "none"
        BY <1>a, <3>4, Zenon DEF RowsAgree
      <4> QED
        BY <3>2, <3>3, <4>1, <4>2
    <3>5. ASSUME NEW x \in Executions, x # e
          PROVE  /\ bound[x] # 0 => row'[<<x, bound[x]>>] # "none"
                 /\ attempt[x] # 0 /\ row'[<<x, attempt[x]>>] # "none" => bound[x] = attempt[x]
                 /\ state[x] = "running" /\ attempt[x] # 0 =>
                      row'[<<x, attempt[x]>>] \in {"none", "running"}
      <4>1. \A a \in Attempts : row'[<<x, a>>] = row[<<x, a>>]
        BY <3>3, <3>5
      <4>2. attempt[x] \in Attempts \cup {0} /\ bound[x] \in Attempts \cup {0}
        BY <1>a DEF TypeOK
      <4>3. /\ bound[x] # 0 => row'[<<x, bound[x]>>] = row[<<x, bound[x]>>]
            /\ attempt[x] # 0 => row'[<<x, attempt[x]>>] = row[<<x, attempt[x]>>]
        BY <4>1, <4>2
      <4>4. /\ bound[x] # 0 => row[<<x, bound[x]>>] # "none"
            /\ attempt[x] # 0 /\ row[<<x, attempt[x]>>] # "none" => bound[x] = attempt[x]
            /\ state[x] = "running" /\ attempt[x] # 0 =>
                 row[<<x, attempt[x]>>] \in {"none", "running"}
        BY <1>a, Zenon DEF RowsAgree
      <4> QED
        BY <4>3, <4>4
    <3>6. state' = state /\ attempt' = attempt
      BY <3>2
    <3>7. ASSUME NEW x \in Executions
          PROVE  /\ bound'[x] # 0 => row'[<<x, bound'[x]>>] # "none"
                 /\ attempt[x] # 0 /\ row'[<<x, attempt[x]>>] # "none" =>
                      bound'[x] = attempt[x]
                 /\ state[x] = "running" /\ attempt[x] # 0 =>
                      row'[<<x, attempt[x]>>] \in {"none", "running"}
      <4>1. CASE x = e
        BY <3>3, <4>1
      <4>2. CASE x # e
        BY <3>3, <3>5, <4>2
      <4> QED
        BY <4>1, <4>2
    <3> QED
      BY <3>4, <3>6, <3>7, Zenon DEF RowsAgree
  <2>2. CASE state[e] # "running" /\ Kill(Current(e)) /\ UNCHANGED <<row, bound>>
    <3>1. \A x \in Executions, a \in Attempts : a > attempt[x] /\ proc[<<x, a>>] = "none" =>
            proc'[<<x, a>>] = "none"
      BY <1>a, <2>2 DEF Kill, Live, TypeOK, Workers
    <3>2. UNCHANGED <<state, attempt>>
      BY <1>4 DEF Bind
    <3> QED
      BY <1>a, <2>2, <3>1, <3>2, RowsFrame
  <2> QED
    BY <1>4, <2>1, <2>2 DEF Bind
<1>5. ASSUME NEW e \in Executions, OpenGate(e) PROVE RowsAgree'
  <2>1. UNCHANGED <<attempt, bound, row>>
    BY <1>a, <1>5 DEF TypeOK, OpenGate, Kill, Terminal
  <2>2. \A x \in Executions, a \in Attempts : a > attempt[x] /\ proc[<<x, a>>] = "none" =>
          proc'[<<x, a>>] = "none"
    BY <1>a, <1>5 DEF TypeOK, Live, Workers, OpenGate, Kill, Terminal
  <2>3. \A x \in Executions : state'[x] = "running" => state[x] = "running"
    BY <1>a, <1>5, FinishEffect DEF TypeOK, Supervised, OpenGate, Kill, Terminal
  <2> QED
    BY <1>a, <2>1, <2>2, <2>3, RowsFrame
<1>6. ASSUME NEW e \in Executions, Reap(e) PROVE RowsAgree'
  <2>1. UNCHANGED <<attempt, bound, row>>
    BY <1>a, <1>6 DEF TypeOK, Reap, Terminal
  <2>2. \A x \in Executions, a \in Attempts : a > attempt[x] /\ proc[<<x, a>>] = "none" =>
          proc'[<<x, a>>] = "none"
    BY <1>a, <1>6 DEF TypeOK, Live, Workers, Reap, Terminal
  <2>3. \A x \in Executions : state'[x] = "running" => state[x] = "running"
    BY <1>a, <1>6, FinishEffect DEF TypeOK, Supervised, Reap, Terminal
  <2> QED
    BY <1>a, <2>1, <2>2, <2>3, RowsFrame
<1>7. ASSUME NEW e \in Executions, TimeOut(e) PROVE RowsAgree'
  <2>1. UNCHANGED <<attempt, bound, row>>
    BY <1>a, <1>7 DEF TypeOK, TimeOut, Kill, Terminal
  <2>2. \A x \in Executions, a \in Attempts : a > attempt[x] /\ proc[<<x, a>>] = "none" =>
          proc'[<<x, a>>] = "none"
    BY <1>a, <1>7 DEF TypeOK, Live, Workers, TimeOut, Kill, Terminal
  <2>3. \A x \in Executions : state'[x] = "running" => state[x] = "running"
    BY <1>a, <1>7, FinishEffect DEF TypeOK, Supervised, TimeOut, Kill, Terminal
  <2> QED
    BY <1>a, <2>1, <2>2, <2>3, RowsFrame
<1>8. ASSUME NEW e \in Executions, Interrupt(e) PROVE RowsAgree'
  <2>1. UNCHANGED <<attempt, bound, row>>
    BY <1>a, <1>8 DEF TypeOK, Interrupt
  <2>2. \A x \in Executions, a \in Attempts : a > attempt[x] /\ proc[<<x, a>>] = "none" =>
          proc'[<<x, a>>] = "none"
    BY <1>a, <1>8 DEF TypeOK, Live, Workers, Interrupt
  <2>3. \A x \in Executions : state'[x] = "running" => state[x] = "running"
    BY <1>a, <1>8 DEF TypeOK, Supervised, Interrupt
  <2> QED
    BY <1>a, <2>1, <2>2, <2>3, RowsFrame
<1>9. ASSUME NEW e \in Executions, ReapInterrupted(e) PROVE RowsAgree'
  <2>1. UNCHANGED <<attempt, bound, row>>
    BY <1>a, <1>9 DEF TypeOK, ReapInterrupted, Terminal
  <2>2. \A x \in Executions, a \in Attempts : a > attempt[x] /\ proc[<<x, a>>] = "none" =>
          proc'[<<x, a>>] = "none"
    BY <1>a, <1>9 DEF TypeOK, Live, Workers, ReapInterrupted, Terminal
  <2>3. \A x \in Executions : state'[x] = "running" => state[x] = "running"
    BY <1>a, <1>9, FinishEffect DEF TypeOK, Supervised, ReapInterrupted, Terminal
  <2> QED
    BY <1>a, <2>1, <2>2, <2>3, RowsFrame
<1>10. ASSUME NEW e \in Executions, NEW outcome \in {"cancelled", "foreground_ended"},
             CancelLookup(e, outcome) PROVE RowsAgree'
  <2>1. UNCHANGED <<attempt, bound, row>>
    BY <1>a, <1>10 DEF TypeOK, CancelLookup
  <2>2. \A x \in Executions, a \in Attempts : a > attempt[x] /\ proc[<<x, a>>] = "none" =>
          proc'[<<x, a>>] = "none"
    BY <1>a, <1>10 DEF TypeOK, Live, Workers, CancelLookup
  <2>3. \A x \in Executions : state'[x] = "running" => state[x] = "running"
    BY <1>a, <1>10 DEF TypeOK, Supervised, CancelLookup
  <2> QED
    BY <1>a, <2>1, <2>2, <2>3, RowsFrame
<1>11. ASSUME NEW e \in Executions, CancelRecord(e) PROVE RowsAgree'
  <2>1. UNCHANGED <<attempt, bound, row>>
    BY <1>a, <1>11 DEF TypeOK, CancelRecord, Terminal
  <2>2. \A x \in Executions, a \in Attempts : a > attempt[x] /\ proc[<<x, a>>] = "none" =>
          proc'[<<x, a>>] = "none"
    BY <1>a, <1>11 DEF TypeOK, Live, Workers, CancelRecord, Terminal
  <2>3. \A x \in Executions : state'[x] = "running" => state[x] = "running"
    BY <1>a, <1>11, CancelOutcome, FinishEffect DEF TypeOK, Supervised, CancelRecord,
       Terminal
  <2> QED
    BY <1>a, <2>1, <2>2, <2>3, RowsFrame
<1>12. ASSUME NEW w \in Workers, NEW how \in {"succeeded", "gone"}, ProcessEnds(w, how)
       PROVE  RowsAgree'
  <2>1. UNCHANGED <<attempt, bound, row>>
    BY <1>a, <1>12 DEF TypeOK, ProcessEnds
  <2>2. \A x \in Executions, a \in Attempts : a > attempt[x] /\ proc[<<x, a>>] = "none" =>
          proc'[<<x, a>>] = "none"
    BY <1>a, <1>12 DEF TypeOK, Live, Workers, ProcessEnds
  <2>3. \A x \in Executions : state'[x] = "running" => state[x] = "running"
    BY <1>a, <1>12 DEF TypeOK, Supervised, ProcessEnds
  <2> QED
    BY <1>a, <2>1, <2>2, <2>3, RowsFrame
<1>13. ASSUME Gone PROVE RowsAgree'
  <2>1. UNCHANGED <<attempt, bound, row>>
    BY <1>a, <1>13 DEF TypeOK, Gone
  <2>2. \A x \in Executions, a \in Attempts : a > attempt[x] /\ proc[<<x, a>>] = "none" =>
          proc'[<<x, a>>] = "none"
    BY <1>a, <1>13 DEF TypeOK, Live, Workers, Gone
  <2>3. \A x \in Executions : state'[x] = "running" => state[x] = "running"
    BY <1>a, <1>13 DEF TypeOK, Supervised, Gone
  <2> QED
    BY <1>a, <2>1, <2>2, <2>3, RowsFrame
<1>14. ASSUME BeginShutdown PROVE RowsAgree'
  BY <1>a, <1>14 DEF RowsAgree, Current, BeginShutdown
<1>15. ASSUME StopClaiming PROVE RowsAgree'
  BY <1>a, <1>15 DEF RowsAgree, Current, StopClaiming
<1>16. ASSUME DrainExpires PROVE RowsAgree'
  BY <1>a, <1>16 DEF RowsAgree, Current, DrainExpires
<1>17. ASSUME VerifySurvivors PROVE RowsAgree'
  BY <1>a, <1>17 DEF RowsAgree, Current, VerifySurvivors
<1>18. ASSUME Recover PROVE RowsAgree'
  <2>1. CASE RecoveryConflicts
    <3>1. UNCHANGED <<attempt, bound, row, proc, state>>
      BY <1>18, <2>1 DEF Recover
    <3> QED
      BY <1>a, <3>1, RowsFrame
  <2>2. CASE ~ RecoveryConflicts
    <3>1. Requeue /\ UNCHANGED proc
      BY <1>18, <2>2 DEF Recover
    <3>2. ASSUME NEW x \in Executions, x \notin Interrupted
          PROVE  /\ state'[x] = state[x]
                 /\ \A a \in Attempts : row'[<<x, a>>] = row[<<x, a>>]
      BY <3>1, <3>2 DEF Requeue, Orphaned, Workers
    <3>3. ASSUME NEW x \in Executions, x \in Interrupted
          PROVE  /\ state'[x] \in {"queued", "ambiguous_live_orphan"}
                 /\ state[x] = "running"
                 /\ \A a \in Attempts :
                      row'[<<x, a>>] # "none" <=> row[<<x, a>>] # "none" \/ a = bound[x]
      BY <3>1, <3>3 DEF Requeue, Workers, Interrupted
    <3>4. UNCHANGED <<attempt, bound>>
      BY <3>1 DEF Requeue
    <3>5. /\ attempt \in [Executions -> Attempts \cup {0}]
          /\ bound \in [Executions -> Attempts \cup {0}]
      BY <1>a DEF TypeOK
    <3>a. 0 \notin Attempts
      BY DEF Attempts
    <3>6. ASSUME NEW x \in Executions, NEW a \in Attempts
          PROVE  row'[<<x, a>>] # "none" <=> row[<<x, a>>] # "none"
      <4>1. a = bound[x] => row[<<x, a>>] # "none"
        BY <1>a, <3>a, Zenon DEF RowsAgree
      <4> QED
        BY <3>2, <3>3, <4>1
    <3>7. ASSUME NEW x \in Executions, state'[x] = "running" PROVE x \notin Interrupted
      BY <3>3, <3>7
    <3>8. ASSUME NEW x \in Executions, NEW a \in Attempts, a > attempt[x]
          PROVE  row'[<<x, a>>] = "none" /\ proc'[<<x, a>>] = "none"
      BY <1>a, <3>1, <3>6, <3>8 DEF RowsAgree
    <3>9. ASSUME NEW x \in Executions, bound[x] # 0
          PROVE  row'[<<x, bound[x]>>] # "none"
      <4>1. bound[x] \in Attempts
        BY <3>5, <3>9
      <4>2. row[<<x, bound[x]>>] # "none"
        BY <1>a, <3>9, Zenon DEF RowsAgree
      <4> QED
        BY <3>6, <4>1, <4>2
    <3>10. ASSUME NEW x \in Executions, attempt[x] # 0, row'[<<x, attempt[x]>>] # "none"
           PROVE  bound[x] = attempt[x]
      <4>1. attempt[x] \in Attempts
        BY <3>5, <3>10
      <4>2. row[<<x, attempt[x]>>] # "none"
        BY <3>6, <3>10, <4>1
      <4> QED
        BY <1>a, <3>10, <4>2, Zenon DEF RowsAgree
    <3>11. ASSUME NEW x \in Executions, state'[x] = "running", attempt[x] # 0
           PROVE  row'[<<x, attempt[x]>>] \in {"none", "running"}
      <4>1. attempt[x] \in Attempts
        BY <3>5, <3>11
      <4>2. state[x] = "running" /\ row'[<<x, attempt[x]>>] = row[<<x, attempt[x]>>]
        BY <3>2, <3>7, <3>11, <4>1
      <4> QED
        BY <1>a, <3>11, <4>2, Zenon DEF RowsAgree
    <3> QED
      BY <3>4, <3>8, <3>9, <3>10, <3>11 DEF RowsAgree, Current
  <2> QED
    BY <2>1, <2>2
<1>19. ASSUME UNCHANGED vars PROVE RowsAgree'
  BY <1>a, <1>19 DEF RowsAgree, Current, vars
<1>20. ASSUME NEW e \in Executions, StorageFails(e) PROVE RowsAgree'
  <2>1. UNCHANGED <<attempt, bound, row>>
    BY <1>a, <1>20 DEF TypeOK, StorageFails, Kill, Terminal
  <2>2. \A x \in Executions, a \in Attempts : a > attempt[x] /\ proc[<<x, a>>] = "none" =>
          proc'[<<x, a>>] = "none"
    BY <1>a, <1>20 DEF TypeOK, Live, Workers, StorageFails, Kill, Terminal
  <2>3. \A x \in Executions : state'[x] = "running" => state[x] = "running"
    BY <1>a, <1>20 DEF TypeOK, Supervised, StorageFails, Kill, Terminal
  <2> QED
    BY <1>a, <2>1, <2>2, <2>3, RowsFrame
<1> QED
  BY <1>1, <1>2, <1>3, <1>4, <1>5, <1>6, <1>7, <1>8, <1>9, <1>10, <1>11,
     <1>12, <1>13, <1>14, <1>15, <1>16, <1>17, <1>18, <1>19, <1>20
  DEF Next, Supervise, EndShutdown, Crash

(* Live workers with a row are current and known to a starting daemon. *)
LEMMA LiveStep == ControlInv /\ [Next]_vars => LiveRows'
<1> SUFFICES ASSUME ControlInv, [Next]_vars PROVE LiveRows'
    OBVIOUS
<1> USE DEF durable, inDaemon, os, history
<1>a. TypeOK /\ AttemptsPerUpset /\ Supervised /\ StagesAgree /\ RowsAgree /\ LiveRows
  BY DEF ControlInv
<1>1. ASSUME NEW e \in Executions, Submit(e) PROVE LiveRows'
  BY <1>a, <1>1 DEF LiveRows, RowsAgree, StagesAgree, Live, TypeOK, Supervised, Current,
     Workers, Submit
<1>2. ASSUME NEW e \in Executions, ClaimNext(e) PROVE LiveRows'
  BY <1>a, <1>2, ClaimLedger DEF LiveRows, RowsAgree, StagesAgree, Live, TypeOK,
     Supervised, Attempts, Current, Workers, ClaimNext
<1>3. ASSUME NEW e \in Executions, Spawn(e) PROVE LiveRows'
  BY <1>a, <1>3, CurrentWorker, FinishEffect DEF LiveRows, RowsAgree, StagesAgree, Live,
     TypeOK, Supervised, Terminal, Current, Workers, Spawn
<1>4. ASSUME NEW e \in Executions, Bind(e) PROVE LiveRows'
  BY <1>a, <1>4, CurrentWorker DEF LiveRows, RowsAgree, StagesAgree, Live, TypeOK,
     Supervised, Current, Workers, Bind, Kill
<1>5. ASSUME NEW e \in Executions, OpenGate(e) PROVE LiveRows'
  BY <1>a, <1>5, CurrentWorker, FinishEffect DEF LiveRows, RowsAgree, StagesAgree, Live,
     TypeOK, Supervised, Terminal, Current, Workers, OpenGate, Kill
<1>6. ASSUME NEW e \in Executions, Reap(e) PROVE LiveRows'
  BY <1>a, <1>6, CurrentWorker, FinishEffect DEF LiveRows, RowsAgree, StagesAgree, Live,
     TypeOK, Supervised, Terminal, Current, Workers, Reap
<1>7. ASSUME NEW e \in Executions, TimeOut(e) PROVE LiveRows'
  BY <1>a, <1>7, CurrentWorker, FinishEffect DEF LiveRows, RowsAgree, StagesAgree, Live,
     TypeOK, Supervised, Terminal, Current, Workers, TimeOut, Kill
<1>8. ASSUME NEW e \in Executions, Interrupt(e) PROVE LiveRows'
  BY <1>a, <1>8 DEF LiveRows, RowsAgree, StagesAgree, Live, TypeOK, Supervised, Current,
     Workers, Interrupt
<1>9. ASSUME NEW e \in Executions, ReapInterrupted(e) PROVE LiveRows'
  BY <1>a, <1>9, FinishEffect DEF LiveRows, RowsAgree, StagesAgree, Live, TypeOK,
     Supervised, Terminal, Current, Workers, ReapInterrupted
<1>10. ASSUME NEW e \in Executions, NEW outcome \in {"cancelled", "foreground_ended"},
             CancelLookup(e, outcome) PROVE LiveRows'
  BY <1>a, <1>10 DEF LiveRows, RowsAgree, StagesAgree, Live, TypeOK, Supervised, Current,
     Workers, CancelLookup
<1>11. ASSUME NEW e \in Executions, CancelRecord(e) PROVE LiveRows'
  BY <1>a, <1>11, CancelOutcome, FinishEffect DEF LiveRows, RowsAgree, StagesAgree, Live,
     TypeOK, Supervised, Terminal, Current, Workers, CancelRecord
<1>12. ASSUME NEW w \in Workers, NEW how \in {"succeeded", "gone"}, ProcessEnds(w, how)
       PROVE  LiveRows'
  BY <1>a, <1>12 DEF LiveRows, RowsAgree, StagesAgree, Live, TypeOK, Supervised, Current,
     Workers, ProcessEnds
<1>13. ASSUME Gone PROVE LiveRows'
  BY <1>a, <1>13 DEF LiveRows, RowsAgree, StagesAgree, Live, TypeOK, Supervised, Current,
     Workers, Gone
<1>14. ASSUME BeginShutdown PROVE LiveRows'
  BY <1>a, <1>14 DEF LiveRows, RowsAgree, StagesAgree, Live, TypeOK, Supervised, Current,
     Workers, BeginShutdown
<1>15. ASSUME StopClaiming PROVE LiveRows'
  BY <1>a, <1>15 DEF LiveRows, RowsAgree, StagesAgree, Live, TypeOK, Supervised, Current,
     Workers, StopClaiming
<1>16. ASSUME DrainExpires PROVE LiveRows'
  BY <1>a, <1>16 DEF LiveRows, RowsAgree, StagesAgree, Live, TypeOK, Supervised, Current,
     Workers, DrainExpires
<1>17. ASSUME VerifySurvivors PROVE LiveRows'
  BY <1>a, <1>17 DEF LiveRows, RowsAgree, StagesAgree, Live, TypeOK, Supervised, Current,
     Workers, VerifySurvivors
<1>18. ASSUME Recover PROVE LiveRows'
  <2>1. CASE RecoveryConflicts
    BY <1>a, <1>18, <2>1 DEF Recover, LiveRows, Live
  <2>2. CASE ~ RecoveryConflicts
    <3>1. Requeue /\ UNCHANGED <<proc, attempt, bound>> /\ daemon = "starting"
      BY <1>18, <2>2 DEF Recover, Requeue
    <3>2. ASSUME NEW x \in Executions, NEW a \in Attempts, row'[<<x, a>>] # "none",
                 Live(<<x, a>>)'
          PROVE  a = attempt[x] /\ state'[x] \notin {"none", "queued"}
      <4>1. Live(<<x, a>>) /\ a # 0
        BY <3>1, <3>2 DEF Live, Attempts
      <4>2. row[<<x, a>>] # "none"
        <5>1. CASE x \in Interrupted /\ a = bound[x]
          BY <1>a, <4>1, <5>1 DEF RowsAgree
        <5>2. CASE ~ (x \in Interrupted /\ a = bound[x])
          BY <3>1, <3>2, <5>2 DEF Requeue, Workers
        <5> QED
          BY <5>1, <5>2
      <4>3. a = attempt[x] /\ state[x] \notin {"none", "queued"}
        BY <1>a, <4>1, <4>2 DEF LiveRows
      <4>4. CASE state[x] = "running"
        <5>1. row[<<x, a>>] = "running" /\ bound[x] = a
          BY <1>a, <4>1, <4>2, <4>3, <4>4 DEF RowsAgree, Current
        <5>2. <<x, a>> \in survivors
          BY <1>a, <3>1, <4>1, <5>1 DEF LiveRows, Workers
        <5>3. x \in Orphaned
          BY <4>1, <4>4, <5>1, <5>2 DEF Orphaned, Interrupted
        <5> QED
          BY <3>1, <4>3, <5>3 DEF Requeue
      <4>5. CASE state[x] # "running"
        BY <3>1, <4>3, <4>5 DEF Requeue, Interrupted, Orphaned
      <4> QED
        BY <4>4, <4>5
    <3>3. daemon' # "starting"
      BY <3>1 DEF Requeue
    <3> QED
      BY <3>1, <3>2, <3>3 DEF LiveRows
  <2> QED
    BY <2>1, <2>2
<1>19. ASSUME UNCHANGED vars PROVE LiveRows'
  BY <1>a, <1>19 DEF LiveRows, RowsAgree, StagesAgree, Live, TypeOK, Supervised, Current,
     Workers, vars
<1>20. ASSUME NEW e \in Executions, StorageFails(e) PROVE LiveRows'
  BY <1>a, <1>20, CurrentWorker DEF LiveRows, RowsAgree, StagesAgree, Live,
     TypeOK, Supervised, Terminal, Current, Workers, StorageFails, Kill
<1> QED
  BY <1>1, <1>2, <1>3, <1>4, <1>5, <1>6, <1>7, <1>8, <1>9, <1>10, <1>11,
     <1>12, <1>13, <1>14, <1>15, <1>16, <1>17, <1>18, <1>19, <1>20
  DEF Next, Supervise, EndShutdown, Crash

(* Completion is only recorded on success, and stays true. *)
LEMMA CompletedStep == ControlInv /\ [Next]_vars => CompletedMeansSucceeded'
<1> SUFFICES ASSUME ControlInv, [Next]_vars PROVE CompletedMeansSucceeded'
    OBVIOUS
<1> USE DEF durable, inDaemon, os, history
<1>a. TypeOK /\ AttemptsPerUpset /\ Supervised /\ CompletedMeansSucceeded
  BY DEF ControlInv
<1>1. ASSUME NEW e \in Executions, Submit(e) PROVE CompletedMeansSucceeded'
  <2>1. UNCHANGED attempt
    BY <1>a, <1>1 DEF TypeOK, Submit
  <2>2. \A x \in Executions : state'[x] = "completed" =>
          /\ state[x] = "completed"
          /\ proc[Current(x)] = "succeeded" => proc'[Current(x)] = "succeeded"
    BY <1>a, <1>1 DEF TypeOK, Supervised, Live, Current, Submit
  <2> QED
    BY <1>a, <2>1, <2>2, CompletedFrame
<1>2. ASSUME NEW e \in Executions, ClaimNext(e) PROVE CompletedMeansSucceeded'
  <2>1. /\ \A x \in Executions : x # e => attempt'[x] = attempt[x] /\ state'[x] = state[x]
        /\ state'[e] = "running" /\ UNCHANGED proc
    BY <1>a, <1>2 DEF ClaimNext, TypeOK
  <2> QED
    BY <1>a, <2>1 DEF CompletedMeansSucceeded, Current
<1>3. ASSUME NEW e \in Executions, Spawn(e) PROVE CompletedMeansSucceeded'
  <2>1. \A x \in Executions : state'[x] = "completed" => state[x] = "completed" /\ x # e
    BY <1>a, <1>3, FinishEffect DEF Spawn, Supervised, Terminal, TypeOK
  <2>2. ASSUME NEW x \in Executions, x # e, state[x] = "completed"
        PROVE  proc'[Current(x)] = proc[Current(x)]
    <3>1. Current(x) \in Workers /\ Current(x) # Current(e)
      BY <1>a, <2>2, CurrentWorker DEF AttemptsPerUpset, Current
    <3> QED
      BY <1>a, <1>3, <3>1 DEF Spawn, TypeOK
  <2> QED
    BY <1>a, <1>3, <2>1, <2>2, CompletedFrame DEF Spawn
<1>4. ASSUME NEW e \in Executions, Bind(e) PROVE CompletedMeansSucceeded'
  <2>1. \A x \in Executions : state'[x] = "completed" => state[x] = "completed"
    BY <1>a, <1>4 DEF Bind, Terminal, TypeOK
  <2>2. ASSUME NEW x \in Executions, state[x] = "completed", proc[Current(x)] = "succeeded"
        PROVE  proc'[Current(x)] = "succeeded"
    <3>1. Current(x) \in Workers
      BY <1>a, <2>2, CurrentWorker DEF AttemptsPerUpset
    <3> QED
      BY <1>a, <1>4, <2>2, <3>1 DEF Bind, Kill, Live, TypeOK
  <2> QED
    BY <1>a, <1>4, <2>1, <2>2, CompletedFrame DEF Bind
<1>5. ASSUME NEW e \in Executions, OpenGate(e) PROVE CompletedMeansSucceeded'
  <2>1. \A x \in Executions : state'[x] = "completed" => state[x] = "completed"
    BY <1>a, <1>5, FinishEffect DEF OpenGate, Terminal, TypeOK
  <2>2. ASSUME NEW x \in Executions, state[x] = "completed", proc[Current(x)] = "succeeded"
        PROVE  proc'[Current(x)] = "succeeded"
    <3>1. Current(x) \in Workers
      BY <1>a, <2>2, CurrentWorker DEF AttemptsPerUpset
    <3> QED
      BY <1>a, <1>5, <2>2, <3>1 DEF OpenGate, Kill, Live, TypeOK
  <2> QED
    BY <1>a, <1>5, <2>1, <2>2, CompletedFrame DEF OpenGate
<1>6. ASSUME NEW e \in Executions, Reap(e) PROVE CompletedMeansSucceeded'
  <2>1. /\ \A x \in Executions : x # e => state'[x] = state[x]
        /\ state'[e] = "completed" => proc[Current(e)] = "succeeded"
    BY <1>a, <1>6, FinishEffect DEF Reap, Supervised, Terminal
  <2> QED
    BY <1>a, <1>6, <2>1 DEF CompletedMeansSucceeded, Current, Reap
<1>7. ASSUME NEW e \in Executions, TimeOut(e) PROVE CompletedMeansSucceeded'
  <2>1. \A x \in Executions : state'[x] = "completed" => state[x] = "completed"
    BY <1>a, <1>7, FinishEffect DEF TimeOut, Terminal, TypeOK
  <2>2. ASSUME NEW x \in Executions, state[x] = "completed", proc[Current(x)] = "succeeded"
        PROVE  proc'[Current(x)] = "succeeded"
    <3>1. Current(x) \in Workers
      BY <1>a, <2>2, CurrentWorker DEF AttemptsPerUpset
    <3> QED
      BY <1>a, <1>7, <2>2, <3>1 DEF TimeOut, Kill, Live, TypeOK
  <2> QED
    BY <1>a, <1>7, <2>1, <2>2, CompletedFrame DEF TimeOut
<1>8. ASSUME NEW e \in Executions, Interrupt(e) PROVE CompletedMeansSucceeded'
  <2>1. UNCHANGED attempt
    BY <1>a, <1>8 DEF TypeOK, Interrupt
  <2>2. \A x \in Executions : state'[x] = "completed" =>
          /\ state[x] = "completed"
          /\ proc[Current(x)] = "succeeded" => proc'[Current(x)] = "succeeded"
    BY <1>a, <1>8 DEF TypeOK, Supervised, Live, Current, Interrupt
  <2> QED
    BY <1>a, <2>1, <2>2, CompletedFrame
<1>9. ASSUME NEW e \in Executions, ReapInterrupted(e) PROVE CompletedMeansSucceeded'
  <2>1. UNCHANGED attempt
    BY <1>a, <1>9 DEF TypeOK, ReapInterrupted, Terminal
  <2>2. \A x \in Executions : state'[x] = "completed" =>
          /\ state[x] = "completed"
          /\ proc[Current(x)] = "succeeded" => proc'[Current(x)] = "succeeded"
    BY <1>a, <1>9, FinishEffect DEF TypeOK, Supervised, Live, Current, ReapInterrupted,
       Terminal
  <2> QED
    BY <1>a, <2>1, <2>2, CompletedFrame
<1>10. ASSUME NEW e \in Executions, NEW outcome \in {"cancelled", "foreground_ended"},
             CancelLookup(e, outcome) PROVE CompletedMeansSucceeded'
  <2>1. UNCHANGED attempt
    BY <1>a, <1>10 DEF TypeOK, CancelLookup
  <2>2. \A x \in Executions : state'[x] = "completed" =>
          /\ state[x] = "completed"
          /\ proc[Current(x)] = "succeeded" => proc'[Current(x)] = "succeeded"
    BY <1>a, <1>10 DEF TypeOK, Supervised, Live, Current, CancelLookup
  <2> QED
    BY <1>a, <2>1, <2>2, CompletedFrame
<1>11. ASSUME NEW e \in Executions, CancelRecord(e) PROVE CompletedMeansSucceeded'
  <2>1. UNCHANGED attempt
    BY <1>a, <1>11 DEF TypeOK, CancelRecord, Terminal
  <2>2. \A x \in Executions : state'[x] = "completed" =>
          /\ state[x] = "completed"
          /\ proc[Current(x)] = "succeeded" => proc'[Current(x)] = "succeeded"
    BY <1>a, <1>11, CancelOutcome, FinishEffect DEF TypeOK, Supervised, Live, Current,
       CancelRecord, Terminal
  <2> QED
    BY <1>a, <2>1, <2>2, CompletedFrame
<1>12. ASSUME NEW w \in Workers, NEW how \in {"succeeded", "gone"}, ProcessEnds(w, how)
       PROVE  CompletedMeansSucceeded'
  <2>1. UNCHANGED attempt
    BY <1>a, <1>12 DEF TypeOK, ProcessEnds
  <2>2. \A x \in Executions : state'[x] = "completed" =>
          /\ state[x] = "completed"
          /\ proc[Current(x)] = "succeeded" => proc'[Current(x)] = "succeeded"
    BY <1>a, <1>12 DEF TypeOK, Supervised, Live, Current, ProcessEnds
  <2> QED
    BY <1>a, <2>1, <2>2, CompletedFrame
<1>13. ASSUME Gone PROVE CompletedMeansSucceeded'
  <2>1. ASSUME NEW x \in Executions, state[x] = "completed"
        PROVE  proc'[Current(x)] = "succeeded"
    <3>1. Current(x) \in Workers /\ proc[Current(x)] = "succeeded"
      BY <1>a, <2>1, CurrentWorker DEF AttemptsPerUpset, CompletedMeansSucceeded
    <3> QED
      BY <1>13, <3>1 DEF Gone
  <2> QED
    BY <1>13, <2>1 DEF CompletedMeansSucceeded, Current, Gone
<1>14. ASSUME BeginShutdown PROVE CompletedMeansSucceeded'
  BY <1>a, <1>14 DEF CompletedMeansSucceeded, Current, BeginShutdown
<1>15. ASSUME StopClaiming PROVE CompletedMeansSucceeded'
  BY <1>a, <1>15 DEF CompletedMeansSucceeded, Current, StopClaiming
<1>16. ASSUME DrainExpires PROVE CompletedMeansSucceeded'
  BY <1>a, <1>16 DEF CompletedMeansSucceeded, Current, DrainExpires
<1>17. ASSUME VerifySurvivors PROVE CompletedMeansSucceeded'
  BY <1>a, <1>17 DEF CompletedMeansSucceeded, Current, VerifySurvivors
<1>18. ASSUME Recover PROVE CompletedMeansSucceeded'
  <2>1. \A x \in Executions : state'[x] = "completed" => state[x] = "completed"
    BY <1>a, <1>18 DEF Recover, Requeue, Interrupted
  <2>2. UNCHANGED <<attempt, proc>>
    BY <1>18 DEF Recover, Requeue
  <2> QED
    BY <1>a, <2>1, <2>2 DEF CompletedMeansSucceeded, Current
<1>19. ASSUME UNCHANGED vars PROVE CompletedMeansSucceeded'
  BY <1>a, <1>19 DEF CompletedMeansSucceeded, Current, vars
<1>20. ASSUME NEW e \in Executions, StorageFails(e) PROVE CompletedMeansSucceeded'
  <2>1. \A x \in Executions : state'[x] = "completed" => state[x] = "completed"
    BY <1>a, <1>20 DEF StorageFails, Terminal, TypeOK
  <2>2. ASSUME NEW x \in Executions, state[x] = "completed", proc[Current(x)] = "succeeded"
        PROVE  proc'[Current(x)] = "succeeded"
    <3>1. Current(x) \in Workers
      BY <1>a, <2>2, CurrentWorker DEF AttemptsPerUpset
    <3> QED
      BY <1>a, <1>20, <2>2, <3>1 DEF StorageFails, Kill, Live, TypeOK
  <2> QED
    BY <1>a, <1>20, <2>1, <2>2, CompletedFrame DEF StorageFails
<1> QED
  BY <1>1, <1>2, <1>3, <1>4, <1>5, <1>6, <1>7, <1>8, <1>9, <1>10, <1>11,
     <1>12, <1>13, <1>14, <1>15, <1>16, <1>17, <1>18, <1>19, <1>20
  DEF Next, Supervise, EndShutdown, Crash

-----------------------------------------------------------------------------
(* The invariant holds before anything was submitted: no slot is taken, so *)
(* every pool is full.                                                     *)
LEMMA InitControl == Init => ControlInv
<1> SUFFICES ASSUME Init PROVE ControlInv
  OBVIOUS
<1>1. TypeOK
  BY CeilingAssumption DEF Init, TypeOK, States, Kinds, Attempts, NoCancel
<1>2. AttemptsPerUpset /\ Supervised /\ StagesAgree /\ LiveRows
  BY DEF Init, AttemptsPerUpset, Supervised, StagesAgree, LiveRows, Live, Workers
<1>3. RowsAgree
  BY DEF Init, RowsAgree, Workers
<1>4. SlotLedger
  <2>1. Occupied = {} /\ \A p : OccupiedBy(p) = {}
    BY DEF Init, Occupied, OccupiedBy
  <2>2. Cardinality({}) = 0
    BY FS_EmptySet
  <2>3. /\ free["global"] = GlobalCeiling
        /\ \A p \in Projects : free[p] = Ceiling[p]
        /\ held = {}
    BY CeilingAssumption DEF Init
  <2>4. \A p \in Projects : Cardinality(OccupiedBy(p)) = 0
    BY <2>1, <2>2, Zenon
  <2>5. Cardinality(Occupied) = 0
    BY <2>1, <2>2, Zenon
  <2>6. held = {Current(e) : e \in Occupied}
    BY <2>1, <2>3
  <2>7. /\ free["global"] = GlobalCeiling - Cardinality(Occupied)
        /\ \A p \in Projects : free[p] = Ceiling[p] - Cardinality(OccupiedBy(p))
    BY <2>3, <2>4, <2>5, CeilingAssumption
  <2> QED
    BY <2>6, <2>7 DEF SlotLedger
<1>5. CompletedMeansSucceeded
  BY DEF Init, CompletedMeansSucceeded
<1> QED
  BY <1>1, <1>2, <1>3, <1>4, <1>5 DEF ControlInv

LEMMA ControlStep == ControlInv /\ [Next]_vars => ControlInv'
  BY SlotStep, TypeStep, AttemptsStep, SupervisedStep, StagesStep, RowsStep, LiveStep,
     CompletedStep DEF ControlInv, SlotsKept

LEMMA ControlInvariant == Spec => []ControlInv
  BY InitControl, ControlStep, PTL DEF Spec

(* Types are kept, the bound on attempts included: however the daemon      *)
(* crashes, leaves its workers behind or is refused an outcome by its      *)
(* database, no execution is claimed more than once per upset and once     *)
(* more.                                                                   *)
THEOREM Typing == Spec => []TypeOK
<1>1. ControlInv => TypeOK
  BY DEF ControlInv
<1> QED
  BY <1>1, ControlInvariant, PTL

(* At most one attempt more than there were upsets, whatever was           *)
(* cancelled, timed out or recovered: recover_running requeues only what a *)
(* crash, an expired drain or a failed outcome left running.               *)
THEOREM OneAttemptPerUpset == Spec => []AttemptsPerUpset
<1>1. ControlInv => AttemptsPerUpset
  BY DEF ControlInv
<1> QED
  BY <1>1, ControlInvariant, PTL

(* The slot pools balance: claim_next, finish and recover_running leave    *)
(* exactly the reservations of the running and the orphaned executions     *)
(* held and the rest of each pool free.                                    *)
THEOREM SlotsBalance == Spec => []SlotLedger
<1>1. ControlInv => SlotLedger
  BY DEF ControlInv
<1> QED
  BY <1>1, ControlInvariant, PTL

(* The ceilings hold: never more executions occupy a slot than the global  *)
(* ceiling and their project's ceiling allow.                              *)
THEOREM CeilingsHold ==
  Spec => [](/\ Cardinality(Occupied) <= GlobalCeiling
             /\ \A p \in Projects : Cardinality(OccupiedBy(p)) <= Ceiling[p])
<1>1. ASSUME ControlInv
      PROVE  /\ Cardinality(Occupied) <= GlobalCeiling
             /\ \A p \in Projects : Cardinality(OccupiedBy(p)) <= Ceiling[p]
  <2>1. /\ Occupied \in SUBSET Executions
        /\ \A p \in Projects : OccupiedBy(p) \in SUBSET Executions
    BY DEF Occupied, OccupiedBy
  <2>2. /\ Cardinality(Occupied) \in Nat
        /\ \A p \in Projects : Cardinality(OccupiedBy(p)) \in Nat
    BY <2>1, CountStaying
  <2>3. /\ free["global"] \in Nat /\ \A p \in Projects : free[p] \in Nat
        /\ free["global"] = GlobalCeiling - Cardinality(Occupied)
        /\ \A p \in Projects : free[p] = Ceiling[p] - Cardinality(OccupiedBy(p))
    BY <1>1 DEF ControlInv, TypeOK, SlotLedger
  <2> QED
    BY <2>2, <2>3, CeilingAssumption
<1> QED
  BY <1>1, ControlInvariant, PTL

(* Completion is only ever recorded for an attempt whose process exited    *)
(* with success.                                                           *)
THEOREM CompletionIsSuccess == Spec => []CompletedMeansSucceeded
<1>1. ControlInv => CompletedMeansSucceeded
  BY DEF ControlInv
<1> QED
  BY <1>1, ControlInvariant, PTL

(* No second worker beside a bound survivor: verified_live_workers and     *)
(* recover_running between them never let an execution be claimed again    *)
(* while a worker with a row lives, even if it is another crash that       *)
(* brought the daemon there.                                               *)
THEOREM SurvivorNotReplaced == Spec => []BoundSurvivorNotReplaced
<1>1. ASSUME ControlInv PROVE BoundSurvivorNotReplaced
  <2> SUFFICES ASSUME NEW e \in Executions, NEW a \in Attempts, NEW b \in Attempts, a < b,
                      Live(<<e, a>>), proc[<<e, b>>] # "none", row[<<e, a>>] # "none"
               PROVE  FALSE
    BY DEF BoundSurvivorNotReplaced
  <2>1. a = attempt[e]
    BY <1>1 DEF ControlInv, LiveRows
  <2>2. b > attempt[e]
    BY <2>1 DEF Attempts
  <2> QED
    BY <1>1, <2>2, Zenon DEF ControlInv, RowsAgree
<1> QED
  BY <1>1, ControlInvariant, PTL

(* A terminal execution stays as it was recorded. *)
LEMMA TerminalStep ==
  ASSUME ControlInv, [Next]_vars, NEW x \in Executions, state[x] \in Terminal
  PROVE  state'[x] = state[x]
<1> USE DEF durable, inDaemon, os, history
<1>a. TypeOK
  BY DEF ControlInv
<1>1. ASSUME NEW e \in Executions, Submit(e) PROVE state'[x] = state[x]
  BY <1>a, <1>1 DEF TypeOK, Terminal, Submit
<1>2. ASSUME NEW e \in Executions, ClaimNext(e) PROVE state'[x] = state[x]
  BY <1>a, <1>2 DEF TypeOK, Terminal, ClaimNext
<1>3. ASSUME NEW e \in Executions, Spawn(e) PROVE state'[x] = state[x]
  BY <1>a, <1>3, FinishEffect DEF TypeOK, Terminal, Spawn
<1>4. ASSUME NEW e \in Executions, Bind(e) PROVE state'[x] = state[x]
  BY <1>a, <1>4 DEF TypeOK, Terminal, Bind
<1>5. ASSUME NEW e \in Executions, OpenGate(e) PROVE state'[x] = state[x]
  BY <1>a, <1>5, FinishEffect DEF TypeOK, Terminal, OpenGate
<1>6. ASSUME NEW e \in Executions, Reap(e) PROVE state'[x] = state[x]
  BY <1>a, <1>6, FinishEffect DEF TypeOK, Terminal, Reap
<1>7. ASSUME NEW e \in Executions, TimeOut(e) PROVE state'[x] = state[x]
  BY <1>a, <1>7, FinishEffect DEF TypeOK, Terminal, TimeOut
<1>8. ASSUME NEW e \in Executions, Interrupt(e) PROVE state'[x] = state[x]
  BY <1>a, <1>8 DEF TypeOK, Terminal, Interrupt
<1>9. ASSUME NEW e \in Executions, ReapInterrupted(e) PROVE state'[x] = state[x]
  BY <1>a, <1>9, FinishEffect DEF TypeOK, Terminal, ReapInterrupted
<1>10. ASSUME NEW e \in Executions, NEW outcome \in {"cancelled", "foreground_ended"},
             CancelLookup(e, outcome) PROVE state'[x] = state[x]
  BY <1>a, <1>10 DEF TypeOK, Terminal, CancelLookup
<1>11. ASSUME NEW e \in Executions, CancelRecord(e) PROVE state'[x] = state[x]
  BY <1>a, <1>11, CancelOutcome, FinishEffect DEF TypeOK, Terminal, CancelRecord
<1>12. ASSUME NEW w \in Workers, NEW how \in {"succeeded", "gone"}, ProcessEnds(w, how)
       PROVE  state'[x] = state[x]
  BY <1>a, <1>12 DEF TypeOK, Terminal, ProcessEnds
<1>13. ASSUME Gone PROVE state'[x] = state[x]
  BY <1>a, <1>13 DEF TypeOK, Terminal, Gone
<1>14. ASSUME BeginShutdown PROVE state'[x] = state[x]
  BY <1>a, <1>14 DEF TypeOK, Terminal, BeginShutdown
<1>15. ASSUME StopClaiming PROVE state'[x] = state[x]
  BY <1>a, <1>15 DEF TypeOK, Terminal, StopClaiming
<1>16. ASSUME DrainExpires PROVE state'[x] = state[x]
  BY <1>a, <1>16 DEF TypeOK, Terminal, DrainExpires
<1>17. ASSUME VerifySurvivors PROVE state'[x] = state[x]
  BY <1>a, <1>17 DEF TypeOK, Terminal, VerifySurvivors
<1>18. ASSUME Recover PROVE state'[x] = state[x]
  <2>1. x \notin Interrupted /\ x \notin Orphaned
    BY DEF Interrupted, Orphaned, Terminal
  <2> QED
    BY <1>18, <2>1 DEF Recover, Requeue
<1>19. ASSUME UNCHANGED vars PROVE state'[x] = state[x]
  BY <1>a, <1>19 DEF TypeOK, Terminal, vars
<1>20. ASSUME NEW e \in Executions, StorageFails(e) PROVE state'[x] = state[x]
  BY <1>a, <1>20 DEF TypeOK, Terminal, StorageFails
<1> QED
  BY <1>1, <1>2, <1>3, <1>4, <1>5, <1>6, <1>7, <1>8, <1>9, <1>10,
     <1>11, <1>12, <1>13, <1>14, <1>15, <1>16, <1>17, <1>18, <1>19, <1>20
  DEF Next, Supervise, EndShutdown, Crash

(* Late outcomes, repeated cancellations and recoveries cannot rewrite a   *)
(* terminal state: finish and recover_running leave it alone.              *)
THEOREM OutcomeIsFinal == Spec => TerminalIsFinal
<1>1. ControlInv /\ [Next]_vars =>
        [\A e \in Executions : state[e] \in Terminal => state'[e] = state[e]]_vars
  BY TerminalStep
<1> QED
  BY <1>1, ControlInvariant, PTL DEF Spec, TerminalIsFinal

-----------------------------------------------------------------------------
Serving == daemon \notin {"down", "starting"}

(* The queue counts as the control plane does.                             *)
LEMMA QueueCounts == \A S : Queue!Cardinality(S) = Cardinality(S)
  BY DEF Queue!Cardinality, Cardinality

(* A step of a process, of a supervisor's stage or of a row that concerns  *)
(* no execution's state is none of the queue's.                            *)
LEMMA QueueStands ==
  ASSUME UNCHANGED state, Serving' = Serving
  PROVE  [Queue!Next]_(Queue!vars)
  BY DEF Queue!vars, Serving

(* A recorded outcome is the worker's own or the operator's: a supervised  *)
(* execution is not waiting in the queue, so its worker concludes what was *)
(* running; a cancellation may take it from the queue too.                 *)
LEMMA QueueFinish ==
  ASSUME ControlInv, NEW e \in Executions, NEW outcome \in Terminal,
         Finish(e, outcome), UNCHANGED daemon, Serving,
         outcome \in {"completed", "failed"} => state[e] # "queued"
  PROVE  [Queue!Next]_(Queue!vars)
<1>1. CASE state[e] \notin {"running", "queued"}
  BY <1>1, QueueStands DEF Finish, Serving
<1>2. CASE state[e] \in {"running", "queued"}
  <2>1. state' = [state EXCEPT ![e] = outcome]
    BY <1>2 DEF Finish
  <2>2. CASE outcome \in {"completed", "failed"}
    <3>1. Queue!Move(e, {"running"}, outcome)
      BY <1>2, <2>1, <2>2 DEF Queue!Move, Serving
    <3> QED
      BY <2>2, <3>1 DEF Queue!Next, Queue!Conclude
  <2>3. CASE outcome \in {"cancelled", "foreground_ended"}
    <3>1. Queue!Move(e, {"queued", "running"}, outcome)
      BY <1>2, <2>1 DEF Queue!Move, Serving
    <3> QED
      BY <2>3, <3>1 DEF Queue!Next, Queue!CallOff
  <2> QED
    BY <2>2, <2>3 DEF Terminal
<1> QED
  BY <1>1, <1>2

(* What a supervisor finds: a daemon that serves, and its own execution    *)
(* running or called off.                                                  *)
LEMMA SupervisedNotQueued ==
  ASSUME ControlInv, NEW e \in Executions, task[e] # "none"
  PROVE  Serving /\ state[e] # "queued"
  BY DEF ControlInv, TypeOK, Supervised, Serving

(* Every step of the daemon, its workers and a crash is one of the queue   *)
(* or none.                                                                *)
LEMMA QueueStep == ControlInv /\ [Next]_vars => [Queue!Next]_(Queue!vars)
<1> SUFFICES ASSUME ControlInv, [Next]_vars PROVE [Queue!Next]_(Queue!vars)
    OBVIOUS
<1> USE DEF durable, inDaemon, os, history
<1>1. ASSUME NEW e \in Executions, Submit(e) PROVE [Queue!Next]_(Queue!vars)
  <2>1. Queue!Enqueue(e)
    BY <1>1 DEF Submit, Queue!Enqueue, Queue!Move
  <2> QED
    BY <2>1 DEF Queue!Next
<1>2. ASSUME NEW e \in Executions, ClaimNext(e) PROVE [Queue!Next]_(Queue!vars)
  <2>1. Queue!Occupied = Occupied
    BY DEF Queue!Occupied, Occupied
  <2>2. {o \in Queue!Occupied : ProjectOf[o] = ProjectOf[e]} = OccupiedBy(ProjectOf[e])
    BY <2>1 DEF OccupiedBy
  <2>3. Queue!Move(e, {"queued"}, "running")
    BY <1>2 DEF ClaimNext, Queue!Move
  <2>4. Queue!Begin(e)
    <3>1. /\ Cardinality(Occupied) < GlobalCeiling
          /\ Cardinality(OccupiedBy(ProjectOf[e])) < Ceiling[ProjectOf[e]]
      BY <1>2 DEF ClaimNext
    <3>2. /\ Cardinality(Queue!Occupied) < GlobalCeiling
          /\ Cardinality({o \in Queue!Occupied : ProjectOf[o] = ProjectOf[e]})
               < Ceiling[ProjectOf[e]]
      BY <2>1, <2>2, <3>1, Zenon
    <3> QED
      BY <2>3, <3>2, QueueCounts, Zenon DEF Queue!Begin
  <2> QED
    BY <2>4 DEF Queue!Next
<1>3. ASSUME NEW e \in Executions, Supervise(e) PROVE [Queue!Next]_(Queue!vars)
  <2>1. task[e] # "none" /\ UNCHANGED daemon
    BY <1>3 DEF Supervise, Spawn, Bind, OpenGate, Reap, TimeOut, Interrupt, ReapInterrupted,
       StorageFails, Kill
  <2>2. \/ UNCHANGED state
        \/ Finish(e, "completed")
        \/ Finish(e, "failed")
    BY <1>3 DEF Supervise, Spawn, Bind, OpenGate, Reap, TimeOut, Interrupt, ReapInterrupted,
       StorageFails, Kill
  <2>3. {"completed", "failed"} \subseteq Terminal
    BY DEF Terminal
  <2>4. Serving /\ state[e] # "queued"
    BY <2>1, SupervisedNotQueued
  <2>5. Serving' = Serving
    BY <2>1 DEF Serving
  <2>6. CASE UNCHANGED state
    BY <2>5, <2>6, QueueStands
  <2>7. CASE Finish(e, "completed") \/ Finish(e, "failed")
    BY <2>1, <2>3, <2>4, <2>7, QueueFinish
  <2> QED
    BY <2>2, <2>6, <2>7
<1>4. ASSUME NEW e \in Executions, NEW outcome \in {"cancelled", "foreground_ended"},
             CancelLookup(e, outcome)
      PROVE  [Queue!Next]_(Queue!vars)
  BY <1>4, QueueStands DEF CancelLookup, Serving
<1>5. ASSUME NEW e \in Executions, CancelRecord(e) PROVE [Queue!Next]_(Queue!vars)
  <2>1. Serving /\ cancel[e] # NoCancel
    BY <1>5 DEF CancelRecord, ControlInv, TypeOK, Supervised, Serving
  <2>2. cancel[e][1] \in {"cancelled", "foreground_ended"} /\ cancel[e][1] \in Terminal
    BY <2>1, CancelOutcome DEF ControlInv
  <2>3. Finish(e, cancel[e][1]) /\ UNCHANGED daemon
    BY <1>5 DEF CancelRecord
  <2> QED
    BY <2>1, <2>2, <2>3, QueueFinish
<1>6. ASSUME NEW w \in Workers, NEW how \in {"succeeded", "gone"}, ProcessEnds(w, how)
      PROVE  [Queue!Next]_(Queue!vars)
  BY <1>6, QueueStands DEF ProcessEnds, Serving
<1>7. ASSUME Crash \/ EndShutdown PROVE [Queue!Next]_(Queue!vars)
  <2>1. UNCHANGED state /\ ~ Serving'
    BY <1>7 DEF Gone, Crash, EndShutdown, Serving
  <2>2. Serving => Queue!Abandon
    BY <2>1 DEF Queue!Abandon, Serving
  <2> QED
    BY <2>1, <2>2, QueueStands DEF Queue!Next, Serving
<1>8. ASSUME BeginShutdown \/ StopClaiming \/ DrainExpires \/ VerifySurvivors
      PROVE  [Queue!Next]_(Queue!vars)
  BY <1>8, QueueStands DEF BeginShutdown, StopClaiming, DrainExpires, VerifySurvivors,
     Serving
<1>9. ASSUME Recover PROVE [Queue!Next]_(Queue!vars)
  <2>1. CASE RecoveryConflicts
    BY <1>9, <2>1, QueueStands DEF Recover, Serving
  <2>2. CASE ~ RecoveryConflicts
    <3>1. daemon = "starting" /\ Requeue
      BY <1>9, <2>2 DEF Recover
    <3>2. \A e \in Executions :
             state'[e] = IF e \in Orphaned THEN "ambiguous_live_orphan"
                         ELSE IF e \in Interrupted THEN "queued" ELSE state[e]
      BY <3>1 DEF Requeue
    <3>3. /\ \A e \in Executions : e \in Interrupted <=> state[e] = "running"
          /\ \A e \in Orphaned : e \in Interrupted
      BY DEF Interrupted, Orphaned
    <3>4. state' \in [Executions -> {state[e] : e \in Executions}
                                      \cup {"queued", "ambiguous_live_orphan"}]
      BY <3>1 DEF Requeue
    <3>5. \A e \in Executions :
             IF state[e] = "running" THEN state'[e] \in {"queued", "ambiguous_live_orphan"}
                                     ELSE state'[e] = state[e]
      BY <3>2, <3>3
    <3>6. daemon' = "up"
      BY <3>1 DEF Requeue
    <3>7. Queue!TakeUp
      BY <3>1, <3>4, <3>5, <3>6 DEF Queue!TakeUp
    <3> QED
      BY <3>7 DEF Queue!Next
  <2> QED
    BY <2>1, <2>2
<1>10. CASE UNCHANGED vars
  BY <1>10, QueueStands DEF vars, Serving
<1> QED
  BY <1>1, <1>2, <1>3, <1>4, <1>5, <1>6, <1>7, <1>8, <1>9, <1>10
  DEF Next, Supervise

(* The rows and the supervision of control_plane.rs and control_worker.rs  *)
(* implement the queue that PRD-056 promises, for any executions,          *)
(* projects, ceilings and upsets.                                          *)
THEOREM QueueRefined == Spec => ImplementsQueue
<1>1. Init => Queue!Init
  BY DEF Init, Queue!Init
<1> QED
  BY <1>1, QueueStep, ControlInvariant, PTL DEF Spec, ImplementsQueue, Queue!Spec
=============================================================================
