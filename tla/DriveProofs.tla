---------------------------- MODULE DriveProofs ----------------------------
(***************************************************************************)
(* Every invariant that the runs check of Drive, for any backlog, any      *)
(* dependencies and overlaps, any parallelism and any number of sessions,  *)
(* proved from one inductive invariant.                                    *)
(***************************************************************************)
EXTENDS Drive, FiniteSetTheorems, TLAPS

(* What the session's thread has in front of it. *)
Flight == batch \cup jobs \cup active

(* A session is spoken of only once it was opened. *)
SessionsAreOpened ==
  /\ cur # 0 => session[cur] = "open"
  /\ \A p \in Prds : paused[p] # 0 => session[paused[p]] # "none"
  /\ approval # NoApproval => session[approval.session] # "none"
  /\ \A s \in Sessions : session[s] = "none" =>
       integrated[s] = {} /\ \A p \in Prds : attempt[s][p] = "none" /\ ladder[s][p] = "none"

(* Where the thread is, and what it then holds. *)
ThreadInv ==
  /\ cur = 0 => Flight = {} /\ \A p \in Prds : worker[p] = "none"
  /\ pc \notin {"prepare", "leave"} => batch = {} /\ jobs = {}
  /\ pc \in {"read", "land", "finish", "escalate"} => target \in Prds \ active
  /\ pc \in {"read", "land"} => outcome = "retained"
  /\ pc = "finish" => outcome \in {"retained", "completed"}
  /\ pc = "leave" => outcome \in {"none", "stopped", "nothing_eligible"}
  /\ pc = "leave" /\ outcome = "nothing_eligible" => active = {} /\ jobs = {}
  /\ pc = "wait" => active # {}
  /\ \A p \in active : worker[p] # "none"

(* A result in hand is reported completed only if it has landed. *)
LandedInHand ==
  pc = "finish" /\ outcome = "completed" =>
    target \in integrated[cur] /\ status[target] = "completed"

(* What is in flight does not overlap, depends on completed PRDs only, and *)
(* has in its worktree those that the session has landed.                  *)
FlightInv ==
  /\ \A p, q \in Flight : p # q => q \notin Conflicts[p]
  /\ \A p \in Flight : \A d \in Deps[p] : status[d] = "completed"
  /\ \A p \in jobs \cup active : Deps[p] \cap integrated[cur] \subseteq base[p]

(* No PRD is attempted twice in a session. *)
AttemptedOnce == batch \cap attempted = {} /\ count <= Cardinality(attempted)

(* An open attempt that nobody will finish makes the session stop. *)
Leftover ==
  /\ stop
  /\ pc = "prepare" => active # {}
  /\ pc = "leave" => outcome # "nothing_eligible"

OpenIsAccounted ==
  cur # 0 => \A p \in Prds :
    /\ attempt[cur][p] = "open" =>
         \/ p \in jobs \cup active
         \/ pc \in {"read", "land", "finish"} /\ p = target
         \/ Leftover
    /\ ladder[cur][p] = "open" => (pc = "escalate" /\ p = target) \/ Leftover

DriveInv ==
  /\ TypeOK
  /\ SessionsAreOpened
  /\ ThreadInv
  /\ LandedInHand
  /\ FlightInv
  /\ AttemptedOnce
  /\ OpenIsAccounted
  /\ LandingsAreKept
  /\ CompletedIsIntegrated
  /\ EndsAccounted

-----------------------------------------------------------------------------
(* Before any session every part of the inductive invariant holds. *)
LEMMA InitInv == Init => DriveInv
<1> SUFFICES ASSUME Init PROVE DriveInv
  OBVIOUS
<1>0. Cardinality(Prds) \in Nat /\ Cardinality({}) = 0
  BY DriveAssumption, FS_CardinalityType, FS_EmptySet
<1>1. TypeOK
  <2>1. MaxSessions \in Nat
    BY DriveAssumption
  <2>2. 0 \in 0 .. MaxSessions /\ 0 \in 0 .. Cardinality(Prds)
    BY <1>0, <2>1
  <2>3. QED
    BY <2>2 DEF Init, TypeOK, Reasons, Results, Outcomes
<1>2. QED
  BY <1>0, <1>1 DEF Init, DriveInv, SessionsAreOpened, ThreadInv, LandedInHand, FlightInv, Flight,
       AttemptedOnce, OpenIsAccounted, LandingsAreKept, CompletedIsIntegrated, EndsAccounted,
       Sessions

(* A session is driven whenever the thread is somewhere. *)
LEMMA Driven == TypeOK /\ pc # "down" => cur \in Sessions
BY DriveAssumption DEF TypeOK, Sessions

(* A PRD in a session's batch is new to it, so that the attempts of a      *)
(* session are bounded by the size of the backlog.                         *)
LEMMA Attempting ==
  ASSUME TypeOK, AttemptedOnce, NEW p \in batch
  PROVE  /\ attempted \cup {p} \subseteq Prds
         /\ Cardinality(attempted \cup {p}) = Cardinality(attempted) + 1
         /\ Cardinality(attempted) \in Nat
         /\ count + 1 <= Cardinality(Prds)
<1>1. p \in Prds /\ p \notin attempted /\ attempted \subseteq Prds /\ count \in Nat
  <2>1. Cardinality(Prds) \in Nat
    BY DriveAssumption, FS_CardinalityType
  <2>2. QED
    BY <2>1 DEF TypeOK, AttemptedOnce
<1>2. IsFiniteSet(Prds) /\ IsFiniteSet(attempted)
  BY <1>1, DriveAssumption, FS_Subset
<1>3. Cardinality(attempted) \in Nat /\ Cardinality(Prds) \in Nat
  BY <1>2, FS_CardinalityType
<1>4. Cardinality(attempted \cup {p}) = Cardinality(attempted) + 1
  BY <1>1, <1>2, FS_AddElement
<1>5. Cardinality(attempted \cup {p}) <= Cardinality(Prds)
  BY <1>1, <1>2, FS_Subset
<1>6. QED
  BY <1>1, <1>3, <1>4, <1>5 DEF AttemptedOnce

(* Every step of the loop, of a worker, of the operator and of a crash     *)
(* keeps the rows and the thread well-typed.                               *)
LEMMA IntegrateType ==
  ASSUME TypeOK, NEW p \in Prds, NEW s \in Sessions, NEW from \in SUBSET Prds,
         Integrate(p, s, from)
  PROVE  /\ status' \in [Prds -> {"pending", "in_progress", "completed"}]
         /\ paused' \in [Prds -> 0 .. MaxSessions]
         /\ revision' \in [Sessions -> SUBSET Prds]
         /\ integrated' \in [Sessions -> SUBSET Prds]
         /\ checkout' \subseteq Prds
<1>1. 0 \in 0 .. MaxSessions
  BY DriveAssumption
<1>2. from \cup {p} \in SUBSET Prds /\ integrated[s] \cup {p} \in SUBSET Prds
  BY DEF TypeOK
<1>3. QED
  BY <1>1, <1>2 DEF TypeOK, Integrate

LEMMA TypeStep == TypeOK /\ ThreadInv /\ AttemptedOnce /\ [Next]_vars => TypeOK'
<1> SUFFICES ASSUME TypeOK, ThreadInv, AttemptedOnce, [Next]_vars PROVE TypeOK'
  OBVIOUS
<1> USE DEF rows, ledger, human, plan, threads, hand
<1>0. /\ MaxSessions \in Nat /\ 0 \in 0 .. MaxSessions /\ 0 \notin Sessions
      /\ Sessions \subseteq 0 .. MaxSessions
      /\ 0 \in 0 .. Cardinality(Prds)
  <2>1. Cardinality(Prds) \in Nat
    BY DriveAssumption, FS_CardinalityType
  <2>2. QED
    BY <2>1, DriveAssumption DEF Sessions
<1>c. pc # "down" => cur \in Sessions
  BY Driven
<1>1. ASSUME NEW s \in Sessions, OpenSession(s) PROVE TypeOK'
  BY <1>0, <1>1 DEF TypeOK, OpenSession, Closed, Reasons, Outcomes
<1>2. ASSUME NEW spent \in BOOLEAN, Stop(spent) PROVE TypeOK'
  BY <1>2 DEF TypeOK, Stop, Leave, Reasons
<1>3. ASSUME NEW spent \in BOOLEAN, NEW lost \in BOOLEAN, Pass(spent, lost) PROVE TypeOK'
  BY <1>3 DEF TypeOK, Pass, Leave, Picks, StopNow, Reasons
<1>4. CASE SpawnJobs
  BY <1>4 DEF TypeOK, SpawnJobs, Leave, Reasons
<1>5. CASE ReadRevision
  BY <1>5, <1>c DEF TypeOK, ReadRevision
<1>6. CASE Land
  <2>1. cur \in Sessions /\ target \in Prds /\ prior \in SUBSET Prds
    BY <1>6, <1>c DEF TypeOK, ThreadInv, Land
  <2>2. CASE Integrate(target, cur, prior)
    BY <1>6, <2>1, <2>2, IntegrateType DEF TypeOK, ThreadInv, Land
  <2>3. CASE UNCHANGED <<rows, revision, integrated, checkout, outcome>>
    BY <1>6, <2>3 DEF TypeOK, Land
  <2>4. QED
    BY <1>6, <2>2, <2>3 DEF Land
<1>7. CASE FinishAttempt
  <2>1. cur \in Sessions /\ target \in Prds /\ outcome \in {"retained", "completed"}
    BY <1>7, <1>c DEF TypeOK, ThreadInv, FinishAttempt
  <2>2. attempt' \in [Sessions -> [Prds -> Outcomes]]
    BY <1>7, <2>1 DEF TypeOK, FinishAttempt, Outcomes
  <2>3. ladder' \in [Sessions -> [Prds -> {"none", "open", "retained"}]]
    BY <1>7, <2>1 DEF TypeOK, FinishAttempt
  <2>4. stop' \in BOOLEAN
    BY <1>7 DEF TypeOK, FinishAttempt, BatchStops
  <2>5. streak' \in Nat /\ target' \in Prds \cup {0} /\ pc' \in {"top", "escalate"}
    BY <1>7 DEF TypeOK, FinishAttempt
  <2>6. QED
    BY <1>7, <2>1, <2>2, <2>3, <2>4, <2>5 DEF TypeOK, FinishAttempt
<1>8. CASE EndEscalation
  <2>1. cur \in Sessions /\ target \in Prds
    BY <1>8, <1>c DEF TypeOK, ThreadInv, EndEscalation
  <2>2. ladder' = ladder \/ ladder' = [ladder EXCEPT ![cur][target] = "retained"]
    BY <1>8 DEF EndEscalation
  <2>3. ladder' \in [Sessions -> [Prds -> {"none", "open", "retained"}]]
    BY <2>1, <2>2 DEF TypeOK
  <2>4. stop' \in BOOLEAN
    BY <1>8 DEF TypeOK, EndEscalation
  <2>5. /\ status' = status \/ \E v \in {"completed", "in_progress"} :
                                status' = [status EXCEPT ![target] = v]
        /\ claim' = claim \/ claim' = [claim EXCEPT ![target] = cur]
        /\ paused' = paused \/ \E v \in {0, cur} : paused' = [paused EXCEPT ![target] = v]
    BY <1>8 DEF EndEscalation
  <2>6. /\ status' \in [Prds -> {"pending", "in_progress", "completed"}]
        /\ claim' \in [Prds -> 0 .. MaxSessions]
        /\ paused' \in [Prds -> 0 .. MaxSessions]
    <3>1. cur \in 0 .. MaxSessions
      BY DEF TypeOK
    <3>2. status' \in [Prds -> {"pending", "in_progress", "completed"}]
      BY <2>1, <2>5 DEF TypeOK
    <3>3. claim' \in [Prds -> 0 .. MaxSessions]
      BY <2>5, <3>1 DEF TypeOK
    <3>4. paused' \in [Prds -> 0 .. MaxSessions]
      <4>1. paused' \in {paused, [paused EXCEPT ![target] = 0], [paused EXCEPT ![target] = cur]}
        BY <2>5
      <4>2. paused \in [Prds -> 0 .. MaxSessions]
        BY DEF TypeOK
      <4>3. QED
        BY <4>1, <4>2, <3>1, <1>0
    <3>5. QED
      BY <3>2, <3>3, <3>4
  <2>7. QED
    BY <1>8, <2>1, <2>3, <2>4, <2>6 DEF TypeOK, EndEscalation
<1>9. CASE FinishSession
  BY <1>9, <1>c, <1>0 DEF TypeOK, ThreadInv, FinishSession, Forgotten, Reasons
<1>10. ASSUME NEW p \in Prds, Prepare(p) PROVE TypeOK'
  <2>1. cur \in Sessions /\ p \in batch
    BY <1>10, <1>c DEF Prepare
  <2>2. attempt' \in [Sessions -> [Prds -> Outcomes]]
    BY <1>10, <2>1 DEF TypeOK, Prepare, Outcomes
  <2>3. count' \in 0 .. Cardinality(Prds) /\ attempted' \subseteq Prds
    <3>1. Cardinality(Prds) \in Nat
      BY DriveAssumption, FS_CardinalityType
    <3>2. attempted \cup {p} \subseteq Prds /\ count + 1 <= Cardinality(Prds)
      BY <2>1, Attempting
    <3>3. count' \in {count, count + 1} /\ attempted' = attempted \cup {p}
      BY <1>10 DEF Prepare
    <3>4. QED
      BY <3>1, <3>2, <3>3 DEF TypeOK
  <2>4. base' \in [Prds -> SUBSET Prds] /\ jobs' \subseteq Prds /\ batch' \subseteq Prds
    BY <1>10, <2>1 DEF TypeOK, Prepare
  <2>5. QED
    BY <1>10, <2>2, <2>3, <2>4 DEF TypeOK, Prepare
<1>11. ASSUME NEW p \in Prds, Receive(p) PROVE TypeOK'
  BY <1>11 DEF TypeOK, Receive
<1>12. ASSUME NEW p \in Prds, AcceptRisk(p) PROVE TypeOK'
  BY <1>12, <1>0 DEF TypeOK, AcceptRisk
<1>13. CASE StorageFails
  <2>1. cur \in Sessions
    BY <1>13, <1>c DEF StorageFails
  <2>2. attempt' \in [Sessions -> [Prds -> Outcomes]]
    BY <1>13, <2>1 DEF TypeOK, StorageFails, Outcomes
  <2>3. QED
    BY <1>13, <2>2 DEF TypeOK, StorageFails, Reasons
<1>14. CASE Crash
  BY <1>14, <1>0 DEF TypeOK, Crash, Forgotten
<1>15. CASE ApprovalLands
  <2>1. /\ approval.prd \in Prds /\ approval.session \in Sessions
        /\ approval.prior \in SUBSET Prds
    BY <1>15 DEF TypeOK, ApprovalLands
  <2>2. CASE Integrate(approval.prd, approval.session, approval.prior)
    BY <1>15, <2>1, <2>2, IntegrateType DEF TypeOK, ApprovalLands
  <2>3. CASE UNCHANGED <<rows, revision, integrated, checkout>>
    BY <1>15, <2>3 DEF TypeOK, ApprovalLands
  <2>4. QED
    BY <1>15, <2>2, <2>3 DEF ApprovalLands
<1>16. ASSUME NEW p \in Prds, WorkerClaims(p) PROVE TypeOK'
  BY <1>16, <1>0 DEF TypeOK, WorkerClaims, Results
<1>17. ASSUME NEW p \in Prds, WorkerEnds(p) PROVE TypeOK'
  BY <1>17 DEF TypeOK, WorkerEnds
<1>18. ASSUME NEW p \in Prds, HumanReleases(p) PROVE TypeOK'
  BY <1>18, <1>0 DEF TypeOK, HumanReleases
<1>19. ASSUME NEW p \in Prds, ApprovalMerges(p) PROVE TypeOK'
  <2>1. paused[p] \in Sessions
    BY <1>19, DriveAssumption DEF TypeOK, ApprovalMerges, Sessions
  <2>2. QED
    BY <1>19, <2>1 DEF TypeOK, ApprovalMerges
<1>20. CASE UNCHANGED vars
  BY <1>20 DEF TypeOK, vars
<1>21. QED
  BY <1>1, <1>2, <1>3, <1>4, <1>5, <1>6, <1>7, <1>8, <1>9, <1>10, <1>11, <1>12, <1>13,
     <1>14, <1>15, <1>16, <1>17, <1>18, <1>19, <1>20 DEF Next, Loop, Work

(* A completed PRD stays completed, a landing on record stays on record. *)
StaysCompleted == \A q \in Prds : status[q] = "completed" => status'[q] = "completed"
StaysLanded == \A t \in Sessions : integrated[t] \subseteq integrated'[t]

(* What a landing writes: the PRD, the revision and the integrated attempts *)
(* of its session, and nothing of the others.                              *)
Landed(p, s) ==
  /\ status[p] = "in_progress" /\ status'[p] = "completed"
  /\ \A q \in Prds \ {p} : status'[q] = status[q] /\ paused'[q] = paused[q]
  /\ paused'[p] = 0
  /\ revision'[s] = revision[s] \cup {p}
  /\ integrated'[s] = integrated[s] \cup {p}
  /\ \A t \in Sessions \ {s} : revision'[t] = revision[t] /\ integrated'[t] = integrated[t]

(* The landing transaction (Integrate) of the merge queue and of an        *)
(* approval loses nothing that was landed before.                          *)
LEMMA IntegrateWrites ==
  ASSUME TypeOK, NEW p \in Prds, NEW s \in Sessions, NEW from \in SUBSET Prds,
         Integrate(p, s, from)
  PROVE  Landed(p, s)
BY DEF TypeOK, Integrate, Completable, Landed

(* No step takes a PRD out of completed: a completed PRD is neither        *)
(* claimed nor released again (Backlog.tla has the rollback of a           *)
(* bootstrap, which is not part of a drive).                               *)
LEMMA CompletedForever ==
  TypeOK /\ [Next]_vars => StaysCompleted
<1> SUFFICES ASSUME TypeOK, [Next]_vars
             PROVE  StaysCompleted
  OBVIOUS
<1> USE DEF rows, ledger, human, plan, threads, hand
<1>1. ASSUME NEW s \in Sessions, OpenSession(s) PROVE StaysCompleted
  BY <1>1 DEF StaysCompleted, OpenSession, Closed
<1>2. ASSUME NEW spent \in BOOLEAN, Stop(spent) PROVE StaysCompleted
  BY <1>2 DEF StaysCompleted, Stop, Leave
<1>3. ASSUME NEW spent \in BOOLEAN, NEW lost \in BOOLEAN, Pass(spent, lost)
      PROVE StaysCompleted
  BY <1>3 DEF StaysCompleted, Pass, Leave
<1>4. CASE SpawnJobs
  BY <1>4 DEF StaysCompleted, SpawnJobs, Leave
<1>5. CASE ReadRevision
  BY <1>5 DEF StaysCompleted, ReadRevision
<1>6. CASE Land
  BY <1>6 DEF StaysCompleted, TypeOK, Land, Integrate
<1>7. CASE FinishAttempt
  BY <1>7 DEF StaysCompleted, FinishAttempt
<1>8. CASE EndEscalation
  BY <1>8 DEF StaysCompleted, TypeOK, EndEscalation
<1>9. CASE FinishSession
  BY <1>9 DEF StaysCompleted, FinishSession, Forgotten
<1>10. ASSUME NEW p \in Prds, Prepare(p) PROVE StaysCompleted
  BY <1>10 DEF StaysCompleted, Prepare
<1>11. ASSUME NEW p \in Prds, Receive(p) PROVE StaysCompleted
  BY <1>11 DEF StaysCompleted, Receive
<1>12. ASSUME NEW p \in Prds, AcceptRisk(p) PROVE StaysCompleted
  BY <1>12 DEF StaysCompleted, AcceptRisk
<1>13. CASE StorageFails
  BY <1>13 DEF StaysCompleted, StorageFails
<1>14. CASE Crash
  BY <1>14 DEF StaysCompleted, Crash, Forgotten
<1>15. CASE ApprovalLands
  BY <1>15 DEF StaysCompleted, TypeOK, ApprovalLands, Integrate
<1>16. ASSUME NEW p \in Prds, WorkerClaims(p) PROVE StaysCompleted
  BY <1>16 DEF StaysCompleted, TypeOK, WorkerClaims
<1>17. ASSUME NEW p \in Prds, WorkerEnds(p) PROVE StaysCompleted
  BY <1>17 DEF StaysCompleted, WorkerEnds
<1>18. ASSUME NEW p \in Prds, HumanReleases(p) PROVE StaysCompleted
  BY <1>18 DEF StaysCompleted, HumanReleases
<1>19. ASSUME NEW p \in Prds, ApprovalMerges(p) PROVE StaysCompleted
  BY <1>19 DEF StaysCompleted, ApprovalMerges
<1>20. CASE UNCHANGED vars
  BY <1>20 DEF StaysCompleted, vars
<1>21. QED
  BY <1>1, <1>2, <1>3, <1>4, <1>5, <1>6, <1>7, <1>8, <1>9, <1>10, <1>11, <1>12, <1>13,
     <1>14, <1>15, <1>16, <1>17, <1>18, <1>19, <1>20 DEF Next, Loop, Work

(* A landing on record stays on record, in every session. *)
LEMMA LandingsGrow ==
  TypeOK /\ [Next]_vars => StaysLanded
<1> SUFFICES ASSUME TypeOK, [Next]_vars
             PROVE  StaysLanded
  OBVIOUS
<1> USE DEF rows, ledger, human, plan, threads, hand
<1>1. ASSUME NEW s \in Sessions, OpenSession(s) PROVE StaysLanded
  BY <1>1 DEF StaysLanded, OpenSession, Closed
<1>2. ASSUME NEW spent \in BOOLEAN, Stop(spent) PROVE StaysLanded
  BY <1>2 DEF StaysLanded, Stop, Leave
<1>3. ASSUME NEW spent \in BOOLEAN, NEW lost \in BOOLEAN, Pass(spent, lost)
      PROVE StaysLanded
  BY <1>3 DEF StaysLanded, Pass, Leave
<1>4. CASE SpawnJobs
  BY <1>4 DEF StaysLanded, SpawnJobs, Leave
<1>5. CASE ReadRevision
  BY <1>5 DEF StaysLanded, ReadRevision
<1>6. CASE Land
  BY <1>6 DEF StaysLanded, TypeOK, Land, Integrate
<1>7. CASE FinishAttempt
  BY <1>7 DEF StaysLanded, FinishAttempt
<1>8. CASE EndEscalation
  BY <1>8 DEF StaysLanded, EndEscalation
<1>9. CASE FinishSession
  BY <1>9 DEF StaysLanded, FinishSession, Forgotten
<1>10. ASSUME NEW p \in Prds, Prepare(p) PROVE StaysLanded
  BY <1>10 DEF StaysLanded, Prepare
<1>11. ASSUME NEW p \in Prds, Receive(p) PROVE StaysLanded
  BY <1>11 DEF StaysLanded, Receive
<1>12. ASSUME NEW p \in Prds, AcceptRisk(p) PROVE StaysLanded
  BY <1>12 DEF StaysLanded, AcceptRisk
<1>13. CASE StorageFails
  BY <1>13 DEF StaysLanded, StorageFails
<1>14. CASE Crash
  BY <1>14 DEF StaysLanded, Crash, Forgotten
<1>15. CASE ApprovalLands
  <2>1. /\ approval.prd \in Prds /\ approval.session \in Sessions
        /\ approval.prior \in SUBSET Prds
    BY <1>15 DEF TypeOK, ApprovalLands
  <2>2. CASE Integrate(approval.prd, approval.session, approval.prior)
    <3>1. PICK p \in Prds, s \in Sessions : s = approval.session /\ Landed(p, s)
      BY <2>1, <2>2, IntegrateWrites
    <3>2. /\ approval # NoApproval /\ approval' = NoApproval
          /\ UNCHANGED <<claim, session, attempt, ladder, cur, pc, plan, threads, hand>>
      BY <1>15 DEF ApprovalLands
    <3>3. QED
      BY <3>1, <3>2 DEF Landed, StaysLanded, TypeOK
  <2>3. CASE UNCHANGED <<rows, revision, integrated, checkout>>
    BY <1>15, <2>1, <2>3 DEF StaysLanded, TypeOK, ApprovalLands
  <2>4. QED
    BY <1>15, <2>2, <2>3 DEF ApprovalLands
<1>16. ASSUME NEW p \in Prds, WorkerClaims(p) PROVE StaysLanded
  BY <1>16 DEF StaysLanded, WorkerClaims
<1>17. ASSUME NEW p \in Prds, WorkerEnds(p) PROVE StaysLanded
  BY <1>17 DEF StaysLanded, WorkerEnds
<1>18. ASSUME NEW p \in Prds, HumanReleases(p) PROVE StaysLanded
  BY <1>18 DEF StaysLanded, HumanReleases
<1>19. ASSUME NEW p \in Prds, ApprovalMerges(p) PROVE StaysLanded
  BY <1>19 DEF StaysLanded, ApprovalMerges
<1>20. CASE UNCHANGED vars
  BY <1>20 DEF StaysLanded, vars
<1>21. QED
  BY <1>1, <1>2, <1>3, <1>4, <1>5, <1>6, <1>7, <1>8, <1>9, <1>10, <1>11, <1>12, <1>13,
     <1>14, <1>15, <1>16, <1>17, <1>18, <1>19, <1>20 DEF Next, Loop, Work

(* Claims, pauses and approvals name sessions that were opened. *)
LEMMA OpenedStep ==
  TypeOK /\ ThreadInv /\ SessionsAreOpened /\ [Next]_vars => SessionsAreOpened'
<1> SUFFICES ASSUME TypeOK, ThreadInv, SessionsAreOpened, [Next]_vars
             PROVE  SessionsAreOpened'
  OBVIOUS
<1> USE DEF rows, ledger, human, plan, threads, hand
<1>c. pc # "down" => cur \in Sessions
  BY Driven
<1>z. 0 \notin Sessions /\ \A v \in 0 .. MaxSessions : v # 0 => v \in Sessions
  BY DriveAssumption DEF Sessions
<1>1. ASSUME NEW s \in Sessions, OpenSession(s) PROVE SessionsAreOpened'
  BY <1>1, <1>z DEF TypeOK, SessionsAreOpened, OpenSession, Closed
<1>2. ASSUME NEW spent \in BOOLEAN, Stop(spent) PROVE SessionsAreOpened'
  BY <1>2 DEF SessionsAreOpened, Stop, Leave
<1>3. ASSUME NEW spent \in BOOLEAN, NEW lost \in BOOLEAN, Pass(spent, lost)
      PROVE SessionsAreOpened'
  BY <1>3 DEF SessionsAreOpened, Pass, Leave
<1>4. CASE SpawnJobs
  BY <1>4 DEF SessionsAreOpened, SpawnJobs, Leave
<1>5. CASE ReadRevision
  BY <1>5 DEF SessionsAreOpened, ReadRevision
<1>6. CASE Land
  <2>1. cur \in Sessions /\ target \in Prds /\ prior \in SUBSET Prds
    BY <1>6, Driven DEF TypeOK, ThreadInv, Land
  <2>2. CASE Integrate(target, cur, prior)
    <3>1. Landed(target, cur)
      BY <2>1, <2>2, IntegrateWrites
    <3>2. QED
      BY <1>6, <2>1, <3>1 DEF Landed, TypeOK, SessionsAreOpened, Land
  <2>3. CASE UNCHANGED <<rows, revision, integrated, checkout, outcome>>
    BY <1>6, <2>1, <2>3 DEF TypeOK, SessionsAreOpened, Land
  <2>4. QED
    BY <1>6, <2>2, <2>3 DEF Land
<1>7. CASE FinishAttempt
  BY <1>7, <1>c, <1>z DEF TypeOK, ThreadInv, SessionsAreOpened, FinishAttempt
<1>8. CASE EndEscalation
  <2>1. cur \in Sessions /\ session[cur] = "open" /\ target \in Prds
    BY <1>8, <1>c, <1>z DEF TypeOK, ThreadInv, SessionsAreOpened, EndEscalation
  <2>2. \A t \in Sessions \ {cur} : ladder'[t] = ladder[t]
    BY <1>8, <2>1 DEF TypeOK, EndEscalation
  <2>3. \A q \in Prds : paused'[q] \in {paused[q], 0, cur}
    <3>1. paused' \in {paused, [paused EXCEPT ![target] = 0], [paused EXCEPT ![target] = cur]}
      BY <1>8 DEF EndEscalation
    <3>2. QED
      BY <2>1, <3>1 DEF TypeOK
  <2>4. QED
    BY <1>8, <2>1, <2>2, <2>3, <1>z DEF TypeOK, SessionsAreOpened, EndEscalation
<1>9. CASE FinishSession
  BY <1>9 DEF SessionsAreOpened, FinishSession, Forgotten
<1>10. ASSUME NEW p \in Prds, Prepare(p) PROVE SessionsAreOpened'
  <2>1. cur \in Sessions /\ session[cur] = "open"
    BY <1>10, <1>c, <1>z DEF SessionsAreOpened, Prepare
  <2>2. \A t \in Sessions \ {cur} : attempt'[t] = attempt[t]
    BY <1>10, <2>1 DEF TypeOK, Prepare
  <2>3. QED
    BY <1>10, <2>1, <2>2 DEF SessionsAreOpened, Prepare
<1>11. ASSUME NEW p \in Prds, Receive(p) PROVE SessionsAreOpened'
  BY <1>11 DEF SessionsAreOpened, Receive
<1>12. ASSUME NEW p \in Prds, AcceptRisk(p) PROVE SessionsAreOpened'
  BY <1>12 DEF SessionsAreOpened, AcceptRisk
<1>13. CASE StorageFails
  <2>1. cur \in Sessions /\ session[cur] = "open"
    BY <1>13, <1>c, <1>z DEF SessionsAreOpened, StorageFails
  <2>2. \A t \in Sessions \ {cur} : attempt'[t] = attempt[t]
    BY <1>13, <2>1 DEF TypeOK, StorageFails
  <2>3. QED
    BY <1>13, <2>1, <2>2 DEF SessionsAreOpened, StorageFails
<1>14. CASE Crash
  BY <1>14 DEF SessionsAreOpened, Crash, Forgotten
<1>15. CASE ApprovalLands
  <2>1. /\ approval.prd \in Prds /\ approval.session \in Sessions
        /\ approval.prior \in SUBSET Prds
    BY <1>15 DEF TypeOK, ApprovalLands
  <2>2. CASE Integrate(approval.prd, approval.session, approval.prior)
    <3>1. PICK p \in Prds, s \in Sessions : s = approval.session /\ Landed(p, s)
      BY <2>1, <2>2, IntegrateWrites
    <3>2. /\ approval # NoApproval /\ approval' = NoApproval
          /\ UNCHANGED <<claim, session, attempt, ladder, cur, pc, plan, threads, hand>>
      BY <1>15 DEF ApprovalLands
    <3>3. session[s] # "none"
      BY <3>1, <3>2 DEF SessionsAreOpened
    <3>4. /\ \A q \in Prds : paused'[q] \in {paused[q], 0}
          /\ \A t \in Sessions \ {s} : integrated'[t] = integrated[t]
      BY <3>1 DEF Landed
    <3>5. QED
      BY <3>2, <3>3, <3>4 DEF SessionsAreOpened
  <2>3. CASE UNCHANGED <<rows, revision, integrated, checkout>>
    BY <1>15, <2>1, <2>3 DEF TypeOK, SessionsAreOpened, ApprovalLands
  <2>4. QED
    BY <1>15, <2>2, <2>3 DEF ApprovalLands
<1>16. ASSUME NEW p \in Prds, WorkerClaims(p) PROVE SessionsAreOpened'
  BY <1>16 DEF TypeOK, SessionsAreOpened, WorkerClaims
<1>17. ASSUME NEW p \in Prds, WorkerEnds(p) PROVE SessionsAreOpened'
  BY <1>17 DEF TypeOK, SessionsAreOpened, WorkerEnds
<1>18. ASSUME NEW p \in Prds, HumanReleases(p) PROVE SessionsAreOpened'
  BY <1>18 DEF SessionsAreOpened, HumanReleases
<1>19. ASSUME NEW p \in Prds, ApprovalMerges(p) PROVE SessionsAreOpened'
  BY <1>19 DEF SessionsAreOpened, ApprovalMerges
<1>20. CASE UNCHANGED vars
  BY <1>20 DEF SessionsAreOpened, vars
<1>21. QED
  BY <1>1, <1>2, <1>3, <1>4, <1>5, <1>6, <1>7, <1>8, <1>9, <1>10, <1>11, <1>12, <1>13,
     <1>14, <1>15, <1>16, <1>17, <1>18, <1>19, <1>20 DEF Next, Loop, Work

(* The thread holds what its place in the loop says. *)
LEMMA ThreadStep ==
  TypeOK /\ ThreadInv /\ [Next]_vars => ThreadInv'
<1> SUFFICES ASSUME TypeOK, ThreadInv, [Next]_vars
             PROVE  ThreadInv'
  OBVIOUS
<1> USE DEF rows, ledger, human, plan, threads, hand
<1>c. pc # "down" => cur \in Sessions
  BY Driven
<1>z. 0 \notin Sessions /\ \A v \in 0 .. MaxSessions : v # 0 => v \in Sessions
  BY DriveAssumption DEF Sessions
<1>1. ASSUME NEW s \in Sessions, OpenSession(s) PROVE ThreadInv'
  BY <1>1 DEF TypeOK, ThreadInv, Flight, OpenSession, Closed
<1>2. ASSUME NEW spent \in BOOLEAN, Stop(spent) PROVE ThreadInv'
  BY <1>2 DEF ThreadInv, Flight, Stop, Leave
<1>3. ASSUME NEW spent \in BOOLEAN, NEW lost \in BOOLEAN, Pass(spent, lost)
      PROVE ThreadInv'
  BY <1>3 DEF TypeOK, ThreadInv, Pass, Leave
<1>4. CASE SpawnJobs
  BY <1>4 DEF TypeOK, ThreadInv, SpawnJobs, Leave
<1>5. CASE ReadRevision
  BY <1>5 DEF ThreadInv, Flight, ReadRevision
<1>6. CASE Land
  BY <1>6 DEF ThreadInv, Flight, Land, Integrate
<1>7. CASE FinishAttempt
  BY <1>7 DEF ThreadInv, Flight, FinishAttempt
<1>8. CASE EndEscalation
  BY <1>8 DEF ThreadInv, Flight, EndEscalation
<1>9. CASE FinishSession
  BY <1>9 DEF ThreadInv, Flight, FinishSession, Forgotten
<1>10. ASSUME NEW p \in Prds, Prepare(p) PROVE ThreadInv'
  BY <1>10 DEF ThreadInv, Flight, Prepare
<1>11. ASSUME NEW p \in Prds, Receive(p) PROVE ThreadInv'
  BY <1>11 DEF ThreadInv, Receive
<1>12. ASSUME NEW p \in Prds, AcceptRisk(p) PROVE ThreadInv'
  BY <1>12 DEF ThreadInv, AcceptRisk
<1>13. CASE StorageFails
  BY <1>13 DEF ThreadInv, Flight, StorageFails
<1>14. CASE Crash
  BY <1>14 DEF ThreadInv, Flight, Crash, Forgotten
<1>15. CASE ApprovalLands
  BY <1>15 DEF ThreadInv, Flight, ApprovalLands, Integrate
<1>16. ASSUME NEW p \in Prds, WorkerClaims(p) PROVE ThreadInv'
  BY <1>16 DEF TypeOK, ThreadInv, WorkerClaims
<1>17. ASSUME NEW p \in Prds, WorkerEnds(p) PROVE ThreadInv'
  BY <1>17, <1>c, <1>z DEF TypeOK, ThreadInv, Flight, WorkerEnds, Results
<1>18. ASSUME NEW p \in Prds, HumanReleases(p) PROVE ThreadInv'
  BY <1>18 DEF ThreadInv, Flight, HumanReleases
<1>19. ASSUME NEW p \in Prds, ApprovalMerges(p) PROVE ThreadInv'
  BY <1>19 DEF ThreadInv, Flight, ApprovalMerges
<1>20. CASE UNCHANGED vars
  BY <1>20 DEF ThreadInv, Flight, vars
<1>21. QED
  BY <1>1, <1>2, <1>3, <1>4, <1>5, <1>6, <1>7, <1>8, <1>9, <1>10, <1>11, <1>12, <1>13,
     <1>14, <1>15, <1>16, <1>17, <1>18, <1>19, <1>20 DEF Next, Loop, Work

(* The revision of a session only moves to one that contains the old. *)
LEMMA KeptStep ==
  TypeOK /\ ThreadInv /\ SessionsAreOpened /\ LandingsAreKept /\ [Next]_vars => LandingsAreKept'
<1> SUFFICES ASSUME TypeOK, ThreadInv, SessionsAreOpened, LandingsAreKept, [Next]_vars
             PROVE  LandingsAreKept'
  OBVIOUS
<1> USE DEF rows, ledger, human, plan, threads, hand
<1>1. ASSUME NEW s \in Sessions, OpenSession(s) PROVE LandingsAreKept'
  BY <1>1 DEF SessionsAreOpened, LandingsAreKept, OpenSession, Closed
<1>2. ASSUME NEW spent \in BOOLEAN, Stop(spent) PROVE LandingsAreKept'
  BY <1>2 DEF LandingsAreKept, Stop, Leave
<1>3. ASSUME NEW spent \in BOOLEAN, NEW lost \in BOOLEAN, Pass(spent, lost)
      PROVE LandingsAreKept'
  BY <1>3 DEF LandingsAreKept, Pass, Leave
<1>4. CASE SpawnJobs
  BY <1>4 DEF LandingsAreKept, SpawnJobs, Leave
<1>5. CASE ReadRevision
  BY <1>5 DEF LandingsAreKept, ReadRevision
<1>6. CASE Land
  <2>1. cur \in Sessions /\ target \in Prds /\ prior \in SUBSET Prds
    BY <1>6, Driven DEF TypeOK, ThreadInv, Land
  <2>2. CASE Integrate(target, cur, prior)
    <3>1. Landed(target, cur)
      BY <2>1, <2>2, IntegrateWrites
    <3>2. QED
      BY <1>6, <2>1, <3>1 DEF Landed, TypeOK, LandingsAreKept, Land
  <2>3. CASE UNCHANGED <<rows, revision, integrated, checkout, outcome>>
    BY <1>6, <2>1, <2>3 DEF TypeOK, LandingsAreKept, Land
  <2>4. QED
    BY <1>6, <2>2, <2>3 DEF Land
<1>7. CASE FinishAttempt
  BY <1>7 DEF LandingsAreKept, FinishAttempt
<1>8. CASE EndEscalation
  BY <1>8 DEF LandingsAreKept, EndEscalation
<1>9. CASE FinishSession
  BY <1>9 DEF LandingsAreKept, FinishSession, Forgotten
<1>10. ASSUME NEW p \in Prds, Prepare(p) PROVE LandingsAreKept'
  BY <1>10 DEF LandingsAreKept, Prepare
<1>11. ASSUME NEW p \in Prds, Receive(p) PROVE LandingsAreKept'
  BY <1>11 DEF LandingsAreKept, Receive
<1>12. ASSUME NEW p \in Prds, AcceptRisk(p) PROVE LandingsAreKept'
  BY <1>12 DEF LandingsAreKept, AcceptRisk
<1>13. CASE StorageFails
  BY <1>13 DEF LandingsAreKept, StorageFails
<1>14. CASE Crash
  BY <1>14 DEF LandingsAreKept, Crash, Forgotten
<1>15. CASE ApprovalLands
  <2>1. /\ approval.prd \in Prds /\ approval.session \in Sessions
        /\ approval.prior \in SUBSET Prds
    BY <1>15 DEF TypeOK, ApprovalLands
  <2>2. CASE Integrate(approval.prd, approval.session, approval.prior)
    <3>1. PICK p \in Prds, s \in Sessions : s = approval.session /\ Landed(p, s)
      BY <2>1, <2>2, IntegrateWrites
    <3>2. /\ approval # NoApproval /\ approval' = NoApproval
          /\ UNCHANGED <<claim, session, attempt, ladder, cur, pc, plan, threads, hand>>
      BY <1>15 DEF ApprovalLands
    <3>3. QED
      BY <3>1, <3>2 DEF Landed, TypeOK, LandingsAreKept
  <2>3. CASE UNCHANGED <<rows, revision, integrated, checkout>>
    BY <1>15, <2>1, <2>3 DEF TypeOK, LandingsAreKept, ApprovalLands
  <2>4. QED
    BY <1>15, <2>2, <2>3 DEF ApprovalLands
<1>16. ASSUME NEW p \in Prds, WorkerClaims(p) PROVE LandingsAreKept'
  BY <1>16 DEF LandingsAreKept, WorkerClaims
<1>17. ASSUME NEW p \in Prds, WorkerEnds(p) PROVE LandingsAreKept'
  BY <1>17 DEF LandingsAreKept, WorkerEnds
<1>18. ASSUME NEW p \in Prds, HumanReleases(p) PROVE LandingsAreKept'
  BY <1>18 DEF LandingsAreKept, HumanReleases
<1>19. ASSUME NEW p \in Prds, ApprovalMerges(p) PROVE LandingsAreKept'
  BY <1>19 DEF LandingsAreKept, ApprovalMerges
<1>20. CASE UNCHANGED vars
  BY <1>20 DEF LandingsAreKept, vars
<1>21. QED
  BY <1>1, <1>2, <1>3, <1>4, <1>5, <1>6, <1>7, <1>8, <1>9, <1>10, <1>11, <1>12, <1>13,
     <1>14, <1>15, <1>16, <1>17, <1>18, <1>19, <1>20 DEF Next, Loop, Work

(* A result that has landed stays landed until it is reported. *)
LEMMA HandStep ==
  TypeOK /\ ThreadInv /\ LandedInHand /\ [Next]_vars => LandedInHand'
<1> SUFFICES ASSUME TypeOK, ThreadInv, LandedInHand, [Next]_vars
             PROVE  LandedInHand'
  OBVIOUS
<1> USE DEF rows, ledger, human, plan, threads, hand
<1>c. pc # "down" => cur \in Sessions
  BY Driven
<1>m. /\ \A q \in Prds : status[q] = "completed" => status'[q] = "completed"
      /\ \A t \in Sessions : integrated[t] \subseteq integrated'[t]
  BY CompletedForever, LandingsGrow DEF StaysCompleted, StaysLanded
<1>1. ASSUME NEW s \in Sessions, OpenSession(s) PROVE LandedInHand'
  BY <1>1 DEF LandedInHand, OpenSession, Closed
<1>2. ASSUME NEW spent \in BOOLEAN, Stop(spent) PROVE LandedInHand'
  BY <1>2 DEF LandedInHand, Stop, Leave
<1>3. ASSUME NEW spent \in BOOLEAN, NEW lost \in BOOLEAN, Pass(spent, lost)
      PROVE LandedInHand'
  BY <1>3 DEF LandedInHand, Pass, Leave
<1>4. CASE SpawnJobs
  BY <1>4 DEF LandedInHand, SpawnJobs, Leave
<1>5. CASE ReadRevision
  BY <1>5 DEF ThreadInv, LandedInHand, ReadRevision
<1>6. CASE Land
  <2>1. cur \in Sessions /\ target \in Prds /\ prior \in SUBSET Prds
    BY <1>6, Driven DEF TypeOK, ThreadInv, Land
  <2>2. CASE Integrate(target, cur, prior)
    <3>1. Landed(target, cur)
      BY <2>1, <2>2, IntegrateWrites
    <3>2. QED
      BY <1>6, <2>1, <3>1 DEF Landed, TypeOK, LandedInHand, ThreadInv, Land
  <2>3. CASE UNCHANGED <<rows, revision, integrated, checkout, outcome>>
    BY <1>6, <2>1, <2>3 DEF TypeOK, LandedInHand, ThreadInv, Land
  <2>4. QED
    BY <1>6, <2>2, <2>3 DEF Land
<1>7. CASE FinishAttempt
  BY <1>7 DEF LandedInHand, FinishAttempt
<1>8. CASE EndEscalation
  BY <1>8 DEF LandedInHand, EndEscalation
<1>9. CASE FinishSession
  BY <1>9 DEF LandedInHand, FinishSession, Forgotten
<1>10. ASSUME NEW p \in Prds, Prepare(p) PROVE LandedInHand'
  BY <1>10 DEF LandedInHand, Prepare
<1>11. ASSUME NEW p \in Prds, Receive(p) PROVE LandedInHand'
  BY <1>11 DEF LandedInHand, Receive
<1>12. ASSUME NEW p \in Prds, AcceptRisk(p) PROVE LandedInHand'
  BY <1>12 DEF LandedInHand, AcceptRisk
<1>13. CASE StorageFails
  BY <1>13 DEF LandedInHand, StorageFails
<1>14. CASE Crash
  BY <1>14 DEF LandedInHand, Crash, Forgotten
<1>15. CASE ApprovalLands
  <2>1. UNCHANGED <<cur, pc, hand>>
    BY <1>15 DEF ApprovalLands
  <2>2. QED
    BY <2>1, <1>c, <1>m DEF LandedInHand, ThreadInv
<1>16. ASSUME NEW p \in Prds, WorkerClaims(p) PROVE LandedInHand'
  BY <1>16 DEF TypeOK, ThreadInv, LandedInHand, WorkerClaims
<1>17. ASSUME NEW p \in Prds, WorkerEnds(p) PROVE LandedInHand'
  BY <1>17 DEF LandedInHand, WorkerEnds
<1>18. ASSUME NEW p \in Prds, HumanReleases(p) PROVE LandedInHand'
  BY <1>18 DEF LandedInHand, HumanReleases
<1>19. ASSUME NEW p \in Prds, ApprovalMerges(p) PROVE LandedInHand'
  BY <1>19 DEF LandedInHand, ApprovalMerges
<1>20. CASE UNCHANGED vars
  BY <1>20 DEF LandedInHand, vars
<1>21. QED
  BY <1>1, <1>2, <1>3, <1>4, <1>5, <1>6, <1>7, <1>8, <1>9, <1>10, <1>11, <1>12, <1>13,
     <1>14, <1>15, <1>16, <1>17, <1>18, <1>19, <1>20 DEF Next, Loop, Work

(* Only a landed result is reported completed. *)
LEMMA ReportedStep ==
  TypeOK /\ ThreadInv /\ LandedInHand /\ CompletedIsIntegrated /\ [Next]_vars
    => CompletedIsIntegrated'
<1> SUFFICES ASSUME TypeOK, ThreadInv, LandedInHand, CompletedIsIntegrated, [Next]_vars
             PROVE  CompletedIsIntegrated'
  OBVIOUS
<1> USE DEF rows, ledger, human, plan, threads, hand
<1>c. pc # "down" => cur \in Sessions
  BY Driven
<1>1. ASSUME NEW s \in Sessions, OpenSession(s) PROVE CompletedIsIntegrated'
  BY <1>1 DEF CompletedIsIntegrated, OpenSession, Closed
<1>2. ASSUME NEW spent \in BOOLEAN, Stop(spent) PROVE CompletedIsIntegrated'
  BY <1>2 DEF CompletedIsIntegrated, Stop, Leave
<1>3. ASSUME NEW spent \in BOOLEAN, NEW lost \in BOOLEAN, Pass(spent, lost)
      PROVE CompletedIsIntegrated'
  BY <1>3 DEF CompletedIsIntegrated, Pass, Leave
<1>4. CASE SpawnJobs
  BY <1>4 DEF CompletedIsIntegrated, SpawnJobs, Leave
<1>5. CASE ReadRevision
  BY <1>5 DEF CompletedIsIntegrated, ReadRevision
<1>6. CASE Land
  <2>1. cur \in Sessions /\ target \in Prds /\ prior \in SUBSET Prds
    BY <1>6, Driven DEF TypeOK, ThreadInv, Land
  <2>2. CASE Integrate(target, cur, prior)
    <3>1. Landed(target, cur)
      BY <2>1, <2>2, IntegrateWrites
    <3>2. QED
      BY <1>6, <2>1, <3>1 DEF Landed, TypeOK, CompletedIsIntegrated, Land
  <2>3. CASE UNCHANGED <<rows, revision, integrated, checkout, outcome>>
    BY <1>6, <2>1, <2>3 DEF TypeOK, CompletedIsIntegrated, Land
  <2>4. QED
    BY <1>6, <2>2, <2>3 DEF Land
<1>7. CASE FinishAttempt
  <2>1. cur \in Sessions /\ target \in Prds
    BY <1>7, <1>c DEF TypeOK, ThreadInv, FinishAttempt
  <2>2. attempt' \in {attempt, [attempt EXCEPT ![cur][target] = outcome]}
    BY <1>7 DEF FinishAttempt
  <2>3. \A t \in Sessions, q \in Prds : attempt'[t][q] = "completed" =>
          attempt[t][q] = "completed" \/ (t = cur /\ q = target /\ outcome = "completed")
    BY <2>1, <2>2 DEF TypeOK
  <2>4. UNCHANGED <<status, integrated>> /\ pc = "finish"
    BY <1>7 DEF FinishAttempt
  <2>5. QED
    BY <2>3, <2>4 DEF CompletedIsIntegrated, LandedInHand
<1>8. CASE EndEscalation
  BY <1>8 DEF TypeOK, CompletedIsIntegrated, EndEscalation
<1>9. CASE FinishSession
  BY <1>9 DEF CompletedIsIntegrated, FinishSession, Forgotten
<1>10. ASSUME NEW p \in Prds, Prepare(p) PROVE CompletedIsIntegrated'
  <2>1. cur \in Sessions
    BY <1>10, <1>c DEF Prepare
  <2>2. \A t \in Sessions, q \in Prds :
          attempt'[t][q] = "completed" => attempt[t][q] = "completed"
    BY <1>10, <2>1 DEF TypeOK, Prepare
  <2>3. QED
    BY <1>10, <2>2 DEF CompletedIsIntegrated, Prepare
<1>11. ASSUME NEW p \in Prds, Receive(p) PROVE CompletedIsIntegrated'
  BY <1>11 DEF CompletedIsIntegrated, Receive
<1>12. ASSUME NEW p \in Prds, AcceptRisk(p) PROVE CompletedIsIntegrated'
  BY <1>12 DEF CompletedIsIntegrated, AcceptRisk
<1>13. CASE StorageFails
  <2>1. cur \in Sessions
    BY <1>13, <1>c DEF StorageFails
  <2>2. \A t \in Sessions, q \in Prds :
          attempt'[t][q] = "completed" => attempt[t][q] = "completed"
    BY <1>13, <2>1 DEF TypeOK, StorageFails
  <2>3. QED
    BY <1>13, <2>2 DEF CompletedIsIntegrated, StorageFails
<1>14. CASE Crash
  BY <1>14 DEF CompletedIsIntegrated, Crash, Forgotten
<1>15. CASE ApprovalLands
  <2>1. /\ approval.prd \in Prds /\ approval.session \in Sessions
        /\ approval.prior \in SUBSET Prds
    BY <1>15 DEF TypeOK, ApprovalLands
  <2>2. CASE Integrate(approval.prd, approval.session, approval.prior)
    <3>1. PICK p \in Prds, s \in Sessions : s = approval.session /\ Landed(p, s)
      BY <2>1, <2>2, IntegrateWrites
    <3>2. /\ approval # NoApproval /\ approval' = NoApproval
          /\ UNCHANGED <<claim, session, attempt, ladder, cur, pc, plan, threads, hand>>
      BY <1>15 DEF ApprovalLands
    <3>3. QED
      BY <3>1, <3>2 DEF Landed, TypeOK, CompletedIsIntegrated
  <2>3. CASE UNCHANGED <<rows, revision, integrated, checkout>>
    BY <1>15, <2>1, <2>3 DEF TypeOK, CompletedIsIntegrated, ApprovalLands
  <2>4. QED
    BY <1>15, <2>2, <2>3 DEF ApprovalLands
<1>16. ASSUME NEW p \in Prds, WorkerClaims(p) PROVE CompletedIsIntegrated'
  BY <1>16 DEF TypeOK, CompletedIsIntegrated, WorkerClaims
<1>17. ASSUME NEW p \in Prds, WorkerEnds(p) PROVE CompletedIsIntegrated'
  BY <1>17 DEF CompletedIsIntegrated, WorkerEnds
<1>18. ASSUME NEW p \in Prds, HumanReleases(p) PROVE CompletedIsIntegrated'
  BY <1>18 DEF CompletedIsIntegrated, HumanReleases
<1>19. ASSUME NEW p \in Prds, ApprovalMerges(p) PROVE CompletedIsIntegrated'
  BY <1>19 DEF CompletedIsIntegrated, ApprovalMerges
<1>20. CASE UNCHANGED vars
  BY <1>20 DEF CompletedIsIntegrated, vars
<1>21. QED
  BY <1>1, <1>2, <1>3, <1>4, <1>5, <1>6, <1>7, <1>8, <1>9, <1>10, <1>11, <1>12, <1>13,
     <1>14, <1>15, <1>16, <1>17, <1>18, <1>19, <1>20 DEF Next, Loop, Work

(* Admission and preparation keep what is in flight apart, on completed    *)
(* dependencies and on what the session has landed.                        *)
LEMMA FlightStep ==
  TypeOK /\ ThreadInv /\ FlightInv /\ LandingsAreKept /\ [Next]_vars => FlightInv'
<1> SUFFICES ASSUME TypeOK, ThreadInv, FlightInv, LandingsAreKept, [Next]_vars
             PROVE  FlightInv'
  OBVIOUS
<1> USE DEF rows, ledger, human, plan, threads, hand
<1>c. pc # "down" => cur \in Sessions
  BY Driven
<1>z. 0 \notin Sessions /\ \A v \in 0 .. MaxSessions : v # 0 => v \in Sessions
  BY DriveAssumption DEF Sessions
<1>m. /\ \A q \in Prds : status[q] = "completed" => status'[q] = "completed"
      /\ \A t \in Sessions : integrated[t] \subseteq integrated'[t]
  BY CompletedForever, LandingsGrow DEF StaysCompleted, StaysLanded
<1>f. \A q \in Flight :
        q \in Prds /\ Deps[q] \subseteq Prds /\ \A d \in Deps[q] : status[d] # "in_progress"
  BY DriveAssumption DEF TypeOK, FlightInv, Flight
<1>1. ASSUME NEW s \in Sessions, OpenSession(s) PROVE FlightInv'
  BY <1>1 DEF TypeOK, ThreadInv, FlightInv, Flight, OpenSession, Closed
<1>2. ASSUME NEW spent \in BOOLEAN, Stop(spent) PROVE FlightInv'
  BY <1>2 DEF FlightInv, Flight, Stop, Leave
<1>3. ASSUME NEW spent \in BOOLEAN, NEW lost \in BOOLEAN, Pass(spent, lost)
      PROVE FlightInv'
  <2>1. CASE UNCHANGED <<status, integrated, batch, jobs, active, base, cur>>
    BY <2>1 DEF FlightInv, Flight
  <2>2. ASSUME NEW S \in SUBSET Prds, NEW foreign \in SUBSET Withheld,
               S = Picks(S, foreign, Width(StopNow(spent, lost))), batch' = S,
               UNCHANGED <<status, integrated, jobs, active, base, cur>>, pc = "top"
        PROVE  FlightInv'
    <3>1. \A p \in S : Ready(p) /\ \A q \in active \cup {r \in S : r < p} : q \notin Conflicts[p]
      BY <2>2 DEF Picks
    <3>2. \A p, q \in S : p # q => q \notin Conflicts[p]
      <4> SUFFICES ASSUME NEW p \in S, NEW q \in S, p # q PROVE q \notin Conflicts[p]
        OBVIOUS
      <4>1. p \in Nat /\ q \in Nat
        BY DriveAssumption
      <4>2. p < q \/ q < p
        BY <4>1
      <4>3. QED
        BY <3>1, <4>2, DriveAssumption
    <3>3. \A p \in S, q \in active : q \notin Conflicts[p] /\ p \notin Conflicts[q]
      BY <3>1, DriveAssumption DEF TypeOK
    <3>4. \A p \in S : \A d \in Deps[p] : status[d] = "completed"
      BY <3>1 DEF Ready
    <3>5. jobs = {} /\ batch = {}
      BY <2>2 DEF ThreadInv
    <3>6. QED
      BY <2>2, <3>2, <3>3, <3>4, <3>5 DEF FlightInv, Flight
  <2>3. QED
    BY <1>3, <2>1, <2>2 DEF Pass, Leave
<1>4. CASE SpawnJobs
  <2>1. CASE active \cup jobs = {}
    BY <1>4, <2>1 DEF FlightInv, Flight, SpawnJobs, Leave
  <2>2. CASE active \cup jobs # {}
    <3>1. /\ active' = active \cup jobs /\ jobs' = {} /\ batch' = batch
          /\ UNCHANGED <<status, integrated, base, cur>>
      BY <1>4, <2>2 DEF SpawnJobs
    <3>2. Flight' = Flight /\ (jobs \cup active)' = jobs \cup active
      BY <3>1 DEF Flight
    <3>3. QED
      BY <3>1, <3>2 DEF FlightInv
  <2>3. QED
    BY <2>1, <2>2
<1>5. CASE ReadRevision
  BY <1>5 DEF FlightInv, Flight, ReadRevision
<1>6. CASE Land
  <2>1. cur \in Sessions /\ target \in Prds /\ prior \in SUBSET Prds
    BY <1>6, Driven DEF TypeOK, ThreadInv, Land
  <2>2. CASE Integrate(target, cur, prior)
    <3>1. Landed(target, cur)
      BY <2>1, <2>2, IntegrateWrites
    <3>2. QED
      BY <1>6, <2>1, <3>1, <1>f DEF Landed, TypeOK, FlightInv, Flight, Land
  <2>3. CASE UNCHANGED <<rows, revision, integrated, checkout, outcome>>
    BY <1>6, <2>1, <2>3 DEF TypeOK, FlightInv, Flight, Land
  <2>4. QED
    BY <1>6, <2>2, <2>3 DEF Land
<1>7. CASE FinishAttempt
  BY <1>7 DEF ThreadInv, FlightInv, Flight, FinishAttempt
<1>8. CASE EndEscalation
  BY <1>8, DriveAssumption DEF TypeOK, FlightInv, Flight, EndEscalation
<1>9. CASE FinishSession
  BY <1>9 DEF FlightInv, Flight, FinishSession, Forgotten
<1>10. ASSUME NEW p \in Prds, Prepare(p) PROVE FlightInv'
  <2>1. cur \in Sessions /\ revision[cur] \subseteq Prds
        /\ integrated[cur] \subseteq revision[cur]
    BY <1>10, <1>c DEF TypeOK, LandingsAreKept, Prepare
  <2>2. Flight' \subseteq Flight /\ UNCHANGED <<status, integrated, cur, active>>
    BY <1>10 DEF Prepare, Flight
  <2>3. \/ jobs' = jobs /\ base' = base
        \/ jobs' = jobs \cup {p} /\ base' = [base EXCEPT ![p] = revision[cur]]
    BY <1>10 DEF Prepare
  <2>4. \A q \in jobs' \cup active : Deps[q] \cap integrated[cur] \subseteq base'[q]
    BY <2>1, <2>3 DEF FlightInv, TypeOK
  <2>5. QED
    BY <2>2, <2>4 DEF FlightInv
<1>11. ASSUME NEW p \in Prds, Receive(p) PROVE FlightInv'
  BY <1>11 DEF FlightInv, Flight, Receive
<1>12. ASSUME NEW p \in Prds, AcceptRisk(p) PROVE FlightInv'
  BY <1>12 DEF FlightInv, Flight, AcceptRisk
<1>13. CASE StorageFails
  BY <1>13 DEF FlightInv, Flight, StorageFails
<1>14. CASE Crash
  BY <1>14 DEF FlightInv, Flight, Crash, Forgotten
<1>15. CASE ApprovalLands
  <2>1. /\ approval.prd \in Prds /\ approval.session \in Sessions
        /\ approval.prior \in SUBSET Prds
    BY <1>15 DEF TypeOK, ApprovalLands
  <2>2. CASE Integrate(approval.prd, approval.session, approval.prior)
    <3>1. PICK p \in Prds, s \in Sessions : s = approval.session /\ Landed(p, s)
      BY <2>1, <2>2, IntegrateWrites
    <3>2. /\ approval # NoApproval /\ approval' = NoApproval
          /\ UNCHANGED <<claim, session, attempt, ladder, cur, pc, plan, threads, hand>>
      BY <1>15 DEF ApprovalLands
    <3>3. \A q \in Flight : p \notin Deps[q]
      BY <3>1, <1>f DEF Landed
    <3>4. cur \in Sessions => integrated'[cur] \subseteq integrated[cur] \cup {p}
      BY <3>1 DEF Landed
    <3>5. Flight' = Flight /\ (Flight # {} => cur \in Sessions)
      BY <3>2, <1>z DEF Flight, ThreadInv, TypeOK
    <3>6. QED
      BY <3>2, <3>3, <3>4, <3>5, <1>f, <1>m DEF FlightInv, Flight
  <2>3. CASE UNCHANGED <<rows, revision, integrated, checkout>>
    BY <1>15, <2>1, <2>3 DEF TypeOK, FlightInv, Flight, ApprovalLands
  <2>4. QED
    BY <1>15, <2>2, <2>3 DEF ApprovalLands
<1>16. ASSUME NEW p \in Prds, WorkerClaims(p) PROVE FlightInv'
  BY <1>16, DriveAssumption DEF TypeOK, FlightInv, Flight, WorkerClaims
<1>17. ASSUME NEW p \in Prds, WorkerEnds(p) PROVE FlightInv'
  BY <1>17 DEF FlightInv, Flight, WorkerEnds
<1>18. ASSUME NEW p \in Prds, HumanReleases(p) PROVE FlightInv'
  BY <1>18 DEF FlightInv, Flight, HumanReleases
<1>19. ASSUME NEW p \in Prds, ApprovalMerges(p) PROVE FlightInv'
  BY <1>19 DEF FlightInv, Flight, ApprovalMerges
<1>20. CASE UNCHANGED vars
  BY <1>20 DEF FlightInv, Flight, vars
<1>21. QED
  BY <1>1, <1>2, <1>3, <1>4, <1>5, <1>6, <1>7, <1>8, <1>9, <1>10, <1>11, <1>12, <1>13,
     <1>14, <1>15, <1>16, <1>17, <1>18, <1>19, <1>20 DEF Next, Loop, Work

(* A PRD leaves the batch when it is counted, once. *)
LEMMA AttemptedStep ==
  TypeOK /\ ThreadInv /\ AttemptedOnce /\ [Next]_vars => AttemptedOnce'
<1> SUFFICES ASSUME TypeOK, ThreadInv, AttemptedOnce, [Next]_vars
             PROVE  AttemptedOnce'
  OBVIOUS
<1> USE DEF rows, ledger, human, plan, threads, hand
<1>1. ASSUME NEW s \in Sessions, OpenSession(s) PROVE AttemptedOnce'
  BY <1>1 DEF AttemptedOnce, OpenSession, Closed
<1>2. ASSUME NEW spent \in BOOLEAN, Stop(spent) PROVE AttemptedOnce'
  BY <1>2 DEF AttemptedOnce, Stop, Leave
<1>3. ASSUME NEW spent \in BOOLEAN, NEW lost \in BOOLEAN, Pass(spent, lost)
      PROVE AttemptedOnce'
  <2>1. batch' \cap attempted = {}
    <3>1. batch = {}
      BY <1>3 DEF ThreadInv, Pass
    <3>2. \A S, foreign : S = Picks(S, foreign, Width(StopNow(spent, lost)))
                               => S \cap attempted = {}
      BY DEF Picks, Ready
    <3>3. QED
      BY <1>3, <3>1, <3>2 DEF Pass, Leave
  <2>2. QED
    BY <1>3, <2>1 DEF AttemptedOnce, Pass, Leave
<1>4. CASE SpawnJobs
  BY <1>4 DEF AttemptedOnce, SpawnJobs, Leave
<1>5. CASE ReadRevision
  BY <1>5 DEF AttemptedOnce, ReadRevision
<1>6. CASE Land
  BY <1>6 DEF AttemptedOnce, Land, Integrate
<1>7. CASE FinishAttempt
  BY <1>7 DEF AttemptedOnce, FinishAttempt
<1>8. CASE EndEscalation
  BY <1>8 DEF AttemptedOnce, EndEscalation
<1>9. CASE FinishSession
  <2>1. Cardinality({}) = 0
    BY FS_EmptySet
  <2>2. QED
    BY <1>9, <2>1 DEF AttemptedOnce, FinishSession, Forgotten
<1>10. ASSUME NEW p \in Prds, Prepare(p) PROVE AttemptedOnce'
  <2>1. /\ Cardinality(attempted \cup {p}) = Cardinality(attempted) + 1
        /\ Cardinality(attempted) \in Nat
    BY <1>10, Attempting DEF Prepare
  <2>2. count \in Nat
    BY DriveAssumption, FS_CardinalityType DEF TypeOK
  <2>3. count' \in {count, count + 1} /\ attempted' = attempted \cup {p} /\ batch' = batch \ {p}
    BY <1>10 DEF Prepare
  <2>4. QED
    BY <2>1, <2>2, <2>3 DEF AttemptedOnce
<1>11. ASSUME NEW p \in Prds, Receive(p) PROVE AttemptedOnce'
  BY <1>11 DEF AttemptedOnce, Receive
<1>12. ASSUME NEW p \in Prds, AcceptRisk(p) PROVE AttemptedOnce'
  BY <1>12 DEF AttemptedOnce, AcceptRisk
<1>13. CASE StorageFails
  BY <1>13 DEF AttemptedOnce, StorageFails
<1>14. CASE Crash
  <2>1. Cardinality({}) = 0
    BY FS_EmptySet
  <2>2. QED
    BY <1>14, <2>1 DEF AttemptedOnce, Crash, Forgotten
<1>15. CASE ApprovalLands
  BY <1>15 DEF AttemptedOnce, ApprovalLands, Integrate
<1>16. ASSUME NEW p \in Prds, WorkerClaims(p) PROVE AttemptedOnce'
  BY <1>16 DEF AttemptedOnce, WorkerClaims
<1>17. ASSUME NEW p \in Prds, WorkerEnds(p) PROVE AttemptedOnce'
  BY <1>17 DEF AttemptedOnce, WorkerEnds
<1>18. ASSUME NEW p \in Prds, HumanReleases(p) PROVE AttemptedOnce'
  BY <1>18 DEF AttemptedOnce, HumanReleases
<1>19. ASSUME NEW p \in Prds, ApprovalMerges(p) PROVE AttemptedOnce'
  BY <1>19 DEF AttemptedOnce, ApprovalMerges
<1>20. CASE UNCHANGED vars
  BY <1>20 DEF AttemptedOnce, vars
<1>21. QED
  BY <1>1, <1>2, <1>3, <1>4, <1>5, <1>6, <1>7, <1>8, <1>9, <1>10, <1>11, <1>12, <1>13,
     <1>14, <1>15, <1>16, <1>17, <1>18, <1>19, <1>20 DEF Next, Loop, Work

(* Every open attempt is one a worker runs, the one in hand, or the cause  *)
(* of a stop.                                                              *)
LEMMA AccountedStep ==
  TypeOK /\ ThreadInv /\ OpenIsAccounted /\ [Next]_vars => OpenIsAccounted'
<1> SUFFICES ASSUME TypeOK, ThreadInv, OpenIsAccounted, [Next]_vars
             PROVE  OpenIsAccounted'
  OBVIOUS
<1> USE DEF rows, ledger, human, plan, threads, hand
<1>c. pc # "down" => cur \in Sessions
  BY Driven
<1>z. 0 \notin Sessions /\ \A v \in 0 .. MaxSessions : v # 0 => v \in Sessions
  BY DriveAssumption DEF Sessions
<1>1. ASSUME NEW s \in Sessions, OpenSession(s) PROVE OpenIsAccounted'
  BY <1>1 DEF OpenIsAccounted, OpenSession, Closed
<1>2. ASSUME NEW spent \in BOOLEAN, Stop(spent) PROVE OpenIsAccounted'
  BY <1>2 DEF OpenIsAccounted, Leftover, Stop, Leave
<1>3. ASSUME NEW spent \in BOOLEAN, NEW lost \in BOOLEAN, Pass(spent, lost)
      PROVE OpenIsAccounted'
  <2>1. GoesOn(spent) /\ pc = "top" /\ jobs = {}
    BY <1>3 DEF Pass, ThreadInv
  <2>2. CASE active = {}
    <3>1. ~ stop
      BY <2>1, <2>2 DEF GoesOn
    <3>2. \A q \in Prds : cur # 0 => attempt[cur][q] # "open" /\ ladder[cur][q] # "open"
      BY <2>1, <2>2, <3>1 DEF OpenIsAccounted, Leftover
    <3>3. QED
      BY <1>3, <3>2 DEF Pass, Leave, OpenIsAccounted
  <2>3. CASE active # {}
    <3>1. /\ pc' = "prepare" /\ (stop => stop')
          /\ UNCHANGED <<cur, attempt, ladder, jobs, active, target>>
      BY <1>3, <2>3 DEF Pass, StopNow
    <3>2. QED
      BY <2>1, <2>3, <3>1 DEF OpenIsAccounted, Leftover
  <2>4. QED
    BY <2>2, <2>3
<1>4. CASE SpawnJobs
  BY <1>4 DEF OpenIsAccounted, Leftover, SpawnJobs, Leave
<1>5. CASE ReadRevision
  BY <1>5 DEF OpenIsAccounted, Leftover, ReadRevision
<1>6. CASE Land
  BY <1>6 DEF OpenIsAccounted, Leftover, Land, Integrate
<1>7. CASE FinishAttempt
  BY <1>7, <1>z DEF TypeOK, ThreadInv, OpenIsAccounted, Leftover, FinishAttempt
<1>8. CASE EndEscalation
  BY <1>8, <1>c DEF TypeOK, OpenIsAccounted, Leftover, EndEscalation
<1>9. CASE FinishSession
  BY <1>9 DEF OpenIsAccounted, FinishSession, Forgotten
<1>10. ASSUME NEW p \in Prds, Prepare(p) PROVE OpenIsAccounted'
  BY <1>10, <1>z DEF TypeOK, ThreadInv, OpenIsAccounted, Leftover, Prepare
<1>11. ASSUME NEW p \in Prds, Receive(p) PROVE OpenIsAccounted'
  BY <1>11 DEF OpenIsAccounted, Leftover, Receive
<1>12. ASSUME NEW p \in Prds, AcceptRisk(p) PROVE OpenIsAccounted'
  BY <1>12 DEF OpenIsAccounted, Leftover, AcceptRisk
<1>13. CASE StorageFails
  BY <1>13, <1>c DEF TypeOK, OpenIsAccounted, Leftover, StorageFails
<1>14. CASE Crash
  BY <1>14 DEF OpenIsAccounted, Crash, Forgotten
<1>15. CASE ApprovalLands
  BY <1>15 DEF OpenIsAccounted, Leftover, ApprovalLands, Integrate
<1>16. ASSUME NEW p \in Prds, WorkerClaims(p) PROVE OpenIsAccounted'
  BY <1>16 DEF OpenIsAccounted, Leftover, WorkerClaims
<1>17. ASSUME NEW p \in Prds, WorkerEnds(p) PROVE OpenIsAccounted'
  BY <1>17 DEF OpenIsAccounted, Leftover, WorkerEnds
<1>18. ASSUME NEW p \in Prds, HumanReleases(p) PROVE OpenIsAccounted'
  BY <1>18 DEF OpenIsAccounted, Leftover, HumanReleases
<1>19. ASSUME NEW p \in Prds, ApprovalMerges(p) PROVE OpenIsAccounted'
  BY <1>19 DEF OpenIsAccounted, Leftover, ApprovalMerges
<1>20. CASE UNCHANGED vars
  BY <1>20 DEF OpenIsAccounted, Leftover, vars
<1>21. QED
  BY <1>1, <1>2, <1>3, <1>4, <1>5, <1>6, <1>7, <1>8, <1>9, <1>10, <1>11, <1>12, <1>13,
     <1>14, <1>15, <1>16, <1>17, <1>18, <1>19, <1>20 DEF Next, Loop, Work

(* A session ends for want of work with nothing open. *)
LEMMA EndsStep ==
  TypeOK /\ ThreadInv /\ SessionsAreOpened /\ OpenIsAccounted /\ EndsAccounted /\ [Next]_vars
    => EndsAccounted'
<1> SUFFICES ASSUME TypeOK, ThreadInv, SessionsAreOpened, OpenIsAccounted, EndsAccounted,
                    [Next]_vars
             PROVE  EndsAccounted'
  OBVIOUS
<1> USE DEF rows, ledger, human, plan, threads, hand
<1>c. pc # "down" => cur \in Sessions
  BY Driven
<1>z. 0 \notin Sessions /\ \A v \in 0 .. MaxSessions : v # 0 => v \in Sessions
  BY DriveAssumption DEF Sessions
<1>1. ASSUME NEW s \in Sessions, OpenSession(s) PROVE EndsAccounted'
  BY <1>1 DEF EndsAccounted, OpenSession, Closed
<1>2. ASSUME NEW spent \in BOOLEAN, Stop(spent) PROVE EndsAccounted'
  BY <1>2 DEF EndsAccounted, Stop, Leave
<1>3. ASSUME NEW spent \in BOOLEAN, NEW lost \in BOOLEAN, Pass(spent, lost)
      PROVE EndsAccounted'
  BY <1>3 DEF EndsAccounted, Pass, Leave
<1>4. CASE SpawnJobs
  BY <1>4 DEF EndsAccounted, SpawnJobs, Leave
<1>5. CASE ReadRevision
  BY <1>5 DEF EndsAccounted, ReadRevision
<1>6. CASE Land
  BY <1>6 DEF EndsAccounted, Land, Integrate
<1>7. CASE FinishAttempt
  <2>1. cur \in Sessions /\ session[cur] = "open"
    BY <1>7, <1>c, <1>z DEF SessionsAreOpened, FinishAttempt
  <2>2. /\ \A t \in Sessions \ {cur} : attempt'[t] = attempt[t] /\ ladder'[t] = ladder[t]
        /\ session' = session
    BY <1>7, <2>1 DEF TypeOK, FinishAttempt
  <2>3. QED
    BY <2>1, <2>2 DEF EndsAccounted
<1>8. CASE EndEscalation
  <2>1. cur \in Sessions /\ session[cur] = "open"
    BY <1>8, <1>c, <1>z DEF SessionsAreOpened, EndEscalation
  <2>2. /\ \A t \in Sessions \ {cur} : attempt'[t] = attempt[t] /\ ladder'[t] = ladder[t]
        /\ session' = session
    BY <1>8, <2>1 DEF TypeOK, EndEscalation
  <2>3. QED
    BY <2>1, <2>2 DEF EndsAccounted
<1>9. CASE FinishSession
  <2>1. cur \in Sessions /\ pc = "leave" /\ UNCHANGED <<attempt, ladder>>
    BY <1>9, <1>c DEF FinishSession
  <2>2. \A t \in Sessions \ {cur} : session'[t] = session[t]
    BY <1>9 DEF TypeOK, FinishSession
  <2>3. session'[cur] = "nothing_eligible" => outcome = "nothing_eligible"
    BY <1>9, <2>1, <1>z DEF TypeOK, SessionsAreOpened, FinishSession
  <2>4. outcome = "nothing_eligible" =>
          \A q \in Prds : attempt[cur][q] # "open" /\ ladder[cur][q] # "open"
    BY <2>1, <1>z DEF ThreadInv, OpenIsAccounted, Leftover
  <2>5. QED
    BY <2>1, <2>2, <2>3, <2>4 DEF EndsAccounted
<1>10. ASSUME NEW p \in Prds, Prepare(p) PROVE EndsAccounted'
  BY <1>10 DEF TypeOK, SessionsAreOpened, EndsAccounted, Prepare
<1>11. ASSUME NEW p \in Prds, Receive(p) PROVE EndsAccounted'
  BY <1>11 DEF EndsAccounted, Receive
<1>12. ASSUME NEW p \in Prds, AcceptRisk(p) PROVE EndsAccounted'
  BY <1>12 DEF EndsAccounted, AcceptRisk
<1>13. CASE StorageFails
  BY <1>13, <1>z DEF TypeOK, ThreadInv, EndsAccounted, StorageFails
<1>14. CASE Crash
  BY <1>14 DEF EndsAccounted, Crash, Forgotten
<1>15. CASE ApprovalLands
  BY <1>15 DEF EndsAccounted, ApprovalLands, Integrate
<1>16. ASSUME NEW p \in Prds, WorkerClaims(p) PROVE EndsAccounted'
  BY <1>16 DEF EndsAccounted, WorkerClaims
<1>17. ASSUME NEW p \in Prds, WorkerEnds(p) PROVE EndsAccounted'
  BY <1>17 DEF EndsAccounted, WorkerEnds
<1>18. ASSUME NEW p \in Prds, HumanReleases(p) PROVE EndsAccounted'
  BY <1>18 DEF EndsAccounted, HumanReleases
<1>19. ASSUME NEW p \in Prds, ApprovalMerges(p) PROVE EndsAccounted'
  BY <1>19 DEF EndsAccounted, ApprovalMerges
<1>20. CASE UNCHANGED vars
  BY <1>20 DEF EndsAccounted, vars
<1>21. QED
  BY <1>1, <1>2, <1>3, <1>4, <1>5, <1>6, <1>7, <1>8, <1>9, <1>10, <1>11, <1>12, <1>13,
     <1>14, <1>15, <1>16, <1>17, <1>18, <1>19, <1>20 DEF Next, Loop, Work

(* Every step of a drive, of a worker, of the operator and of a crash       *)
(* preserves the inductive invariant.                                      *)
LEMMA Inductive == DriveInv /\ [Next]_vars => DriveInv'
BY TypeStep, OpenedStep, ThreadStep, HandStep, FlightStep, AttemptedStep, AccountedStep,
   KeptStep, ReportedStep, EndsStep DEF DriveInv

(* The inductive invariant holds of every drive. *)
THEOREM DriveInvariant == Spec => []DriveInv
BY InitInv, Inductive, PTL DEF Spec

(* The rows of drive.rs and driver.rs, and the state of its loop, are      *)
(* well-typed; no session attempts more PRDs than there are.               *)
THEOREM TypeCorrect == Spec => []TypeOK
<1>1. DriveInv => TypeOK
  BY DEF DriveInv
<1>2. QED
  BY <1>1, DriveInvariant, PTL

(* select_batch_with_foreign never admits work that overlaps a worker in   *)
(* flight, whatever the backlog and the parallelism.                       *)
THEOREM WorkersNeverOverlap == Spec => []NoOverlap
<1>1. DriveInv => NoOverlap
  BY DEF DriveInv, FlightInv, Flight, NoOverlap
<1>2. QED
  BY <1>1, DriveInvariant, PTL

(* The compare-and-swap of the landing transaction loses no landing, with  *)
(* any number of sessions and an approval that races the merge queue.      *)
THEOREM NoLandingLost == Spec => []LandingsAreKept
<1>1. DriveInv => LandingsAreKept
  BY DEF DriveInv
<1>2. QED
  BY <1>1, DriveInvariant, PTL

(* record_attempt_finished reports completed only what has been integrated *)
(* and whose PRD is completed.                                             *)
THEOREM ReportsAreTrue == Spec => []CompletedIsIntegrated
<1>1. DriveInv => CompletedIsIntegrated
  BY DEF DriveInv
<1>2. QED
  BY <1>1, DriveInvariant, PTL

(* The worktree of every worker contains the dependencies that its session *)
(* has landed.                                                             *)
THEOREM WorktreesAreCurrent == Spec => []StartsOnLandedWork
<1>1. DriveInv => StartsOnLandedWork
  BY DEF DriveInv, FlightInv, StartsOnLandedWork
<1>2. QED
  BY <1>1, DriveInvariant, PTL

(* A session that ends with nothing_eligible leaves no attempt open that   *)
(* had a workspace.                                                        *)
THEOREM NothingLeftOpen == Spec => []EndsAccounted
<1>1. DriveInv => EndsAccounted
  BY DEF DriveInv
<1>2. QED
  BY <1>1, DriveInvariant, PTL

(* recv is reached only with a worker that runs or has sent. *)
THEOREM RecvReturns == Spec => []NeverWaitsInVain
<1>1. DriveInv => NeverWaitsInVain
  BY DEF DriveInv, ThreadInv, NeverWaitsInVain
<1>2. QED
  BY <1>1, DriveInvariant, PTL

(* A drive never takes a PRD out of completed. *)
THEOREM CompletedNeverLeft == Spec => [][StaysCompleted]_vars
<1>1. TypeOK /\ [Next]_vars => [StaysCompleted]_vars
  BY CompletedForever
<1>2. QED
  BY <1>1, TypeCorrect, PTL DEF Spec
=============================================================================
