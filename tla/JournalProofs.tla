---------------------------- MODULE JournalProofs ----------------------------
(***************************************************************************)
(* Proofs about the two journals between the program and effects that      *)
(* cannot be taken back.                                                   *)
(*                                                                         *)
(* The journal of a delivery (Delivery) never runs ahead of the world, for *)
(* any number of deliveries, lost commands and changes made by hand.       *)
(*                                                                         *)
(* The tool journal of the raw agent loop (AgentRuntime) lets the effect   *)
(* of a call happen once, and its guard leaves no reservation behind, for  *)
(* any stages, slots, ceilings, crashes and failing writes.                *)
(***************************************************************************)
EXTENDS Delivery, AgentRuntime, FiniteSetTheorems, TLAPS

(* There is a change by hand behind every commit after the first. *)
CommitsAreEdits ==
  /\ head <= edits + 1
  /\ tree # "clean" => head <= edits

(* A request is named from published on and not before, and staging is     *)
(* reached only under a journal that names one.                            *)
NamedWhenPublished ==
  journal.change \/ staging # 0 => Rank(journal.phase) >= 3 /\ journal.change

(* The step a delivery is at agrees with the phase that was written.       *)
StepFollowsPhase ==
  /\ delivery.at = "commit" => Rank(journal.phase) < 1
  /\ delivery.at = "push" => Rank(journal.phase) = 1
  /\ delivery.at = "no_forge" => Rank(journal.phase) >= 2
  /\ delivery.at = "probe" => Rank(journal.phase) = 2
  /\ delivery.at \in {"hand_over", "checks", "merge", "deploy", "smoke"} => journal.change
  /\ delivery.at \in {"checks", "merge"} => Rank(journal.phase) = 3
  /\ delivery.at = "merge" => request.version \in green \cup late
  /\ delivery.at = "deploy" => Rank(journal.phase) = 4
  /\ delivery.at = "smoke" => Rank(journal.phase) >= 5

DeliveryInv ==
  /\ TypeOK
  /\ CommitsAreEdits
  /\ NamedWhenPublished
  /\ StepFollowsPhase
  /\ PhaseIsEarned

-----------------------------------------------------------------------------
(* What phase_before makes of each phase, read off once so that the proofs *)
(* below need not open the definition of Rank.                             *)
LEMMA RankOfPhase ==
  /\ \A phase : Rank(phase) \in 0 .. 6
  /\ Rank("none") = 0 /\ Rank("admitted") = 0 /\ Rank("committed") = 1 /\ Rank("pushed") = 2
  /\ Rank("published") = 3 /\ Rank("awaiting_merge_authority") = 3
  /\ Rank("awaiting_manual_publication") = 3 /\ Rank("checks_failed") = 3
  /\ Rank("merged") = 4 /\ Rank("staging_rolled_back") = 4
  /\ Rank("staging_deployed") = 5 /\ Rank("staging_verified") = 6
  /\ Rank("identity_mismatch") = 0 /\ Rank("deployment_blocked") = 0
  BY DEF Rank

(* The step that deliver_with takes next is a step of the delivery, and is *)
(* reached with the phase and the change request it needs.                 *)
LEMMA NextStepFits ==
  ASSUME NEW j \in [phase : Phases, change : BOOLEAN], NEW r
  PROVE  /\ NextStep(j, r) \in Steps \ {"due", "idle", "merge"}
         /\ NextStep(j, r) = "commit" => Rank(j.phase) < 1
         /\ NextStep(j, r) = "push" => Rank(j.phase) = 1
         /\ NextStep(j, r) = "no_forge" => Rank(j.phase) >= 2
         /\ NextStep(j, r) = "probe" => Rank(j.phase) = 2
         /\ NextStep(j, r) \in {"hand_over", "checks", "deploy", "smoke"} => j.change
         /\ NextStep(j, r) = "checks" => Rank(j.phase) = 3
         /\ NextStep(j, r) = "deploy" => Rank(j.phase) = 4
         /\ NextStep(j, r) = "smoke" => Rank(j.phase) >= 5
<1>1. Rank(j.phase) \in 0 .. 6
  BY RankOfPhase
<1>2. j.change \in BOOLEAN
  OBVIOUS
<1> QED BY <1>1, <1>2 DEF NextStep, Steps

(* There may be no branch.                                                *)
LEMMA RevisionTyped == NoRevision \in Revisions
  BY DeliveryAssumption DEF NoRevision, Revisions, Versions

(* Before the drive delivers every part of the invariant holds. *)
LEMMA InitInv == Init => DeliveryInv
<1> SUFFICES ASSUME Init PROVE DeliveryInv
  OBVIOUS
<1>1. delivery = [at |-> "due", by |-> "drive", mode |-> "manual", forge |-> "none",
                  gate |-> FALSE]
  BY DEF Init, Resting
<1>2. delivery \in [at : Steps, by : {"drive", "operator"}, mode : {"manual", "auto"},
                    forge : Forges, gate : BOOLEAN]
  BY <1>1 DEF Steps, Forges
<1>3. TypeOK
  <2>1. journal \in [phase : Phases, change : BOOLEAN] /\ owner = "ready_for_delivery"
    BY DEF Init, Phases
  <2>2. /\ branch \in Revisions
        /\ request \in [state : {"none", "open", "merged"}, version : Revisions]
    BY RevisionTyped DEF Init, NoRequest
  <2>3. tree = "clean" /\ head \in Versions /\ staging = 0 /\ green = {} /\ edits \in 0 .. MaxEdits
    BY DeliveryAssumption DEF Init, Versions
  <2>4. commit \in 0 .. head /\ sent \in 0 .. head /\ late \subseteq Revisions
    BY DEF Init
  <2> QED BY <1>2, <2>1, <2>2, <2>3, <2>4 DEF TypeOK
<1>4. CommitsAreEdits /\ NamedWhenPublished /\ StepFollowsPhase /\ PhaseIsEarned
  BY <1>1, RankOfPhase DEF Init, CommitsAreEdits, NamedWhenPublished, StepFollowsPhase,
                           PhaseIsEarned, NoRequest, NoRevision
<1> QED
  BY <1>3, <1>4 DEF DeliveryInv

(* A push leaves a request as it is or moves it.                           *)
Updated ==
  /\ branch' \in Revisions /\ late' \subseteq Revisions /\ late \subseteq late'
  /\ request' \in [state : {"none", "open", "merged"}, version : Revisions]
  /\ request'.state = request.state
  /\ request.state # "open" => request' = request
  /\ request' = request \/ delivery.at # "merge" \/ request'.version \in late'

(* Every step of the drive, of an operator and of the people around them   *)
(* preserves the invariant.                                                *)
LEMMA NextInv == DeliveryInv /\ [Next]_vars => DeliveryInv'
<1> SUFFICES ASSUME DeliveryInv, [Next]_vars PROVE DeliveryInv'
  OBVIOUS
<1> USE DeliveryAssumption, RankOfPhase, RevisionTyped
    DEF DeliveryInv, TypeOK, CommitsAreEdits, NamedWhenPublished, StepFollowsPhase,
        PhaseIsEarned, git
<1>a. ASSUME NEW phase \in Phases, NEW change \in BOOLEAN, Proceed(phase, change)
      PROVE  /\ journal' \in [phase : Phases, change : BOOLEAN]
             /\ journal'.phase = phase /\ journal'.change = change
             /\ delivery' \in [at : Steps, by : {"drive", "operator"}, mode : {"manual", "auto"},
                          forge : Forges, gate : BOOLEAN]
             /\ delivery'.at = NextStep(journal', delivery) /\ owner' = owner
  BY <1>a, NextStepFits DEF Proceed
<1>b. ASSUME NEW phase \in Phases, Return(phase) \/ Stop(phase)
      PROVE  /\ journal' \in [phase : Phases, change : BOOLEAN]
             /\ journal'.phase = phase /\ journal'.change = journal.change
             /\ delivery' \in [at : Steps, by : {"drive", "operator"}, mode : {"manual", "auto"},
                          forge : Forges, gate : BOOLEAN]
             /\ delivery'.at = "idle" /\ owner' \in Phases \cup {"ready_for_delivery"}
  <2>1. journal' = [journal EXCEPT !.phase = phase] /\ delivery' = Resting
        /\ owner' \in {phase, owner}
    BY <1>b DEF Return, Stop
  <2> QED BY <2>1 DEF Resting, Steps, Forges
<1>c. journal.phase \in Phases
  OBVIOUS
<1>d. ASSUME NEW revision \in Revisions, Update(revision) PROVE Updated
  BY <1>d DEF Update, Updated
<1>e. ASSUME SendHead PROVE Updated /\ sent' = head
  <2>1. [ours |-> head, theirs |-> 0] \in Revisions
    BY DEF Revisions, Versions
  <2>2. PICK revision \in Revisions : Update(revision)
    BY <1>e, <2>1 DEF SendHead
  <2> QED BY <1>d, <1>e, <2>2 DEF SendHead
<1>1. ASSUME NEW mode \in {"manual", "auto"}, NEW forge \in Forges, NEW gate \in BOOLEAN,
             Deliver(mode, forge, gate)
      PROVE  DeliveryInv'
  <2>1. /\ journal' \in [phase : Phases, change : BOOLEAN]
        /\ Rank(journal'.phase) = Rank(journal.phase)
        /\ journal'.change = journal.change
    BY <1>1 DEF Deliver, Phases
  <2>2. PICK r : delivery' = [r EXCEPT !.at = NextStep(journal', r)]
                 /\ r = [delivery EXCEPT !.mode = mode, !.forge = forge, !.gate = gate]
    BY <1>1 DEF Deliver
  <2>3. delivery' \in [at : Steps, by : {"drive", "operator"}, mode : {"manual", "auto"},
                  forge : Forges, gate : BOOLEAN] /\ delivery'.at = NextStep(journal', r)
    BY <2>1, <2>2, NextStepFits
  <2> QED BY <1>1, <2>1, <2>3, NextStepFits DEF Deliver, world
<1>2. CASE Fail
  BY <1>2, <1>b, <1>c DEF Fail, Lost, world
<1>3. CASE Commit
  <2>1. CASE Proceed("committed", journal.change)
    BY <1>3, <2>1, <1>a, NextStepFits DEF Commit, NewCommit, Phases, Versions
  <2>2. CASE Lost
    BY <1>3, <2>2, <1>b, <1>c DEF Commit, NewCommit, Lost, Versions
  <2> QED BY <1>3, <2>1, <2>2 DEF Commit
<1>4. CASE BlockMigration
  BY <1>4, <1>b DEF BlockMigration, world, Phases
<1>5. CASE Push
  <2>0. /\ delivery.at = "push" /\ Updated /\ sent' = head
        /\ UNCHANGED <<tree, head, commit, green, staging, edits>>
    BY <1>5, <1>e DEF Push
  <2>1. CASE Proceed("pushed", journal.change)
    <3>1. /\ journal' \in [phase : Phases, change : BOOLEAN] /\ owner' = owner
          /\ Rank(journal'.phase) = 2 /\ journal'.change = journal.change
          /\ delivery' \in [at : Steps, by : {"drive", "operator"}, mode : {"manual", "auto"},
                       forge : Forges, gate : BOOLEAN]
          /\ delivery'.at = NextStep(journal', delivery)
      BY <2>1, <1>a DEF Phases
    <3>2. StepFollowsPhase'
      BY <3>1, NextStepFits
    <3>3. NamedWhenPublished' /\ PhaseIsEarned'
      BY <2>0, <3>1 DEF Updated
    <3> QED BY <2>0, <3>1, <3>2, <3>3 DEF Updated, Versions
  <2>2. CASE Lost
    <3>1. /\ journal' \in [phase : Phases, change : BOOLEAN]
          /\ owner' \in Phases \cup {"ready_for_delivery"}
          /\ journal'.phase = journal.phase /\ journal'.change = journal.change
          /\ delivery' \in [at : Steps, by : {"drive", "operator"}, mode : {"manual", "auto"},
                       forge : Forges, gate : BOOLEAN]
          /\ delivery'.at = "idle"
      BY <2>2, <1>b, <1>c DEF Lost
    <3>2. StepFollowsPhase' /\ NamedWhenPublished' /\ PhaseIsEarned'
      BY <2>0, <3>1 DEF Updated
    <3> QED BY <2>0, <3>1, <3>2 DEF Updated, Versions
  <2> QED BY <1>5, <2>1, <2>2 DEF Push
<1>6. CASE NoForge
  BY <1>6, <1>b, <1>c DEF NoForge, world, Phases
<1>7. CASE RefuseAccount
  BY <1>7, <1>b DEF RefuseAccount, world, Phases
<1>8. CASE Publish
  <2>0. request' \in [state : {"none", "open", "merged"}, version : Revisions]
    BY <1>8 DEF Publish, Opened
  <2>1. ASSUME NEW found \in {FALSE, request'.state # "none"}, Proceed("published", found)
        PROVE  DeliveryInv'
    <3>1. found \in BOOLEAN /\ (found => request'.state # "none")
      BY <2>1
    <3>2. "published" \in Phases
      BY DEF Phases
    <3>3. staging = 0 /\ Rank(journal.phase) = 2
      BY <1>8 DEF Publish
    <3> QED BY <1>8, <2>0, <2>1, <3>1, <3>2, <3>3, <1>a, NextStepFits DEF Publish
  <2>2. CASE Lost
    BY <1>8, <2>0, <2>2, <1>b, <1>c DEF Publish, Lost
  <2> QED BY <1>8, <2>1, <2>2 DEF Publish
<1>9. CASE Unidentified
  BY <1>9, <1>b, <1>c DEF Unidentified, Lost, world
<1>10. CASE HandOver
  BY <1>10, <1>b DEF HandOver, world, Phases
<1>11. CASE DeclineChecks
  BY <1>11, <1>b DEF DeclineChecks, world, Phases
<1>12. CASE ChecksPass
  BY <1>12 DEF ChecksPass, Steps
<1>13. CASE ChecksFail
  BY <1>13, <1>b DEF ChecksFail, world, Phases
<1>14. CASE Merge
  <2>1. CASE Proceed("merged", journal.change)
    BY <1>14, <2>1, <1>a, NextStepFits DEF Merge, MergeRequest, Phases
  <2>2. CASE Lost
    BY <1>14, <2>2, <1>b, <1>c DEF Merge, MergeRequest, Lost
  <2> QED BY <1>14, <2>1, <2>2 DEF Merge
<1>15. CASE Deploy
  <2>1. CASE Proceed("staging_deployed", journal.change)
    BY <1>15, <2>1, <1>a, NextStepFits DEF Deploy, Phases
  <2>2. CASE Lost
    BY <1>15, <2>2, <1>b, <1>c DEF Deploy, Lost
  <2> QED BY <1>15, <2>1, <2>2 DEF Deploy
<1>16. CASE RollBack
  <2>1. CASE Stop("staging_rolled_back")
    BY <1>16, <2>1, <1>b DEF RollBack, Phases
  <2>2. CASE Lost
    BY <1>16, <2>2, <1>b, <1>c DEF RollBack, Lost
  <2> QED BY <1>16, <2>1, <2>2 DEF RollBack
<1>17. CASE Verified
  BY <1>17, <1>b DEF Verified, world, Phases
<1>18. CASE People
  <2>1. ASSUME NEW kind \in {"plain", "migration"}, Edit(kind) PROVE DeliveryInv'
    BY <2>1 DEF Edit, Versions
  <2>2. CASE CommitByHand
    BY <2>2 DEF CommitByHand, NewCommit, Versions
  <2>3. CASE PushByHand
    BY <2>3, <1>e DEF PushByHand, Updated, Versions
  <2>4. CASE PushElsewhere
    <3>1. edits' \in 0 .. MaxEdits /\ edits' = edits + 1
      BY <2>4 DEF PushElsewhere
    <3>2. [branch EXCEPT !.theirs = edits'] \in Revisions
      BY <3>1 DEF Revisions
    <3> QED BY <2>4, <3>1, <3>2, <1>d DEF PushElsewhere, Updated, Versions
  <2>5. CASE OpenByHand
    BY <2>5 DEF OpenByHand, Opened
  <2>6. CASE MergeByHand
    BY <2>6 DEF MergeByHand, MergeRequest
  <2> QED BY <1>18, <2>1, <2>2, <2>3, <2>4, <2>5, <2>6 DEF People
<1>19. CASE UNCHANGED vars
  BY <1>19 DEF vars, world
<1> QED
  BY <1>1, <1>2, <1>3, <1>4, <1>5, <1>6, <1>7, <1>8, <1>9, <1>10, <1>11, <1>12, <1>13, <1>14,
     <1>15, <1>16, <1>17, <1>18, <1>19 DEF Next

(* The phases, revisions and policies of deliver_with stay what they are   *)
(* declared to be.                                                         *)
THEOREM TypeCorrect == Spec => []TypeOK
<1>1. DeliveryInv => TypeOK
  BY DEF DeliveryInv
<1> QED BY <1>1, InitInv, NextInv, PTL DEF Spec

(* The journal of deliver_with never runs ahead of git, the forge and      *)
(* staging: what a phase stands for has happened, for any sequence of      *)
(* deliveries, failures, deaths, and edits, commits, pushes and merges by  *)
(* hand, although a merge deletes the branch.                              *)
THEOREM PhaseEarned == Spec => []PhaseIsEarned
<1>1. DeliveryInv => PhaseIsEarned
  BY DEF DeliveryInv
<1> QED BY <1>1, InitInv, NextInv, PTL DEF Spec

-----------------------------------------------------------------------------
(* The raw agent loop.                                                     *)

(* The execute call under way, within the ceilings of run_loop. *)
RunShape ==
  /\ DOMAIN run = {"pc", "stage", "iter", "tokens", "calls", "made", "stop", "blind"}
  /\ run.pc \in {"idle", "slot", "open", "turn", "call", "tool", "result", "settle",
                 "unslot", "persist", "abandon"}
  /\ run.stage \in Stages \cup {NoResult} /\ run.stop \in Stops \cup {NoResult}
  /\ run.pc # "idle" => run.stage \in Stages
  /\ run.iter \in 0 .. MaxIterations /\ run.tokens \in 0 .. run.iter

(* What a host remembers has a row; it remembers a slot only during its    *)
(* own execute call, and that slot is held.                                *)
HostsRemember ==
  /\ DOMAIN host = Stages
  /\ \A s \in Stages :
       /\ DOMAIN host[s] = {"seq", "budget", "local"} /\ host[s].seq \in Nat
       /\ host[s].budget # NoOwner =>
            host[s].budget \in DOMAIN resv /\ host[s].budget[1] = "budget"
       /\ host[s].local # NoOwner =>
            /\ host[s].local \in DOMAIN resv /\ host[s].local[1] = "local"
            /\ resv[host[s].local] = "held"
            /\ s = run.stage /\ run.pc \notin {"idle", "slot"}

(* finish forgets the budget first and the slot second; until then, and    *)
(* for the guard, the budget is held.                                      *)
FinishOrder ==
  /\ run.pc \in {"unslot", "persist"} => host[run.stage].budget = NoOwner
  /\ run.pc = "persist" => host[run.stage].local = NoOwner
  /\ run.pc \in {"slot", "open", "turn", "call", "tool", "result", "settle",
                "abandon"} =>
       host[run.stage].budget # NoOwner /\ resv[host[run.stage].budget] = "held"

(* A slot is asked for under the number of a budget that has a row.        *)
SlotsFollowBudgets ==
  /\ \A s \in Stages, n \in Int :
       Owner("local", s, n) \in DOMAIN resv => Owner("budget", s, n) \in DOMAIN resv
  /\ run.pc = "slot" =>
       LET n == host[run.stage].seq - 1
       IN  /\ host[run.stage].budget = Owner("budget", run.stage, n)
           /\ Owner("local", run.stage, n) \notin DOMAIN resv

(* The rows, and the pool of slots, which is never overdrawn. *)
RowsShape ==
  /\ IsFiniteSet(DOMAIN resv)
  /\ \A o \in DOMAIN resv :
       o # NoOwner /\ resv[o] \in {"held", "unknown", "committed", "released"}
  /\ Available \in 0 .. Slots

(* A reservation that is held is known to the execute call under way, or   *)
(* was left behind by a crash or a failed write.                           *)
HeldIsKnown ==
  \A o \in DOMAIN resv :
    resv[o] = "held" =>
      \/ o \in leaked
      \/ run.pc # "idle" /\ o \in {host[run.stage].budget, host[run.stage].local}

(* What has run was intended, and what is about to run has not.            *)
IntendedFirst ==
  /\ results \subseteq DOMAIN intents /\ DOMAIN ran \subseteq DOMAIN intents
  /\ run.pc \in {"tool", "result"} => Call.id \in DOMAIN intents
  /\ run.pc = "tool" => Call.id \notin DOMAIN ran
  /\ \A id \in DOMAIN ran : ran[id] = 1

AgentInv ==
  /\ RunShape /\ HostsRemember /\ FinishOrder /\ SlotsFollowBudgets /\ RowsShape
  /\ HeldIsKnown /\ IntendedFirst

-----------------------------------------------------------------------------
(* The slots that are not free: held, kept as unknown, or consumed. *)
Taken == {o \in LocalOwners : resv[o] # "released"}

(* A step that takes no further slot leaves the pool within its size. *)
LEMMA PoolKept ==
  ASSUME RowsShape, DOMAIN resv' = DOMAIN resv, Taken' \subseteq Taken
  PROVE  Available' \in 0 .. Slots
<1>1. IsFiniteSet(Taken) /\ Taken \subseteq DOMAIN resv
  BY FS_Subset DEF RowsShape, Taken, LocalOwners
<1>2. /\ Cardinality(Taken') <= Cardinality(Taken)
      /\ Cardinality(Taken') \in Nat /\ Cardinality(Taken) \in Nat
  BY <1>1, FS_Subset, FS_CardinalityType
<1>3. Available = Slots - Cardinality(Taken) /\ Available' = Slots - Cardinality(Taken')
  BY DEF Available, Taken
<1>4. Slots \in Nat
  BY AgentAssumption
<1> QED
  BY <1>2, <1>3, <1>4 DEF RowsShape

(* Rows change their state; a slot that was given back stays free. *)
LEMMA RowsRewritten ==
  ASSUME RowsShape, DOMAIN resv' = DOMAIN resv,
         \A o \in DOMAIN resv : resv'[o] \in {"held", "unknown", "committed", "released"},
         \A o \in DOMAIN resv :
           o[1] = "local" /\ resv[o] = "released" => resv'[o] = "released"
  PROVE  RowsShape'
<1>1. Taken' \subseteq Taken
  BY DEF Taken, LocalOwners
<1>2. Available' \in 0 .. Slots
  BY <1>1, PoolKept
<1> QED
  BY <1>2 DEF RowsShape

(* A new row, which may take a slot only if there is one. *)
LEMMA RowAdded ==
  ASSUME RowsShape, NEW o0, o0 \notin DOMAIN resv, o0 # NoOwner, resv' = With(resv, o0, "held"),
         o0[1] # "local" \/ Available > 0
  PROVE  /\ RowsShape'
         /\ DOMAIN resv' = DOMAIN resv \cup {o0}
         /\ resv'[o0] = "held"
         /\ \A o \in DOMAIN resv : resv'[o] = resv[o]
<1>1. /\ DOMAIN resv' = DOMAIN resv \cup {o0}
      /\ resv'[o0] = "held"
      /\ \A o \in DOMAIN resv : resv'[o] = resv[o]
  BY DEF With
<1>2. IsFiniteSet(DOMAIN resv')
  BY <1>1, FS_AddElement DEF RowsShape
<1>3. IsFiniteSet(Taken) /\ Taken \subseteq DOMAIN resv /\ Cardinality(Taken) \in Nat
  BY FS_Subset, FS_CardinalityType DEF RowsShape, Taken, LocalOwners
<1>4. Available = Slots - Cardinality(Taken) /\ Available' = Slots - Cardinality(Taken')
  BY DEF Available, Taken
<1>5. Slots \in Nat
  BY AgentAssumption
<1>6. CASE o0[1] # "local"
  <2>1. Taken' = Taken
    BY <1>1, <1>6 DEF Taken, LocalOwners
  <2> QED
    BY <1>1, <1>2, <1>4, <2>1 DEF RowsShape
<1>7. CASE o0[1] = "local"
  <2>1. Taken' = Taken \cup {o0} /\ o0 \notin Taken
    BY <1>1, <1>3, <1>7 DEF Taken, LocalOwners
  <2>2. Cardinality(Taken') = Cardinality(Taken) + 1
    BY <1>3, <2>1, FS_AddElement
  <2>3. Available' \in 0 .. Slots
    BY <1>3, <1>4, <1>5, <1>7, <2>2 DEF RowsShape
  <2> QED
    BY <1>1, <1>2, <2>3 DEF RowsShape
<1> QED
  BY <1>1, <1>6, <1>7

(* Before the first execute call there is nothing. *)
LEMMA InitAgent == AgentInit => AgentInv
<1> SUFFICES ASSUME AgentInit PROVE AgentInv
  OBVIOUS
<1>1. DOMAIN resv = {} /\ DOMAIN ran = {} /\ DOMAIN intents = {}
  BY DEF AgentInit
<1>2. RunShape /\ HostsRemember /\ FinishOrder
  BY AgentAssumption DEF AgentInit, RunShape, HostsRemember, FinishOrder, Idle, NewHost
<1>3. SlotsFollowBudgets /\ HeldIsKnown /\ IntendedFirst
  BY <1>1 DEF AgentInit, SlotsFollowBudgets, HeldIsKnown, IntendedFirst, Idle
<1>4. IsFiniteSet({}) /\ Cardinality({}) = 0
  BY FS_EmptySet
<1>5. {o \in LocalOwners : resv[o] # "released"} = {}
  BY <1>1 DEF LocalOwners
<1>6. Available = Slots - 0
  BY <1>4, <1>5 DEF Available
<1>7. RowsShape
  BY <1>1, <1>4, <1>6, AgentAssumption DEF RowsShape
<1> QED
  BY <1>2, <1>3, <1>7 DEF AgentInv

(* A turn of the loop that touches no row: only the execute call moves on. *)
LEMMA QuietStep ==
  ASSUME AgentInv, UNCHANGED <<resv, host, intents, results, ran, leaked>>, RunShape',
         run.pc \in {"open", "turn", "call"}, run'.stage = run.stage,
         run'.pc \in {"turn", "call", "settle", "abandon"}
  PROVE  AgentInv'
<1>1. HostsRemember' /\ FinishOrder' /\ HeldIsKnown' /\ IntendedFirst'
  BY DEF AgentInv, HostsRemember, FinishOrder, HeldIsKnown, IntendedFirst
<1>2. SlotsFollowBudgets' /\ RowsShape'
  BY DEF AgentInv, SlotsFollowBudgets, RowsShape, Available, LocalOwners
<1> QED
  BY <1>1, <1>2 DEF AgentInv

LEMMA ReserveStep ==
  ASSUME AgentInv, NEW s \in Stages, Reserve(s)
  PROVE  AgentInv'
<1> DEFINE o == Owner("budget", s, host[s].seq)
<1>1. /\ RunShape /\ HostsRemember /\ SlotsFollowBudgets /\ RowsShape /\ HeldIsKnown
      /\ IntendedFirst /\ run.pc = "idle"
  BY DEF AgentInv, Reserve
<1>2. UNCHANGED <<intents, results, ran, leaked>>
  BY DEF Reserve, toolJournal
<1>3. CASE o \in DOMAIN resv
  <2>1. UNCHANGED <<resv, run>> /\ host' = [host EXCEPT ![s].seq = @ + 1]
    BY <1>3 DEF Reserve
  <2>2. HostsRemember'
    BY <1>1, <2>1 DEF HostsRemember
  <2>3. RunShape' /\ FinishOrder' /\ SlotsFollowBudgets' /\ RowsShape' /\ HeldIsKnown'
        /\ IntendedFirst'
    BY <1>1, <1>2, <2>1 DEF RunShape, FinishOrder, SlotsFollowBudgets, RowsShape, HeldIsKnown,
                            IntendedFirst, Available, LocalOwners
  <2> QED
    BY <2>2, <2>3 DEF AgentInv
<1>4. CASE o \notin DOMAIN resv
  <2>1. /\ host' = [host EXCEPT ![s].seq = @ + 1, ![s].budget = o]
        /\ resv' = With(resv, o, "held")
        /\ run' = [Idle EXCEPT !.pc = IF s \in LocalStages THEN "slot" ELSE "open", !.stage = s]
    BY <1>4 DEF Reserve
  <2>2. host[s].seq \in Nat
    BY <1>1 DEF HostsRemember
  <2>3. o # NoOwner /\ o[1] = "budget"
    BY <2>2 DEF Owner, NoOwner
  <2>4. /\ RowsShape' /\ DOMAIN resv' = DOMAIN resv \cup {o} /\ resv'[o] = "held"
        /\ \A x \in DOMAIN resv : resv'[x] = resv[x]
    BY <1>1, <1>4, <2>1, <2>3, RowAdded
  <2>5. RunShape' /\ run'.stage = s /\ run'.pc \in {"slot", "open"}
    BY <2>1, AgentAssumption DEF RunShape, Idle
  <2>6. /\ DOMAIN host' = Stages
        /\ host'[s].budget = o /\ host'[s].seq = host[s].seq + 1
        /\ host'[s].local = host[s].local /\ DOMAIN host'[s] = {"seq", "budget", "local"}
        /\ \A t \in Stages \ {s} : host'[t] = host[t]
    BY <1>1, <2>1 DEF HostsRemember
  <2> HIDE DEF o
  <2>7. \A t \in Stages : host[t].local = NoOwner
    BY <1>1 DEF HostsRemember
  <2>8. HostsRemember'
    BY <1>1, <2>2, <2>3, <2>4, <2>6, <2>7 DEF HostsRemember
  <2>9. FinishOrder'
    BY <2>3, <2>4, <2>5, <2>6 DEF FinishOrder
  <2>10. SlotsFollowBudgets'
    <3>1. o = Owner("budget", s, host[s].seq)
      BY DEF o
    <3>2. ASSUME NEW t \in Stages, NEW n \in Int, Owner("local", t, n) \in DOMAIN resv'
          PROVE  Owner("budget", t, n) \in DOMAIN resv'
      <4>1. Owner("local", t, n) # o
        BY <2>3 DEF Owner
      <4> QED
        BY <1>1, <2>4, <3>2, <4>1 DEF SlotsFollowBudgets
    <3>3. Owner("local", s, host[s].seq) \notin DOMAIN resv'
      <4>1. Owner("local", s, host[s].seq) # o
        BY <2>3 DEF Owner
      <4>2. Owner("local", s, host[s].seq) \notin DOMAIN resv
        BY <1>1, <1>4, <2>2, <3>1 DEF SlotsFollowBudgets
      <4> QED
        BY <2>4, <4>1, <4>2
    <3>4. host'[s].seq - 1 = host[s].seq
      BY <2>2, <2>6
    <3> QED
      BY <2>5, <2>6, <3>1, <3>2, <3>3, <3>4 DEF SlotsFollowBudgets
  <2>11. HeldIsKnown'
    BY <1>1, <1>2, <2>4, <2>5, <2>6 DEF HeldIsKnown
  <2>12. IntendedFirst'
    BY <1>1, <1>2, <2>5 DEF IntendedFirst
  <2> QED
    BY <2>4, <2>5, <2>8, <2>9, <2>10, <2>11, <2>12 DEF AgentInv
<1> QED
  BY <1>3, <1>4

LEMMA AcquireSlotStep ==
  ASSUME AgentInv, AcquireSlot
  PROVE  AgentInv'
<1> DEFINE s == run.stage
           o == Owner("local", s, host[s].seq - 1)
           b == host[s].budget
<1>1. /\ RunShape /\ HostsRemember /\ FinishOrder /\ SlotsFollowBudgets /\ RowsShape
      /\ HeldIsKnown /\ IntendedFirst /\ run.pc = "slot"
  BY DEF AgentInv, AcquireSlot
<1>2. UNCHANGED <<intents, results, ran>>
  BY DEF AcquireSlot, toolJournal
<1>3. /\ s \in Stages /\ \A t \in Stages : host[t].local = NoOwner
      /\ host[s].seq \in Nat /\ b # NoOwner /\ b \in DOMAIN resv /\ b[1] = "budget"
      /\ b = Owner("budget", s, host[s].seq - 1) /\ o \notin DOMAIN resv
  BY <1>1 DEF RunShape, HostsRemember, FinishOrder, SlotsFollowBudgets
<1>4. CASE /\ Available > 0 /\ resv' = With(resv, o, "held")
           /\ host' = [host EXCEPT ![s].local = o]
           /\ run' = [run EXCEPT !.pc = "open"] /\ UNCHANGED leaked
  <2>1. o # NoOwner /\ o[1] = "local"
    BY DEF Owner, NoOwner
  <2>2. /\ RowsShape' /\ DOMAIN resv' = DOMAIN resv \cup {o} /\ resv'[o] = "held"
        /\ \A x \in DOMAIN resv : resv'[x] = resv[x]
    BY <1>1, <1>3, <1>4, <2>1, RowAdded
  <2>3. RunShape' /\ run'.stage = s /\ run'.pc = "open"
    BY <1>1, <1>4 DEF RunShape
  <2>4. /\ DOMAIN host' = Stages
        /\ host'[s].budget = b /\ host'[s].seq = host[s].seq
        /\ host'[s].local = o /\ DOMAIN host'[s] = {"seq", "budget", "local"}
        /\ \A t \in Stages \ {s} : host'[t] = host[t]
    BY <1>1, <1>3, <1>4 DEF HostsRemember
  <2>5. SlotsFollowBudgets'
    <3>1. ASSUME NEW t \in Stages, NEW n \in Int, Owner("local", t, n) \in DOMAIN resv'
          PROVE  Owner("budget", t, n) \in DOMAIN resv'
      <4>1. CASE Owner("local", t, n) = o
        <5>1. t = s /\ n = host[s].seq - 1
          BY <4>1 DEF Owner
        <5> QED
          BY <1>3, <2>2, <5>1
      <4>2. CASE Owner("local", t, n) # o
        BY <1>1, <2>2, <3>1, <4>2 DEF SlotsFollowBudgets
      <4> QED
        BY <4>1, <4>2
    <3> QED
      BY <2>3, <3>1 DEF SlotsFollowBudgets
  <2> HIDE DEF s, o, b
  <2>6. HostsRemember'
    BY <1>1, <1>3, <2>1, <2>2, <2>3, <2>4 DEF HostsRemember
  <2>7. FinishOrder'
    <3>1. resv[b] = "held"
      BY <1>1 DEF FinishOrder, s, b
    <3> QED
      BY <1>3, <2>2, <2>3, <2>4, <3>1 DEF FinishOrder
  <2>8. HeldIsKnown'
    <3> SUFFICES ASSUME NEW x \in DOMAIN resv', resv'[x] = "held", x \notin leaked'
                 PROVE  x \in {b, o}
      BY <2>3, <2>4 DEF HeldIsKnown
    <3>1. x \in DOMAIN resv => x \in {host[s].budget, host[s].local}
      BY <1>1, <1>4, <2>2 DEF HeldIsKnown, s
    <3>2. x # NoOwner
      BY <2>2 DEF RowsShape
    <3> QED
      BY <1>3, <2>2, <3>1, <3>2 DEF b
  <2>9. IntendedFirst'
    BY <1>1, <1>2, <2>3 DEF IntendedFirst
  <2> QED
    BY <2>2, <2>3, <2>5, <2>6, <2>7, <2>8, <2>9 DEF AgentInv
<1>5. CASE /\ resv' = [resv EXCEPT ![b] = "released"]
           /\ host' = [host EXCEPT ![s].budget = NoOwner]
           /\ run' = Idle /\ UNCHANGED leaked
  <2>1. /\ DOMAIN resv' = DOMAIN resv /\ resv'[b] = "released"
        /\ \A x \in DOMAIN resv \ {b} : resv'[x] = resv[x]
    BY <1>3, <1>5
  <2>2. RowsShape'
    BY <1>1, <2>1, RowsRewritten DEF RowsShape
  <2>3. RunShape' /\ run'.pc = "idle"
    BY <1>5, AgentAssumption DEF RunShape, Idle
  <2>4. HostsRemember'
    BY <1>1, <1>3, <1>5, <2>1 DEF HostsRemember
  <2>5. FinishOrder' /\ SlotsFollowBudgets' /\ IntendedFirst'
    BY <1>1, <1>2, <2>1, <2>3 DEF FinishOrder, SlotsFollowBudgets, IntendedFirst
  <2>6. HeldIsKnown'
    <3> SUFFICES ASSUME NEW x \in DOMAIN resv, resv'[x] = "held"
                 PROVE  x \in leaked
      BY <1>5, <2>1 DEF HeldIsKnown
    <3>1. x # b /\ resv[x] = "held" /\ x # NoOwner
      BY <1>1, <2>1 DEF RowsShape
    <3> QED
      BY <1>1, <1>3, <3>1 DEF HeldIsKnown
  <2> QED
    BY <2>2, <2>3, <2>4, <2>5, <2>6 DEF AgentInv
<1>6. CASE leaked' = leaked \cup {b} /\ run' = Idle /\ UNCHANGED <<resv, host>>
  <2>1. RunShape' /\ run'.pc = "idle"
    BY <1>6, AgentAssumption DEF RunShape, Idle
  <2>2. HostsRemember' /\ FinishOrder' /\ SlotsFollowBudgets' /\ IntendedFirst'
    BY <1>1, <1>2, <1>3, <1>6, <2>1
    DEF HostsRemember, FinishOrder, SlotsFollowBudgets, IntendedFirst
  <2>3. RowsShape'
    BY <1>1, <1>6 DEF RowsShape, Available, LocalOwners
  <2>4. HeldIsKnown'
    BY <1>1, <1>3, <1>6 DEF HeldIsKnown, RowsShape
  <2> QED
    BY <2>1, <2>2, <2>3, <2>4 DEF AgentInv
<1> QED
  BY <1>4, <1>5, <1>6 DEF AcquireSlot, S, Scope

(* A submission counts as an iteration, and is made within the ceiling. *)
LEMMA Submission ==
  ASSUME RunShape, Submits, DOMAIN run' = DOMAIN run, run'.stage = run.stage,
         run'.pc \in {"turn", "call", "settle"}, run'.stop \in Stops \cup {NoResult},
         run'.iter = run.iter + 1, run'.tokens \in run.tokens .. run.tokens + 1
  PROVE  RunShape'
<1>1. run.iter < MaxIterations /\ MaxIterations \in Nat /\ run.iter \in Nat
      /\ run.tokens \in 0 .. run.iter
  BY AgentAssumption DEF RunShape, Submits, Spent
<1>2. run'.iter \in 0 .. MaxIterations /\ run'.tokens \in 0 .. run'.iter
  BY <1>1
<1> QED
  BY <1>2 DEF RunShape, Submits

(* run_loop up to finish. *)
LEMMA LoopMoves ==
  ASSUME AgentInv,
         \/ OpenJournal \/ Ceiling \/ Refuse \/ AnswerFromJournal \/ AnswerBlind \/ IntendPanics
         \/ \E why \in {"timeout", "ambiguous"} : SubmitAmbiguous(why)
         \/ \E why \in {"retryable", "nonretryable"} : SubmitRefused(why)
         \/ \E usage \in 0 .. 1 :
              \/ \E why \in {"completed", "tokens", "invalid", "nonretryable", "pause"} :
                   Answer(usage, why)
              \/ \E kinds : AnswerCalls(usage, kinds)
  PROVE  AgentInv'
<1>1. RunShape /\ MaxIterations \in Nat
  BY AgentAssumption DEF AgentInv
<1>2. CASE OpenJournal \/ Ceiling \/ Refuse \/ AnswerFromJournal \/ AnswerBlind \/ IntendPanics
  <2>1. /\ UNCHANGED <<resv, host, intents, results, ran, leaked>>
        /\ run.pc \in {"open", "turn", "call"} /\ run'.stage = run.stage
        /\ run'.pc \in {"turn", "call", "settle", "abandon"}
    BY <1>1, <1>2 DEF RunShape, OpenJournal, Ceiling, Refuse, AnswerFromJournal, AnswerBlind,
                      IntendPanics, StopWith, NextCall, AnsweredFromJournal, Authorized, NewCall,
                      toolJournal
  <2>2. RunShape'
    BY <1>1, <1>2 DEF RunShape, OpenJournal, Ceiling, Refuse, AnswerFromJournal, AnswerBlind,
                      IntendPanics, StopWith, NextCall, AnsweredFromJournal, Authorized, NewCall,
                      Stops
  <2> QED
    BY <2>1, <2>2, QuietStep
<1>3. ASSUME NEW why \in {"timeout", "ambiguous", "retryable", "nonretryable"},
             SubmitAmbiguous(why) \/ SubmitRefused(why)
      PROVE  AgentInv'
  <2>1. UNCHANGED <<resv, host, intents, results, ran, leaked>> /\ Submits /\ run.pc = "turn"
    BY <1>3 DEF SubmitAmbiguous, SubmitRefused, Submits, toolJournal
  <2>2. /\ DOMAIN run' = DOMAIN run /\ run'.stop = why /\ run'.iter = run.iter + 1
        /\ run'.stage = run.stage /\ run'.pc = "settle" /\ run'.tokens = run.tokens
    <3>1. CASE SubmitAmbiguous(why)
      BY <1>1, <3>1 DEF RunShape, SubmitAmbiguous, StopWith
    <3>2. CASE SubmitRefused(why)
      BY <1>1, <3>2 DEF RunShape, SubmitRefused, StopWith
    <3> QED
      BY <1>3, <3>1, <3>2
  <2>3. run.tokens \in run.tokens .. run.tokens + 1
    BY <1>1 DEF RunShape
  <2>4. RunShape'
    BY <1>1, <2>1, <2>2, <2>3, Submission DEF Stops
  <2> QED
    BY <2>1, <2>2, <2>4, QuietStep
<1>4. ASSUME NEW usage \in 0 .. 1,
             NEW why \in {"completed", "tokens", "invalid", "nonretryable", "pause"},
             Answer(usage, why)
      PROVE  AgentInv'
  <2>1. /\ UNCHANGED <<resv, host, intents, results, ran, leaked>>
        /\ run.pc = "turn" /\ run'.stage = run.stage /\ run'.pc \in {"turn", "settle"}
    BY <1>1, <1>4 DEF RunShape, Answer, Answered, Submits, toolJournal
  <2>2. /\ Submits /\ DOMAIN run' = DOMAIN run /\ run'.stop \in Stops \cup {NoResult}
        /\ run'.iter = run.iter + 1 /\ run'.tokens \in run.tokens .. run.tokens + 1
    BY <1>1, <1>4 DEF RunShape, Answer, Answered, Stops
  <2>3. RunShape'
    BY <1>1, <2>1, <2>2, Submission
  <2> QED
    BY <2>1, <2>3, QuietStep
<1>5. ASSUME NEW usage \in 0 .. 1, NEW kinds, AnswerCalls(usage, kinds)
      PROVE  AgentInv'
  <2>1. UNCHANGED <<resv, host, intents, results, ran, leaked>> /\ Submits /\ run.pc = "turn"
    BY <1>5 DEF AnswerCalls, Submits, toolJournal
  <2>2. /\ DOMAIN run' = DOMAIN run /\ run'.stop = run.stop /\ run'.iter = run.iter + 1
        /\ run'.stage = run.stage /\ run'.pc = "call" /\ run'.tokens = run.tokens + usage
    BY <1>1, <1>5 DEF RunShape, AnswerCalls, Answered
  <2>3. run'.tokens \in run.tokens .. run.tokens + 1 /\ run'.stop \in Stops \cup {NoResult}
    BY <1>1, <2>2 DEF RunShape
  <2>4. RunShape'
    BY <1>1, <2>1, <2>2, <2>3, Submission
  <2> QED
    BY <2>1, <2>2, <2>4, QuietStep
<1> QED
  BY <1>2, <1>3, <1>4, <1>5

(* process_tool_call: the intent, the effect, the result. *)
LEMMA ToolStep ==
  ASSUME AgentInv, Intend \/ RunTool \/ RecordResult
  PROVE  AgentInv'
<1>1. /\ RunShape /\ HostsRemember /\ FinishOrder /\ SlotsFollowBudgets /\ RowsShape
      /\ HeldIsKnown /\ IntendedFirst
  BY DEF AgentInv
<1>2. /\ UNCHANGED <<resv, host, leaked>> /\ run'.stage = run.stage
      /\ run.pc \in {"call", "tool", "result"}
      /\ run'.pc \in {"turn", "call", "tool", "result"}
  BY <1>1 DEF RunShape, Intend, RunTool, RecordResult, NewCall, Authorized, NextCall
<1>3. RunShape'
  BY <1>1 DEF RunShape, Intend, RunTool, RecordResult, NewCall, Authorized, NextCall
<1>4. HostsRemember' /\ FinishOrder' /\ HeldIsKnown'
  BY <1>1, <1>2 DEF HostsRemember, FinishOrder, HeldIsKnown
<1>5. SlotsFollowBudgets' /\ RowsShape'
  BY <1>1, <1>2 DEF SlotsFollowBudgets, RowsShape, Available, LocalOwners
<1>6. IntendedFirst'
  <2>1. CASE Intend
    <3>1. run'.calls = run.calls /\ run'.pc = "tool"
      BY <1>1, <2>1 DEF RunShape, Intend
    <3>2. DOMAIN intents' = DOMAIN intents \cup {Call.id} /\ UNCHANGED <<results, ran>>
      BY <2>1 DEF Intend, With
    <3>3. Call' = Call /\ Call.id \notin DOMAIN intents
      BY <2>1, <3>1 DEF Call, Intend
    <3> QED
      BY <1>1, <3>1, <3>2, <3>3 DEF IntendedFirst
  <2>2. CASE RunTool
    <3>1. run'.calls = run.calls /\ run'.pc = "result" /\ run.pc = "tool"
      BY <1>1, <2>2 DEF RunShape, RunTool
    <3>2. Call' = Call
      BY <3>1 DEF Call
    <3>3. Call.id \notin DOMAIN ran /\ Call.id \in DOMAIN intents
      BY <1>1, <3>1 DEF IntendedFirst
    <3>4. /\ DOMAIN ran' = DOMAIN ran \cup {Call.id} /\ ran'[Call.id] = 1
          /\ \A id \in DOMAIN ran : ran'[id] = ran[id]
      BY <2>2, <3>3 DEF RunTool, With
    <3>5. UNCHANGED <<intents, results>>
      BY <2>2 DEF RunTool, toolJournal
    <3> QED
      BY <1>1, <3>1, <3>2, <3>3, <3>4, <3>5 DEF IntendedFirst
  <2>3. CASE RecordResult
    <3>1. run'.pc \in {"turn", "call"} /\ run.pc = "result"
      BY <1>1, <2>3 DEF RunShape, RecordResult, NextCall
    <3>2. results' \subseteq results \cup {Call.id} /\ UNCHANGED <<intents, ran>>
      BY <2>3 DEF RecordResult
    <3> QED
      BY <1>1, <3>1, <3>2 DEF IntendedFirst
  <2> QED
    BY <2>1, <2>2, <2>3
<1> QED
  BY <1>1, <1>3, <1>4, <1>5, <1>6 DEF AgentInv

(* finish: the budget, the slot, the rows of the attempts. *)
LEMMA SettleStep ==
  ASSUME AgentInv, Settle
  PROVE  AgentInv'
<1> DEFINE s == run.stage
           b == host[s].budget
<1>1. /\ RunShape /\ HostsRemember /\ FinishOrder /\ SlotsFollowBudgets /\ RowsShape
      /\ HeldIsKnown /\ IntendedFirst /\ run.pc = "settle"
  BY DEF AgentInv, Settle
<1>2. UNCHANGED <<intents, results, ran>>
  BY DEF Settle, toolJournal
<1>3. s \in Stages /\ b # NoOwner /\ b \in DOMAIN resv /\ b[1] = "budget" /\ resv[b] = "held"
  BY <1>1 DEF RunShape, HostsRemember, FinishOrder
<1>4. CASE /\ resv' = [resv EXCEPT ![b] = BudgetAfter(run.stop)]
           /\ host' = [host EXCEPT ![s].budget = NoOwner]
           /\ run' = [run EXCEPT !.pc = "unslot"] /\ UNCHANGED leaked
  <2>1. /\ DOMAIN resv' = DOMAIN resv /\ resv'[b] \in {"unknown", "committed"}
        /\ \A x \in DOMAIN resv \ {b} : resv'[x] = resv[x]
    BY <1>3, <1>4 DEF BudgetAfter
  <2>2. RowsShape'
    BY <1>1, <1>3, <2>1, RowsRewritten DEF RowsShape
  <2>3. RunShape' /\ run'.pc = "unslot" /\ run'.stage = s
    BY <1>1, <1>4 DEF RunShape
  <2>4. /\ DOMAIN host' = Stages
        /\ host'[s].budget = NoOwner /\ host'[s].seq = host[s].seq
        /\ host'[s].local = host[s].local /\ DOMAIN host'[s] = {"seq", "budget", "local"}
        /\ \A t \in Stages \ {s} : host'[t] = host[t]
    BY <1>1, <1>3, <1>4 DEF HostsRemember
  <2> HIDE DEF s, b
  <2>5. HostsRemember'
    <3> SUFFICES ASSUME NEW t \in Stages
                 PROVE  /\ DOMAIN host'[t] = {"seq", "budget", "local"} /\ host'[t].seq \in Nat
                        /\ host'[t].budget # NoOwner =>
                             host'[t].budget \in DOMAIN resv' /\ host'[t].budget[1] = "budget"
                        /\ host'[t].local # NoOwner =>
                             /\ host'[t].local \in DOMAIN resv' /\ host'[t].local[1] = "local"
                             /\ resv'[host'[t].local] = "held"
                             /\ t = run'.stage /\ run'.pc \notin {"idle", "slot"}
      BY <2>4 DEF HostsRemember
    <3>1. host'[t].local = host[t].local
      BY <2>4
    <3>2. host[t].local # NoOwner =>
            /\ host[t].local \in DOMAIN resv' /\ host[t].local # b
            /\ resv[host[t].local] = "held" /\ t = s
      BY <1>1, <1>3, <2>1 DEF HostsRemember, s
    <3> QED
      BY <1>1, <2>1, <2>3, <2>4, <3>1, <3>2 DEF HostsRemember
  <2>6. FinishOrder' /\ SlotsFollowBudgets' /\ IntendedFirst'
    BY <1>1, <1>2, <2>1, <2>3, <2>4 DEF FinishOrder, SlotsFollowBudgets, IntendedFirst
  <2>7. HeldIsKnown'
    <3> SUFFICES ASSUME NEW x \in DOMAIN resv, resv'[x] = "held", x \notin leaked
                 PROVE  x = host'[s].local
      BY <1>4, <2>1, <2>3 DEF HeldIsKnown
    <3>1. x # b /\ resv[x] = "held"
      BY <2>1
    <3> QED
      BY <1>1, <2>4, <3>1 DEF HeldIsKnown, s, b
  <2> QED
    BY <2>2, <2>3, <2>5, <2>6, <2>7 DEF AgentInv
<1>5. CASE run' = [run EXCEPT !.pc = "abandon"] /\ UNCHANGED <<resv, host, leaked>>
  <2>1. RunShape' /\ run'.pc = "abandon" /\ run'.stage = run.stage
    BY <1>1, <1>5 DEF RunShape
  <2>2. HostsRemember' /\ FinishOrder' /\ HeldIsKnown' /\ IntendedFirst'
    BY <1>1, <1>2, <1>5, <2>1 DEF HostsRemember, FinishOrder, HeldIsKnown, IntendedFirst
  <2>3. SlotsFollowBudgets' /\ RowsShape'
    BY <1>1, <1>5, <2>1 DEF SlotsFollowBudgets, RowsShape, Available, LocalOwners
  <2> QED
    BY <2>1, <2>2, <2>3 DEF AgentInv
<1> QED
  BY <1>4, <1>5 DEF Settle, S

LEMMA ResolveSlotStep ==
  ASSUME AgentInv, ResolveSlot
  PROVE  AgentInv'
<1> DEFINE s == run.stage
           l == host[s].local
<1>1. /\ RunShape /\ HostsRemember /\ FinishOrder /\ SlotsFollowBudgets /\ RowsShape
      /\ HeldIsKnown /\ IntendedFirst /\ run.pc = "unslot"
  BY DEF AgentInv, ResolveSlot
<1>2. UNCHANGED <<intents, results, ran>> /\ host' = [host EXCEPT ![s].local = NoOwner]
  BY DEF ResolveSlot, toolJournal, S
<1>3. /\ s \in Stages /\ host[s].budget = NoOwner
      /\ \A t \in Stages \ {s} : host[t].local = NoOwner
      /\ l # NoOwner => l \in DOMAIN resv /\ l[1] = "local" /\ resv[l] = "held"
  BY <1>1 DEF RunShape, HostsRemember, FinishOrder
<1>4. /\ DOMAIN host' = Stages
      /\ host'[s].budget = NoOwner /\ host'[s].seq = host[s].seq
      /\ host'[s].local = NoOwner /\ DOMAIN host'[s] = {"seq", "budget", "local"}
      /\ \A t \in Stages \ {s} : host'[t] = host[t]
  BY <1>1, <1>2, <1>3 DEF HostsRemember
<1>5. ASSUME RowsShape', RunShape', run'.pc \in {"idle", "persist"},
             run'.pc = "persist" => run'.stage = s,
             DOMAIN resv' = DOMAIN resv,
             \A x \in DOMAIN resv :
               resv'[x] = "held" => x \in leaked' \/ (resv[x] = "held" /\ x # l),
             leaked \subseteq leaked'
      PROVE  AgentInv'
  <2> HIDE DEF s, l
  <2>1. HostsRemember'
    BY <1>1, <1>3, <1>4, <1>5 DEF HostsRemember
  <2>2. FinishOrder' /\ SlotsFollowBudgets' /\ IntendedFirst'
    BY <1>1, <1>2, <1>4, <1>5 DEF FinishOrder, SlotsFollowBudgets, IntendedFirst
  <2>3. HeldIsKnown'
    <3> SUFFICES ASSUME NEW x \in DOMAIN resv, resv'[x] = "held" PROVE x \in leaked'
      BY <1>5 DEF HeldIsKnown
    <3>1. x # NoOwner
      BY <1>1 DEF RowsShape
    <3> QED
      BY <1>1, <1>3, <1>5, <3>1 DEF HeldIsKnown, s, l
  <2> QED
    BY <1>5, <2>1, <2>2, <2>3 DEF AgentInv
<1>6. CASE l = NoOwner /\ run' = [run EXCEPT !.pc = "persist"] /\ UNCHANGED <<resv, leaked>>
  <2>1. RunShape' /\ run'.pc = "persist" /\ run'.stage = s
    BY <1>1, <1>6 DEF RunShape
  <2>2. RowsShape'
    BY <1>1, <1>6 DEF RowsShape, Available, LocalOwners
  <2>3. \A x \in DOMAIN resv : x # l
    BY <1>1, <1>6 DEF RowsShape
  <2> QED
    BY <1>5, <1>6, <2>1, <2>2, <2>3
<1>7. CASE /\ l # NoOwner /\ resv' = [resv EXCEPT ![l] = LocalAfter(run.stop)]
           /\ run' = [run EXCEPT !.pc = "persist"] /\ UNCHANGED leaked
  <2>1. RunShape' /\ run'.pc = "persist" /\ run'.stage = s
    BY <1>1, <1>7 DEF RunShape
  <2>2. LocalAfter(run.stop) \in {"unknown", "released", "committed"}
    BY DEF LocalAfter
  <2>3. /\ DOMAIN resv' = DOMAIN resv /\ resv'[l] \in {"unknown", "released", "committed"}
        /\ \A x \in DOMAIN resv \ {l} : resv'[x] = resv[x]
    BY <1>3, <1>7, <2>2
  <2>4. RowsShape'
    BY <1>1, <1>3, <1>7, <2>3, RowsRewritten DEF RowsShape
  <2> QED
    BY <1>5, <1>7, <2>1, <2>3, <2>4
<1>8. CASE l # NoOwner /\ leaked' = leaked \cup {l} /\ run' = Idle /\ UNCHANGED resv
  <2>1. RunShape' /\ run'.pc = "idle"
    BY <1>8, AgentAssumption DEF RunShape, Idle
  <2>2. RowsShape'
    BY <1>1, <1>8 DEF RowsShape, Available, LocalOwners
  <2>3. \A x \in DOMAIN resv : resv'[x] = "held" => x \in leaked' \/ (resv[x] = "held" /\ x # l)
    BY <1>8
  <2>4. DOMAIN resv' = DOMAIN resv /\ leaked \subseteq leaked'
    BY <1>8
  <2> QED
    BY <1>5, <2>1, <2>2, <2>3, <2>4
<1> QED
  BY <1>6, <1>7, <1>8 DEF ResolveSlot, S

LEMMA PersistStep ==
  ASSUME AgentInv, Persist
  PROVE  AgentInv'
<1>1. /\ RunShape /\ HostsRemember /\ FinishOrder /\ SlotsFollowBudgets /\ RowsShape
      /\ HeldIsKnown /\ IntendedFirst /\ run.pc = "persist"
  BY DEF AgentInv, Persist
<1>2. UNCHANGED <<resv, host, intents, results, ran, leaked>> /\ run' = Idle
  BY DEF Persist, toolJournal
<1>3. RunShape' /\ run'.pc = "idle"
  BY <1>2, AgentAssumption DEF RunShape, Idle
<1>4. \A t \in Stages : host[t].local = NoOwner
  BY <1>1 DEF HostsRemember, FinishOrder
<1>5. HostsRemember' /\ FinishOrder' /\ IntendedFirst'
  BY <1>1, <1>2, <1>3, <1>4 DEF HostsRemember, FinishOrder, IntendedFirst
<1>6. SlotsFollowBudgets' /\ RowsShape'
  BY <1>1, <1>2, <1>3 DEF SlotsFollowBudgets, RowsShape, Available, LocalOwners
<1>7. HeldIsKnown'
  BY <1>1, <1>2, <1>3 DEF HeldIsKnown, FinishOrder, RowsShape
<1> QED
  BY <1>3, <1>5, <1>6, <1>7 DEF AgentInv

(* The hosts forget, and what is still held is on record as left behind:   *)
(* the guard's drop, a panic, a crash.                                     *)
LEMMA ForgettingStep ==
  ASSUME AgentInv, run' = Idle, UNCHANGED <<intents, results, ran>>,
         DOMAIN resv' = DOMAIN resv,
         \A x \in DOMAIN resv : resv'[x] = resv[x] \/ resv'[x] = "released",
         \A x \in DOMAIN resv : resv'[x] = "held" => x \in leaked',
         DOMAIN host' = Stages,
         \A t \in Stages :
           /\ DOMAIN host'[t] = {"seq", "budget", "local"} /\ host'[t].seq \in Nat
           /\ host'[t].budget \in {NoOwner, host[t].budget} /\ host'[t].local = NoOwner
  PROVE  AgentInv'
<1>1. HostsRemember /\ SlotsFollowBudgets /\ RowsShape /\ IntendedFirst
  BY DEF AgentInv
<1>2. RunShape' /\ run'.pc = "idle"
  BY AgentAssumption DEF RunShape, Idle
<1>3. RowsShape'
  <2>1. \A x \in DOMAIN resv : resv'[x] \in {"held", "unknown", "committed", "released"}
    BY <1>1 DEF RowsShape
  <2>2. \A x \in DOMAIN resv :
          x[1] = "local" /\ resv[x] = "released" => resv'[x] = "released"
    OBVIOUS
  <2> QED
    BY <1>1, <2>1, <2>2, RowsRewritten
<1>4. HostsRemember'
  BY <1>1 DEF HostsRemember
<1>5. FinishOrder' /\ SlotsFollowBudgets' /\ HeldIsKnown' /\ IntendedFirst'
  BY <1>1, <1>2 DEF FinishOrder, SlotsFollowBudgets, HeldIsKnown, IntendedFirst
<1> QED
  BY <1>2, <1>3, <1>4, <1>5 DEF AgentInv

LEMMA AbandonStep ==
  ASSUME AgentInv, Abandon
  PROVE  AgentInv'
<1> DEFINE s == run.stage
           held == {host[s].budget, host[s].local} \ {NoOwner}
<1>1. /\ RunShape /\ HostsRemember /\ RowsShape /\ HeldIsKnown /\ run.pc = "abandon"
      /\ s \in Stages
  BY DEF AgentInv, Abandon, RunShape
<1>2. run' = Idle /\ UNCHANGED <<intents, results, ran>>
  BY DEF Abandon, toolJournal
<1>3. /\ DOMAIN host' = Stages
      /\ \A t \in Stages :
           /\ DOMAIN host'[t] = {"seq", "budget", "local"} /\ host'[t].seq \in Nat
           /\ host'[t].budget \in {NoOwner, host[t].budget} /\ host'[t].local = NoOwner
  <2>1. CASE host' = [t \in Stages |-> NewHost]
    BY <2>1 DEF NewHost
  <2>2. CASE host' = [host EXCEPT ![s].budget = NoOwner, ![s].local = NoOwner]
    <3>1. \A t \in Stages \ {s} : host[t].local = NoOwner
      BY <1>1 DEF HostsRemember
    <3> QED
      BY <1>1, <2>2, <3>1 DEF HostsRemember
  <2> QED
    BY <2>1, <2>2 DEF Abandon, HostsAfter, S
<1>4. \A x \in DOMAIN resv : resv[x] = "held" => x \in leaked \/ x \in held
  BY <1>1 DEF HeldIsKnown, RowsShape
<1>5. \/ /\ resv' = [x \in DOMAIN resv |-> IF x \in held THEN "released" ELSE resv[x]]
         /\ UNCHANGED leaked
      \/ leaked' = leaked \cup held /\ UNCHANGED resv
      \/ /\ resv' = [resv EXCEPT ![host[s].local] = "released"]
         /\ leaked' = leaked \cup {host[s].budget}
  BY DEF Abandon, S
<1>6. /\ DOMAIN resv' = DOMAIN resv
      /\ \A x \in DOMAIN resv : resv'[x] = resv[x] \/ resv'[x] = "released"
  BY <1>5
<1>7. \A x \in DOMAIN resv : resv'[x] = "held" => x \in leaked'
  BY <1>4, <1>5
<1> QED
  BY <1>2, <1>3, <1>6, <1>7, ForgettingStep

LEMMA CrashStep ==
  ASSUME AgentInv, Crash
  PROVE  AgentInv'
<1>1. RunShape /\ HeldIsKnown /\ RowsShape
  BY DEF AgentInv
<1>2. run' = Idle /\ UNCHANGED <<resv, intents, results, ran>>
  BY DEF Crash, toolJournal
<1>3. /\ DOMAIN host' = Stages
      /\ \A t \in Stages :
           /\ DOMAIN host'[t] = {"seq", "budget", "local"} /\ host'[t].seq \in Nat
           /\ host'[t].budget \in {NoOwner, host[t].budget} /\ host'[t].local = NoOwner
  BY DEF Crash, NewHost
<1>4. /\ leaked \subseteq leaked'
      /\ \A t \in Stages :
           {host[t].budget, host[t].local} \ {NoOwner} \subseteq leaked'
  BY DEF Crash
<1>5. ASSUME NEW x \in DOMAIN resv, resv[x] = "held"
      PROVE  x \in leaked'
  <2>1. x # NoOwner
    BY <1>1 DEF RowsShape
  <2> QED
    BY <1>1, <1>4, <1>5, <2>1 DEF RunShape, HeldIsKnown
<1> QED
  BY <1>2, <1>3, <1>5, ForgettingStep

LEMMA AgentStep == AgentInv /\ [AgentNext]_agentVars => AgentInv'
<1> SUFFICES ASSUME AgentInv, [AgentNext]_agentVars PROVE AgentInv'
  OBVIOUS
<1>1. CASE UNCHANGED agentVars
  <2>1. UNCHANGED <<resv, intents, results, host, run, ran, leaked>>
    BY <1>1 DEF agentVars
  <2>2. RunShape' /\ HostsRemember' /\ FinishOrder' /\ HeldIsKnown' /\ IntendedFirst'
    BY <2>1 DEF AgentInv, RunShape, HostsRemember, FinishOrder, HeldIsKnown, IntendedFirst, Call
  <2>3. SlotsFollowBudgets' /\ RowsShape'
    BY <2>1 DEF AgentInv, SlotsFollowBudgets, RowsShape, Available, LocalOwners
  <2> QED
    BY <2>2, <2>3 DEF AgentInv
<1>2. CASE LoopStep
  <2>1. \A kinds \in TurnCalls, usage \in 0 .. 1 : AnswerCalls(usage, kinds) => AgentInv'
    BY LoopMoves
  <2> QED
    BY <1>2, <2>1, AcquireSlotStep, LoopMoves, ToolStep, SettleStep, ResolveSlotStep, PersistStep,
       AbandonStep DEF LoopStep
<1> QED
  BY <1>1, <1>2, ReserveStep, CrashStep DEF AgentNext

LEMMA AgentInvariant == AgentSpec => []AgentInv
  BY InitAgent, AgentStep, PTL DEF AgentSpec

(* The loop stays within its iterations and tokens, and the pool of local  *)
(* inference slots is never overdrawn (run_loop, acquire_local_reservation).*)
THEOREM AgentTyping == AgentSpec => []AgentTypeOK
<1>1. AgentInv => AgentTypeOK
  <2> SUFFICES ASSUME AgentInv PROVE AgentTypeOK
    OBVIOUS
  <2>1. run.tokens \in 0 .. MaxIterations
    BY AgentAssumption DEF AgentInv, RunShape
  <2> QED
    BY <2>1 DEF AgentInv, AgentTypeOK, RunShape, HostsRemember, RowsShape, IntendedFirst
<1> QED
  BY <1>1, AgentInvariant, PTL

(* The effect of a tool call id happens at most once in an execution,      *)
(* whatever crashes, fails or asks again (process_tool_call).              *)
THEOREM ToolEffectOnce == AgentSpec => []EffectOnce
<1>1. AgentInv => EffectOnce
  BY DEF AgentInv, IntendedFirst, EffectOnce
<1> QED
  BY <1>1, AgentInvariant, PTL

(* Between execute calls no reservation is simply held, unless a crash or  *)
(* a failed release left it (ReservationGuard, finish).                    *)
THEOREM ReservationsResolved == AgentSpec => []NothingHeldAtRest
<1>1. AgentInv => NothingHeldAtRest
  BY DEF AgentInv, HeldIsKnown, NothingHeldAtRest
<1> QED
  BY <1>1, AgentInvariant, PTL

(* The loop settles or releases a reservation once: a row that is no       *)
(* longer held is not written again, and no row is removed or reused       *)
(* (finish, abandon_execution, acquire_local_reservation).                 *)
RowsResolvedOnce ==
  [][\A o \in DOMAIN resv :
       resv[o] # "held" => o \in DOMAIN resv' /\ resv'[o] = resv[o]]_agentVars

LEMMA ResolvedStays ==
  ASSUME AgentInv, [AgentNext]_agentVars, NEW o \in DOMAIN resv, resv[o] # "held"
  PROVE  o \in DOMAIN resv' /\ resv'[o] = resv[o]
<1> DEFINE Goal == o \in DOMAIN resv' /\ resv'[o] = resv[o]
           s == run.stage
<1>1. RunShape /\ HostsRemember /\ FinishOrder /\ SlotsFollowBudgets /\ RowsShape
  BY DEF AgentInv
<1>2. ASSUME NEW x, x \notin DOMAIN resv, resv' = With(resv, x, "held") PROVE Goal
  BY <1>2 DEF With
<1>3. ASSUME NEW x, resv[x] = "held", NEW after, resv' = [resv EXCEPT ![x] = after] PROVE Goal
  BY <1>3
<1>4. CASE UNCHANGED resv
  BY <1>4
<1>5. ASSUME NEW t \in Stages, Reserve(t) PROVE Goal
  BY <1>2, <1>4, <1>5 DEF Reserve
<1>6. CASE AcquireSlot
  <2>1. /\ Owner("local", s, host[s].seq - 1) \notin DOMAIN resv
        /\ resv[host[s].budget] = "held"
    BY <1>1, <1>6 DEF AcquireSlot, SlotsFollowBudgets, FinishOrder
  <2> QED
    BY <1>2, <1>3, <1>4, <1>6, <2>1 DEF AcquireSlot, S, Scope
<1>7. CASE Settle
  <2>1. resv[host[s].budget] = "held"
    BY <1>1, <1>7 DEF Settle, FinishOrder
  <2> QED
    BY <1>3, <1>4, <1>7, <2>1 DEF Settle, S
<1>8. CASE ResolveSlot
  <2>1. s \in Stages /\ (host[s].local # NoOwner => resv[host[s].local] = "held")
    BY <1>1, <1>8 DEF ResolveSlot, RunShape, HostsRemember
  <2> QED
    BY <1>3, <1>4, <1>8, <2>1 DEF ResolveSlot, S
<1>9. CASE Abandon
  <2>1. /\ s \in Stages /\ resv[host[s].budget] = "held"
        /\ host[s].local # NoOwner => resv[host[s].local] = "held"
    BY <1>1, <1>9 DEF Abandon, RunShape, HostsRemember, FinishOrder
  <2>2. o \notin {host[s].budget, host[s].local}
    BY <1>1, <2>1 DEF RowsShape
  <2> QED
    BY <1>4, <1>9, <2>2 DEF Abandon, S
<1>10. CASE \/ OpenJournal \/ Ceiling \/ Refuse \/ AnswerFromJournal \/ AnswerBlind
            \/ Intend \/ IntendPanics \/ RunTool \/ RecordResult \/ Persist \/ Crash
            \/ UNCHANGED agentVars
  BY <1>4, <1>10 DEF OpenJournal, Ceiling, Refuse, AnswerFromJournal, AnswerBlind, Intend,
                     IntendPanics, RunTool, RecordResult, Persist, Crash, agentVars
<1>11. \A why : SubmitAmbiguous(why) \/ SubmitRefused(why) => Goal
  BY <1>4 DEF SubmitAmbiguous, SubmitRefused
<1>12. \A usage, why : Answer(usage, why) => Goal
  BY <1>4 DEF Answer
<1>13. \A usage, kinds : AnswerCalls(usage, kinds) => Goal
  BY <1>4 DEF AnswerCalls
<1>14. CASE LoopStep
  BY <1>6, <1>7, <1>8, <1>9, <1>10, <1>11, <1>12, <1>13, <1>14 DEF LoopStep
<1> QED
  BY <1>5, <1>10, <1>14 DEF AgentNext

THEOREM ReservationResolvedOnce == AgentSpec => RowsResolvedOnce
<1>1. AgentInv /\ [AgentNext]_agentVars =>
        [\A o \in DOMAIN resv :
           resv[o] # "held" => o \in DOMAIN resv' /\ resv'[o] = resv[o]]_agentVars
  BY ResolvedStays
<1> QED
  BY <1>1, AgentInvariant, PTL DEF AgentSpec, RowsResolvedOnce
==============================================================================
