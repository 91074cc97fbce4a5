-------------------------- MODULE CheckpointProofs --------------------------
(***************************************************************************)
(* Proofs about the checkpointed PRD for any number of executions, any     *)
(* contents of their worktrees and any number of crashes: a batch result   *)
(* is applied once, a candidate lands once, the checkpoint never runs      *)
(* ahead of the ledger, and completion is earned.                          *)
(***************************************************************************)
EXTENDS Checkpoint, TLAPS

Cs      == Contents \cup {NoChange}
Stages  == {"agent", "review", "batch", "interactive", "insert", "consume", "apply",
            "decide", "finish", "write", "land", "merge", "ledger"}
Landed  == {"integrated", "completed"}
Driving == [pc : Stages, exec : Executions,
            saw : {"none", "submitted", "completed", "applied", "expired_fallback"},
            outcome : {"none", "parked", "blocked", "clean"}, rem : BOOLEAN,
            todo : Seq(Phases), then : {"idle", "land"}]
Rows    == [phase : Phases, hash : Cs, exec : Executions, id : Executions]
Trees   == [content : Cs, commit : Cs, ahead : 0 .. 2]
Batches == [state : {"none", "submitted", "completed", "applied", "expired_fallback"},
            content : Cs, late : BOOLEAN]

(* The shape of every row and of every driver's local state. *)
Shapes ==
  /\ wt \in [Executions -> Trees]
  /\ cp \in {NoCheckpoint} \cup Rows
  /\ cycle \in [Executions -> {"none", "unfinished", "pending", "clean", "blocked",
                               "interrupted"}]
  /\ batch \in [Executions -> Batches]
  /\ backlog \in [status : {"pending", "in_progress", "completed"}, owner : 0 .. MaxExecutions]
  /\ main \in Seq(Candidates)
  /\ proc \in [Drivers -> {Idle} \cup Driving]
  /\ execs \in 0 .. MaxExecutions
  /\ log \in [reviewed : SUBSET Candidates, operator : SUBSET Candidates,
              override : BOOLEAN, applied : [Executions -> Nat]]

(* Who drives: run and cli exclude each other, only a run has an agent,    *)
(* everything after it works on a checkpoint, and only cli lands; what is  *)
(* about to be decided was answered.                                       *)
Roles ==
  /\ proc["run"] = Idle \/ proc["cli"] = Idle
  /\ \A d \in Drivers :
       proc[d] # Idle =>
         /\ proc[d].pc = "agent" => d = "run"
         /\ proc[d].pc # "agent" => cp # NoCheckpoint
         /\ d # "cli" => proc[d].pc \notin {"land", "merge"} /\ proc[d].then = "idle"
         /\ d = "poller" => proc[d].pc # "ledger"
         /\ proc[d].pc = "decide" => proc[d].outcome \in Outcomes

(* A landing starts from a worktree at most one commit ahead of its base,  *)
(* which is what keeps a worktree within two.                              *)
AheadOfBase ==
  /\ proc["cli"] # Idle /\ proc["cli"].pc \notin {"merge", "ledger"}
  /\ proc["cli"].pc = "write" => proc["cli"].then = "land"
  => wt[proc["cli"].exec].ahead <= 1

(* A driver that still has to write that the PRD is integrated has the     *)
(* ledger's word for it.                                                   *)
PhasesPromised ==
  \A d \in Drivers :
    proc[d] # Idle =>
      /\ proc[d].todo \in Seq(Phases \ Landed) \/ backlog.status = "completed"
      /\ proc[d].pc = "write" => proc[d].todo # <<>>

(* A clean cycle reviewed a candidate of its execution. *)
CleanWasReviewed ==
  \A e \in Executions : cycle[e] = "clean" => \E c \in Cs : <<e, c>> \in log.reviewed

(* Between the merge and the ledger the commit is on the branch. *)
CommitOnBranch ==
  proc["cli"] # Idle /\ proc["cli"].pc = "ledger" =>
    LET commit == wt[proc["cli"].exec].commit
    IN  commit = NoChange \/ <<proc["cli"].exec, commit>> \in Range(main)

(* A result that can still be applied was not, and mark_applied leaves no  *)
(* way back to such a state.                                               *)
AppliedAtMostOnce ==
  \A e \in Executions :
    /\ log.applied[e] \in {0, 1}
    /\ batch[e].state \in {"none", "submitted", "completed"} => log.applied[e] = 0

CheckpointInv ==
  /\ Shapes /\ Roles /\ AheadOfBase /\ PhasesPromised /\ CleanWasReviewed
  /\ CommitOnBranch /\ AppliedAtMostOnce /\ LandedOnce /\ PhaseFollowsLedger

-----------------------------------------------------------------------------
(* How a step moves a driver.                                              *)

(* The drivers stay drivers, and only d moves. *)
Only(d) ==
  /\ proc' \in [Drivers -> {Idle} \cup Driving]
  /\ \A x \in Drivers : x # d => proc'[x] = proc[x]

Stops(d) == Only(d) /\ proc'[d] = Idle

(* d goes on at pc with the same execution and the same phases to write. *)
Advances(d, pc) ==
  /\ Only(d) /\ proc'[d] \in Driving /\ proc'[d].pc = pc
  /\ proc'[d].exec = proc[d].exec /\ proc'[d].todo = proc[d].todo
  /\ proc'[d].then = proc[d].then

(* d starts at pc with an execution, and with nothing to write yet. *)
Starts(d, e, pc) ==
  /\ Only(d) /\ proc'[d] \in Driving /\ proc'[d].pc = pc
  /\ proc'[d].exec = e /\ proc'[d].todo = <<>> /\ proc'[d].then = "idle"

(* d has phases to write, and knows what comes after them. *)
Writes(d, e, todo, then) ==
  /\ Only(d) /\ proc'[d] \in Driving /\ proc'[d].pc = "write"
  /\ proc'[d].exec = e /\ proc'[d].todo = todo /\ proc'[d].then = then

(* Only what is in a worktree changes, not what is committed. *)
ContentOnly ==
  /\ wt' \in [Executions -> Trees]
  /\ \A x \in Executions : wt'[x].commit = wt[x].commit /\ wt'[x].ahead = wt[x].ahead

(* No verdict is given. *)
NoVerdict ==
  /\ cycle' \in [Executions -> {"none", "unfinished", "pending", "clean", "blocked",
                                "interrupted"}]
  /\ \A x \in Executions : cycle'[x] = "clean" => cycle[x] = "clean"

(* A batch row moves towards its end, never back. *)
Forward ==
  /\ batch' \in [Executions -> Batches]
  /\ \A x \in Executions : batch'[x].state \in {"none", "submitted", "completed"} =>
       batch[x].state \in {"none", "submitted", "completed"}

(* The row is rewritten without a claim of integration. *)
RowKept == cp' \in Rows /\ (cp'.phase \in Landed => cp'.phase = cp.phase)

-----------------------------------------------------------------------------
(* The empty row is no row, and a driver at work is not idle. *)
LEMMA Distinctions ==
  /\ NoCheckpoint \notin Rows
  /\ Idle \notin Driving
  /\ \A r \in Driving : r # Idle /\ r.pc # "idle"
  BY DEF NoCheckpoint, Rows, Phases, Idle, Driving, Stages

LEMMA AtWork ==
  ASSUME Shapes, NEW d \in Drivers, NEW pc \in Stages, At(d, pc)
  PROVE  /\ proc[d] \in Driving /\ proc[d] # Idle
         /\ proc[d].exec \in Executions /\ proc[d].pc = pc
  BY Distinctions DEF Shapes, At, Idle, Stages, Driving

LEMMA AtRest ==
  ASSUME Shapes, NEW d \in Drivers, At(d, "idle")
  PROVE  proc[d] = Idle
  BY Distinctions DEF Shapes, At

LEMMA Moving ==
  ASSUME Shapes, NEW d \in Drivers, NEW r \in {Idle} \cup Driving, Moves(d, r)
  PROVE  Only(d) /\ proc'[d] = r
  BY DEF Moves, Shapes, Only

LEMMA Stopping ==
  ASSUME Shapes, NEW d \in Drivers, Ends(d)
  PROVE  Stops(d)
  BY Moving DEF Ends, Stops

LEMMA Advancing ==
  ASSUME Shapes, NEW d \in Drivers, NEW pc \in Stages, proc[d] \in Driving, Goto(d, pc)
  PROVE  Advances(d, pc)
<1> DEFINE r == [proc[d] EXCEPT !.pc = pc, !.saw = "none"]
<1>1. /\ r \in Driving /\ r.pc = pc /\ r.exec = proc[d].exec /\ r.todo = proc[d].todo
      /\ r.then = proc[d].then
  BY DEF Driving
<1>2. Moves(d, r)
  BY DEF Goto
<1> HIDE DEF r
<1> QED
  BY <1>1, <1>2, Moving DEF Advances

LEMMA Parking ==
  ASSUME Shapes, NEW d \in Drivers, proc[d] \in Driving, Park(d)
  PROVE  Advances(d, "finish")
<1> DEFINE r == [proc[d] EXCEPT !.pc = "finish", !.saw = "none", !.outcome = "parked"]
<1>1. /\ r \in Driving /\ r.pc = "finish" /\ r.exec = proc[d].exec /\ r.todo = proc[d].todo
      /\ r.then = proc[d].then
  BY DEF Driving, Stages
<1>2. Moves(d, r)
  BY DEF Park
<1> HIDE DEF r
<1> QED
  BY <1>1, <1>2, Moving DEF Advances

LEMMA EmptyTodo == <<>> \in Seq(Phases) /\ <<>> \in Seq(Phases \ Landed)
  OBVIOUS

LEMMA ReviewingShape ==
  ASSUME NEW e \in Executions
  PROVE  /\ Reviewing(e) \in Driving /\ Reviewing(e).pc = "review"
         /\ Reviewing(e).exec = e /\ Reviewing(e).todo = <<>> /\ Reviewing(e).then = "idle"
  BY EmptyTodo DEF Reviewing, Driving, Stages

LEMMA Starting ==
  ASSUME Shapes, NEW d \in Drivers, NEW e \in Executions, NEW pc \in Stages,
         Moves(d, [Reviewing(e) EXCEPT !.pc = pc])
  PROVE  Starts(d, e, pc)
<1> DEFINE r == [Reviewing(e) EXCEPT !.pc = pc]
<1>1. /\ r \in Driving /\ r.pc = pc /\ r.exec = e /\ r.todo = <<>> /\ r.then = "idle"
  BY ReviewingShape DEF Driving
<1> HIDE DEF r
<1> QED
  BY <1>1, Moving DEF Starts, r

LEMMA StartingReview ==
  ASSUME Shapes, NEW d \in Drivers, NEW e \in Executions, Moves(d, Reviewing(e))
  PROVE  Starts(d, e, "review")
  BY ReviewingShape, Moving DEF Starts

LEMMA Writing ==
  ASSUME Shapes, NEW d \in Drivers, NEW todo \in Seq(Phases), NEW then \in {"idle", "land"},
         proc[d] \in Driving, todo # <<>>, FinishWith(d, todo, then)
  PROVE  Writes(d, proc[d].exec, todo, then)
<1> DEFINE r == [Reviewing(proc[d].exec) EXCEPT !.pc = "write", !.todo = todo, !.then = then]
<1>a. proc[d].exec \in Executions
  BY DEF Driving
<1>b. ASSUME NEW b \in Driving
      PROVE  LET q == [b EXCEPT !.pc = "write", !.todo = todo, !.then = then]
             IN  /\ q \in Driving /\ q.pc = "write" /\ q.exec = b.exec /\ q.todo = todo
                 /\ q.then = then
  BY DEF Driving, Stages
<1>c. Reviewing(proc[d].exec) \in Driving /\ Reviewing(proc[d].exec).exec = proc[d].exec
  BY <1>a, ReviewingShape
<1>1. /\ r \in Driving /\ r.pc = "write" /\ r.exec = proc[d].exec /\ r.todo = todo
      /\ r.then = then
  BY <1>b, <1>c
<1>2. Moves(d, r)
  BY DEF FinishWith
<1> HIDE DEF r
<1> QED
  BY <1>1, <1>2, Moving DEF Writes

(* The phases the drivers write. *)
LEMMA PhaseLists ==
  /\ ApprovePhases \in Seq(Phases \ Landed) /\ ApprovePhases # <<>>
  /\ <<"verified", "reviewed">> \o <<>> \in Seq(Phases \ Landed)
  /\ <<"verified", "reviewed">> \o <<>> # <<>>
  /\ <<"verified", "reviewed">> \o ApprovePhases \in Seq(Phases \ Landed)
  /\ <<"verified", "reviewed">> \o ApprovePhases # <<>>
  /\ <<>> \o <<"integrated", "completed">> \in Seq(Phases)
  /\ <<>> \o <<"integrated", "completed">> # <<>>
  /\ ApprovePhases \o <<"integrated", "completed">> \in Seq(Phases)
  /\ ApprovePhases \o <<"integrated", "completed">> # <<>>
  /\ <<"approved", "integrated", "completed">> \in Seq(Phases)
  BY DEF ApprovePhases, Phases, Landed

LEMMA SubPhases == ASSUME NEW q \in Seq(Phases \ Landed) PROVE q \in Seq(Phases)
  OBVIOUS

-----------------------------------------------------------------------------
(* What each action does, as the invariant sees it.                        *)

(* A run claims the PRD while no one else has the lock. *)
LEMMA ClaimEffect ==
  ASSUME Shapes, Claim
  PROVE  /\ proc["run"] = Idle /\ proc["cli"] = Idle
         /\ Starts("run", execs + 1, "agent") /\ execs + 1 \in Executions
         /\ execs' \in 0 .. MaxExecutions
         /\ backlog.status = "pending" /\ backlog'.status = "in_progress"
         /\ backlog' \in [status : {"pending", "in_progress", "completed"},
                          owner : 0 .. MaxExecutions]
         /\ NoVerdict /\ UNCHANGED <<wt, cp, batch, main, log>>
<1>1. proc["run"] = Idle /\ proc["cli"] = Idle
  BY AtRest DEF Claim, Drivers
<1>2. execs + 1 \in Executions /\ execs + 1 \in 0 .. MaxExecutions
  BY CheckpointAssumption DEF Claim, Shapes, Executions
<1>3. Starts("run", execs + 1, "agent")
  BY <1>2, Starting DEF Claim, Drivers, Stages
<1>4. backlog' = [status |-> "in_progress", owner |-> execs + 1]
  BY DEF Claim
<1>5. NoVerdict
  BY DEF Claim, NoVerdict, Shapes
<1> QED
  BY <1>1, <1>2, <1>3, <1>4, <1>5 DEF Claim

(* The agent fails: only the worktree shows it. *)
LEMMA AgentFailsEffect ==
  ASSUME Shapes, NEW c \in Cs, AgentFails(c)
  PROVE  /\ Stops("run") /\ ContentOnly
         /\ UNCHANGED <<cp, cycle, batch, backlog, main, execs, log>>
<1>1. proc["run"].exec \in Executions
  BY AtWork DEF AgentFails, Drivers, Stages
<1>2. ContentOnly
  BY <1>1 DEF AgentFails, ContentOnly, Shapes, Trees
<1> QED
  BY <1>2, Stopping DEF AgentFails, Drivers

(* freeze_implementation: a row that claims no integration. *)
LEMMA FreezeEffect ==
  ASSUME Shapes, NEW c \in Cs, NEW over \in BOOLEAN, NEW incomplete \in BOOLEAN,
         Freeze(c, over, incomplete)
  PROVE  /\ proc["run"] \in Driving /\ proc["run"].pc = "agent"
         /\ Stops("run") \/ Advances("run", "review")
         /\ ContentOnly /\ cp' \in Rows /\ cp'.phase \notin Landed
         /\ UNCHANGED <<cycle, batch, backlog, main, execs, log>>
<1> DEFINE e == proc["run"].exec
<1>1. proc["run"] \in Driving /\ proc["run"].pc = "agent" /\ e \in Executions
  BY AtWork DEF Freeze, Drivers, Stages
<1>2. ContentOnly /\ wt'[e].content \in Cs
  BY <1>1 DEF Freeze, ContentOnly, Shapes, Trees
<1>3. \E phase \in {"implemented", "implemented_pending_review"} : Put(e, phase)
  BY DEF Freeze
<1>4. cp' \in Rows /\ cp'.phase \notin Landed
  BY <1>1, <1>2, <1>3 DEF Put, Rows, Landed, Phases, Shapes
<1>5. Stops("run") \/ Advances("run", "review")
  BY <1>1, Stopping, Advancing DEF Freeze, Drivers, Stages
<1> QED
  BY <1>1, <1>2, <1>4, <1>5 DEF Freeze

(* The reviewer is about to be asked. *)
LEMMA ConsultEffect ==
  ASSUME Shapes, NEW d \in Drivers, Consult(d)
  PROVE  /\ proc[d] \in Driving /\ proc[d].pc = "review"
         /\ Advances(d, "batch") \/ Advances(d, "interactive")
         /\ NoVerdict /\ UNCHANGED <<wt, cp, batch, backlog, main, execs, log>>
<1>1. proc[d] \in Driving /\ proc[d].pc = "review" /\ proc[d].exec \in Executions
  BY AtWork DEF Consult, Stages
<1> DEFINE r == [proc[d] EXCEPT !.saw = batch[proc[d].exec].state,
                            !.pc = IF BatchTier THEN "batch" ELSE "interactive"]
<1>2. batch[proc[d].exec].state \in
        {"none", "submitted", "completed", "applied", "expired_fallback"}
  BY <1>1 DEF Shapes, Batches
<1>3. /\ r \in Driving /\ r.pc \in {"batch", "interactive"} /\ r.exec = proc[d].exec
      /\ r.todo = proc[d].todo /\ r.then = proc[d].then
  BY <1>1, <1>2 DEF Driving, Stages
<1>4. Moves(d, r)
  BY DEF Consult
<1>5. NoVerdict
  BY <1>1 DEF Consult, Verdict, NoVerdict, Shapes
<1> HIDE DEF r
<1> QED
  BY <1>1, <1>3, <1>4, <1>5, Moving DEF Consult, Advances

(* The provider has the batch. *)
LEMMA SubmitEffect ==
  ASSUME Shapes, NEW d \in Drivers, Submit(d)
  PROVE  /\ proc[d] \in Driving /\ proc[d].pc = "batch"
         /\ Advances(d, "insert")
         /\ UNCHANGED <<wt, cp, cycle, batch, backlog, main, execs, log>>
<1>1. proc[d] \in Driving /\ proc[d].pc = "batch" /\ proc[d].exec \in Executions
  BY AtWork DEF Submit, Stages
<1> QED
  BY <1>1, Advancing DEF Submit, Stages

(* The row is inserted unless there is one. *)
LEMMA InsertEffect ==
  ASSUME Shapes, NEW d \in Drivers, Insert(d)
  PROVE  /\ proc[d] \in Driving /\ proc[d].pc = "insert"
         /\ Advances(d, "finish") /\ Forward
         /\ NoVerdict /\ UNCHANGED <<wt, cp, backlog, main, execs, log>>
<1>1. proc[d] \in Driving /\ proc[d].pc = "insert" /\ proc[d].exec \in Executions
  BY AtWork DEF Insert, Stages
<1>2. Forward
  BY <1>1 DEF Insert, Forward, Shapes, Batches, Trees
<1>3. NoVerdict
  BY <1>1 DEF Insert, Park, Verdict, NoVerdict, Shapes
<1> QED
  BY <1>1, <1>2, <1>3, Parking DEF Insert

(* mark_completed and mark_expired_fallback never reopen a result. *)
LEMMA MarkEffect ==
  ASSUME Shapes, NEW e \in Executions,
         NEW from \in {"submitted", "applied"}, NEW to \in {"completed", "expired_fallback"},
         Mark(e, from, to), from = "applied" => to = "expired_fallback"
  PROVE  Forward
  BY DEF Mark, Forward, Shapes, Batches

(* The wait or the provider decides about the row. *)
LEMMA PollOrExpireEffect ==
  ASSUME Shapes, NEW d \in Drivers, NEW answer \in Answers, PollOrExpire(d, answer)
  PROVE  /\ proc[d] \in Driving /\ proc[d].pc = "batch"
         /\ Advances(d, "interactive") \/ Advances(d, "consume") \/ Advances(d, "finish")
         /\ Forward /\ NoVerdict /\ UNCHANGED <<wt, cp, backlog, main, execs, log>>
<1>1. proc[d] \in Driving /\ proc[d].pc = "batch" /\ proc[d].exec \in Executions
  BY AtWork DEF PollOrExpire, Stages
<1>2. UNCHANGED batch => Forward
  BY DEF Forward, Shapes
<1>3. Forward
  BY <1>1, <1>2, MarkEffect DEF PollOrExpire
<1>4. NoVerdict
  BY <1>1 DEF PollOrExpire, Park, Verdict, NoVerdict, Shapes
<1>5. Advances(d, "interactive") \/ Advances(d, "consume") \/ Advances(d, "finish")
  BY <1>1, Advancing, Parking DEF PollOrExpire, Stages
<1> QED
  BY <1>1, <1>3, <1>4, <1>5 DEF PollOrExpire

(* A row that was settled before is met again. *)
LEMMA ReenterEffect ==
  ASSUME Shapes, NEW d \in Drivers, Reenter(d)
  PROVE  /\ proc[d] \in Driving /\ proc[d].pc = "batch"
         /\ Advances(d, "interactive") \/ Advances(d, "consume")
         /\ Forward /\ UNCHANGED <<wt, cp, cycle, backlog, main, execs, log>>
<1>1. proc[d] \in Driving /\ proc[d].pc = "batch" /\ proc[d].exec \in Executions
  BY AtWork DEF Reenter, Stages
<1>2. UNCHANGED batch => Forward
  BY DEF Forward, Shapes
<1>3. Forward
  BY <1>1, <1>2, MarkEffect DEF Reenter
<1>4. Advances(d, "interactive") \/ Advances(d, "consume")
  BY <1>1, Advancing DEF Reenter, Stages
<1> QED
  BY <1>1, <1>3, <1>4 DEF Reenter

(* The result is looked at. *)
LEMMA ConsumeEffect ==
  ASSUME Shapes, NEW d \in Drivers, Consume(d)
  PROVE  /\ proc[d] \in Driving /\ proc[d].pc = "consume"
         /\ Advances(d, "apply") \/ Advances(d, "finish")
         /\ NoVerdict /\ UNCHANGED <<wt, cp, batch, backlog, main, execs, log>>
<1>1. proc[d] \in Driving /\ proc[d].pc = "consume" /\ proc[d].exec \in Executions
  BY AtWork DEF Consume, Stages
<1>2. NoVerdict
  BY <1>1 DEF Consume, Park, Verdict, NoVerdict, Shapes
<1>3. Advances(d, "apply") \/ Advances(d, "finish")
  BY <1>1, Advancing, Parking DEF Consume, Stages
<1> QED
  BY <1>1, <1>2, <1>3 DEF Consume

(* A verdict: clean only for a candidate that was reviewed clean. *)
Judged ==
  /\ cycle' \in [Executions -> {"none", "unfinished", "pending", "clean", "blocked",
                                "interrupted"}]
  /\ log' \in [reviewed : SUBSET Candidates, operator : SUBSET Candidates,
               override : BOOLEAN, applied : [Executions -> Nat]]
  /\ log.reviewed \subseteq log'.reviewed
  /\ \A x \in Executions : cycle'[x] = "clean" =>
       cycle[x] = "clean" \/ \E c \in Cs : <<x, c>> \in log'.reviewed

(* mark_applied decides: a result is applied while it is completed, and once. *)
LEMMA ApplyEffect ==
  ASSUME Shapes, NEW d \in Drivers, NEW outcome \in Outcomes, Apply(d, outcome)
  PROVE  /\ proc[d] \in Driving /\ proc[d].pc = "apply"
         /\ \/ Advances(d, "finish")
            \/ Advances(d, "decide") /\ proc'[d].outcome \in Outcomes
         /\ Judged /\ NoVerdict /\ log'.reviewed = log.reviewed
         /\ batch' \in [Executions -> Batches]
         /\ \A x \in Executions :
              \/ log'.applied[x] = log.applied[x] /\ batch'[x].state = batch[x].state
              \/ /\ batch[x].state = "completed" /\ batch'[x].state = "applied"
                 /\ log'.applied[x] = log.applied[x] + 1
         /\ UNCHANGED <<wt, cp, backlog, main, execs>>
<1> DEFINE e == proc[d].exec
           r == [proc[d] EXCEPT !.pc = "decide", !.outcome = outcome]
<1>1. proc[d] \in Driving /\ proc[d].pc = "apply" /\ e \in Executions
  BY AtWork DEF Apply, Stages
<1>2. CASE batch[e].state # "completed"
  <2>1. UNCHANGED <<wt, batch, log>> /\ Park(d)
    BY <1>2 DEF Apply
  <2>2. Judged /\ NoVerdict
    BY <1>1, <2>1 DEF Park, Verdict, Judged, NoVerdict, Shapes
  <2>3. Advances(d, "finish")
    BY <1>1, <2>1, Parking
  <2> QED
    BY <1>1, <2>1, <2>2, <2>3 DEF Apply, Shapes
<1>3. CASE batch[e].state = "completed"
  <2>1. /\ Moves(d, r) /\ Mark(e, "completed", "applied") /\ UNCHANGED cycle
        /\ log' = [log EXCEPT !.applied[e] = @ + 1]
    BY <1>3 DEF Apply, Answered
  <2>2. /\ r \in Driving /\ r.pc = "decide" /\ r.exec = proc[d].exec
        /\ r.todo = proc[d].todo /\ r.then = proc[d].then /\ r.outcome \in Outcomes
    BY <1>1 DEF Driving, Stages, Outcomes
  <2>3. Advances(d, "decide") /\ proc'[d].outcome \in Outcomes
    <3> HIDE DEF r
    <3> QED
      BY <2>1, <2>2, Moving DEF Advances
  <2> DEFINE applied == [log.applied EXCEPT ![e] = @ + 1]
  <2>a. /\ applied \in [Executions -> Nat] /\ applied[e] = log.applied[e] + 1
        /\ \A x \in Executions : x # e => applied[x] = log.applied[x]
    BY <1>1 DEF Shapes
  <2>b. log' = [log EXCEPT !.applied = applied]
    BY <2>1
  <2> HIDE DEF applied
  <2>4. /\ log' \in [reviewed : SUBSET Candidates, operator : SUBSET Candidates,
                     override : BOOLEAN, applied : [Executions -> Nat]]
        /\ log'.reviewed = log.reviewed /\ log'.applied[e] = log.applied[e] + 1
        /\ \A x \in Executions : x # e => log'.applied[x] = log.applied[x]
    BY <2>a, <2>b DEF Shapes
  <2>5. Judged /\ NoVerdict
    BY <2>1, <2>4 DEF Judged, NoVerdict, Shapes
  <2>6. /\ batch' \in [Executions -> Batches] /\ batch'[e].state = "applied"
        /\ \A x \in Executions : x # e => batch'[x].state = batch[x].state
    BY <1>1, <1>3, <2>1 DEF Mark, Shapes, Batches
  <2> QED
    BY <1>1, <1>3, <2>3, <2>4, <2>5, <2>6 DEF Apply
<1> QED
  BY <1>2, <1>3

(* The coordinator stores the verdict of an answer that was applied. *)
LEMMA DecideEffect ==
  ASSUME Shapes, Roles, NEW d \in Drivers, Decide(d)
  PROVE  /\ proc[d] \in Driving /\ proc[d].pc = "decide"
         /\ Advances(d, "finish") /\ Judged
         /\ log'.applied = log.applied
         /\ UNCHANGED <<wt, cp, batch, backlog, main, execs>>
<1> DEFINE e == proc[d].exec
           outcome == proc[d].outcome
           reviewed == IF outcome = "clean" THEN log.reviewed \cup {<<e, batch[e].content>>}
                                            ELSE log.reviewed
<1>1. proc[d] \in Driving /\ proc[d].pc = "decide" /\ e \in Executions /\ proc[d] # Idle
  BY AtWork DEF Decide, Stages
<1>2. outcome \in {"clean", "blocked"}
  BY <1>1 DEF Roles, Outcomes
<1>3. Verdict(d, outcome) /\ log' = [log EXCEPT !.reviewed = reviewed]
  BY DEF Decide
<1>4. Advances(d, "finish")
  BY <1>1, Advancing DEF Decide, Stages
<1>5. /\ reviewed \in SUBSET Candidates /\ log.reviewed \subseteq reviewed
      /\ outcome = "clean" => <<e, batch[e].content>> \in reviewed
      /\ batch[e].content \in Cs
  <2>1. batch[e].content \in Cs /\ log.reviewed \in SUBSET Candidates
    BY <1>1 DEF Shapes, Batches
  <2>2. <<e, batch[e].content>> \in Candidates
    BY <1>1, <2>1 DEF Candidates, Cs
  <2> QED
    BY <2>1, <2>2
<1> HIDE DEF reviewed, outcome
<1>6. /\ log' \in [reviewed : SUBSET Candidates, operator : SUBSET Candidates,
                   override : BOOLEAN, applied : [Executions -> Nat]]
      /\ log'.reviewed = reviewed /\ log'.applied = log.applied
  BY <1>3, <1>5 DEF Shapes
<1>7. Judged
  BY <1>1, <1>2, <1>3, <1>5, <1>6 DEF Judged, Verdict, Shapes
<1> QED
  BY <1>1, <1>4, <1>6, <1>7 DEF Decide

(* An interactive review judges what it leaves in the worktree. *)
LEMMA InteractiveEffect ==
  ASSUME Shapes, NEW d \in Drivers, NEW outcome \in Outcomes, NEW c \in Cs,
         Interactive(d, outcome, c)
  PROVE  /\ proc[d] \in Driving /\ proc[d].pc = "interactive"
         /\ Advances(d, "finish") /\ Judged /\ ContentOnly
         /\ log'.applied = log.applied
         /\ UNCHANGED <<cp, batch, backlog, main, execs>>
<1> DEFINE e == proc[d].exec
           r == [proc[d] EXCEPT !.pc = "finish", !.outcome = outcome,
                                !.rem = c # wt[e].content]
           reviewed == IF outcome = "clean" THEN log.reviewed \cup {<<e, c>>}
                                            ELSE log.reviewed
<1>1. proc[d] \in Driving /\ proc[d].pc = "interactive" /\ e \in Executions
  BY AtWork DEF Interactive, Stages
<1>2. /\ Moves(d, r) /\ Verdict(d, outcome) /\ log' = [log EXCEPT !.reviewed = reviewed]
      /\ wt' = [wt EXCEPT ![e].content = c]
  BY DEF Interactive
<1>3. /\ r \in Driving /\ r.pc = "finish" /\ r.exec = proc[d].exec
      /\ r.todo = proc[d].todo /\ r.then = proc[d].then
  BY <1>1 DEF Driving, Stages, Outcomes
<1>4. Advances(d, "finish")
  <2> HIDE DEF r
  <2> QED
    BY <1>2, <1>3, Moving DEF Advances
<1>5. /\ reviewed \in SUBSET Candidates /\ log.reviewed \subseteq reviewed
      /\ outcome = "clean" => <<e, c>> \in reviewed
  <2>1. <<e, c>> \in Candidates /\ log.reviewed \in SUBSET Candidates
    BY <1>1 DEF Shapes, Candidates, Cs
  <2> QED
    BY <2>1
<1> HIDE DEF reviewed, r
<1>6. /\ log' \in [reviewed : SUBSET Candidates, operator : SUBSET Candidates,
                   override : BOOLEAN, applied : [Executions -> Nat]]
      /\ log'.reviewed = reviewed /\ log'.applied = log.applied
  BY <1>2, <1>5 DEF Shapes
<1>7. Judged
  BY <1>1, <1>2, <1>5, <1>6 DEF Judged, Verdict, Shapes, Outcomes
<1>8. ContentOnly
  BY <1>1, <1>2 DEF ContentOnly, Shapes, Trees
<1> QED
  BY <1>1, <1>4, <1>6, <1>7, <1>8 DEF Interactive

(* What a driver does after a landing phase is decided by who it is. *)
LEMMA LandingKind ==
  ASSUME NEW d \in Drivers
  PROVE  Landing(d) \in {"idle", "land"} /\ (d # "cli" => Landing(d) = "idle")
  BY DEF Landing

(* A list of phases to write, empty or not. *)
LEMMA WritingOrStopping ==
  ASSUME Shapes, NEW d \in Drivers, NEW todo \in Seq(Phases \ Landed),
         NEW then \in {"idle", "land"}, proc[d] \in Driving, FinishWith(d, todo, then)
  PROVE  Stops(d) \/ (todo # <<>> /\ Writes(d, proc[d].exec, todo, then))
<1>1. CASE todo = <<>>
  BY <1>1, Moving DEF FinishWith, Stops
<1>2. CASE todo # <<>>
  BY <1>2, Writing, SubPhases
<1> QED
  BY <1>1, <1>2

(* A remediated candidate is frozen again: the row claims what it claimed. *)
LEMMA RebindEffect ==
  ASSUME Shapes, Roles, NEW d \in Drivers, Rebind(d)
  PROVE  /\ proc[d] \in Driving /\ proc[d].pc = "finish"
         /\ Advances(d, "finish") /\ RowKept
         /\ UNCHANGED <<wt, cycle, batch, backlog, main, execs, log>>
<1> DEFINE e == proc[d].exec
           r == [proc[d] EXCEPT !.rem = FALSE]
<1>1. proc[d] \in Driving /\ proc[d].pc = "finish" /\ e \in Executions
  BY AtWork DEF Rebind, Stages
<1>2. cp \in Rows /\ wt[e].content \in Cs
  <2>1. cp # NoCheckpoint
    BY <1>1, Distinctions DEF Roles
  <2> QED
    BY <1>1, <2>1 DEF Shapes, Trees
<1>3. RowKept
  BY <1>2 DEF Rebind, RowKept, Rows
<1>4. /\ r \in Driving /\ r.pc = "finish" /\ r.exec = proc[d].exec
      /\ r.todo = proc[d].todo /\ r.then = proc[d].then
  BY <1>1 DEF Driving, Stages
<1>5. Moves(d, r)
  BY DEF Rebind
<1>6. Advances(d, "finish")
  <2> HIDE DEF r
  <2> QED
    BY <1>4, <1>5, Moving DEF Advances
<1> QED
  BY <1>1, <1>3, <1>6 DEF Rebind

(* finish_implementation promises no integration. *)
LEMMA FinishEffect ==
  ASSUME Shapes, Roles, NEW d \in Drivers, NEW deferred \in BOOLEAN, Finish(d, deferred)
  PROVE  /\ proc[d] \in Driving /\ proc[d].pc = "finish"
         /\ \/ Stops(d)
            \/ d = "run" /\ Advances(d, "ledger")
            \/ \E todo \in Seq(Phases \ Landed) :
                 todo # <<>> /\ Writes(d, proc[d].exec, todo, Landing(d))
         /\ RowKept /\ UNCHANGED <<wt, cycle, batch, backlog, main, execs, log>>
<1> DEFINE e == proc[d].exec
<1>1. proc[d] \in Driving /\ proc[d].pc = "finish" /\ e \in Executions
  BY AtWork DEF Finish, Stages
<1>a. cp # NoCheckpoint
  BY <1>1, Distinctions DEF Roles
<1>2. cp \in Rows
  BY <1>1, <1>a DEF Shapes
<1>4. cp' = cp \/ cp' = [cp EXCEPT !.phase = "blocked"]
  BY DEF Finish, Transition
<1>5. RowKept
  BY <1>2, <1>4 DEF RowKept, Rows, Landed, Phases
<1>6. CASE proc[d].outcome = "parked"
  <2> DEFINE todo == IF d = "run" THEN <<>> ELSE ApprovePhases
  <2>1. FinishWith(d, todo, Landing(d))
    BY <1>6 DEF Finish
  <2>2. todo \in Seq(Phases \ Landed)
    BY PhaseLists, EmptyTodo
  <2> HIDE DEF todo
  <2>3. Stops(d) \/ (todo # <<>> /\ Writes(d, e, todo, Landing(d)))
    BY <1>1, <2>1, <2>2, LandingKind, WritingOrStopping
  <2> QED
    BY <1>1, <1>5, <2>2, <2>3 DEF Finish
<1>7. CASE proc[d].outcome = "blocked"
  BY <1>1, <1>5, <1>7, Stopping DEF Finish
<1>8. CASE proc[d].outcome \notin {"parked", "blocked"}
  <2>1. CASE ~ deferred
    BY <1>1, <1>5, <1>8, <2>1, Advancing DEF Finish, Stages
  <2>2. CASE deferred
    <3> DEFINE todo == <<"verified", "reviewed">> \o
                         (IF d = "run" THEN <<>> ELSE ApprovePhases)
    <3>1. FinishWith(d, todo, Landing(d))
      BY <1>8, <2>2 DEF Finish
    <3>2. todo \in Seq(Phases \ Landed)
      BY PhaseLists
    <3> HIDE DEF todo
    <3>3. Stops(d) \/ (todo # <<>> /\ Writes(d, e, todo, Landing(d)))
      BY <1>1, <3>1, <3>2, LandingKind, WritingOrStopping
    <3> QED
      BY <1>1, <1>5, <3>2, <3>3 DEF Finish
  <2> QED
    BY <2>1, <2>2
<1> QED
  BY <1>6, <1>7, <1>8

(* What is left of a list of phases after its first. *)
LEMMA Shorter ==
  ASSUME NEW S, NEW q \in Seq(S), q # <<>>
  PROVE  Head(q) \in S /\ Tail(q) \in Seq(S)
  OBVIOUS

(* The next phase of the list is written. *)
LEMMA WritePhaseEffect ==
  ASSUME Shapes, Roles, PhasesPromised, NEW d \in Drivers, WritePhase(d)
  PROVE  /\ proc[d] \in Driving /\ proc[d].pc = "write"
         /\ proc[d] # Idle /\ proc[d].todo \in Seq(Phases) /\ proc[d].todo # <<>>
         /\ \/ Stops(d)
            \/ proc[d].then = "land" /\ Starts(d, proc[d].exec, "land")
            \/ /\ Tail(proc[d].todo) # <<>>
               /\ Writes(d, proc[d].exec, Tail(proc[d].todo), proc[d].then)
         /\ cp' \in Rows /\ cp'.phase = Head(proc[d].todo)
         /\ UNCHANGED <<wt, cycle, batch, backlog, main, execs, log>>
<1>1. /\ proc[d] \in Driving /\ proc[d].pc = "write" /\ proc[d].exec \in Executions
      /\ proc[d] # Idle
  BY AtWork DEF WritePhase, Stages
<1>2. proc[d].todo \in Seq(Phases) /\ proc[d].todo # <<>> /\ proc[d].then \in {"idle", "land"}
  BY <1>1 DEF PhasesPromised, Driving
<1>3. Head(proc[d].todo) \in Phases /\ Tail(proc[d].todo) \in Seq(Phases)
  BY <1>2, Shorter
<1>a. cp # NoCheckpoint
  BY <1>1 DEF Roles
<1>4. cp' \in Rows /\ cp'.phase = Head(proc[d].todo)
  BY <1>3, <1>a DEF WritePhase, Transition, Shapes, Rows
<1>5. CASE Tail(proc[d].todo) = <<>>
  <2>1. CASE proc[d].then = "idle"
    BY <1>1, <1>2, <1>4, <1>5, <2>1, Moving DEF WritePhase, Stops
  <2>2. CASE proc[d].then = "land"
    <3>1. Moves(d, [Reviewing(proc[d].exec) EXCEPT !.pc = "land"])
      BY <1>5, <2>2 DEF WritePhase
    <3> QED
      BY <1>1, <1>2, <1>4, <2>2, <3>1, Starting DEF WritePhase, Stages
  <2> QED
    BY <1>2, <2>1, <2>2
<1>6. CASE Tail(proc[d].todo) # <<>>
  <2> DEFINE r == [proc[d] EXCEPT !.todo = Tail(@)]
  <2>1. /\ r \in Driving /\ r.pc = "write" /\ r.exec = proc[d].exec
        /\ r.todo = Tail(proc[d].todo) /\ r.then = proc[d].then
    BY <1>1, <1>3 DEF Driving
  <2>2. Moves(d, r)
    BY <1>6 DEF WritePhase
  <2> HIDE DEF r
  <2>3. Writes(d, proc[d].exec, Tail(proc[d].todo), proc[d].then)
    BY <2>1, <2>2, Moving DEF Writes
  <2> QED
    BY <1>1, <1>2, <1>4, <1>6, <2>3 DEF WritePhase
<1> QED
  BY <1>5, <1>6

(* A resume starts from a worktree at most one commit ahead of its base. *)
LEMMA ResumeEffect ==
  ASSUME Shapes, NEW d \in Drivers, Resume(d)
  PROVE  /\ d # "run" /\ proc[d] = Idle /\ (d = "cli" => proc["run"] = Idle)
         /\ cp \in Rows /\ RowKept
         /\ \/ UNCHANGED proc
            \/ Starts(d, cp.exec, "review") /\ wt[cp.exec].ahead <= 1
            \/ d = "cli" /\ Starts(d, cp.exec, "land") /\ wt[cp.exec].ahead <= 1
         /\ UNCHANGED <<wt, cycle, batch, backlog, main, execs, log>>
<1> DEFINE e == cp.exec
           row == [cp EXCEPT !.hash = wt[e].content]
<1>1. proc[d] = Idle /\ (d = "cli" => proc["run"] = Idle) /\ d \in {"cli", "poller"}
  BY AtRest DEF Resume, Drivers
<1>2. cp \in Rows /\ e \in Executions
  BY DEF Resume, Shapes, Rows
<1>3. wt[e].content \in Cs
  BY <1>2 DEF Shapes, Trees
<1>4. /\ row \in Rows /\ row.phase = cp.phase
      /\ [row EXCEPT !.phase = "approved"] \in Rows
      /\ [row EXCEPT !.phase = "approved"].phase = "approved"
  BY <1>2, <1>3 DEF Rows, Phases
<1>5. Intact(e) \/ Rebound(e) => wt[e].ahead <= 1
  BY DEF Intact, Rebound
<1>6. CASE /\ Intact(e) \/ Rebound(e)
           /\ cp' = [row EXCEPT !.phase = "approved"]
           /\ IF d = "cli" THEN Moves(d, [Reviewing(e) EXCEPT !.pc = "land"])
                           ELSE UNCHANGED proc
  <2>1. RowKept
    <3> HIDE DEF row
    <3> QED
      BY <1>4, <1>6 DEF RowKept, Landed
  <2>2. d = "cli" => Starts(d, e, "land")
    BY <1>2, <1>6, Starting DEF Stages
  <2> QED
    BY <1>1, <1>2, <1>5, <1>6, <2>1, <2>2 DEF Resume
<1>7. CASE (Intact(e) \/ Rebound(e)) /\ cp' = row /\ Moves(d, Reviewing(e))
  <2>1. RowKept
    <3> HIDE DEF row
    <3> QED
      BY <1>4, <1>7 DEF RowKept
  <2>2. Starts(d, e, "review")
    BY <1>2, <1>7, StartingReview
  <2> QED
    BY <1>1, <1>2, <1>5, <1>7, <2>1, <2>2 DEF Resume
<1>8. CASE UNCHANGED <<cp, proc>>
  BY <1>1, <1>2, <1>8 DEF Resume, RowKept
<1>9. \/ /\ Intact(e) \/ Rebound(e)
         /\ cp' = [row EXCEPT !.phase = "approved"]
         /\ IF d = "cli" THEN Moves(d, [Reviewing(e) EXCEPT !.pc = "land"])
                         ELSE UNCHANGED proc
      \/ (Intact(e) \/ Rebound(e)) /\ cp' = row /\ Moves(d, Reviewing(e))
      \/ UNCHANGED <<cp, proc>>
  <2> HIDE DEF row
  <2> QED
    BY <1>1 DEF Resume, Landing, row
<1> QED
  BY <1>6, <1>7, <1>8, <1>9

(* Only cli commits, and its worktree stays within two commits. *)
LEMMA CommitEffect ==
  ASSUME Shapes, Roles, AheadOfBase, NEW d \in Drivers, Commit(d)
  PROVE  /\ d = "cli" /\ proc[d] \in Driving /\ Advances(d, "merge")
         /\ wt' \in [Executions -> Trees]
         /\ UNCHANGED <<cp, cycle, batch, backlog, main, execs, log>>
<1> DEFINE e == proc[d].exec
<1>1. /\ proc[d] \in Driving /\ proc[d].pc = "land" /\ e \in Executions /\ proc[d] # Idle
  BY AtWork DEF Commit, Stages
<1>2. d = "cli"
  BY <1>1 DEF Roles
<1>3. wt[e].ahead <= 1
  BY <1>1, <1>2 DEF AheadOfBase
<1>4. wt[e] \in Trees /\ wt[e].ahead + 1 \in 0 .. 2
  BY <1>1, <1>3 DEF Shapes, Trees
<1>5. [content |-> wt[e].content, commit |-> wt[e].content, ahead |-> wt[e].ahead + 1]
        \in Trees
  BY <1>4 DEF Trees
<1>6. wt' \in [Executions -> Trees]
  BY <1>1, <1>5 DEF Commit, Shapes
<1> QED
  BY <1>1, <1>2, <1>6, Advancing DEF Commit, Stages

(* The ancestor check: what is on the branch is not merged again. *)
LEMMA MergeEffect ==
  ASSUME Shapes, Roles, LandedOnce, NEW d \in Drivers, Merge(d)
  PROVE  /\ d = "cli" /\ proc[d] \in Driving /\ Advances(d, "ledger")
         /\ main' \in Seq(Candidates) /\ IsInjective(main')
         /\ Range(main) \subseteq Range(main')
         /\ \/ wt[proc[d].exec].commit = NoChange
            \/ <<proc[d].exec, wt[proc[d].exec].commit>> \in Range(main')
         /\ UNCHANGED <<wt, cp, cycle, batch, backlog, execs, log>>
<1> DEFINE e == proc[d].exec
           commit == <<e, wt[e].commit>>
<1>1. proc[d] \in Driving /\ proc[d].pc = "merge" /\ e \in Executions /\ proc[d] # Idle
  BY AtWork DEF Merge, Stages
<1>2. d = "cli"
  BY <1>1 DEF Roles
<1>3. commit \in Candidates /\ main \in Seq(Candidates) /\ IsInjective(main)
  BY <1>1 DEF Shapes, Trees, Candidates, Cs, LandedOnce
<1>4. commit[2] = wt[e].commit
  OBVIOUS
<1>5. main' = IF commit \in Range(main) \/ commit[2] = NoChange THEN main
              ELSE Append(main, commit)
  BY DEF Merge
<1>6. Advances(d, "ledger")
  BY <1>1, Advancing DEF Merge, Stages
<1> HIDE DEF commit
<1>7. CASE commit \in Range(main) \/ commit[2] = NoChange
  <2>1. main' = main
    BY <1>5, <1>7
  <2> QED
    BY <1>1, <1>2, <1>3, <1>4, <1>6, <1>7, <2>1 DEF Merge, commit
<1>8. CASE ~ (commit \in Range(main) \/ commit[2] = NoChange)
  <2>1. main' = Append(main, commit)
    BY <1>5, <1>8
  <2>2. /\ main' \in Seq(Candidates) /\ Len(main') = Len(main) + 1
        /\ main'[Len(main) + 1] = commit
        /\ \A i \in 1 .. Len(main) : main'[i] = main[i]
    BY <1>3, <2>1
  <2>3. /\ DOMAIN main = 1 .. Len(main) /\ DOMAIN main' = 1 .. (Len(main) + 1)
        /\ Len(main) \in Nat
    BY <1>3, <2>2
  <2>4. \A i \in 1 .. Len(main) : main[i] # commit
    BY <1>8, <2>3 DEF Range
  <2>5. IsInjective(main')
    <3>1. \A i, j \in 1 .. Len(main) : main[i] = main[j] => i = j
      BY <1>3, <2>3 DEF IsInjective
    <3>2. ASSUME NEW i \in 1 .. (Len(main) + 1), NEW j \in 1 .. (Len(main) + 1),
                 main'[i] = main'[j]
          PROVE  i = j
      BY <2>2, <2>3, <2>4, <3>1, <3>2
    <3> QED
      BY <2>3, <3>2 DEF IsInjective
  <2>6. Range(main) \subseteq Range(main') /\ commit \in Range(main')
    BY <2>2, <2>3 DEF Range
  <2> QED
    BY <1>1, <1>2, <1>6, <2>2, <2>5, <2>6 DEF Merge, commit
<1> QED
  BY <1>7, <1>8

(* complete_run accepts only the clean cycle of the execution that holds the claim. *)
LEMMA LedgerEffect ==
  ASSUME Shapes, Roles, NEW d \in Drivers, Ledger(d)
  PROVE  /\ proc[d] \in Driving /\ proc[d] # Idle /\ proc[d].pc = "ledger" /\ d # "poller"
         /\ \/ /\ backlog.status = "in_progress" /\ backlog.owner \in Executions
               /\ cycle[backlog.owner] = "clean" /\ backlog'.status = "completed"
               /\ backlog' \in [status : {"pending", "in_progress", "completed"},
                                owner : 0 .. MaxExecutions]
               /\ \E todo \in Seq(Phases) :
                    todo # <<>> /\ Writes(d, proc[d].exec, todo, "idle")
            \/ UNCHANGED backlog /\ Stops(d)
         /\ UNCHANGED <<wt, cp, cycle, batch, main, execs, log>>
<1> DEFINE e == IF d = "run" THEN proc[d].exec ELSE cp.id
           todo == (IF d = "run" THEN ApprovePhases ELSE <<>>) \o <<"integrated", "completed">>
<1>1. /\ proc[d] \in Driving /\ proc[d].pc = "ledger" /\ proc[d].exec \in Executions
      /\ proc[d] # Idle
  BY AtWork DEF Ledger, Stages
<1>2. d # "poller" /\ cp \in Rows
  BY <1>1 DEF Roles, Shapes
<1>3. e \in Executions
  BY <1>1, <1>2 DEF Rows
<1>4. todo \in Seq(Phases) /\ todo # <<>>
  BY PhaseLists
<1>5. CASE backlog = [status |-> "in_progress", owner |-> e] /\ cycle[e] = "clean"
  <2>1. /\ backlog' = [backlog EXCEPT !.status = "completed"]
        /\ FinishWith(d, todo, "idle")
    BY <1>5 DEF Ledger
  <2>2. /\ backlog.status = "in_progress" /\ backlog.owner = e
        /\ backlog'.status = "completed"
        /\ backlog' \in [status : {"pending", "in_progress", "completed"},
                         owner : 0 .. MaxExecutions]
    BY <1>5, <2>1 DEF Shapes
  <2> HIDE DEF todo
  <2>3. Writes(d, proc[d].exec, todo, "idle")
    BY <1>1, <1>4, <2>1, Writing
  <2> QED
    BY <1>1, <1>2, <1>3, <1>4, <1>5, <2>2, <2>3 DEF Ledger
<1>6. CASE ~ (backlog = [status |-> "in_progress", owner |-> e] /\ cycle[e] = "clean")
  <2>1. UNCHANGED backlog /\ Ends(d)
    BY <1>6 DEF Ledger
  <2> QED
    BY <1>1, <1>2, <2>1, Stopping DEF Ledger
<1> QED
  BY <1>5, <1>6

(* A person accepts the risk: the ledger first, then the phases. *)
LEMMA AcceptRiskEffect ==
  ASSUME Shapes, AcceptRisk
  PROVE  /\ proc["run"] = Idle /\ proc["cli"] = Idle /\ cp # NoCheckpoint
         /\ \E todo \in Seq(Phases) : todo # <<>> /\ Writes("cli", cp.exec, todo, "idle")
         /\ backlog'.status = "completed"
         /\ backlog' \in [status : {"pending", "in_progress", "completed"},
                          owner : 0 .. MaxExecutions]
         /\ log' \in [reviewed : SUBSET Candidates, operator : SUBSET Candidates,
                      override : BOOLEAN, applied : [Executions -> Nat]]
         /\ log'.reviewed = log.reviewed /\ log'.applied = log.applied /\ log'.override
         /\ UNCHANGED <<wt, cp, cycle, batch, main, execs>>
<1> DEFINE todo == <<"approved", "integrated", "completed">>
           r == [Reviewing(cp.exec) EXCEPT !.pc = "write", !.todo = todo]
<1>1. proc["run"] = Idle /\ proc["cli"] = Idle /\ cp # NoCheckpoint /\ "cli" \in Drivers
  BY AtRest DEF AcceptRisk, Drivers
<1>2. cp.exec \in Executions
  BY <1>1 DEF Shapes, Rows
<1>3. todo \in Seq(Phases) /\ todo # <<>>
  BY PhaseLists
<1>4. ASSUME NEW b \in Driving
      PROVE  LET q == [b EXCEPT !.pc = "write", !.todo = todo]
             IN  /\ q \in Driving /\ q.pc = "write" /\ q.exec = b.exec /\ q.todo = todo
                 /\ q.then = b.then
  <2> HIDE DEF todo
  <2> QED
    BY <1>3 DEF Driving, Stages
<1>5. /\ r \in Driving /\ r.pc = "write" /\ r.exec = cp.exec /\ r.todo = todo
      /\ r.then = "idle"
  <2>1. /\ Reviewing(cp.exec) \in Driving /\ Reviewing(cp.exec).exec = cp.exec
        /\ Reviewing(cp.exec).then = "idle"
    BY <1>2, ReviewingShape
  <2> HIDE DEF todo
  <2> QED
    BY <1>4, <2>1
<1>6. Moves("cli", r)
  BY DEF AcceptRisk
<1> HIDE DEF r, todo
<1>7. Writes("cli", cp.exec, todo, "idle")
  BY <1>1, <1>5, <1>6, Moving DEF Writes
<1>8. /\ backlog' = [backlog EXCEPT !.status = "completed"]
      /\ log' = [log EXCEPT !.override = TRUE]
  BY DEF AcceptRisk
<1> QED
  BY <1>1, <1>3, <1>7, <1>8 DEF AcceptRisk, Shapes

(* A claim is only taken back from a PRD in progress. *)
LEMMA ReleaseEffect ==
  ASSUME Shapes, Release
  PROVE  /\ backlog.status = "in_progress"
         /\ backlog' \in [status : {"pending", "in_progress", "completed"},
                          owner : 0 .. MaxExecutions]
         /\ UNCHANGED <<wt, cp, cycle, batch, main, proc, execs, log>>
         /\ backlog'.status = "pending"
  BY CheckpointAssumption DEF Release

(* The poller settles rows that are still submitted. *)
LEMMA PollRowEffect ==
  ASSUME Shapes, NEW e \in Executions, NEW credential \in BOOLEAN, NEW answer \in Answers,
         PollRow(e, credential, answer)
  PROVE  /\ Forward /\ UNCHANGED <<wt, cp, cycle, backlog, main, proc, execs, log>>
<1>1. UNCHANGED batch => Forward
  BY DEF Forward, Shapes
<1>2. UNCHANGED batch \/ \E to \in {"completed", "expired_fallback"} : Mark(e, "submitted", to)
  BY DEF PollRow
<1>3. Forward
  BY <1>1, <1>2, MarkEffect
<1> QED
  BY <1>3 DEF PollRow

(* Time passes. *)
LEMMA DeadlinePassesEffect ==
  ASSUME Shapes, NEW e \in Executions, DeadlinePasses(e)
  PROVE  /\ Forward /\ UNCHANGED <<wt, cp, cycle, backlog, main, proc, execs, log>>
  BY DEF DeadlinePasses, Forward, Shapes, Batches

(* An operator edits a worktree no one drives. *)
LEMMA OperatorEditsEffect ==
  ASSUME Shapes, NEW e \in Executions, NEW c \in Contents, OperatorEdits(e, c)
  PROVE  /\ ContentOnly
         /\ UNCHANGED <<cp, cycle, batch, backlog, main, proc, execs, log>>
  BY DEF OperatorEdits, ContentOnly, Shapes, Trees, Cs

(* An operator commits a worktree no one drives. *)
LEMMA OperatorCommitsEffect ==
  ASSUME Shapes, NEW e \in Executions, OperatorCommits(e)
  PROVE  /\ proc["cli"] = Idle /\ wt' \in [Executions -> Trees]
         /\ log' \in [reviewed : SUBSET Candidates, operator : SUBSET Candidates,
                      override : BOOLEAN, applied : [Executions -> Nat]]
         /\ log'.reviewed = log.reviewed /\ log'.applied = log.applied
         /\ UNCHANGED <<cp, cycle, batch, backlog, main, proc, execs>>
<1>1. proc["cli"] = Idle
  BY AtRest DEF OperatorCommits, Drivers
<1>2. wt[e] \in Trees /\ wt[e].ahead + 1 \in 0 .. 2 /\ wt[e].content \in Cs
  BY DEF OperatorCommits, Shapes, Trees
<1>3. [[wt[e] EXCEPT !.commit = wt[e].content] EXCEPT !.ahead = wt[e].ahead + 1] \in Trees
  BY <1>2 DEF Trees
<1>4. wt' \in [Executions -> Trees]
  BY <1>2, <1>3 DEF OperatorCommits, Shapes, Trees
<1>5. log.operator \cup {<<e, wt[e].content>>} \in SUBSET Candidates
  BY <1>2 DEF Shapes, Candidates, Cs
<1>6. log' = [log EXCEPT !.operator = log.operator \cup {<<e, wt[e].content>>}]
  BY DEF OperatorCommits
<1>7. /\ log' \in [reviewed : SUBSET Candidates, operator : SUBSET Candidates,
                   override : BOOLEAN, applied : [Executions -> Nat]]
      /\ log'.reviewed = log.reviewed /\ log'.applied = log.applied
  BY <1>5, <1>6 DEF Shapes
<1> QED
  BY <1>1, <1>4, <1>7 DEF OperatorCommits

-----------------------------------------------------------------------------
(* The invariant, part by part.                                            *)

(* Shapes are kept. *)
LEMMA ShapesStep == CheckpointInv /\ [Next]_vars => Shapes'
<1> SUFFICES ASSUME CheckpointInv, [Next]_vars PROVE Shapes'
  OBVIOUS
<1>a. Shapes /\ Roles /\ AheadOfBase /\ PhasesPromised /\ LandedOnce
  BY DEF CheckpointInv
<1>1. ASSUME Claim PROVE Shapes'
  BY <1>a, <1>1, ClaimEffect DEF Shapes, Only, Stops, Advances, Starts, Writes,
     ContentOnly, NoVerdict, Forward, RowKept, Judged
<1>2. ASSUME NEW c \in Cs, AgentFails(c) PROVE Shapes'
  BY <1>a, <1>2, AgentFailsEffect DEF Shapes, Only, Stops, Advances, Starts, Writes,
     ContentOnly, NoVerdict, Forward, RowKept, Judged
<1>3. ASSUME NEW c \in Cs, NEW over \in BOOLEAN, NEW incomplete \in BOOLEAN,
             Freeze(c, over, incomplete)
      PROVE  Shapes'
  BY <1>a, <1>3, FreezeEffect DEF Shapes, Only, Stops, Advances, Starts, Writes,
     ContentOnly, NoVerdict, Forward, RowKept, Judged
<1>4. ASSUME NEW d \in Drivers, Consult(d) PROVE Shapes'
  BY <1>a, <1>4, ConsultEffect DEF Shapes, Only, Stops, Advances, Starts, Writes,
     ContentOnly, NoVerdict, Forward, RowKept, Judged
<1>5. ASSUME NEW d \in Drivers, Submit(d) PROVE Shapes'
  BY <1>a, <1>5, SubmitEffect DEF Shapes, Only, Stops, Advances, Starts, Writes,
     ContentOnly, NoVerdict, Forward, RowKept, Judged
<1>6. ASSUME NEW d \in Drivers, Insert(d) PROVE Shapes'
  BY <1>a, <1>6, InsertEffect DEF Shapes, Only, Stops, Advances, Starts, Writes,
     ContentOnly, NoVerdict, Forward, RowKept, Judged
<1>7. ASSUME NEW d \in Drivers, NEW answer \in Answers, PollOrExpire(d, answer)
      PROVE  Shapes'
  BY <1>a, <1>7, PollOrExpireEffect DEF Shapes, Only, Stops, Advances, Starts, Writes,
     ContentOnly, NoVerdict, Forward, RowKept, Judged
<1>8. ASSUME NEW d \in Drivers, Reenter(d) PROVE Shapes'
  BY <1>a, <1>8, ReenterEffect DEF Shapes, Only, Stops, Advances, Starts, Writes,
     ContentOnly, NoVerdict, Forward, RowKept, Judged
<1>9. ASSUME NEW d \in Drivers, Consume(d) PROVE Shapes'
  BY <1>a, <1>9, ConsumeEffect DEF Shapes, Only, Stops, Advances, Starts, Writes,
     ContentOnly, NoVerdict, Forward, RowKept, Judged
<1>10. ASSUME NEW d \in Drivers, NEW outcome \in Outcomes, Apply(d, outcome) PROVE Shapes'
  BY <1>a, <1>10, ApplyEffect DEF Shapes, Only, Stops, Advances, Starts, Writes,
     ContentOnly, NoVerdict, Forward, RowKept, Judged
<1>11. ASSUME NEW d \in Drivers, NEW outcome \in Outcomes, NEW c \in Cs,
             Interactive(d, outcome, c)
      PROVE  Shapes'
  BY <1>a, <1>11, InteractiveEffect DEF Shapes, Only, Stops, Advances, Starts, Writes,
     ContentOnly, NoVerdict, Forward, RowKept, Judged
<1>12. ASSUME NEW d \in Drivers, NEW deferred \in BOOLEAN, Finish(d, deferred)
      PROVE  Shapes'
  BY <1>a, <1>12, FinishEffect DEF Shapes, Only, Stops, Advances, Starts, Writes,
     ContentOnly, NoVerdict, Forward, RowKept, Judged
<1>13. ASSUME NEW d \in Drivers, WritePhase(d) PROVE Shapes'
  BY <1>a, <1>13, WritePhaseEffect DEF Shapes, Only, Stops, Advances, Starts, Writes,
     ContentOnly, NoVerdict, Forward, RowKept, Judged
<1>14. ASSUME NEW d \in Drivers, Resume(d) PROVE Shapes'
  BY <1>a, <1>14, ResumeEffect DEF Shapes, Only, Stops, Advances, Starts, Writes,
     ContentOnly, NoVerdict, Forward, RowKept, Judged
<1>15. ASSUME NEW d \in Drivers, Commit(d) PROVE Shapes'
  BY <1>a, <1>15, CommitEffect DEF Shapes, Only, Stops, Advances, Starts, Writes,
     ContentOnly, NoVerdict, Forward, RowKept, Judged
<1>16. ASSUME NEW d \in Drivers, Merge(d) PROVE Shapes'
  BY <1>a, <1>16, MergeEffect DEF Shapes, Only, Stops, Advances, Starts, Writes,
     ContentOnly, NoVerdict, Forward, RowKept, Judged
<1>17. ASSUME NEW d \in Drivers, MergeConflicts(d) PROVE Shapes'
  BY <1>a, <1>17, Stopping DEF Shapes, Only, Stops, Advances, Starts, Writes, ContentOnly,
     NoVerdict, Forward, RowKept, Judged, MergeConflicts
<1>18. ASSUME NEW d \in Drivers, Ledger(d) PROVE Shapes'
  BY <1>a, <1>18, LedgerEffect DEF Shapes, Only, Stops, Advances, Starts, Writes,
     ContentOnly, NoVerdict, Forward, RowKept, Judged
<1>19. ASSUME NEW d \in Drivers, Crash(d) PROVE Shapes'
  BY <1>a, <1>19, Stopping DEF Shapes, Only, Stops, Advances, Starts, Writes, ContentOnly,
     NoVerdict, Forward, RowKept, Judged, Crash
<1>20. ASSUME PollList PROVE Shapes'
  BY <1>a, <1>20 DEF Shapes, Only, Stops, Advances, Starts, Writes, ContentOnly,
     NoVerdict, Forward, RowKept, Judged, PollList
<1>21. ASSUME NEW e \in Executions, NEW credential \in BOOLEAN,
              NEW answer \in Answers, PollRow(e, credential, answer)
      PROVE  Shapes'
  BY <1>a, <1>21, PollRowEffect DEF Shapes, Only, Stops, Advances, Starts, Writes,
     ContentOnly, NoVerdict, Forward, RowKept, Judged
<1>22. ASSUME NEW e \in Executions, DeadlinePasses(e) PROVE Shapes'
  BY <1>a, <1>22, DeadlinePassesEffect DEF Shapes, Only, Stops, Advances, Starts, Writes,
     ContentOnly, NoVerdict, Forward, RowKept, Judged
<1>23. ASSUME AcceptRisk PROVE Shapes'
  BY <1>a, <1>23, AcceptRiskEffect DEF Shapes, Only, Stops, Advances, Starts, Writes,
     ContentOnly, NoVerdict, Forward, RowKept, Judged
<1>24. ASSUME Release PROVE Shapes'
  BY <1>a, <1>24, ReleaseEffect DEF Shapes, Only, Stops, Advances, Starts, Writes,
     ContentOnly, NoVerdict, Forward, RowKept, Judged
<1>25. ASSUME NEW e \in Executions, NEW c \in Contents, OperatorEdits(e, c) PROVE Shapes'
  BY <1>a, <1>25, OperatorEditsEffect DEF Shapes, Only, Stops, Advances, Starts, Writes,
     ContentOnly, NoVerdict, Forward, RowKept, Judged
<1>26. ASSUME NEW e \in Executions, OperatorCommits(e) PROVE Shapes'
  BY <1>a, <1>26, OperatorCommitsEffect DEF Shapes, Only, Stops, Advances, Starts, Writes,
     ContentOnly, NoVerdict, Forward, RowKept, Judged
<1>27. ASSUME DaemonRestarts PROVE Shapes'
  BY <1>a, <1>27 DEF Shapes, Only, Stops, Advances, Starts, Writes, ContentOnly,
     NoVerdict, Forward, RowKept, Judged, DaemonRestarts
<1>28. ASSUME UNCHANGED vars PROVE Shapes'
  BY <1>a, <1>28 DEF Shapes, Only, Stops, Advances, Starts, Writes, ContentOnly,
     NoVerdict, Forward, RowKept, Judged, vars
<1>29. ASSUME NEW d \in Drivers, Decide(d)
      PROVE  Shapes'
  BY <1>a, <1>29, DecideEffect DEF Shapes, Only, Stops, Advances, Starts, Writes,
     ContentOnly, NoVerdict, Forward, RowKept, Judged
<1>30. ASSUME NEW d \in Drivers, Rebind(d)
      PROVE  Shapes'
  BY <1>a, <1>30, RebindEffect DEF Shapes, Only, Stops, Advances, Starts, Writes,
     ContentOnly, NoVerdict, Forward, RowKept, Judged
<1> QED
  BY <1>1, <1>2, <1>3, <1>4, <1>5, <1>6, <1>7, <1>8, <1>9, <1>10, <1>11, <1>12,
     <1>13, <1>14, <1>15, <1>16, <1>17, <1>18, <1>19, <1>20, <1>21, <1>22,
     <1>23, <1>24, <1>25, <1>26, <1>27, <1>28, <1>29, <1>30
     DEF Next, Drive, Poll, Cs

(* Every driver keeps to its role. *)
LEMMA RolesStep == CheckpointInv /\ [Next]_vars => Roles'
<1> SUFFICES ASSUME CheckpointInv, [Next]_vars PROVE Roles'
  OBVIOUS
<1>a. Shapes /\ Roles /\ AheadOfBase /\ PhasesPromised /\ LandedOnce
  BY DEF CheckpointInv
<1>1. ASSUME Claim PROVE Roles'
  BY <1>a, <1>1, ClaimEffect, Distinctions, LandingKind DEF Roles, Shapes, Drivers, Only,
     Stops, Advances, Starts, Writes, RowKept
<1>2. ASSUME NEW c \in Cs, AgentFails(c) PROVE Roles'
  BY <1>a, <1>2, AgentFailsEffect, Distinctions, LandingKind DEF Roles, Shapes, Drivers,
     Only, Stops, Advances, Starts, Writes, RowKept
<1>3. ASSUME NEW c \in Cs, NEW over \in BOOLEAN, NEW incomplete \in BOOLEAN,
             Freeze(c, over, incomplete)
      PROVE  Roles'
  BY <1>a, <1>3, FreezeEffect, Distinctions, LandingKind DEF Roles, Shapes, Drivers, Only,
     Stops, Advances, Starts, Writes, RowKept
<1>4. ASSUME NEW d \in Drivers, Consult(d) PROVE Roles'
  BY <1>a, <1>4, ConsultEffect, Distinctions, LandingKind DEF Roles, Shapes, Drivers,
     Only, Stops, Advances, Starts, Writes, RowKept
<1>5. ASSUME NEW d \in Drivers, Submit(d) PROVE Roles'
  BY <1>a, <1>5, SubmitEffect, Distinctions, LandingKind DEF Roles, Shapes, Drivers, Only,
     Stops, Advances, Starts, Writes, RowKept
<1>6. ASSUME NEW d \in Drivers, Insert(d) PROVE Roles'
  BY <1>a, <1>6, InsertEffect, Distinctions, LandingKind DEF Roles, Shapes, Drivers, Only,
     Stops, Advances, Starts, Writes, RowKept
<1>7. ASSUME NEW d \in Drivers, NEW answer \in Answers, PollOrExpire(d, answer)
      PROVE  Roles'
  BY <1>a, <1>7, PollOrExpireEffect, Distinctions, LandingKind DEF Roles, Shapes, Drivers,
     Only, Stops, Advances, Starts, Writes, RowKept
<1>8. ASSUME NEW d \in Drivers, Reenter(d) PROVE Roles'
  BY <1>a, <1>8, ReenterEffect, Distinctions, LandingKind DEF Roles, Shapes, Drivers,
     Only, Stops, Advances, Starts, Writes, RowKept
<1>9. ASSUME NEW d \in Drivers, Consume(d) PROVE Roles'
  BY <1>a, <1>9, ConsumeEffect, Distinctions, LandingKind DEF Roles, Shapes, Drivers,
     Only, Stops, Advances, Starts, Writes, RowKept
<1>10. ASSUME NEW d \in Drivers, NEW outcome \in Outcomes, Apply(d, outcome) PROVE Roles'
  BY <1>a, <1>10, ApplyEffect, Distinctions, LandingKind DEF Roles, Shapes, Drivers, Only,
     Stops, Advances, Starts, Writes, RowKept
<1>11. ASSUME NEW d \in Drivers, NEW outcome \in Outcomes, NEW c \in Cs,
             Interactive(d, outcome, c)
      PROVE  Roles'
  BY <1>a, <1>11, InteractiveEffect, Distinctions, LandingKind DEF Roles, Shapes, Drivers,
     Only, Stops, Advances, Starts, Writes, RowKept
<1>12. ASSUME NEW d \in Drivers, NEW deferred \in BOOLEAN, Finish(d, deferred)
      PROVE  Roles'
  BY <1>a, <1>12, FinishEffect, Distinctions, LandingKind DEF Roles, Shapes, Drivers,
     Only, Stops, Advances, Starts, Writes, RowKept
<1>13. ASSUME NEW d \in Drivers, WritePhase(d) PROVE Roles'
  BY <1>a, <1>13, WritePhaseEffect, Distinctions, LandingKind DEF Roles, Shapes, Drivers,
     Only, Stops, Advances, Starts, Writes, RowKept
<1>14. ASSUME NEW d \in Drivers, Resume(d) PROVE Roles'
  BY <1>a, <1>14, ResumeEffect, Distinctions, LandingKind DEF Roles, Shapes, Drivers,
     Only, Stops, Advances, Starts, Writes, RowKept
<1>15. ASSUME NEW d \in Drivers, Commit(d) PROVE Roles'
  BY <1>a, <1>15, CommitEffect, Distinctions, LandingKind DEF Roles, Shapes, Drivers,
     Only, Stops, Advances, Starts, Writes, RowKept
<1>16. ASSUME NEW d \in Drivers, Merge(d) PROVE Roles'
  BY <1>a, <1>16, MergeEffect, Distinctions, LandingKind DEF Roles, Shapes, Drivers, Only,
     Stops, Advances, Starts, Writes, RowKept
<1>17. ASSUME NEW d \in Drivers, MergeConflicts(d) PROVE Roles'
  BY <1>a, <1>17, Stopping, Distinctions, LandingKind DEF Roles, Shapes, Drivers, Only,
     Stops, Advances, Starts, Writes, RowKept, MergeConflicts
<1>18. ASSUME NEW d \in Drivers, Ledger(d) PROVE Roles'
  BY <1>a, <1>18, LedgerEffect, Distinctions, LandingKind DEF Roles, Shapes, Drivers,
     Only, Stops, Advances, Starts, Writes, RowKept
<1>19. ASSUME NEW d \in Drivers, Crash(d) PROVE Roles'
  BY <1>a, <1>19, Stopping, Distinctions, LandingKind DEF Roles, Shapes, Drivers, Only,
     Stops, Advances, Starts, Writes, RowKept, Crash
<1>20. ASSUME PollList PROVE Roles'
  BY <1>a, <1>20, Distinctions, LandingKind DEF Roles, Shapes, Drivers, Only, Stops,
     Advances, Starts, Writes, RowKept, PollList
<1>21. ASSUME NEW e \in Executions, NEW credential \in BOOLEAN,
              NEW answer \in Answers, PollRow(e, credential, answer)
      PROVE  Roles'
  BY <1>a, <1>21, PollRowEffect, Distinctions, LandingKind DEF Roles, Shapes, Drivers,
     Only, Stops, Advances, Starts, Writes, RowKept
<1>22. ASSUME NEW e \in Executions, DeadlinePasses(e) PROVE Roles'
  BY <1>a, <1>22, DeadlinePassesEffect, Distinctions, LandingKind DEF Roles, Shapes,
     Drivers, Only, Stops, Advances, Starts, Writes, RowKept
<1>23. ASSUME AcceptRisk PROVE Roles'
  BY <1>a, <1>23, AcceptRiskEffect, Distinctions, LandingKind DEF Roles, Shapes, Drivers,
     Only, Stops, Advances, Starts, Writes, RowKept
<1>24. ASSUME Release PROVE Roles'
  BY <1>a, <1>24, ReleaseEffect, Distinctions, LandingKind DEF Roles, Shapes, Drivers,
     Only, Stops, Advances, Starts, Writes, RowKept
<1>25. ASSUME NEW e \in Executions, NEW c \in Contents, OperatorEdits(e, c) PROVE Roles'
  BY <1>a, <1>25, OperatorEditsEffect, Distinctions, LandingKind DEF Roles, Shapes,
     Drivers, Only, Stops, Advances, Starts, Writes, RowKept
<1>26. ASSUME NEW e \in Executions, OperatorCommits(e) PROVE Roles'
  BY <1>a, <1>26, OperatorCommitsEffect, Distinctions, LandingKind DEF Roles, Shapes,
     Drivers, Only, Stops, Advances, Starts, Writes, RowKept
<1>27. ASSUME DaemonRestarts PROVE Roles'
  BY <1>a, <1>27, Distinctions, LandingKind DEF Roles, Shapes, Drivers, Only, Stops,
     Advances, Starts, Writes, RowKept, DaemonRestarts
<1>28. ASSUME UNCHANGED vars PROVE Roles'
  BY <1>a, <1>28, Distinctions, LandingKind DEF Roles, Shapes, Drivers, Only, Stops,
     Advances, Starts, Writes, RowKept, vars
<1>29. ASSUME NEW d \in Drivers, Decide(d)
      PROVE  Roles'
  BY <1>a, <1>29, DecideEffect, Distinctions, LandingKind DEF Roles, Shapes, Drivers,
     Only, Stops, Advances, Starts, Writes, RowKept
<1>30. ASSUME NEW d \in Drivers, Rebind(d)
      PROVE  Roles'
  BY <1>a, <1>30, RebindEffect, Distinctions, LandingKind DEF Roles, Shapes, Drivers,
     Only, Stops, Advances, Starts, Writes, RowKept
<1> QED
  BY <1>1, <1>2, <1>3, <1>4, <1>5, <1>6, <1>7, <1>8, <1>9, <1>10, <1>11, <1>12,
     <1>13, <1>14, <1>15, <1>16, <1>17, <1>18, <1>19, <1>20, <1>21, <1>22,
     <1>23, <1>24, <1>25, <1>26, <1>27, <1>28, <1>29, <1>30
     DEF Next, Drive, Poll, Cs

(* No driver promises an integration the ledger does not have. *)
LEMMA PromisedStep == CheckpointInv /\ [Next]_vars => PhasesPromised'
<1> SUFFICES ASSUME CheckpointInv, [Next]_vars PROVE PhasesPromised'
  OBVIOUS
<1>a. Shapes /\ Roles /\ AheadOfBase /\ PhasesPromised /\ LandedOnce
  BY DEF CheckpointInv
<1>1. ASSUME Claim PROVE PhasesPromised'
  BY <1>a, <1>1, ClaimEffect, Distinctions, SubPhases, EmptyTodo DEF PhasesPromised, Only,
     Stops, Advances, Starts, Writes
<1>2. ASSUME NEW c \in Cs, AgentFails(c) PROVE PhasesPromised'
  BY <1>a, <1>2, AgentFailsEffect, Distinctions, SubPhases, EmptyTodo DEF PhasesPromised,
     Only, Stops, Advances, Starts, Writes
<1>3. ASSUME NEW c \in Cs, NEW over \in BOOLEAN, NEW incomplete \in BOOLEAN,
             Freeze(c, over, incomplete)
      PROVE  PhasesPromised'
  BY <1>a, <1>3, FreezeEffect, Distinctions, SubPhases, EmptyTodo DEF PhasesPromised,
     Only, Stops, Advances, Starts, Writes
<1>4. ASSUME NEW d \in Drivers, Consult(d) PROVE PhasesPromised'
  BY <1>a, <1>4, ConsultEffect, Distinctions, SubPhases, EmptyTodo DEF PhasesPromised,
     Only, Stops, Advances, Starts, Writes
<1>5. ASSUME NEW d \in Drivers, Submit(d) PROVE PhasesPromised'
  BY <1>a, <1>5, SubmitEffect, Distinctions, SubPhases, EmptyTodo DEF PhasesPromised,
     Only, Stops, Advances, Starts, Writes
<1>6. ASSUME NEW d \in Drivers, Insert(d) PROVE PhasesPromised'
  BY <1>a, <1>6, InsertEffect, Distinctions, SubPhases, EmptyTodo DEF PhasesPromised,
     Only, Stops, Advances, Starts, Writes
<1>7. ASSUME NEW d \in Drivers, NEW answer \in Answers, PollOrExpire(d, answer)
      PROVE  PhasesPromised'
  BY <1>a, <1>7, PollOrExpireEffect, Distinctions, SubPhases, EmptyTodo DEF
     PhasesPromised, Only, Stops, Advances, Starts, Writes
<1>8. ASSUME NEW d \in Drivers, Reenter(d) PROVE PhasesPromised'
  BY <1>a, <1>8, ReenterEffect, Distinctions, SubPhases, EmptyTodo DEF PhasesPromised,
     Only, Stops, Advances, Starts, Writes
<1>9. ASSUME NEW d \in Drivers, Consume(d) PROVE PhasesPromised'
  BY <1>a, <1>9, ConsumeEffect, Distinctions, SubPhases, EmptyTodo DEF PhasesPromised,
     Only, Stops, Advances, Starts, Writes
<1>10. ASSUME NEW d \in Drivers, NEW outcome \in Outcomes, Apply(d, outcome)
      PROVE  PhasesPromised'
  BY <1>a, <1>10, ApplyEffect, Distinctions, SubPhases, EmptyTodo DEF PhasesPromised,
     Only, Stops, Advances, Starts, Writes
<1>11. ASSUME NEW d \in Drivers, NEW outcome \in Outcomes, NEW c \in Cs,
             Interactive(d, outcome, c)
      PROVE  PhasesPromised'
  BY <1>a, <1>11, InteractiveEffect, Distinctions, SubPhases, EmptyTodo DEF
     PhasesPromised, Only, Stops, Advances, Starts, Writes
<1>12. ASSUME NEW d \in Drivers, NEW deferred \in BOOLEAN, Finish(d, deferred)
      PROVE  PhasesPromised'
  BY <1>a, <1>12, FinishEffect, Distinctions, SubPhases, EmptyTodo DEF PhasesPromised,
     Only, Stops, Advances, Starts, Writes
<1>13. ASSUME NEW d \in Drivers, WritePhase(d) PROVE PhasesPromised'
  <2>1. /\ Only(d) /\ UNCHANGED backlog /\ proc[d] # Idle
        /\ proc[d].todo \in Seq(Phases) /\ proc[d].todo # <<>>
        /\ \/ proc'[d] = Idle
           \/ proc'[d].pc = "land" /\ proc'[d].todo = <<>>
           \/ proc'[d].todo = Tail(proc[d].todo) /\ proc'[d].todo # <<>>
    BY <1>a, <1>13, WritePhaseEffect DEF Stops, Starts, Writes
  <2>2. proc[d].todo \in Seq(Phases \ Landed) => Tail(proc[d].todo) \in Seq(Phases \ Landed)
    BY <2>1, Shorter
  <2>3. proc[d].todo \in Seq(Phases \ Landed) \/ backlog.status = "completed"
    BY <1>a, <2>1 DEF PhasesPromised
  <2>4. proc'[d] # Idle =>
          /\ proc'[d].todo \in Seq(Phases \ Landed) \/ backlog'.status = "completed"
          /\ proc'[d].pc = "write" => proc'[d].todo # <<>>
    BY <2>1, <2>2, <2>3, EmptyTodo
  <2> QED
    BY <1>a, <2>1, <2>4 DEF PhasesPromised, Only
<1>14. ASSUME NEW d \in Drivers, Resume(d) PROVE PhasesPromised'
  <2>1. /\ backlog' = backlog /\ proc[d] = Idle
        /\ \/ proc' = proc
           \/ Only(d) /\ proc'[d].pc # "write" /\ proc'[d].todo = <<>>
    BY <1>a, <1>14, ResumeEffect DEF Starts
  <2>2. CASE proc' = proc
    BY <1>a, <2>1, <2>2 DEF PhasesPromised
  <2>3. CASE Only(d) /\ proc'[d].pc # "write" /\ proc'[d].todo = <<>>
    <3>1. \A x \in Drivers : x # d => proc'[x] = proc[x]
      BY <2>3 DEF Only
    <3> QED
      BY <1>a, <2>1, <2>3, <3>1, EmptyTodo DEF PhasesPromised
  <2> QED
    BY <2>1, <2>2, <2>3
<1>15. ASSUME NEW d \in Drivers, Commit(d) PROVE PhasesPromised'
  BY <1>a, <1>15, CommitEffect, Distinctions, SubPhases, EmptyTodo DEF PhasesPromised,
     Only, Stops, Advances, Starts, Writes
<1>16. ASSUME NEW d \in Drivers, Merge(d) PROVE PhasesPromised'
  BY <1>a, <1>16, MergeEffect, Distinctions, SubPhases, EmptyTodo DEF PhasesPromised,
     Only, Stops, Advances, Starts, Writes
<1>17. ASSUME NEW d \in Drivers, MergeConflicts(d) PROVE PhasesPromised'
  BY <1>a, <1>17, Stopping, Distinctions, SubPhases, EmptyTodo DEF PhasesPromised, Only,
     Stops, Advances, Starts, Writes, MergeConflicts
<1>18. ASSUME NEW d \in Drivers, Ledger(d) PROVE PhasesPromised'
  BY <1>a, <1>18, LedgerEffect, Distinctions, SubPhases, EmptyTodo DEF PhasesPromised,
     Only, Stops, Advances, Starts, Writes
<1>19. ASSUME NEW d \in Drivers, Crash(d) PROVE PhasesPromised'
  BY <1>a, <1>19, Stopping, Distinctions, SubPhases, EmptyTodo DEF PhasesPromised, Only,
     Stops, Advances, Starts, Writes, Crash
<1>20. ASSUME PollList PROVE PhasesPromised'
  BY <1>a, <1>20, Distinctions, SubPhases, EmptyTodo DEF PhasesPromised, Only, Stops,
     Advances, Starts, Writes, PollList
<1>21. ASSUME NEW e \in Executions, NEW credential \in BOOLEAN,
              NEW answer \in Answers, PollRow(e, credential, answer)
      PROVE  PhasesPromised'
  BY <1>a, <1>21, PollRowEffect, Distinctions, SubPhases, EmptyTodo DEF PhasesPromised,
     Only, Stops, Advances, Starts, Writes
<1>22. ASSUME NEW e \in Executions, DeadlinePasses(e) PROVE PhasesPromised'
  BY <1>a, <1>22, DeadlinePassesEffect, Distinctions, SubPhases, EmptyTodo DEF
     PhasesPromised, Only, Stops, Advances, Starts, Writes
<1>23. ASSUME AcceptRisk PROVE PhasesPromised'
  BY <1>a, <1>23, AcceptRiskEffect, Distinctions, SubPhases, EmptyTodo DEF PhasesPromised,
     Only, Stops, Advances, Starts, Writes
<1>24. ASSUME Release PROVE PhasesPromised'
  BY <1>a, <1>24, ReleaseEffect, Distinctions, SubPhases, EmptyTodo DEF PhasesPromised,
     Only, Stops, Advances, Starts, Writes
<1>25. ASSUME NEW e \in Executions, NEW c \in Contents, OperatorEdits(e, c)
      PROVE  PhasesPromised'
  BY <1>a, <1>25, OperatorEditsEffect, Distinctions, SubPhases, EmptyTodo DEF
     PhasesPromised, Only, Stops, Advances, Starts, Writes
<1>26. ASSUME NEW e \in Executions, OperatorCommits(e) PROVE PhasesPromised'
  BY <1>a, <1>26, OperatorCommitsEffect, Distinctions, SubPhases, EmptyTodo DEF
     PhasesPromised, Only, Stops, Advances, Starts, Writes
<1>27. ASSUME DaemonRestarts PROVE PhasesPromised'
  BY <1>a, <1>27, Distinctions, SubPhases, EmptyTodo DEF PhasesPromised, Only, Stops,
     Advances, Starts, Writes, DaemonRestarts
<1>28. ASSUME UNCHANGED vars PROVE PhasesPromised'
  BY <1>a, <1>28, Distinctions, SubPhases, EmptyTodo DEF PhasesPromised, Only, Stops,
     Advances, Starts, Writes, vars
<1>29. ASSUME NEW d \in Drivers, Decide(d)
      PROVE  PhasesPromised'
  BY <1>a, <1>29, DecideEffect, Distinctions, SubPhases, EmptyTodo DEF
     PhasesPromised, Only, Stops, Advances, Starts, Writes
<1>30. ASSUME NEW d \in Drivers, Rebind(d)
      PROVE  PhasesPromised'
  BY <1>a, <1>30, RebindEffect, Distinctions, SubPhases, EmptyTodo DEF PhasesPromised,
     Only, Stops, Advances, Starts, Writes
<1> QED
  BY <1>1, <1>2, <1>3, <1>4, <1>5, <1>6, <1>7, <1>8, <1>9, <1>10, <1>11, <1>12,
     <1>13, <1>14, <1>15, <1>16, <1>17, <1>18, <1>19, <1>20, <1>21, <1>22,
     <1>23, <1>24, <1>25, <1>26, <1>27, <1>28, <1>29, <1>30
     DEF Next, Drive, Poll, Cs

(* mark_applied is final. *)
LEMMA AppliedStep == CheckpointInv /\ [Next]_vars => AppliedAtMostOnce'
<1> SUFFICES ASSUME CheckpointInv, [Next]_vars PROVE AppliedAtMostOnce'
  OBVIOUS
<1>a. Shapes /\ Roles /\ AheadOfBase /\ PhasesPromised /\ LandedOnce /\ AppliedAtMostOnce
  BY DEF CheckpointInv
<1>1. ASSUME Claim PROVE AppliedAtMostOnce'
  BY <1>a, <1>1, ClaimEffect DEF AppliedAtMostOnce, Shapes, Forward
<1>2. ASSUME NEW c \in Cs, AgentFails(c) PROVE AppliedAtMostOnce'
  BY <1>a, <1>2, AgentFailsEffect DEF AppliedAtMostOnce, Shapes, Forward
<1>3. ASSUME NEW c \in Cs, NEW over \in BOOLEAN, NEW incomplete \in BOOLEAN,
             Freeze(c, over, incomplete)
      PROVE  AppliedAtMostOnce'
  BY <1>a, <1>3, FreezeEffect DEF AppliedAtMostOnce, Shapes, Forward
<1>4. ASSUME NEW d \in Drivers, Consult(d) PROVE AppliedAtMostOnce'
  BY <1>a, <1>4, ConsultEffect DEF AppliedAtMostOnce, Shapes, Forward
<1>5. ASSUME NEW d \in Drivers, Submit(d) PROVE AppliedAtMostOnce'
  BY <1>a, <1>5, SubmitEffect DEF AppliedAtMostOnce, Shapes, Forward
<1>6. ASSUME NEW d \in Drivers, Insert(d) PROVE AppliedAtMostOnce'
  BY <1>a, <1>6, InsertEffect DEF AppliedAtMostOnce, Shapes, Forward
<1>7. ASSUME NEW d \in Drivers, NEW answer \in Answers, PollOrExpire(d, answer)
      PROVE  AppliedAtMostOnce'
  BY <1>a, <1>7, PollOrExpireEffect DEF AppliedAtMostOnce, Shapes, Forward
<1>8. ASSUME NEW d \in Drivers, Reenter(d) PROVE AppliedAtMostOnce'
  BY <1>a, <1>8, ReenterEffect DEF AppliedAtMostOnce, Shapes, Forward
<1>9. ASSUME NEW d \in Drivers, Consume(d) PROVE AppliedAtMostOnce'
  BY <1>a, <1>9, ConsumeEffect DEF AppliedAtMostOnce, Shapes, Forward
<1>10. ASSUME NEW d \in Drivers, NEW outcome \in Outcomes, Apply(d, outcome)
      PROVE  AppliedAtMostOnce'
  <2> SUFFICES ASSUME NEW x \in Executions
               PROVE  /\ log'.applied[x] \in {0, 1}
                      /\ batch'[x].state \in {"none", "submitted", "completed"} =>
                           log'.applied[x] = 0
    BY DEF AppliedAtMostOnce
  <2>1. \/ log'.applied[x] = log.applied[x] /\ batch'[x].state = batch[x].state
        \/ /\ batch[x].state = "completed" /\ batch'[x].state = "applied"
           /\ log'.applied[x] = log.applied[x] + 1
    BY <1>a, <1>10, ApplyEffect
  <2> QED
    BY <1>a, <2>1 DEF AppliedAtMostOnce
<1>11. ASSUME NEW d \in Drivers, NEW outcome \in Outcomes, NEW c \in Cs,
             Interactive(d, outcome, c)
      PROVE  AppliedAtMostOnce'
  BY <1>a, <1>11, InteractiveEffect DEF AppliedAtMostOnce, Shapes, Forward
<1>12. ASSUME NEW d \in Drivers, NEW deferred \in BOOLEAN, Finish(d, deferred)
      PROVE  AppliedAtMostOnce'
  BY <1>a, <1>12, FinishEffect DEF AppliedAtMostOnce, Shapes, Forward
<1>13. ASSUME NEW d \in Drivers, WritePhase(d) PROVE AppliedAtMostOnce'
  BY <1>a, <1>13, WritePhaseEffect DEF AppliedAtMostOnce, Shapes, Forward
<1>14. ASSUME NEW d \in Drivers, Resume(d) PROVE AppliedAtMostOnce'
  BY <1>a, <1>14, ResumeEffect DEF AppliedAtMostOnce, Shapes, Forward
<1>15. ASSUME NEW d \in Drivers, Commit(d) PROVE AppliedAtMostOnce'
  BY <1>a, <1>15, CommitEffect DEF AppliedAtMostOnce, Shapes, Forward
<1>16. ASSUME NEW d \in Drivers, Merge(d) PROVE AppliedAtMostOnce'
  BY <1>a, <1>16, MergeEffect DEF AppliedAtMostOnce, Shapes, Forward
<1>17. ASSUME NEW d \in Drivers, MergeConflicts(d) PROVE AppliedAtMostOnce'
  BY <1>a, <1>17, Stopping DEF AppliedAtMostOnce, Shapes, Forward, MergeConflicts
<1>18. ASSUME NEW d \in Drivers, Ledger(d) PROVE AppliedAtMostOnce'
  BY <1>a, <1>18, LedgerEffect DEF AppliedAtMostOnce, Shapes, Forward
<1>19. ASSUME NEW d \in Drivers, Crash(d) PROVE AppliedAtMostOnce'
  BY <1>a, <1>19, Stopping DEF AppliedAtMostOnce, Shapes, Forward, Crash
<1>20. ASSUME PollList PROVE AppliedAtMostOnce'
  BY <1>a, <1>20 DEF AppliedAtMostOnce, Shapes, Forward, PollList
<1>21. ASSUME NEW e \in Executions, NEW credential \in BOOLEAN,
              NEW answer \in Answers, PollRow(e, credential, answer)
      PROVE  AppliedAtMostOnce'
  BY <1>a, <1>21, PollRowEffect DEF AppliedAtMostOnce, Shapes, Forward
<1>22. ASSUME NEW e \in Executions, DeadlinePasses(e) PROVE AppliedAtMostOnce'
  BY <1>a, <1>22, DeadlinePassesEffect DEF AppliedAtMostOnce, Shapes, Forward
<1>23. ASSUME AcceptRisk PROVE AppliedAtMostOnce'
  BY <1>a, <1>23, AcceptRiskEffect DEF AppliedAtMostOnce, Shapes, Forward
<1>24. ASSUME Release PROVE AppliedAtMostOnce'
  BY <1>a, <1>24, ReleaseEffect DEF AppliedAtMostOnce, Shapes, Forward
<1>25. ASSUME NEW e \in Executions, NEW c \in Contents, OperatorEdits(e, c)
      PROVE  AppliedAtMostOnce'
  BY <1>a, <1>25, OperatorEditsEffect DEF AppliedAtMostOnce, Shapes, Forward
<1>26. ASSUME NEW e \in Executions, OperatorCommits(e) PROVE AppliedAtMostOnce'
  BY <1>a, <1>26, OperatorCommitsEffect DEF AppliedAtMostOnce, Shapes, Forward
<1>27. ASSUME DaemonRestarts PROVE AppliedAtMostOnce'
  BY <1>a, <1>27 DEF AppliedAtMostOnce, Shapes, Forward, DaemonRestarts
<1>28. ASSUME UNCHANGED vars PROVE AppliedAtMostOnce'
  BY <1>a, <1>28 DEF AppliedAtMostOnce, Shapes, Forward, vars
<1>29. ASSUME NEW d \in Drivers, Decide(d)
      PROVE  AppliedAtMostOnce'
  BY <1>a, <1>29, DecideEffect DEF AppliedAtMostOnce, Shapes, Forward
<1>30. ASSUME NEW d \in Drivers, Rebind(d)
      PROVE  AppliedAtMostOnce'
  BY <1>a, <1>30, RebindEffect DEF AppliedAtMostOnce, Shapes, Forward
<1> QED
  BY <1>1, <1>2, <1>3, <1>4, <1>5, <1>6, <1>7, <1>8, <1>9, <1>10, <1>11, <1>12,
     <1>13, <1>14, <1>15, <1>16, <1>17, <1>18, <1>19, <1>20, <1>21, <1>22,
     <1>23, <1>24, <1>25, <1>26, <1>27, <1>28, <1>29, <1>30
     DEF Next, Drive, Poll, Cs

(* The branch gets a commit once. *)
LEMMA LandedStep == CheckpointInv /\ [Next]_vars => LandedOnce'
<1> SUFFICES ASSUME CheckpointInv, [Next]_vars PROVE LandedOnce'
  OBVIOUS
<1>a. Shapes /\ Roles /\ AheadOfBase /\ PhasesPromised /\ LandedOnce
  BY DEF CheckpointInv
<1>1. ASSUME Claim PROVE LandedOnce'
  BY <1>a, <1>1, ClaimEffect DEF LandedOnce
<1>2. ASSUME NEW c \in Cs, AgentFails(c) PROVE LandedOnce'
  BY <1>a, <1>2, AgentFailsEffect DEF LandedOnce
<1>3. ASSUME NEW c \in Cs, NEW over \in BOOLEAN, NEW incomplete \in BOOLEAN,
             Freeze(c, over, incomplete)
      PROVE  LandedOnce'
  BY <1>a, <1>3, FreezeEffect DEF LandedOnce
<1>4. ASSUME NEW d \in Drivers, Consult(d) PROVE LandedOnce'
  BY <1>a, <1>4, ConsultEffect DEF LandedOnce
<1>5. ASSUME NEW d \in Drivers, Submit(d) PROVE LandedOnce'
  BY <1>a, <1>5, SubmitEffect DEF LandedOnce
<1>6. ASSUME NEW d \in Drivers, Insert(d) PROVE LandedOnce'
  BY <1>a, <1>6, InsertEffect DEF LandedOnce
<1>7. ASSUME NEW d \in Drivers, NEW answer \in Answers, PollOrExpire(d, answer)
      PROVE  LandedOnce'
  BY <1>a, <1>7, PollOrExpireEffect DEF LandedOnce
<1>8. ASSUME NEW d \in Drivers, Reenter(d) PROVE LandedOnce'
  BY <1>a, <1>8, ReenterEffect DEF LandedOnce
<1>9. ASSUME NEW d \in Drivers, Consume(d) PROVE LandedOnce'
  BY <1>a, <1>9, ConsumeEffect DEF LandedOnce
<1>10. ASSUME NEW d \in Drivers, NEW outcome \in Outcomes, Apply(d, outcome)
      PROVE  LandedOnce'
  BY <1>a, <1>10, ApplyEffect DEF LandedOnce
<1>11. ASSUME NEW d \in Drivers, NEW outcome \in Outcomes, NEW c \in Cs,
             Interactive(d, outcome, c)
      PROVE  LandedOnce'
  BY <1>a, <1>11, InteractiveEffect DEF LandedOnce
<1>12. ASSUME NEW d \in Drivers, NEW deferred \in BOOLEAN, Finish(d, deferred)
      PROVE  LandedOnce'
  BY <1>a, <1>12, FinishEffect DEF LandedOnce
<1>13. ASSUME NEW d \in Drivers, WritePhase(d) PROVE LandedOnce'
  BY <1>a, <1>13, WritePhaseEffect DEF LandedOnce
<1>14. ASSUME NEW d \in Drivers, Resume(d) PROVE LandedOnce'
  BY <1>a, <1>14, ResumeEffect DEF LandedOnce
<1>15. ASSUME NEW d \in Drivers, Commit(d) PROVE LandedOnce'
  BY <1>a, <1>15, CommitEffect DEF LandedOnce
<1>16. ASSUME NEW d \in Drivers, Merge(d) PROVE LandedOnce'
  BY <1>a, <1>16, MergeEffect DEF LandedOnce
<1>17. ASSUME NEW d \in Drivers, MergeConflicts(d) PROVE LandedOnce'
  BY <1>a, <1>17, Stopping DEF LandedOnce, MergeConflicts
<1>18. ASSUME NEW d \in Drivers, Ledger(d) PROVE LandedOnce'
  BY <1>a, <1>18, LedgerEffect DEF LandedOnce
<1>19. ASSUME NEW d \in Drivers, Crash(d) PROVE LandedOnce'
  BY <1>a, <1>19, Stopping DEF LandedOnce, Crash
<1>20. ASSUME PollList PROVE LandedOnce'
  BY <1>a, <1>20 DEF LandedOnce, PollList
<1>21. ASSUME NEW e \in Executions, NEW credential \in BOOLEAN,
              NEW answer \in Answers, PollRow(e, credential, answer)
      PROVE  LandedOnce'
  BY <1>a, <1>21, PollRowEffect DEF LandedOnce
<1>22. ASSUME NEW e \in Executions, DeadlinePasses(e) PROVE LandedOnce'
  BY <1>a, <1>22, DeadlinePassesEffect DEF LandedOnce
<1>23. ASSUME AcceptRisk PROVE LandedOnce'
  BY <1>a, <1>23, AcceptRiskEffect DEF LandedOnce
<1>24. ASSUME Release PROVE LandedOnce'
  BY <1>a, <1>24, ReleaseEffect DEF LandedOnce
<1>25. ASSUME NEW e \in Executions, NEW c \in Contents, OperatorEdits(e, c)
      PROVE  LandedOnce'
  BY <1>a, <1>25, OperatorEditsEffect DEF LandedOnce
<1>26. ASSUME NEW e \in Executions, OperatorCommits(e) PROVE LandedOnce'
  BY <1>a, <1>26, OperatorCommitsEffect DEF LandedOnce
<1>27. ASSUME DaemonRestarts PROVE LandedOnce'
  BY <1>a, <1>27 DEF LandedOnce, DaemonRestarts
<1>28. ASSUME UNCHANGED vars PROVE LandedOnce'
  BY <1>a, <1>28 DEF LandedOnce, vars
<1>29. ASSUME NEW d \in Drivers, Decide(d)
      PROVE  LandedOnce'
  BY <1>a, <1>29, DecideEffect DEF LandedOnce
<1>30. ASSUME NEW d \in Drivers, Rebind(d)
      PROVE  LandedOnce'
  BY <1>a, <1>30, RebindEffect DEF LandedOnce
<1> QED
  BY <1>1, <1>2, <1>3, <1>4, <1>5, <1>6, <1>7, <1>8, <1>9, <1>10, <1>11, <1>12,
     <1>13, <1>14, <1>15, <1>16, <1>17, <1>18, <1>19, <1>20, <1>21, <1>22,
     <1>23, <1>24, <1>25, <1>26, <1>27, <1>28, <1>29, <1>30
     DEF Next, Drive, Poll, Cs

(* The row follows the ledger. *)
LEMMA PhaseStep == CheckpointInv /\ [Next]_vars => PhaseFollowsLedger'
<1> SUFFICES ASSUME CheckpointInv, [Next]_vars PROVE PhaseFollowsLedger'
  OBVIOUS
<1>a. Shapes /\ Roles /\ AheadOfBase /\ PhasesPromised /\ LandedOnce /\ PhaseFollowsLedger
  BY DEF CheckpointInv
<1>1. ASSUME Claim PROVE PhaseFollowsLedger'
  BY <1>a, <1>1, ClaimEffect, Distinctions DEF PhaseFollowsLedger, PhasesPromised,
     RowKept, Landed, Rows, Shapes
<1>2. ASSUME NEW c \in Cs, AgentFails(c) PROVE PhaseFollowsLedger'
  BY <1>a, <1>2, AgentFailsEffect, Distinctions DEF PhaseFollowsLedger, PhasesPromised,
     RowKept, Landed, Rows, Shapes
<1>3. ASSUME NEW c \in Cs, NEW over \in BOOLEAN, NEW incomplete \in BOOLEAN,
             Freeze(c, over, incomplete)
      PROVE  PhaseFollowsLedger'
  BY <1>a, <1>3, FreezeEffect, Distinctions DEF PhaseFollowsLedger, PhasesPromised,
     RowKept, Landed, Rows, Shapes
<1>4. ASSUME NEW d \in Drivers, Consult(d) PROVE PhaseFollowsLedger'
  BY <1>a, <1>4, ConsultEffect, Distinctions DEF PhaseFollowsLedger, PhasesPromised,
     RowKept, Landed, Rows, Shapes
<1>5. ASSUME NEW d \in Drivers, Submit(d) PROVE PhaseFollowsLedger'
  BY <1>a, <1>5, SubmitEffect, Distinctions DEF PhaseFollowsLedger, PhasesPromised,
     RowKept, Landed, Rows, Shapes
<1>6. ASSUME NEW d \in Drivers, Insert(d) PROVE PhaseFollowsLedger'
  BY <1>a, <1>6, InsertEffect, Distinctions DEF PhaseFollowsLedger, PhasesPromised,
     RowKept, Landed, Rows, Shapes
<1>7. ASSUME NEW d \in Drivers, NEW answer \in Answers, PollOrExpire(d, answer)
      PROVE  PhaseFollowsLedger'
  BY <1>a, <1>7, PollOrExpireEffect, Distinctions DEF PhaseFollowsLedger, PhasesPromised,
     RowKept, Landed, Rows, Shapes
<1>8. ASSUME NEW d \in Drivers, Reenter(d) PROVE PhaseFollowsLedger'
  BY <1>a, <1>8, ReenterEffect, Distinctions DEF PhaseFollowsLedger, PhasesPromised,
     RowKept, Landed, Rows, Shapes
<1>9. ASSUME NEW d \in Drivers, Consume(d) PROVE PhaseFollowsLedger'
  BY <1>a, <1>9, ConsumeEffect, Distinctions DEF PhaseFollowsLedger, PhasesPromised,
     RowKept, Landed, Rows, Shapes
<1>10. ASSUME NEW d \in Drivers, NEW outcome \in Outcomes, Apply(d, outcome)
      PROVE  PhaseFollowsLedger'
  BY <1>a, <1>10, ApplyEffect, Distinctions DEF PhaseFollowsLedger, PhasesPromised,
     RowKept, Landed, Rows, Shapes
<1>11. ASSUME NEW d \in Drivers, NEW outcome \in Outcomes, NEW c \in Cs,
             Interactive(d, outcome, c)
      PROVE  PhaseFollowsLedger'
  BY <1>a, <1>11, InteractiveEffect, Distinctions DEF PhaseFollowsLedger, PhasesPromised,
     RowKept, Landed, Rows, Shapes
<1>12. ASSUME NEW d \in Drivers, NEW deferred \in BOOLEAN, Finish(d, deferred)
      PROVE  PhaseFollowsLedger'
  <2>1. RowKept /\ UNCHANGED backlog
    BY <1>a, <1>12, FinishEffect
  <2>2. cp # NoCheckpoint
    <3>1. proc[d] \in Driving /\ proc[d].pc = "finish"
      BY <1>a, <1>12, FinishEffect
    <3> QED
      BY <1>a, <3>1, Distinctions DEF Roles
  <2> QED
    BY <1>a, <2>1, <2>2 DEF PhaseFollowsLedger, RowKept, Landed
<1>13. ASSUME NEW d \in Drivers, WritePhase(d) PROVE PhaseFollowsLedger'
  <2>1. /\ proc[d] # Idle /\ cp'.phase = Head(proc[d].todo) /\ UNCHANGED backlog
        /\ proc[d].todo # <<>>
    BY <1>a, <1>13, WritePhaseEffect
  <2>2. proc[d].todo \in Seq(Phases \ Landed) => Head(proc[d].todo) \notin Landed
    BY <2>1, Shorter
  <2> QED
    BY <1>a, <2>1, <2>2 DEF PhaseFollowsLedger, PhasesPromised, Landed
<1>14. ASSUME NEW d \in Drivers, Resume(d) PROVE PhaseFollowsLedger'
  BY <1>a, <1>14, ResumeEffect, Distinctions DEF PhaseFollowsLedger, PhasesPromised,
     RowKept, Landed, Rows, Shapes
<1>15. ASSUME NEW d \in Drivers, Commit(d) PROVE PhaseFollowsLedger'
  BY <1>a, <1>15, CommitEffect, Distinctions DEF PhaseFollowsLedger, PhasesPromised,
     RowKept, Landed, Rows, Shapes
<1>16. ASSUME NEW d \in Drivers, Merge(d) PROVE PhaseFollowsLedger'
  <2>1. UNCHANGED <<cp, backlog>>
    BY <1>a, <1>16, MergeEffect
  <2> QED
    BY <1>a, <2>1 DEF PhaseFollowsLedger
<1>17. ASSUME NEW d \in Drivers, MergeConflicts(d) PROVE PhaseFollowsLedger'
  BY <1>a, <1>17, Stopping, Distinctions DEF PhaseFollowsLedger, PhasesPromised, RowKept,
     Landed, Rows, Shapes, MergeConflicts
<1>18. ASSUME NEW d \in Drivers, Ledger(d) PROVE PhaseFollowsLedger'
  BY <1>a, <1>18, LedgerEffect, Distinctions DEF PhaseFollowsLedger, PhasesPromised,
     RowKept, Landed, Rows, Shapes
<1>19. ASSUME NEW d \in Drivers, Crash(d) PROVE PhaseFollowsLedger'
  BY <1>a, <1>19, Stopping, Distinctions DEF PhaseFollowsLedger, PhasesPromised, RowKept,
     Landed, Rows, Shapes, Crash
<1>20. ASSUME PollList PROVE PhaseFollowsLedger'
  BY <1>a, <1>20, Distinctions DEF PhaseFollowsLedger, PhasesPromised, RowKept, Landed,
     Rows, Shapes, PollList
<1>21. ASSUME NEW e \in Executions, NEW credential \in BOOLEAN,
              NEW answer \in Answers, PollRow(e, credential, answer)
      PROVE  PhaseFollowsLedger'
  BY <1>a, <1>21, PollRowEffect, Distinctions DEF PhaseFollowsLedger, PhasesPromised,
     RowKept, Landed, Rows, Shapes
<1>22. ASSUME NEW e \in Executions, DeadlinePasses(e) PROVE PhaseFollowsLedger'
  BY <1>a, <1>22, DeadlinePassesEffect, Distinctions DEF PhaseFollowsLedger,
     PhasesPromised, RowKept, Landed, Rows, Shapes
<1>23. ASSUME AcceptRisk PROVE PhaseFollowsLedger'
  BY <1>a, <1>23, AcceptRiskEffect, Distinctions DEF PhaseFollowsLedger, PhasesPromised,
     RowKept, Landed, Rows, Shapes
<1>24. ASSUME Release PROVE PhaseFollowsLedger'
  BY <1>a, <1>24, ReleaseEffect, Distinctions DEF PhaseFollowsLedger, PhasesPromised,
     RowKept, Landed, Rows, Shapes
<1>25. ASSUME NEW e \in Executions, NEW c \in Contents, OperatorEdits(e, c)
      PROVE  PhaseFollowsLedger'
  BY <1>a, <1>25, OperatorEditsEffect, Distinctions DEF PhaseFollowsLedger,
     PhasesPromised, RowKept, Landed, Rows, Shapes
<1>26. ASSUME NEW e \in Executions, OperatorCommits(e) PROVE PhaseFollowsLedger'
  BY <1>a, <1>26, OperatorCommitsEffect, Distinctions DEF PhaseFollowsLedger,
     PhasesPromised, RowKept, Landed, Rows, Shapes
<1>27. ASSUME DaemonRestarts PROVE PhaseFollowsLedger'
  BY <1>a, <1>27, Distinctions DEF PhaseFollowsLedger, PhasesPromised, RowKept, Landed,
     Rows, Shapes, DaemonRestarts
<1>28. ASSUME UNCHANGED vars PROVE PhaseFollowsLedger'
  BY <1>a, <1>28, Distinctions DEF PhaseFollowsLedger, PhasesPromised, RowKept, Landed,
     Rows, Shapes, vars
<1>29. ASSUME NEW d \in Drivers, Decide(d)
      PROVE  PhaseFollowsLedger'
  BY <1>a, <1>29, DecideEffect, Distinctions DEF PhaseFollowsLedger, PhasesPromised,
     RowKept, Landed, Rows, Shapes
<1>30. ASSUME NEW d \in Drivers, Rebind(d)
      PROVE  PhaseFollowsLedger'
  <2>1. RowKept /\ UNCHANGED backlog
    BY <1>a, <1>30, RebindEffect
  <2>2. cp # NoCheckpoint
    <3>1. proc[d] \in Driving /\ proc[d].pc = "finish"
      BY <1>a, <1>30, RebindEffect
    <3> QED
      BY <1>a, <3>1, Distinctions DEF Roles
  <2> QED
    BY <1>a, <2>1, <2>2 DEF PhaseFollowsLedger, RowKept, Landed
<1> QED
  BY <1>1, <1>2, <1>3, <1>4, <1>5, <1>6, <1>7, <1>8, <1>9, <1>10, <1>11, <1>12,
     <1>13, <1>14, <1>15, <1>16, <1>17, <1>18, <1>19, <1>20, <1>21, <1>22,
     <1>23, <1>24, <1>25, <1>26, <1>27, <1>28, <1>29, <1>30
     DEF Next, Drive, Poll, Cs

(* A verdict of clean has a candidate behind it. *)
LEMMA CleanStep == CheckpointInv /\ [Next]_vars => CleanWasReviewed'
<1> SUFFICES ASSUME CheckpointInv, [Next]_vars PROVE CleanWasReviewed'
  OBVIOUS
<1>a. Shapes /\ Roles /\ AheadOfBase /\ PhasesPromised /\ LandedOnce /\ CleanWasReviewed
  BY DEF CheckpointInv
<1>1. ASSUME Claim PROVE CleanWasReviewed'
  BY <1>a, <1>1, ClaimEffect DEF CleanWasReviewed, NoVerdict, Judged
<1>2. ASSUME NEW c \in Cs, AgentFails(c) PROVE CleanWasReviewed'
  BY <1>a, <1>2, AgentFailsEffect DEF CleanWasReviewed, NoVerdict, Judged
<1>3. ASSUME NEW c \in Cs, NEW over \in BOOLEAN, NEW incomplete \in BOOLEAN,
             Freeze(c, over, incomplete)
      PROVE  CleanWasReviewed'
  BY <1>a, <1>3, FreezeEffect DEF CleanWasReviewed, NoVerdict, Judged
<1>4. ASSUME NEW d \in Drivers, Consult(d) PROVE CleanWasReviewed'
  BY <1>a, <1>4, ConsultEffect DEF CleanWasReviewed, NoVerdict, Judged
<1>5. ASSUME NEW d \in Drivers, Submit(d) PROVE CleanWasReviewed'
  BY <1>a, <1>5, SubmitEffect DEF CleanWasReviewed, NoVerdict, Judged
<1>6. ASSUME NEW d \in Drivers, Insert(d) PROVE CleanWasReviewed'
  BY <1>a, <1>6, InsertEffect DEF CleanWasReviewed, NoVerdict, Judged
<1>7. ASSUME NEW d \in Drivers, NEW answer \in Answers, PollOrExpire(d, answer)
      PROVE  CleanWasReviewed'
  BY <1>a, <1>7, PollOrExpireEffect DEF CleanWasReviewed, NoVerdict, Judged
<1>8. ASSUME NEW d \in Drivers, Reenter(d) PROVE CleanWasReviewed'
  BY <1>a, <1>8, ReenterEffect DEF CleanWasReviewed, NoVerdict, Judged
<1>9. ASSUME NEW d \in Drivers, Consume(d) PROVE CleanWasReviewed'
  BY <1>a, <1>9, ConsumeEffect DEF CleanWasReviewed, NoVerdict, Judged
<1>10. ASSUME NEW d \in Drivers, NEW outcome \in Outcomes, Apply(d, outcome)
      PROVE  CleanWasReviewed'
  BY <1>a, <1>10, ApplyEffect DEF CleanWasReviewed, NoVerdict, Judged
<1>11. ASSUME NEW d \in Drivers, NEW outcome \in Outcomes, NEW c \in Cs,
             Interactive(d, outcome, c)
      PROVE  CleanWasReviewed'
  BY <1>a, <1>11, InteractiveEffect DEF CleanWasReviewed, NoVerdict, Judged
<1>12. ASSUME NEW d \in Drivers, NEW deferred \in BOOLEAN, Finish(d, deferred)
      PROVE  CleanWasReviewed'
  BY <1>a, <1>12, FinishEffect DEF CleanWasReviewed, NoVerdict, Judged
<1>13. ASSUME NEW d \in Drivers, WritePhase(d) PROVE CleanWasReviewed'
  BY <1>a, <1>13, WritePhaseEffect DEF CleanWasReviewed, NoVerdict, Judged
<1>14. ASSUME NEW d \in Drivers, Resume(d) PROVE CleanWasReviewed'
  BY <1>a, <1>14, ResumeEffect DEF CleanWasReviewed, NoVerdict, Judged
<1>15. ASSUME NEW d \in Drivers, Commit(d) PROVE CleanWasReviewed'
  BY <1>a, <1>15, CommitEffect DEF CleanWasReviewed, NoVerdict, Judged
<1>16. ASSUME NEW d \in Drivers, Merge(d) PROVE CleanWasReviewed'
  BY <1>a, <1>16, MergeEffect DEF CleanWasReviewed, NoVerdict, Judged
<1>17. ASSUME NEW d \in Drivers, MergeConflicts(d) PROVE CleanWasReviewed'
  BY <1>a, <1>17, Stopping DEF CleanWasReviewed, NoVerdict, Judged, MergeConflicts
<1>18. ASSUME NEW d \in Drivers, Ledger(d) PROVE CleanWasReviewed'
  BY <1>a, <1>18, LedgerEffect DEF CleanWasReviewed, NoVerdict, Judged
<1>19. ASSUME NEW d \in Drivers, Crash(d) PROVE CleanWasReviewed'
  BY <1>a, <1>19, Stopping DEF CleanWasReviewed, NoVerdict, Judged, Crash
<1>20. ASSUME PollList PROVE CleanWasReviewed'
  BY <1>a, <1>20 DEF CleanWasReviewed, NoVerdict, Judged, PollList
<1>21. ASSUME NEW e \in Executions, NEW credential \in BOOLEAN,
              NEW answer \in Answers, PollRow(e, credential, answer)
      PROVE  CleanWasReviewed'
  BY <1>a, <1>21, PollRowEffect DEF CleanWasReviewed, NoVerdict, Judged
<1>22. ASSUME NEW e \in Executions, DeadlinePasses(e) PROVE CleanWasReviewed'
  BY <1>a, <1>22, DeadlinePassesEffect DEF CleanWasReviewed, NoVerdict, Judged
<1>23. ASSUME AcceptRisk PROVE CleanWasReviewed'
  BY <1>a, <1>23, AcceptRiskEffect DEF CleanWasReviewed, NoVerdict, Judged
<1>24. ASSUME Release PROVE CleanWasReviewed'
  BY <1>a, <1>24, ReleaseEffect DEF CleanWasReviewed, NoVerdict, Judged
<1>25. ASSUME NEW e \in Executions, NEW c \in Contents, OperatorEdits(e, c)
      PROVE  CleanWasReviewed'
  BY <1>a, <1>25, OperatorEditsEffect DEF CleanWasReviewed, NoVerdict, Judged
<1>26. ASSUME NEW e \in Executions, OperatorCommits(e) PROVE CleanWasReviewed'
  BY <1>a, <1>26, OperatorCommitsEffect DEF CleanWasReviewed, NoVerdict, Judged
<1>27. ASSUME DaemonRestarts PROVE CleanWasReviewed'
  BY <1>a, <1>27 DEF CleanWasReviewed, NoVerdict, Judged, DaemonRestarts
<1>28. ASSUME UNCHANGED vars PROVE CleanWasReviewed'
  BY <1>a, <1>28 DEF CleanWasReviewed, NoVerdict, Judged, vars
<1>29. ASSUME NEW d \in Drivers, Decide(d)
      PROVE  CleanWasReviewed'
  BY <1>a, <1>29, DecideEffect DEF CleanWasReviewed, NoVerdict, Judged
<1>30. ASSUME NEW d \in Drivers, Rebind(d)
      PROVE  CleanWasReviewed'
  BY <1>a, <1>30, RebindEffect DEF CleanWasReviewed, NoVerdict, Judged
<1> QED
  BY <1>1, <1>2, <1>3, <1>4, <1>5, <1>6, <1>7, <1>8, <1>9, <1>10, <1>11, <1>12,
     <1>13, <1>14, <1>15, <1>16, <1>17, <1>18, <1>19, <1>20, <1>21, <1>22,
     <1>23, <1>24, <1>25, <1>26, <1>27, <1>28, <1>29, <1>30
     DEF Next, Drive, Poll, Cs

(* When the commit stays on the branch: no driver enters the ledger stage  *)
(* for cli and no commit moves.                                            *)
LEMMA BranchFrame ==
  ASSUME Shapes, CommitOnBranch, UNCHANGED main,
         proc'["cli"] # Idle /\ proc'["cli"].pc = "ledger" => proc'["cli"] = proc["cli"],
         \A x \in Executions : wt'[x].commit = wt[x].commit
  PROVE  CommitOnBranch'
<1> SUFFICES ASSUME proc'["cli"] # Idle, proc'["cli"].pc = "ledger"
             PROVE  LET commit == wt'[proc'["cli"].exec].commit
                    IN  commit = NoChange \/ <<proc'["cli"].exec, commit>> \in Range(main')
  BY DEF CommitOnBranch
<1>1. proc'["cli"] = proc["cli"] /\ proc["cli"] \in Driving
  BY DEF Shapes, Drivers
<1>2. proc["cli"].exec \in Executions
  BY <1>1 DEF Driving
<1>3. wt'[proc["cli"].exec].commit = wt[proc["cli"].exec].commit
  BY <1>2
<1> QED
  BY <1>1, <1>3 DEF CommitOnBranch

(* Between the merge and the ledger nothing moves the commit. *)
LEMMA BranchStep == CheckpointInv /\ [Next]_vars => CommitOnBranch'
<1> SUFFICES ASSUME CheckpointInv, [Next]_vars PROVE CommitOnBranch'
  OBVIOUS
<1>a. Shapes /\ Roles /\ AheadOfBase /\ PhasesPromised /\ LandedOnce /\ CommitOnBranch
  BY DEF CheckpointInv
<1>1. ASSUME Claim PROVE CommitOnBranch'
  BY <1>a, <1>1, ClaimEffect, Distinctions DEF CommitOnBranch, Roles, Drivers, Only,
     Stops, Advances, Starts, Writes, ContentOnly, Shapes, Driving
<1>2. ASSUME NEW c \in Cs, AgentFails(c) PROVE CommitOnBranch'
  <2>1. UNCHANGED main /\ \A x \in Executions : wt'[x].commit = wt[x].commit
    BY <1>a, <1>2, AgentFailsEffect DEF ContentOnly
  <2>2. proc'["cli"] # Idle /\ proc'["cli"].pc = "ledger" => proc'["cli"] = proc["cli"]
    BY <1>a, <1>2, AgentFailsEffect DEF Only, Stops, Advances, Drivers
  <2> QED
    BY <1>a, <2>1, <2>2, BranchFrame
<1>3. ASSUME NEW c \in Cs, NEW over \in BOOLEAN, NEW incomplete \in BOOLEAN,
             Freeze(c, over, incomplete)
      PROVE  CommitOnBranch'
  BY <1>a, <1>3, FreezeEffect, Distinctions DEF CommitOnBranch, Roles, Drivers, Only,
     Stops, Advances, Starts, Writes, ContentOnly, Shapes, Driving
<1>4. ASSUME NEW d \in Drivers, Consult(d) PROVE CommitOnBranch'
  BY <1>a, <1>4, ConsultEffect, Distinctions DEF CommitOnBranch, Roles, Drivers, Only,
     Stops, Advances, Starts, Writes, ContentOnly, Shapes, Driving
<1>5. ASSUME NEW d \in Drivers, Submit(d) PROVE CommitOnBranch'
  BY <1>a, <1>5, SubmitEffect, Distinctions DEF CommitOnBranch, Roles, Drivers, Only,
     Stops, Advances, Starts, Writes, ContentOnly, Shapes, Driving
<1>6. ASSUME NEW d \in Drivers, Insert(d) PROVE CommitOnBranch'
  BY <1>a, <1>6, InsertEffect, Distinctions DEF CommitOnBranch, Roles, Drivers, Only,
     Stops, Advances, Starts, Writes, ContentOnly, Shapes, Driving
<1>7. ASSUME NEW d \in Drivers, NEW answer \in Answers, PollOrExpire(d, answer)
      PROVE  CommitOnBranch'
  BY <1>a, <1>7, PollOrExpireEffect, Distinctions DEF CommitOnBranch, Roles, Drivers,
     Only, Stops, Advances, Starts, Writes, ContentOnly, Shapes, Driving
<1>8. ASSUME NEW d \in Drivers, Reenter(d) PROVE CommitOnBranch'
  BY <1>a, <1>8, ReenterEffect, Distinctions DEF CommitOnBranch, Roles, Drivers, Only,
     Stops, Advances, Starts, Writes, ContentOnly, Shapes, Driving
<1>9. ASSUME NEW d \in Drivers, Consume(d) PROVE CommitOnBranch'
  BY <1>a, <1>9, ConsumeEffect, Distinctions DEF CommitOnBranch, Roles, Drivers, Only,
     Stops, Advances, Starts, Writes, ContentOnly, Shapes, Driving
<1>10. ASSUME NEW d \in Drivers, NEW outcome \in Outcomes, Apply(d, outcome)
      PROVE  CommitOnBranch'
  BY <1>a, <1>10, ApplyEffect, Distinctions DEF CommitOnBranch, Roles, Drivers, Only,
     Stops, Advances, Starts, Writes, ContentOnly, Shapes, Driving
<1>11. ASSUME NEW d \in Drivers, NEW outcome \in Outcomes, NEW c \in Cs,
             Interactive(d, outcome, c)
      PROVE  CommitOnBranch'
  <2>1. UNCHANGED main /\ \A x \in Executions : wt'[x].commit = wt[x].commit
    BY <1>a, <1>11, InteractiveEffect DEF ContentOnly
  <2>2. proc'["cli"] # Idle /\ proc'["cli"].pc = "ledger" => proc'["cli"] = proc["cli"]
    BY <1>a, <1>11, InteractiveEffect DEF Only, Stops, Advances, Drivers
  <2> QED
    BY <1>a, <2>1, <2>2, BranchFrame
<1>12. ASSUME NEW d \in Drivers, NEW deferred \in BOOLEAN, Finish(d, deferred)
      PROVE  CommitOnBranch'
  BY <1>a, <1>12, FinishEffect, Distinctions DEF CommitOnBranch, Roles, Drivers, Only,
     Stops, Advances, Starts, Writes, ContentOnly, Shapes, Driving
<1>13. ASSUME NEW d \in Drivers, WritePhase(d) PROVE CommitOnBranch'
  BY <1>a, <1>13, WritePhaseEffect, Distinctions DEF CommitOnBranch, Roles, Drivers, Only,
     Stops, Advances, Starts, Writes, ContentOnly, Shapes, Driving
<1>14. ASSUME NEW d \in Drivers, Resume(d) PROVE CommitOnBranch'
  BY <1>a, <1>14, ResumeEffect, Distinctions DEF CommitOnBranch, Roles, Drivers, Only,
     Stops, Advances, Starts, Writes, ContentOnly, Shapes, Driving
<1>15. ASSUME NEW d \in Drivers, Commit(d) PROVE CommitOnBranch'
  BY <1>a, <1>15, CommitEffect, Distinctions DEF CommitOnBranch, Roles, Drivers, Only,
     Stops, Advances, Starts, Writes, ContentOnly, Shapes, Driving
<1>16. ASSUME NEW d \in Drivers, Merge(d) PROVE CommitOnBranch'
  BY <1>a, <1>16, MergeEffect, Distinctions DEF CommitOnBranch, Roles, Drivers, Only,
     Stops, Advances, Starts, Writes, ContentOnly, Shapes, Driving
<1>17. ASSUME NEW d \in Drivers, MergeConflicts(d) PROVE CommitOnBranch'
  BY <1>a, <1>17, Stopping, Distinctions DEF CommitOnBranch, Roles, Drivers, Only, Stops,
     Advances, Starts, Writes, ContentOnly, Shapes, Driving, MergeConflicts
<1>18. ASSUME NEW d \in Drivers, Ledger(d) PROVE CommitOnBranch'
  BY <1>a, <1>18, LedgerEffect, Distinctions DEF CommitOnBranch, Roles, Drivers, Only,
     Stops, Advances, Starts, Writes, ContentOnly, Shapes, Driving
<1>19. ASSUME NEW d \in Drivers, Crash(d) PROVE CommitOnBranch'
  BY <1>a, <1>19, Stopping, Distinctions DEF CommitOnBranch, Roles, Drivers, Only, Stops,
     Advances, Starts, Writes, ContentOnly, Shapes, Driving, Crash
<1>20. ASSUME PollList PROVE CommitOnBranch'
  BY <1>a, <1>20, Distinctions DEF CommitOnBranch, Roles, Drivers, Only, Stops, Advances,
     Starts, Writes, ContentOnly, Shapes, Driving, PollList
<1>21. ASSUME NEW e \in Executions, NEW credential \in BOOLEAN,
              NEW answer \in Answers, PollRow(e, credential, answer)
      PROVE  CommitOnBranch'
  <2>1. UNCHANGED main /\ \A x \in Executions : wt'[x].commit = wt[x].commit
    BY <1>a, <1>21, PollRowEffect DEF ContentOnly
  <2>2. proc'["cli"] # Idle /\ proc'["cli"].pc = "ledger" => proc'["cli"] = proc["cli"]
    BY <1>a, <1>21, PollRowEffect DEF Only, Stops, Advances, Drivers
  <2> QED
    BY <1>a, <2>1, <2>2, BranchFrame
<1>22. ASSUME NEW e \in Executions, DeadlinePasses(e) PROVE CommitOnBranch'
  BY <1>a, <1>22, DeadlinePassesEffect, Distinctions DEF CommitOnBranch, Roles, Drivers,
     Only, Stops, Advances, Starts, Writes, ContentOnly, Shapes, Driving
<1>23. ASSUME AcceptRisk PROVE CommitOnBranch'
  BY <1>a, <1>23, AcceptRiskEffect, Distinctions DEF CommitOnBranch, Roles, Drivers, Only,
     Stops, Advances, Starts, Writes, ContentOnly, Shapes, Driving
<1>24. ASSUME Release PROVE CommitOnBranch'
  BY <1>a, <1>24, ReleaseEffect, Distinctions DEF CommitOnBranch, Roles, Drivers, Only,
     Stops, Advances, Starts, Writes, ContentOnly, Shapes, Driving
<1>25. ASSUME NEW e \in Executions, NEW c \in Contents, OperatorEdits(e, c)
      PROVE  CommitOnBranch'
  <2>1. UNCHANGED main /\ \A x \in Executions : wt'[x].commit = wt[x].commit
    BY <1>a, <1>25, OperatorEditsEffect DEF ContentOnly
  <2>2. proc'["cli"] # Idle /\ proc'["cli"].pc = "ledger" => proc'["cli"] = proc["cli"]
    BY <1>a, <1>25, OperatorEditsEffect DEF Only, Stops, Advances, Drivers
  <2> QED
    BY <1>a, <2>1, <2>2, BranchFrame
<1>26. ASSUME NEW e \in Executions, OperatorCommits(e) PROVE CommitOnBranch'
  BY <1>a, <1>26, OperatorCommitsEffect, Distinctions DEF CommitOnBranch, Roles, Drivers,
     Only, Stops, Advances, Starts, Writes, ContentOnly, Shapes, Driving
<1>27. ASSUME DaemonRestarts PROVE CommitOnBranch'
  BY <1>a, <1>27, Distinctions DEF CommitOnBranch, Roles, Drivers, Only, Stops, Advances,
     Starts, Writes, ContentOnly, Shapes, Driving, DaemonRestarts
<1>28. ASSUME UNCHANGED vars PROVE CommitOnBranch'
  BY <1>a, <1>28, Distinctions DEF CommitOnBranch, Roles, Drivers, Only, Stops, Advances,
     Starts, Writes, ContentOnly, Shapes, Driving, vars
<1>29. ASSUME NEW d \in Drivers, Decide(d)
      PROVE  CommitOnBranch'
  <2>1. UNCHANGED main /\ \A x \in Executions : wt'[x].commit = wt[x].commit
    BY <1>a, <1>29, DecideEffect DEF ContentOnly
  <2>2. proc'["cli"] # Idle /\ proc'["cli"].pc = "ledger" => proc'["cli"] = proc["cli"]
    BY <1>a, <1>29, DecideEffect DEF Only, Stops, Advances, Drivers
  <2> QED
    BY <1>a, <2>1, <2>2, BranchFrame
<1>30. ASSUME NEW d \in Drivers, Rebind(d)
      PROVE  CommitOnBranch'
  BY <1>a, <1>30, RebindEffect, Distinctions DEF CommitOnBranch, Roles, Drivers, Only,
     Stops, Advances, Starts, Writes, ContentOnly, Shapes, Driving
<1> QED
  BY <1>1, <1>2, <1>3, <1>4, <1>5, <1>6, <1>7, <1>8, <1>9, <1>10, <1>11, <1>12,
     <1>13, <1>14, <1>15, <1>16, <1>17, <1>18, <1>19, <1>20, <1>21, <1>22,
     <1>23, <1>24, <1>25, <1>26, <1>27, <1>28, <1>29, <1>30
     DEF Next, Drive, Poll, Cs

(* A landing is prepared from within one commit. *)
LEMMA AheadStep == CheckpointInv /\ [Next]_vars => AheadOfBase'
<1> SUFFICES ASSUME CheckpointInv, [Next]_vars PROVE AheadOfBase'
  OBVIOUS
<1>a. Shapes /\ Roles /\ AheadOfBase /\ PhasesPromised /\ LandedOnce
  BY DEF CheckpointInv
<1>1. ASSUME Claim PROVE AheadOfBase'
  BY <1>a, <1>1, ClaimEffect, Distinctions DEF AheadOfBase, Roles, Drivers, Only, Stops,
     Advances, Starts, Writes, ContentOnly, Shapes, Driving
<1>2. ASSUME NEW c \in Cs, AgentFails(c) PROVE AheadOfBase'
  BY <1>a, <1>2, AgentFailsEffect, Distinctions DEF AheadOfBase, Roles, Drivers, Only,
     Stops, Advances, Starts, Writes, ContentOnly, Shapes, Driving
<1>3. ASSUME NEW c \in Cs, NEW over \in BOOLEAN, NEW incomplete \in BOOLEAN,
             Freeze(c, over, incomplete)
      PROVE  AheadOfBase'
  BY <1>a, <1>3, FreezeEffect, Distinctions DEF AheadOfBase, Roles, Drivers, Only, Stops,
     Advances, Starts, Writes, ContentOnly, Shapes, Driving
<1>4. ASSUME NEW d \in Drivers, Consult(d) PROVE AheadOfBase'
  BY <1>a, <1>4, ConsultEffect, Distinctions DEF AheadOfBase, Roles, Drivers, Only, Stops,
     Advances, Starts, Writes, ContentOnly, Shapes, Driving
<1>5. ASSUME NEW d \in Drivers, Submit(d) PROVE AheadOfBase'
  BY <1>a, <1>5, SubmitEffect, Distinctions DEF AheadOfBase, Roles, Drivers, Only, Stops,
     Advances, Starts, Writes, ContentOnly, Shapes, Driving
<1>6. ASSUME NEW d \in Drivers, Insert(d) PROVE AheadOfBase'
  BY <1>a, <1>6, InsertEffect, Distinctions DEF AheadOfBase, Roles, Drivers, Only, Stops,
     Advances, Starts, Writes, ContentOnly, Shapes, Driving
<1>7. ASSUME NEW d \in Drivers, NEW answer \in Answers, PollOrExpire(d, answer)
      PROVE  AheadOfBase'
  <2>1. /\ proc[d] \in Driving /\ proc[d].pc = "batch" /\ UNCHANGED wt
        /\ \E pc \in {"interactive", "consume", "finish"} : Advances(d, pc)
    BY <1>a, <1>7, PollOrExpireEffect
  <2> QED
    BY <1>a, <2>1, Distinctions DEF AheadOfBase, Drivers, Only, Advances
<1>8. ASSUME NEW d \in Drivers, Reenter(d) PROVE AheadOfBase'
  BY <1>a, <1>8, ReenterEffect, Distinctions DEF AheadOfBase, Roles, Drivers, Only, Stops,
     Advances, Starts, Writes, ContentOnly, Shapes, Driving
<1>9. ASSUME NEW d \in Drivers, Consume(d) PROVE AheadOfBase'
  BY <1>a, <1>9, ConsumeEffect, Distinctions DEF AheadOfBase, Roles, Drivers, Only, Stops,
     Advances, Starts, Writes, ContentOnly, Shapes, Driving
<1>10. ASSUME NEW d \in Drivers, NEW outcome \in Outcomes, Apply(d, outcome)
      PROVE  AheadOfBase'
  BY <1>a, <1>10, ApplyEffect, Distinctions DEF AheadOfBase, Roles, Drivers, Only, Stops,
     Advances, Starts, Writes, ContentOnly, Shapes, Driving
<1>11. ASSUME NEW d \in Drivers, NEW outcome \in Outcomes, NEW c \in Cs,
             Interactive(d, outcome, c)
      PROVE  AheadOfBase'
  BY <1>a, <1>11, InteractiveEffect, Distinctions DEF AheadOfBase, Roles, Drivers, Only,
     Stops, Advances, Starts, Writes, ContentOnly, Shapes, Driving
<1>12. ASSUME NEW d \in Drivers, NEW deferred \in BOOLEAN, Finish(d, deferred)
      PROVE  AheadOfBase'
  BY <1>a, <1>12, FinishEffect, Distinctions DEF AheadOfBase, Roles, Drivers, Only, Stops,
     Advances, Starts, Writes, ContentOnly, Shapes, Driving
<1>13. ASSUME NEW d \in Drivers, WritePhase(d) PROVE AheadOfBase'
  BY <1>a, <1>13, WritePhaseEffect, Distinctions DEF AheadOfBase, Roles, Drivers, Only,
     Stops, Advances, Starts, Writes, ContentOnly, Shapes, Driving
<1>14. ASSUME NEW d \in Drivers, Resume(d) PROVE AheadOfBase'
  BY <1>a, <1>14, ResumeEffect, Distinctions DEF AheadOfBase, Roles, Drivers, Only, Stops,
     Advances, Starts, Writes, ContentOnly, Shapes, Driving
<1>15. ASSUME NEW d \in Drivers, Commit(d) PROVE AheadOfBase'
  BY <1>a, <1>15, CommitEffect, Distinctions DEF AheadOfBase, Roles, Drivers, Only, Stops,
     Advances, Starts, Writes, ContentOnly, Shapes, Driving
<1>16. ASSUME NEW d \in Drivers, Merge(d) PROVE AheadOfBase'
  BY <1>a, <1>16, MergeEffect, Distinctions DEF AheadOfBase, Roles, Drivers, Only, Stops,
     Advances, Starts, Writes, ContentOnly, Shapes, Driving
<1>17. ASSUME NEW d \in Drivers, MergeConflicts(d) PROVE AheadOfBase'
  BY <1>a, <1>17, Stopping, Distinctions DEF AheadOfBase, Roles, Drivers, Only, Stops,
     Advances, Starts, Writes, ContentOnly, Shapes, Driving, MergeConflicts
<1>18. ASSUME NEW d \in Drivers, Ledger(d) PROVE AheadOfBase'
  BY <1>a, <1>18, LedgerEffect, Distinctions DEF AheadOfBase, Roles, Drivers, Only, Stops,
     Advances, Starts, Writes, ContentOnly, Shapes, Driving
<1>19. ASSUME NEW d \in Drivers, Crash(d) PROVE AheadOfBase'
  BY <1>a, <1>19, Stopping, Distinctions DEF AheadOfBase, Roles, Drivers, Only, Stops,
     Advances, Starts, Writes, ContentOnly, Shapes, Driving, Crash
<1>20. ASSUME PollList PROVE AheadOfBase'
  BY <1>a, <1>20, Distinctions DEF AheadOfBase, Roles, Drivers, Only, Stops, Advances,
     Starts, Writes, ContentOnly, Shapes, Driving, PollList
<1>21. ASSUME NEW e \in Executions, NEW credential \in BOOLEAN,
              NEW answer \in Answers, PollRow(e, credential, answer)
      PROVE  AheadOfBase'
  BY <1>a, <1>21, PollRowEffect, Distinctions DEF AheadOfBase, Roles, Drivers, Only,
     Stops, Advances, Starts, Writes, ContentOnly, Shapes, Driving
<1>22. ASSUME NEW e \in Executions, DeadlinePasses(e) PROVE AheadOfBase'
  BY <1>a, <1>22, DeadlinePassesEffect, Distinctions DEF AheadOfBase, Roles, Drivers,
     Only, Stops, Advances, Starts, Writes, ContentOnly, Shapes, Driving
<1>23. ASSUME AcceptRisk PROVE AheadOfBase'
  BY <1>a, <1>23, AcceptRiskEffect, Distinctions DEF AheadOfBase, Roles, Drivers, Only,
     Stops, Advances, Starts, Writes, ContentOnly, Shapes, Driving
<1>24. ASSUME Release PROVE AheadOfBase'
  BY <1>a, <1>24, ReleaseEffect, Distinctions DEF AheadOfBase, Roles, Drivers, Only,
     Stops, Advances, Starts, Writes, ContentOnly, Shapes, Driving
<1>25. ASSUME NEW e \in Executions, NEW c \in Contents, OperatorEdits(e, c)
      PROVE  AheadOfBase'
  BY <1>a, <1>25, OperatorEditsEffect, Distinctions DEF AheadOfBase, Roles, Drivers, Only,
     Stops, Advances, Starts, Writes, ContentOnly, Shapes, Driving
<1>26. ASSUME NEW e \in Executions, OperatorCommits(e) PROVE AheadOfBase'
  BY <1>a, <1>26, OperatorCommitsEffect, Distinctions DEF AheadOfBase, Roles, Drivers,
     Only, Stops, Advances, Starts, Writes, ContentOnly, Shapes, Driving
<1>27. ASSUME DaemonRestarts PROVE AheadOfBase'
  BY <1>a, <1>27, Distinctions DEF AheadOfBase, Roles, Drivers, Only, Stops, Advances,
     Starts, Writes, ContentOnly, Shapes, Driving, DaemonRestarts
<1>28. ASSUME UNCHANGED vars PROVE AheadOfBase'
  BY <1>a, <1>28, Distinctions DEF AheadOfBase, Roles, Drivers, Only, Stops, Advances,
     Starts, Writes, ContentOnly, Shapes, Driving, vars
<1>29. ASSUME NEW d \in Drivers, Decide(d)
      PROVE  AheadOfBase'
  BY <1>a, <1>29, DecideEffect, Distinctions DEF AheadOfBase, Roles, Drivers, Only,
     Stops, Advances, Starts, Writes, ContentOnly, Shapes, Driving
<1>30. ASSUME NEW d \in Drivers, Rebind(d)
      PROVE  AheadOfBase'
  BY <1>a, <1>30, RebindEffect, Distinctions DEF AheadOfBase, Roles, Drivers, Only, Stops,
     Advances, Starts, Writes, ContentOnly, Shapes, Driving
<1> QED
  BY <1>1, <1>2, <1>3, <1>4, <1>5, <1>6, <1>7, <1>8, <1>9, <1>10, <1>11, <1>12,
     <1>13, <1>14, <1>15, <1>16, <1>17, <1>18, <1>19, <1>20, <1>21, <1>22,
     <1>23, <1>24, <1>25, <1>26, <1>27, <1>28, <1>29, <1>30
     DEF Next, Drive, Poll, Cs

-----------------------------------------------------------------------------
(* Before the first claim there is nothing to be wrong about. *)
LEMMA InitCheckpoint == Init => CheckpointInv
<1> SUFFICES ASSUME Init PROVE CheckpointInv
  OBVIOUS
<1>1. wt \in [Executions -> Trees] /\ batch \in [Executions -> Batches]
  BY DEF Init, Fresh, Trees, Batches, Cs
<1>2. /\ log \in [reviewed : SUBSET Candidates, operator : SUBSET Candidates,
                  override : BOOLEAN, applied : [Executions -> Nat]]
      /\ \A e \in Executions : log.applied[e] = 0
  BY DEF Init
<1>3. /\ cycle \in [Executions -> {"none", "unfinished", "pending", "clean", "blocked",
                                   "interrupted"}]
      /\ \A e \in Executions : cycle[e] # "clean"
      /\ main = <<>> /\ main \in Seq(Candidates)
      /\ execs \in 0 .. MaxExecutions /\ cp = NoCheckpoint
      /\ backlog \in [status : {"pending", "in_progress", "completed"},
                      owner : 0 .. MaxExecutions]
  BY CheckpointAssumption DEF Init
<1>4. proc \in [Drivers -> {Idle} \cup Driving] /\ \A d \in Drivers : proc[d] = Idle
  BY DEF Init
<1>5. Shapes
  BY <1>1, <1>2, <1>3, <1>4 DEF Shapes
<1>6. Roles /\ AheadOfBase /\ PhasesPromised /\ CommitOnBranch
  BY <1>4 DEF Roles, AheadOfBase, PhasesPromised, CommitOnBranch, Drivers
<1>7. CleanWasReviewed /\ AppliedAtMostOnce
  BY <1>2, <1>3 DEF CleanWasReviewed, AppliedAtMostOnce
<1>8. LandedOnce
  BY <1>3 DEF LandedOnce, IsInjective
<1>9. PhaseFollowsLedger
  BY <1>3 DEF PhaseFollowsLedger
<1> QED
  BY <1>5, <1>6, <1>7, <1>8, <1>9 DEF CheckpointInv

LEMMA CheckpointStep == CheckpointInv /\ [Next]_vars => CheckpointInv'
  BY ShapesStep, RolesStep, AheadStep, PromisedStep, CleanStep, BranchStep, AppliedStep,
     LandedStep, PhaseStep DEF CheckpointInv

LEMMA CheckpointInvariant == Spec => []CheckpointInv
  BY InitCheckpoint, CheckpointStep, PTL DEF Spec

(* The rows, the worktrees and the drivers keep their shape: no worktree   *)
(* ends more than two commits ahead of its base (validate and              *)
(* rebind_operator_commit refuse to resume one that could).                *)
THEOREM Typing == Spec => []TypeOK
<1>1. ASSUME CheckpointInv PROVE TypeOK
  <2>1. Shapes
    BY <1>1 DEF CheckpointInv
  <2>2. ASSUME NEW e \in Executions
        PROVE  /\ wt[e].content \in Contents \cup {NoChange} /\ wt[e].ahead \in 0 .. 2
               /\ cycle[e] \in {"none", "unfinished", "pending", "clean", "blocked",
                                "interrupted"}
               /\ batch[e].state \in {"none", "submitted", "completed", "applied",
                                      "expired_fallback"}
    BY <2>1 DEF Shapes, Trees, Cs, Batches
  <2>3. cp = NoCheckpoint \/ (cp.phase \in Phases /\ {cp.id, cp.exec} \subseteq Executions)
    BY <2>1 DEF Shapes, Rows
  <2>4. /\ backlog.status \in {"pending", "in_progress", "completed"}
        /\ main \in Seq(Candidates) /\ DOMAIN proc = Drivers
        /\ log.reviewed \cup log.operator \subseteq Candidates
    BY <2>1 DEF Shapes
  <2> QED
    BY <2>2, <2>3, <2>4 DEF TypeOK
<1> QED
  BY <1>1, CheckpointInvariant, PTL

(* A batch result decides at most one review, whoever races to consume it  *)
(* and however often the consumers crash (consume_completed,               *)
(* mark_applied).                                                          *)
THEOREM ResultAppliedOnce == Spec => []AppliedOnce
<1>1. CheckpointInv => AppliedOnce
  BY DEF CheckpointInv, AppliedAtMostOnce, AppliedOnce
<1> QED
  BY <1>1, CheckpointInvariant, PTL

(* A candidate is merged into the branch once, however often its landing   *)
(* is interrupted and resumed (land_candidate).                            *)
THEOREM CandidateLandsOnce == Spec => []LandedOnce
<1>1. CheckpointInv => LandedOnce
  BY DEF CheckpointInv
<1> QED
  BY <1>1, CheckpointInvariant, PTL

(* The checkpoint never claims an integration the ledger has not recorded  *)
(* (complete_landed, finish_implementation, accept_review_risk).           *)
THEOREM LedgerComesFirst == Spec => []PhaseFollowsLedger
<1>1. CheckpointInv => PhaseFollowsLedger
  BY DEF CheckpointInv
<1> QED
  BY <1>1, CheckpointInvariant, PTL

(* The ownership lock's effect here: a run and an attached resume never    *)
(* drive the PRD together, only the attached resume lands, and nothing     *)
(* but a run's agent works without a checkpoint.                           *)
THEOREM DriversKeepRoles == Spec => []Roles
<1>1. CheckpointInv => Roles
  BY DEF CheckpointInv
<1> QED
  BY <1>1, CheckpointInvariant, PTL

(* What one step may do to the status of the PRD. *)
Earned ==
  backlog.status' = "completed" /\ backlog.status # "completed" =>
    \/ log'.override
    \/ /\ \E c \in Contents \cup {NoChange} : <<backlog.owner, c>> \in log.reviewed
       /\ \/ At("run", "ledger")
          \/ LET commit == wt[proc["cli"].exec].commit
             IN  commit = NoChange \/ <<proc["cli"].exec, commit>> \in Range(main)

(* Only complete_run and accept_review_risk complete a PRD. *)
LEMMA EarnedStep == CheckpointInv /\ [Next]_vars => Earned
<1> SUFFICES ASSUME CheckpointInv, [Next]_vars PROVE Earned
  OBVIOUS
<1>a. Shapes /\ Roles /\ AheadOfBase /\ PhasesPromised /\ LandedOnce
      /\ CleanWasReviewed /\ CommitOnBranch
  BY DEF CheckpointInv
<1>1. ASSUME Claim PROVE Earned
  BY <1>a, <1>1, ClaimEffect DEF Earned
<1>2. ASSUME NEW c \in Cs, AgentFails(c) PROVE Earned
  BY <1>2 DEF Earned, AgentFails
<1>3. ASSUME NEW c \in Cs, NEW over \in BOOLEAN, NEW incomplete \in BOOLEAN,
             Freeze(c, over, incomplete)
      PROVE  Earned
  BY <1>3 DEF Earned, Freeze
<1>4. ASSUME NEW d \in Drivers, Consult(d) PROVE Earned
  BY <1>4 DEF Earned, Consult
<1>5. ASSUME NEW d \in Drivers, Submit(d) PROVE Earned
  BY <1>5 DEF Earned, Submit
<1>6. ASSUME NEW d \in Drivers, Insert(d) PROVE Earned
  BY <1>6 DEF Earned, Insert
<1>7. ASSUME NEW d \in Drivers, NEW answer \in Answers, PollOrExpire(d, answer)
      PROVE  Earned
  BY <1>7 DEF Earned, PollOrExpire
<1>8. ASSUME NEW d \in Drivers, Reenter(d) PROVE Earned
  BY <1>8 DEF Earned, Reenter
<1>9. ASSUME NEW d \in Drivers, Consume(d) PROVE Earned
  BY <1>9 DEF Earned, Consume
<1>10. ASSUME NEW d \in Drivers, NEW outcome \in Outcomes, Apply(d, outcome) PROVE Earned
  BY <1>10 DEF Earned, Apply
<1>11. ASSUME NEW d \in Drivers, NEW outcome \in Outcomes, NEW c \in Cs,
             Interactive(d, outcome, c)
      PROVE  Earned
  BY <1>11 DEF Earned, Interactive
<1>12. ASSUME NEW d \in Drivers, NEW deferred \in BOOLEAN, Finish(d, deferred)
      PROVE  Earned
  BY <1>12 DEF Earned, Finish
<1>13. ASSUME NEW d \in Drivers, WritePhase(d) PROVE Earned
  BY <1>13 DEF Earned, WritePhase
<1>14. ASSUME NEW d \in Drivers, Resume(d) PROVE Earned
  BY <1>14 DEF Earned, Resume
<1>15. ASSUME NEW d \in Drivers, Commit(d) PROVE Earned
  BY <1>15 DEF Earned, Commit
<1>16. ASSUME NEW d \in Drivers, Merge(d) PROVE Earned
  BY <1>16 DEF Earned, Merge
<1>17. ASSUME NEW d \in Drivers, MergeConflicts(d) PROVE Earned
  BY <1>a, <1>17, Stopping DEF Earned, MergeConflicts
<1>18. ASSUME NEW d \in Drivers, Ledger(d) PROVE Earned
  <2>1. CASE UNCHANGED backlog
    BY <2>1 DEF Earned
  <2>2. CASE ~ UNCHANGED backlog
    <3>1. /\ backlog.owner \in Executions /\ cycle[backlog.owner] = "clean"
          /\ proc[d] # Idle /\ proc[d].pc = "ledger" /\ d # "poller"
      BY <1>a, <1>18, <2>2, LedgerEffect
    <3>2. \E c \in Contents \cup {NoChange} : <<backlog.owner, c>> \in log.reviewed
      BY <1>a, <3>1 DEF CleanWasReviewed, Cs
    <3>3. CASE d = "run"
      BY <3>1, <3>2, <3>3 DEF Earned, At
    <3>4. CASE d = "cli"
      BY <1>a, <3>1, <3>2, <3>4 DEF Earned, CommitOnBranch
    <3> QED
      BY <3>1, <3>3, <3>4 DEF Drivers
  <2> QED
    BY <2>1, <2>2
<1>19. ASSUME NEW d \in Drivers, Crash(d) PROVE Earned
  BY <1>a, <1>19, Stopping DEF Earned, Crash
<1>20. ASSUME PollList PROVE Earned
  BY <1>a, <1>20 DEF Earned, PollList
<1>21. ASSUME NEW e \in Executions, NEW credential \in BOOLEAN,
              NEW answer \in Answers, PollRow(e, credential, answer)
      PROVE  Earned
  BY <1>21 DEF Earned, PollRow
<1>22. ASSUME NEW e \in Executions, DeadlinePasses(e) PROVE Earned
  BY <1>22 DEF Earned, DeadlinePasses
<1>23. ASSUME AcceptRisk PROVE Earned
  BY <1>a, <1>23, AcceptRiskEffect DEF Earned
<1>24. ASSUME Release PROVE Earned
  BY <1>a, <1>24, ReleaseEffect DEF Earned
<1>25. ASSUME NEW e \in Executions, NEW c \in Contents, OperatorEdits(e, c) PROVE Earned
  BY <1>25 DEF Earned, OperatorEdits
<1>26. ASSUME NEW e \in Executions, OperatorCommits(e) PROVE Earned
  BY <1>26 DEF Earned, OperatorCommits
<1>27. ASSUME DaemonRestarts PROVE Earned
  BY <1>a, <1>27 DEF Earned, DaemonRestarts
<1>28. ASSUME UNCHANGED vars PROVE Earned
  BY <1>a, <1>28 DEF Earned, vars
<1>29. ASSUME NEW d \in Drivers, Decide(d)
      PROVE  Earned
  BY <1>29 DEF Earned, Decide
<1>30. ASSUME NEW d \in Drivers, Rebind(d)
      PROVE  Earned
  BY <1>30 DEF Earned, Rebind
<1> QED
  BY <1>1, <1>2, <1>3, <1>4, <1>5, <1>6, <1>7, <1>8, <1>9, <1>10, <1>11, <1>12,
     <1>13, <1>14, <1>15, <1>16, <1>17, <1>18, <1>19, <1>20, <1>21, <1>22,
     <1>23, <1>24, <1>25, <1>26, <1>27, <1>28, <1>29, <1>30
     DEF Next, Drive, Poll, Cs

(* A PRD is completed by a person, or under the execution that claimed it  *)
(* after a clean review; and when a resume completes it, what it committed *)
(* is on the branch (complete_run, complete_landed).                       *)
THEOREM CompletionEarned == Spec => CompletionIsEarned
<1>1. CheckpointInv /\ [Next]_vars => [Earned]_vars
  BY EarnedStep
<1>2. Spec => [][Earned]_vars
  BY <1>1, CheckpointInvariant, PTL DEF Spec
<1> QED
  BY <1>2 DEF CompletionIsEarned, Earned
=============================================================================
