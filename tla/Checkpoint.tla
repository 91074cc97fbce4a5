----------------------------- MODULE Checkpoint -----------------------------
(***************************************************************************)
(* One PRD from its claim to its completion through the durable            *)
(* checkpoint: a run that implements and freezes a candidate, the review   *)
(* that may be parked with a provider's batch interface, the resumes that  *)
(* drive it again, and the landing                                         *)
(* (crates/familiar-ai-daemon/src/run.rs, resume.rs, batch_review.rs and   *)
(* the checkpoint and batch_review repositories of familiar-ai-storage).   *)
(*                                                                         *)
(* Three processes drive the PRD: `run`, an execution; `cli`, a resume or  *)
(* an attached human, which shares the repository's ownership lock with    *)
(* run; and `poller`, the resume the daemon's batch poller spawns, which   *)
(* takes no lock.  Any of them may be killed between two writes.           *)
(*                                                                         *)
(* Abstractions.  A candidate is the content of its execution's worktree;  *)
(* the content stands for the diff against the base and for its hash.  The *)
(* review cycle is reduced to its outcome, one review attempt per drive    *)
(* (module Review has the rest); the backlog to the status and the         *)
(* claiming execution (module Backlog); the merge queue of Drive, which    *)
(* lands the candidates of its own session, is left to Drive.              *)
(***************************************************************************)
EXTENDS Integers, Sequences, SequencesExt, FiniteSets, FiniteSetsExt

CONSTANTS Contents,        \* what an agent or an operator may leave in a worktree
          NoChange,        \* a worktree like its base
          MaxExecutions,   \* bound on the executions of the PRD
          BatchTier,       \* the review tier is batch
          MaxUpsets         \* bound on crashes, restarts and operators' acts

ASSUME CheckpointAssumption ==
  /\ NoChange \notin Contents
  /\ MaxExecutions \in Nat \ {0}
  /\ MaxUpsets \in Nat
  /\ BatchTier \in BOOLEAN

Executions == 1 .. MaxExecutions
Drivers    == {"run", "cli", "poller"}
Phases     == {"implemented", "implemented_pending_review", "blocked", "verified",
               "reviewed", "approved", "integrated", "completed"}
Resumable  == {"implemented", "implemented_pending_review", "blocked"}
NoCheckpoint == [phase |-> "none"]
Idle == [pc |-> "idle"]

VARIABLES wt,         \* execution -> its worktree
          cp,         \* the execution_checkpoints row of the PRD
          cycle,      \* execution -> where its review cycle stands
          batch,      \* execution -> the batch_reviews row of its review
          backlog,    \* status and claiming execution of the PRD
          main,       \* commits integrated into the checked-out branch
          proc,       \* driver -> where it is
          poll,       \* the poller: if there is one, rows it listed, resumes it spawned
          execs, upsets,
          log         \* history: what was decided about which candidate

vars == <<wt, cp, cycle, batch, backlog, main, proc, poll, execs, upsets, log>>

Fresh == [content |-> NoChange, commit |-> NoChange, ahead |-> 0]
Candidates == Executions \X (Contents \cup {NoChange})

\* The shape of the rows, the worktrees and the drivers (repos/checkpoint.rs).
TypeOK ==
  /\ \A e \in Executions :
       /\ wt[e].content \in Contents \cup {NoChange}
       /\ wt[e].ahead \in 0 .. 2
       /\ cycle[e] \in {"none", "unfinished", "pending", "clean", "blocked",
                              "interrupted"}
       /\ batch[e].state \in {"none", "submitted", "completed", "applied",
                              "expired_fallback"}
  /\ cp = NoCheckpoint \/ (cp.phase \in Phases /\ {cp.id, cp.exec} \subseteq Executions)
  /\ backlog.status \in {"pending", "in_progress", "completed"}
  /\ main \in Seq(Candidates)
  /\ DOMAIN proc = Drivers
  /\ log.reviewed \cup log.operator \subseteq Candidates

\* The daemon starts: the poller ends at once when no repository's policy
\* has a batch risk class at that moment.
Started(on) == [on |-> on, listed |-> {}, resumes |-> 0]

Init ==
  /\ wt = [e \in Executions |-> Fresh]
  /\ cp = NoCheckpoint
  /\ cycle = [e \in Executions |-> "none"]
  /\ batch = [e \in Executions |-> [state |-> "none", content |-> NoChange, late |-> FALSE]]
  /\ backlog = [status |-> "pending", owner |-> 0]
  /\ main = <<>>
  /\ proc = [d \in Drivers |-> Idle]
  /\ \E on \in BOOLEAN : poll = Started(on)
  /\ execs = 0 /\ upsets = 0
  /\ log = [reviewed |-> {}, operator |-> {}, override |-> FALSE,
            applied |-> [e \in Executions |-> 0]]

----------------------------------------------------------------------------
(* The checkpoint row.                                                     *)

\* put: the first execution's checkpoint_id survives every later freeze.
Put(e, phase) ==
  cp' = [phase |-> phase, hash |-> wt'[e].content, exec |-> e,
         id |-> IF cp = NoCheckpoint THEN e ELSE cp.id]

\* transition: no order of phases is enforced.
Transition(phase) == cp' = [cp EXCEPT !.phase = phase]

\* validate and rebind_operator_commit.
Dirty(e)    == wt[e].content # wt[e].commit
Intact(e)   == wt[e].ahead = 0 /\ wt[e].content = cp.hash
Rebound(e)  == wt[e].ahead = 1 /\ ~ Dirty(e)

Moves(d, p) == proc' = [proc EXCEPT ![d] = p]
Ends(d)     == Moves(d, Idle)
At(d, pc)   == proc[d].pc = pc
Goto(d, pc) == Moves(d, [proc[d] EXCEPT !.pc = pc, !.saw = "none"])

Reviewing(e) == [pc |-> "review", exec |-> e, saw |-> "none", outcome |-> "none",
                 rem |-> FALSE, todo |-> <<>>, then |-> "idle"]

----------------------------------------------------------------------------
(* The run.                                                                *)

\* Up to the agent: every unfinished cycle is interrupted, the PRD claimed.
Claim ==
  /\ At("run", "idle") /\ At("cli", "idle")
  /\ backlog.status = "pending" /\ execs < MaxExecutions
  /\ execs' = execs + 1
  /\ backlog' = [status |-> "in_progress", owner |-> execs + 1]
  /\ cycle' = [e \in Executions |->
                 IF cycle[e] \in {"unfinished", "pending"}
                   THEN "interrupted" ELSE cycle[e]]
  /\ Moves("run", [Reviewing(execs + 1) EXCEPT !.pc = "agent"])
  /\ UNCHANGED <<wt, cp, batch, main, poll, upsets, log>>

\* The agent fails, is stopped, or its accounting cannot be recorded.
AgentFails(content) ==
  /\ At("run", "agent")
  /\ wt' = [wt EXCEPT ![proc["run"].exec].content = content]
  /\ Ends("run")
  /\ UNCHANGED <<cp, cycle, batch, backlog, main, poll, execs, upsets, log>>

\* freeze_implementation, then the checks that end the run before any review:
\* no change, a declared incompleteness, a token ceiling.
Freeze(content, over, incomplete) ==
  /\ At("run", "agent")
  /\ LET e == proc["run"].exec IN
     /\ wt' = [wt EXCEPT ![e].content = content]
     /\ Put(e, IF over THEN "implemented_pending_review" ELSE "implemented")
     /\ IF content = NoChange \/ over \/ incomplete THEN Ends("run")
                                                    ELSE Goto("run", "review")
  /\ UNCHANGED <<cycle, batch, backlog, main, poll, execs, upsets, log>>

----------------------------------------------------------------------------
(* The review, driven by a run or by a resume.                             *)

Verdict(d, state) == cycle' = [cycle EXCEPT ![proc[d].exec] = state]

\* run_review up to the reviewer; the batch agent reads its row.
Consult(d) ==
  /\ At(d, "review")
  /\ Moves(d, [proc[d] EXCEPT !.saw = batch[proc[d].exec].state,
                              !.pc = IF BatchTier THEN "batch" ELSE "interactive"])
  /\ UNCHANGED wt
  /\ Verdict(d, "unfinished")
  /\ UNCHANGED <<cp, batch, backlog, main, poll, execs, upsets, log>>

Park(d) ==
  /\ Moves(d, [proc[d] EXCEPT !.pc = "finish", !.saw = "none", !.outcome = "parked"])
  /\ Verdict(d, "pending")

\* submit: the provider has the batch before the row exists.
Submit(d) ==
  /\ At(d, "batch") /\ proc[d].saw = "none"
  /\ Goto(d, "insert")
  /\ UNCHANGED <<wt, cp, cycle, batch, backlog, main, poll, execs, upsets, log>>

Insert(d) ==
  /\ At(d, "insert")
  /\ LET e == proc[d].exec IN
     batch' = IF batch[e].state # "none" THEN batch
              ELSE [batch EXCEPT ![e] = [state |-> "submitted", late |-> FALSE,
                                         content |-> wt[e].content]]
  /\ UNCHANGED wt
  /\ Park(d)
  /\ UNCHANGED <<cp, backlog, main, poll, execs, upsets, log>>

\* mark_completed, mark_applied, mark_expired_fallback: an UPDATE that
\* applies to the state it names and to no other.
Mark(e, from, to) ==
  batch' = IF batch[e].state = from THEN [batch EXCEPT ![e].state = to] ELSE batch

\* poll_or_expire: the bounded wait, or what the provider says.
PollOrExpire(d, answer) ==
  /\ At(d, "batch") /\ proc[d].saw = "submitted"
  /\ LET e == proc[d].exec IN
     \/ /\ batch[e].late \/ answer = "errored"
        /\ Mark(e, "submitted", "expired_fallback")
        /\ Goto(d, "interactive") /\ UNCHANGED <<wt, cycle>>
     \/ /\ ~ batch[e].late /\ answer = "succeeded"
        /\ Mark(e, "submitted", "completed")
        /\ Goto(d, "consume") /\ UNCHANGED <<wt, cycle>>
     \/ /\ ~ batch[e].late /\ answer = "in_progress"
        /\ UNCHANGED <<wt, batch>> /\ Park(d)
  /\ UNCHANGED <<cp, backlog, main, poll, execs, upsets, log>>

\* A row that is neither new nor pending.
Reenter(d) ==
  /\ At(d, "batch") /\ proc[d].saw \in {"completed", "applied", "expired_fallback"}
  /\ IF proc[d].saw = "applied" THEN Mark(proc[d].exec, "applied", "expired_fallback")
                                ELSE UNCHANGED batch
  /\ Goto(d, IF proc[d].saw = "completed" THEN "consume" ELSE "interactive")
  /\ UNCHANGED <<wt, cp, cycle, backlog, main, poll, execs, upsets, log>>

\* consume_completed: peek, account (idempotent), then the applied mark that
\* decides between racing consumers.
Consume(d) ==
  /\ At(d, "consume")
  /\ UNCHANGED wt
  /\ IF batch[proc[d].exec].state = "completed"
       THEN Goto(d, "apply") /\ UNCHANGED cycle
       ELSE Park(d)
  /\ UNCHANGED <<cp, batch, backlog, main, poll, execs, upsets, log>>

\* What the answer says of the candidate it was asked about.
Answered(d, outcome) ==
  /\ LET e == proc[d].exec IN outcome = "clean" => batch[e].content = wt[e].content
  /\ Moves(d, [proc[d] EXCEPT !.pc = "decide", !.outcome = outcome])
  /\ log' = [log EXCEPT !.applied[proc[d].exec] = @ + 1]

\* Fault: the row is not asked whether the result was applied already.
ApplyUnchecked(d, outcome) ==
  /\ At(d, "apply")
  /\ Mark(proc[d].exec, "completed", "applied") /\ Answered(d, outcome)
  /\ UNCHANGED <<wt, cycle, cp, backlog, main, poll, execs, upsets>>

Apply(d, outcome) ==
  /\ At(d, "apply")
  /\ IF batch[proc[d].exec].state = "completed"
       THEN /\ Mark(proc[d].exec, "completed", "applied")
            /\ Answered(d, outcome) /\ UNCHANGED cycle
       ELSE Park(d) /\ UNCHANGED <<batch, log>>
  /\ UNCHANGED <<wt, cp, backlog, main, poll, execs, upsets>>

\* The coordinator stores the cycle once its agent has returned.
Decide(d) ==
  /\ At(d, "decide")
  /\ LET e == proc[d].exec IN
     log' = [log EXCEPT !.reviewed = IF proc[d].outcome = "clean"
                                     THEN @ \cup {<<e, batch[e].content>>} ELSE @]
  /\ Verdict(d, proc[d].outcome)
  /\ Goto(d, "finish")
  /\ UNCHANGED <<wt, cp, batch, backlog, main, poll, execs, upsets>>

\* Interactive review, with the remediation that may change the candidate.
Interactive(d, outcome, content) ==
  /\ At(d, "interactive")
  /\ LET e == proc[d].exec IN
     /\ content \in Contents \cup {wt[e].content}
     /\ wt' = [wt EXCEPT ![e].content = content]
     /\ log' = [log EXCEPT !.reviewed = IF outcome = "clean"
                                        THEN @ \cup {<<e, content>>} ELSE @]
     /\ Moves(d, [proc[d] EXCEPT !.pc = "finish", !.outcome = outcome,
                                 !.rem = content # wt[e].content])
  /\ Verdict(d, outcome)
  /\ UNCHANGED <<cp, batch, backlog, main, poll, execs, upsets>>

----------------------------------------------------------------------------
(* finish_implementation and what its caller writes next.                  *)

ApprovePhases == <<"verified", "reviewed", "approved">>

\* The phases to write and what follows them.
FinishWith(d, todo, then) ==
  Moves(d, IF todo = <<>> THEN Idle
           ELSE [Reviewing(proc[d].exec) EXCEPT !.pc = "write", !.todo = todo,
                                                !.then = then])

Landing(d) == IF d = "cli" THEN "land" ELSE "idle"

\* A remediated candidate is frozen again first.
Rebind(d) ==
  /\ At(d, "finish") /\ proc[d].rem
  /\ cp' = [cp EXCEPT !.hash = wt[proc[d].exec].content]
  /\ Moves(d, [proc[d] EXCEPT !.rem = FALSE])
  /\ UNCHANGED <<wt, cycle, batch, backlog, main, poll, execs, upsets, log>>

\* A parked review returns as if the run were done, a review that is not clean
\* blocks, a clean one goes on to completion (a run) or to approval (a resume).
Finish(d, deferred) ==
  /\ At(d, "finish") /\ ~ proc[d].rem
  /\ d # "run" => deferred
  /\ CASE proc[d].outcome = "parked" ->
            /\ UNCHANGED cp
            /\ FinishWith(d, IF d = "run" THEN <<>> ELSE ApprovePhases, Landing(d))
       [] proc[d].outcome = "blocked" ->
            Transition("blocked") /\ Ends(d)
       [] OTHER ->
            /\ UNCHANGED cp
            /\ IF ~ deferred THEN Goto(d, "ledger")
               ELSE FinishWith(d, <<"verified", "reviewed">> \o
                                  (IF d = "run" THEN <<>> ELSE ApprovePhases),
                               Landing(d))
  /\ UNCHANGED <<wt, cycle, batch, backlog, main, poll, execs, upsets, log>>

WritePhase(d) ==
  /\ At(d, "write")
  /\ Transition(Head(proc[d].todo))
  /\ IF Tail(proc[d].todo) = <<>>
       THEN Moves(d, IF proc[d].then = "idle" THEN Idle
                     ELSE [Reviewing(proc[d].exec) EXCEPT !.pc = proc[d].then])
       ELSE Moves(d, [proc[d] EXCEPT !.todo = Tail(@)])
  /\ UNCHANGED <<wt, cycle, batch, backlog, main, poll, execs, upsets, log>>

----------------------------------------------------------------------------
(* resume_implemented_checkpoint.                                          *)

\* one: not terminal, and the worktree as the checkpoint describes it or
\* committed by an operator on top of its base.
Resume(d) ==
  /\ d \in {"cli", "poller"} /\ At(d, "idle")
  /\ d = "cli" => At("run", "idle")
  /\ d = "poller" => poll.resumes > 0
  /\ poll' = IF d = "poller" THEN [poll EXCEPT !.resumes = @ - 1] ELSE poll
  /\ cp # NoCheckpoint /\ backlog.status # "completed"
  /\ LET e     == cp.exec
         valid == Intact(e) \/ Rebound(e)
         row   == [cp EXCEPT !.hash = wt[e].content]
         next  == [Reviewing(e) EXCEPT !.pc = Landing(d)]
     IN  \/ /\ valid /\ cp.phase \in {"reviewed", "approved"}
            /\ cp' = [row EXCEPT !.phase = "approved"]
            /\ IF d = "cli" THEN Moves(d, next) ELSE UNCHANGED proc
         \/ /\ valid /\ cp.phase \in Resumable
            /\ cp' = row /\ Moves(d, Reviewing(e))
         \/ /\ d = "poller"
            /\ ~ valid \/ cp.phase \notin Resumable \cup {"reviewed", "approved"}
            /\ UNCHANGED <<cp, proc>>
  /\ UNCHANGED <<wt, cycle, batch, backlog, main, execs, upsets, log>>

----------------------------------------------------------------------------
(* Landing: land_candidate and complete_landed.                            *)

Commit(d) ==
  /\ At(d, "land")
  /\ LET e == proc[d].exec IN
     wt' = IF Dirty(e) THEN [wt EXCEPT ![e] = [content |-> wt[e].content,
                                               commit |-> wt[e].content,
                                               ahead |-> wt[e].ahead + 1]]
                       ELSE wt
  /\ Goto(d, "merge")
  /\ UNCHANGED <<cp, cycle, batch, backlog, main, poll, execs, upsets, log>>

\* Fault: the ancestor check before the merge is left out.
MergeAgain(d) ==
  /\ At(d, "merge")
  /\ LET commit == <<proc[d].exec, wt[proc[d].exec].commit>> IN
     main' = IF commit[2] = NoChange THEN main ELSE Append(main, commit)
  /\ Goto(d, "ledger")
  /\ UNCHANGED <<wt, cp, cycle, batch, backlog, poll, execs, upsets, log>>

\* The candidate is merged once: a commit that is already an ancestor of the
\* branch has landed.
Merge(d) ==
  /\ At(d, "merge")
  /\ LET commit == <<proc[d].exec, wt[proc[d].exec].commit>> IN
     main' = IF commit \in Range(main) \/ commit[2] = NoChange
             THEN main ELSE Append(main, commit)
  /\ Goto(d, "ledger")
  /\ UNCHANGED <<wt, cp, cycle, batch, backlog, poll, execs, upsets, log>>

MergeConflicts(d) ==
  /\ At(d, "merge")
  /\ Ends(d)
  /\ UNCHANGED <<wt, cp, cycle, batch, backlog, main, poll, execs, upsets, log>>

\* Fault: the phases are written although the completion was refused.
LedgerRefusalIgnored(d) ==
  /\ At(d, "ledger")
  /\ LET e == IF d = "run" THEN proc[d].exec ELSE cp.id
         accepted == /\ backlog = [status |-> "in_progress", owner |-> e]
                     /\ cycle[e] = "clean"
     IN  /\ backlog' = IF accepted THEN [backlog EXCEPT !.status = "completed"] ELSE backlog
         /\ FinishWith(d, (IF d = "run" THEN ApprovePhases ELSE <<>>)
                            \o <<"integrated", "completed">>, "idle")
  /\ UNCHANGED <<wt, cp, cycle, batch, main, poll, execs, upsets, log>>

\* Fault: the completion does not ask for a clean review cycle.
LedgerUnreviewed(d) ==
  /\ At(d, "ledger")
  /\ LET e == IF d = "run" THEN proc[d].exec ELSE cp.id IN
     IF backlog = [status |-> "in_progress", owner |-> e]
       THEN /\ backlog' = [backlog EXCEPT !.status = "completed"]
            /\ FinishWith(d, (IF d = "run" THEN ApprovePhases ELSE <<>>)
                               \o <<"integrated", "completed">>, "idle")
       ELSE UNCHANGED backlog /\ Ends(d)
  /\ UNCHANGED <<wt, cp, cycle, batch, main, poll, execs, upsets, log>>

\* complete_run, for the run itself or for the execution the checkpoint_id
\* names.
Ledger(d) ==
  /\ At(d, "ledger")
  /\ LET e == IF d = "run" THEN proc[d].exec ELSE cp.id
         accepted == /\ backlog = [status |-> "in_progress", owner |-> e]
                     /\ cycle[e] = "clean"
     IN  IF accepted
           THEN /\ backlog' = [backlog EXCEPT !.status = "completed"]
                /\ FinishWith(d, (IF d = "run" THEN ApprovePhases ELSE <<>>)
                                   \o <<"integrated", "completed">>, "idle")
           ELSE UNCHANGED backlog /\ Ends(d)
  /\ UNCHANGED <<wt, cp, cycle, batch, main, poll, execs, upsets, log>>

----------------------------------------------------------------------------
(* The daemon's poller: poll_once over the rows still submitted.           *)

PollList ==
  /\ poll.on /\ poll.listed = {}
  /\ \E e \in Executions : batch[e].state = "submitted"
  /\ poll' = [poll EXCEPT !.listed =
                 {e \in Executions : batch[e].state = "submitted"}]
  /\ UNCHANGED <<wt, cp, cycle, batch, backlog, main, proc, execs, upsets, log>>

\* Fault: the credential is resolved before the deadline is looked at.
PollRowCredentialFirst(e, credential, answer) ==
  /\ e \in poll.listed
  /\ LET marked == credential /\ (batch[e].late \/ answer # "in_progress")
         to == IF ~ batch[e].late /\ answer = "succeeded" THEN "completed"
               ELSE "expired_fallback"
     IN  /\ IF marked THEN Mark(e, "submitted", to) ELSE UNCHANGED batch
         /\ poll' = [poll EXCEPT !.listed = @ \ {e},
                     !.resumes = IF marked THEN Min({@ + 1, 1}) ELSE @]
  /\ UNCHANGED <<wt, cp, cycle, backlog, main, proc, execs, upsets, log>>

\* One listed row: its deadline first, which needs no provider; then, with a
\* credential and an answer, the result.  A resume follows a mark whether or
\* not the mark found the row still submitted.
PollRow(e, credential, answer) ==
  /\ e \in poll.listed
  /\ LET marked == batch[e].late \/ (credential /\ answer # "in_progress")
         to == IF ~ batch[e].late /\ answer = "succeeded" THEN "completed"
               ELSE "expired_fallback"
     IN  /\ IF marked THEN Mark(e, "submitted", to) ELSE UNCHANGED batch
         /\ poll' = [poll EXCEPT !.listed = @ \ {e},
                     !.resumes = IF marked THEN Min({@ + 1, 1}) ELSE @]
  /\ UNCHANGED <<wt, cp, cycle, backlog, main, proc, execs, upsets, log>>

DeadlinePasses(e) ==
  /\ batch[e].state = "submitted" /\ ~ batch[e].late
  /\ batch' = [batch EXCEPT ![e].late = TRUE]
  /\ UNCHANGED <<wt, cp, cycle, backlog, main, proc, poll, execs, upsets, log>>

----------------------------------------------------------------------------
(* People, and crashes.                                                    *)

\* accept_review_risk: the ledger first, then the phases.
AcceptRisk ==
  /\ At("cli", "idle") /\ At("run", "idle")
  /\ cp # NoCheckpoint /\ cp.phase = "blocked" /\ backlog.status = "in_progress"
  /\ backlog' = [backlog EXCEPT !.status = "completed"]
  /\ log' = [log EXCEPT !.override = TRUE]
  /\ Moves("cli", [Reviewing(cp.exec) EXCEPT !.pc = "write",
                     !.todo = <<"approved", "integrated", "completed">>])
  /\ UNCHANGED <<wt, cp, cycle, batch, main, poll, execs, upsets>>

\* The claim of an execution that ended is given back (module Backlog).
Release ==
  /\ backlog.status = "in_progress" /\ At("run", "idle")
  /\ backlog' = [status |-> "pending", owner |-> 0]
  /\ UNCHANGED <<wt, cp, cycle, batch, main, proc, poll, execs, upsets, log>>

\* While no one drives the PRD an operator upsets a worktree, or commits it.
OperatorEdits(e, content) ==
  /\ \A d \in Drivers : At(d, "idle")
  /\ e \in 1 .. execs /\ upsets < MaxUpsets /\ content # wt[e].content
  /\ upsets' = upsets + 1
  /\ wt' = [wt EXCEPT ![e].content = content]
  /\ UNCHANGED <<cp, cycle, batch, backlog, main, proc, poll, execs, log>>

OperatorCommits(e) ==
  /\ \A d \in Drivers : At(d, "idle")
  /\ e \in 1 .. execs /\ upsets < MaxUpsets /\ Dirty(e) /\ wt[e].ahead < 2
  /\ upsets' = upsets + 1
  /\ wt' = [wt EXCEPT ![e].commit = wt[e].content, ![e].ahead = @ + 1]
  /\ log' = [log EXCEPT !.operator = @ \cup {<<e, wt[e].content>>}]
  /\ UNCHANGED <<cp, cycle, batch, backlog, main, proc, poll, execs>>

Crash(d) ==
  /\ ~ At(d, "idle") /\ upsets < MaxUpsets
  /\ upsets' = upsets + 1
  /\ Ends(d)
  /\ UNCHANGED <<wt, cp, cycle, batch, backlog, main, poll, execs, log>>

\* The daemon restarts, perhaps with another configuration: what it had listed
\* and spawned is gone.
DaemonRestarts ==
  /\ upsets < MaxUpsets /\ upsets' = upsets + 1
  /\ \E on \in BOOLEAN : poll' = Started(on) /\ poll' # poll
  /\ UNCHANGED <<wt, cp, cycle, batch, backlog, main, proc, execs, log>>

Outcomes == {"clean", "blocked"}
Answers  == {"succeeded", "errored", "in_progress"}

Drive(d) ==
  \/ Consult(d) \/ Submit(d) \/ Insert(d)
  \/ \E answer \in Answers : PollOrExpire(d, answer)
  \/ Reenter(d) \/ Consume(d)
  \/ (\E outcome \in Outcomes : Apply(d, outcome)) \/ Decide(d)
  \/ \E outcome \in Outcomes, c \in Contents \cup {NoChange} :
       Interactive(d, outcome, c)
  \/ Rebind(d) \/ \E deferred \in BOOLEAN : Finish(d, deferred)
  \/ WritePhase(d) \/ Resume(d)
  \/ Commit(d) \/ Merge(d) \/ MergeConflicts(d) \/ Ledger(d)
  \/ Crash(d)

Poll ==
  \/ PollList
  \/ \E e \in Executions, credential \in BOOLEAN, answer \in Answers :
       PollRow(e, credential, answer)

Next ==
  \/ Claim
  \/ \E c \in Contents \cup {NoChange} : AgentFails(c)
  \/ \E c \in Contents \cup {NoChange}, over, incomplete \in BOOLEAN :
       Freeze(c, over, incomplete)
  \/ \E d \in Drivers : Drive(d)
  \/ Poll
  \/ \E e \in Executions : DeadlinePasses(e)
  \/ AcceptRisk \/ Release
  \/ \E e \in Executions, c \in Contents : OperatorEdits(e, c)
  \/ \E e \in Executions : OperatorCommits(e)
  \/ DaemonRestarts

\* The ticker of a poller there is runs, and time passes; nothing is assumed of
\* agents, providers or people, nor that there is a poller.
Fairness ==
  /\ WF_vars(PollList)
  /\ \A e \in Executions :
       /\ WF_vars(DeadlinePasses(e))
       /\ SF_vars(\E credential \in BOOLEAN, answer \in Answers :
                    PollRow(e, credential, answer))

Spec == Init /\ [][Next]_vars /\ Fairness

----------------------------------------------------------------------------
(* Properties.                                                             *)

\* A batch result decides at most one review, whoever races to consume it: a
\* resume from the command line, the resume the poller spawned, and either of
\* them again after a crash (consume_completed, mark_applied).
AppliedOnce == \A e \in Executions : log.applied[e] <= 1

\* A candidate is merged into the branch once, however often its landing is
\* interrupted and resumed (land_candidate's ancestor check).
LandedOnce == IsInjective(main)

\* The checkpoint never claims an integration the ledger has not recorded,
\* in any interleaving of drivers and after any crash (complete_landed,
\* finish_implementation and accept_review_risk write the ledger first).
PhaseFollowsLedger ==
  cp # NoCheckpoint /\ cp.phase \in {"integrated", "completed"}
    => backlog.status = "completed"

\* A PRD is completed by a person, or under the execution that claimed it
\* after a clean review of a candidate of that execution; and when a resume
\* completes it, what it committed is already on the branch.
CompletionIsEarned ==
  [][backlog.status' = "completed" /\ backlog.status # "completed" =>
       \/ log'.override
       \/ /\ \E c \in Contents \cup {NoChange} : <<backlog.owner, c>> \in log.reviewed
          /\ \/ At("run", "ledger")
             \/ LET commit == wt[proc["cli"].exec].commit
                IN  commit = NoChange \/ <<proc["cli"].exec, commit>> \in Range(main)
    ]_vars

\* While a poller runs, every submitted batch leaves that state within its
\* bounded wait, whatever becomes of the provider and the credential (poll_once
\* looks at the deadline before anything that may be unresolvable).
BatchResolves ==
  \A e \in Executions : batch[e].state = "submitted" /\ poll.on
                           ~> batch[e].state # "submitted" \/ ~ poll.on

\* What is landed was reviewed clean, or committed by an operator.
LandedWasReviewed == Range(main) \subseteq log.reviewed \cup log.operator
=============================================================================
