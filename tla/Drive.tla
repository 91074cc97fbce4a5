------------------------------- MODULE Drive -------------------------------
(***************************************************************************)
(* The unattended drive: crates/familiar-ai-daemon/src/drive.rs, with the  *)
(* rows of storage/src/repos/driver.rs and orchestration.rs.               *)
(*                                                                         *)
(* One session at a time selects batches of ready PRDs, runs each in a     *)
(* worktree of its own on a worker thread, and lands reviewed candidates   *)
(* one by one on the session's integration revision.  Worker threads, a    *)
(* human who releases claims or approves a paused candidate from another   *)
(* terminal, and crashes interleave with the session's thread.             *)
(*                                                                         *)
(* Abstractions.  A commit is the set of PRDs whose landing it contains:   *)
(* a PRD lands once, so ancestry is inclusion.  The backlog is reduced to  *)
(* a status and the session that claimed (Backlog.tla has the rest), the   *)
(* checkpoint to the session whose candidate waits for a scope decision.   *)
(* Scopes and declared resources are one conflict relation.  Whether a     *)
(* ceiling on cost, tokens or time is reached, and whether the session's   *)
(* heartbeat has failed, is a choice at each turn of the loop; both last,  *)
(* and so does the stop they bring about.  The terminations that cut a     *)
(* session short (a budget, a heartbeat, storage, a cascade of failures,   *)
(* an unclassified result, an unknown cost, delivery) are one, stopped;    *)
(* deterministic failures have one reason; an empty backlog is one in      *)
(* which nothing is eligible.  Fast-forwarding the checkout is part of the *)
(* landing before it.  The two runs a session may make of a PRD, the       *)
(* second on a stronger worker, are one claimant.  An attempt is unplaced  *)
(* from its record to that of its workspace, and open from then on.        *)
(***************************************************************************)
EXTENDS Integers, FiniteSets

CONSTANTS Prds,          \* PRD ids; their order is the order of selection
          Deps,          \* the PRDs each depends on
          Conflicts,     \* the PRDs whose scope or resources overlap
          Withheld,      \* PRDs another host may hold, or front matter may
          Laddered,      \* PRDs whose route has a stronger worker
          Poc,           \* whether a PoC self-approval warrant is in force
          Attended,      \* bound: PRDs on which the operator acts
          Parallelism,   \* component parallelism
          MaxPrds,       \* the warrant's ceiling on attempts, 0 for none
          MaxSessions    \* bound: sessions opened

ASSUME DriveAssumption ==
  /\ Prds \subseteq Nat
  /\ IsFiniteSet(Prds)
  /\ Deps \in [Prds -> SUBSET Prds]
  /\ Conflicts \in [Prds -> SUBSET Prds]
  /\ \A p, q \in Prds : q \in Conflicts[p] => p \in Conflicts[q]
  /\ Poc \in BOOLEAN
  /\ Parallelism \in Nat \ {0}
  /\ MaxPrds \in Nat
  /\ MaxSessions \in Nat

VARIABLES
  status, claim,      \* backlog_prds, and the session whose run has claimed
  paused,             \* the session whose candidate awaits a scope decision
  session,            \* driver_sessions: open, or the reason it ended
  revision,           \* integration_revision
  attempt,            \* driver_attempts, the first attempt at each PRD
  ladder,             \* driver_attempts, the escalated one
  integrated,         \* the attempts with integrated_at
  checkout,           \* HEAD of the operator's checkout
  approval,           \* a continuation that has merged and not committed
  cur, pc,            \* the session being driven, and where its thread is
  batch, jobs,        \* targets to prepare, and prepared ones
  active, worker,     \* spawned and not received; how far each worker is
  base,               \* the revision each worktree was made at
  attempted, count,   \* attempted_ids, attempted
  stop, streak,       \* whether stop_after_drain is set, length of failure_streaks
  target, prior,      \* the result in hand, the revision it merges onto
  outcome             \* its outcome; the reason of a session that leaves

rows    == <<status, claim, paused>>
ledger  == <<session, revision, attempt, ladder, integrated>>
human   == <<checkout, approval>>
plan    == <<batch, jobs, attempted, count>>
threads == <<active, worker, base>>
hand    == <<target, prior, outcome>>
vars    == <<rows, ledger, human, cur, pc, plan, threads, stop, streak, hand>>

Sessions == 1 .. MaxSessions
Reasons  == {"nothing_eligible", "stopped", "preflight_failed", "interrupted"}
Results  == {"reviewed", "blocked", "deterministic", "failed", "unclassified"}
NoApproval == [prd |-> 0, session |-> 0, prior |-> {}]
Outcomes == {"none", "unplaced", "open", "completed", "retained"}

TypeOK ==
  /\ status \in [Prds -> {"pending", "in_progress", "completed"}]
  /\ claim \in [Prds -> 0 .. MaxSessions]
  /\ paused \in [Prds -> 0 .. MaxSessions]
  /\ session \in [Sessions -> {"none", "open"} \cup Reasons]
  /\ revision \in [Sessions -> SUBSET Prds]
  /\ attempt \in [Sessions -> [Prds -> Outcomes]]
  /\ ladder \in [Sessions -> [Prds -> {"none", "open", "retained"}]]
  /\ integrated \in [Sessions -> SUBSET Prds]
  /\ checkout \subseteq Prds
  /\ approval = NoApproval \/ approval \in [prd : Prds, session : Sessions, prior : SUBSET Prds]
  /\ cur \in 0 .. MaxSessions
  /\ pc \in {"down", "top", "prepare", "wait", "read", "land", "finish", "escalate", "leave"}
  /\ cur = 0 <=> pc = "down"
  /\ batch \subseteq Prds
  /\ jobs \subseteq Prds
  /\ active \subseteq Prds
  /\ worker \in [Prds -> {"none", "started", "claimed"} \cup Results]
  /\ base \in [Prds -> SUBSET Prds]
  /\ attempted \subseteq Prds
  /\ count \in 0 .. Cardinality(Prds)
  /\ stop \in BOOLEAN
  /\ streak \in Nat
  /\ target \in Prds \cup {0}
  /\ prior \subseteq Prds
  /\ outcome \in {"none", "completed", "retained"} \cup Reasons

(* What a process that drives no session remembers. *)
Forgotten ==
  /\ cur' = 0
  /\ pc' = "down"
  /\ batch' = {} /\ jobs' = {}
  /\ active' = {}
  /\ worker' = [p \in Prds |-> "none"]
  /\ base' = [p \in Prds |-> {}]
  /\ attempted' = {} /\ count' = 0
  /\ stop' = FALSE /\ streak' = 0
  /\ target' = 0 /\ prior' = {} /\ outcome' = "none"

Init ==
  /\ status = [p \in Prds |-> "pending"]
  /\ claim = [p \in Prds |-> 0]
  /\ paused = [p \in Prds |-> 0]
  /\ session = [s \in Sessions |-> "none"]
  /\ revision = [s \in Sessions |-> {}]
  /\ attempt = [s \in Sessions |-> [p \in Prds |-> "none"]]
  /\ ladder = [s \in Sessions |-> [p \in Prds |-> "none"]]
  /\ integrated = [s \in Sessions |-> {}]
  /\ checkout = {}
  /\ approval = NoApproval
  /\ cur = 0 /\ pc = "down"
  /\ batch = {} /\ jobs = {}
  /\ active = {}
  /\ worker = [p \in Prds |-> "none"]
  /\ base = [p \in Prds |-> {}]
  /\ attempted = {} /\ count = 0
  /\ stop = FALSE /\ streak = 0
  /\ target = 0 /\ prior = {} /\ outcome = "none"

-----------------------------------------------------------------------------
(* recover_incomplete: what a dead process left open is retained and       *)
(* interrupted.                                                            *)
Closed(attempts) ==
  [s \in Sessions |-> [p \in Prds |->
     IF attempts[s][p] \in {"unplaced", "open"} THEN "retained" ELSE attempts[s][p]]]

(* drive, up to the loop: recover, open the session on the checkout's HEAD *)
(* and run its preflight.                                                  *)
OpenSession(s) ==
  /\ pc = "down"
  /\ session[s] = "none"
  /\ \A t \in Sessions : t < s => session[t] # "none"
  /\ attempt' = Closed(attempt)
  /\ ladder' = Closed(ladder)
  /\ \E ready \in BOOLEAN :
       /\ session' = [t \in Sessions |->
                        IF t = s THEN IF ready THEN "open" ELSE "preflight_failed"
                        ELSE IF session[t] = "open" THEN "interrupted" ELSE session[t]]
       /\ cur' = IF ready THEN s ELSE 0
       /\ pc' = IF ready THEN "top" ELSE "down"
  /\ revision' = [revision EXCEPT ![s] = checkout]
  /\ UNCHANGED <<rows, integrated, human, plan, threads, stop, streak, hand>>

(* The loop is left with a reason; the thread scope joins the workers. *)
Leave(reason) ==
  /\ pc' = "leave"
  /\ outcome' = reason
  /\ UNCHANGED <<rows, ledger, human, cur, plan, threads, stop, streak, target, prior>>

-----------------------------------------------------------------------------
(* DriveWarrant::exhausted *)
Exhausted(spent) == spent \/ (MaxPrds > 0 /\ count >= MaxPrds)

(* stop_after_drain once the heartbeat and the warrant were looked at. *)
StopNow(spent, lost) == stop \/ lost \/ Exhausted(spent)

Least(a, b) == IF a < b THEN a ELSE b

(* How many more PRDs the warrant and the parallelism leave room for. *)
Remaining(stopping) ==
  IF stopping THEN 0
  ELSE Least(IF MaxPrds = 0 THEN Parallelism ELSE Least(MaxPrds - count, Parallelism),
             IF Parallelism > Cardinality(active) THEN Parallelism - Cardinality(active)
             ELSE 0)

(* The selection takes limit.max(1). *)
Width(stopping) == IF Remaining(stopping) > 1 THEN Remaining(stopping) ELSE 1

Ready(p) ==
  /\ p \notin attempted
  /\ status[p] = "pending"
  /\ \A d \in Deps[p] : status[d] = "completed"

(* Fault: only the picks of this pass are looked at for conflicts. *)
PicksIgnoringHolds(S, foreign, width) ==
  {p \in Prds :
     /\ Ready(p)
     /\ p \notin foreign
     /\ Cardinality({q \in S : q < p}) < width
     /\ \A q \in {r \in S : r < p} : q \notin Conflicts[p]}

(* select_batch_with_foreign takes the ready PRDs in the order of their    *)
(* ids, up to the width, past those that conflict with an earlier pick or  *)
(* with a worker in flight: the batch is the set S with S = Picks(S).      *)
Picks(S, foreign, width) ==
  {p \in Prds :
     /\ Ready(p)
     /\ p \notin foreign
     /\ Cardinality({q \in S : q < p}) < width
     /\ \A q \in active \cup {r \in S : r < p} : q \notin Conflicts[p]}

(* The checks at the top of the loop, passed only while workers run or     *)
(* nothing stops the session.                                              *)
GoesOn(spent) == active # {} \/ ~ (stop \/ Exhausted(spent))

(* A session that is to stop stops once its workers are drained. *)
Stop(spent) ==
  /\ pc = "top"
  /\ ~ GoesOn(spent)
  /\ Leave("stopped")

(* Fault: an empty selection ends the session even while workers run. *)
PassForgettingWorkers(spent, lost) ==
  /\ pc = "top"
  /\ GoesOn(spent)
  /\ \E S \in SUBSET Prds, foreign \in SUBSET Withheld :
       /\ S = Picks(S, foreign, Width(StopNow(spent, lost)))
       /\ IF S = {} THEN Leave("nothing_eligible")
          ELSE /\ stop' = StopNow(spent, lost)
               /\ batch' = S
               /\ pc' = "prepare"
               /\ UNCHANGED <<rows, ledger, human, cur, jobs, attempted, count, threads,
                              streak, hand>>

(* One turn of the loop, up to the preparation of its targets. *)
Pass(spent, lost) ==
  /\ pc = "top"
  /\ GoesOn(spent)
  /\ \E S \in SUBSET Prds, foreign \in SUBSET Withheld :
       /\ S = Picks(S, foreign, Width(StopNow(spent, lost)))
       /\ IF S = {} /\ active = {} THEN Leave("nothing_eligible")
          ELSE /\ stop' = StopNow(spent, lost)
               /\ batch' = S
               /\ pc' = "prepare"
               /\ UNCHANGED <<rows, ledger, human, cur, jobs, attempted, count, threads,
                              streak, hand>>

(* Fault: worktrees start at the checkout's HEAD. *)
PrepareFromCheckout(p) ==
  /\ pc = "prepare"
  /\ p \in batch
  /\ \A q \in batch : p <= q
  /\ batch' = batch \ {p}
  /\ attempted' = attempted \cup {p}
  /\ count' = count + 1
  /\ attempt' = [attempt EXCEPT ![cur][p] = "open"]
  /\ jobs' = jobs \cup {p}
  /\ base' = [base EXCEPT ![p] = checkout]
  /\ UNCHANGED <<rows, session, revision, ladder, integrated, human, cur, pc, active,
                 worker, stop, streak, hand>>

(* The next target is prepared: refused for its quality; attempted and     *)
(* retained at once (no reservation, no worktree), where a failure to      *)
(* record the outcome is ignored; or made a job whose worktree starts at   *)
(* the integration revision.                                               *)
Prepare(p) ==
  /\ pc = "prepare"
  /\ p \in batch
  /\ \A q \in batch : p <= q
  /\ batch' = batch \ {p}
  /\ attempted' = attempted \cup {p}
  /\ \/ UNCHANGED <<count, jobs, attempt, base>>
     \/ /\ count' = count + 1
        /\ \E row \in {"retained", "unplaced"} :
             attempt' = [attempt EXCEPT ![cur][p] = row]
        /\ UNCHANGED <<jobs, base>>
     \/ /\ count' = count + 1
        /\ attempt' = [attempt EXCEPT ![cur][p] = "open"]
        /\ jobs' = jobs \cup {p}
        /\ base' = [base EXCEPT ![p] = revision[cur]]
  /\ UNCHANGED <<rows, session, revision, ladder, integrated, human, cur, pc, active,
                 worker, stop, streak, hand>>

(* Storage or discovery fails between two turns, or while a target is      *)
(* prepared, whose attempt may be on record by then: the loop is left, or  *)
(* drive returns the error and never closes its session ("none").          *)
StorageFails ==
  /\ pc \in {"top", "prepare"}
  /\ pc' = "leave"
  /\ outcome' \in {"stopped", "none"}
  /\ attempt' \in {attempt} \cup
       {[attempt EXCEPT ![cur][p] = "unplaced"] :
          p \in {q \in batch : \A r \in batch : q <= r}}
  /\ UNCHANGED <<rows, session, revision, ladder, integrated, human, cur, plan, threads,
                 stop, streak, target, prior>>

(* The jobs are spawned; with no worker in flight the loop is left. *)
SpawnJobs ==
  /\ pc = "prepare"
  /\ batch = {}
  /\ IF active \cup jobs = {} THEN Leave("nothing_eligible")
     ELSE /\ active' = active \cup jobs
          /\ worker' = [p \in Prds |-> IF p \in jobs THEN "started" ELSE worker[p]]
          /\ jobs' = {}
          /\ pc' = "wait"
          /\ UNCHANGED <<rows, ledger, human, cur, batch, attempted, count, base, stop,
                         streak, hand>>

-----------------------------------------------------------------------------
(* A worker thread, execute_reviewed_candidate: it claims the PRD, or      *)
(* fails before or at the claim,                                           *)
WorkerClaims(p) ==
  /\ worker[p] = "started"
  /\ \/ /\ status[p] = "pending"
        /\ \A d \in Deps[p] : status[d] = "completed"
        /\ status' = [status EXCEPT ![p] = "in_progress"]
        /\ claim' = [claim EXCEPT ![p] = cur]
        /\ paused' = [paused EXCEPT ![p] = 0]
        /\ worker' = [worker EXCEPT ![p] = "claimed"]
     \/ /\ \E result \in {"deterministic", "failed", "unclassified"} :
             worker' = [worker EXCEPT ![p] = result]
        /\ UNCHANGED rows
  /\ UNCHANGED <<ledger, human, cur, pc, plan, active, base, stop, streak, hand>>

(* and sends its result.  One that verification or review blocked may have *)
(* left a candidate that a human can approve.                              *)
WorkerEnds(p) ==
  /\ worker[p] = "claimed"
  /\ \E result \in Results :
       /\ worker' = [worker EXCEPT ![p] = result]
       /\ paused' \in IF result = "blocked" /\ p \in Attended
                        THEN {paused, [paused EXCEPT ![p] = cur]}
                        ELSE {paused}
  /\ UNCHANGED <<status, claim, ledger, human, cur, pc, plan, active, base, stop, streak,
                 hand>>

(* Fault: an abnormal result is taken from the channel and not counted. *)
ReceiveMiscounting(p) ==
  /\ pc = "wait"
  /\ p \in active
  /\ worker[p] \in Results
  /\ target' = p
  /\ active' = IF worker[p] = "unclassified" THEN active ELSE active \ {p}
  /\ worker' = [worker EXCEPT ![p] = "none"]
  /\ outcome' = "retained"
  /\ pc' = IF worker[p] = "reviewed" THEN "read" ELSE "finish"
  /\ UNCHANGED <<rows, ledger, human, cur, plan, base, stop, streak, prior>>

(* result_receiver.recv(): one result, whose scope is held no longer. *)
Receive(p) ==
  /\ pc = "wait"
  /\ p \in active
  /\ worker[p] \in Results
  /\ target' = p
  /\ active' = active \ {p}
  /\ outcome' = "retained"
  /\ pc' = IF worker[p] = "reviewed" THEN "read" ELSE "finish"
  /\ UNCHANGED <<rows, ledger, human, cur, plan, worker, base, stop, streak, prior>>

(* accept_review_risk: a blocked result under a PoC warrant has its PRD    *)
(* completed on the spot, and goes on to the landing as if it were clean.  *)
AcceptRisk(p) ==
  /\ Poc
  /\ pc = "wait"
  /\ p \in active
  /\ worker[p] = "blocked"
  /\ status[p] = "in_progress"
  /\ status' = [status EXCEPT ![p] = "completed"]
  /\ paused' = [paused EXCEPT ![p] = 0]
  /\ target' = p
  /\ active' = active \ {p}
  /\ outcome' = "retained"
  /\ pc' = "read"
  /\ UNCHANGED <<claim, ledger, human, cur, plan, worker, base, stop, streak, prior>>

-----------------------------------------------------------------------------
(* Landing a reviewed candidate: commit it, read the integration revision  *)
(* and merge onto it; git may refuse.                                      *)
ReadRevision ==
  /\ pc = "read"
  /\ prior' = revision[cur]
  /\ pc' \in {"land", "finish"}
  /\ UNCHANGED <<rows, ledger, human, cur, plan, threads, stop, streak, target, outcome>>

(* complete_run_with, on the claim of session s. *)
Completable(p, s) == status[p] = "in_progress" /\ claim[p] = s

(* Fault: the revision is overwritten without asking what it was. *)
IntegrateBlindly(p, s, from) ==
  /\ Completable(p, s)
  /\ p \notin integrated[s]
  /\ status' = [status EXCEPT ![p] = "completed"]
  /\ revision' = [revision EXCEPT ![s] = from \cup {p}]
  /\ integrated' = [integrated EXCEPT ![s] = @ \cup {p}]
  /\ paused' = [paused EXCEPT ![p] = 0]
  /\ checkout' \in {checkout} \cup {c \in {from \cup {p}} : checkout \subseteq c}

(* One transaction: the revision is still the one merged onto, the PRD is  *)
(* completed, the attempt integrated, the checkpoint closed.  Then the     *)
(* checkout is fast-forwarded if git allows it.                            *)
Integrate(p, s, from) ==
  /\ Completable(p, s)
  /\ revision[s] = from
  /\ p \notin integrated[s]
  /\ status' = [status EXCEPT ![p] = "completed"]
  /\ revision' = [revision EXCEPT ![s] = from \cup {p}]
  /\ integrated' = [integrated EXCEPT ![s] = @ \cup {p}]
  /\ paused' = [paused EXCEPT ![p] = 0]
  /\ checkout' \in {checkout} \cup {c \in {from \cup {p}} : checkout \subseteq c}

(* Fault: a landing that fails is not told from one that succeeds. *)
LandHopefully ==
  /\ pc = "land"
  /\ \/ Integrate(target, cur, prior)
     \/ UNCHANGED <<rows, revision, integrated, checkout>>
  /\ outcome' = "completed"
  /\ pc' = "finish"
  /\ UNCHANGED <<claim, session, attempt, ladder, approval, cur, plan, threads, stop,
                 streak, target, prior>>

Land ==
  /\ pc = "land"
  /\ \/ /\ Integrate(target, cur, prior)
        /\ outcome' = "completed"
     \/ /\ ~ (Completable(target, cur) /\ revision[cur] = prior)
        /\ UNCHANGED <<rows, revision, integrated, checkout, outcome>>
  /\ pc' = "finish"
  /\ UNCHANGED <<claim, session, attempt, ladder, approval, cur, plan, threads, stop,
                 streak, target, prior>>

(* Whether a handled result stops the session.  An unclassified one and a  *)
(* third deterministic failure always do.                                  *)
BatchStops ==
  IF \/ worker[target] = "unclassified"
     \/ worker[target] = "deterministic" /\ streak + 1 >= 3
    THEN {TRUE} ELSE BOOLEAN

(* record_attempt_finished, or the storage error that leaves the attempt   *)
(* open; a blocked attempt may go up the ladder.                           *)
FinishAttempt ==
  /\ pc = "finish"
  /\ streak' = IF worker[target] = "deterministic" THEN streak + 1 ELSE streak
  /\ worker' = [worker EXCEPT ![target] = "none"]
  /\ base' = [base EXCEPT ![target] = {}]
  /\ prior' = {}
  /\ outcome' = "none"
  /\ \/ /\ attempt' = [attempt EXCEPT ![cur][target] = outcome]
        /\ \E stops \in BatchStops : stop' = (stop \/ stops)
        /\ \/ pc' = "top" /\ target' = 0 /\ UNCHANGED ladder
           \/ /\ worker[target] = "blocked"
              /\ target \in Laddered
              /\ pc' = "escalate"
              /\ ladder' = [ladder EXCEPT ![cur][target] = "open"]
              /\ UNCHANGED target
     \/ /\ stop' = TRUE
        /\ pc' = "top"
        /\ target' = 0
        /\ UNCHANGED <<attempt, ladder>>
  /\ UNCHANGED <<rows, session, revision, integrated, human, cur, plan, active>>

(* The escalated run admits only a pending PRD, and completes it by itself *)
(* if it succeeds, so that the landing after it is always refused.  The    *)
(* attempt is finished, or storage fails and it stays open.                *)
EndEscalation ==
  /\ pc = "escalate"
  /\ \/ UNCHANGED rows
     \/ /\ status[target] = "pending"
        /\ \A d \in Deps[target] : status[d] = "completed"
        /\ claim' = [claim EXCEPT ![target] = cur]
        /\ \/ /\ status' = [status EXCEPT ![target] = "completed"]
              /\ paused' = [paused EXCEPT ![target] = 0]
           \/ /\ status' = [status EXCEPT ![target] = "in_progress"]
              /\ paused' \in {[paused EXCEPT ![target] = s] : s \in {0, cur}}
  /\ \/ /\ ladder' = [ladder EXCEPT ![cur][target] = "retained"]
        /\ UNCHANGED stop
     \/ /\ stop' = TRUE
        /\ UNCHANGED ladder
  /\ pc' = "top"
  /\ target' = 0
  /\ UNCHANGED <<session, revision, attempt, integrated, human, cur, plan, threads,
                 streak, prior, outcome>>

(* The scope has joined every worker; finish_session. *)
FinishSession ==
  /\ pc = "leave"
  /\ \A p \in active : worker[p] \in Results
  /\ session' = [session EXCEPT ![cur] = IF outcome = "none" THEN @ ELSE outcome]
  /\ Forgotten
  /\ UNCHANGED <<rows, revision, attempt, ladder, integrated, human>>

(* The process dies.  Claims, attempts and the session stay as they are. *)
Crash ==
  /\ pc # "down"
  /\ Forgotten
  /\ UNCHANGED <<rows, ledger, human>>

-----------------------------------------------------------------------------
(* The operator, at another terminal: backlog recover --release, *)
HumanReleases(p) ==
  /\ p \in Attended
  /\ status[p] = "in_progress"
  /\ status' = [status EXCEPT ![p] = "pending"]
  /\ claim' = [claim EXCEPT ![p] = 0]
  /\ UNCHANGED <<paused, ledger, human, cur, pc, plan, threads, stop, streak, hand>>

(* continue_scope_approved_candidate: merge onto the revision of the       *)
(* session that made the candidate, whether or not it is still open,       *)
ApprovalMerges(p) ==
  /\ approval = NoApproval
  /\ paused[p] # 0
  /\ approval' = [prd |-> p, session |-> paused[p], prior |-> revision[paused[p]]]
  /\ UNCHANGED <<rows, ledger, checkout, cur, pc, plan, threads, stop, streak, hand>>

(* and commit as a drive does, if the checkpoint is still the one read. *)
ApprovalLands ==
  LET p == approval.prd  s == approval.session IN
  /\ approval # NoApproval
  /\ approval' = NoApproval
  /\ \/ paused[p] = s /\ Integrate(p, s, approval.prior)
     \/ /\ paused[p] = s => ~ (Completable(p, s) /\ revision[s] = approval.prior)
        /\ UNCHANGED <<rows, revision, integrated, checkout>>
  /\ UNCHANGED <<claim, session, attempt, ladder, cur, pc, plan, threads, stop, streak,
                 hand>>

-----------------------------------------------------------------------------
Loop ==
  \/ \E spent \in BOOLEAN : Stop(spent) \/ \E lost \in BOOLEAN : Pass(spent, lost)
  \/ SpawnJobs \/ ReadRevision \/ Land \/ FinishAttempt \/ EndEscalation \/ FinishSession
  \/ \E p \in Prds : Prepare(p) \/ Receive(p) \/ AcceptRisk(p)

Work(p) == WorkerClaims(p) \/ WorkerEnds(p)

Next ==
  \/ \E s \in Sessions : OpenSession(s)
  \/ Loop \/ StorageFails \/ Crash \/ ApprovalLands
  \/ \E p \in Prds : Work(p) \/ HumanReleases(p) \/ ApprovalMerges(p)

Spec == Init /\ [][Next]_vars

-----------------------------------------------------------------------------
(* Two workers in flight never touch the same scope or resource, whatever  *)
(* was received, retained or landed between their admissions.              *)
NoOverlap == \A p, q \in active : p # q => q \notin Conflicts[p]

(* The merge queue loses nothing: every landing on record, by a session or *)
(* by an approval that races it, is contained in that session's revision.  *)
LandingsAreKept == \A s \in Sessions : integrated[s] \subseteq revision[s]

(* An attempt reported completed is integrated, and its PRD is completed:  *)
(* a review that succeeded is not enough.                                  *)
CompletedIsIntegrated ==
  \A s \in Sessions, p \in Prds :
    attempt[s][p] = "completed" => p \in integrated[s] /\ status[p] = "completed"

(* A worker starts on what its session has landed: a dependency integrated *)
(* by the session is in the worktree of its dependents, even when the      *)
(* checkout could not be fast-forwarded.                                   *)
StartsOnLandedWork ==
  cur # 0 => \A p \in active : Deps[p] \cap integrated[cur] \subseteq base[p]

(* A session that ends because nothing is left to do has accounted for     *)
(* every attempt that had a workspace, and so may have run.                *)
EndsAccounted ==
  \A s \in Sessions : session[s] = "nothing_eligible" =>
    \A p \in Prds : attempt[s][p] # "open" /\ ladder[s][p] # "open"

(* The loop waits only for results that will come: whenever it is in recv, *)
(* the workers it counts are running or have sent, whatever panics,        *)
(* refusals and failed preparations came before.                           *)
NeverWaitsInVain ==
  pc = "wait" => active # {} /\ \A p \in active : worker[p] # "none"
=============================================================================
