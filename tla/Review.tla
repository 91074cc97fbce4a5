------------------------------- MODULE Review ------------------------------
(***************************************************************************)
(* One review cycle: ReviewCoordinator::run of                             *)
(* crates/familiar-ai-review/src/coordinator.rs with the checks it runs    *)
(* (verification.rs), the validation of a reviewer's answer (policy.rs),   *)
(* the scope and tier decisions (Scope) and the durable cycle of           *)
(* crates/familiar-ai-storage/src/repos/review.rs.                         *)
(*                                                                         *)
(* The coordinator is one process, stopped by a crash at any point and     *)
(* driven again under the same cycle id by a later resume.  It keeps the   *)
(* cycle in memory (cyc) and saves it at the points the code saves it      *)
(* (stored).  Agents, checks and git are external: what they return is a   *)
(* choice.  A remediation agent writes the worktree, also when it fails.   *)
(* Meanwhile a human approves scope findings, and any process that starts  *)
(* a run interrupts the cycles it finds unfinished.                        *)
(*                                                                         *)
(* Abstractions.  A candidate (the content of the worktree) is a model     *)
(* value that stands for its diff and for the diff's content hash.  A      *)
(* finding is what the coordinator tells apart of it.  Tokens, cost and    *)
(* duration are small numbers, of which the first two may be unknown;      *)
(* 64-bit overflow of the sums is left out.  The checks still to run are   *)
(* places in the plan, of which the first is next.  Artifacts, prompts,    *)
(* the append-only event tables and the waivers the coordinator only       *)
(* carries over are left out.                                              *)
(*                                                                         *)
(* ReviewInit, ReviewNext and ReviewSpec carry their long names because    *)
(* the module is also extended beside FileIndex.                           *)
(***************************************************************************)
EXTENDS Scope, Functions

CONSTANTS Contents,          \* candidates the worktree may hold
          Candidate,         \* content -> its changes, evidence and size
          Plan,              \* the verification plan: a sequence of checks
          Required,          \* checks that are required
          CheckPaths,          \* check -> the paths under its path_prefixes
          FullAfterRemediation,
          FindingIds, Cites, \* findings, and the path each one cites
          Reviewer,          \* "full"/"standard" -> the configured assignment
          Isolation,         \* adapter each reviewing agent isolates, or "none"
          AllowSameModel,
          Limits,            \* configurations: a ceiling per dimension, or NoLimit
          Reservation,       \* per action and dimension, or Unknown
          Initial,           \* the usage of the implementation
          Usages,            \* what a finished agent may report
          MaxReviews, MaxRemediations,
          MaxDrives,         \* bound on how often the cycle is driven
          SpendCap           \* bound above which spending is not told apart

Unknown == -1
NoLimit == -1
Dims    == {"tokens", "cost", "duration"}
Checks  == Range(Plan)
Results == {"passed", "failed", "denied"}   \* failed: also timed out, signaled,
                                            \* inconclusive
OpenStatuses == {"blocking", "advisory", "scope", "architectural"}
Statuses == OpenStatuses \cup {"absent", "resolved"}
Amounts  == [Dims -> Nat \cup {Unknown}]

\* WorkflowLimits::validate.
ASSUME LimitsAssumption ==
  /\ MaxReviews \in Nat \ {0}
  /\ MaxRemediations \in Nat \ {0}
  /\ \A limits \in Limits : \E d \in Dims : limits[d] # NoLimit
  /\ \A limits \in Limits : \A d \in Dims : limits[d] < SpendCap

\* The required checks are checks of the plan; usage is counted or unknown.
ASSUME ReviewAssumption ==
  /\ Required \subseteq Checks
  /\ Initial \in Amounts /\ Usages \subseteq Amounts
  /\ {SpendCap, MaxDrives} \subseteq Nat

NoCycle == [state |-> "none"]

VARIABLES pc,        \* where the coordinator is; "idle" when no one drives
          cyc,       \* the cycle in memory
          stored,    \* review_cycles.cycle_json
          approved,  \* scope findings a human durably approved
          tree,      \* the content of the worktree
          drives

reviewVars == <<pc, cyc, stored, approved, tree, drives>>

NoFindings == [f \in FindingIds |-> "absent"]
NoEvidence == [c \in Checks |-> [status |-> "none", tested |-> "none"]]

NewCycle(request, limits) ==
  [state |-> "collecting_evidence", attempt |-> 0, rem |-> 0,
   captured |-> "none", scope |-> {}, tier |-> "none", reviewer |-> "full",
   before |-> NoEvidence, after |-> NoEvidence, todo |-> {}, cause |-> "none",
   failing |-> {}, spent |-> Initial, reviewed |-> FALSE, result |-> NoFindings,
   prior |-> {}, raised |-> {}, pending |-> FALSE,
   stop |-> "none", request |-> request, ceiling |-> limits]

Phases == {"idle", "capture", "verify", "remediate", "remediating", "recapture",
           "reverify", "tier", "review", "reviewing"}
Terminal == {"completed", "human_review_required", "interrupted"}

States   == {"collecting_evidence", "verifying", "remediating", "reverifying",
             "awaiting_review", "reviewed"} \cup Terminal
Reasons  == {"clean_review", "evidence_failure", "scope_broadened", "scope_ambiguous",
             "limit_exhausted", "retry_limit_exhausted", "verification_unsuccessful",
             "environment_denied", "agent_failure", "malformed_review",
             "no_independent_reviewer", "conflicting_findings",
             "architectural_approval_required", "interrupted"}

\* Every finding and every tier some candidate gets.
ScopeFindings == UNION {EvaluateScope(Candidate[x]) : x \in Contents}
Tiers == {SelectReviewTier(Candidate[x], EvaluateScope(Candidate[x])) : x \in Contents}
Evidences == [Checks -> [status : Results \cup {"none"}, tested : Contents \cup {"none"}]]

Cycles ==
  [state : States, attempt : 0 .. MaxReviews, rem : 0 .. MaxRemediations,
   captured : Contents \cup {"none"}, scope : SUBSET ScopeFindings,
   tier : Tiers \cup {"none"}, reviewer : {"full", "standard"},
   before : Evidences, after : Evidences, todo : SUBSET DOMAIN Plan,
   cause : {"none", "check", "review"}, failing : SUBSET Checks, spent : Amounts,
   reviewed : BOOLEAN, result : [FindingIds -> Statuses], prior : SUBSET FindingIds,
   raised : SUBSET FindingIds, pending : BOOLEAN, stop : Reasons \cup {"none"},
   request : SUBSET ScopeFindings, ceiling : Limits]

\* The shape of the state, with the retry limits of the cycle (coordinator.rs:39-62).
ReviewTypeOK ==
  /\ pc \in Phases
  /\ tree \in Contents
  /\ drives \in 0 .. MaxDrives
  /\ approved \subseteq ScopeFindings
  /\ stored \in Cycles \cup {NoCycle}
  /\ IF pc = "idle" THEN cyc = NoCycle ELSE cyc \in Cycles

ReviewInit ==
  /\ pc = "idle" /\ cyc = NoCycle /\ stored = NoCycle
  /\ approved = {}
  /\ tree \in Contents
  /\ drives = 0

----------------------------------------------------------------------------
(* The budget: reserve, add_usage, budget_violation.                       *)

Plus(u, v) == [d \in Dims |-> IF u[d] = Unknown \/ v[d] = Unknown THEN Unknown
                              ELSE Min({u[d] + v[d], SpendCap})]

\* failed_stage: an agent that failed reports neither tokens nor cost.
FailedUsage == [tokens |-> Unknown, cost |-> Unknown, duration |-> 1]
CheckUsage  == [tokens |-> 0, cost |-> 0, duration |-> 1]

Reserve(c, action) ==
  \A d \in Dims : \/ c.ceiling[d] = NoLimit
                  \/ /\ c.spent[d] # Unknown
                     /\ Reservation[action][d] # Unknown
                     /\ c.spent[d] + Reservation[action][d] <= c.ceiling[d]

BudgetViolation(c) ==
  \E d \in Dims : /\ c.ceiling[d] # NoLimit
                  /\ c.spent[d] = Unknown \/ c.spent[d] > c.ceiling[d]

----------------------------------------------------------------------------
(* Saving and stopping.                                                    *)

\* save_cycle.
Save(c) == stored' = c

Goto(c, where) == pc' = where /\ cyc' = c

SaveAndGoto(c, where) == Save(c) /\ Goto(c, where)

Stop(c, reason) ==
  /\ Save([c EXCEPT !.state = IF reason = "clean_review" THEN "completed"
                              ELSE "human_review_required",
                    !.stop = reason])
  /\ Goto(NoCycle, "idle")

\* run, up to the first save: a new cycle, with the approvals and the
\* limits read when the request was built.
Begin ==
  /\ pc = "idle" /\ drives < MaxDrives /\ stored.state # "completed"
  /\ drives' = drives + 1
  /\ \E limits \in Limits :
       SaveAndGoto(NewCycle(approved, limits), "capture")
  /\ UNCHANGED <<approved, tree>>

ScopeStop(findings) ==
  IF Disposition(findings) = "contained" \/ HumanReviewAbsorbed(findings, cyc.request)
    THEN "none"
  ELSE IF Disposition(findings) = "broadened" THEN "scope_broadened" ELSE "scope_ambiguous"

\* The candidate is captured, its scope evaluated and its tier selected.
Captured(c, findings) ==
  [c EXCEPT !.captured = tree, !.scope = @ \cup findings,
            !.tier = SelectReviewTier(Candidate[tree], findings)]

\* Evidence that cannot be collected stops the cycle.
EvidenceFails ==
  /\ pc \in {"capture", "recapture", "review"}
  /\ pc = "review" => cyc.attempt < MaxReviews /\ Reserve(cyc, "review")
  /\ Stop(cyc, "evidence_failure")
  /\ UNCHANGED <<approved, tree, drives>>

Capture ==
  /\ pc = "capture"
  /\ LET findings == EvaluateScope(Candidate[tree])
         c == Captured(cyc, findings)
     IN  IF ScopeStop(findings) # "none" THEN Stop(c, ScopeStop(findings))
         ELSE SaveAndGoto([c EXCEPT !.state = "verifying", !.todo = DOMAIN Plan], "verify")
  /\ UNCHANGED <<approved, tree, drives>>

----------------------------------------------------------------------------
(* Verification.                                                           *)

Evidence(c)   == IF c.rem = 0 THEN c.before ELSE c.after
RequiredFailed(ev) ==
  {k \in Required : ev[k].status \notin {"passed", "none"}}
Denied(ev) == \E k \in Required : ev[k].status = "denied"

\* Fault: required checks the remediation did not touch are not run again.
RelevantChecksNotRequired(changed, cited, unsuccessful) ==
  {i \in DOMAIN Plan : \/ FullAfterRemediation
                       \/ Plan[i] \in cited \cup unsuccessful
                       \/ CheckPaths[Plan[i]] \cap changed # {}}

\* relevant_checks, as places in the plan.
RelevantChecks(changed, cited, unsuccessful) ==
  {i \in DOMAIN Plan : \/ FullAfterRemediation
                       \/ Plan[i] \in Required
                       \/ Plan[i] \in cited \cup unsuccessful
                       \/ CheckPaths[Plan[i]] \cap changed # {}}

\* The next check: reserved, run against the captured candidate, recorded.
RunCheck(i, status) ==
  /\ pc \in {"verify", "reverify"}
  /\ i \in cyc.todo /\ \A j \in cyc.todo : i <= j
  /\ LET k  == Plan[i]
         ev == [status |-> status, tested |-> cyc.captured]
         c  == [cyc EXCEPT !.todo = @ \ {i}, !.spent = Plus(@, CheckUsage),
                           !.before[k] = IF pc = "verify" THEN ev ELSE @,
                           !.after[k] = IF pc = "reverify" THEN ev ELSE @]
     IN  IF ~ Reserve(cyc, "verification") THEN Stop(cyc, "limit_exhausted")
         ELSE IF BudgetViolation(c) THEN Stop(c, "limit_exhausted")
         ELSE Goto(c, pc) /\ UNCHANGED stored
  /\ UNCHANGED <<approved, tree, drives>>

CheckCannotRun ==
  /\ pc \in {"verify", "reverify"} /\ cyc.todo # {}
  /\ Reserve(cyc, "verification")
  /\ Stop(cyc, "verification_unsuccessful")
  /\ UNCHANGED <<approved, tree, drives>>

\* All checks ran before the review: a required failure goes to the
\* implementer, a denied environment to a human.
Verified ==
  /\ pc = "verify" /\ cyc.todo = {}
  /\ LET failing == RequiredFailed(cyc.before) IN
     IF failing = {} THEN Goto(cyc, "tier") /\ UNCHANGED stored
     ELSE IF Denied(cyc.before) THEN Stop(cyc, "environment_denied")
     ELSE /\ Goto([cyc EXCEPT !.failing = failing, !.cause = "check"], "remediate")
          /\ UNCHANGED stored
  /\ UNCHANGED <<approved, tree, drives>>

\* All relevant checks ran after a remediation.
Reverified ==
  /\ pc = "reverify" /\ cyc.todo = {}
  /\ LET failing == RequiredFailed(cyc.after)
         missing == {k \in cyc.failing : cyc.after[k].status = "none"}
     IN  IF cyc.cause = "check" /\ Denied(cyc.after)
           THEN Stop(cyc, "environment_denied")
         ELSE IF cyc.cause = "check" /\ missing # {}
           THEN Stop(cyc, "verification_unsuccessful")
         ELSE IF failing = {}
           THEN /\ Goto([cyc EXCEPT !.failing = {}],
                        IF cyc.cause = "check" THEN "tier" ELSE "review")
                /\ UNCHANGED stored
         ELSE IF cyc.cause = "check"
           THEN /\ Goto([cyc EXCEPT !.failing = failing], "remediate")
                /\ UNCHANGED stored
         ELSE Stop(cyc, "verification_unsuccessful")
  /\ UNCHANGED <<approved, tree, drives>>

----------------------------------------------------------------------------
(* Remediation, driven by failing checks or by blocking findings.          *)

Remediate ==
  /\ pc = "remediate"
  /\ IF cyc.rem >= MaxRemediations THEN Stop(cyc, "retry_limit_exhausted")
     ELSE IF ~ Reserve(cyc, "remediation") THEN Stop(cyc, "limit_exhausted")
     ELSE SaveAndGoto([cyc EXCEPT !.rem = @ + 1, !.state = "remediating"],
                      "remediating")
  /\ UNCHANGED <<approved, tree, drives>>

\* The agent failed, having changed the worktree or not.
RemediationFails(content) ==
  /\ pc = "remediating"
  /\ tree' = content
  /\ LET c == [cyc EXCEPT !.spent = Plus(@, FailedUsage)] IN
     IF c.rem >= MaxRemediations THEN Stop(c, "agent_failure")
     ELSE SaveAndGoto(c, "remediate")
  /\ UNCHANGED <<approved, drives>>

RemediationDone(content, usage) ==
  /\ pc = "remediating"
  /\ tree' = content
  /\ LET c == [cyc EXCEPT !.spent = Plus(@, usage)] IN
     IF BudgetViolation(c) THEN Stop(c, "limit_exhausted")
     ELSE Goto(c, "recapture") /\ UNCHANGED stored
  /\ UNCHANGED <<approved, drives>>

----------------------------------------------------------------------------
(* The reviewer and its independence of the implementer.                   *)

SelectedReviewer(tier) == IF tier = "standard" THEN "standard" ELSE "full"

\* check_independence.
Independent(reviewer, isolated) ==
  /\ ~ Reviewer[reviewer].sameSession
  /\ \/ Reviewer[reviewer].distinct
     \/ AllowSameModel /\ isolated = Reviewer[reviewer].adapter

\* active_reviewer.
ActiveReviewer(tier) ==
  IF tier = "batch" /\ "batch" \in DOMAIN Isolation THEN "batch" ELSE "interactive"

\* The candidate is captured again.  After a review the reviewer is chosen
\* anew too, its independence judged by the interactive agent's isolation.
Recapture(cited) ==
  /\ pc = "recapture"
  /\ LET findings == EvaluateScope(Candidate[tree])
         c == [Captured(cyc, findings) EXCEPT
                 !.reviewer = IF cyc.cause = "review"
                              THEN SelectedReviewer(SelectReviewTier(Candidate[tree], findings))
                              ELSE @]
         unsuccessful == IF cyc.cause = "check" THEN cyc.failing
                         ELSE {k \in Checks : cyc.before[k].status # "passed"}
         changed == {ch.path : ch \in Candidate[tree].changes}
     IN  /\ cited \subseteq Checks
         /\ cyc.cause = "check" => cited = cyc.failing
         /\ IF cyc.cause = "review" /\ ~ Independent(c.reviewer, Isolation["interactive"])
              THEN Stop(c, "no_independent_reviewer")
            ELSE IF ScopeStop(findings) # "none" THEN Stop(c, ScopeStop(findings))
            ELSE LET d == [c EXCEPT !.state = "reverifying", !.after = NoEvidence,
                                    !.todo = RelevantChecks(changed, cited, unsuccessful)]
                 IN  Goto(d, "reverify") /\ Save(c)
  /\ UNCHANGED <<approved, tree, drives>>

\* A checks-only candidate is done; any other needs an independent reviewer.
Tier ==
  /\ pc = "tier"
  /\ LET reviewer == SelectedReviewer(cyc.tier) IN
     IF cyc.tier = "checks_only" THEN Stop(cyc, "clean_review")
     ELSE IF ~ Independent(reviewer, Isolation[ActiveReviewer(cyc.tier)])
       THEN Stop(cyc, "no_independent_reviewer")
     ELSE /\ Goto([cyc EXCEPT !.reviewer = reviewer], "review")
          /\ UNCHANGED stored
  /\ UNCHANGED <<approved, tree, drives>>

----------------------------------------------------------------------------
(* The review loop.                                                        *)

\* Fault: an attempt that is started is not counted.
StartReviewUncounted ==
  /\ pc = "review"
  /\ IF cyc.attempt >= MaxReviews THEN Stop(cyc, "retry_limit_exhausted")
     ELSE IF ~ Reserve(cyc, "review") THEN Stop(cyc, "limit_exhausted")
     ELSE SaveAndGoto([cyc EXCEPT !.state = "awaiting_review"], "reviewing")
  /\ UNCHANGED <<approved, tree, drives>>

StartReview ==
  /\ pc = "review"
  /\ IF cyc.attempt >= MaxReviews THEN Stop(cyc, "retry_limit_exhausted")
     ELSE IF ~ Reserve(cyc, "review") THEN Stop(cyc, "limit_exhausted")
     ELSE SaveAndGoto([cyc EXCEPT !.attempt = @ + 1, !.state = "awaiting_review"],
                      "reviewing")
  /\ UNCHANGED <<approved, tree, drives>>

\* An attempt that gave no accepted result, with what it cost.
AttemptLost(usage, reason) ==
  LET c == [cyc EXCEPT !.spent = Plus(@, usage)] IN
  IF c.attempt < MaxReviews THEN SaveAndGoto(c, "review") ELSE Stop(c, reason)

ReviewFails ==
  /\ pc = "reviewing"
  /\ AttemptLost(FailedUsage, "agent_failure")
  /\ UNCHANGED <<approved, tree, drives>>

\* The reviewer's runtime cannot review at all: run returns an error.
ReviewOutage ==
  /\ pc = "reviewing"
  /\ Goto(NoCycle, "idle")
  /\ UNCHANGED <<stored, approved, tree, drives>>

ReviewParks ==
  /\ pc = "reviewing" /\ ActiveReviewer(cyc.tier) = "batch"
  /\ Save([cyc EXCEPT !.pending = TRUE])
  /\ Goto(NoCycle, "idle")
  /\ UNCHANGED <<approved, tree, drives>>

\* apply_and_validate, beyond the form of the answer: the evidence is about
\* this candidate, and every prior finding is disposed of.
Valid(result) ==
  /\ \A k \in Checks : Evidence(cyc)[k].status # "none" =>
                         Evidence(cyc)[k].tested = cyc.captured
  /\ \A f \in cyc.prior : result[f] # "absent"

\* Paths on which the scope policy, or a human for it, has already decided.
Adjudicated(c) ==
  {f.path : f \in {g \in c.scope : \/ g.decision \in Authorised
                                   \/ g.decision \in Gated /\ g \in c.request}}

Blocking(c) ==
  {f \in FindingIds : \/ c.result[f] \in {"blocking", "architectural"}
                      \/ c.result[f] = "scope" /\ Cites[f] \notin Adjudicated(c)}

\* Fault: advisory findings are not carried into the next review.
CarryForwardBlocking(result) ==
  {f \in FindingIds : result[f] \in OpenStatuses \ {"advisory"}}

\* Every open finding carries into the next review, blocking or not.
CarryForward(result) == {f \in FindingIds : result[f] \in OpenStatuses}

\* An answer validation refuses for its form: about another package, citing
\* what is not in it, not even the answer of the reviewer that was asked.
ReviewMalformed(usage) ==
  /\ pc = "reviewing"
  /\ AttemptLost(usage, "malformed_review")
  /\ UNCHANGED <<approved, tree, drives>>

\* The reviewer answers; conflict is what findings_conflict sees of the claims
\* of two open findings.
ReviewReturns(result, usage, conflict) ==
  /\ pc = "reviewing"
  /\ conflict => Cardinality(CarryForward(result)) > 1
  /\ LET c == [cyc EXCEPT !.spent = Plus(@, usage), !.state = "reviewed",
                          !.reviewed = TRUE, !.result = result,
                          !.raised = {f \in FindingIds :
                             result[f] \in OpenStatuses \/ (f \in @ /\ result[f] = "absent")}]
     IN  IF ~ Valid(result) THEN AttemptLost(usage, "malformed_review")
         ELSE IF BudgetViolation(c)
           THEN Stop([cyc EXCEPT !.spent = c.spent], "limit_exhausted")
         ELSE IF conflict THEN Stop(c, "conflicting_findings")
         ELSE IF Blocking(c) = {} THEN Stop(c, "clean_review")
         ELSE IF \E f \in Blocking(c) : result[f] = "architectural"
           THEN Stop(c, "architectural_approval_required")
         ELSE SaveAndGoto([c EXCEPT !.cause = "review", !.prior = CarryForward(result)],
                          "remediate")
  /\ UNCHANGED <<approved, tree, drives>>

----------------------------------------------------------------------------
(* Around the coordinator.                                                 *)

Crash ==
  /\ pc # "idle"
  /\ tree' \in IF pc = "remediating" THEN Contents ELSE {tree}
  /\ Goto(NoCycle, "idle")
  /\ UNCHANGED <<stored, approved, drives>>

\* recover_incomplete, run by the daemon at start and by every run that is
\* admitted, whoever drives the cycle.
RecoverIncomplete ==
  /\ stored # NoCycle /\ stored.state \notin Terminal
  /\ stored' = [stored EXCEPT !.state = "interrupted", !.stop = "interrupted"]
  /\ UNCHANGED <<pc, cyc, approved, tree, drives>>

\* A human decides a scope finding of a cycle that stopped on it.
ApproveScope(f) ==
  /\ stored # NoCycle
  /\ stored.stop \in {"scope_broadened", "scope_ambiguous"}
  /\ f \in stored.scope \ approved
  /\ f.decision \in Gated
  /\ approved' = approved \cup {f}
  /\ UNCHANGED <<pc, cyc, stored, tree, drives>>

Coordinate ==
  \/ Capture \/ EvidenceFails
  \/ \E i \in DOMAIN Plan, s \in Results : RunCheck(i, s)
  \/ CheckCannotRun \/ Verified \/ Reverified
  \/ Remediate
  \/ \E x \in Contents : RemediationFails(x)
  \/ \E x \in Contents, u \in Usages : RemediationDone(x, u)
  \/ \E cited \in SUBSET Checks : Recapture(cited)
  \/ Tier \/ StartReview \/ ReviewFails \/ ReviewOutage \/ ReviewParks
  \/ \E u \in Usages : ReviewMalformed(u)
  \/ \E result \in [FindingIds -> Statuses], u \in Usages, conflict \in BOOLEAN :
       ReviewReturns(result, u, conflict)

ReviewNext ==
  \/ Begin
  \/ Coordinate
  \/ Crash \/ RecoverIncomplete
  \/ \E f \in IF stored = NoCycle THEN {} ELSE stored.scope : ApproveScope(f)

ReviewSpec == ReviewInit /\ [][ReviewNext]_reviewVars /\ WF_reviewVars(Coordinate)

----------------------------------------------------------------------------
(* Properties.                                                             *)

Clean == stored # NoCycle /\ stored.state = "completed"

\* A cycle stored as cleanly completed rests on required checks that all ran
\* and passed on exactly the candidate that is in the worktree, however many
\* remediations, failed agents and crashes lie behind it (coordinator.rs:612,
\* 1222; relevant_checks).
CleanIsTested ==
  Clean => /\ stored.captured = tree
           /\ \A k \in Required :
                Evidence(stored)[k] = [status |-> "passed", tested |-> tree]

\* No objection is lost between attempts: in a cleanly completed cycle a
\* finding that any accepted review of the cycle raised and no later one
\* resolved is still before the last reviewer, and none of them blocks
\* (coordinator.rs:893-909, PriorFindingNotDisposed in policy.rs).
NoObjectionForgotten ==
  Clean => /\ \A f \in stored.raised : stored.result[f] # "absent"
           /\ Blocking(stored) = {}

\* Every change of a candidate is approved by a human, or granted.
HasAuthority(x) ==
  \A change \in Candidate[x].changes : \A s \in Subjects(change) :
    \/ Finding(s, Candidate[x].evidence) \in approved
    \/ /\ ~ \E rule \in Policy.prohibited : Prohibits(rule, s)
       /\ \/ Policy.expected[s.path] # "none"
          \/ s.path \in Policy.allowed \cup Policy.surface
          \/ s.kind = "copied" /\ s.side = "old"
          \/ Dependency(Classify(s.path)) /\ Candidate[x].evidence.newCrates = {}

\* Every change of a cleanly completed candidate has an authority: a path the
\* PRD declares, a configured path, a special-class rule that grants it, or a
\* finding a human approved; and no change of a kind and path a prohibition
\* names is among them unless a human approved it for what it is.
CleanIsAuthorised == Clean => HasAuthority(tree)

\* A cycle that is driven comes to an end: every loop of the coordinator
\* consumes a bounded attempt, whatever the agents answer.
CycleEnds == pc # "idle" ~> pc = "idle"
============================================================================
