------------------------------- MODULE Scope -------------------------------
(***************************************************************************)
(* What a candidate may touch and how closely it is reviewed: the scope    *)
(* policy of crates/familiar-ai-review/src/policy.rs and the review tiers  *)
(* of crates/familiar-ai-review/src/tier.rs.  Both are pure functions of   *)
(* the compiled policy and of the captured candidate; they are operators   *)
(* here, and the review coordinator (Review) applies them to every         *)
(* candidate it captures.                                                  *)
(*                                                                         *)
(* Abstractions.  A path is a model value.  How a path matches an entry of *)
(* the policy is given with the policy: `expected` is the kind of the      *)
(* first Expected Files entry that matches a path, `allowed` the paths     *)
(* under a configured allowed path, `surface` the crates/<name>/tests      *)
(* paths whose crate the contract declares, `builtin` the classes the      *)
(* built-in basename and directory rules give a path, `unsafe` the paths   *)
(* that are not repository-relative.  A finding keeps the fields its       *)
(* substance hash tells apart; the wording of rules is left out.           *)
(***************************************************************************)
EXTENDS Integers, FiniteSets, FiniteSetsExt

CONSTANTS PolicyPaths,   \* the paths of a candidate
          NoPath,        \* ChangedFile.old_path is None
          Policy,        \* the compiled ScopePolicySnapshot
          TierPolicy     \* the ReviewTierPolicy and the declared risk classes

Kinds == {"added", "modified", "deleted", "renamed", "copied",
          "type_changed", "unmerged"}
SpecialClasses == {"manifest", "lockfile", "migration", "configuration",
                   "test", "generated"}
Classes == SpecialClasses \cup {"ordinary", "ambiguous"}
Changes == [path : PolicyPaths, kind : Kinds, old : PolicyPaths \cup {NoPath}]

(***************************************************************************)
(* compile_scope_policy: a policy that grants no authority, or whose       *)
(* classification rules cannot be told apart, is refused before a run is   *)
(* admitted.                                                               *)
(***************************************************************************)
CompileScopePolicy(p) ==
  /\ p.allowed # {} \/ (p.expansion /\ \E path \in PolicyPaths : p.expected[path] # "none")
  /\ \A q, r \in p.classRules :
       q.paths = r.paths /\ q.precedence = r.precedence => q.class = r.class

ASSUME PolicyAssumption == CompileScopePolicy(Policy)

Authorised == {"allowed", "justified"}
Gated      == {"ambiguous_human_review", "undeclared_expansion"}

(***************************************************************************)
(* classify: configured rules win over built-in ones; several configured   *)
(* classes need one highest precedence, several built-in ones conflict.    *)
(***************************************************************************)
Classify(path) ==
  LET configured == {r \in Policy.classRules : path \in r.paths}
      top    == Max({r.precedence : r \in configured})
      best   == {r.class : r \in {q \in configured : q.precedence = top}}
      agreed == {r.class : r \in configured}
      Sole(classes, none) ==
        IF classes = {} THEN none
        ELSE IF Cardinality(classes) = 1 THEN CHOOSE c \in classes : TRUE
        ELSE "ambiguous"
  IN  IF configured = {} THEN Sole(Policy.builtin[path], "ordinary")
      ELSE IF Cardinality(agreed) = 1 THEN Sole(agreed, "ordinary")
      ELSE Sole(best, "ordinary")

Prohibits(rule, s) ==
  /\ rule.kinds = {} \/ s.kind \in rule.kinds
  /\ IF rule.on = "path" THEN s.path \in rule.paths
                         ELSE Classify(s.path) = rule.class

\* Evidence no rule may be applied to.
BadEvidence(s, evidence) ==
  \/ s.path \in Policy.unsafe
  \/ s.kind \in {"renamed", "copied"} /\ s.old = NoPath
  \/ s.kind \in {"type_changed", "unmerged"}
  \/ s.path \in evidence.symlinks
  \/ Classify(s.path) = "ambiguous"

Dependency(class) == class \in {"manifest", "lockfile"}

\* Step 3: what the policy of a special class decides; "none" lets the path
\* rules decide.
ClassGate(s, class, evidence) ==
  LET policy == Policy.classPolicy[class] IN
  CASE policy = "deny" -> "prohibited"
    [] policy = "human_review" ->
         IF Policy.expected[s.path] = "exact" THEN "justified"
         ELSE IF Dependency(class) /\ evidence.newCrates = {} THEN "allowed"
         ELSE "ambiguous_human_review"
    [] policy = "allow_when_expected" /\ Policy.expected[s.path] = "none" ->
         IF class = "test" /\ s.path \in Policy.surface THEN "justified"
         ELSE "undeclared_expansion"
    [] policy = "allow_when_configured" /\ s.path \notin Policy.allowed ->
         "undeclared_expansion"
    [] OTHER -> "none"

\* Steps 4 to 7: the static ceiling, the PRD's declaration, a path that is
\* only configured, no match at all.
PathRule(s) ==
  LET declared == Policy.expected[s.path] # "none" IN
  IF s.path \in Policy.allowed
    THEN IF declared \/ Policy.mode = "expected_or_configured"
           THEN "allowed" ELSE "undeclared_expansion"
    ELSE IF declared /\ Policy.expansion
           THEN "justified" ELSE "undeclared_expansion"

\* Fault: the prohibitions are not consulted.
DecideUnprohibited(s, evidence) ==
  LET class == Classify(s.path)
      gate  == IF class = "ordinary" THEN "none"
               ELSE ClassGate(s, class, evidence)
  IN  IF BadEvidence(s, evidence) THEN "ambiguous_human_review"
      ELSE IF s.kind = "copied" /\ s.side = "old" THEN "allowed"
      ELSE IF gate # "none" THEN gate
      ELSE PathRule(s)

Decide(s, evidence) ==
  LET class == Classify(s.path)
      gate  == IF class = "ordinary" THEN "none"
               ELSE ClassGate(s, class, evidence)
  IN  IF BadEvidence(s, evidence) THEN "ambiguous_human_review"
      ELSE IF \E rule \in Policy.prohibited : Prohibits(rule, s)
             THEN "prohibited"
      ELSE IF s.kind = "copied" /\ s.side = "old" THEN "allowed"
      ELSE IF gate # "none" THEN gate
      ELSE PathRule(s)

\* evaluate_subject: the finding about one side of one change.
Finding(s, evidence) ==
  [path |-> s.path, old |-> s.old, kind |-> s.kind, side |-> s.side,
   class |-> Classify(s.path), decision |-> Decide(s, evidence)]

Subjects(change) ==
  {[path |-> change.path, old |-> change.old, kind |-> change.kind,
    side |-> "new"]} \cup
  {[path |-> p, old |-> change.old, kind |-> change.kind, side |-> "old"] :
     p \in IF change.kind \in {"renamed", "copied"}
           THEN {change.old} \ {NoPath} ELSE {}}

\* evaluate_scope: the findings and, derived from them, the disposition.
EvaluateScope(candidate) ==
  UNION {{Finding(s, candidate.evidence) : s \in Subjects(change)} :
           change \in candidate.changes}

Disposition(findings) ==
  IF \E f \in findings : f.decision \in {"prohibited", "undeclared_expansion"}
    THEN "broadened"
  ELSE IF \E f \in findings : f.decision = "ambiguous_human_review"
    THEN "human_review_required"
  ELSE "contained"

\* human_review_absorbed: durable approvals cover every gated finding.
HumanReviewAbsorbed(findings, approved) ==
  /\ approved # {}
  /\ \A f \in findings :
       \/ f.decision \in Authorised
       \/ f.decision \in Gated /\ f \in approved

(***************************************************************************)
(* select_review_tier.  A rule of the tier policy lists what a candidate   *)
(* may at most be; an empty set of paths, kinds or classes is no           *)
(* restriction.                                                            *)
(***************************************************************************)
UnknownOrRisky(candidate, findings) ==
  \/ candidate.changes = {}
  \/ Cardinality(findings) # Cardinality(candidate.changes)
  \/ \E f \in findings : \/ f.class \notin {"ordinary", "test"}
                         \/ f.decision \notin Authorised

TierRuleMatches(rule, candidate, findings) ==
  LET Within(set, bound) == bound = {} \/ set \subseteq bound IN
  /\ Cardinality(candidate.changes) <= rule.maxFiles
  /\ candidate.bytes <= rule.maxBytes
  /\ Within({c.path : c \in candidate.changes}, rule.paths)
  /\ Within({c.kind : c \in candidate.changes}, rule.kinds)
  /\ Within({f.class : f \in findings}, rule.classes)

SelectReviewTier(candidate, findings) ==
  LET risks == TierPolicy.declared
      first == {i \in DOMAIN TierPolicy.rules :
                  TierRuleMatches(TierPolicy.rules[i], candidate, findings)}
  IN  IF risks \cap TierPolicy.fullRisks # {} THEN "full"
      ELSE IF UnknownOrRisky(candidate, findings) THEN "full"
      ELSE IF risks \cap TierPolicy.batchRisks # {} THEN "batch"
      ELSE IF first # {} THEN TierPolicy.rules[Min(first)].tier
      ELSE "full"
============================================================================
