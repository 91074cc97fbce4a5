------------------------------ MODULE Delivery ------------------------------
(***************************************************************************)
(* The delivery of one reviewed worktree: the journal beside its ownership *)
(* record, the commit, push, change request, checks, merge, staging deploy *)
(* and smoke test that deliver_with walks through, and what these commands *)
(* leave behind in git, at the forge and on staging.                       *)
(*                                                                         *)
(* The drive delivers the worktree once; after that an operator may, as    *)
(* often as wanted and each time under another policy.  The repository     *)
(* lock allows one delivery at a time.  A command fails, succeeds and is   *)
(* recorded in the journal, or succeeds unrecorded: it timed out, or the   *)
(* process died before the journal was written.                            *)
(*                                                                         *)
(* Meanwhile people edit and commit in the worktree, push from there or    *)
(* from another clone, open the change request and merge it.               *)
(*                                                                         *)
(* A revision is the number of commits of the worktree in it and what was  *)
(* pushed on top of them from elsewhere.  The delivery to named targets    *)
(* (deliver_to_with), which keeps a ledger of its own, is left out; so are *)
(* a disabled policy and an expired warrant, which refuse before anything  *)
(* is read or written, and a request that is closed unmerged.              *)
(***************************************************************************)
EXTENDS Integers

CONSTANT MaxEdits      \* bound on the changes made by hand

ASSUME DeliveryAssumption == MaxEdits \in Nat

VARIABLES
    journal,   \* the .delivery.json file: its phase ("none" before the first) and
               \* whether it names a change request
    owner,     \* the state in the ownership record
    tree,      \* what the worktree holds beyond its last commit
    head,      \* the commits of the worktree
    branch,    \* the revision of the branch at the remote, while there is one
    request,   \* the change request at the forge, and the revision it is about
    green,     \* the revisions the checks of the forge have passed
    staging,   \* the revision on staging, 0 for what was there before
    delivery,  \* the delivery under way, with its policy
    edits,     \* changes by hand so far
    commit,    \* history: the last commit deliver_with made, 0 before the first
    sent,      \* history: how many commits of the worktree have been at the remote
    late       \* history: the revisions pushed between the checks and a merge

git == <<tree, head, commit, sent>>
world == <<git, branch, request, late, green, staging>>
vars == <<journal, owner, world, delivery, edits>>

Versions == 1 .. MaxEdits + 1
Revisions == [ours : Versions \cup {0}, theirs : 0 .. MaxEdits]
NoRevision == [ours |-> 0, theirs |-> 0]
Phases == {"none", "admitted", "committed", "pushed", "published", "awaiting_merge_authority",
           "awaiting_manual_publication", "checks_failed", "merged", "staging_rolled_back",
           "staging_deployed", "staging_verified", "identity_mismatch", "deployment_blocked"}
Forges == {"github", "gitea", "none"}
Steps == {"due", "idle", "commit", "push", "no_forge", "probe", "unidentified", "hand_over",
          "checks", "merge", "deploy", "smoke"}
NoRequest == [state |-> "none", version |-> NoRevision]
Resting == [at |-> "idle", by |-> "operator", mode |-> "manual", forge |-> "none", gate |-> FALSE]

(***************************************************************************)
(* The drive has committed the candidate before it delivers it, so the     *)
(* worktree is clean.                                                      *)
(***************************************************************************)
Init ==
    /\ journal = [phase |-> "none", change |-> FALSE]
    /\ owner = "ready_for_delivery"
    /\ tree = "clean" /\ head = 1 /\ branch = NoRevision
    /\ request = NoRequest /\ green = {} /\ staging = 0
    /\ commit = 0 /\ sent = 0 /\ late = {}
    /\ delivery = [Resting EXCEPT !.at = "due", !.by = "drive"]
    /\ edits = 0

-----------------------------------------------------------------------------
(***************************************************************************)
(* phase_before: the rank of a phase; an unknown one ranks lowest.         *)
(***************************************************************************)
\* Fault: a delivery whose checks failed counts as merged.
RankFailedAsMerged(phase) ==
    CASE phase = "committed" -> 1
      [] phase = "pushed" -> 2
      [] phase \in {"published", "awaiting_merge_authority", "awaiting_manual_publication"} -> 3
      [] phase \in {"merged", "staging_rolled_back", "checks_failed"} -> 4
      [] phase = "staging_deployed" -> 5
      [] phase = "staging_verified" -> 6
      [] OTHER -> 0

Rank(phase) ==
    CASE phase = "committed" -> 1
      [] phase = "pushed" -> 2
      [] phase \in {"published", "awaiting_merge_authority", "awaiting_manual_publication",
                    "checks_failed"} -> 3
      [] phase \in {"merged", "staging_rolled_back"} -> 4
      [] phase = "staging_deployed" -> 5
      [] phase = "staging_verified" -> 6
      [] OTHER -> 0

(***************************************************************************)
(* The next thing deliver_with does with journal j under the policy of r.  *)
(***************************************************************************)
NextStep(j, r) ==
    LET rank == Rank(j.phase) IN
    IF rank < 1 THEN "commit"
    ELSE IF rank < 2 THEN "push"
    ELSE IF r.forge = "none" THEN "no_forge"
    ELSE IF rank < 3 THEN "probe"
    ELSE IF ~j.change THEN "unidentified"
    ELSE IF r.mode = "manual" THEN "hand_over"
    ELSE IF rank < 4 THEN "checks"
    ELSE IF rank < 5 THEN "deploy" ELSE "smoke"

(***************************************************************************)
(* The delivery goes on after the journal is written; or it ends with Ok,  *)
(* after which the drive marks the worktree with the phase; or with Err.   *)
(***************************************************************************)
Proceed(phase, change) ==
    /\ journal' = [phase |-> phase, change |-> change]
    /\ delivery' = [delivery EXCEPT !.at = NextStep(journal', delivery)]
    /\ UNCHANGED owner

Return(phase) ==
    /\ journal' = [journal EXCEPT !.phase = phase]
    /\ delivery' = Resting
    /\ owner' = IF delivery.by = "drive" THEN phase ELSE owner

Stop(phase) ==
    /\ journal' = [journal EXCEPT !.phase = phase]
    /\ delivery' = Resting
    /\ UNCHANGED owner

Lost == Stop(journal.phase)

(***************************************************************************)
(* deliver_with up to the first command.  A worktree that is not ready for *)
(* delivery is refused.                                                    *)
(***************************************************************************)
Deliver(mode, forge, gate) ==
    /\ delivery.at \in {"due", "idle"} /\ owner = "ready_for_delivery"
    /\ journal' = [journal EXCEPT !.phase = IF @ = "none" THEN "admitted" ELSE @]
    /\ delivery' = LET r == [delivery EXCEPT !.mode = mode, !.forge = forge, !.gate = gate]
                   IN  [r EXCEPT !.at = NextStep(journal', r)]
    /\ UNCHANGED <<owner, world, edits>>

(***************************************************************************)
(* A command fails, or the process dies before the next one; the journal   *)
(* stays as it is.                                                         *)
(***************************************************************************)
Fail ==
    /\ delivery.at # "idle"
    /\ Lost
    /\ UNCHANGED <<world, edits>>

(***************************************************************************)
(* git add and git commit.  git refuses to commit a clean tree.  A change  *)
(* to a migration needs the gate of the policy.                            *)
(***************************************************************************)
NewCommit == head' = head + 1 /\ tree' = "clean"

Commit ==
    /\ delivery.at = "commit" /\ tree # "clean"
    /\ tree = "migration" => delivery.gate
    /\ NewCommit /\ commit' = head'
    /\ Proceed("committed", journal.change) \/ Lost
    /\ UNCHANGED <<branch, request, sent, late, green, staging, edits>>

BlockMigration ==
    /\ delivery.at = "commit" /\ tree = "migration" /\ ~delivery.gate
    /\ Stop("deployment_blocked")
    /\ UNCHANGED <<world, edits>>

(***************************************************************************)
(* The branch at the remote changes.  A change request that is open        *)
(* follows its branch.                                                     *)
(***************************************************************************)
Update(revision) ==
    /\ branch' = revision
    /\ request' = IF request.state = "open" THEN [request EXCEPT !.version = revision] ELSE request
    /\ late' = late \cup {r \in {revision} : delivery.at = "merge"}

SendHead == Update([ours |-> head, theirs |-> 0]) /\ sent' = head

(***************************************************************************)
(* git push, which git refuses when others have pushed to the branch.      *)
(***************************************************************************)
Push ==
    /\ delivery.at = "push" /\ branch.theirs = 0
    /\ SendHead
    /\ Proceed("pushed", journal.change) \/ Lost
    /\ UNCHANGED <<tree, head, commit, green, staging, edits>>

NoForge ==
    /\ delivery.at = "no_forge"
    /\ Return(IF Rank(journal.phase) < 3 THEN "awaiting_manual_publication" ELSE journal.phase)
    /\ UNCHANGED <<world, edits>>

(***************************************************************************)
(* verify_forge_account: another account, or none, answers the probe.      *)
(***************************************************************************)
RefuseAccount ==
    /\ delivery.at = "probe"
    /\ Stop("identity_mismatch")
    /\ UNCHANGED <<world, edits>>

(***************************************************************************)
(* Publish, whose failure is only noted, and locate, whose failure ends    *)
(* the delivery and whose answer may hold no identifier.                   *)
(***************************************************************************)
Opened ==
    {[state |-> "open", version |-> branch] : r \in {branch} \ {NoRevision}}

Publish ==
    /\ delivery.at = "probe"
    /\ request' \in {request} \cup IF request.state = "open" THEN {} ELSE Opened
    /\ \/ \E found \in {FALSE, request'.state # "none"} : Proceed("published", found)
       \/ Lost
    /\ UNCHANGED <<git, branch, late, green, staging, edits>>

Unidentified ==
    /\ delivery.at = "unidentified"
    /\ Lost
    /\ UNCHANGED <<world, edits>>

HandOver ==
    /\ delivery.at = "hand_over"
    /\ Return("awaiting_merge_authority")
    /\ UNCHANGED <<world, edits>>

(***************************************************************************)
(* wait_checks and check_named.  gitea declines both verbs.  A named check *)
(* that fails ends the delivery without a word in the journal (Fail).      *)
(***************************************************************************)
Declined == delivery.forge = "gitea"

DeclineChecks ==
    /\ delivery.at = "checks" /\ Declined
    /\ Return("awaiting_merge_authority")
    /\ UNCHANGED <<world, edits>>

ChecksPass ==
    /\ delivery.at = "checks" /\ ~Declined
    /\ green' = green \cup {request.version}
    /\ delivery' = [delivery EXCEPT !.at = "merge"]
    /\ UNCHANGED <<journal, owner, git, branch, request, late, staging, edits>>

ChecksFail ==
    /\ delivery.at = "checks" /\ ~Declined
    /\ Stop("checks_failed")
    /\ UNCHANGED <<world, edits>>

(***************************************************************************)
(* The forge merges what the request is about by now, deletes the branch   *)
(* unless it cannot, and accepts a request that is merged already.         *)
(***************************************************************************)
MergeRequest ==
    /\ request' = [request EXCEPT !.state = "merged"]
    /\ branch' \in {branch, NoRevision}

Merge ==
    /\ delivery.at = "merge"
    /\ MergeRequest
    /\ Proceed("merged", journal.change) \/ Lost
    /\ UNCHANGED <<git, late, green, staging, edits>>

Deploy ==
    /\ delivery.at = "deploy"
    /\ staging' = head
    /\ Proceed("staging_deployed", journal.change) \/ Lost
    /\ UNCHANGED <<git, branch, request, late, green, edits>>

(***************************************************************************)
(* A deploy or a smoke test fails and is rolled back; the rollback may     *)
(* fail as well, or the process die right after it.                        *)
(***************************************************************************)
RollBack ==
    /\ \/ delivery.at = "deploy" /\ staging' \in {0, staging, head}
       \/ delivery.at = "smoke" /\ Rank(journal.phase) < 6 /\ staging' \in {0, staging}
    /\ Stop("staging_rolled_back") \/ Lost
    /\ UNCHANGED <<git, branch, request, late, green, edits>>

Verified ==
    /\ delivery.at = "smoke"
    /\ Return("staging_verified")
    /\ UNCHANGED <<world, edits>>

-----------------------------------------------------------------------------
(***************************************************************************)
(* People: a change in the worktree, a commit of it, a push from there, by *)
(* force if need be, or of a commit made elsewhere; a request opened or    *)
(* merged.                                                                 *)
(***************************************************************************)
Edit(kind) ==
    /\ edits < MaxEdits
    /\ tree' = kind /\ edits' = edits + 1
    /\ UNCHANGED <<journal, owner, head, commit, sent, branch, request, late, green, staging,
                   delivery>>

CommitByHand ==
    /\ tree # "clean"
    /\ NewCommit
    /\ UNCHANGED <<journal, owner, commit, sent, branch, request, late, green, staging,
                   delivery, edits>>

PushByHand ==
    /\ SendHead
    /\ UNCHANGED <<journal, owner, tree, head, commit, green, staging, delivery, edits>>

PushElsewhere ==
    /\ branch # NoRevision /\ edits < MaxEdits
    /\ edits' = edits + 1
    /\ Update([branch EXCEPT !.theirs = edits'])
    /\ UNCHANGED <<journal, owner, git, green, staging, delivery>>

OpenByHand ==
    /\ request.state = "none" /\ request' \in Opened
    /\ UNCHANGED <<journal, owner, git, branch, late, green, staging, delivery, edits>>

MergeByHand ==
    /\ request.state = "open"
    /\ MergeRequest
    /\ UNCHANGED <<journal, owner, git, late, green, staging, delivery, edits>>

People ==
    \/ \E kind \in {"plain", "migration"} : Edit(kind)
    \/ CommitByHand \/ PushByHand \/ PushElsewhere \/ OpenByHand \/ MergeByHand

Next ==
    \/ \E mode \in {"manual", "auto"}, forge \in Forges, gate \in BOOLEAN :
         Deliver(mode, forge, gate)
    \/ Fail \/ Commit \/ BlockMigration \/ Push \/ NoForge \/ RefuseAccount \/ Publish
    \/ Unidentified \/ HandOver \/ DeclineChecks \/ ChecksPass \/ ChecksFail \/ Merge
    \/ Deploy \/ RollBack \/ Verified
    \/ People

Spec == Init /\ [][Next]_vars

-----------------------------------------------------------------------------
(***************************************************************************)
(* The type of the state.                                                  *)
(***************************************************************************)
TypeOK ==
    /\ journal \in [phase : Phases, change : BOOLEAN]
    /\ owner \in Phases \cup {"ready_for_delivery"}
    /\ tree \in {"clean", "plain", "migration"} /\ head \in Versions
    /\ branch \in Revisions /\ staging \in Versions \cup {0}
    /\ request \in [state : {"none", "open", "merged"}, version : Revisions]
    /\ green \subseteq Revisions /\ edits \in 0 .. MaxEdits
    /\ delivery \in [at : Steps, by : {"drive", "operator"}, mode : {"manual", "auto"},
                     forge : Forges, gate : BOOLEAN]
    /\ commit \in 0 .. head /\ sent \in 0 .. head /\ late \subseteq Revisions

(***************************************************************************)
(* The journal never runs ahead of the world, whatever command was lost or *)
(* repeated, whatever policies the deliveries had, and whatever people     *)
(* edit, commit, push, open and merge between any two commands: from       *)
(* pushed on, what deliver_with committed has been at the remote; a        *)
(* journal that names a request has one; from merged on, and whenever      *)
(* anything is on staging, the request is merged, and at a revision that   *)
(* has passed the checks of the forge, unless somebody pushed it after     *)
(* they had passed (delivery.rs, deliver_with, phase_before).              *)
(***************************************************************************)
PhaseIsEarned ==
    /\ Rank(journal.phase) >= 2 => sent >= commit
    /\ journal.change => request.state # "none"
    /\ (Rank(journal.phase) >= 4 \/ staging # 0)
         => request.state = "merged" /\ request.version \in green \cup late
=============================================================================
