------------------------------ MODULE MCReview ------------------------------
(***************************************************************************)
(* A small instance of Review: four candidates of one PRD, of which one    *)
(* changes documentation only, one a declared file, one adds a crate to a  *)
(* lockfile as well, and one deletes a file a prohibition names.           *)
(***************************************************************************)
EXTENDS Review

MCPaths == {"src", "docs", "lock", "secret"}
MCPolicy ==
  [expected |-> [p \in MCPaths |-> IF p = "src" THEN "exact" ELSE "none"],
   allowed  |-> {"docs", "secret"}, surface |-> {}, unsafe |-> {},
   builtin  |-> [p \in MCPaths |-> IF p = "lock" THEN {"lockfile"} ELSE {}],
   classRules |-> {},
   prohibited |-> {[on |-> "path", paths |-> {"secret"}, class |-> "ordinary",
                    kinds |-> {"deleted"}]},
   classPolicy |-> [c \in SpecialClasses |-> "human_review"],
   mode |-> "expected_or_configured", expansion |-> TRUE]
MCTierPolicy ==
  [declared |-> {}, fullRisks |-> {"security"}, batchRisks |-> {"bulk"},
   rules |-> <<[tier |-> "checks_only", maxFiles |-> 1, maxBytes |-> 1,
                paths |-> {"docs"}, kinds |-> {"modified"}, classes |-> {"ordinary"}],
               [tier |-> "batch", maxFiles |-> 1, maxBytes |-> 5,
                paths |-> {}, kinds |-> {}, classes |-> {}]>>]

Change(p, k) == [path |-> p, kind |-> k, old |-> NoPath]
NoEvidenceOf == [symlinks |-> {}, newCrates |-> {}]
MCContents == {"doc", "src", "dep", "del"}
MCCandidate ==
  [x \in MCContents |->
    CASE x = "doc" -> [changes |-> {Change("docs", "modified")},
                       evidence |-> NoEvidenceOf, bytes |-> 1]
      [] x = "src" -> [changes |-> {Change("src", "modified")},
                       evidence |-> NoEvidenceOf, bytes |-> 3]
      [] x = "dep" -> [changes |-> {Change("src", "modified"), Change("lock", "modified")},
                       evidence |-> [NoEvidenceOf EXCEPT !.newCrates = {"crate"}],
                       bytes |-> 3]
      [] OTHER     -> [changes |-> {Change("src", "modified"), Change("secret", "deleted")},
                       evidence |-> NoEvidenceOf, bytes |-> 3]]

MCPlan == <<"unit">>
MCCheckPaths == [k \in {"unit"} |-> {"src"}]
MCCites == [f \in {"f1", "f2"} |-> IF f = "f1" THEN "src" ELSE "lock"]
MCReviewer == [r \in {"full", "standard"} |->
                [sameSession |-> FALSE, distinct |-> TRUE, adapter |-> "codex"]]
MCIsolation == [r \in {"interactive", "batch"} |-> "codex"]
MCLimits == {[tokens |-> 4, cost |-> NoLimit, duration |-> NoLimit],
             [tokens |-> NoLimit, cost |-> NoLimit, duration |-> 4]}
MCReservation ==
  [a \in {"review", "remediation", "verification"} |->
     [tokens |-> IF a = "verification" THEN 0 ELSE 1, cost |-> 0, duration |-> 0]]
MCUsage(t) == [tokens |-> t, cost |-> 0, duration |-> 0]
MCInitial == MCUsage(1)
MCUsages == {MCUsage(1), MCUsage(Unknown)}
=============================================================================
