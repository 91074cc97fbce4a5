# Familiar AI: a TLA+ model

Familiar AI drives coding agents through a backlog of product requirement
documents (PRDs). A daemon (or a command, when no daemon runs) owns an
installation, queues and supervises worker processes, claims PRDs, runs an agent
and a review on each, merges the candidates and records everything in SQLite.
The code that decides *who may act, on what, and what is on record afterwards*
is modelled here; what the agents write is not.

The modules are translated from the Rust sources under `crates/`. `PROJECT.json`
names, for every definition, the lines it stands for. A definition that is
preceded by a comment starting with `Fault:` is not part of the model: it is a
plausible bug of the definition that follows it, kept to show that a property can fail.

## The system

| Component | State | Operations | Interacts with |
|---|---|---|---|
| Ownership lock (`daemon/worker_lock.rs`) | three files of the runtime directory: claim, recovery guard, delegate lock | acquire, recover a stale claim, delegate, drop | every mutating command; `local_transport.rs` retries it |
| Execution queue and supervision (`daemon/control_plane.rs`, `control_worker.rs`, `storage/repos/control_plane.rs`) | executions, attempts, worker rows, slot reservations; one supervisor task per running execution; OS processes | submit, claim, spawn, bind, open the launch gate, reap, time out, cancel, shut down, recover | the reservation ledger, the operating system |
| Reservations (`storage/repos/reservation.rs`) | pools, reservations and items, liveness evidence | define, acquire, settle, commit, release, renew, expire, recover | the queue, the drive, the local model runtime |
| Backlog (`storage/repos/backlog.rs`, `bootstrap.rs`, `core/backlog.rs`) | a row per PRD, append-only status events, bootstrap lineage | discover, reconcile, admit, claim, complete, recover, record, approve, bootstrap, roll back | PRD files in the checkout, runs, humans |
| Drive loop (`daemon/drive.rs`, `storage/repos/driver.rs`) | session, attempts, integration revision, reservations in flight | select a batch, prepare worktrees, run workers, merge, escalate, stop | backlog, reservations, git |
| Review coordinator (`review/`) | the review cycle in memory and as stored, findings, evidence, totals of tokens, cost and time | capture, decide scope and tier, verify, remediate, review, dispose | run, resume, agents, humans who approve scope |
| Run, resume, batch review (`daemon/run.rs`, `resume.rs`, `batch_review.rs`, `storage/repos/checkpoint.rs`) | one checkpoint per PRD, a row per batch submitted, the worktree | freeze, review, park, poll, apply, resume, land, complete, accept the risk | backlog, review, git, a batch provider |
| Raw agent loop (`agent/raw_agent.rs`, `raw_runtime.rs`, `daemon/agent_runtime.rs`) | tool journal, attempt ledger, reservations of budget and slot | reserve, submit, authorise, journal, run a tool, settle, persist, abandon | reservations, model providers |
| Model residency (`daemon/model_residency.rs`) | resident servers in order of use, restart counters, an event table | load, evict, probe, restart, fail, stop | serving processes, the daemon's timer |
| Watcher, index and summaries (`watcher/`, `daemon/main.rs`, `summary_worker.rs`, `storage/repos/lifecycle.rs`) | watcher snapshot, two channels, the map of pending files, summaries and pending rows | observe, retire, scan, reconcile, refill, summarise | people who edit files |
| Delivery (`daemon/delivery.rs`, `forge.rs`) | a journal file beside the ownership record | commit, push, publish, check, merge, deploy, smoke, roll back | git, a forge, staging |

The rest is listed with its reason in `PROJECT.json` and below under "Not modelled".

What is hard, and where the properties aim: two processes racing for a stale
claim file; a daemon that dies while its workers live; a value read under one
lock and used under the next; outcomes of one execution that race each other;
evidence taken of a worktree that changes afterwards; a result that two resumes
find; a tool whose effect happened and whose result was not written; servers that
outlive the table they were in; a channel that drops; an external command that
took effect and was not recorded; and sequences nobody writes a test for.
`PROJECT.json` lists each of these at its line, with the properties that would
show it going wrong.

## The modules

### WorkerLock: one mutating orchestrator

One action per system call: reading the claim, taking the `O_EXCL` recovery guard,
reading the claim again under it, removing it, linking the new claim into place,
writing the generation, the delegate lock, the two halves of `Drop`. A process of the
model is one incarnation (pid, start identity and nonce together), and `PidOf` lets
incarnations share a pid. `Init` ranges over every set of files an earlier boot can
have left: none, a legacy claim with a bare pid, text that does not parse, the claim or
delegate file of a dead process.

* Checked and proved: `OwnerExclusion`, `LiveClaimIsKept` (however many processes judge a
  claim stale, the claim of a live process is taken off the disk by its owner only).
  Proved only: `LockInv`, the inductive invariant.

### ExecutionQueue, ControlPlane: queue, workers, crashes

`ExecutionQueue` is the promise, without workers, supervisors and reservations: a status
per execution, and whether a daemon serves the queue. `Begin` respects the ceiling of the
project and the global one, orphans included; an outcome is final; `TakeUp` decides once
and for every execution left running between `queued` and `ambiguous_live_orphan`.

`ControlPlane` is the implementation. The durable rows (`state`, `attempt`, `bound`,
`row`, `held`, `free`, `recovered`), the daemon's memory (`daemon`, `survivors`, `task`,
`cancel`) and the processes of the operating system (`proc`, `signalled`) are separate
variables, so that a `Crash` loses exactly the second group. Each transaction of the
storage layer is a step; each `.await` of `execute` separates two. A worker is named by
execution and attempt. The launch gate is modelled with what the shell does when the
pipe closes: `exec` is carried out all the same.

A supervisor is lost in three ways: with the daemon (`Crash`); when the five seconds of
the shutdown drain run out (`DrainExpires`), since a worker that was sent SIGTERM is
waited for without a limit; and when the database refuses one of its writes
(`StorageFails`), which `execute` answers by returning without an outcome where it uses
`?`, or by an outcome that is not recorded. The last leaves a running row that no task of
this daemon ends; `lost` remembers whose row it was, and the slot stays taken until the
next start.

* Checked and proved: `SlotLedger`, `CompletedMeansSucceeded`,
  `BoundSurvivorNotReplaced`, `ImplementsQueue` (refinement of `ExecutionQueue`). Proved
  only: `TypeOK`, `AttemptsPerUpset`, that the ceilings hold, `TerminalIsFinal`. Under
  fairness: `SupervisedRunEnds` (an execution whose row was not refused does not stay
  running under a daemon that does).

### Reservation: the ledger of scarce resources

One step per transaction of `reservation.rs`; `expire_due` (list, then one
transaction per id) and `recover` (evidence first, release second) are split
where the code splits them, and `CallerDies` falls between. Amounts are granted,
observed and returned with the saturating arithmetic of the code.

* Checked and proved: `CapacityLedger` (capacity = available + what reservations
  keep), `RecoveredOnProof`. Proved only: `TypeOK`, `ReturnedOnce`, `ResolvedIsFinal`.

### Backlog: claims on PRDs

The files on disk (`file`, `text`), the rows (`status`, `hash`, `missing`,
`twin`, `last`, where `last` is the latest status event), the checkpoint of each
PRD, the bootstrap lineage, and per session the *view* it discovered, which goes
stale as soon as it is taken. What a PRD depends on is declared in its text: `Deps` gives
the dependencies of each version, and each session goes by those of the texts it
discovered. Reconciliation is part of every action whose code calls it. Runs and the
operator interleave; a run may die anywhere.

* Checked and proved: `ClaimIsLatestEvent`, `DependenciesKept` (the dependencies a run
  claimed on are completed when it claims; while it runs only a rollback over a discovery
  older than the edit takes one back), `CompletedOnce`, `LandedRunCompletes` (the regression of FAM-BUG-106),
  `ClosedCheckpointIsCompleted`. Proved only: `TypeOK`, `CompletionOnlyRolledBack`.

### Drive: the unattended session

The rows (`session`, `revision`, `attempt`, `ladder`, `integrated`, and of the
backlog `status`, `claim`, `paused`) survive a crash; the rest is the memory of
`drive` and of its worker threads, which `Forgotten` resets. `pc` is where the
session's thread is:

| `pc` | Code | Actions |
|---|---|---|
| `down` | no drive runs | `OpenSession` (recovery of what a dead process left, the session row, preflight) |
| `top` | the head of the loop: heartbeat, warrant, selection | `Stop`, `Pass` |
| `prepare` | one target after the other gets its attempt, reservation and worktree; the jobs are spawned | `Prepare`, `SpawnJobs` |
| `wait` | `result_receiver.recv()` | `Receive`, `AcceptRisk` |
| `read`, `land` | commit and merge the candidate; the landing transaction | `ReadRevision`, `Land` |
| `finish`, `escalate` | record the outcome, go up the worker ladder | `FinishAttempt`, `EndEscalation` |
| `leave` | the thread scope joins the workers, `finish_session` | `FinishSession` |

Worker threads (`WorkerClaims`, `WorkerEnds`), the operator at another terminal
(`HumanReleases`, `ApprovalMerges`, `ApprovalLands`), failing storage
(`StorageFails`) and `Crash` interleave with it. A commit is the set of the PRDs
whose landing it contains. Every PRD lands at most once, so "is an ancestor of"
is set inclusion. The greedy, ordered selection of `select_batch_with_foreign` is
the set `S` with `S = Picks(S, ...)`: membership of a PRD depends on smaller picks
only, so there is exactly one such set. The head comment of the module lists the
abstractions.

* Checked and proved: `NoOverlap`, `LandingsAreKept`, `CompletedIsIntegrated`,
  `StartsOnLandedWork`, `EndsAccounted`, `NeverWaitsInVain`. Proved only: `TypeOK`,
  and that no step takes a PRD out of `completed`.

### Scope, Review: a review cycle

`Scope` holds the two pure functions of the review crate, as operators: which
decision the compiled scope policy takes about each changed path (`Decide`, with the
classification, the prohibitions and the special-class gates), and which tier of
review a candidate gets. `Review` is `ReviewCoordinator::run`: `cyc` is the cycle in
memory, `stored` what `save_cycle` wrote last, `tree` the candidate in the worktree,
and `pc` the stage (`capture`, `verify`, `remediate`, `recapture`, `tier`, `review`,
...). The checks still to run are places in the plan (`todo`). Agents answer as they like,
report no usage, fail, and a remediation leaves any candidate behind. A crash loses `cyc`; `RecoverIncomplete` is what any starting
process does to an unfinished row; `ApproveScope` is the human. Every stage that
spends is preceded by its `Reserve`, as in the code.

* Checked and proved: `CleanIsTested` (a cycle stored as clean has every required check
  passed on the candidate that is in the worktree), `CleanIsAuthorised` (every change in
  it has an authority, and none of a kind a prohibition names has not been approved by a
  human for what it is), `NoObjectionForgotten` (an objection of any accepted review that
  no later one resolved is still before the last reviewer). Proved only:
  `ReviewTypeOK`. Under fairness: `CycleEnds` (every loop uses up an attempt).

### Checkpoint: from the frozen candidate to the completed PRD

Three drivers (`run`, `cli`, `poller`) act on one PRD. The first two exclude each
other by the repository lock, the resume that the daemon's poller spawns takes none.
`wt` is the worktree of an execution, `cp` the checkpoint row, `batch` the row of a
submitted batch, `main` the branch, `proc[d]` where a driver is. Freezing, submitting
(first the provider, then the row), polling with its deadline, consuming and applying
a result, rebinding after an operator's commit, committing, merging, the ledger and
each written phase are steps of their own, and a crash falls between any two. The poller
exists only in a daemon that was started with a batch policy (`poll.on`); a restart may
bring one or take it away.

* Checked and proved: `AppliedOnce`, `LandedOnce`, `PhaseFollowsLedger`,
  `CompletionIsEarned`. Proved only: `TypeOK`, `Roles`. Under fairness:
  `BatchResolves` (while a poller runs, a submitted batch is answered or given up).
* The run `CheckpointParked` shows that `LandedWasReviewed` fails, see the findings.

### AgentRuntime: the loop around a raw model

`Reserve`, `AcquireSlot` and `OpenJournal` are what `execute` does before the loop;
`Submit...`, `Answer...`, `Refuse`, `Intend`, `RunTool`, `RecordResult` are the turns of
`run_loop` and `process_tool_call`; `Settle`, `ResolveSlot`, `Persist` are `finish`,
under a guard whose drop is `Abandon`. Rows survive (`resv`, `intents`, `results`,
`ledger`), hosts do not. `CallId` keeps what matters of a call's identity: hosted
providers issue one, a local runtime that reports none gets `call_{index}`, which
comes again in the next turn and is then answered from the journal.

* Checked and proved: `EffectOnce` (the effect of a call id happens at most once in an
  execution), `NothingHeldAtRest` (a reservation that is held between two calls was left
  by a crash or by a release that failed). Proved only: `AgentTypeOK`, `RowsResolvedOnce`
  (no step moves a reservation that is no longer held). Under fairness: `LoopEnds`.

### Residency: local model servers

The manager works under one mutex; `op` is the operation under it, one launcher call
and its row per step. `running` and `deaf` are the processes, which die and hang on
their own and outlive the daemon. `row` is the newest row of each key in the event
table. `SetConfig` installs any other configuration, ceilings and declared sizes included,
and stops nothing: a lowered ceiling leaves too many residents until the next admission,
and a server may be restarted above it. `WithinCeilings` is therefore about the ceilings
of the last admission, or of a later configuration that everything held still fits
(`admittedUnder`); admissions are what enforces them.
No production code calls `ensure_resident` or `set_config` at this commit; the model takes
them as the callers the manager is written for.

* Checked and proved: `WithinCeilings` (what runs and what is being started fit the
  ceilings it was admitted under), `NoServerForgotten`, `TableTellsTheTruth`. Under fairness: `DeadIsHandled`.

### FileIndex: observations and summaries

| Variable | Code |
|---|---|
| `disk`, `seen`, `events` | the files, the polling watcher's snapshot, its channel |
| `hand`, `scan` | the event task: between the look at a file, the lookup, the observation and the send it holds no lock; the scan runs in the same task |
| `summary`, `work`, `line` | `file_summaries`, `pending_summary_work`, its observation order |
| `queue`, `pend`, `job` | the worker's channel, map and current file |
| `wanted`, `steady` | history: what the last observation said; what nobody touched since the scan began |

A request the full channel or map drops is found again by `Refill` only. `Refill` takes
the oldest open rows, those of files that are gone or unreadable included, so these may
fill the map for ever: `OpenWorkIsDone` excepts exactly that case.

* Checked and proved: `NothingForgotten` (a file last observed as eligible has a
  summary or open work), `ScanAccounts` (a reconciled scan accounts for what nobody
  touched meanwhile). Under fairness: `OpenWorkIsDone`.

### Delivery: the journal against the world

The journal and the ownership record are what the code keeps; `tree`, `head`,
`branch`, `request`, `green` and `staging` are the world its commands change.
`delivery.at` is the next thing `deliver_with` does, computed by `NextStep` from the rank of the phase,
as the `phase_before` tests of the code do. Every command fails, succeeds, or succeeds
unrecorded (`Lost`). The operator repeats the delivery under any policy, and people
edit and commit in the worktree, push from there or on top of it from elsewhere, open and
merge the request by hand. A merge deletes the branch at the remote, as the verbs of the
forge ask for; a later push makes it anew. What was pushed before a deletion or an
overtaking push is kept in `sent`, which is all the journal can vouch for.

* Checked and proved: `PhaseIsEarned` (the journal never runs ahead of commit, push,
  request, checks, merge and staging). Proved only: `TypeOK`.

## Runs and bounds

| Run | Instance | States | Why it is enough for the cases of interest |
|---|---|---|---|
| `WorkerLock` | three processes, two of them under one pid | 99 thousand | a holder, a process that recovers its claim and a third that races the recovery; a pid that was reused |
| `ControlPlane` | two executions, one project with one slot, one upset (crash, expired drain or storage error) | 622 thousand | one execution waits for the slot of the other; an execution is claimed again after recovery; one of the two is in the foreground |
| `Reservation` | two owners, two pools, amounts 0 to 1, times 0 to 1 | 880 thousand | a pool that is exhausted, a request that one pool grants and the other does not, a grant that is overrun, expiry before and after renewal |
| `Backlog` | two PRDs, two runs and the operator, one edit, by which the second PRD comes to depend on the first | 1.9 million | a stale view of each kind, a dependency declared after the operator's discovery and rolled back under a running dependent |
| `Drive` | three PRDs (3 needs 1, 2 and 3 overlap), two sessions, two workers at a time, PRD 1 attended and with a ladder, PRD 2 withheld at will | 2.0 million | a session after a crash or an unfinished one, an approval from the first racing the second, a batch filled while a worker runs |
| `Review` | four candidates (documentation only, a declared file, a new crate, a prohibited deletion), one required check, two findings, two reviews and two remediations per drive, two drives, a ceiling on tokens or on time | 91 thousand | a remediation that makes the candidate worse or better, a finding that comes, goes and is carried, unknown usage, a resumed cycle |
| `Checkpoint` | one execution, two contents besides the base, two upsets (crashes, restarts, acts of the operator) | 1.2 million | a result that both the poller and a resume consume, a crash on each side of merge and ledger, an edit between freeze and landing, a restart without a batch policy |
| `CheckpointParked` | the same, one upset | stops at the violation | |
| `AgentRuntime` | a local worker that implements and a hosted one that reviews, two slots, two iterations, one call per turn, two execute calls, one restart, one failing write | 147 thousand | a call id that comes again, in the same run, after a crash, in another stage; three execute calls were checked once without liveness, 3.6 million states |
| `Residency` | two models and two configurations, of which either admits something the other does not; one restart; one refused row or death of the daemon | 744 thousand | eviction to make room, a restart around a ceiling, a replaced server that lingers, a ceiling lowered under what runs. A third model, or a second upset, takes longer than five minutes |
| `FileIndex` | two files of which people touch one, a channel of two and a map of one, two upsets (edits, pauses, ends of the daemon) | 103 thousand | a change while it is summarised, a deletion while it is scanned, a request the full map drops and `Refill` finds again |
| `Delivery` | three changes by hand | 445 thousand | a commit, a change after a blocked or mismatched delivery, and a push in between |

The bounds are constants of the modules (`MaxAmount`, `MaxTime`,
`MaxEdits`, `MaxSessions`, `MaxDrives`, `SpendCap`, `MaxUpsets`, `MaxRuns`, `MaxBoots`,
`MaxFaults`, `MaxExecutions`); none of the theorems depends on their values.
`Interchangeable` is used as symmetry only where every constant treats the permuted
values alike: runs in `Backlog`, owners and pools in `Reservation`. No symmetry is
used with liveness.

Every property of a passing run has a `Fault` in the modules that breaks it. A type
invariant is in no run: it is proved, except for `FileIndex` (see below).

Deadlock is checked in `Residency` and `FileIndex`, which never come to rest. The
other instances legitimately do (all processes dead, all executions final, all PRDs
completed). Waiting that must not be in vain is a property of its own there:
`SupervisedRunEnds`, `NeverWaitsInVain`, `CycleEnds`, `BatchResolves`, `LoopEnds`.

### Fairness

| Module | Assumed | Because |
|---|---|---|
| `ControlPlane` | weak, of every step of a supervisor task, of the end of a launched command | the runtime polls ready tasks; the code gives the command a timeout and then relies on its end (`child.wait()` after SIGTERM has no limit). A command that never ends is assumed away, and no liveness of a shutdown is claimed |
| `Review` | weak, of the coordinator | sequential code; every agent and check has a timeout |
| `Checkpoint` | weak, of the poller's list and of the clock; strong, of the turn of a listed row | a ticker; the list is walked to its end unless the daemon restarts, which it does finitely often. `PollList` is enabled only in a daemon that was started with a batch policy |
| `AgentRuntime` | weak, of the loop | sequential code, every wait has a timeout |
| `Residency` | weak, of the operation under the mutex; strong, of the health tick | every start has a timeout; callers do not keep the timer out of a fair mutex for good |
| `FileIndex` | weak, of the two tasks, the watcher and its polls; strong, of receiving, of a tick that finds the quiet files, and of an old summary being made again | the runtime polls the tasks; `select!` picks a ready arm at random; timers |

Nothing is assumed of people, providers, timeouts, cancellations, crashes,
submissions, pauses or claims.

## Proofs

TLAPS proves the theorems of the eight `...Proofs` modules for every value of the
constants, from the assumptions named in the component modules and nothing
else: `PidAssumption` and `DisjointAssumption` (a process has a pid; file contents
can be told apart), `BoundsAssumption` (amounts and times are naturals, owners are
finitely many), `CeilingAssumption` (finitely many executions, each of a project;
ceilings are naturals; no project is called `global`, since the code prefixes the pools
of projects, `control_plane.rs:517` and `:532`), `CheckpointAssumption` (there is an
execution, and a content that is no change), `BacklogAssumption` (the operator is no
run, an event's author can be told from the fixed ones), `DepsAssumption` (each version of
a PRD's text declares PRDs as its dependencies), `DriveAssumption` (a finite
backlog with ordered ids, a symmetric conflict relation, at least one worker),
`IndexAssumption` (finitely many files, a channel of at least one), `DeliveryAssumption`,
`AgentAssumption` (the stages of each kind are stages, the bounds naturals),
`ResidencyAssumption` (finitely many keys, in the order the code sorts them by; sizes
and limits are naturals; a limit admits at least one resident, `registry_workers.rs:543`),
`PolicyAssumption` and `LimitsAssumption` (the policy compiles and the limits are
validated, without which no run is admitted), `ReviewAssumption` (required checks are
checks of the plan, usage is a natural or unknown). Dependencies may be
cyclic, as long as the text of the moment is not: a discovery that finds a cycle is refused.

* **WorkerLockProofs.** `OwnerExclusion` is not inductive: a process about to
  remove a claim must be known to remove the claim of a dead process. `LockInv`
  adds that recoveries hold the guard and exclude each other, that the claim text
  a process has judged stale belongs to a process dead for good, and that under
  the guard the file still has that text. `LiveClaimKept` follows from the same
  invariant for the two steps that remove a claim.
* **CapacityProofs**, of the two resource ledgers. For `Reservation`, the type invariant
  carries the bounds of the saturating arithmetic. `ReturnedOnce` and `ResolvedIsFinal` are action properties that
  follow from it. `RecoveredOnProof` needs `ProofInv`: the caller between the two
  transactions of a recovery still has its evidence on record. `CapacityKept` is about
  `SumFunction`, a fold over the owners whose value the prover knows nothing of. The
  lemmas before it say what it is: a finite set that violated one of them would have a
  smallest violating subset (`FS_StrictSubsetOrderingWellFounded`), and taking one element
  out of that leads to a contradiction. From them: changing a function in one place
  changes its sum by the difference (`SumUpdate`), and so each transaction moves between
  `available` and the sum what it takes from the other.
  For `Residency`, `ResidencyInv`. `Fit` says of `Wanted`, the held keys and the one an
  `ensure` has made room for, that they fit the ceilings of `admittedUnder`, and `Admitted`
  that these are the ones in force while a key is being started; `WithinCeilings` speaks of
  processes. Between them: `Known` (a process that no refused row let go is the server
  of the table or the one just started) and `KeyInHand` (while a server is replaced, the
  new one has an identity of its own and the old one is stopped), so that these
  processes have different wanted keys; `SumOfImage` and `SumMonotone` turn that into the
  inequality of the sums. Identities are the least free number, and there always is one
  (`FreshIsNew`, by counting). `Truths` is what a row says of its key at every step and
  not only at rest, except for the key whose row is being written or was refused.
  `RestartBudget` and `UpsetBudget` bound the counters, and `ListedOnce` derives from the
  order of use that a held key is in it once.
* **ControlPlaneProofs.** `ControlInv` ties the rows to the daemon's memory and the
  processes. `AttemptsPerUpset` bounds the attempts, without which the names of workers
  run out of their type: an execution is claimed again only after a daemon, a drain or the
  database failed it. `Supervised`: a daemon that is up has a task for every running
  execution whose row was not refused, one that is down has none, and a supervised execution
  runs or was cancelled under its supervisor; this is why `finish` finds what it expects, and why a daemon that
  starts finds every running row unsupervised. `StagesAgree`: what a stage of the task
  says of its worker. `RowsAgree`: the row of the current attempt is the one the
  execution is bound to, and is open while it runs, which is what lets recovery find
  survivors through the rows. `LiveRows`: a live worker with a row is of the current
  attempt, of an execution that is not waiting to be claimed, and the survivors a
  starting daemon has listed include them all. `SlotLedger` and `CompletedMeansSucceeded`
  are inductive together with these. The slots are counted with the cardinality facts of the
  library: a worker is named after its execution, so there are as many held slots as
  occupied executions. `QueueRefined` is the refinement: each action maps to the action of
  `ExecutionQueue` or a stutter. The claim needs `SlotLedger`, to turn free slots into a
  count of occupied executions, and the outcomes need `Supervised`, to find the execution
  in the state the queue requires.
* **CheckpointProofs.** `CheckpointInv`: `Roles` (who may be at which step, and that every
  driver after the agent has a checkpoint under it, although another may rewrite it);
  `AheadOfBase`, which bounds what a worktree is ahead by; `PhasesPromised` (a driver that
  still has to write `integrated` or `completed` has the ledger's word for it, so that
  `PhaseFollowsLedger` survives a write that comes late); `CleanWasReviewed`;
  `CommitOnBranch` (between merge and ledger the commit is on the branch, whatever the
  poller's resume does meanwhile); `AppliedAtMostOnce` (a result that can still be applied was
  not, and no row goes back to such a state). `CompletionIsEarned` follows from these for
  the two steps that write the ledger. What the actions do to the drivers is said once, by
  `Only`, `Advances`, `Starts` and `Writes`; one lemma per action reduces it to these.
* **BacklogProofs.** `BacklogInv` joins the row, its latest event and the run's own
  position. `MissingIsArchived` and `CompletedStays` say what a stale discovery may do to a
  row. `DependenciesFirst` is an action property over it: of all steps only a claim starts a
  claim, and only the rollback of a bootstrap takes back what was done, having judged the
  dependents by its own discovery. `CheckpointsFollowRows` has an argument of its own.
* **DriveProofs.** `DriveInv`: a session is mentioned only once it was opened
  (`SessionsAreOpened`, without which an approval could write to a future session);
  what the thread holds at each `pc` (`ThreadInv`); a result in hand is reported
  completed only after its landing (`LandedInHand`); `FlightInv`, which extends
  `NoOverlap` and `StartsOnLandedWork` to the batch and the jobs not yet spawned,
  and needs that a completed PRD stays completed; `AttemptedOnce`, which bounds the
  attempts; and `OpenIsAccounted`: an attempt left open is somebody's, or a storage
  error has left it and the session stops with another reason.
* **ObservationProofs**, of the two components that act on files they looked at before.
  For `FileIndex`, `NothingForgotten` is not inductive: the event task may be
  about to observe, and the worker about to complete, on what they saw before.
  `IndexInv` adds `EventsTyped` and `FilesTyped`; `StampsAreReal` (an existing file has
  a stamp other than `None`, and so has the file the worker holds, so that what it
  commits counts as a summary); `PathInHand` (the event task observes a path of the
  repository); and `ScanIsFaithful` (a path nobody has touched since the scan began and
  that was visited is staged exactly if it is readable, and the ones set aside as
  observed since then are excluded), from which `ScanAccounts` follows for the reconciling
  step.
  For `Review`, `ReviewInv`: the three properties together with `Driven`, what is true of
  the cycle in memory at each stage. From the capture to the end of the review the
  candidate is the worktree's and has its authority (`GateGrants`: what `Decide` lets
  through is declared, configured, granted by its class or approved). While the checks
  run, a required one without a result is still among those to run, and no result is of
  another candidate (`EvidenceAgrees`). `Bookkeeping` says which of the two sets of
  evidence counts, and that there are no findings before the first accepted review, which
  a checks-only stop relies on. What any earlier review raised is among the
  prior findings the next one must dispose of. Every action either goes on with a driven
  cycle or stops, unclean or clean: `Continues`, `StopsUnclean`, `StopsClean`.
* **JournalProofs**, of the two journals. For `Delivery`, `DeliveryInv` adds to
  `PhaseIsEarned` the type invariant; `CommitsAreEdits`, which bounds revisions by edits; `NamedWhenPublished` (a request is
  named from `published` on, and staging is reached only under a journal that names
  one); and `StepFollowsPhase`: the step a delivery is at agrees with the phase that was
  written, and between the checks and the merge the revision of the request is green or was
  pushed since. Without the last a merge could follow checks of another revision.
  For `AgentRuntime`, `AgentInv`: `RunShape` and `RowsShape` type the call in progress and
  the rows. `IntendedFirst` is the write-ahead order, and says of a call that is about to
  run that its intent is written and its effect has not happened: `EffectOnce` follows for
  the one step that performs it. For `NothingHeldAtRest`: `HeldIsKnown` (a held
  reservation is in the memory of the stage that runs, unless a crash or a failed release
  left it),
  `HostsRemember` and `FinishOrder` (which of the two reservations the guard and `finish`
  still have to resolve at each step), and `SlotsFollowBudgets` (owner ids are numbered, a
  slot after its budget, so a new reservation overwrites no row).

## Only model-checked

* `TypeOK` of `FileIndex`, which no run checks: that channel and map keep their bounds
  rests on `SelectSeq`, of whose value the provers know nothing. The proofs use the parts
  `FilesTyped` and `EventsTyped`.
* All liveness (`SupervisedRunEnds`, `CycleEnds`, `BatchResolves`, `LoopEnds`,
  `DeadIsHandled`, `OpenWorkIsDone`): fairness is out of the prover's reach.

## Where the code and its documents disagree

The run `CheckpointParked` demonstrates one. Resuming a checkpoint whose review is
parked at the batch provider returns `Ok` like a clean one;
`resume_implemented_checkpoint` (`run.rs:1545`) then writes `verified`, `reviewed` and
`approved`, and the candidate is landed. The comment at `run.rs:2392` calls that return
"Neither clean nor blocked".

The others were met while modelling. The models contain the behaviour (unless a line
says otherwise), and the properties are stated so that they say what is true in spite
of it.

| Code | What happens |
|---|---|
| `worker_lock.rs:208` | The delegate file is judged by its content and removed by path, and one that is created and still empty counts as stale: two delegates can hold the delegation |
| `worker_lock.rs:443` | A process that dies under the recovery guard leaves it behind; no later recovery succeeds until a person removes it |
| `control_plane.rs:283` | A cancellation that overtakes the bind finds no pid: the command of the cancelled execution runs on |
| `control_worker.rs:107` | The launch gate reads to the end of its pipe, so it also opens when the daemon dies: a crash between spawn and bind leads to a second process |
| `storage control_plane.rs:584` | The second interruption of an execution repeats a unique event id and the daemon does not start; `docs/prds/done/PRD-056.md:30` "Daemon restart recovers deterministically" |
| `main.rs:528`, `control_worker.rs:261` | A worker that needs more than the drain's five seconds after SIGTERM is left alive and its execution recorded as running; `PRD-056.md:180` "Orderly daemon shutdown stops at durable boundaries" |
| `control_worker.rs:190` | An execution whose row the database refused to write has no supervisor and stays running, in its slot, until the daemon is started again |
| `drive.rs:1115` | With a worker in flight an exhausted warrant leaves a width of zero, which `limit.max(1)` raises to one: more PRDs are attempted than allowed (`PRD-017.md:50`) |
| `bootstrap.rs:175` | `backlog bootstrap rollback` moves PRDs out of `completed`; `docs/contracts/completion-is-immutable.md:12` "deliberately no command" |
| `bootstrap.rs:242` | The rollback looks for dependents in the operator's earlier discovery: a PRD that was edited since to depend on a target, and claimed on that text, does not stop it (`PRD-010.md:330` "refuses [...] active/completed dependents") |
| `drive.rs:364` | A scope approval lands on the revision of the session that made the candidate; a session opened before admits the successor without it (`PRD-077.md:18`) |
| `run.rs:1404` | A checkpoint left at `verified` or `reviewed` by a crash is not resumable |
| `batch_review.rs:887` | A resume that fails to start is not tried again by "the next poll": the row is no longer among the submitted ones. A batch is submitted before its row is inserted, so a crash in between loses it |
| `batch_review.rs:705` | A daemon started without a batch policy starts no poller: the rows an earlier configuration submitted stay so past their deadline (`batch_review.rs:745` "instead of being silently orphaned in `submitted` forever") |
| `local_worker_runtime.rs:301` | Some stops commit the whole slot request, which takes the slot out of the pool for good |
| `local_runtime.rs:526` | Local call ids are `call_{index}` in every turn; migration 055 calls the identity "never reused" for another call, and a repeated one is answered from the journal |
| `raw_agent.rs:409`, `agent_runtime.rs:1593` | Attempt ids count from zero in every process and stage; a worker that serves two stages repeats them. `abandon_execution` after a panic inside the loop keeps a slot when the first release fails |
| `model_residency.rs:173`, `:542` | A new configuration stops only what it disables: residents beyond a lowered ceiling stay loaded, and are restarted, until the next model is admitted |
| `model_residency.rs:413` | A `loaded` row that is refused leaves a server nobody holds; servers outlive a killed daemon; restarts are never forgiven; a refused `failed` row keeps the resident in the table |
| `lifecycle.rs:353` | There is one row per path, so the order condition of `commit_summary_work` is always true: a summary of an older text completes the newer work, or appears again after a deletion (`PRD-003.md:64`, `:353`, `:369`) |
| `lifecycle.rs:473` | A scan takes a file that was changed while the daemon was down for unchanged; a file made between the scan and the watcher's first snapshot is seen by neither |
| `summary_worker.rs:133` | The row of a file that is gone and whose removal went unseen is refilled for ever; `max_pending_files` such rows starve the others (`PRD-003.md:182` "must resume pending or interrupted work after startup") |
| `delivery.rs:333` | The drive commits the worktree before it delivers it, and `git commit` refuses a clean tree: such a delivery stops, in manual mode too (`PRD-033.md:36`) |
| `delivery.rs:940` | `identity_mismatch` ranks lowest, so a retry starts at the commit and fails there; a journal `published` without an identifier is never published again |
| `delivery.rs:901` | "rather than a branch on the remote": the push comes before the probe |
| `delivery.rs:435` | A manual delivery after a merged one writes `awaiting_merge_authority`, so a later automatic one merges and deploys again (`PRD-033.md:39` "without duplicate side effects") |
| `delivery.rs:482`, `forge.rs:156` | The merge names the request and no revision: what is pushed between the checks and the merge is merged unchecked (`SPECTRA_AUTONOMOUS_HANDOVER.md:112` "merge only when [...] all required checks pass") |
| `delivery.rs:516` | A crash between a rollback and its record leaves `staging_deployed`: the next delivery smoke-tests what was rolled back to and writes `staging_verified` |
| `delivery.rs:728` (not modelled) | Evidence and effect are two writes; a crash between them leaves evidence no gate finds. Gates are not tied to a revision |

## Not modelled

* **Target delivery** (`deliver_to_with`, `run_effect`): the same shape as `Delivery`
  with a row per effect; next in the plan.
* **ControlPlane**: project pause and archive, capability sessions, repository leases,
  pending gates, the event log. **Drive**: settlement of reservations, migration
  versions, costs. **Review**: waivers, lessons, reviewer calibration, prompt packing.
  **Checkpoint**: discovery of legacy checkpoints, the waves of a resume of all.
* **Inference router**, worker selection and probation, stewardship, decisions, the
  migration runner: stateful, planned.
* **Accounting, billing, rollups, reports; configuration, onboarding; MCP tools; tray,
  desktop, dashboard; context, compression, tokens, repository map; service
  management, logging**: arithmetic over recorded rows, parsing, text processing and
  presentation. They are more than half of the code and have no protocol a model
  checker would add to.

## Limits of the models

* SQLite transactions are atomic and durable; git commands succeed or fail whole.
* `resume` discovers its target again; it is a run of `Backlog` with a new view.
* The two runs a session may make of one PRD are one claimant in `Drive`.
* Of an agent and of a model, only the outcome is modelled.
* `WorkerLock` leaves out the generation number, the installation id and the socket path of
  a claim: no decision of the lock looks at them.
* `ControlPlane`: the worker whose row was never bound, which `BoundSurvivorNotReplaced`
  does not speak of, and a cancellation that overtakes the bind are in the model; nothing
  is claimed of them. Liveness assumes that a launched command ends.
* `Drive.StartsOnLandedWork` speaks of what the own session landed. An approval that lands
  on another session's revision is in the model and outside that property. `SpawnJobs`
  does not read the scope a second time (`drive.rs:1818`, an error counts as an empty
  scope there), and a worker thread panics only where `catch_unwind` sees it.
* `Review.Begin` drives a cycle that is not yet completed; the code lets a completed one be
  driven again (`coordinator.rs:142`).
* `AgentRuntime.Reserve` leaves out the storage error that uses a number up without a row
  (`agent_runtime.rs:1609`), and `Persist` is all or nothing where the code inserts the
  attempts one by one (`:1096`); no property depends on the rows of one persist.
* A stamp of `FileIndex` stands for the modification time and the text; two edits in
  one second that leave the size alone, which the code cannot tell apart, are not in it.
  The transactions of a reconciliation, under one lock of the database, are one step
  (`Reconcile`), or a part of them before a crash (`ReconcileCutShort`).
* `Delivery`: a request that is closed unmerged, and a second one opened by hand for the
  same branch, are left out.

## Plan

1. Target delivery and its effect ledger in `Delivery`.
2. Repository leases, project pause and archive in `ControlPlane`.
3. An abstract specification of one PRD and its completion that `Checkpoint` and
   `Backlog` both implement.
4. Probation and worker selection; stewardship and decisions; the migration runner.
