---------------------------- MODULE ControlPlane ----------------------------
(***************************************************************************)
(* The resident daemon's durable execution queue and the supervision of    *)
(* the worker processes it launches:                                       *)
(*   crates/familiar-ai-storage/src/repos/control_plane.rs  (the tables),  *)
(*   crates/familiar-ai-daemon/src/control_plane.rs         (the service), *)
(*   crates/familiar-ai-daemon/src/control_worker.rs        (supervision), *)
(*   crates/familiar-ai-daemon/src/main.rs                  (start-up).    *)
(*                                                                         *)
(* Durable state survives the daemon: executions, worker rows, slot pools  *)
(* and their reservations, and the recovery events with their UNIQUE id.   *)
(* Supervisor tasks and half-done cancellations live in the daemon and are *)
(* lost when it dies; worker processes are in process groups of their own  *)
(* and are not.                                                            *)
(*                                                                         *)
(* Abstractions.  A worker is named <<execution, attempt>>, as its         *)
(* identity "{id}:{attempt}" is.  Each database transaction is one step; a *)
(* failing one matters where execute goes on without it (StorageFails).    *)
(* The order in which eligible executions are claimed (priorities, least   *)
(* recent project) is left open, as is the project's active, paused or     *)
(* archived state: it only withholds submissions and claims, which no      *)
(* property requires to happen.  Errors while a worker is being launched   *)
(* that end in "kill the child and record failed" are one alternative per  *)
(* stage.  Capability sessions and event payloads are left out.            *)
(***************************************************************************)
EXTENDS Integers, FiniteSets

CONSTANTS Executions, Projects,
          ProjectOf,        \* the project of each execution
          KeyOf,            \* the idempotency key of each submission
          Foreground,       \* executions submitted as foreground-only
          Ceiling,          \* each project's concurrency ceiling
          GlobalCeiling,    \* SchedulingPolicy.global_ceiling
          MaxUpsets         \* bound: daemon crashes, shutdowns whose drain runs out
                            \* and storage errors, together

ASSUME CeilingAssumption ==
  /\ ProjectOf \in [Executions -> Projects]
  /\ "global" \notin Projects       \* pool ids of projects have a prefix of their own
  /\ Foreground \subseteq Executions
  /\ Ceiling \in [Projects -> Nat \ {0}]
  /\ GlobalCeiling \in Nat
  /\ MaxUpsets \in Nat
  /\ IsFiniteSet(Executions)

(* An execution is claimed once, and once more after each upset. *)
Attempts == 1 .. (MaxUpsets + 1)
Workers  == Executions \X Attempts

VARIABLES
  \* durable
  state,       \* control_plane_executions.state ("none": not submitted)
  attempt,     \* control_plane_executions.attempt
  bound,       \* attempt named by worker_identity, 0 for NULL
  row,         \* control_plane_workers.state of each worker
  held,        \* held control-plane reservations
  free,        \* available slots: per project, and global
  recovered,   \* kinds of the recovery events on record, per execution
  \* the daemon process
  daemon,      \* "down", "starting" (survivors verified), "up", "stopping"
               \* (shutdown signalled), "draining" (no more claims),
               \* "expired" (the drain's time is over)
  survivors,   \* verified_live_workers of this start-up
  task,        \* stage of the supervisor task of each execution
  cancel,      \* operator's cancellation: <<stage, attempt whose pid was seen>>
  upsets,      \* crashes, expired drains and storage errors so far
  \* the operating system
  proc,        \* the process of each worker
  signalled,   \* live workers whose process group was sent SIGTERM
  lost         \* history: workers whose supervisor ended on a storage error

durable == <<state, attempt, bound, row, held, free, recovered>>
inDaemon == <<daemon, survivors, task, cancel>>
os == <<proc, signalled>>
history == <<upsets, lost>>
vars == <<durable, inDaemon, os, history>>

Terminal == {"completed", "failed", "cancelled", "foreground_ended"}
States   == {"none", "queued", "running", "ambiguous_live_orphan"} \cup Terminal
Kinds    == {"runner_interrupted", "ambiguous_live_orphan"}
NoCancel == <<"idle", 0>>

TypeOK ==
  /\ state \in [Executions -> States]
  /\ attempt \in [Executions -> Attempts \cup {0}]
  /\ bound \in [Executions -> Attempts \cup {0}]
  /\ row \in [Workers -> {"none", "running", "exited", "ambiguous"}]
  /\ held \subseteq Workers
  /\ free \in [Projects \cup {"global"} -> Nat]
  /\ recovered \in [Executions -> SUBSET Kinds]
  /\ daemon \in {"down", "starting", "up", "stopping", "draining", "expired"}
  /\ survivors \subseteq Workers
  /\ task \in [Executions -> {"none", "claimed", "spawned", "bound", "waiting",
                           "interrupting"}]
  /\ cancel \in [Executions -> {NoCancel} \cup ({"cancelled", "foreground_ended"} \X (Attempts \cup {0}))]
  /\ upsets \in 0 .. MaxUpsets
  /\ proc \in [Workers -> {"none", "gated", "running", "succeeded", "gone"}]
  /\ signalled \subseteq Workers
  /\ lost \subseteq Workers

Init ==
  /\ state = [e \in Executions |-> "none"]
  /\ attempt = [e \in Executions |-> 0]
  /\ bound = [e \in Executions |-> 0]
  /\ row = [w \in Workers |-> "none"]
  /\ held = {}
  /\ free = [k \in Projects \cup {"global"} |->
               IF k = "global" THEN GlobalCeiling ELSE Ceiling[k]]
  /\ recovered = [e \in Executions |-> {}]
  /\ daemon = "down"
  /\ survivors = {}
  /\ task = [e \in Executions |-> "none"]
  /\ cancel = [e \in Executions |-> NoCancel]
  /\ upsets = 0
  /\ proc = [w \in Workers |-> "none"]
  /\ signalled = {}
  /\ lost = {}

Live(w)    == proc[w] \in {"gated", "running"}
Current(e) == <<e, attempt[e]>>

(* SIGKILL, waited for. *)
Kill(w) == /\ proc' = [proc EXCEPT ![w] = IF Live(w) THEN "gone" ELSE @]
           /\ signalled' = signalled \ {w}

(* The executions that count against the ceilings. *)
Occupied == {e \in Executions : state[e] \in {"running", "ambiguous_live_orphan"}}
OccupiedBy(p) == {e \in Occupied : ProjectOf[e] = p}

-----------------------------------------------------------------------------
(* release_control_plane_reservation for the executions that leave their   *)
(* slot: the held reservation of each is released and its slot returned to *)
(* the global and the project pool, never above the pool's capacity.       *)
HeldBy(leaving) == {w \in held : w[1] \in leaving}

Returned(k, leaving) ==
  LET slots == {w \in HeldBy(leaving) : k = "global" \/ ProjectOf[w[1]] = k}
      capacity == IF k = "global" THEN GlobalCeiling ELSE Ceiling[k]
      sum == free[k] + Cardinality(slots)
  IN  IF sum > capacity THEN capacity ELSE sum

Release(leaving) ==
  /\ held' = held \ HeldBy(leaving)
  /\ free' = [k \in DOMAIN free |-> Returned(k, leaving)]

(* Fault: the reservation is forgotten when the outcome is recorded. *)
FinishKeepingSlot(e, outcome) ==
  /\ state' = IF state[e] \in {"running", "queued"}
                THEN [state EXCEPT ![e] = outcome] ELSE state
  /\ UNCHANGED <<held, free>>

(* finish: only a running or queued execution reaches a terminal state. *)
Finish(e, outcome) ==
  IF state[e] \in {"running", "queued"}
    THEN /\ state' = [state EXCEPT ![e] = outcome]
         /\ Release({e})
    ELSE UNCHANGED <<state, held, free>>

-----------------------------------------------------------------------------
(* submit: a repeated idempotency key is acknowledged with the execution   *)
(* already on record.  An archived project refuses, which looks like no    *)
(* submission.                                                             *)
Submit(e) ==
  /\ daemon = "up"
  /\ state[e] = "none"
  /\ \A other \in Executions : KeyOf[other] = KeyOf[e] => state[other] = "none"
  /\ state' = [state EXCEPT ![e] = "queued"]
  /\ UNCHANGED <<attempt, bound, row, held, free, recovered, inDaemon, os, history>>

(* Fault: orphans are not counted against the ceilings. *)
ClaimNextBesideOrphans(e) ==
  LET p == ProjectOf[e]
      running == {o \in Executions : state[o] = "running"} IN
  /\ daemon \in {"up", "stopping"}
  /\ Cardinality(running) < GlobalCeiling
  /\ state[e] = "queued"
  /\ Cardinality({o \in running : ProjectOf[o] = p}) < Ceiling[p]
  /\ state' = [state EXCEPT ![e] = "running"]
  /\ attempt' = [attempt EXCEPT ![e] = @ + 1]
  /\ held' = held \cup {<<e, attempt[e] + 1>>}
  /\ free' = [free EXCEPT !["global"] = GlobalCeiling - Cardinality(Occupied) - 1,
                          ![p] = Ceiling[p] - Cardinality(OccupiedBy(p)) - 1]
  /\ task' = [task EXCEPT ![e] = "claimed"]
  /\ UNCHANGED <<bound, row, recovered, daemon, survivors, cancel, history, os>>

(* claim_next, with ensure_slot_pool and acquire_control_plane_reservation: *)
(* one immediate transaction.  The loop of run claims as long as there is  *)
(* work, without looking at the shutdown signal in between.                *)
ClaimNext(e) ==
  LET p == ProjectOf[e] IN
  /\ daemon \in {"up", "stopping"}
  /\ Cardinality(Occupied) < GlobalCeiling
  /\ state[e] = "queued"
  /\ Cardinality(OccupiedBy(p)) < Ceiling[p]
  /\ state' = [state EXCEPT ![e] = "running"]
  /\ attempt' = [attempt EXCEPT ![e] = @ + 1]
  /\ held' = held \cup {<<e, attempt[e] + 1>>}
  /\ free' = [free EXCEPT !["global"] = GlobalCeiling - Cardinality(Occupied) - 1,
                          ![p] = Ceiling[p] - Cardinality(OccupiedBy(p)) - 1]
  /\ task' = [task EXCEPT ![e] = "claimed"]
  /\ UNCHANGED <<bound, row, recovered, daemon, survivors, cancel, history, os>>

-----------------------------------------------------------------------------
(* execute, up to the spawn: shutting down, a bad command or a spawn error *)
(* records failed; otherwise a child waits for its launch token on stdin.  *)
Spawn(e) ==
  /\ task[e] = "claimed"
  /\ \/ /\ Finish(e, "failed")
        /\ task' = [task EXCEPT ![e] = "none"]
        /\ UNCHANGED proc
     \/ /\ proc' = [proc EXCEPT ![Current(e)] = "gated"]
        /\ task' = [task EXCEPT ![e] = "spawned"]
        /\ UNCHANGED <<state, held, free>>
  /\ UNCHANGED <<attempt, bound, row, recovered, daemon, survivors, cancel,
                 history, signalled>>

(* bind_worker: needs the execution to be running still; if it is not, the *)
(* child is killed and nothing is recorded.                                *)
Bind(e) ==
  /\ task[e] = "spawned"
  /\ \/ /\ state[e] = "running"
        /\ row' = [row EXCEPT ![Current(e)] = "running"]
        /\ bound' = [bound EXCEPT ![e] = attempt[e]]
        /\ task' = [task EXCEPT ![e] = "bound"]
        /\ UNCHANGED os
     \/ /\ state[e] # "running"
        /\ Kill(Current(e))
        /\ task' = [task EXCEPT ![e] = "none"]
        /\ UNCHANGED <<row, bound>>
  /\ UNCHANGED <<state, attempt, held, free, recovered, daemon, survivors, cancel,
                 history>>

(* Mint and store the worker's session, then write the launch token; any   *)
(* error kills the child and records failed.                               *)
OpenGate(e) ==
  /\ task[e] = "bound"
  /\ \/ /\ proc' = [proc EXCEPT ![Current(e)] = IF @ = "gated" THEN "running" ELSE @]
        /\ task' = [task EXCEPT ![e] = "waiting"]
        /\ UNCHANGED <<state, held, free, signalled>>
     \/ /\ Kill(Current(e))
        /\ task' = [task EXCEPT ![e] = "none"]
        /\ Finish(e, "failed")
  /\ UNCHANGED <<attempt, bound, row, recovered, daemon, survivors, cancel, history>>

(* Fault: any exit is recorded as completion. *)
ReapAnyExit(e) ==
  /\ task[e] = "waiting"
  /\ ~ Live(Current(e))
  /\ Finish(e, "completed")
  /\ task' = [task EXCEPT ![e] = "none"]
  /\ UNCHANGED <<attempt, bound, row, recovered, daemon, survivors, cancel,
                 history, os>>

(* Fault: an unsuccessful exit returns from the task without an outcome. *)
ReapSilently(e) ==
  /\ task[e] = "waiting"
  /\ ~ Live(Current(e))
  /\ IF proc[Current(e)] = "succeeded" THEN Finish(e, "completed")
                                       ELSE UNCHANGED <<state, held, free>>
  /\ task' = [task EXCEPT ![e] = "none"]
  /\ UNCHANGED <<attempt, bound, row, recovered, daemon, survivors, cancel,
                 history, os>>

(* The select of execute.  child.wait() returned: *)
Reap(e) ==
  /\ task[e] = "waiting"
  /\ ~ Live(Current(e))
  /\ Finish(e, IF proc[Current(e)] = "succeeded" THEN "completed" ELSE "failed")
  /\ task' = [task EXCEPT ![e] = "none"]
  /\ UNCHANGED <<attempt, bound, row, recovered, daemon, survivors, cancel,
                 history, os>>

(* the timeout fired: SIGKILL to the group, wait, record failed; *)
TimeOut(e) ==
  /\ task[e] = "waiting"
  /\ Kill(Current(e))
  /\ Finish(e, "failed")
  /\ task' = [task EXCEPT ![e] = "none"]
  /\ UNCHANGED <<attempt, bound, row, recovered, daemon, survivors, cancel, history>>

(* the daemon is shutting down: SIGTERM to the group, wait, record failed  *)
(* however the process ended.                                              *)
Interrupt(e) ==
  /\ task[e] = "waiting"
  /\ daemon \in {"stopping", "draining", "expired"}
  /\ signalled' = signalled \cup {w \in Workers : w = Current(e) /\ Live(w)}
  /\ task' = [task EXCEPT ![e] = "interrupting"]
  /\ UNCHANGED <<durable, daemon, survivors, cancel, history, proc>>

ReapInterrupted(e) ==
  /\ task[e] = "interrupting"
  /\ ~ Live(Current(e))
  /\ Finish(e, "failed")
  /\ task' = [task EXCEPT ![e] = "none"]
  /\ UNCHANGED <<attempt, bound, row, recovered, daemon, survivors, cancel,
                 history, os>>

(* The transaction that binds the worker or records an outcome fails.  All *)
(* of execute ignores that (let _ = service.finish(...); return): the      *)
(* child has been killed or waited for, the task is over, and nothing is   *)
(* on record.                                                              *)
StorageFails(e) ==
  /\ task[e] # "none"
  /\ task[e] = "interrupting" => ~ Live(Current(e))
  /\ upsets < MaxUpsets
  /\ upsets' = upsets + 1
  /\ lost' = lost \cup {Current(e)}
  /\ Kill(Current(e))
  /\ task' = [task EXCEPT ![e] = "none"]
  /\ UNCHANGED <<durable, daemon, survivors, cancel>>

-----------------------------------------------------------------------------
(* cancel and end_foreground: the worker's pid is looked up under one lock *)
(* of the database, its group is sent SIGTERM, and the outcome is recorded *)
(* under a second lock.                                                    *)
CancelLookup(e, outcome) ==
  /\ daemon = "up"
  /\ state[e] # "none"
  /\ cancel[e] = NoCancel
  /\ outcome = "foreground_ended" => e \in Foreground
  /\ LET seen == IF bound[e] # 0 /\ row[<<e, bound[e]>>] = "running" THEN bound[e] ELSE 0
     IN  /\ cancel' = [cancel EXCEPT ![e] = <<outcome, seen>>]
         /\ signalled' = signalled \cup {w \in Workers : w = <<e, seen>> /\ Live(w)}
  /\ UNCHANGED <<durable, daemon, survivors, task, history, proc>>

CancelRecord(e) ==
  /\ cancel[e] # NoCancel
  /\ Finish(e, cancel[e][1])
  /\ cancel' = [cancel EXCEPT ![e] = NoCancel]
  /\ UNCHANGED <<attempt, bound, row, recovered, daemon, survivors, task,
                 history, os>>

-----------------------------------------------------------------------------
(* A launched command ends by itself or because of the signal it was sent. *)
ProcessEnds(w, how) ==
  /\ proc[w] = "running"
  /\ proc' = [proc EXCEPT ![w] = how]
  /\ signalled' = signalled \ {w}
  /\ UNCHANGED <<durable, inDaemon, history>>

(* What is lost with the daemon, and what it sets free.  The launcher is   *)
(* sh -c 'IFS= read -r launch_token; exec "$@" </dev/null'.  The death of  *)
(* the daemon closes the pipe: read fails, and the exec after the          *)
(* semicolon is carried out all the same.                                  *)
Gone ==
  /\ daemon' = "down"
  /\ survivors' = {}
  /\ task' = [e \in Executions |-> "none"]
  /\ cancel' = [e \in Executions |-> NoCancel]
  /\ proc' = [w \in Workers |-> IF proc[w] = "gated" THEN "running" ELSE proc[w]]
  /\ UNCHANGED <<durable, signalled, lost>>

Crash ==
  /\ daemon # "down"
  /\ upsets < MaxUpsets
  /\ upsets' = upsets + 1
  /\ Gone

BeginShutdown ==
  /\ daemon = "up"
  /\ daemon' = "stopping"
  /\ UNCHANGED <<durable, survivors, task, cancel, history, os>>

StopClaiming ==
  /\ daemon = "stopping"
  /\ daemon' = "draining"
  /\ UNCHANGED <<durable, survivors, task, cancel, history, os>>

(* The daemon waits for run, which joins the supervisor tasks, but for the *)
(* five seconds of DRAIN at most; then it goes on to leave.                *)
DrainExpires ==
  /\ daemon = "draining"
  /\ upsets < MaxUpsets
  /\ upsets' = upsets + 1
  /\ daemon' = "expired"
  /\ UNCHANGED <<durable, survivors, task, cancel, os, lost>>

(* The tasks that are still there are dropped with the runtime.            *)
EndShutdown ==
  /\ \/ daemon = "draining" /\ \A e \in Executions : task[e] = "none"
     \/ daemon = "expired"
  /\ Gone
  /\ UNCHANGED upsets

(* Start-up: verified_live_workers, then recover_running in one            *)
(* transaction.  A worker process may end between the two.                 *)
VerifySurvivors ==
  /\ daemon = "down"
  /\ daemon' = "starting"
  /\ survivors' = {w \in Workers : row[w] = "running" /\ Live(w)}
  /\ UNCHANGED <<durable, task, cancel, history, os>>

Interrupted == {e \in Executions : state[e] = "running"}

(* Fault: the survivors of the previous daemon are not consulted. *)
OrphanedIgnored == {}

Orphaned == {e \in Interrupted : bound[e] # 0 /\ <<e, bound[e]>> \in survivors}

RecoveryKind(e) == IF e \in Orphaned THEN "ambiguous_live_orphan" ELSE "runner_interrupted"

(* The recovery event's id is "{id}:recovery:{kind}", and event ids are    *)
(* UNIQUE: one that is already on record fails the transaction.            *)
RecoveryConflicts == \E e \in Interrupted : RecoveryKind(e) \in recovered[e]

(* recover_running: requeue the executions whose worker is gone, mark the  *)
(* others ambiguous_live_orphan.                                           *)
Requeue ==
  /\ state' = [e \in Executions |->
                 IF e \in Orphaned THEN "ambiguous_live_orphan"
                 ELSE IF e \in Interrupted THEN "queued" ELSE state[e]]
  /\ row' = [w \in Workers |->
               IF w[1] \in Interrupted /\ w[2] = bound[w[1]]
                 THEN IF w[1] \in Orphaned THEN "ambiguous" ELSE "exited"
                 ELSE row[w]]
  /\ Release(Interrupted \ Orphaned)
  /\ recovered' = [e \in Executions |->
                     IF e \in Interrupted THEN recovered[e] \cup {RecoveryKind(e)}
                     ELSE recovered[e]]
  /\ daemon' = "up"
  /\ UNCHANGED <<attempt, bound>>

(* If the transaction fails, start-up returns the error and the daemon     *)
(* exits.                                                                  *)
Recover ==
  /\ daemon = "starting"
  /\ IF RecoveryConflicts THEN daemon' = "down" /\ UNCHANGED durable ELSE Requeue
  /\ survivors' = {}
  /\ UNCHANGED <<task, cancel, history, os>>

-----------------------------------------------------------------------------
Supervise(e) == \/ Spawn(e) \/ Bind(e) \/ OpenGate(e) \/ Reap(e) \/ TimeOut(e)
                \/ Interrupt(e) \/ ReapInterrupted(e) \/ StorageFails(e)

Next ==
  \/ \E e \in Executions :
       \/ Submit(e) \/ ClaimNext(e) \/ Supervise(e) \/ CancelRecord(e)
       \/ \E outcome \in {"cancelled", "foreground_ended"} : CancelLookup(e, outcome)
  \/ \E w \in Workers, how \in {"succeeded", "gone"} : ProcessEnds(w, how)
  \/ Crash \/ BeginShutdown \/ StopClaiming \/ DrainExpires \/ EndShutdown
  \/ VerifySurvivors \/ Recover

Spec == Init /\ [][Next]_vars

(* The daemon's tasks are scheduled and the commands it launches end.      *)
Fairness ==
  /\ \A e \in Executions :
       /\ WF_vars(Spawn(e)) /\ WF_vars(Bind(e)) /\ WF_vars(OpenGate(e))
       /\ WF_vars(Reap(e)) /\ WF_vars(Interrupt(e)) /\ WF_vars(ReapInterrupted(e))
  /\ \A w \in Workers : WF_vars(\E how \in {"succeeded", "gone"} : ProcessEnds(w, how))

FairSpec == Spec /\ Fairness

-----------------------------------------------------------------------------
(* The slot ledger agrees with the executions: whatever mix of claims,     *)
(* outcomes, cancellations, crashes and recoveries came before, exactly    *)
(* the running and the orphaned executions hold a reservation, for their   *)
(* current attempt, and the pools have the rest of their capacity free.    *)
SlotLedger ==
  /\ held = {Current(e) : e \in Occupied}
  /\ free["global"] = GlobalCeiling - Cardinality(Occupied)
  /\ \A p \in Projects : free[p] = Ceiling[p] - Cardinality(OccupiedBy(p))

(* An execution recorded completed had its current attempt's process exit  *)
(* with success: no outcome of another attempt, no cancellation, timeout   *)
(* or shutdown is ever recorded as completion.                             *)
CompletedMeansSucceeded ==
  \A e \in Executions : state[e] = "completed" => proc[Current(e)] = "succeeded"

(* A worker whose row was bound and whose process survives the daemon is   *)
(* never replaced: no later attempt of its execution is launched while it  *)
(* lives (PRD-056, ambiguous live orphans).                                *)
BoundSurvivorNotReplaced ==
  \A e \in Executions, a, b \in Attempts :
    a < b /\ Live(<<e, a>>) /\ proc[<<e, b>>] # "none" => row[<<e, a>>] = "none"

(* A terminal execution stays as it was recorded, so late outcomes,        *)
(* repeated cancellations and recoveries cannot rewrite it.                *)
TerminalIsFinal ==
  [][\A e \in Executions : state[e] \in Terminal => state'[e] = state[e]]_vars

(* The rows, workers and supervisors implement the queue: no crash, late   *)
(* outcome, cancellation or failed start changes an execution while no     *)
(* daemon serves it, starts one beyond a ceiling that an orphan still      *)
(* occupies, or leaves one running that recovery did not decide about      *)
(* (PRD-056: restart recovers deterministically, ceilings hold).           *)
Queue == INSTANCE ExecutionQueue WITH
           status <- state, served <- daemon \notin {"down", "starting"}

ImplementsQueue == Queue!Spec

(* An execution does not stay running under a daemon that does, whichever  *)
(* way its supervisor ends, unless the database refused the very row that  *)
(* would have said so: every way out of execute must record an outcome.    *)
SupervisedRunEnds ==
  \A e \in Executions :
    state[e] = "running" /\ daemon = "up" ~>
      state[e] # "running" \/ daemon = "down" \/ Current(e) \in lost
=============================================================================
