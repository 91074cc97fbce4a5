--------------------------- MODULE ExecutionQueue ---------------------------
(***************************************************************************)
(* What the durable execution queue promises, without worker processes,    *)
(* supervisors, reservations or attempts (docs/prds/done/PRD-056.md):      *)
(* executions of several projects run under a ceiling of their project and *)
(* a global one; the queue changes only while a daemon serves it; an       *)
(* outcome is final; and when a daemon comes back it decides, once and for *)
(* every execution the last one left running, between running it again and *)
(* setting it aside for the operator.                                      *)
(*                                                                         *)
(* ControlPlane.tla implements this specification.                         *)
(***************************************************************************)
EXTENDS Integers, FiniteSets

CONSTANTS Executions, Projects,
          ProjectOf,        \* the project of each execution
          Ceiling,          \* each project's concurrency ceiling
          GlobalCeiling

VARIABLES status,   \* of each execution
          served    \* whether a daemon serves the queue

vars == <<status, served>>

Occupied == {e \in Executions : status[e] \in {"running", "ambiguous_live_orphan"}}

Init ==
  /\ status = [e \in Executions |-> "none"]
  /\ served = FALSE

Move(e, from, to) ==
  /\ served
  /\ status[e] \in from
  /\ status' = [status EXCEPT ![e] = to]
  /\ UNCHANGED served

Enqueue(e) == Move(e, {"none"}, "queued")

(* An orphan keeps its slot: it is still doing the work. *)
Begin(e) ==
  /\ Cardinality(Occupied) < GlobalCeiling
  /\ Cardinality({o \in Occupied : ProjectOf[o] = ProjectOf[e]}) < Ceiling[ProjectOf[e]]
  /\ Move(e, {"queued"}, "running")

(* The worker's own outcome is that of an execution that was running. *)
Conclude(e) == \E outcome \in {"completed", "failed"} : Move(e, {"running"}, outcome)

CallOff(e) ==
  \E outcome \in {"cancelled", "foreground_ended"} : Move(e, {"queued", "running"}, outcome)

Abandon ==
  /\ served
  /\ served' = FALSE
  /\ UNCHANGED status

TakeUp ==
  /\ ~ served
  /\ served' = TRUE
  /\ status' \in [Executions -> {status[e] : e \in Executions}
                                  \cup {"queued", "ambiguous_live_orphan"}]
  /\ \A e \in Executions :
       IF status[e] = "running" THEN status'[e] \in {"queued", "ambiguous_live_orphan"}
                                ELSE status'[e] = status[e]

Next ==
  \/ \E e \in Executions : Enqueue(e) \/ Begin(e) \/ Conclude(e) \/ CallOff(e)
  \/ Abandon \/ TakeUp

Spec == Init /\ [][Next]_vars
=============================================================================
