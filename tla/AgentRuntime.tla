---------------------------- MODULE AgentRuntime ----------------------------
(***************************************************************************)
(* The loop Familiar runs itself around a raw model: RawAgent::execute and *)
(* run_loop (familiar-ai-agent/src/raw_agent.rs, raw_runtime.rs), the      *)
(* daemon's host of it (familiar-ai-daemon/src/agent_runtime.rs), the      *)
(* write-ahead tool journal and attempt ledger                             *)
(* (familiar-ai-storage/src/repos/agent_runtime.rs, migration 055) and the *)
(* reservation it takes of a budget and of local inference slots.          *)
(*                                                                         *)
(* One execution id is modelled. Its stages (implementation, review,       *)
(* remediation) each have a host of their own, built again in every        *)
(* process that works on the execution; the journal, the ledger and the    *)
(* reservations are rows that outlive the process.                         *)
(*                                                                         *)
(* The names AgentInit, AgentNext, AgentSpec carry the component's name    *)
(* because the module is also extended beside Delivery, the other journal. *)
(*                                                                         *)
(* Left out: the text of prompts and results, the path containment of the  *)
(* sandbox, cancellation (execute passes a token nobody can cancel) and    *)
(* FatalToolRefusal (no authorizer answers StopClosed).                    *)
(***************************************************************************)
EXTENDS Naturals, Sequences, FiniteSets

CONSTANTS
  Stages,         \* the stages whose selected worker is a raw runtime
  Worker,         \* Worker[s]: identity of the worker selected for stage s
  LocalStages,    \* the stages whose worker is a local runtime
  ReadOnlyStages, \* the stages run under FilesystemPolicy::ReadOnly
  Slots,          \* concurrent_inference_slots of the local worker's profile
  MaxIterations,  \* LoopCeilings.max_iterations
  MaxTokens,      \* LoopCeilings.max_output_tokens
  MaxCalls,       \* bound: tool calls in one turn
  MaxRuns,        \* bound: calls of RawAgent::execute
  MaxBoots,       \* bound: processes after the first one
  MaxFaults       \* bound: database operations that fail

ASSUME AgentAssumption ==
  /\ LocalStages \subseteq Stages /\ ReadOnlyStages \subseteq Stages
  /\ {MaxIterations, MaxTokens, MaxCalls, MaxRuns, MaxBoots, MaxFaults, Slots} \subseteq Nat

VARIABLES
  resv,      \* resource_reservations: owner_instance_id -> state
  intents,   \* agent_runtime_tool_intents: call id -> what the call asks for
  results,   \* agent_runtime_tool_results: call ids with a row
  ledger,    \* agent_runtime_attempts: the rows
  host,      \* per stage: attempt_sequence, reservation_id, local_reservation
  run,       \* the execute call in progress
  boot,      \* which process this is
  runs,      \* execute calls so far
  faults,    \* database failures so far
  ran,       \* history: how often the effect of a call id happened
  leaked     \* history: reservations a crash or a failed write left behind

agentVars == <<resv, intents, results, ledger, host, run, boot, runs, faults, ran,
          leaked>>
toolJournal == <<intents, results>>

-----------------------------------------------------------------------------
\* What a call asks for: writes and commands are refused (RequestScopedAuthorizer)
\* in a read-only stage, and any call may be malformed, unknown or out of scope.
Kinds(s) == {"refused"} \cup IF s \in ReadOnlyStages THEN {"read"} ELSE {"edit", "command"}
Stops == {"completed", "iterations", "tokens", "invalid", "timeout", "ambiguous",
          "retryable", "nonretryable", "panic"}

NoOwner == <<>>
NoResult == "none"

\* A freshly built SqliteRawAgentHost.
NewHost == [seq |-> 0, budget |-> NoOwner, local |-> NoOwner]

Idle == [pc |-> "idle", stage |-> NoResult, iter |-> 0, tokens |-> 0, calls |-> <<>>,
         made |-> {}, stop |-> NoResult, blind |-> FALSE]

Owner(kind, s, n) == <<kind, s, n>>

\* mint_attempt_id: "{execution_id}:{worker_id}:{attempt_scope}:{counter}".
Attempt(s, scope, n) == <<Worker[s], scope, n>>

\* The id of call i of a turn: a hosted provider issues one of its own, a local
\* runtime that reports none has "call_{index}".
CallId(s, scope, n, i) ==
  IF s \in LocalStages THEN <<i>> ELSE <<i, s, boot, scope, n>>

LocalOwners == {o \in DOMAIN resv : o[1] = "local"}

\* The pool's `available`: a release gives the slot back, a commit of the whole
\* request and a hold do not.
Available == Slots - Cardinality({o \in LocalOwners : resv[o] # "released"})

With(f, k, v) == [x \in DOMAIN f \cup {k} |-> IF x = k THEN v ELSE f[x]]

CanFail == faults < MaxFaults
Fails == CanFail /\ faults' = faults + 1

AgentInit ==
  /\ resv = <<>> /\ intents = <<>> /\ ran = <<>>
  /\ results = {} /\ ledger = {} /\ leaked = {}
  /\ host = [s \in Stages |-> NewHost]
  /\ run = Idle
  /\ boot = 0 /\ runs = 0 /\ faults = 0

-----------------------------------------------------------------------------
(* RawAgent::execute up to the loop. *)

\* reserve_execution_budget: the sequence number is used up first; an owner id
\* that already has a row is refused (UNIQUE), and the execution with it.
Reserve(s) ==
  LET o == Owner("budget", s, host[s].seq) IN
  /\ run.pc = "idle" /\ runs < MaxRuns
  /\ runs' = runs + 1
  /\ IF o \in DOMAIN resv
     THEN /\ host' = [host EXCEPT ![s].seq = @ + 1]
          /\ UNCHANGED <<resv, run>>
     ELSE /\ host' = [host EXCEPT ![s].seq = @ + 1, ![s].budget = o]
          /\ resv' = With(resv, o, "held")
          /\ run' = [Idle EXCEPT !.pc = IF s \in LocalStages THEN "slot" ELSE "open",
                                 !.stage = s]
  /\ UNCHANGED <<toolJournal, ledger, boot, faults, ran, leaked>>

S == run.stage
Scope == host[S].seq

\* acquire_local_reservation: a free slot, or the budget is rolled back. The
\* guard is not armed yet: when the rollback fails too, nobody releases.
AcquireSlot ==
  /\ run.pc = "slot"
  /\ LET o == Owner("local", S, Scope - 1) IN
     \/ /\ Available > 0
        /\ resv' = With(resv, o, "held")
        /\ host' = [host EXCEPT ![S].local = o]
        /\ run' = [run EXCEPT !.pc = "open"]
        /\ UNCHANGED <<faults, leaked>>
     \/ /\ Available = 0
        /\ resv' = [resv EXCEPT ![host[S].budget] = "released"]
        /\ host' = [host EXCEPT ![S].budget = NoOwner]
        /\ run' = Idle
        /\ UNCHANGED <<faults, leaked>>
     \/ /\ Available = 0 /\ Fails
        /\ leaked' = leaked \cup {host[S].budget}
        /\ run' = Idle
        /\ UNCHANGED <<resv, host>>
  /\ UNCHANGED <<toolJournal, ledger, boot, runs, ran>>

\* host.journal(): opened once; a journal that could not be opened answers
\* every call as already failed.
OpenJournal ==
  /\ run.pc = "open"
  /\ \/ run' = [run EXCEPT !.pc = "turn"] /\ UNCHANGED faults
     \/ run' = [run EXCEPT !.pc = "turn", !.blind = TRUE] /\ Fails
  /\ UNCHANGED <<resv, toolJournal, ledger, host, boot, runs, ran, leaked>>

-----------------------------------------------------------------------------
(* run_loop: one iteration is a submission and the calls of its answer. *)

StopWith(why) == [run EXCEPT !.pc = "settle", !.stop = why]
ThisAttempt == Attempt(S, Scope, run.iter + 1)

Spent == run.iter >= MaxIterations

\* The ceilings, checked before every submission.
Ceiling ==
  /\ run.pc = "turn"
  /\ \/ Spent /\ run' = StopWith("iterations")
     \/ ~Spent /\ run.tokens >= MaxTokens /\ run' = StopWith("tokens")
  /\ UNCHANGED <<resv, toolJournal, ledger, host, boot, runs, faults, ran, leaked>>

Submits == run.pc = "turn" /\ ~Spent /\ run.tokens < MaxTokens

\* A timeout, or an answer lost on the way: the attempt is kept as ambiguous.
SubmitAmbiguous(why) ==
  /\ Submits
  /\ run' = [StopWith(why) EXCEPT !.iter = @ + 1, !.made = @ \cup {ThisAttempt}]
  /\ UNCHANGED <<resv, toolJournal, ledger, host, boot, runs, faults, ran, leaked>>

\* The provider refused the request: no attempt is kept.
SubmitRefused(why) ==
  /\ Submits
  /\ run' = [StopWith(why) EXCEPT !.iter = @ + 1]
  /\ UNCHANGED <<resv, toolJournal, ledger, host, boot, runs, faults, ran, leaked>>

Answered(usage) ==
  [run EXCEPT !.iter = @ + 1, !.tokens = @ + usage, !.made = @ \cup {ThisAttempt}]

\* An answer without tool calls ends the loop, unless the provider paused.
Answer(usage, why) ==
  /\ Submits
  /\ run' = IF why = "pause"
            THEN Answered(usage)
            ELSE [Answered(usage) EXCEPT !.pc = "settle", !.stop = why]
  /\ UNCHANGED <<resv, toolJournal, ledger, host, boot, runs, faults, ran, leaked>>

\* Fault: a turn of tool calls does not count as an iteration.
AnswerCallsUncounted(usage, kinds) ==
  /\ Submits
  /\ run' = [Answered(usage) EXCEPT
               !.pc = "call", !.iter = run.iter,
               !.calls = [i \in 1 .. Len(kinds) |->
                            [id |-> CallId(S, Scope, run.iter + 1, i), kind |-> kinds[i]]]]
  /\ UNCHANGED <<resv, toolJournal, ledger, host, boot, runs, faults, ran, leaked>>

\* An answer with tool calls, which are then processed in their order.
AnswerCalls(usage, kinds) ==
  /\ Submits
  /\ run' = [Answered(usage) EXCEPT
               !.pc = "call",
               !.calls = [i \in 1 .. Len(kinds) |->
                            [id |-> CallId(S, Scope, run.iter + 1, i), kind |-> kinds[i]]]]
  /\ UNCHANGED <<resv, toolJournal, ledger, host, boot, runs, faults, ran, leaked>>

-----------------------------------------------------------------------------
(* process_tool_call *)

Call == Head(run.calls)
NextCall == [run EXCEPT !.calls = Tail(@),
                        !.pc = IF Len(run.calls) = 1 THEN "turn" ELSE "call"]

\* A call that validation or authorization refuses; the model is told so.
Refuse ==
  /\ run.pc = "call" /\ Call.kind = "refused"
  /\ run' = NextCall
  /\ UNCHANGED <<resv, toolJournal, ledger, host, boot, runs, faults, ran, leaked>>

Authorized == run.pc = "call" /\ Call.kind # "refused"

AnsweredFromJournal == Authorized /\ ~run.blind /\ Call.id \in results

\* The journal holds a result for this call id: the call is not executed.
AnswerFromJournal ==
  /\ AnsweredFromJournal
  /\ run' = NextCall
  /\ UNCHANGED <<resv, toolJournal, ledger, host, boot, runs, faults, ran, leaked>>

\* The journal cannot be read: the call counts as failed and is not executed.
AnswerBlind ==
  /\ Authorized /\ run.blind
  /\ run' = NextCall
  /\ UNCHANGED <<resv, toolJournal, ledger, host, boot, runs, faults, ran, leaked>>

NewCall == Authorized /\ ~run.blind /\ Call.id \notin results

\* Fault: a second intent replaces the first.
IntendOverwriting ==
  /\ NewCall
  /\ intents' = With(intents, Call.id, Call.kind)
  /\ run' = [run EXCEPT !.pc = "tool"]
  /\ UNCHANGED <<resv, results, ledger, host, boot, runs, faults, ran, leaked>>

\* record_intent before anything is executed.
Intend ==
  /\ NewCall /\ Call.id \notin DOMAIN intents
  /\ intents' = With(intents, Call.id, Call.kind)
  /\ run' = [run EXCEPT !.pc = "tool"]
  /\ UNCHANGED <<resv, results, ledger, host, boot, runs, faults, ran, leaked>>

\* A second intent of one call id (UNIQUE), or a failed insert, is a panic.
IntendPanics ==
  /\ NewCall
  /\ \/ Call.id \in DOMAIN intents /\ UNCHANGED faults
     \/ Call.id \notin DOMAIN intents /\ Fails
  /\ run' = [run EXCEPT !.pc = "abandon", !.stop = "panic"]
  /\ UNCHANGED <<resv, toolJournal, ledger, host, boot, runs, ran, leaked>>

\* executor.execute: also a tool that fails or times out may have had its effect.
RunTool ==
  /\ run.pc = "tool"
  /\ ran' = LET before == IF Call.id \in DOMAIN ran THEN ran[Call.id] ELSE 0
            IN  With(ran, Call.id, before + 1)
  /\ run' = [run EXCEPT !.pc = "result"]
  /\ UNCHANGED <<resv, toolJournal, ledger, host, boot, runs, faults, leaked>>

\* record_result: its own failure is ignored.
RecordResult ==
  /\ run.pc = "result"
  /\ \/ results' = results \cup {Call.id} /\ UNCHANGED faults
     \/ Fails /\ UNCHANGED results
  /\ run' = NextCall
  /\ UNCHANGED <<resv, intents, ledger, host, boot, runs, ran, leaked>>

-----------------------------------------------------------------------------
(* finish, under a guard that stays armed until finish has succeeded. *)

BudgetAfter(why) ==
  IF why \in {"timeout", "ambiguous", "retryable", "nonretryable"}
  THEN "unknown" ELSE "committed"

LocalAfter(why) ==
  CASE why \in {"timeout", "ambiguous", "retryable"} -> "unknown"
    [] why = "nonretryable" -> "released"
    [] OTHER -> "committed"

\* Fault: the guard is disarmed before the budget is settled.
SettleDisarmed ==
  /\ run.pc = "settle"
  /\ \/ /\ resv' = [resv EXCEPT ![host[S].budget] = BudgetAfter(run.stop)]
        /\ host' = [host EXCEPT ![S].budget = NoOwner]
        /\ run' = [run EXCEPT !.pc = "unslot"]
        /\ UNCHANGED <<faults, leaked>>
     \/ /\ Fails
        /\ run' = Idle
        /\ UNCHANGED <<resv, host, leaked>>
  /\ UNCHANGED <<toolJournal, ledger, boot, runs, ran>>

\* The budget first, and its id is forgotten once it is settled.
Settle ==
  /\ run.pc = "settle"
  /\ \/ /\ resv' = [resv EXCEPT ![host[S].budget] = BudgetAfter(run.stop)]
        /\ host' = [host EXCEPT ![S].budget = NoOwner]
        /\ run' = [run EXCEPT !.pc = "unslot"]
        /\ UNCHANGED <<faults, leaked>>
     \/ /\ Fails
        /\ run' = [run EXCEPT !.pc = "abandon"]
        /\ UNCHANGED <<resv, host, leaked>>
  /\ UNCHANGED <<toolJournal, ledger, boot, runs, ran>>

\* resolve_reservation of the slot, whose id is taken before the write: when
\* the write fails the guard has nothing left to release.
ResolveSlot ==
  /\ run.pc = "unslot"
  /\ host' = [host EXCEPT ![S].local = NoOwner]
  /\ IF host[S].local = NoOwner
     THEN run' = [run EXCEPT !.pc = "persist"] /\ UNCHANGED <<resv, faults, leaked>>
     ELSE \/ /\ resv' = [resv EXCEPT ![host[S].local] = LocalAfter(run.stop)]
             /\ run' = [run EXCEPT !.pc = "persist"]
             /\ UNCHANGED <<faults, leaked>>
          \/ /\ Fails
             /\ leaked' = leaked \cup {host[S].local}
             /\ run' = Idle
             /\ UNCHANGED resv
  /\ UNCHANGED <<toolJournal, ledger, boot, runs, ran>>

\* persist_run_outcome: one row per attempt, under the attempt's id. A row that
\* is there already fails the insert, and execute with it.
Persist ==
  /\ run.pc = "persist"
  /\ \/ /\ run.made \cap ledger = {}
        /\ ledger' = ledger \cup run.made
        /\ UNCHANGED <<faults, leaked>>
     \/ /\ run.made \cap ledger # {}
        /\ UNCHANGED <<ledger, faults, leaked>>
     \/ /\ Fails
        /\ UNCHANGED <<ledger, leaked>>
  /\ run' = Idle
  /\ UNCHANGED <<resv, toolJournal, host, boot, runs, ran>>

\* abandon_execution from the guard's drop: both ids are taken, the slot is
\* released first and its failure leaves the budget held. A panic ends the
\* process; a failed finish does not.
HostsAfter(why) == IF why = "panic" THEN [s \in Stages |-> NewHost]
                   ELSE [host EXCEPT ![S].budget = NoOwner, ![S].local = NoOwner]

Abandon ==
  /\ run.pc = "abandon"
  /\ LET held == {host[S].budget, host[S].local} \ {NoOwner} IN
     \/ /\ resv' = [o \in DOMAIN resv |-> IF o \in held THEN "released" ELSE resv[o]]
        /\ UNCHANGED <<faults, leaked>>
     \/ /\ Fails
        /\ leaked' = leaked \cup held
        /\ UNCHANGED resv
     \/ /\ Fails /\ host[S].local # NoOwner
        /\ resv' = [resv EXCEPT ![host[S].local] = "released"]
        /\ leaked' = leaked \cup {host[S].budget}
  /\ host' = HostsAfter(run.stop)
  /\ boot' = IF run.stop = "panic" THEN boot + 1 ELSE boot
  /\ run' = Idle
  /\ UNCHANGED <<toolJournal, ledger, runs, ran>>

-----------------------------------------------------------------------------
\* The process dies; the next one that resumes this execution builds new hosts.
Crash ==
  /\ boot < MaxBoots
  /\ boot' = boot + 1
  /\ leaked' = leaked \cup ((UNION {{host[s].budget, host[s].local} : s \in Stages}) \ {NoOwner})
  /\ host' = [s \in Stages |-> NewHost]
  /\ run' = Idle
  /\ UNCHANGED <<resv, toolJournal, ledger, runs, faults, ran>>

TurnCalls == UNION {[1 .. n -> Kinds(S)] : n \in 1 .. MaxCalls}

LoopStep ==
  \/ AcquireSlot \/ OpenJournal \/ Ceiling
  \/ \E why \in {"timeout", "ambiguous"} : SubmitAmbiguous(why)
  \/ \E why \in {"retryable", "nonretryable"} : SubmitRefused(why)
  \/ \E usage \in 0 .. 1 :
       \/ \E why \in {"completed", "tokens", "invalid", "nonretryable", "pause"} :
            Answer(usage, why)
       \/ \E kinds \in TurnCalls : AnswerCalls(usage, kinds)
  \/ Refuse \/ AnswerFromJournal \/ AnswerBlind \/ Intend \/ IntendPanics
  \/ RunTool \/ RecordResult \/ Settle \/ ResolveSlot \/ Persist \/ Abandon

AgentNext == (\E s \in Stages : Reserve(s)) \/ LoopStep \/ Crash

\* The loop is ordinary sequential code; every wait in it has a timeout.
AgentSpec == AgentInit /\ [][AgentNext]_agentVars /\ WF_agentVars(LoopStep)

-----------------------------------------------------------------------------
\* The shape of the state, with the ceilings of the loop (run_loop).
AgentTypeOK ==
  /\ run.pc \in {"idle", "slot", "open", "turn", "call", "tool", "result", "settle",
                 "unslot", "persist", "abandon"}
  /\ run.stage \in Stages \cup {NoResult} /\ run.stop \in Stops \cup {NoResult}
  /\ run.iter \in 0 .. MaxIterations /\ run.tokens \in 0 .. MaxIterations
  /\ \A o \in DOMAIN resv : resv[o] \in {"held", "unknown", "committed", "released"}
  /\ results \subseteq DOMAIN intents /\ Available \in 0 .. Slots
  /\ \A s \in Stages : {host[s].budget, host[s].local} \subseteq DOMAIN resv \cup {NoOwner}

(* Whatever crashes, fails or is answered late, the effect of a tool call id  *)
(* happens at most once in an execution: the intent is durable before the     *)
(* tool runs (process_tool_call) and a second intent cannot be written.       *)
EffectOnce == \A id \in DOMAIN ran : ran[id] <= 1

(* Between two execute calls no reservation is simply held: each one is       *)
(* settled, released, or held on purpose because its consumption is unknown.  *)
(* Only a crash, or a release that itself failed, leaves one behind           *)
(* (ReservationGuard, abandon_execution, finish).                             *)
NothingHeldAtRest ==
  run.pc = "idle" => \A o \in DOMAIN resv : resv[o] = "held" => o \in leaked

(* Every execute call ends, with a model that keeps asking for tools it may   *)
(* not use and a provider that keeps pausing included: the iteration ceiling  *)
(* counts every submission (run_loop).                                        *)
LoopEnds == (run.pc # "idle") ~> (run.pc = "idle")
=============================================================================
