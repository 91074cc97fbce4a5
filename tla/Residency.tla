------------------------------ MODULE Residency ------------------------------
(***************************************************************************)
(* The residency manager of familiar-ai-daemon/src/model_residency.rs:     *)
(* which local model servers the daemon holds loaded between executions,   *)
(* under a count and a memory ceiling, with health checks, a restart       *)
(* budget and an append-only table of what happened to each                *)
(* (familiar-ai-storage/src/repos/model_residency.rs).                     *)
(*                                                                         *)
(* The manager is under one mutex, so its operations do not interleave     *)
(* with each other; they do with the serving processes, which die and hang *)
(* when they like, with failing writes, and with the death of the daemon,  *)
(* whose children outlive it. Each step is one launcher call and the row   *)
(* that records it.                                                        *)
(*                                                                         *)
(* Left out: the resolution of a residency entry against the worker and    *)
(* artifact registries (every key here resolves), and refusals, which      *)
(* change nothing. A server identity keeps what it tells apart: it is      *)
(* distinct from those of the other servers that run or are held.          *)
(*                                                                         *)
(* ResidencyInit, ResidencyNext, ResidencySpec and HealthTick carry their  *)
(* long names because the module is also extended beside Reservation.      *)
(***************************************************************************)
EXTENDS Naturals, FiniteSets, Sequences, FiniteSetsExt, SequencesExt

CONSTANTS
  Keys,          \* resident keys, as numbers: a health check visits them in order
  Configs,       \* the configurations the operator may install
  MaxRestarts,   \* the largest max_restarts among them
  MaxUpsets      \* bound: rows the database refuses and ends of the daemon

\* ModelResidencyConfig: which keys are enabled, the two ceilings, the restarts
\* and the declared size of each key, 0 when none is declared. validate asks for
\* at least one resident; the other limits are any number.
ASSUME ResidencyAssumption ==
  /\ Keys \subseteq Nat /\ IsFiniteSet(Keys)
  /\ {MaxRestarts, MaxUpsets} \subseteq Nat
  /\ Configs \subseteq [enabled : SUBSET Keys, count : Nat \ {0}, memory : Nat,
                        restarts : 0..MaxRestarts, size : [Keys -> Nat]]

VARIABLES
  limits,    \* the configuration in force
  size,      \* memory_mb in the launch spec of the key's present server
  residents, \* key -> the server held for it, or NoServer
  lru,       \* the held keys by last_used, least recent first
  failed,    \* keys that exhausted their restarts
  attempts,  \* failure_attempts
  op,        \* the operation under the mutex
  running,   \* servers whose process is alive
  deaf,      \* those of them that no longer answer
  row,       \* key -> its newest row in model_residency_events
  faults,    \* rows refused so far
  crashes,   \* deaths of the daemon so far
  unsaid,    \* history: keys whose newest transition has no row
  leaked,    \* history: servers nothing holds any more, by a fault or a crash
  admittedUnder    \* history: the limits that what is held was admitted under

config == <<limits, size, admittedUnder>>
manager == <<residents, lru, failed, attempts>>
processes == <<running, deaf>>
residencyVars == <<limits, size, admittedUnder, residents, lru, failed, attempts, op,
                   running, deaf, row, faults, crashes, unsaid, leaked>>

-----------------------------------------------------------------------------
NoServer == [key |-> 0, n |-> 0]
NoKey == 0
Idle == [pc |-> "idle", job |-> "none", key |-> NoKey, todo |-> {}, server |-> NoServer]
Held == {k \in Keys : residents[k] # NoServer}

\* next_server_identity.
Fresh(k) ==
  LET taken == {s.n : s \in {t \in running : t.key = k} \cup {residents[k]}}
  IN  [key |-> k, n |-> Min(1..Cardinality(taken) + 1 \ taken)]

\* ProcessResidentLauncher::probe: the manager's own child is alive, and
\* something answers at the endpoint, which every server of the key shares.
Healthy(k) ==
  /\ residents[k] \in running
  /\ \E s \in running \ deaf : s.key = k

Serving == {"loaded", "restarted"}

\* record, followed by the rest of the operation; or the row is refused, and
\* the operation returns early. The server is kept for the rows that say one
\* is held.
Record(k, event, server, next, early) ==
  \/ /\ row' = [row EXCEPT ![k] = [event |-> event,
                                server |-> IF event \in Serving THEN server ELSE NoServer]]
     /\ unsaid' = unsaid \ {k}
     /\ op' = next
     /\ UNCHANGED faults
  \/ /\ faults + crashes < MaxUpsets
     /\ faults' = faults + 1
     /\ unsaid' = unsaid \cup {k}
     /\ op' = early
     /\ UNCHANGED row

\* launcher.stop kills the process and forgets it.
StopServer(s) == running' = running \ {s} /\ deaf' = deaf \ {s}

\* Every held key is in lru once.
Drop(k) ==
  /\ residents' = [residents EXCEPT ![k] = NoServer]
  /\ lru' = RemoveFirst(lru, k)

Touch(k) == lru' = Append(RemoveFirst(lru, k), k)

Footprint(sizes, keys) == MapThenSumSet(LAMBDA k : sizes[k], keys)

\* Fault: the memory of the candidate itself is not counted.
BreachedOnlyByHeld(k) ==
  \/ Cardinality(Held) + 1 > limits.count
  \/ Footprint(size, Held) > limits.memory

\* breached_ceiling, for the candidate k.
Breached(k) ==
  \/ Cardinality(Held) + 1 > limits.count
  \/ Footprint(size, Held \cup {k}) > limits.memory

\* What the operation does once it is done with its present key.
Continue ==
  IF op.job = "tick" /\ op.todo # {}
  THEN [Idle EXCEPT !.pc = "probe", !.job = "tick", !.todo = op.todo]
  ELSE Idle

At(pc) == [op EXCEPT !.pc = pc]

-----------------------------------------------------------------------------
\* The shape of the state. A key is tried once more than its restarts before it
\* is given up, plus once for every failed row the database refused
\* (ensure_resident).
ResidencyTypeOK ==
  LET Servers == [key : Keys \cup {NoKey}, n : Nat]
  IN  /\ limits \in Configs /\ admittedUnder \in Configs /\ size \in [Keys -> Nat]
      /\ failed \subseteq Keys /\ unsaid \subseteq Keys
      /\ residents \in [Keys -> Servers]
      /\ lru \in SetToSeqs(Held)
      /\ attempts \in [Keys -> 0..MaxRestarts + 1 + faults]
      /\ op \in [pc : {"idle", "room", "start", "loaded", "restarted", "health", "failed",
                       "reconcile", "probe", "exit"},
                 job : {"none", "ensure", "tick", "exit"}, key : Keys \cup {NoKey},
                 todo : SUBSET Keys, server : Servers]
      /\ running \subseteq Servers /\ deaf \subseteq running /\ leaked \subseteq running
      /\ row \in [Keys -> [event : {"none", "loaded", "stopped", "evicted", "restarted",
                                    "failed", "health-failed"}, server : Servers]]
      /\ faults \in Nat /\ crashes \in Nat /\ faults + crashes <= MaxUpsets + 1

NoResidents == [k \in Keys |-> NoServer]
NoFailures == [k \in Keys |-> 0]

ResidencyInit ==
  /\ residents = NoResidents /\ lru = <<>>
  /\ failed = {} /\ attempts = NoFailures
  /\ op = Idle
  /\ limits \in Configs /\ admittedUnder = limits /\ size = limits.size
  /\ running = {} /\ deaf = {}
  /\ row = [k \in Keys |-> [event |-> "none", server |-> NoServer]]
  /\ faults = 0 /\ crashes = 0
  /\ unsaid = {} /\ leaked = {}

-----------------------------------------------------------------------------
(* ensure_resident *)

Admissible(k) == op = Idle /\ k \in limits.enabled \ failed

\* The key is held: the call is warm, and is not preceded by a probe.
Warm(k) ==
  /\ Admissible(k) /\ k \in Held
  /\ Touch(k)
  /\ UNCHANGED <<config, residents, failed, attempts, op, processes, row, faults,
                 crashes, unsaid, leaked>>

\* The launch spec takes the size the configuration declares now. A candidate
\* larger than the ceiling is refused before anything is evicted.
Ensure(k) ==
  /\ Admissible(k) /\ k \notin Held
  /\ limits.size[k] <= limits.memory
  /\ size' = [size EXCEPT ![k] = limits.size[k]]
  /\ op' = [Idle EXCEPT !.pc = "room", !.job = "ensure", !.key = k]
  /\ UNCHANGED <<limits, admittedUnder, manager, processes, row, faults, crashes, unsaid, leaked>>

\* Fault: an eviction writes no row.
EvictQuietly ==
  LET victim == Head(lru)
  IN  /\ op.pc = "room" /\ Breached(op.key) /\ lru # <<>>
      /\ Drop(victim)
      /\ StopServer(residents[victim])
      /\ UNCHANGED <<config, failed, attempts, op, row, faults, crashes, unsaid, leaked>>

Evict ==
  LET victim == Head(lru)
  IN  /\ op.pc = "room" /\ Breached(op.key) /\ lru # <<>>
      /\ Drop(victim)
      /\ StopServer(residents[victim])
      /\ Record(victim, "evicted", residents[victim], op, Idle)
      /\ UNCHANGED <<config, failed, attempts, crashes, leaked>>

RoomMade ==
  /\ op.pc = "room" /\ ~Breached(op.key)
  /\ op' = [At("start") EXCEPT !.server = Fresh(op.key)]
  /\ admittedUnder' = limits
  /\ UNCHANGED <<limits, size, manager, processes, row, faults, crashes, unsaid, leaked>>

-----------------------------------------------------------------------------
(* start, of ensure_resident and of restart_or_fail *)

\* The process starts and answers before the ready timeout.
StartServes ==
  /\ op.pc = "start"
  /\ running' = running \cup {op.server}
  /\ op' = At("loaded")
  /\ UNCHANGED <<config, manager, deaf, row, faults, crashes, unsaid, leaked>>

\* A failed start counts against the budget of an ensure_resident; a restart
\* was counted when it was decided.
CountFailure ==
  attempts' = IF op.job = "ensure" THEN [attempts EXCEPT ![op.key] = @ + 1] ELSE attempts

\* It cannot be started, or is stopped because it does not answer in time.
StartFails ==
  /\ op.pc = "start"
  /\ CountFailure
  /\ op' = At("health")
  /\ UNCHANGED <<config, residents, lru, failed, processes, row, faults, crashes,
                 unsaid, leaked>>

\* The loaded row, then the resident: inserted with its failures forgotten, or
\* given its new server with its failures kept. When the row is refused the
\* start counts as failed although the server runs, and nothing stops it.
Loaded ==
  /\ op.pc = "loaded"
  /\ Record(op.key, "loaded", op.server,
            IF op.job = "tick" THEN At("restarted") ELSE Idle, At("health"))
  /\ IF faults' = faults
     THEN /\ residents' = [residents EXCEPT ![op.key] = op.server]
          /\ Touch(op.key)
          /\ attempts' = IF op.job = "ensure" THEN [attempts EXCEPT ![op.key] = 0]
                         ELSE attempts
          /\ UNCHANGED leaked
     ELSE /\ CountFailure
          /\ leaked' = leaked \cup ({op.server} \cap running)
          /\ UNCHANGED <<residents, lru>>
  /\ UNCHANGED <<config, failed, processes, crashes>>

Restarted ==
  /\ op.pc = "restarted"
  /\ Record(op.key, "restarted", op.server, Continue, Idle)
  /\ UNCHANGED <<config, manager, processes, crashes, leaked>>

\* Whether a start that failed was the last one: ensure_resident asks for more
\* than max_restarts failures, restart_or_fail for max_restarts of them.
Exhausted ==
  IF op.job = "ensure" THEN attempts[op.key] > limits.restarts
                       ELSE attempts[op.key] >= limits.restarts

\* The health-failed row of a failed start. A resident that has restarts left
\* stays in the table under its stopped server, for the next health check.
StartFailureRow ==
  /\ op.pc = "health"
  /\ Record(op.key, "health-failed", op.server,
            IF Exhausted THEN At("failed") ELSE Continue, Idle)
  /\ IF op.job = "tick" /\ Exhausted /\ faults' = faults
     THEN Drop(op.key) ELSE UNCHANGED <<residents, lru>>
  /\ UNCHANGED <<config, failed, attempts, processes, crashes, leaked>>

\* The failed row, and only after it the refusal of later calls.
FailedRow ==
  /\ op.pc = "failed"
  /\ Record(op.key, "failed", op.server, Continue, Idle)
  /\ failed' = IF faults' = faults THEN failed \cup {op.key} ELSE failed
  /\ UNCHANGED <<config, residents, lru, attempts, processes, crashes, leaked>>

-----------------------------------------------------------------------------
(* stop, reconcile, health_tick and shutdown *)

\* One resident of the list is stopped and recorded; a refused row ends the loop.
StopOne(k, after) ==
  /\ Drop(k)
  /\ StopServer(residents[k])
  /\ Record(k, "stopped", residents[k], [op EXCEPT !.todo = @ \ {k}], after)
  /\ UNCHANGED <<config, failed, attempts, crashes, leaked>>

HealthTick ==
  /\ op = Idle
  /\ op' = [Idle EXCEPT !.pc = "reconcile", !.job = "tick", !.todo = Held \ limits.enabled]
  /\ UNCHANGED <<config, manager, processes, row, faults, crashes, unsaid, leaked>>

Reconcile ==
  /\ op.pc = "reconcile"
  /\ IF op.todo # {}
     THEN StopOne(Min(op.todo), Idle)
     ELSE /\ op' = [op EXCEPT !.pc = "probe", !.todo = Held]
          /\ UNCHANGED <<config, manager, processes, row, faults, crashes, unsaid, leaked>>

\* The first check of restart_or_fail: no restart is left.
GivenUp(k) == attempts[k] >= limits.restarts

\* The health-failed row, and what restart_or_fail goes on to: the failed row
\* of the old server, or the start of its replacement.
ProbeFailureRow(k) ==
  Record(k, "health-failed", residents[k],
         [op EXCEPT !.pc = IF GivenUp(k) THEN "failed" ELSE "start",
                    !.key = k,
                    !.todo = @ \ {k},
                    !.server = IF GivenUp(k) THEN residents[k] ELSE Fresh(k)],
         Idle)

\* Fault: a restart is not counted.
RestartOrFailUncounted(k) ==
  /\ ProbeFailureRow(k)
  /\ IF faults' # faults
     THEN UNCHANGED <<residents, lru, attempts, running, deaf>>
     ELSE /\ StopServer(residents[k])
          /\ IF GivenUp(k) THEN Drop(k) ELSE UNCHANGED <<residents, lru>>
          /\ UNCHANGED attempts

\* Fault: a resident that is given up is not stopped.
RestartOrFailUnstopped(k) ==
  /\ ProbeFailureRow(k)
  /\ IF faults' # faults
     THEN UNCHANGED <<residents, lru, attempts, running, deaf>>
     ELSE IF GivenUp(k)
          THEN Drop(k) /\ UNCHANGED <<attempts, running, deaf>>
          ELSE /\ StopServer(residents[k])
               /\ attempts' = [attempts EXCEPT ![k] = @ + 1]
               /\ UNCHANGED <<residents, lru>>

\* restart_or_fail, up to the start of the replacement: the old server is
\* stopped either way.
RestartOrFail(k) ==
  /\ ProbeFailureRow(k)
  /\ IF faults' # faults
     THEN UNCHANGED <<residents, lru, attempts, running, deaf>>
     ELSE /\ StopServer(residents[k])
          /\ IF GivenUp(k)
             THEN Drop(k) /\ UNCHANGED attempts
             ELSE /\ attempts' = [attempts EXCEPT ![k] = @ + 1]
                  /\ UNCHANGED <<residents, lru>>

\* One resident of the list is probed; a healthy one writes nothing.
Probe ==
  /\ op.pc = "probe"
  /\ IF op.todo = {}
     THEN op' = Idle /\ UNCHANGED <<manager, processes, row, faults, unsaid>>
     ELSE LET k == Min(op.todo)
          IN  IF Healthy(k)
              THEN /\ op' = [op EXCEPT !.todo = @ \ {k}]
                   /\ UNCHANGED <<manager, processes, row, faults, unsaid>>
              ELSE RestartOrFail(k) /\ UNCHANGED failed
  /\ UNCHANGED <<config, crashes, leaked>>

\* stop_all on shutdown. When a row is refused the rest are not stopped.
Shutdown ==
  /\ op = Idle /\ faults + crashes < MaxUpsets
  /\ op' = [Idle EXCEPT !.pc = "exit", !.job = "exit", !.todo = Held]
  /\ UNCHANGED <<config, manager, processes, row, faults, crashes, unsaid, leaked>>

\* The process ends, whatever it was doing, and another one starts: the table
\* of residents is empty, the servers are still there.
Restart ==
  /\ crashes' = crashes + 1
  /\ residents' = NoResidents /\ lru' = <<>>
  /\ failed' = {} /\ attempts' = NoFailures
  /\ op' = Idle
  /\ leaked' = running
  /\ unsaid' = unsaid \cup Held \cup ({op.key} \cap Keys)
  /\ UNCHANGED <<config, processes, row, faults>>

Exit ==
  /\ op.pc = "exit"
  /\ IF op.todo # {}
     THEN StopOne(Min(op.todo), [op EXCEPT !.todo = {}])
     ELSE Restart

Crash == faults + crashes < MaxUpsets /\ op.job # "exit" /\ Restart

-----------------------------------------------------------------------------
\* set_config replaces the whole configuration. It stops nothing, and the
\* reconciliation that follows stops only what is no longer enabled: what is
\* held may be more than the new ceilings allow.
SetConfig(new) ==
  /\ op = Idle
  /\ limits' = new
  /\ admittedUnder' = IF Cardinality(Held) <= new.count /\ Footprint(size, Held) <= new.memory
                THEN new ELSE admittedUnder
  /\ UNCHANGED <<size, manager, op, processes, row, faults, crashes, unsaid, leaked>>

\* clear_failure, of a key that failed or of any other.
ClearFailure(k) ==
  /\ op = Idle
  /\ failed' = failed \ {k}
  /\ attempts' = [attempts EXCEPT ![k] = 0]
  /\ UNCHANGED <<config, residents, lru, op, processes, row, faults, crashes,
                 unsaid, leaked>>

\* A serving process exits, or stops answering.
Die(s) ==
  /\ running' = running \ {s} /\ deaf' = deaf \ {s} /\ leaked' = leaked \ {s}
  /\ UNCHANGED <<config, manager, op, row, faults, crashes, unsaid>>

Hang(s) ==
  /\ s \notin deaf
  /\ deaf' = deaf \cup {s}
  /\ UNCHANGED <<config, manager, op, running, row, faults, crashes, unsaid, leaked>>

-----------------------------------------------------------------------------
\* The work of one operation under the mutex, which always goes on.
Work == Evict \/ RoomMade \/ StartServes \/ StartFails \/ Loaded \/ Restarted
          \/ StartFailureRow \/ FailedRow \/ Reconcile \/ Probe \/ Exit

ResidencyNext ==
  \/ Work \/ HealthTick \/ Shutdown \/ Crash
  \/ \E k \in Keys : Warm(k) \/ Ensure(k) \/ ClearFailure(k)
  \/ \E new \in Configs : SetConfig(new)
  \/ \E s \in running : Die(s) \/ Hang(s)

\* The health interval is a timer of the daemon; the mutex is not held for
\* ever, because every start has a timeout, so its turn comes: calls to
\* ensure_resident do not keep the timer out of a fair mutex for good.
Fairness == WF_residencyVars(Work) /\ SF_residencyVars(HealthTick)

ResidencySpec == ResidencyInit /\ [][ResidencyNext]_residencyVars /\ Fairness

-----------------------------------------------------------------------------
\* The ceilings bound the processes that run, not only the table: what is held
\* and what is being started fit together, whatever dies, hangs or is restarted
\* in between, and whatever is configured. The ceilings are those in force when
\* a server is admitted, and from then on those or later ones that what is held
\* fits, because lowering them stops nothing (make_room_for, restart_or_fail,
\* set_config).
WithinCeilings ==
  LET ours == running \ leaked
  IN  /\ Cardinality(ours) <= admittedUnder.count
      /\ MapThenSumSet(LAMBDA s : size[s.key], ours) <= admittedUnder.memory
      /\ op.job = "ensure" /\ op.pc \in {"start", "loaded"} => admittedUnder = limits

\* A process the manager started is one it holds or is starting. Only a
\* refused loaded row or the end of the daemon leaves one that nothing stops.
NoServerForgotten ==
  running \subseteq {residents[k] : k \in Keys} \cup {op.server} \cup leaked

\* "If the degradation is not in this table, it did not happen": between
\* operations the newest row of a key says whether a server is held for it and
\* which one, unless that very row was refused or the daemon died.
TableTellsTheTruth ==
  op = Idle =>
    \A k \in Keys \ unsaid :
      /\ k \in Held =>
           \/ row[k].event \in Serving /\ row[k].server = residents[k]
           \/ row[k].event = "health-failed" /\ residents[k] \notin running
      /\ k \notin Held => row[k].event \notin Serving
      /\ k \in failed => row[k].event = "failed"

\* A resident that died or hangs does not stay so: it answers again, or is no
\* longer routed to (health_tick, restart_or_fail), unless somebody clears
\* failures for ever, each time giving it new restarts.
DeadIsHandled ==
  \/ \A k \in Keys : (k \in Held /\ ~Healthy(k)) ~> (k \notin Held \/ Healthy(k))
  \/ []<><<\E k \in Keys : ClearFailure(k)>>_residencyVars
=============================================================================
