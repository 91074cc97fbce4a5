---------------------------- MODULE Reservation ----------------------------
(***************************************************************************)
(* The durable ledger of scarce resources (money, tokens, slots, memory):  *)
(* crates/familiar-ai-storage/src/repos/reservation.rs.                    *)
(*                                                                         *)
(* A pool is one row of resource_pools (a pool id with a resource type); a *)
(* reservation is named by its owner instance, whose id is UNIQUE, so an   *)
(* owner acquires at most once.  Each method runs on a connection of its   *)
(* own, and the connections of concurrent drives, workers and daemons      *)
(* interleave: every transaction is one step.  expire_due and recover are  *)
(* made of several transactions, and other steps may fall between them.    *)
(*                                                                         *)
(* Abstractions.  Timestamps are numbers.  The order of the rows in        *)
(* expire_due's list is left open.  A call refused before it changes       *)
(* anything (a malformed request, evidence that names another owner, a     *)
(* reservation that is no longer held) is no step, except where a sweep    *)
(* that meets it stops.  Of the liveness evidence only the rows that prove *)
(* a death are kept.  The event log is left out.                           *)
(***************************************************************************)
EXTENDS Integers, FiniteSets, Functions

CONSTANTS Owners,       \* owner instances, and the reservations they acquire
          Pools,
          MaxAmount,    \* bound on capacities and requests
          MaxTime       \* bound on the clock and on expiries

ASSUME BoundsAssumption ==
  /\ MaxAmount \in Nat
  /\ MaxTime \in Nat
  /\ IsFiniteSet(Owners)

Amounts  == 0 .. MaxAmount
Observed == 0 .. (MaxAmount + 1)    \* consumption may overrun the grant
Never    == MaxTime + 1        \* expires_at IS NULL

VARIABLES
  capacity, available,   \* resource_pools; 0 for a pool nobody defined
  renewable,             \* pools that are renewable
  state,                 \* resource_reservations.state ("none": no row)
  granted,               \* granted_amount of each item, 0 where there is none
  observed,              \* observed_amount of each item
  unknown, overrun,      \* reservations with that flag set
  expires,               \* expires_at
  evidence,              \* reservations with a provably-dead evidence row
  now,                   \* the clock
  due,                   \* expire_due: ids listed and not yet resolved
  proven                 \* recover: evidence committed, not yet resolved

pools == <<capacity, available, renewable>>
rows  == <<state, granted, observed, unknown, overrun, expires>>
calls == <<now, due, proven>>
vars  == <<pools, rows, evidence, calls>>

Resolved == {"committed", "released", "expired", "recovered"}
Liveness == {"live", "provably-dead", "ambiguous"}

TypeOK ==
  /\ capacity \in [Pools -> Nat]
  /\ available \in [Pools -> Nat]
  /\ renewable \subseteq Pools
  /\ state \in [Owners -> {"none", "held"} \cup Resolved]
  /\ granted \in [Owners -> [Pools -> Nat]]
  /\ observed \in [Owners -> [Pools -> Nat]]
  /\ unknown \subseteq Owners
  /\ overrun \subseteq Owners
  /\ expires \in [Owners -> 0 .. Never]
  /\ evidence \subseteq Owners
  /\ now \in 0 .. MaxTime
  /\ due \subseteq Owners
  /\ proven \subseteq Owners

Nothing == [p \in Pools |-> 0]

Init ==
  /\ capacity = Nothing
  /\ available = Nothing
  /\ renewable = {}
  /\ state = [r \in Owners |-> "none"]
  /\ granted = [r \in Owners |-> Nothing]
  /\ observed = [r \in Owners |-> Nothing]
  /\ unknown = {}
  /\ overrun = {}
  /\ expires = [r \in Owners |-> Never]
  /\ evidence = {}
  /\ now = 0
  /\ due = {}
  /\ proven = {}

Less(a, b)  == IF a < b THEN a ELSE b
Monus(a, b) == IF a > b THEN a - b ELSE 0       \* saturating_sub

-----------------------------------------------------------------------------
(* define_pool: a new pool is wholly available; a redefinition moves what  *)
(* is available by the change of capacity, and is ignored if that would    *)
(* make it negative.                                                       *)
DefinePool(p, c) ==
  /\ available[p] + (c - capacity[p]) >= 0
  /\ capacity' = [capacity EXCEPT ![p] = c]
  /\ available' = [available EXCEPT ![p] = @ + (c - capacity[p])]
  /\ renewable' \in {renewable \cup {p}, renewable \ {p}}
  /\ UNCHANGED <<rows, evidence, calls>>

(* acquire: what each request of one reservation is granted.  Pools that   *)
(* are not requested have request 0.                                       *)
Grant(request, mode) ==
  [p \in Pools |-> IF mode = "all_or_nothing" THEN request[p]
                   ELSE Less(request[p], available[p])]

Unavailable(request) == {p \in Pools : available[p] < request[p]}

(* Fault: an all-or-nothing request is granted without asking whether      *)
(* every part of it is available.                                          *)
AcquireUnchecked(r, request, mode, expiry) ==
  /\ state[r] = "none"
  /\ request # Nothing
  /\ state' = [state EXCEPT ![r] = "held"]
  /\ granted' = [granted EXCEPT ![r] = Grant(request, mode)]
  /\ available' = [p \in Pools |-> Monus(available[p], Grant(request, mode)[p])]
  /\ expires' = [expires EXCEPT ![r] = expiry]
  /\ UNCHANGED <<capacity, renewable, observed, unknown, overrun, evidence, calls>>

(* acquire, one immediate transaction; a refusal is rolled back. *)
Acquire(r, request, mode, expiry) ==
  /\ state[r] = "none"
  /\ request # Nothing
  /\ mode = "all_or_nothing" => Unavailable(request) = {}
  /\ Grant(request, mode) # Nothing
  /\ state' = [state EXCEPT ![r] = "held"]
  /\ granted' = [granted EXCEPT ![r] = Grant(request, mode)]
  /\ available' = [p \in Pools |-> available[p] - Grant(request, mode)[p]]
  /\ expires' = [expires EXCEPT ![r] = expiry]
  /\ UNCHANGED <<capacity, renewable, observed, unknown, overrun, evidence, calls>>

-----------------------------------------------------------------------------
(* settle with unknown consumption and the HoldReservation policy. *)
SettleHold(r) ==
  /\ state[r] = "held"
  /\ unknown' = unknown \cup {r}
  /\ UNCHANGED <<pools, state, granted, observed, overrun, expires, evidence, calls>>

(* settle otherwise: consumption is the observation, or the grant where    *)
(* there is none; what was not consumed goes back, an overrun is recorded  *)
(* and taken from nobody.                                                  *)
SettleAt(r, consumed, isUnknown) ==
  /\ state[r] = "held"
  /\ state' = [state EXCEPT ![r] = "committed"]
  /\ observed' = [observed EXCEPT ![r] = consumed]
  /\ available' = [p \in Pools |-> available[p] + Monus(granted[r][p], consumed[p])]
  /\ unknown' = IF isUnknown THEN unknown \cup {r} ELSE unknown \ {r}
  /\ overrun' = IF \E p \in Pools : consumed[p] > granted[r][p]
                  THEN overrun \cup {r} ELSE overrun \ {r}
  /\ UNCHANGED <<capacity, renewable, granted, expires, evidence, calls>>

(* commit: the observations of the pools in reported; the grant stands for *)
(* the others.                                                             *)
Commit(r, reported, amounts) ==
  SettleAt(r, [p \in Pools |-> IF granted[r][p] = 0 THEN 0
                               ELSE IF p \in reported THEN amounts[p]
                               ELSE granted[r][p]], FALSE)

(* settle with unknown consumption and the SettleReservedAmount policy. *)
SettleReserved(r) == SettleAt(r, granted[r], TRUE)

(* resolve_returning: everything granted goes back. *)
Returning(r, outcome) ==
  /\ state[r] = "held"
  /\ available' = [p \in Pools |-> available[p] + granted[r][p]]
  /\ state' = [state EXCEPT ![r] = outcome]

Unresolved == <<capacity, renewable, granted, observed, unknown, overrun, expires,
                evidence, now>>

Release(r) ==
  /\ Returning(r, "released")
  /\ UNCHANGED <<Unresolved, due, proven>>

(* renew: only ever moves the expiry later. *)
Renew(r, expiry) ==
  /\ state[r] = "held"
  /\ \A p \in Pools : granted[r][p] > 0 => p \in renewable
  /\ expires' = [expires EXCEPT ![r] = IF @ = Never \/ @ < expiry THEN expiry ELSE @]
  /\ UNCHANGED <<pools, state, granted, observed, unknown, overrun, evidence, calls>>

-----------------------------------------------------------------------------
(* expire_due: list the held reservations whose deadline passed, *)
ListDue ==
  /\ due = {}
  /\ due' = {r \in Owners : state[r] = "held" /\ expires[r] <= now}
  /\ UNCHANGED <<pools, rows, evidence, now, proven>>

(* then expire them one transaction at a time; one that is no longer held  *)
(* is an error that ends the sweep.                                        *)
ExpireOne(r) ==
  /\ r \in due
  /\ \/ /\ Returning(r, "expired")
        /\ due' = due \ {r}
     \/ /\ state[r] # "held"
        /\ due' = {}
        /\ UNCHANGED <<state, available>>
  /\ UNCHANGED <<Unresolved, proven>>

(* Fault: anything but proof of life is taken for proof of death. *)
RecordEvidenceLoosely(r, resolution) ==
  /\ state[r] # "none"
  /\ r \notin proven
  /\ evidence' = IF resolution = "provably-dead" THEN evidence \cup {r} ELSE evidence
  /\ proven' = IF resolution # "live" THEN proven \cup {r} ELSE proven
  /\ UNCHANGED <<pools, rows, now, due>>

(* recover: the evidence about the exact owner is committed first, *)
RecordEvidence(r, resolution) ==
  /\ state[r] # "none"
  /\ r \notin proven
  /\ evidence' = IF resolution = "provably-dead" THEN evidence \cup {r} ELSE evidence
  /\ proven' = IF resolution = "provably-dead" THEN proven \cup {r} ELSE proven
  /\ UNCHANGED <<pools, rows, now, due>>

(* and a reservation whose owner is provably dead is resolved after that.  *)
RecoverProven(r) ==
  /\ r \in proven
  /\ proven' = proven \ {r}
  /\ \/ Returning(r, "recovered")
     \/ state[r] # "held" /\ UNCHANGED <<state, available>>
  /\ UNCHANGED <<Unresolved, due>>

(* The caller dies between the two transactions of recover, or during a    *)
(* sweep.                                                                  *)
CallerDies ==
  /\ due # {} \/ proven # {}
  /\ due' = {}
  /\ proven' = {}
  /\ UNCHANGED <<pools, rows, evidence, now>>

Tick ==
  /\ now < MaxTime
  /\ now' = now + 1
  /\ UNCHANGED <<pools, rows, evidence, due, proven>>

-----------------------------------------------------------------------------
Resolve(r) ==
  \/ SettleHold(r) \/ SettleReserved(r)
  \/ \E reported \in SUBSET Pools, amounts \in [Pools -> Observed] : Commit(r, reported, amounts)
  \/ Release(r) \/ ExpireOne(r) \/ RecoverProven(r)

Next ==
  \/ \E p \in Pools, c \in Amounts : DefinePool(p, c)
  \/ \E r \in Owners :
       \/ \E request \in [Pools -> Amounts], mode \in {"all_or_nothing", "partial"},
             expiry \in 0 .. Never : Acquire(r, request, mode, expiry)
       \/ Resolve(r)
       \/ \E expiry \in 0 .. MaxTime : Renew(r, expiry)
       \/ \E resolution \in Liveness : RecordEvidence(r, resolution)
  \/ ListDue \/ CallerDies \/ Tick

Spec == Init /\ [][Next]_vars

-----------------------------------------------------------------------------
(* What a reservation keeps out of its pool: its grant while it is held,   *)
(* and what it really consumed once it is committed.                       *)
Kept(r, p) == IF state[r] = "held" THEN granted[r][p]
              ELSE IF state[r] = "committed" THEN Less(observed[r][p], granted[r][p])
              ELSE 0

(* Capacity is neither lost nor invented: whatever sequence of grants,     *)
(* settlements, releases, sweeps and recoveries of concurrent callers, a   *)
(* pool's capacity is what is available plus what its reservations keep.   *)
CapacityLedger ==
  \A p \in Pools :
    capacity[p] = available[p] + SumFunction([r \in Owners |-> Kept(r, p)])

(* A pool gains only by being enlarged or by one held reservation giving   *)
(* back at most its grant, and that reservation is resolved by the same    *)
(* step: no release, expiry, recovery or settlement pays out twice.        *)
ReturnedOnce ==
  [][\A p \in Pools :
       available'[p] > available[p] =>
         \/ capacity'[p] - capacity[p] = available'[p] - available[p]
         \/ \E r \in Owners :
              /\ state[r] = "held"
              /\ state'[r] \in Resolved
              /\ available'[p] - available[p] <= granted[r][p]]_vars

(* A resolved reservation stays as it was resolved: late settlements,      *)
(* releases, sweeps and recoveries cannot rewrite it.                      *)
ResolvedIsFinal ==
  [][\A r \in Owners : state[r] \in Resolved =>
       /\ state'[r] = state[r]
       /\ granted'[r] = granted[r]
       /\ observed'[r] = observed[r]]_vars

(* PRD-064: crash recovery releases only on durable evidence that the      *)
(* exact owner instance is provably dead; an ambiguous owner keeps its     *)
(* reservation.                                                            *)
RecoveredOnProof ==
  \A r \in Owners : state[r] = "recovered" => r \in evidence
=============================================================================
