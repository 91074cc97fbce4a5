--------------------------- MODULE CapacityProofs ---------------------------
(***************************************************************************)
(* Proofs about the two places where the program hands out what there is   *)
(* only so much of.                                                        *)
(*                                                                         *)
(* The reservation ledger, for any owners, pools, amounts and times: no    *)
(* pool is ever overdrawn, capacity is neither lost nor invented, it is    *)
(* paid back at most once, resolutions are final and recovery rests on     *)
(* proof of death.                                                         *)
(*                                                                         *)
(* The residency manager, for any keys, sizes and ceilings: the servers it *)
(* runs fit the ceilings, none of them is forgotten, and the event table   *)
(* tells what is held.                                                     *)
(*                                                                         *)
(* Both count with sums over finite sets, which come first.                *)
(***************************************************************************)
EXTENDS Reservation, Residency, FiniteSetTheorems, SequenceTheorems, TLAPS

-----------------------------------------------------------------------------
(* Sums over finite sets.  SumFunction is a recursive function over the    *)
(* subsets of the domain; the provers see it as a CHOOSE, so that there is *)
(* such a function has to be shown before anything follows from it.  The   *)
(* inductions are over the subsets of a finite set, as the impossibility   *)
(* of a smallest counterexample.                                           *)

(* The element of s that the fold takes first. *)
One(s) == CHOOSE x \in s : TRUE

(* What the fold of SumFunction has added up after each subset. *)
Partial(f) ==
  CHOOSE g : g = [s \in SUBSET DOMAIN f |->
                    IF s = {} THEN 0 ELSE f[One(s)] + g[s \ {One(s)}]]

(* The functions that satisfy the fold's recursion on the subsets of T. *)
Sums(f, T) ==
  {g \in [SUBSET T -> Int] :
     \A s \in SUBSET T : g[s] = IF s = {} THEN 0 ELSE f[One(s)] + g[s \ {One(s)}]}

(* The sum of the whole domain is the last of the partial sums. *)
LEMMA SumIsPartial == \A f : SumFunction(f) = Partial(f)[DOMAIN f]
BY DEF SumFunction, SumFunctionOnSet, FoldFunctionOnSet, MapThenFoldSet, Partial, One

(* A non-empty collection of subsets of a finite set has a smallest member. *)
LEMMA SmallestSubset ==
  ASSUME NEW S, IsFiniteSet(S), NEW Bad \in SUBSET (SUBSET S), Bad # {}
  PROVE  \E T \in Bad : \A U \in SUBSET T : U # T => U \notin Bad
<1>1. IsWellFoundedOn(StrictSubsetOrdering(S), SUBSET S)
  BY FS_StrictSubsetOrderingWellFounded, FS_FiniteSubsetsOfFinite
<1>2. PICK T \in Bad : \A U \in Bad : ~ (<<U, T>> \in StrictSubsetOrdering(S))
  BY <1>1, WFMin
<1>3. ASSUME NEW U \in SUBSET T, U # T, U \in Bad PROVE FALSE
  BY <1>2, <1>3 DEF StrictSubsetOrdering
<1> QED BY <1>2, <1>3

(* The first element is an element. *)
LEMMA OneOf == ASSUME NEW s, s # {} PROVE One(s) \in s
BY DEF One

(* Two solutions of the recursion agree where both are defined. *)
LEMMA SumsAgree ==
  ASSUME NEW S, IsFiniteSet(S), NEW f, NEW T \in SUBSET S, NEW U \in SUBSET S,
         NEW g \in Sums(f, T), NEW h \in Sums(f, U), NEW s \in SUBSET T, s \in SUBSET U
  PROVE  g[s] = h[s]
<1> DEFINE Bad == {r \in SUBSET (T \cap U) : g[r] # h[r]}
<1>1. SUFFICES ASSUME Bad # {} PROVE FALSE
  OBVIOUS
<1>2. PICK r \in Bad : \A q \in SUBSET r : q # r => q \notin Bad
  <2> HIDE DEF Bad
  <2>1. Bad \in SUBSET (SUBSET S)
    BY DEF Bad
  <2> QED BY <1>1, <2>1, SmallestSubset, Zenon
<1>3. r # {}
  BY DEF Sums
<1>4. One(r) \in r
  BY <1>3, OneOf
<1>5. g[r \ {One(r)}] = h[r \ {One(r)}]
  BY <1>2, <1>4
<1> QED BY <1>3, <1>5 DEF Sums

(* The recursion has a solution on every subset of a finite domain. *)
LEMMA SumsExist ==
  ASSUME NEW S, IsFiniteSet(S), NEW f \in [S -> Int]
  PROVE  \A T \in SUBSET S : Sums(f, T) # {}
<1> DEFINE Bad == {T \in SUBSET S : Sums(f, T) = {}}
<1>1. SUFFICES ASSUME Bad # {} PROVE FALSE
  OBVIOUS
<1>2. PICK T \in Bad : \A U \in SUBSET T : U # T => U \notin Bad
  <2> HIDE DEF Bad
  <2>1. Bad \in SUBSET (SUBSET S)
    BY DEF Bad
  <2> QED BY <1>1, <2>1, SmallestSubset, Zenon
<1> DEFINE Of(s) == (CHOOSE g \in Sums(f, s) : TRUE)
           V(s)  == Of(s)[s]
           G     == [s \in SUBSET T |-> IF s = {} THEN 0 ELSE f[One(s)] + V(s \ {One(s)})]
<1>3. ASSUME NEW s \in SUBSET T, s # T PROVE Of(s) \in Sums(f, s)
  BY <1>2, <1>3
<1>4. ASSUME NEW s \in SUBSET T, s # T PROVE V(s) \in Int
  BY <1>3, <1>4 DEF Sums
<1>5. ASSUME NEW s \in SUBSET T, s # {} 
      PROVE One(s) \in s /\ s \ {One(s)} \in SUBSET T /\ s \ {One(s)} # T
  BY <1>5, OneOf
<1>6. G \in [SUBSET T -> Int]
  <2>1. ASSUME NEW s \in SUBSET T, s # {} PROVE f[One(s)] \in Int /\ V(s \ {One(s)}) \in Int
    <3> HIDE DEF V
    <3> QED BY <1>5, <1>4, <2>1
  <2> HIDE DEF V
  <2> QED BY <2>1
<1>7. ASSUME NEW s \in SUBSET T, s # T PROVE V(s) = G[s]
  <2>1. CASE s = {}
    BY <2>1, <1>3, <1>7 DEF Sums
  <2>2. CASE s # {}
    <3> DEFINE t == s \ {One(s)}
    <3>1. t \in SUBSET s /\ t \in SUBSET T /\ t # T
      BY <2>2, <1>5
    <3>2. V(s) = f[One(s)] + Of(s)[t]
      BY <2>2, <1>3, <1>7 DEF Sums
    <3>3. Of(s)[t] = Of(t)[t]
      <4>1. Of(s) \in Sums(f, s) /\ Of(t) \in Sums(f, t)
        BY <1>3, <1>7, <3>1
      <4> HIDE DEF Of, t
      <4> QED BY <4>1, <3>1, SumsAgree
    <3> QED BY <3>2, <3>3, <2>2
  <2> QED BY <2>1, <2>2
<1>8. \A s \in SUBSET T : G[s] = IF s = {} THEN 0 ELSE f[One(s)] + G[s \ {One(s)}]
  <2> HIDE DEF V
  <2> QED BY <1>5, <1>7
<1>9. G \in Sums(f, T)
  <2> HIDE DEF G
  <2> QED BY <1>6, <1>8 DEF Sums
<1> QED BY <1>9

(* A fold over the subsets of S is the solution of its recursion. *)
LEMMA FoldIsSum ==
  ASSUME NEW S, IsFiniteSet(S), NEW f \in [S -> Int], NEW P,
         P = [s \in SUBSET S |-> IF s = {} THEN 0 ELSE f[One(s)] + P[s \ {One(s)}]]
  PROVE  P \in Sums(f, S)
<1>1. PICK g : g \in Sums(f, S)
  BY SumsExist
<1>2. g = [s \in SUBSET S |-> IF s = {} THEN 0 ELSE f[One(s)] + g[s \ {One(s)}]]
  BY <1>1 DEF Sums
<1>3. P = g
  <2> DEFINE Bad == {r \in SUBSET S : P[r] # g[r]}
  <2>1. SUFFICES ASSUME Bad # {} PROVE FALSE
    <3> \A r \in SUBSET S : P[r] = g[r] OBVIOUS
    <3> QED BY <1>2
  <2>2. PICK r \in Bad : \A q \in SUBSET r : q # r => q \notin Bad
    <3> HIDE DEF Bad
    <3>1. Bad \in SUBSET (SUBSET S)
      BY DEF Bad
    <3> QED BY <2>1, <3>1, SmallestSubset, Zenon
  <2>3. r # {} /\ One(r) \in r
    BY <2>2, <1>2, OneOf
  <2>4. g[r \ {One(r)}] = P[r \ {One(r)}]
    BY <2>2, <2>3
  <2> QED BY <2>2, <2>3, <2>4, <1>2
<1> QED BY <1>1, <1>3

(* So does the fold of SumFunction. *)
LEMMA PartialSums ==
  ASSUME NEW S, IsFiniteSet(S), NEW f \in [S -> Int]
  PROVE  Partial(f) \in Sums(f, S)
<1>1. PICK g : g \in Sums(f, S)
  BY SumsExist
<1>2. g = [s \in SUBSET DOMAIN f |-> IF s = {} THEN 0 ELSE f[One(s)] + g[s \ {One(s)}]]
  BY <1>1 DEF Sums
<1>3. Partial(f) = [s \in SUBSET DOMAIN f |->
          IF s = {} THEN 0 ELSE f[One(s)] + Partial(f)[s \ {One(s)}]]
  BY <1>2 DEF Partial
<1> QED BY <1>3, FoldIsSum

(* A sum of integers is an integer. *)
LEMMA SumTyped ==
  ASSUME NEW S, IsFiniteSet(S), NEW f \in [S -> Int]
  PROVE  SumFunction(f) \in Int
<1>1. Partial(f) \in Sums(f, S) /\ DOMAIN f = S
  BY PartialSums
<1> QED BY <1>1, SumIsPartial DEF Sums

(* Changing one summand changes the sum by as much. *)
LEMMA SumUpdate ==
  ASSUME NEW S, IsFiniteSet(S), NEW f \in [S -> Int], NEW h \in [S -> Int], NEW x \in S,
         \A y \in S : y # x => h[y] = f[y]
  PROVE  SumFunction(h) = SumFunction(f) + (h[x] - f[x])
<1> DEFINE F == Partial(f)
           H == Partial(h)
           D(s) == IF x \in s THEN h[x] - f[x] ELSE 0
           Bad == {s \in SUBSET S : H[s] # F[s] + D(s)}
<1>1. F \in Sums(f, S) /\ H \in Sums(h, S)
  BY PartialSums
<1> HIDE DEF F, H
<1>2. SUFFICES ASSUME Bad # {} PROVE FALSE
  <2>1. H[S] = F[S] + D(S)
    OBVIOUS
  <2> QED BY <2>1, SumIsPartial DEF F, H
<1>3. PICK r \in Bad : \A q \in SUBSET r : q # r => q \notin Bad
  <2> HIDE DEF Bad
  <2>1. Bad \in SUBSET (SUBSET S)
    BY DEF Bad
  <2> QED BY <1>2, <2>1, SmallestSubset, Zenon
<1>4. r # {} /\ One(r) \in r
  BY <1>3, <1>1, OneOf DEF Sums
<1> DEFINE q == r \ {One(r)}
<1>5. H[q] = F[q] + D(q)
  BY <1>3, <1>4
<1>6. /\ H[r] = h[One(r)] + H[q] /\ F[r] = f[One(r)] + F[q]
      /\ {H[r], F[r], H[q], F[q], h[One(r)], f[One(r)], h[x], f[x]} \subseteq Int
  BY <1>1, <1>4 DEF Sums
<1>7. CASE One(r) = x
  BY <1>3, <1>4, <1>5, <1>6, <1>7
<1>8. CASE One(r) # x
  <2>1. h[One(r)] = f[One(r)] /\ (x \in q <=> x \in r)
    BY <1>4, <1>8
  <2> QED BY <2>1, <1>3, <1>5, <1>6
<1> QED BY <1>7, <1>8

(* A sum of zeros is zero. *)
LEMMA SumZero ==
  ASSUME NEW S, IsFiniteSet(S), NEW f \in [S -> {0}]
  PROVE  SumFunction(f) = 0
<1> DEFINE F == Partial(f)
           Bad == {s \in SUBSET S : F[s] # 0}
<1>1. f \in [S -> Int]
  OBVIOUS
<1>2. F \in Sums(f, S)
  BY <1>1, PartialSums
<1> HIDE DEF F
<1>3. SUFFICES ASSUME Bad # {} PROVE FALSE
  BY SumIsPartial DEF F
<1>4. PICK r \in Bad : \A q \in SUBSET r : q # r => q \notin Bad
  <2> HIDE DEF Bad
  <2>1. Bad \in SUBSET (SUBSET S)
    BY DEF Bad
  <2> QED BY <1>3, <2>1, SmallestSubset, Zenon
<1>5. r # {} /\ One(r) \in r
  BY <1>4, <1>2, OneOf DEF Sums
<1>6. F[r \ {One(r)}] = 0
  BY <1>4, <1>5
<1> QED
  BY <1>2, <1>4, <1>5, <1>6 DEF Sums

(* The order in which the elements are taken does not matter. *)
LEMMA TakeAny ==
  ASSUME NEW S, IsFiniteSet(S), NEW f \in [S -> Int], NEW g \in Sums(f, S),
         NEW T \in SUBSET S, NEW x \in T
  PROVE  g[T] = g[T \ {x}] + f[x]
<1> DEFINE Bad == {U \in SUBSET S : \E y \in U : g[U] # g[U \ {y}] + f[y]}
<1>1. SUFFICES ASSUME Bad # {} PROVE FALSE
  OBVIOUS
<1>2. PICK U \in Bad : \A V \in SUBSET U : V # U => V \notin Bad
  <2> HIDE DEF Bad
  <2>1. Bad \in SUBSET (SUBSET S)
    BY DEF Bad
  <2> QED BY <1>1, <2>1, SmallestSubset, Zenon
<1>3. PICK y \in U : g[U] # g[U \ {y}] + f[y]
  BY <1>2
<1> DEFINE z == One(U)
           W == U \ {y, z}
<1>4. z \in U /\ U \in SUBSET S
  BY <1>2, <1>3, OneOf
<1> HIDE DEF z
<1>5. g[U] = f[z] + g[U \ {z}]
  BY <1>3, <1>4 DEF Sums, z
<1>6. \A V \in SUBSET S : g[V] \in Int
  BY DEF Sums
<1>7. f[z] \in Int /\ f[y] \in Int
  BY <1>3, <1>4
<1>8. y # z
  <2>1. U \ {y} \in SUBSET S
    BY <1>4
  <2>2. g[U \ {y}] \in Int
    BY <2>1, <1>6
  <2>3. SUFFICES ASSUME y = z PROVE FALSE
    OBVIOUS
  <2>4. g[U] = f[y] + g[U \ {y}]
    BY <1>5, <2>3
  <2> QED BY <1>3, <1>7, <2>2, <2>4
<1>9. g[U \ {z}] = g[W] + f[y]
  <2>1. U \ {z} \notin Bad /\ U \ {z} \in SUBSET S /\ y \in U \ {z}
    BY <1>2, <1>3, <1>4, <1>8
  <2>2. (U \ {z}) \ {y} = W
    OBVIOUS
  <2> QED BY <2>1, <2>2
<1>10. g[U \ {y}] = g[W] + f[z]
  <2>1. U \ {y} \notin Bad /\ U \ {y} \in SUBSET S /\ z \in U \ {y}
    BY <1>2, <1>3, <1>4, <1>8
  <2>2. (U \ {y}) \ {z} = W
    OBVIOUS
  <2> QED BY <2>1, <2>2
<1>11. W \in SUBSET S
  BY <1>4
<1> HIDE DEF W
<1> QED BY <1>3, <1>5, <1>6, <1>7, <1>9, <1>10, <1>11

(* A sum of natural numbers does not shrink when the set grows. *)
LEMMA SumMonotone ==
  ASSUME NEW S, IsFiniteSet(S), NEW f \in [S -> Nat], NEW g \in Sums(f, S),
         NEW U \in SUBSET S, NEW T \in SUBSET U
  PROVE  g[T] <= g[U]
<1> DEFINE Bad == {V \in SUBSET S : T \subseteq V /\ ~ (g[T] <= g[V])}
<1>1. SUFFICES ASSUME Bad # {} PROVE FALSE
  OBVIOUS
<1>2. PICK V \in Bad : \A W \in SUBSET V : W # V => W \notin Bad
  <2> HIDE DEF Bad
  <2>1. Bad \in SUBSET (SUBSET S)
    BY DEF Bad
  <2> QED BY <1>1, <2>1, SmallestSubset, Zenon
<1>3. \A W \in SUBSET S : g[W] \in Int
  BY DEF Sums
<1>4. V # T
  BY <1>2, <1>3
<1>5. PICK x \in V : x \notin T
  BY <1>2, <1>4
<1>6. V \in SUBSET S /\ f \in [S -> Int] /\ f[x] \in Nat
  BY <1>2, <1>5
<1>7. g[V] = g[V \ {x}] + f[x]
  BY <1>5, <1>6, TakeAny
<1>8. g[T] <= g[V \ {x}]
  BY <1>2, <1>5
<1> QED BY <1>2, <1>3, <1>6, <1>7, <1>8

(* Summing over the servers is summing over their keys. *)
LEMMA SumOfImage ==
  ASSUME NEW S, IsFiniteSet(S), NEW K, IsFiniteSet(K), NEW key \in [S -> K],
         \A x, y \in S : key[x] = key[y] => x = y,
         NEW m \in [K -> Int], NEW f \in [S -> Int], \A x \in S : f[x] = m[key[x]],
         NEW g \in Sums(f, S), NEW h \in Sums(m, K)
  PROVE  g[S] = h[{key[x] : x \in S}]
<1> DEFINE Image(T) == {key[x] : x \in T}
           Bad == {T \in SUBSET S : g[T] # h[Image(T)]}
<1>1. SUFFICES ASSUME Bad # {} PROVE FALSE
  OBVIOUS
<1>2. PICK T \in Bad : \A U \in SUBSET T : U # T => U \notin Bad
  <2> HIDE DEF Bad
  <2>1. Bad \in SUBSET (SUBSET S)
    BY DEF Bad
  <2> QED BY <1>1, <2>1, SmallestSubset, Zenon
<1>3. T # {}
  <2>1. g[{}] = 0 /\ h[{}] = 0
    BY DEF Sums
  <2>2. Image({}) = {}
    OBVIOUS
  <2> QED BY <1>2, <2>1, <2>2
<1>4. PICK x \in T : TRUE
  BY <1>3
<1>5. g[T] = g[T \ {x}] + f[x]
  <2> HIDE DEF Bad
  <2>1. T \in SUBSET S
    BY DEF Bad
  <2> QED BY <2>1, TakeAny
<1>6. Image(T) \in SUBSET K /\ key[x] \in Image(T)
  BY <1>2, <1>4
<1>7. h[Image(T)] = h[Image(T) \ {key[x]}] + m[key[x]]
  <2> HIDE DEF Image
  <2> QED BY <1>6, TakeAny
<1>8. Image(T \ {x}) = Image(T) \ {key[x]}
  BY <1>2, <1>4
<1>9. g[T \ {x}] = h[Image(T \ {x})]
  BY <1>2, <1>4
<1>10. f[x] = m[key[x]]
  BY <1>2, <1>4
<1> HIDE DEF Image
<1> QED BY <1>2, <1>5, <1>7, <1>8, <1>9, <1>10

-----------------------------------------------------------------------------
(* The reservation ledger.                                                 *)

USE DEF Resolved, Never

(* A grant is made of natural numbers and never exceeds what is available. *)
LEMMA GrantFits ==
  ASSUME TypeOK, NEW request \in [Pools -> Amounts], NEW mode \in {"all_or_nothing", "partial"},
         mode = "all_or_nothing" => Unavailable(request) = {}
  PROVE  /\ Grant(request, mode) \in [Pools -> Nat]
         /\ \A p \in Pools : Grant(request, mode)[p] <= available[p]
<1>1. \A p \in Pools : request[p] \in Nat /\ available[p] \in Nat
  BY BoundsAssumption DEF TypeOK, Amounts
<1>2. CASE mode = "all_or_nothing"
  BY <1>1, <1>2 DEF Grant, Unavailable
<1>3. CASE mode = "partial"
  BY <1>1, <1>3 DEF Grant, Less
<1> QED
  BY <1>2, <1>3

(* A settlement leaves well-typed amounts. *)
LEMMA SettleType ==
  ASSUME TypeOK, NEW r \in Owners, NEW consumed \in [Pools -> Nat], NEW isUnknown,
         SettleAt(r, consumed, isUnknown)
  PROVE  TypeOK'
<1>1. \A p \in Pools : Monus(granted[r][p], consumed[p]) \in Nat
  BY DEF TypeOK, Monus
<1>2. available' \in [Pools -> Nat]
  BY <1>1 DEF TypeOK, SettleAt
<1>3. /\ state' \in [Owners -> {"none", "held"} \cup Resolved]
      /\ observed' \in [Owners -> [Pools -> Nat]]
  BY DEF TypeOK, SettleAt
<1>4. unknown' \subseteq Owners /\ overrun' \subseteq Owners
  BY Zenon DEF TypeOK, SettleAt
<1> QED
  BY <1>2, <1>3, <1>4 DEF TypeOK, SettleAt, calls

(* So does handing a grant back. *)
LEMMA ReturnType ==
  ASSUME TypeOK, NEW r \in Owners, NEW outcome \in Resolved, Returning(r, outcome)
  PROVE  /\ available' \in [Pools -> Nat]
         /\ state' \in [Owners -> {"none", "held"} \cup Resolved]
  BY DEF TypeOK, Returning

(* commit settles at some amounts: the observed or the granted ones. *)
LEMMA CommitSettles ==
  ASSUME TypeOK, NEW r \in Owners, NEW reported \in SUBSET Pools,
         NEW amounts \in [Pools -> Observed], Commit(r, reported, amounts)
  PROVE  \E consumed \in [Pools -> Nat] : SettleAt(r, consumed, FALSE)
<1> DEFINE consumed == [p \in Pools |-> IF granted[r][p] = 0 THEN 0
                                        ELSE IF p \in reported THEN amounts[p]
                                        ELSE granted[r][p]]
<1>1. consumed \in [Pools -> Nat]
  BY BoundsAssumption DEF TypeOK, Observed
<1>2. SettleAt(r, consumed, FALSE)
  BY Zenon DEF Commit
<1> HIDE DEF consumed
<1> QED
  BY <1>1, <1>2

(* No pool is overdrawn: every step of every method keeps available (and   *)
(* all other columns) in range, as the table's CHECK constraints demand.   *)
LEMMA TypeStep == TypeOK /\ [Next]_vars => TypeOK'
<1> SUFFICES ASSUME TypeOK, [Next]_vars PROVE TypeOK'
    OBVIOUS
<1> USE DEF pools, rows, calls
<1>1. ASSUME NEW p \in Pools, NEW c \in Amounts, DefinePool(p, c) PROVE TypeOK'
  <2>1. capacity' \in [Pools -> Nat] /\ available' \in [Pools -> Nat]
    BY <1>1, BoundsAssumption DEF TypeOK, DefinePool, Amounts
  <2>2. renewable' \subseteq Pools
    BY <1>1, Zenon DEF TypeOK, DefinePool
  <2> QED
    BY <1>1, <2>1, <2>2 DEF TypeOK, DefinePool
<1>2. ASSUME NEW r \in Owners, NEW request \in [Pools -> Amounts],
             NEW mode \in {"all_or_nothing", "partial"}, NEW expiry \in 0 .. Never,
             Acquire(r, request, mode, expiry)
      PROVE TypeOK'
  <2>1. /\ Grant(request, mode) \in [Pools -> Nat]
        /\ \A p \in Pools : Grant(request, mode)[p] <= available[p]
    BY <1>2, GrantFits DEF Acquire
  <2>2. available' \in [Pools -> Nat]
    BY <1>2, <2>1 DEF TypeOK, Acquire
  <2>3. granted' \in [Owners -> [Pools -> Nat]]
    BY <1>2, <2>1 DEF TypeOK, Acquire
  <2> QED
    BY <1>2, <2>2, <2>3 DEF TypeOK, Acquire
<1>3. ASSUME NEW r \in Owners, SettleHold(r) PROVE TypeOK'
  BY <1>3 DEF TypeOK, SettleHold
<1>4. ASSUME NEW r \in Owners, SettleReserved(r) PROVE TypeOK'
  BY <1>4, SettleType DEF SettleReserved, TypeOK
<1>5. ASSUME NEW r \in Owners, NEW reported \in SUBSET Pools,
             NEW amounts \in [Pools -> Observed], Commit(r, reported, amounts)
      PROVE TypeOK'
  BY <1>5, CommitSettles, SettleType
<1>6. ASSUME NEW r \in Owners, Release(r) PROVE TypeOK'
  BY <1>6, ReturnType DEF TypeOK, Release, Unresolved
<1>7. ASSUME NEW r \in Owners, ExpireOne(r) PROVE TypeOK'
  <2>1. /\ available' \in [Pools -> Nat]
        /\ state' \in [Owners -> {"none", "held"} \cup Resolved]
    BY <1>7, ReturnType DEF ExpireOne, TypeOK
  <2>2. due' \subseteq Owners
    BY <1>7 DEF ExpireOne, TypeOK
  <2> QED
    BY <1>7, <2>1, <2>2 DEF TypeOK, ExpireOne, Unresolved
<1>8. ASSUME NEW r \in Owners, RecoverProven(r) PROVE TypeOK'
  <2>1. /\ available' \in [Pools -> Nat]
        /\ state' \in [Owners -> {"none", "held"} \cup Resolved]
    BY <1>8, ReturnType DEF RecoverProven, TypeOK
  <2> QED
    BY <1>8, <2>1 DEF TypeOK, RecoverProven, Unresolved
<1>9. ASSUME NEW r \in Owners, NEW expiry \in 0 .. MaxTime, Renew(r, expiry) PROVE TypeOK'
  BY <1>9, BoundsAssumption DEF TypeOK, Renew
<1>10. ASSUME NEW r \in Owners, NEW resolution \in Liveness, RecordEvidence(r, resolution)
       PROVE TypeOK'
  <2>1. evidence' \subseteq Owners /\ proven' \subseteq Owners
    BY <1>10 DEF TypeOK, RecordEvidence
  <2> QED
    BY <1>10, <2>1 DEF TypeOK, RecordEvidence
<1>11. CASE ListDue
  BY <1>11 DEF TypeOK, ListDue
<1>12. CASE CallerDies
  BY <1>12 DEF TypeOK, CallerDies
<1>13. CASE Tick
  BY <1>13, BoundsAssumption DEF TypeOK, Tick
<1>14. CASE UNCHANGED vars
  BY <1>14 DEF TypeOK, vars
<1> QED
  BY <1>1, <1>2, <1>3, <1>4, <1>5, <1>6, <1>7, <1>8, <1>9, <1>10, <1>11, <1>12,
     <1>13, <1>14 DEF Next, Resolve

(* The columns of the ledger stay in range whatever the callers do. *)
THEOREM Typing == Spec => []TypeOK
<1>1. Init => TypeOK
  BY BoundsAssumption DEF Init, TypeOK, Nothing
<1> QED
  BY <1>1, TypeStep, PTL DEF Spec

-----------------------------------------------------------------------------
(* Only settle and resolve_returning take a reservation out of held, and   *)
(* they alone give capacity back for it.                                   *)
LEMMA PaysBack ==
  ASSUME TypeOK, [Next]_vars, NEW p \in Pools, available'[p] > available[p]
  PROVE  \/ capacity'[p] - capacity[p] = available'[p] - available[p]
         \/ \E r \in Owners : /\ state[r] = "held"
                              /\ state'[r] \in Resolved
                              /\ available'[p] - available[p] <= granted[r][p]
<1> DEFINE Goal == \/ capacity'[p] - capacity[p] = available'[p] - available[p]
                   \/ \E r \in Owners : /\ state[r] = "held"
                                        /\ state'[r] \in Resolved
                                        /\ available'[p] - available[p] <= granted[r][p]
<1> USE DEF pools, rows, calls
<1>1. ASSUME NEW q \in Pools, NEW c \in Amounts, DefinePool(q, c) PROVE Goal
  BY <1>1, BoundsAssumption DEF TypeOK, DefinePool, Amounts
<1>2. ASSUME NEW r \in Owners, NEW request \in [Pools -> Amounts],
             NEW mode \in {"all_or_nothing", "partial"}, NEW expiry \in 0 .. Never,
             Acquire(r, request, mode, expiry)
      PROVE FALSE
  <2>1. Grant(request, mode)[p] \in Nat
    BY <1>2, GrantFits DEF Acquire
  <2> QED
    BY <1>2, <2>1 DEF TypeOK, Acquire
<1>3. ASSUME NEW r \in Owners, NEW consumed \in [Pools -> Nat], NEW isUnknown,
             SettleAt(r, consumed, isUnknown)
      PROVE Goal
  <2>1. available'[p] - available[p] <= granted[r][p]
    BY <1>3 DEF TypeOK, SettleAt, Monus
  <2>2. state[r] = "held" /\ state'[r] \in Resolved
    BY <1>3 DEF TypeOK, SettleAt
  <2> QED
    BY <2>1, <2>2
<1>4. ASSUME NEW r \in Owners, NEW outcome \in Resolved, Returning(r, outcome) PROVE Goal
  <2>1. available'[p] - available[p] <= granted[r][p]
    BY <1>4 DEF TypeOK, Returning
  <2>2. state[r] = "held" /\ state'[r] \in Resolved
    BY <1>4 DEF TypeOK, Returning
  <2> QED
    BY <2>1, <2>2
<1>5. ASSUME UNCHANGED available PROVE FALSE
  BY <1>5 DEF TypeOK
<1>6. ASSUME NEW r \in Owners, Resolve(r) PROVE Goal
  <2>1. CASE SettleHold(r)
    BY <2>1, <1>5 DEF SettleHold
  <2>2. CASE SettleReserved(r)
    BY <2>2, <1>3 DEF SettleReserved, TypeOK
  <2>3. CASE \E reported \in SUBSET Pools, amounts \in [Pools -> Observed] :
               Commit(r, reported, amounts)
    BY <2>3, <1>3, CommitSettles
  <2>4. CASE Release(r)
    BY <2>4, <1>4 DEF Release
  <2>5. CASE ExpireOne(r)
    BY <2>5, <1>4, <1>5 DEF ExpireOne
  <2>6. CASE RecoverProven(r)
    BY <2>6, <1>4, <1>5 DEF RecoverProven
  <2> QED
    BY <1>6, <2>1, <2>2, <2>3, <2>4, <2>5, <2>6 DEF Resolve
<1>7. ASSUME NEW r \in Owners, NEW expiry, Renew(r, expiry) PROVE FALSE
  BY <1>7, <1>5 DEF Renew
<1>8. ASSUME NEW r \in Owners, NEW resolution, RecordEvidence(r, resolution) PROVE FALSE
  BY <1>8, <1>5 DEF RecordEvidence
<1>9. ASSUME ListDue \/ CallerDies \/ Tick \/ UNCHANGED vars PROVE FALSE
  BY <1>9, <1>5 DEF ListDue, CallerDies, Tick, vars
<1> HIDE DEF Goal
<1>10. Goal
  BY <1>1, <1>2, <1>6, <1>7, <1>8, <1>9 DEF Next
<1> QED
  BY <1>10 DEF Goal

(* Capacity is paid back at most once per reservation. *)
THEOREM PaidBackOnce == Spec => ReturnedOnce
<1>1. TypeOK /\ [Next]_vars =>
        [\A p \in Pools :
           available'[p] > available[p] =>
             \/ capacity'[p] - capacity[p] = available'[p] - available[p]
             \/ \E r \in Owners :
                  /\ state[r] = "held"
                  /\ state'[r] \in Resolved
                  /\ available'[p] - available[p] <= granted[r][p]]_vars
  BY PaysBack
<1> QED
  BY <1>1, Typing, PTL DEF Spec, ReturnedOnce

-----------------------------------------------------------------------------
(* A reservation that is neither unclaimed nor held is left alone. *)
LEMMA LeftAlone ==
  ASSUME TypeOK, [Next]_vars, NEW s \in Owners, state[s] \in Resolved
  PROVE  state'[s] = state[s] /\ granted'[s] = granted[s] /\ observed'[s] = observed[s]
<1> DEFINE Goal == state'[s] = state[s] /\ granted'[s] = granted[s] /\ observed'[s] = observed[s]
<1> USE DEF pools, rows, calls
<1>1. ASSUME NEW q \in Pools, NEW c, DefinePool(q, c) PROVE Goal
  BY <1>1 DEF DefinePool
<1>2. ASSUME NEW r \in Owners, NEW request, NEW mode, NEW expiry,
             Acquire(r, request, mode, expiry)
      PROVE Goal
  BY <1>2 DEF TypeOK, Acquire
<1>3. ASSUME NEW r \in Owners, NEW consumed, NEW isUnknown, SettleAt(r, consumed, isUnknown)
      PROVE Goal
  BY <1>3 DEF TypeOK, SettleAt
<1>4. ASSUME NEW r \in Owners, NEW outcome, Returning(r, outcome), UNCHANGED <<granted, observed>>
      PROVE Goal
  BY <1>4 DEF TypeOK, Returning
<1>5. ASSUME UNCHANGED <<state, granted, observed>> PROVE Goal
  BY <1>5
<1> HIDE DEF Goal
<1>6. ASSUME NEW r \in Owners, Resolve(r) PROVE Goal
  BY <1>6, <1>3, <1>4, <1>5 DEF Resolve, SettleHold, SettleReserved, Commit, Release,
     ExpireOne, RecoverProven, Unresolved
<1>7. ASSUME NEW r \in Owners, NEW expiry, Renew(r, expiry) PROVE Goal
  BY <1>7, <1>5 DEF Renew
<1>8. ASSUME NEW r \in Owners, NEW resolution, RecordEvidence(r, resolution) PROVE Goal
  BY <1>8, <1>5 DEF RecordEvidence
<1>9. ASSUME ListDue \/ CallerDies \/ Tick \/ UNCHANGED vars PROVE Goal
  BY <1>9, <1>5 DEF ListDue, CallerDies, Tick, vars
<1>10. Goal
  BY <1>1, <1>2, <1>6, <1>7, <1>8, <1>9 DEF Next
<1> QED
  BY <1>10 DEF Goal

(* A resolution is final. *)
THEOREM Finality == Spec => ResolvedIsFinal
<1>1. TypeOK /\ [Next]_vars =>
        [\A r \in Owners : state[r] \in Resolved =>
           /\ state'[r] = state[r]
           /\ granted'[r] = granted[r]
           /\ observed'[r] = observed[r]]_vars
  BY LeftAlone
<1> QED
  BY <1>1, Typing, PTL DEF Spec, ResolvedIsFinal

-----------------------------------------------------------------------------
(* Recovery that is under way rests on a committed row of evidence. *)
ProofInv == /\ TypeOK
            /\ proven \subseteq evidence
            /\ RecoveredOnProof

(* Every step keeps the evidence behind each recovery. *)
LEMMA ProofStep == ProofInv /\ [Next]_vars => ProofInv'
<1> SUFFICES ASSUME ProofInv, [Next]_vars PROVE ProofInv'
    OBVIOUS
<1> USE DEF ProofInv, RecoveredOnProof, pools, rows, calls
<1>1. TypeOK'
  BY TypeStep
<1> DEFINE Goal == proven' \subseteq evidence' /\ RecoveredOnProof'
<1>2. ASSUME UNCHANGED <<state, evidence>>, proven' \subseteq proven PROVE Goal
  BY <1>2
<1>3. ASSUME NEW r \in Owners, NEW outcome, state' = [state EXCEPT ![r] = outcome],
             outcome # "recovered" \/ r \in evidence,
             UNCHANGED evidence, proven' \subseteq proven
      PROVE Goal
  BY <1>3 DEF TypeOK
<1>4. ASSUME NEW r \in Owners, NEW resolution, RecordEvidence(r, resolution) PROVE Goal
  BY <1>4 DEF RecordEvidence
<1> HIDE DEF Goal
<1>5. ASSUME NEW q \in Pools, NEW c, DefinePool(q, c) PROVE Goal
  BY <1>5, <1>2 DEF DefinePool
<1>6. ASSUME NEW r \in Owners, NEW request, NEW mode, NEW expiry,
             Acquire(r, request, mode, expiry)
      PROVE Goal
  BY <1>6, <1>3 DEF Acquire
<1>7. ASSUME NEW r \in Owners, Resolve(r) PROVE Goal
  <2>1. CASE SettleHold(r)
    BY <2>1, <1>2 DEF SettleHold
  <2>2. ASSUME NEW consumed, NEW isUnknown, SettleAt(r, consumed, isUnknown) PROVE Goal
    BY <2>2, <1>3 DEF SettleAt
  <2>3. CASE Release(r)
    BY <2>3, <1>3 DEF Release, Returning, Unresolved
  <2>4. CASE ExpireOne(r)
    BY <2>4, <1>2, <1>3 DEF ExpireOne, Returning, Unresolved
  <2>5. CASE RecoverProven(r)
    BY <2>5, <1>2, <1>3 DEF RecoverProven, Returning, Unresolved
  <2> QED
    BY <1>7, <2>1, <2>2, <2>3, <2>4, <2>5 DEF Resolve, SettleReserved, Commit
<1>8. ASSUME NEW r \in Owners, NEW expiry, Renew(r, expiry) PROVE Goal
  BY <1>8, <1>2 DEF Renew
<1>9. ASSUME ListDue \/ CallerDies \/ Tick \/ UNCHANGED vars PROVE Goal
  BY <1>9, <1>2 DEF ListDue, CallerDies, Tick, vars
<1>10. Goal
  BY <1>4, <1>5, <1>6, <1>7, <1>8, <1>9 DEF Next
<1> QED
  BY <1>1, <1>10 DEF Goal

(* Recovery releases a reservation only on recorded proof of death. *)
THEOREM RecoveryNeedsProof == Spec => []RecoveredOnProof
<1>1. Init => ProofInv
  BY BoundsAssumption DEF Init, ProofInv, TypeOK, Nothing, RecoveredOnProof
<1>2. ProofInv => RecoveredOnProof
  BY DEF ProofInv
<1> QED
  BY <1>1, <1>2, ProofStep, PTL DEF Spec

-----------------------------------------------------------------------------
(* What the reservations keep out of pool p, one number per owner. *)
KeptOf(p) == [r \in Owners |-> Kept(r, p)]

(* What is kept is never negative, so the sums are sums of numbers. *)
LEMMA KeptType == ASSUME TypeOK, NEW p \in Pools PROVE KeptOf(p) \in [Owners -> Int]
<1>1. \A r \in Owners : granted[r][p] \in Nat /\ observed[r][p] \in Nat
  BY DEF TypeOK
<1> QED
  BY <1>1 DEF KeptOf, Kept, Less

(* The argument of every step: only reservation r changes what it keeps,   *)
(* and it changes it by what the pool's available amount loses, apart from *)
(* what the pool's capacity gains.                                         *)
LEMMA LedgerStep ==
  ASSUME TypeOK, TypeOK', CapacityLedger, NEW r \in Owners,
         \A p \in Pools :
           /\ \A q \in Owners : q # r => Kept(q, p)' = Kept(q, p)
           /\ (Kept(r, p)') - Kept(r, p) =
                (capacity'[p] - capacity[p]) - (available'[p] - available[p])
  PROVE  CapacityLedger'
<1> SUFFICES ASSUME NEW p \in Pools
             PROVE  capacity'[p] = available'[p] + SumFunction(KeptOf(p)')
    BY DEF CapacityLedger, KeptOf
<1>1. KeptOf(p) \in [Owners -> Int] /\ KeptOf(p)' \in [Owners -> Int]
  <2>1. \A q \in Owners : granted'[q][p] \in Nat /\ observed'[q][p] \in Nat
    BY DEF TypeOK
  <2>2. KeptOf(p)' \in [Owners -> Int]
    BY <2>1 DEF KeptOf, Kept, Less
  <2> QED BY <2>2, KeptType
<1>2. \A q \in Owners : q # r => (KeptOf(p)')[q] = KeptOf(p)[q]
  BY DEF KeptOf
<1>3. SumFunction(KeptOf(p)') = SumFunction(KeptOf(p)) + ((KeptOf(p)')[r] - KeptOf(p)[r])
  <2> DEFINE f == KeptOf(p)
             h == KeptOf(p)'
  <2>1. f \in [Owners -> Int] /\ h \in [Owners -> Int] /\ \A y \in Owners : y # r => h[y] = f[y]
    BY <1>1, <1>2
  <2> HIDE DEF f, h
  <2>2. SumFunction(h) = SumFunction(f) + (h[r] - f[r])
    BY <2>1, SumUpdate, BoundsAssumption
  <2> QED BY <2>2 DEF f, h
<1>4. capacity[p] = available[p] + SumFunction(KeptOf(p))
  BY DEF CapacityLedger, KeptOf
<1>5. SumFunction(KeptOf(p)) \in Int
  BY <1>1, SumTyped, BoundsAssumption
<1>6. (KeptOf(p)')[r] - KeptOf(p)[r] =
        (capacity'[p] - capacity[p]) - (available'[p] - available[p])
  BY DEF KeptOf
<1>7. capacity[p] \in Int /\ capacity'[p] \in Int /\ available[p] \in Int /\ available'[p] \in Int
  BY DEF TypeOK
<1> QED
  BY <1>3, <1>4, <1>5, <1>6, <1>7

(* A settlement keeps what was consumed, at most the grant, and pays back  *)
(* the rest.                                                               *)
LEMMA SettleBalances ==
  ASSUME TypeOK, TypeOK', CapacityLedger, NEW r \in Owners, NEW consumed \in [Pools -> Nat],
         NEW isUnknown, SettleAt(r, consumed, isUnknown)
  PROVE  CapacityLedger'
<1>1. ASSUME NEW p \in Pools
      PROVE  /\ \A q \in Owners : q # r => Kept(q, p)' = Kept(q, p)
             /\ (Kept(r, p)') - Kept(r, p) =
                  (capacity'[p] - capacity[p]) - (available'[p] - available[p])
  <2>1. \A q \in Owners : q # r => state'[q] = state[q] /\ observed'[q] = observed[q]
    BY DEF SettleAt, TypeOK
  <2>2. granted' = granted /\ capacity' = capacity
    BY DEF SettleAt
  <2>3. state[r] = "held" /\ state'[r] = "committed" /\ observed'[r] = consumed
    BY DEF SettleAt, TypeOK
  <2>4. available'[p] = available[p] + Monus(granted[r][p], consumed[p])
    BY DEF SettleAt
  <2>5. {granted[r][p], consumed[p], available[p], capacity[p]} \subseteq Nat
    BY DEF TypeOK
  <2>6. Kept(r, p) = granted[r][p] /\ Kept(r, p)' = Less(consumed[p], granted[r][p])
    BY <2>2, <2>3 DEF Kept
  <2>7. \A q \in Owners : q # r => Kept(q, p)' = Kept(q, p)
    BY <2>1, <2>2 DEF Kept
  <2> QED BY <2>2, <2>4, <2>5, <2>6, <2>7 DEF Less, Monus
<1> QED
  BY <1>1, LedgerStep

(* Handing a grant back keeps nothing of it. *)
LEMMA ReturnBalances ==
  ASSUME TypeOK, TypeOK', CapacityLedger, NEW r \in Owners, NEW outcome \in Resolved,
         outcome # "committed", Returning(r, outcome), UNCHANGED <<capacity, granted, observed>>
  PROVE  CapacityLedger'
<1>1. ASSUME NEW p \in Pools
      PROVE  /\ \A q \in Owners : q # r => Kept(q, p)' = Kept(q, p)
             /\ (Kept(r, p)') - Kept(r, p) =
                  (capacity'[p] - capacity[p]) - (available'[p] - available[p])
  <2>1. \A q \in Owners : q # r => state'[q] = state[q]
    BY DEF Returning, TypeOK
  <2>2. state[r] = "held" /\ state'[r] = outcome
    BY DEF Returning, TypeOK
  <2>3. available'[p] = available[p] + granted[r][p]
    BY DEF Returning
  <2>4. {granted[r][p], available[p], capacity[p]} \subseteq Nat
    BY DEF TypeOK
  <2>5. Kept(r, p) = granted[r][p] /\ Kept(r, p)' = 0
    BY <2>2 DEF Kept
  <2>6. \A q \in Owners : q # r => Kept(q, p)' = Kept(q, p)
    BY <2>1 DEF Kept
  <2> QED BY <2>3, <2>4, <2>5, <2>6
<1> QED
  BY <1>1, LedgerStep

(* A new reservation keeps its grant, which the pools lose. *)
LEMMA AcquireBalances ==
  ASSUME TypeOK, TypeOK', CapacityLedger, NEW r \in Owners,
         NEW request \in [Pools -> Amounts], NEW mode \in {"all_or_nothing", "partial"},
         NEW expiry, Acquire(r, request, mode, expiry)
  PROVE  CapacityLedger'
<1> DEFINE grant == Grant(request, mode)
<1>1. grant \in [Pools -> Nat]
  BY GrantFits DEF Acquire
<1>2. /\ state[r] = "none" /\ state'[r] = "held" /\ granted'[r] = grant
      /\ \A q \in Owners : q # r => state'[q] = state[q] /\ granted'[q] = granted[q]
      /\ UNCHANGED <<capacity, observed>>
      /\ \A p \in Pools : available'[p] = available[p] - grant[p]
  BY DEF Acquire, TypeOK
<1> HIDE DEF grant
<1>3. ASSUME NEW p \in Pools
      PROVE  /\ \A q \in Owners : q # r => Kept(q, p)' = Kept(q, p)
             /\ (Kept(r, p)') - Kept(r, p) =
                  (capacity'[p] - capacity[p]) - (available'[p] - available[p])
  <2>1. grant[p] \in Nat /\ {available[p], capacity[p]} \subseteq Nat
    BY <1>1 DEF TypeOK
  <2>2. Kept(r, p) = 0 /\ Kept(r, p)' = grant[p]
    BY <1>2 DEF Kept
  <2>3. \A q \in Owners : q # r => Kept(q, p)' = Kept(q, p)
    BY <1>2 DEF Kept
  <2> QED BY <1>2, <2>1, <2>2, <2>3
<1> QED
  BY <1>3, LedgerStep

(* Where no reservation changes what it keeps, a pool moves its available  *)
(* amount with its capacity.                                               *)
LEMMA FrameBalances ==
  ASSUME TypeOK, TypeOK', CapacityLedger, UNCHANGED <<state, granted, observed>>,
         \A p \in Pools : capacity'[p] - capacity[p] = available'[p] - available[p]
  PROVE  CapacityLedger'
<1> SUFFICES ASSUME NEW p \in Pools
             PROVE  capacity'[p] = available'[p] + SumFunction(KeptOf(p)')
    BY DEF CapacityLedger, KeptOf
<1>1. KeptOf(p)' = KeptOf(p)
  BY DEF KeptOf, Kept
<1>2. capacity[p] = available[p] + SumFunction(KeptOf(p))
  BY DEF CapacityLedger, KeptOf
<1>3. SumFunction(KeptOf(p)) \in Int
  BY KeptType, SumTyped, BoundsAssumption
<1>4. {capacity[p], capacity'[p], available[p], available'[p]} \subseteq Int
  BY DEF TypeOK
<1> QED
  BY <1>1, <1>2, <1>3, <1>4

(* Every step of every method balances. *)
LEMMA CapacityStep == TypeOK /\ CapacityLedger /\ [Next]_vars => CapacityLedger'
<1> SUFFICES ASSUME TypeOK, CapacityLedger, [Next]_vars PROVE CapacityLedger'
    OBVIOUS
<1> TypeOK'
  BY TypeStep
<1> USE DEF pools, rows, calls
<1>1. ASSUME NEW q \in Pools, NEW c \in Amounts, DefinePool(q, c) PROVE CapacityLedger'
  <2>1. \A p \in Pools : capacity'[p] - capacity[p] = available'[p] - available[p]
    BY <1>1, BoundsAssumption DEF DefinePool, TypeOK, Amounts
  <2> QED BY <1>1, <2>1, FrameBalances DEF DefinePool
<1>2. ASSUME UNCHANGED <<capacity, available, state, granted, observed>> PROVE CapacityLedger'
  <2>1. \A p \in Pools : capacity'[p] - capacity[p] = available'[p] - available[p]
    BY <1>2 DEF TypeOK
  <2> QED BY <1>2, <2>1, FrameBalances
<1>3. ASSUME NEW r \in Owners, Resolve(r) PROVE CapacityLedger'
  <2>1. CASE SettleHold(r)
    BY <2>1, <1>2 DEF SettleHold
  <2>2. CASE SettleReserved(r)
    BY <2>2, SettleBalances DEF SettleReserved, TypeOK
  <2>3. CASE \E reported \in SUBSET Pools, amounts \in [Pools -> Observed] :
               Commit(r, reported, amounts)
    BY <2>3, CommitSettles, SettleBalances
  <2>4. CASE Release(r)
    BY <2>4, ReturnBalances DEF Release, Unresolved
  <2>5. CASE ExpireOne(r)
    BY <2>5, ReturnBalances, <1>2 DEF ExpireOne, Unresolved
  <2>6. CASE RecoverProven(r)
    BY <2>6, ReturnBalances, <1>2 DEF RecoverProven, Unresolved
  <2> QED
    BY <1>3, <2>1, <2>2, <2>3, <2>4, <2>5, <2>6 DEF Resolve
<1>4. ASSUME NEW r \in Owners, NEW expiry, Renew(r, expiry) PROVE CapacityLedger'
  BY <1>4, <1>2 DEF Renew
<1>5. ASSUME NEW r \in Owners, NEW resolution, RecordEvidence(r, resolution)
      PROVE CapacityLedger'
  BY <1>5, <1>2 DEF RecordEvidence
<1>6. ASSUME ListDue \/ CallerDies \/ Tick \/ UNCHANGED vars PROVE CapacityLedger'
  BY <1>6, <1>2 DEF ListDue, CallerDies, Tick, vars
<1> QED
  BY <1>1, <1>3, <1>4, <1>5, <1>6, AcquireBalances DEF Next

(* Capacity is neither lost nor invented: whatever sequence of grants,     *)
(* settlements, releases, sweeps and recoveries the callers of             *)
(* reservation.rs interleave, the capacity of every pool is what is        *)
(* available of it plus what its reservations keep.                        *)
THEOREM CapacityKept == Spec => []CapacityLedger
<1>1. Init => CapacityLedger
  <2> SUFFICES ASSUME Init, NEW p \in Pools
               PROVE  capacity[p] = available[p] + SumFunction(KeptOf(p))
      BY DEF CapacityLedger, KeptOf
  <2>1. KeptOf(p) \in [Owners -> {0}]
    BY DEF KeptOf, Kept, Init
  <2>2. SumFunction(KeptOf(p)) = 0
    BY <2>1, SumZero, BoundsAssumption
  <2> QED BY <2>2 DEF Init, Nothing
<1> QED
  BY <1>1, CapacityStep, Typing, PTL DEF Spec

-----------------------------------------------------------------------------
(* The residency manager.                                                  *)

(* Sums are integers, so the ceilings compare numbers. *)
LEMMA FootprintSum ==
  ASSUME NEW sizes \in [Keys -> Nat], NEW T \in SUBSET Keys
  PROVE  \E g \in Sums(sizes, Keys) : Footprint(sizes, T) = g[T]
<1>1. IsFiniteSet(T) /\ IsFiniteSet(Keys) /\ sizes \in [Keys -> Int]
  <2>1. Keys \subseteq Nat /\ IsFiniteSet(Keys)
    BY ResidencyAssumption
  <2>2. IsFiniteSet(T)
    BY <2>1, FS_Subset
  <2> QED BY <2>1, <2>2
<1> DEFINE f == [k \in T |-> sizes[k]]
           Iter(P) == P = [s \in SUBSET T |-> IF s = {} THEN 0
                                              ELSE sizes[One(s)] + P[s \ {One(s)}]]
           P0 == CHOOSE P : Iter(P)
<1>2. Footprint(sizes, T) = P0[T]
  BY DEF Footprint, MapThenSumSet, MapThenFoldSet, One
<1>3. f \in [T -> Int]
  BY <1>1
<1>4. PICK g \in Sums(sizes, Keys) : TRUE
  BY <1>1, SumsExist
<1>5. PICK P : P \in Sums(f, T)
  BY <1>1, <1>3, SumsExist
<1>6. \A s \in SUBSET T : s # {} => f[One(s)] = sizes[One(s)]
  BY OneOf
<1>7. Iter(P)
  BY <1>5, <1>6 DEF Sums
<1>8. Iter(P0)
  BY <1>7
<1> HIDE DEF P0
<1>9. P0 = [s \in SUBSET T |-> IF s = {} THEN 0 ELSE f[One(s)] + P0[s \ {One(s)}]]
  BY <1>8, <1>6
<1>10. P0 \in Sums(f, T)
  <2> HIDE DEF f
  <2> QED BY <1>1, <1>3, <1>9, FoldIsSum
<1>11. P0 \in Sums(sizes, T)
  BY <1>10, <1>6 DEF Sums
<1>12. P0[T] = g[T]
  BY <1>1, <1>4, <1>11, SumsAgree
<1> QED BY <1>2, <1>4, <1>12

(* The same of the servers of keys, by the size each was launched with. *)
LEMMA ServerSum ==
  ASSUME size \in [Keys -> Nat], NEW T, IsFiniteSet(T), \A s \in T : s.key \in Keys
  PROVE  LET f == [s \in T |-> size[s.key]]
         IN  \E g \in Sums(f, T) : MapThenSumSet(LAMBDA s : size[s.key], T) = g[T]
<1> DEFINE f == [s \in T |-> size[s.key]]
           Iter(P) == P = [r \in SUBSET T |-> IF r = {} THEN 0
                                              ELSE size[One(r).key] + P[r \ {One(r)}]]
           P0 == CHOOSE P : Iter(P)
<1>1. f \in [T -> Int]
  OBVIOUS
<1>2. MapThenSumSet(LAMBDA s : size[s.key], T) = P0[T]
  BY DEF MapThenSumSet, MapThenFoldSet, One
<1>3. PICK P : P \in Sums(f, T)
  <2> HIDE DEF f
  <2> QED BY <1>1, SumsExist
<1>4. \A r \in SUBSET T : r # {} => f[One(r)] = size[One(r).key]
  BY OneOf
<1>5. Iter(P)
  BY <1>3, <1>4 DEF Sums
<1>6. Iter(P0)
  BY <1>5
<1> HIDE DEF P0
<1>7. P0 = [r \in SUBSET T |-> IF r = {} THEN 0 ELSE f[One(r)] + P0[r \ {One(r)}]]
  BY <1>6, <1>4
<1>8. P0 \in Sums(f, T)
  <2> HIDE DEF f
  <2> QED BY <1>1, <1>7, FoldIsSum
<1> QED BY <1>2, <1>8

-----------------------------------------------------------------------------
(* A non-empty set of natural numbers has a smallest one. *)
LEMMA MinOf ==
  ASSUME NEW S \in SUBSET Nat, S # {}
  PROVE  Min(S) \in S /\ \A y \in S : Min(S) <= y
<1>1. PICK x \in S : \A y \in S : ~ (<<y, x>> \in OpToRel(<, Nat))
  BY NatLessThanWellFounded, WFMin
<1>2. ASSUME NEW y \in S, y < x PROVE FALSE
  <2>1. <<y, x>> \in Nat \X Nat /\ <<y, x>>[1] < <<y, x>>[2]
    BY <1>2
  <2> QED BY <2>1, <1>1 DEF OpToRel
<1>3. \A y \in S : x <= y
  BY <1>2
<1> QED BY <1>3 DEF Min

(* A server identity is none of the running ones of its key and not that   *)
(* of the server it replaces (next_server_identity).                       *)
LEMMA FreshIsNew ==
  ASSUME NEW k \in Keys, IsFiniteSet(running), \A s \in running : s.n \in Nat,
         residents[k].n \in Nat
  PROVE  /\ Fresh(k).key = k /\ Fresh(k).n \in Nat \ {0}
         /\ Fresh(k) = [key |-> k, n |-> Fresh(k).n]
         /\ Fresh(k) \notin running /\ Fresh(k) # residents[k]
<1> DEFINE R == {t \in running : t.key = k} \cup {residents[k]}
           taken == {s.n : s \in R}
           free == 1 .. Cardinality(taken) + 1 \ taken
<1>1. IsFiniteSet(R)
  <2>1. IsFiniteSet({t \in running : t.key = k})
    BY FS_Subset
  <2> QED BY <2>1, FS_AddElement
<1>2. IsFiniteSet(taken)
  <2> DEFINE num == [s \in R |-> s.n]
  <2>1. num \in Surjection(R, taken)
    BY DEF Surjection
  <2> HIDE DEF num, R, taken
  <2> QED BY <1>1, <2>1, FS_Surjection
<1>3. Cardinality(taken) \in Nat
  <2> HIDE DEF taken
  <2> QED BY <1>2, FS_CardinalityType
<1>4. free # {}
  <2> SUFFICES ASSUME free = {} PROVE FALSE
    OBVIOUS
  <2> HIDE DEF taken
  <2>1. 1 .. Cardinality(taken) + 1 \in SUBSET taken
    OBVIOUS
  <2>2. Cardinality(1 .. Cardinality(taken) + 1) <= Cardinality(taken)
    BY <1>2, <2>1, FS_Subset
  <2>3. Cardinality(1 .. Cardinality(taken) + 1) = Cardinality(taken) + 1
    BY <1>3, FS_Interval
  <2> QED BY <1>3, <2>2, <2>3
<1>5. free \in SUBSET Nat
  BY <1>3
<1>6. Min(free) \in free
  <2> HIDE DEF free
  <2> QED BY <1>4, <1>5, MinOf
<1>7. Fresh(k) = [key |-> k, n |-> Min(free)]
  BY DEF Fresh
<1> DEFINE m == Min(free)
<1>8. m \in Nat \ {0} /\ m \notin taken
  <2>1. m \in free
    BY <1>6
  <2> HIDE DEF m, taken
  <2> QED BY <1>3, <2>1
<1>9. \A s \in running : s.key = k => s.n \in taken
  OBVIOUS
<1>10. residents[k].n \in taken
  OBVIOUS
<1> HIDE DEF m, taken
<1> QED BY <1>7, <1>8, <1>9, <1>10 DEF m

(* The order of use, as a list of the keys in S, each of them once. *)
Lists(s, S) ==
  /\ s \in Seq(S)
  /\ \A i, j \in 1 .. Len(s) : s[i] = s[j] => i = j
  /\ \A x \in S : \E i \in 1 .. Len(s) : s[i] = x

(* Taking a key out of the order of use leaves the order of the others. *)
LEMMA RemoveLists ==
  ASSUME NEW S, NEW s, Lists(s, S), NEW e
  PROVE  Lists(RemoveFirst(s, e), S \ {e})
<1>1. CASE ~ \E i \in 1 .. Len(s) : s[i] = e
  <2>1. RemoveFirst(s, e) = s
    BY <1>1 DEF RemoveFirst
  <2>2. e \notin S
    BY <1>1 DEF Lists
  <2>3. S \ {e} = S
    BY <2>2
  <2> QED BY <2>1, <2>3
<1>2. CASE \E i \in 1 .. Len(s) : s[i] = e
  <2> DEFINE I == {i \in 1 .. Len(s) : s[i] = e}
             p == Min(I)
             r == RemoveAt(s, p)
             n == Len(s)
  <2>1. s \in Seq(S) /\ n \in Nat
    BY DEF Lists
  <2>2. RemoveFirst(s, e) = r
    BY <1>2 DEF RemoveFirst, SelectInSeq
  <2>3. p \in I
    <3>1. I \in SUBSET Nat /\ I # {}
      BY <1>2, <2>1
    <3> HIDE DEF I
    <3> QED BY <3>1, MinOf
  <2>4. p \in 1 .. n /\ s[p] = e /\ p \in Nat
    BY <2>1, <2>3
  <2> HIDE DEF p, I
  <2>5. \A i \in 1 .. n : s[i] \in S /\ (i # p => s[i] \in S \ {e})
    BY <2>1, <2>4 DEF Lists
  <2> DEFINE a == SubSeq(s, 1, p - 1)
             b == SubSeq(s, p + 1, n)
  <2>6. a \in Seq(S \ {e}) /\ Len(a) = p - 1 /\ \A i \in 1 .. p - 1 : a[i] = s[i]
    <3>1. \A i \in 1 .. p - 1 : s[i] \in S \ {e}
      BY <2>1, <2>4, <2>5
    <3>2. 1 \in Int /\ p - 1 \in Int
      BY <2>4
    <3>3. /\ a \in Seq(S \ {e})
          /\ Len(a) = IF 1 <= p - 1 THEN (p - 1) - 1 + 1 ELSE 0
          /\ \A i \in 1 .. (p - 1) - 1 + 1 : a[i] = s[1 + i - 1]
      BY <3>1, <3>2, SubSeqProperties
    <3> HIDE DEF a
    <3> QED BY <2>4, <3>3
  <2>7. b \in Seq(S \ {e}) /\ Len(b) = n - p /\ \A i \in 1 .. n - p : b[i] = s[p + i]
    <3>1. \A i \in p + 1 .. n : s[i] \in S \ {e}
      BY <2>1, <2>4, <2>5
    <3>2. p + 1 \in Int /\ n \in Int
      BY <2>1, <2>4
    <3>3. /\ b \in Seq(S \ {e})
          /\ Len(b) = IF p + 1 <= n THEN n - (p + 1) + 1 ELSE 0
          /\ \A i \in 1 .. n - (p + 1) + 1 : b[i] = s[p + 1 + i - 1]
      BY <3>1, <3>2, SubSeqProperties
    <3> HIDE DEF b
    <3> QED BY <2>1, <2>4, <3>3
  <2>8. /\ r \in Seq(S \ {e}) /\ Len(r) = n - 1
        /\ \A i \in 1 .. n - 1 : r[i] = IF i < p THEN s[i] ELSE s[i + 1]
    <3>1. r = a \o b
      BY DEF RemoveAt
    <3> HIDE DEF a, b, r
    <3>2. r \in Seq(S \ {e}) /\ Len(r) = Len(a) + Len(b)
      BY <3>1, <2>6, <2>7, ConcatProperties
    <3>3. \A i \in 1 .. n - 1 : r[i] = IF i <= Len(a) THEN a[i] ELSE b[i - Len(a)]
      BY <3>1, <2>1, <2>4, <2>6, <2>7, ConcatProperties
    <3>4. ASSUME NEW i \in 1 .. n - 1 PROVE r[i] = IF i < p THEN s[i] ELSE s[i + 1]
      <4>1. CASE i < p
        BY <4>1, <3>3, <2>1, <2>4, <2>6
      <4>2. CASE ~ (i < p)
        <5>1. i - Len(a) = i - p + 1 /\ i - p + 1 \in 1 .. n - p /\ ~ (i <= Len(a))
          BY <4>2, <2>1, <2>4, <2>6
        <5>2. r[i] = b[i - p + 1]
          BY <3>3, <5>1
        <5>3. b[i - p + 1] = s[p + (i - p + 1)] /\ p + (i - p + 1) = i + 1
          BY <2>1, <2>4, <2>7, <5>1
        <5> QED BY <4>2, <5>2, <5>3
      <4> QED BY <4>1, <4>2
    <3> QED BY <3>2, <3>4, <2>1, <2>4, <2>6, <2>7
  <2> HIDE DEF r
  <2> DEFINE From(i) == IF i < p THEN i ELSE i + 1
  <2>9. \A i \in 1 .. n - 1 : From(i) \in 1 .. n /\ From(i) # p /\ r[i] = s[From(i)]
    BY <2>1, <2>4, <2>8
  <2>10. \A i, j \in 1 .. n - 1 : r[i] = r[j] => i = j
    <3>1. \A i, j \in 1 .. n - 1 : r[i] = r[j] => From(i) = From(j)
      <4> TAKE i, j \in 1 .. n - 1
      <4> HAVE r[i] = r[j]
      <4> HIDE DEF From
      <4>1. From(i) \in 1 .. n /\ From(j) \in 1 .. n /\ s[From(i)] = s[From(j)]
        BY <2>9
      <4> QED BY <4>1 DEF Lists
    <3> QED BY <3>1, <2>1, <2>4
  <2>11. ASSUME NEW x \in S \ {e} PROVE \E i \in 1 .. n - 1 : r[i] = x
    <3>1. PICK j \in 1 .. n : s[j] = x
      BY DEF Lists
    <3>2. j # p
      BY <3>1, <2>4
    <3>3. CASE j < p
      BY <3>1, <3>3, <2>1, <2>4, <2>8
    <3>4. CASE j > p
      <4>1. j - 1 \in 1 .. n - 1 /\ ~ (j - 1 < p) /\ (j - 1) + 1 = j
        BY <3>4, <2>1, <2>4
      <4> QED BY <4>1, <3>1, <2>8
    <3> QED BY <3>2, <3>3, <3>4, <2>1, <2>4
  <2> QED BY <2>2, <2>8, <2>10, <2>11 DEF Lists
<1> QED BY <1>1, <1>2

(* A key that is used goes to the end of the order. *)
LEMMA AppendLists ==
  ASSUME NEW S, NEW s, Lists(s, S), NEW e, e \notin S
  PROVE  Lists(Append(s, e), S \cup {e})
<1> DEFINE t == Append(s, e)
           n == Len(s)
<1>1. s \in Seq(S \cup {e}) /\ e \in S \cup {e} /\ n \in Nat
  BY SeqMonotonic DEF Lists
<1>2. /\ t \in Seq(S \cup {e}) /\ Len(t) = n + 1
      /\ \A i \in 1 .. n : t[i] = s[i] /\ t[n + 1] = e
  BY <1>1, AppendProperties
<1>3. t[n + 1] = e
  BY <1>1, AppendProperties
<1>4. \A i \in 1 .. n : s[i] \in S
  BY DEF Lists
<1> HIDE DEF t
<1>5. \A i, j \in 1 .. n + 1 : t[i] = t[j] => i = j
  <2>1. \A i \in 1 .. n : t[i] # t[n + 1]
    BY <1>2, <1>3, <1>4
  <2>2. \A i \in 1 .. n + 1 : i \in 1 .. n \/ i = n + 1
    BY <1>1
  <2> QED BY <1>2, <2>1, <2>2 DEF Lists
<1>6. ASSUME NEW x \in S \cup {e} PROVE \E i \in 1 .. n + 1 : t[i] = x
  <2>1. CASE x = e
    BY <2>1, <1>1, <1>3
  <2>2. CASE x \in S
    <3>1. PICK i \in 1 .. n : s[i] = x
      BY <2>2 DEF Lists
    <3> QED BY <3>1, <1>1, <1>2
  <2> QED BY <2>1, <2>2
<1> QED BY <1>2, <1>5, <1>6 DEF Lists, t

-----------------------------------------------------------------------------
(* The identities a server can have.                                       *)
Servers == [key : Keys \cup {NoKey}, n : Nat]

(* The shape of the table of residents and of the order of use. What is    *)
(* held for a key is a server of that key, and no key is held and failed.  *)
TableShape ==
  /\ limits \in Configs /\ admittedUnder \in Configs /\ size \in [Keys -> Nat]
  /\ failed \subseteq Keys
  /\ residents \in [Keys -> Servers]
  /\ \A k \in Held : residents[k].key = k /\ residents[k].n # 0
  /\ Lists(lru, Held)
  /\ failed \cap Held = {}

(* The rows of the event table and what is counted. *)
Events == {"none", "loaded", "stopped", "evicted", "restarted", "failed", "health-failed"}

RowShape ==
  /\ unsaid \subseteq Keys
  /\ row \in [Keys -> [event : Events, server : Servers]]
  /\ attempts \in [Keys -> Nat] /\ faults \in Nat /\ crashes \in Nat

(* Every process is one of a key. A leaked one is in nobody's hands.       *)
ProcessShape ==
  /\ running \subseteq Servers /\ IsFiniteSet(running)
  /\ \A s \in running : s.key \in Keys /\ s.n # 0
  /\ deaf \subseteq running /\ leaked \subseteq running
  /\ \A k \in Keys : residents[k] \notin leaked

(* The operation under the mutex: which jobs are at which step, and that   *)
(* what is still on its list is held.                                      *)
OpShape ==
  /\ op \in [pc : {"idle", "room", "start", "loaded", "restarted", "health", "failed",
                   "reconcile", "probe", "exit"},
             job : {"none", "ensure", "tick", "exit"}, key : Keys \cup {NoKey},
             todo : SUBSET Keys, server : Servers]
  /\ op.pc = "idle" => op = Idle
  /\ op.pc = "room" => op.job = "ensure"
  /\ op.pc \in {"start", "loaded", "health", "failed"} => op.job \in {"ensure", "tick"}
  /\ op.pc \in {"restarted", "reconcile", "probe"} => op.job = "tick"
  /\ op.pc = "exit" <=> op.job = "exit"
  /\ op.todo \subseteq Held /\ (op.job = "ensure" => op.todo = {})

(* What the operation may count on about its key and about the server it   *)
(* starts: the identity is new, the replaced server is stopped.            *)
KeyInHand ==
  /\ op.job = "ensure" => op.key \in Keys \ (Held \cup failed)
  /\ op.job = "tick" /\ op.pc \in {"start", "loaded", "health", "failed", "restarted"} =>
       op.key \in Keys \ op.todo
  /\ op.job = "tick" /\ op.pc \in {"start", "loaded", "health", "restarted"} => op.key \in Held
  /\ op.pc = "failed" => op.key \notin Held
  /\ op.pc = "restarted" => op.server = residents[op.key]
  /\ op.pc \in {"start", "loaded", "health"} =>
       /\ op.server.key = op.key /\ op.server.n # 0
       /\ op.server # residents[op.key] /\ residents[op.key] \notin running
  /\ op.pc = "start" => op.server \notin running
  /\ op.pc = "loaded" => op.server \notin leaked

(* A running server is held for its key or just started, or leaked. *)
Known ==
  \A s \in running \ leaked :
    s = residents[s.key] \/ (op.pc = "loaded" /\ s = op.server)

(* The keys that count against the ceilings. *)
Admitting == op.job = "ensure" /\ op.pc \in {"start", "loaded"}
Wanted == IF Admitting THEN Held \cup {op.key} ELSE Held

(* A key that is being started was admitted under the limits in force.     *)
Admitted == Admitting => admittedUnder = limits

(* The keys of T are not too many and not too large.                       *)
Fit(T, ceilings) ==
  /\ Cardinality(T) <= ceilings.count
  /\ Footprint(size, T) <= ceilings.memory

(* What the newest row of a key says, compared with the table.             *)
Truthful(k) ==
  /\ k \in Held =>
       \/ row[k].event \in Serving /\ row[k].server = residents[k]
       \/ row[k].event = "health-failed" /\ residents[k] \notin running
  /\ k \notin Held => row[k].event \notin Serving
  /\ k \in failed => row[k].event = "failed"

(* It is true of every key whose newest transition has a row.              *)
Truths == \A k \in Keys \ unsaid : Truthful(k)

(* A key is given up within its restarts, counting a refused row as one    *)
(* more. Only the key that is being given up may be over by one.           *)
RestartBudget ==
  \A k \in Keys :
    /\ attempts[k] <= MaxRestarts + 1 + faults
    /\ k \notin failed /\ ~ (op.pc \in {"health", "failed"} /\ op.key = k) =>
         attempts[k] <= MaxRestarts + faults

(* The bound on faults and crashes; a shutdown was begun below it.         *)
UpsetBudget ==
  /\ faults + crashes <= MaxUpsets + 1
  /\ op.job = "exit" => faults + crashes <= MaxUpsets

(* The inductive invariant of the manager.                                 *)
ResidencyInv ==
  /\ TableShape /\ RowShape /\ ProcessShape /\ OpShape /\ KeyInHand /\ Known
  /\ Fit(Wanted, admittedUnder) /\ Admitted /\ Truths /\ RestartBudget /\ UpsetBudget

(* What fits still fits when there is less of it. *)
LEMMA FitShrinks ==
  ASSUME size \in [Keys -> Nat], NEW c \in Configs, NEW U \in SUBSET Keys,
         NEW T \in SUBSET U, Fit(U, c)
  PROVE  Fit(T, c)
<1>1. /\ IsFiniteSet(Keys) /\ size \in [Keys -> Int]
      /\ c.count \in Nat /\ c.memory \in Nat
  BY ResidencyAssumption
<1>2. IsFiniteSet(U) /\ IsFiniteSet(T) /\ Cardinality(T) <= Cardinality(U)
  <2>1. IsFiniteSet(U)
    BY <1>1, FS_Subset
  <2> QED BY <2>1, FS_Subset
<1>3. Cardinality(T) \in Nat /\ Cardinality(U) \in Nat
  BY <1>2, FS_CardinalityType
<1>4. PICK g \in Sums(size, Keys) : Footprint(size, U) = g[U]
  BY FootprintSum
<1>5. PICK f \in Sums(size, Keys) : Footprint(size, T) = f[T]
  <2>1. T \in SUBSET Keys
    OBVIOUS
  <2> QED BY <2>1, FootprintSum
<1>6. f[T] = g[T]
  BY <1>1, SumsAgree
<1>7. g[T] <= g[U]
  BY <1>1, SumMonotone
<1>8. g[T] \in Int /\ g[U] \in Int
  BY DEF Sums
<1> QED BY <1>1, <1>2, <1>3, <1>4, <1>5, <1>6, <1>7, <1>8 DEF Fit

(* The empty table fits any ceilings. *)
LEMMA NothingFits ==
  ASSUME size \in [Keys -> Nat], NEW c \in Configs PROVE Fit({}, c)
<1>1. Cardinality({}) = 0
  BY FS_EmptySet
<1>2. c.count \in Nat /\ c.memory \in Nat
  BY ResidencyAssumption
<1>3. PICK g \in Sums(size, Keys) : Footprint(size, {}) = g[{}]
  BY FootprintSum
<1>4. g[{}] = 0
  BY DEF Sums
<1> QED BY <1>1, <1>2, <1>3, <1>4 DEF Fit

(* Only the sizes of the keys themselves count. *)
LEMMA SameFootprint ==
  ASSUME NEW a \in [Keys -> Nat], NEW b \in [Keys -> Nat], NEW T \in SUBSET Keys,
         \A k \in T : a[k] = b[k]
  PROVE  Footprint(a, T) = Footprint(b, T)
<1>1. IsFiniteSet(T) /\ IsFiniteSet(Keys)
  BY ResidencyAssumption, FS_Subset
<1>2. PICK g \in Sums(a, Keys) : Footprint(a, T) = g[T]
  BY FootprintSum
<1>3. PICK h \in Sums(b, Keys) : Footprint(b, T) = h[T]
  BY FootprintSum
<1>4. \A s \in SUBSET T : s # {} => a[One(s)] = b[One(s)] /\ s \ {One(s)} \in SUBSET T
  BY OneOf
<1> DEFINE gT == [s \in SUBSET T |-> g[s]]
           hT == [s \in SUBSET T |-> h[s]]
           aT == [k \in T |-> a[k]]
<1>5. gT \in Sums(aT, T) /\ hT \in Sums(aT, T)
  <2>1. \A s \in SUBSET T : s # {} => One(s) \in T /\ aT[One(s)] = a[One(s)]
    BY OneOf
  <2> QED BY <1>2, <1>3, <1>4, <2>1 DEF Sums
<1>6. aT \in [T -> Int]
  OBVIOUS
<1> HIDE DEF gT, hT, aT
<1>7. gT[T] = hT[T]
  BY <1>1, <1>5, <1>6, SumsAgree
<1> QED BY <1>2, <1>3, <1>7 DEF gT, hT

(* A key that may be started fits with what is held. *)
LEMMA NotBreachedFits ==
  ASSUME NEW k \in Keys, k \notin Held, ~ Breached(k), limits \in Configs,
         size \in [Keys -> Nat]
  PROVE  Fit(Held \cup {k}, limits)
<1>1. IsFiniteSet(Held) /\ Cardinality(Held) \in Nat
  <2>1. IsFiniteSet(Keys) /\ Held \in SUBSET Keys
    BY ResidencyAssumption DEF Held
  <2>2. IsFiniteSet(Held)
    BY <2>1, FS_Subset
  <2> QED BY <2>2, FS_CardinalityType
<1>2. Cardinality(Held \cup {k}) = Cardinality(Held) + 1
  BY <1>1, FS_AddElement
<1>3. limits.count \in Nat /\ limits.memory \in Nat
  BY ResidencyAssumption
<1>4. PICK g \in Sums(size, Keys) : Footprint(size, Held \cup {k}) = g[Held \cup {k}]
  <2>1. Held \cup {k} \in SUBSET Keys
    BY DEF Held
  <2> QED BY <2>1, FootprintSum
<1>5. g[Held \cup {k}] \in Int
  BY DEF Sums, Held
<1> QED BY <1>1, <1>2, <1>3, <1>4, <1>5 DEF Fit, Breached

-----------------------------------------------------------------------------
(* What the parts of a step do to the parts of the invariant.              *)

(* The row is written, or it is refused. *)
Written(k, event, server) ==
  /\ row' = [row EXCEPT ![k] = [event |-> event,
                                server |-> IF event \in Serving THEN server ELSE NoServer]]
  /\ unsaid' = unsaid \ {k} /\ faults' = faults

NotWritten(k) ==
  /\ faults + crashes < MaxUpsets
  /\ row' = row /\ unsaid' = unsaid \cup {k} /\ faults' = faults + 1

(* Those are the two outcomes of record.                                   *)
LEMMA RecordCases ==
  ASSUME NEW k, NEW event, NEW server, NEW next, NEW early,
         Record(k, event, server, next, early)
  PROVE  \/ Written(k, event, server) /\ op' = next
         \/ NotWritten(k) /\ op' = early
BY DEF Record, Written, NotWritten

(* Either way the event table keeps its shape and faults only grow.        *)
LEMMA RowsStay ==
  ASSUME RowShape, NEW k \in Keys, NEW event \in Events, NEW server \in Servers,
         Written(k, event, server) \/ NotWritten(k)
  PROVE  /\ unsaid' \subseteq Keys /\ row' \in [Keys -> [event : Events, server : Servers]]
         /\ faults' \in Nat /\ faults' >= faults
<1>1. NoServer \in Servers
  BY DEF NoServer, Servers, NoKey
<1> QED BY <1>1 DEF RowShape, Written, NotWritten

(* A key leaves the table. *)
LEMMA Dropped ==
  ASSUME TableShape, NEW k \in Keys, Drop(k)
  PROVE  /\ residents' \in [Keys -> Servers] /\ residents'[k] = NoServer
         /\ \A j \in Keys : j # k => residents'[j] = residents[j]
         /\ Held' = Held \ {k}
         /\ \A j \in Held' : residents'[j].key = j /\ residents'[j].n # 0
         /\ Lists(lru, Held)'
<1>1. NoServer \in Servers
  BY DEF NoServer, Servers, NoKey
<1>2. /\ residents' \in [Keys -> Servers] /\ residents'[k] = NoServer
      /\ \A j \in Keys : j # k => residents'[j] = residents[j]
  BY <1>1 DEF TableShape, Drop
<1>3. Held' = Held \ {k}
  BY <1>2 DEF Held
<1>4. Lists(lru', Held')
  BY <1>3, RemoveLists DEF TableShape, Drop
<1> QED BY <1>2, <1>3, <1>4 DEF TableShape, Held

(* A key is used, and is in the table afterwards. *)
LEMMA Touched ==
  ASSUME TableShape, NEW k \in Keys, Touch(k), Held' = Held \cup {k}
  PROVE  Lists(lru, Held)'
<1>1. Lists(RemoveFirst(lru, k), Held \ {k})
  BY RemoveLists DEF TableShape
<1>2. Lists(Append(RemoveFirst(lru, k), k), (Held \ {k}) \cup {k})
  BY <1>1, AppendLists
<1>3. (Held \ {k}) \cup {k} = Held \cup {k}
  OBVIOUS
<1> QED BY <1>2, <1>3 DEF Touch

(* Processes go away. *)
LEMMA Stopped ==
  ASSUME ProcessShape, running' \subseteq running, deaf' \subseteq running',
         leaked' \subseteq running', \A k \in Keys : residents'[k] \notin leaked'
  PROVE  ProcessShape'
<1>1. IsFiniteSet(running')
  BY FS_Subset DEF ProcessShape
<1> QED BY <1>1 DEF ProcessShape

(* The ceilings, for every step that makes no room for a new key. *)
LEMMA StillFits ==
  ASSUME ResidencyInv, UNCHANGED <<limits, size, admittedUnder>>,
         Wanted' \subseteq Wanted /\ (Admitting' => Admitting)
  PROVE  Fit(Wanted, admittedUnder)' /\ Admitted'
<1>1. Wanted \in SUBSET Keys /\ admittedUnder \in Configs /\ size \in [Keys -> Nat]
  BY DEF ResidencyInv, Wanted, Admitting, Held, KeyInHand, TableShape
<1>2. Fit(Wanted', admittedUnder)
  BY <1>1, FitShrinks DEF ResidencyInv
<1> QED BY <1>2 DEF Fit, Admitted, ResidencyInv

(* The operation ends, or goes on with the rest of its list. *)
LEMMA GoesOn ==
  ASSUME OpShape, op' = Idle \/ op' = Continue, op.todo \subseteq Held'
  PROVE  /\ OpShape' /\ KeyInHand' /\ Wanted' = Held' /\ ~ Admitting'
         /\ op'.pc \in {"idle", "probe"} /\ op'.job # "exit"
<1>1. NoServer \in Servers /\ NoKey \in Keys \cup {NoKey}
  BY DEF NoServer, Servers, NoKey
<1>2. CASE op' = Idle
  BY <1>1, <1>2 DEF OpShape, KeyInHand, Wanted, Admitting, Idle
<1>3. CASE /\ op' = [pc |-> "probe", job |-> "tick", key |-> NoKey, todo |-> op.todo,
                     server |-> NoServer]
  BY <1>1, <1>3 DEF OpShape, KeyInHand, Wanted, Admitting
<1> QED BY <1>2, <1>3 DEF Continue, Idle

(* The rows tell the truth if they did about the other keys and do about   *)
(* the one the step is about.                                              *)
LEMMA TruthElsewhere ==
  ASSUME Truths, NEW x,
         \A k \in Keys : k # x =>
           /\ residents'[k] = residents[k] /\ row'[k] = row[k]
           /\ k \in failed' => k \in failed
           /\ residents[k] \in running' => residents[k] \in running
           /\ k \in unsaid => k \in unsaid',
         x \in Keys \ unsaid' => Truthful(x)'
  PROVE  Truths'
<1> SUFFICES ASSUME NEW k \in Keys, k \notin unsaid', k # x PROVE Truthful(k)'
    BY DEF Truths
<1>1. Truthful(k)
  BY DEF Truths
<1> QED BY <1>1 DEF Truthful, Held

(* A step that writes no row and only stops processes leaves the rows as   *)
(* true as they were.                                                      *)
LEMMA TruthKept ==
  ASSUME Truths, UNCHANGED <<residents, row>>, running' \subseteq running,
         failed' \subseteq failed, unsaid \subseteq unsaid'
  PROVE  Truths'
BY DEF Truths, Truthful, Held

(* A resident is stopped, leaves the table, and the row says so: evict and *)
(* stop.                                                                   *)
LEMMA Removed ==
  ASSUME ResidencyInv, NEW k \in Held, Drop(k), StopServer(residents[k]),
         NEW event \in {"evicted", "stopped"},
         Written(k, event, residents[k]) \/ NotWritten(k),
         UNCHANGED <<limits, size, admittedUnder, failed, attempts, crashes, leaked>>,
         op.pc \in {"room", "reconcile", "exit"},
         op'.pc \in {"room", "reconcile", "exit", "idle"}
  PROVE  /\ TableShape' /\ RowShape' /\ ProcessShape' /\ Known' /\ Truths' /\ RestartBudget'
         /\ Held' = Held \ {k} /\ faults' + crashes' <= MaxUpsets + 1
         /\ faults' # faults => faults' + crashes' <= MaxUpsets
<1> USE DEF ResidencyInv
<1>1. k \in Keys /\ residents[k] \in Servers /\ residents[k] # NoServer
  BY DEF Held, TableShape
<1>2. /\ residents' \in [Keys -> Servers] /\ residents'[k] = NoServer
      /\ \A j \in Keys : j # k => residents'[j] = residents[j]
      /\ Held' = Held \ {k}
      /\ \A j \in Held' : residents'[j].key = j /\ residents'[j].n # 0
      /\ Lists(lru, Held)'
  BY <1>1, Dropped
<1>3. TableShape'
  BY <1>2 DEF TableShape
<1>4. /\ unsaid' \subseteq Keys /\ row' \in [Keys -> [event : Events, server : Servers]]
      /\ faults' \in Nat /\ faults' >= faults
  <2>1. event \in Events
    BY DEF Events
  <2> QED BY <1>1, <2>1, RowsStay
<1>5. RowShape'
  BY <1>4 DEF RowShape
<1>6. running' = running \ {residents[k]} /\ deaf' = deaf \ {residents[k]}
  BY DEF StopServer
<1>7. NoServer \notin running
  BY DEF ProcessShape, NoServer
<1>8. ProcessShape'
  <2>1. \A j \in Keys : residents'[j] \notin leaked'
    BY <1>1, <1>2, <1>7 DEF ProcessShape
  <2>2. deaf' \subseteq running' /\ leaked' \subseteq running'
    BY <1>1, <1>6 DEF ProcessShape
  <2> QED BY <2>1, <2>2, <1>6, Stopped
<1>9. Known'
  <2> SUFFICES ASSUME NEW s \in running', s \notin leaked' PROVE s = residents'[s.key]
      BY DEF Known
  <2>1. s = residents[s.key] /\ s.key \in Keys /\ s # residents[k]
    BY <1>6 DEF Known, ProcessShape
  <2> QED BY <2>1, <1>2
<1>10. Truths'
  <2>1. k \notin unsaid' => Truthful(k)'
    <3>1. k \notin failed'
      BY DEF TableShape
    <3>2. k \notin Held'
      BY <1>2
    <3>3. k \notin unsaid' => row'[k].event = event
      BY <1>1 DEF Written, NotWritten, RowShape
    <3> QED BY <3>1, <3>2, <3>3 DEF Truthful, Serving
  <2>2. \A j \in Keys : j # k => row'[j] = row[j] /\ (j \in unsaid => j \in unsaid')
    BY DEF Written, NotWritten, RowShape
  <2> QED BY <2>1, <2>2, <1>2, <1>6, TruthElsewhere
<1>11. RestartBudget'
  <2>1. MaxRestarts \in Nat
    BY ResidencyAssumption
  <2> QED BY <2>1, <1>4 DEF RestartBudget, RowShape
<1>12. /\ faults' + crashes' <= MaxUpsets + 1
       /\ faults' # faults => faults' + crashes' <= MaxUpsets
  <2>1. MaxUpsets \in Nat
    BY ResidencyAssumption
  <2>2. faults \in Nat /\ crashes \in Nat /\ crashes' = crashes
    BY DEF RowShape
  <2>3. CASE faults' = faults
    BY <2>2, <2>3 DEF UpsetBudget
  <2>4. CASE faults' = faults + 1 /\ faults + crashes < MaxUpsets
    BY <2>1, <2>2, <2>4
  <2> QED BY <2>3, <2>4 DEF Written, NotWritten
<1> QED BY <1>2, <1>3, <1>5, <1>8, <1>9, <1>10, <1>11, <1>12

(* make_room_for evicts the least recently used resident.                  *)
LEMMA EvictStep == ASSUME ResidencyInv, Evict PROVE ResidencyInv'
<1> USE DEF ResidencyInv
<1> DEFINE victim == Head(lru)
<1>1. victim \in Held
  BY HeadTailProperties DEF Evict, TableShape, Lists
<1>2. \/ Written(victim, "evicted", residents[victim]) /\ op' = op
      \/ NotWritten(victim) /\ op' = Idle
  BY RecordCases DEF Evict
<1>3. op.pc = "room" /\ Drop(victim) /\ StopServer(residents[victim])
      /\ UNCHANGED <<limits, size, admittedUnder, failed, attempts, crashes, leaked>>
  BY DEF Evict, config
<1>4. op.job = "ensure" /\ op.todo = {}
  BY <1>3 DEF OpShape
<1> HIDE DEF victim
<1>5. op'.pc \in {"room", "idle"}
  BY <1>2, <1>3 DEF Idle
<1>6. /\ TableShape' /\ RowShape' /\ ProcessShape' /\ Known' /\ Truths' /\ RestartBudget'
      /\ Held' = Held \ {victim} /\ faults' + crashes' <= MaxUpsets + 1
  BY <1>1, <1>2, <1>3, <1>5, Removed
<1>7. CASE op' = op
  <2>1. OpShape' /\ KeyInHand' /\ UpsetBudget'
    BY <1>3, <1>4, <1>6, <1>7 DEF OpShape, KeyInHand, UpsetBudget
  <2>2. Wanted' \subseteq Wanted /\ (Admitting' => Admitting)
    BY <1>3, <1>6, <1>7 DEF Wanted, Admitting
  <2> QED BY <1>3, <1>6, <2>1, <2>2, StillFits
<1>8. CASE op' = Idle
  <2>1. OpShape' /\ KeyInHand' /\ Wanted' = Held' /\ ~ Admitting' /\ op'.job # "exit"
    BY <1>4, <1>8, GoesOn
  <2>2. Wanted' \subseteq Wanted /\ (Admitting' => Admitting)
    BY <1>6, <2>1 DEF Wanted, Admitting
  <2> QED BY <1>3, <1>6, <2>1, <2>2, StillFits DEF UpsetBudget
<1> QED BY <1>2, <1>7, <1>8

(* reconcile stops a disabled resident, or turns to the probes.            *)
LEMMA ReconcileStep == ASSUME ResidencyInv, Reconcile PROVE ResidencyInv'
<1> USE DEF ResidencyInv
<1>1. op.pc = "reconcile" /\ op.job = "tick" /\ op.todo \subseteq Held
  BY DEF Reconcile, OpShape
<1>2. CASE op.todo # {}
  <2> DEFINE k == Min(op.todo)
  <2>1. k \in op.todo /\ k \in Held
    <3>1. op.todo \in SUBSET Nat
      BY <1>1, ResidencyAssumption DEF Held
    <3> QED BY <1>1, <1>2, <3>1, MinOf
  <2>2. \/ Written(k, "stopped", residents[k]) /\ op' = [op EXCEPT !.todo = @ \ {k}]
        \/ NotWritten(k) /\ op' = Idle
    BY <1>2, RecordCases DEF Reconcile, StopOne
  <2>3. /\ Drop(k) /\ StopServer(residents[k])
        /\ UNCHANGED <<limits, size, admittedUnder, failed, attempts, crashes, leaked>>
    BY <1>2 DEF Reconcile, StopOne, config
  <2> HIDE DEF k
  <2>4. op'.pc \in {"reconcile", "idle"}
    BY <1>1, <2>2 DEF Idle, OpShape
  <2>5. /\ TableShape' /\ RowShape' /\ ProcessShape' /\ Known' /\ Truths' /\ RestartBudget'
        /\ Held' = Held \ {k} /\ faults' + crashes' <= MaxUpsets + 1
    BY <1>1, <2>1, <2>2, <2>3, <2>4, Removed
  <2>6. OpShape' /\ KeyInHand' /\ UpsetBudget' /\ Wanted' = Held' /\ ~ Admitting'
    <3>1. CASE op' = [op EXCEPT !.todo = @ \ {k}]
      BY <1>1, <2>5, <3>1 DEF OpShape, KeyInHand, UpsetBudget, Wanted, Admitting
    <3>2. CASE op' = Idle
      BY <2>5, <3>2 DEF OpShape, KeyInHand, UpsetBudget, Wanted, Admitting, Idle, Servers,
         NoServer, NoKey
    <3> QED BY <2>2, <3>1, <3>2
  <2>7. Wanted' \subseteq Wanted /\ (Admitting' => Admitting)
    BY <1>1, <2>5, <2>6 DEF Wanted, Admitting
  <2> QED BY <2>3, <2>5, <2>6, <2>7, StillFits
<1>3. CASE op.todo = {}
  <2>1. /\ op' = [op EXCEPT !.pc = "probe", !.todo = Held]
        /\ UNCHANGED <<limits, size, admittedUnder, residents, lru, failed, attempts, running, deaf, row,
                       faults, crashes, unsaid, leaked>>
    BY <1>3 DEF Reconcile, config, manager, processes
  <2>2. Held' = Held /\ Held \in SUBSET Keys
    BY <2>1 DEF Held
  <2>3. OpShape' /\ KeyInHand' /\ Known' /\ RestartBudget' /\ UpsetBudget' /\ Wanted' = Wanted /\ (Admitting' => Admitting)
    BY <1>1, <2>1, <2>2 DEF OpShape, KeyInHand, Known, RestartBudget, UpsetBudget, Wanted,
       Admitting
  <2>4. TableShape' /\ RowShape' /\ ProcessShape'
    BY <2>1, <2>2 DEF TableShape, RowShape, ProcessShape
  <2> QED BY <2>1, <2>3, <2>4, TruthKept, StillFits
<1> QED BY <1>2, <1>3

(* The process of the daemon ends and another one starts. *)
LEMMA RestartStep ==
  ASSUME ResidencyInv, Restart, faults + crashes <= MaxUpsets PROVE ResidencyInv'
<1> USE DEF ResidencyInv, NoResidents, NoFailures
<1>1. Held' = {} /\ NoServer \in Servers
  BY DEF Restart, Held, Servers, NoServer, NoKey
<1>2. Lists(<<>>, {})
  BY DEF Lists
<1>3. TableShape'
  BY <1>1, <1>2 DEF Restart, TableShape, config
<1>4. RowShape'
  BY DEF Restart, RowShape, Held
<1>5. NoServer \notin running
  BY DEF ProcessShape, NoServer
<1>6. ProcessShape'
  BY <1>5 DEF Restart, ProcessShape, processes
<1>7. OpShape' /\ KeyInHand' /\ Wanted' = {} /\ ~ Admitting'
  BY <1>1 DEF Restart, OpShape, KeyInHand, Wanted, Admitting, Idle, NoKey
<1>8. Known'
  BY DEF Restart, Known, processes
<1>9. Truths'
  <2> SUFFICES ASSUME NEW k \in Keys, k \notin unsaid' PROVE Truthful(k)'
      BY DEF Truths
  <2>1. k \notin unsaid /\ k \notin Held /\ k \notin Held' /\ k \notin failed' /\ row' = row
    BY <1>1 DEF Restart
  <2> QED BY <2>1 DEF Truths, Truthful
<1>10. RestartBudget' /\ UpsetBudget'
  BY <1>4, ResidencyAssumption DEF Restart, RestartBudget, UpsetBudget, RowShape, Idle
<1>11. UNCHANGED <<limits, size, admittedUnder>> /\ Wanted' \subseteq Wanted /\ ~ Admitting'
  BY <1>7 DEF Restart, config
<1> QED BY <1>3, <1>4, <1>6, <1>7, <1>8, <1>9, <1>10, <1>11, StillFits

(* stop_all stops a resident, or the daemon ends.                          *)
LEMMA ExitStep == ASSUME ResidencyInv, Exit PROVE ResidencyInv'
<1> USE DEF ResidencyInv
<1>1. op.pc = "exit" /\ op.job = "exit" /\ op.todo \subseteq Held
  BY DEF Exit, OpShape
<1>2. CASE op.todo # {}
  <2> DEFINE k == Min(op.todo)
  <2>1. k \in op.todo /\ k \in Held
    <3>1. op.todo \in SUBSET Nat
      BY <1>1, ResidencyAssumption DEF Held
    <3> QED BY <1>1, <1>2, <3>1, MinOf
  <2>2. \/ Written(k, "stopped", residents[k]) /\ op' = [op EXCEPT !.todo = @ \ {k}]
        \/ NotWritten(k) /\ op' = [op EXCEPT !.todo = {}]
    BY <1>2, RecordCases DEF Exit, StopOne
  <2>3. /\ Drop(k) /\ StopServer(residents[k])
        /\ UNCHANGED <<limits, size, admittedUnder, failed, attempts, crashes, leaked>>
    BY <1>2 DEF Exit, StopOne, config
  <2> HIDE DEF k
  <2>4. op'.pc = "exit"
    BY <1>1, <2>2 DEF OpShape
  <2>5. /\ TableShape' /\ RowShape' /\ ProcessShape' /\ Known' /\ Truths' /\ RestartBudget'
        /\ Held' = Held \ {k} /\ faults' + crashes' <= MaxUpsets + 1
        /\ faults' # faults => faults' + crashes' <= MaxUpsets
    BY <1>1, <2>1, <2>2, <2>3, <2>4, Removed
  <2>6. OpShape' /\ KeyInHand' /\ Wanted' = Held' /\ ~ Admitting'
    <3>1. PICK T : T \subseteq op.todo \ {k} /\ op' = [op EXCEPT !.todo = T]
      BY <2>2
    <3> QED BY <1>1, <2>5, <3>1 DEF OpShape, KeyInHand, Wanted, Admitting
  <2>7. Wanted' \subseteq Wanted /\ (Admitting' => Admitting)
    BY <1>1, <2>5, <2>6 DEF Wanted, Admitting
  <2>8. UpsetBudget'
    BY <1>1, <2>3, <2>5 DEF UpsetBudget
  <2> QED BY <2>3, <2>5, <2>6, <2>7, <2>8, StillFits
<1>3. CASE op.todo = {}
  BY <1>1, <1>3, RestartStep DEF Exit, UpsetBudget
<1> QED BY <1>2, <1>3

(* The daemon dies.                                                        *)
LEMMA CrashStep == ASSUME ResidencyInv, Crash PROVE ResidencyInv'
<1>1. faults + crashes <= MaxUpsets
  BY ResidencyAssumption DEF ResidencyInv, Crash, RowShape
<1> QED BY <1>1, RestartStep DEF Crash

(* Steps that leave the table, the rows and the processes alone. *)
LEMMA OnlyOp ==
  ASSUME ResidencyInv,
         UNCHANGED <<residents, lru, failed, attempts, running, deaf, row, faults, crashes,
                     unsaid, leaked>>,
         limits' \in Configs, admittedUnder' \in Configs, size' \in [Keys -> Nat]
  PROVE  TableShape' /\ RowShape' /\ ProcessShape' /\ Truths' /\ Held' = Held
<1>1. Held' = Held
  BY DEF Held
<1>2. TableShape' /\ RowShape' /\ ProcessShape'
  BY <1>1 DEF ResidencyInv, TableShape, RowShape, ProcessShape
<1> QED BY <1>1, <1>2, TruthKept DEF ResidencyInv

(* Room has been made: from here on the new key counts as wanted.          *)
LEMMA RoomMadeStep == ASSUME ResidencyInv, RoomMade PROVE ResidencyInv'
<1> USE DEF ResidencyInv
<1>1. /\ op.pc = "room" /\ op.job = "ensure" /\ op.todo = {} /\ ~ Breached(op.key)
      /\ op.key \in Keys /\ op.key \notin Held
  BY DEF RoomMade, OpShape, KeyInHand
<1>2. /\ admittedUnder' = limits
      /\ UNCHANGED <<limits, size, residents, lru, failed, attempts, running, deaf, row, faults,
                     crashes, unsaid, leaked>>
  BY DEF RoomMade, manager, processes
<1>3. TableShape' /\ RowShape' /\ ProcessShape' /\ Truths' /\ Held' = Held
  BY <1>2, OnlyOp DEF TableShape
<1>4. residents[op.key] = NoServer /\ NoServer \notin running
  BY <1>1 DEF Held, ProcessShape, NoServer
<1> DEFINE new == Fresh(op.key)
<1>5. /\ new.key = op.key /\ new.n \in Nat \ {0} /\ new = [key |-> op.key, n |-> new.n]
      /\ new \notin running /\ new # residents[op.key]
  <2>1. IsFiniteSet(running) /\ \A s \in running : s.n \in Nat
    BY DEF ProcessShape, Servers
  <2>2. residents[op.key].n \in Nat
    BY <1>1 DEF TableShape, Servers
  <2> QED BY <1>1, <2>1, <2>2, FreshIsNew
<1>6. op' = [pc |-> "start", job |-> "ensure", key |-> op.key, todo |-> {}, server |-> new]
  BY <1>1 DEF RoomMade, At, OpShape
<1> HIDE DEF new
<1>7. new \in Servers
  BY <1>1, <1>5 DEF Servers
<1>8. OpShape' /\ KeyInHand'
  BY <1>1, <1>2, <1>3, <1>4, <1>5, <1>6, <1>7 DEF OpShape, KeyInHand
<1>9. Known' /\ RestartBudget' /\ UpsetBudget'
  BY <1>1, <1>2, <1>6 DEF Known, RestartBudget, UpsetBudget
<1>10. Wanted' = Held \cup {op.key}
  BY <1>3, <1>6 DEF Wanted, Admitting
<1>11. Fit(Wanted, admittedUnder)' /\ Admitted'
  <2>1. Fit(Held \cup {op.key}, limits)
    BY <1>1, NotBreachedFits DEF TableShape
  <2> QED BY <1>2, <1>10, <2>1 DEF Fit, Admitted
<1> QED BY <1>3, <1>8, <1>9, <1>11

(* The new server runs, and nothing but the operation knows it.            *)
LEMMA StartServesStep == ASSUME ResidencyInv, StartServes PROVE ResidencyInv'
<1> USE DEF ResidencyInv
<1>1. /\ op.pc = "start" /\ op.job \in {"ensure", "tick"} /\ op.key \in Keys
      /\ op.server \in Servers /\ op.server.key = op.key /\ op.server.n # 0
      /\ op.server # residents[op.key] /\ op.server \notin running
  BY DEF StartServes, OpShape, KeyInHand
<1>2. /\ running' = running \cup {op.server} /\ op' = [op EXCEPT !.pc = "loaded"]
      /\ UNCHANGED <<limits, size, admittedUnder, residents, lru, failed, attempts, deaf, row, faults,
                     crashes, unsaid, leaked>>
  BY DEF StartServes, At, config, manager
<1>3. Held' = Held /\ op'.pc = "loaded"
  BY <1>2 DEF Held, OpShape
<1>4. TableShape' /\ RowShape'
  BY <1>2, <1>3 DEF TableShape, RowShape
<1>5. ProcessShape'
  <2>1. IsFiniteSet(running')
    BY <1>2, FS_AddElement DEF ProcessShape
  <2> QED BY <1>1, <1>2, <2>1 DEF ProcessShape
<1>6. OpShape' /\ KeyInHand' /\ RestartBudget' /\ UpsetBudget' /\ Wanted' = Wanted /\ (Admitting' => Admitting)
  BY <1>1, <1>2, <1>3 DEF OpShape, KeyInHand, ProcessShape, RestartBudget, UpsetBudget,
     Wanted, Admitting
<1>7. Known'
  BY <1>1, <1>2 DEF Known, OpShape
<1>8. Truths'
  <2>1. \A k \in Keys : residents[k] # op.server
    BY <1>1 DEF TableShape, Held, NoServer
  <2> QED BY <1>2, <1>3, <2>1 DEF Truths, Truthful
<1> QED BY <1>2, <1>4, <1>5, <1>6, <1>7, <1>8, StillFits

(* The restarts in force are among those that may be configured.           *)
LEMMA BudgetBounded ==
  ASSUME ResidencyInv PROVE limits.restarts \in Nat /\ limits.restarts <= MaxRestarts
BY ResidencyAssumption DEF ResidencyInv, TableShape

(* A start that failed is counted within the budget. *)
LEMMA Counted ==
  ASSUME ResidencyInv, CountFailure, op.pc \in {"start", "loaded"}, faults' \in Nat,
         faults' >= faults, failed' = failed, op'.pc = "health", op'.key = op.key
  PROVE  attempts' \in [Keys -> Nat] /\ RestartBudget'
<1>1. /\ op.key \in Keys /\ MaxRestarts \in Nat /\ faults \in Nat /\ attempts \in [Keys -> Nat]
      /\ op.job = "ensure" => op.key \notin failed
  BY ResidencyAssumption DEF ResidencyInv, KeyInHand, OpShape, RowShape
<1>2. attempts' \in [Keys -> Nat]
  BY <1>1 DEF CountFailure
<1> SUFFICES ASSUME NEW k \in Keys
             PROVE  /\ attempts'[k] <= MaxRestarts + 1 + faults'
                    /\ k \notin failed /\ k # op.key => attempts'[k] <= MaxRestarts + faults'
    BY <1>2 DEF RestartBudget
<1>3. CASE k # op.key
  BY <1>1, <1>3 DEF ResidencyInv, RestartBudget, CountFailure
<1>4. CASE k = op.key
  BY <1>1, <1>4 DEF ResidencyInv, RestartBudget, CountFailure
<1> QED BY <1>3, <1>4

(* The server cannot be started.                                           *)
LEMMA StartFailsStep == ASSUME ResidencyInv, StartFails PROVE ResidencyInv'
<1> USE DEF ResidencyInv
<1>1. /\ op.pc = "start" /\ op.job \in {"ensure", "tick"} /\ op.key \in Keys
  BY DEF StartFails, OpShape, KeyInHand
<1>2. /\ op' = [op EXCEPT !.pc = "health"] /\ CountFailure
      /\ UNCHANGED <<limits, size, admittedUnder, residents, lru, failed, running, deaf, row, faults,
                     crashes, unsaid, leaked>>
  BY DEF StartFails, At, config, processes
<1>3. Held' = Held /\ op'.pc = "health" /\ op'.key = op.key
  BY <1>2 DEF Held, OpShape
<1>4. attempts' \in [Keys -> Nat] /\ RestartBudget'
  BY <1>1, <1>2, <1>3, Counted DEF RowShape
<1>5. TableShape' /\ RowShape' /\ ProcessShape'
  BY <1>2, <1>3, <1>4 DEF TableShape, RowShape, ProcessShape
<1>6. OpShape' /\ KeyInHand' /\ UpsetBudget' /\ Known' /\ Wanted' \subseteq Wanted /\ (Admitting' => Admitting)
  BY <1>1, <1>2, <1>3 DEF OpShape, KeyInHand, UpsetBudget, Known, Wanted, Admitting
<1> QED BY <1>2, <1>4, <1>5, <1>6, TruthKept, StillFits

(* The loaded row is written, and the server is held. *)
LEMMA LoadedHeld ==
  ASSUME ResidencyInv, Loaded, Written(op.key, "loaded", op.server),
         op' = IF op.job = "tick" THEN [op EXCEPT !.pc = "restarted"] ELSE Idle
  PROVE  ResidencyInv'
<1> USE DEF ResidencyInv
<1> DEFINE new == op.server
<1>0. PICK k : k = op.key
  OBVIOUS
<1> USE <1>0
<1>1. /\ op.pc = "loaded" /\ op.job \in {"ensure", "tick"} /\ k \in Keys
      /\ new \in Servers /\ new.key = k /\ new.n # 0 /\ new \notin leaked
      /\ residents[k] \notin running /\ k \notin op.todo
  BY DEF Loaded, OpShape, KeyInHand
<1>2. /\ residents' = [residents EXCEPT ![k] = new] /\ Touch(k)
      /\ attempts' = IF op.job = "ensure" THEN [attempts EXCEPT ![k] = 0] ELSE attempts
      /\ UNCHANGED <<limits, size, admittedUnder, failed, running, deaf, faults, crashes, leaked>>
  BY DEF Loaded, Written, config, processes
<1>3. residents' \in [Keys -> Servers] /\ residents'[k] = new
      /\ \A j \in Keys : j # k => residents'[j] = residents[j]
  BY <1>1, <1>2 DEF TableShape
<1>4. Held' = Held \cup {k}
  BY <1>1, <1>3 DEF Held, NoServer
<1>5. k \notin failed
  BY <1>1 DEF KeyInHand, TableShape
<1>6. TableShape'
  <2>1. Lists(lru, Held)'
    BY <1>1, <1>2, <1>4, Touched
  <2> QED BY <1>1, <1>2, <1>3, <1>4, <1>5, <2>1 DEF TableShape
<1>7. RowShape'
  <2>1. "loaded" \in Events
    BY DEF Events
  <2>2. /\ unsaid' \subseteq Keys /\ row' \in [Keys -> [event : Events, server : Servers]]
        /\ faults' \in Nat
    BY <1>1, <2>1, RowsStay
  <2> QED BY <1>2, <2>2 DEF RowShape
<1>8. ProcessShape'
  BY <1>1, <1>2, <1>3 DEF ProcessShape
<1>9. OpShape' /\ KeyInHand' /\ Wanted' = Held' /\ ~ Admitting'
  <2>1. CASE op.job = "tick"
    BY <1>1, <1>2, <1>3, <1>4, <2>1 DEF OpShape, KeyInHand, Wanted, Admitting
  <2>2. CASE op.job = "ensure"
    <3>1. op' = Idle
      BY <2>2
    <3> QED BY <3>1, <1>4, GoesOn DEF OpShape
  <2> QED BY <1>1, <2>1, <2>2
<1>10. Known'
  <2> SUFFICES ASSUME NEW s \in running', s \notin leaked' PROVE s = residents'[s.key]
      BY DEF Known
  <2>1. s \in running /\ s.key \in Keys /\ (s = residents[s.key] \/ s = new)
    BY <1>2 DEF Known, ProcessShape
  <2> QED BY <2>1, <1>1, <1>3
<1>11. Truths'
  <2>1. Truthful(k)'
    <3>1. row'[k].event = "loaded" /\ row'[k].server = new
      BY <1>1 DEF Written, RowShape, Serving
    <3> QED BY <3>1, <1>2, <1>3, <1>4, <1>5 DEF Truthful, Serving
  <2>2. \A j \in Keys : j # k => row'[j] = row[j] /\ (j \in unsaid => j \in unsaid')
    BY DEF Written, RowShape
  <2> QED BY <2>1, <2>2, <1>2, <1>3, TruthElsewhere
<1>12. RestartBudget' /\ UpsetBudget'
  <2>1. MaxRestarts \in Nat /\ faults \in Nat /\ attempts \in [Keys -> Nat]
    BY ResidencyAssumption DEF RowShape
  <2>2. op'.pc \in {"restarted", "idle"} /\ op'.job # "exit"
    BY <1>1 DEF OpShape, Idle
  <2> QED BY <1>1, <1>2, <2>1, <2>2 DEF RestartBudget, UpsetBudget
<1>13. Wanted' \subseteq Wanted /\ (Admitting' => Admitting)
  BY <1>1, <1>4, <1>9 DEF Wanted, Admitting, KeyInHand
<1> QED BY <1>2, <1>6, <1>7, <1>8, <1>9, <1>10, <1>11, <1>12, <1>13, StillFits

(* The loaded row is refused, and the server leaks. *)
LEMMA LoadedLeaks ==
  ASSUME ResidencyInv, Loaded, NotWritten(op.key), op' = [op EXCEPT !.pc = "health"]
  PROVE  ResidencyInv'
<1> USE DEF ResidencyInv
<1> DEFINE k == op.key
<1>1. /\ op.pc = "loaded" /\ op.job \in {"ensure", "tick"} /\ k \in Keys /\ faults \in Nat
      /\ op.server # residents[k] /\ op.server.key = k /\ op.server.n # 0
  BY DEF Loaded, OpShape, KeyInHand, RowShape
<1>2. /\ CountFailure /\ leaked' = leaked \cup ({op.server} \cap running)
      /\ UNCHANGED <<limits, size, admittedUnder, residents, lru, failed, running, deaf, crashes>>
  BY <1>1 DEF Loaded, NotWritten, config, processes
<1>3. Held' = Held /\ op'.pc = "health" /\ op'.key = k
  BY <1>2 DEF Held, OpShape
<1>4. /\ faults' = faults + 1 /\ faults + crashes < MaxUpsets
      /\ row' = row /\ unsaid' = unsaid \cup {k}
  BY DEF NotWritten
<1>5. attempts' \in [Keys -> Nat] /\ RestartBudget'
  BY <1>1, <1>2, <1>3, <1>4, Counted
<1>6. TableShape' /\ RowShape'
  BY <1>1, <1>2, <1>3, <1>4, <1>5 DEF TableShape, RowShape
<1>7. ProcessShape'
  <2>1. \A j \in Keys : residents[j] # op.server
    BY <1>1 DEF TableShape, Held, NoServer
  <2> QED BY <1>2, <2>1 DEF ProcessShape
<1>8. OpShape' /\ KeyInHand' /\ Wanted' \subseteq Wanted /\ (Admitting' => Admitting)
  BY <1>1, <1>2, <1>3 DEF OpShape, KeyInHand, Wanted, Admitting
<1>9. Known'
  BY <1>1, <1>2 DEF Known
<1>10. UpsetBudget'
  BY <1>1, <1>2, <1>4, ResidencyAssumption DEF UpsetBudget, RowShape, OpShape
<1>11. Truths'
  BY <1>2, <1>4, TruthKept
<1> QED BY <1>2, <1>5, <1>6, <1>7, <1>8, <1>9, <1>10, <1>11, StillFits

(* The loaded row, with either outcome.                                    *)
LEMMA LoadedStep == ASSUME ResidencyInv, Loaded PROVE ResidencyInv'
<1>1. \/ /\ Written(op.key, "loaded", op.server)
         /\ op' = IF op.job = "tick" THEN [op EXCEPT !.pc = "restarted"] ELSE Idle
      \/ NotWritten(op.key) /\ op' = [op EXCEPT !.pc = "health"]
  BY RecordCases DEF Loaded, At
<1> QED BY <1>1, LoadedHeld, LoadedLeaks

(* The restarted row of a server that is held already.                     *)
LEMMA RestartedStep == ASSUME ResidencyInv, Restarted PROVE ResidencyInv'
<1> USE DEF ResidencyInv
<1>0. PICK k : k = op.key
  OBVIOUS
<1> USE <1>0
<1>1. /\ op.pc = "restarted" /\ op.job = "tick" /\ k \in Keys /\ k \in Held
      /\ op.server = residents[k] /\ op.server \in Servers /\ op.todo \subseteq Held
  BY DEF Restarted, OpShape, KeyInHand
<1>2. UNCHANGED <<limits, size, admittedUnder, residents, lru, failed, attempts, running, deaf, crashes, leaked>>
  BY DEF Restarted, config, manager, processes
<1>3. \/ Written(k, "restarted", op.server) /\ op' = Continue
      \/ NotWritten(k) /\ op' = Idle
  BY RecordCases DEF Restarted
<1>4. Held' = Held
  BY <1>2 DEF Held
<1>5. /\ OpShape' /\ KeyInHand' /\ Wanted' = Held' /\ ~ Admitting'
      /\ op'.pc \in {"idle", "probe"} /\ op'.job # "exit"
  BY <1>1, <1>3, <1>4, GoesOn
<1>6. "restarted" \in Events
  BY DEF Events
<1>7. /\ unsaid' \subseteq Keys /\ row' \in [Keys -> [event : Events, server : Servers]]
      /\ faults' \in Nat /\ faults' >= faults
  BY <1>1, <1>3, <1>6, RowsStay
<1>8. TableShape' /\ RowShape' /\ ProcessShape'
  BY <1>2, <1>4, <1>7 DEF TableShape, RowShape, ProcessShape
<1>9. Known'
  BY <1>1, <1>2 DEF Known
<1>10. Truths'
  <2>1. k \notin unsaid' => Truthful(k)'
    <3>1. k \notin unsaid' => row'[k].event = "restarted" /\ row'[k].server = op.server
      BY <1>1, <1>3 DEF Written, NotWritten, RowShape, Serving
    <3> QED BY <3>1, <1>1, <1>2, <1>4 DEF Truthful, Serving, TableShape
  <2>2. \A j \in Keys : j # k => row'[j] = row[j] /\ (j \in unsaid => j \in unsaid')
    BY <1>3 DEF Written, NotWritten, RowShape
  <2> QED BY <2>1, <2>2, <1>2, TruthElsewhere
<1>11. RestartBudget'
  <2>1. MaxRestarts \in Nat
    BY ResidencyAssumption
  <2> QED BY <2>1, <1>1, <1>2, <1>5, <1>7 DEF RestartBudget, RowShape
<1>12. UpsetBudget'
  <2>1. MaxUpsets \in Nat /\ faults \in Nat /\ crashes \in Nat
    BY ResidencyAssumption DEF RowShape
  <2> QED BY <2>1, <1>2, <1>3, <1>5 DEF UpsetBudget, Written, NotWritten
<1>13. Wanted' \subseteq Wanted /\ (Admitting' => Admitting)
  BY <1>1, <1>4, <1>5 DEF Wanted, Admitting
<1> QED BY <1>2, <1>5, <1>8, <1>9, <1>10, <1>11, <1>12, <1>13, StillFits

(* The failed row, after which the key is refused.                         *)
LEMMA FailedRowStep == ASSUME ResidencyInv, FailedRow PROVE ResidencyInv'
<1> USE DEF ResidencyInv
<1>0. PICK k : k = op.key
  OBVIOUS
<1> USE <1>0
<1>1. /\ op.pc = "failed" /\ op.job \in {"ensure", "tick"} /\ k \in Keys /\ k \notin Held
      /\ op.server \in Servers /\ op.todo \subseteq Held
  BY DEF FailedRow, OpShape, KeyInHand
<1>2. UNCHANGED <<limits, size, admittedUnder, residents, lru, attempts, running, deaf, crashes, leaked>>
  BY DEF FailedRow, config, processes
<1>3. \/ Written(k, "failed", op.server) /\ op' = Continue
      \/ NotWritten(k) /\ op' = Idle
  BY RecordCases DEF FailedRow
<1>4. Held' = Held
  BY <1>2 DEF Held
<1>5. /\ OpShape' /\ KeyInHand' /\ Wanted' = Held' /\ ~ Admitting'
      /\ op'.pc \in {"idle", "probe"} /\ op'.job # "exit"
  BY <1>1, <1>3, <1>4, GoesOn
<1>6. "failed" \in Events
  BY DEF Events
<1>7. /\ unsaid' \subseteq Keys /\ row' \in [Keys -> [event : Events, server : Servers]]
      /\ faults' \in Nat /\ faults' >= faults
  BY <1>1, <1>3, <1>6, RowsStay
<1>8. failed' = IF faults' = faults THEN failed \cup {k} ELSE failed
  BY DEF FailedRow
<1>9. TableShape' /\ RowShape' /\ ProcessShape'
  BY <1>1, <1>2, <1>4, <1>7, <1>8 DEF TableShape, RowShape, ProcessShape
<1>10. Known'
  BY <1>1, <1>2 DEF Known
<1>11. Truths'
  <2>1. k \notin unsaid' => Truthful(k)'
    <3>1. k \notin unsaid' => row'[k].event = "failed"
      BY <1>1, <1>3 DEF Written, NotWritten, RowShape
    <3> QED BY <3>1, <1>1, <1>4 DEF Truthful, Serving
  <2>2. \A j \in Keys : j # k => row'[j] = row[j] /\ (j \in unsaid => j \in unsaid')
    BY <1>3 DEF Written, NotWritten, RowShape
  <2> QED BY <2>1, <2>2, <1>2, <1>8, TruthElsewhere
<1>12. RestartBudget'
  <2>1. MaxRestarts \in Nat /\ faults \in Nat /\ attempts \in [Keys -> Nat]
    BY ResidencyAssumption DEF RowShape
  <2>2. CASE faults' = faults
    BY <2>1, <2>2, <1>1, <1>2, <1>8 DEF RestartBudget
  <2>3. CASE faults' = faults + 1
    BY <2>1, <2>3, <1>2, <1>8 DEF RestartBudget
  <2> QED BY <2>2, <2>3, <1>3 DEF Written, NotWritten
<1>13. UpsetBudget'
  <2>1. MaxUpsets \in Nat /\ faults \in Nat /\ crashes \in Nat
    BY ResidencyAssumption DEF RowShape
  <2> QED BY <2>1, <1>2, <1>3, <1>5 DEF UpsetBudget, Written, NotWritten
<1>14. Wanted' \subseteq Wanted /\ (Admitting' => Admitting)
  BY <1>1, <1>4, <1>5 DEF Wanted, Admitting
<1> QED BY <1>2, <1>5, <1>9, <1>10, <1>11, <1>12, <1>13, <1>14, StillFits

(* The health-failed row of a start that failed.                           *)
LEMMA StartFailureRowStep == ASSUME ResidencyInv, StartFailureRow PROVE ResidencyInv'
<1> USE DEF ResidencyInv
<1>0. PICK k : k = op.key
  OBVIOUS
<1> USE <1>0
<1>1. /\ op.pc = "health" /\ op.job \in {"ensure", "tick"} /\ k \in Keys
      /\ op.server \in Servers /\ op.todo \subseteq Held /\ k \notin op.todo
      /\ residents[k] \notin running /\ k \notin failed
  BY DEF StartFailureRow, OpShape, KeyInHand, TableShape
<1>2. /\ UNCHANGED <<limits, size, admittedUnder, failed, attempts, running, deaf, crashes, leaked>>
      /\ IF op.job = "tick" /\ Exhausted /\ faults' = faults
         THEN Drop(k) ELSE UNCHANGED <<residents, lru>>
  BY DEF StartFailureRow, config, processes
<1>3. \/ /\ Written(k, "health-failed", op.server)
         /\ op' = IF Exhausted THEN [op EXCEPT !.pc = "failed"] ELSE Continue
      \/ NotWritten(k) /\ op' = Idle
  BY RecordCases DEF StartFailureRow, At
<1>4. MaxRestarts \in Nat /\ MaxUpsets \in Nat /\ faults \in Nat /\ crashes \in Nat
      /\ attempts \in [Keys -> Nat]
  BY ResidencyAssumption DEF RowShape
<1>5. \/ faults' = faults /\ Written(k, "health-failed", op.server)
      \/ faults' = faults + 1 /\ NotWritten(k)
  BY <1>3 DEF Written, NotWritten
(* The table: the resident is dropped or left as it is. *)
<1>6. /\ residents' \in [Keys -> Servers] /\ residents'[k] \in {NoServer, residents[k]}
      /\ \A j \in Keys : j # k => residents'[j] = residents[j]
      /\ Held' \subseteq Held /\ Held \subseteq Held' \cup {k}
      /\ \A j \in Held' : residents'[j].key = j /\ residents'[j].n # 0
      /\ Lists(lru, Held)'
  <2>1. CASE Drop(k)
    BY <1>1, <2>1, Dropped
  <2>2. CASE UNCHANGED <<residents, lru>>
    BY <2>2, <1>1 DEF TableShape, Held
  <2> QED BY <1>2, <2>1, <2>2
<1>7. Exhausted /\ faults' = faults => k \notin Held'
  <2>1. CASE op.job = "ensure"
    BY <1>6, <2>1 DEF KeyInHand
  <2>2. CASE op.job = "tick"
    BY <1>1, <1>2, <2>2, Dropped
  <2> QED BY <1>1, <2>1, <2>2
<1>8. "health-failed" \in Events
  BY DEF Events
<1>9. /\ unsaid' \subseteq Keys /\ row' \in [Keys -> [event : Events, server : Servers]]
      /\ faults' \in Nat /\ faults' >= faults
  BY <1>1, <1>5, <1>8, RowsStay
<1>10. TableShape' /\ RowShape'
  BY <1>2, <1>6, <1>9 DEF TableShape, RowShape
<1>11. NoServer \notin running /\ residents'[k] \notin running
  BY <1>1, <1>6 DEF ProcessShape, NoServer
<1>12. ProcessShape'
  BY <1>2, <1>6, <1>11 DEF ProcessShape
<1>13. Known'
  <2> SUFFICES ASSUME NEW s \in running', s \notin leaked' PROVE s = residents'[s.key]
      BY DEF Known
  <2>1. s \in running /\ s.key \in Keys /\ s = residents[s.key]
    BY <1>1, <1>2 DEF Known, ProcessShape
  <2> QED BY <2>1, <1>1, <1>6
<1>14. Truths'
  <2>1. k \notin unsaid' => Truthful(k)'
    <3>1. k \notin unsaid' => row'[k].event = "health-failed"
      BY <1>1, <1>5 DEF Written, NotWritten, RowShape
    <3> QED BY <3>1, <1>1, <1>2, <1>11 DEF Truthful, Serving
  <2>2. \A j \in Keys : j # k => row'[j] = row[j] /\ (j \in unsaid => j \in unsaid')
    BY <1>5 DEF Written, NotWritten, RowShape
  <2> QED BY <2>1, <2>2, <1>2, <1>6, TruthElsewhere
(* The operation gives the key up, or is done with it. *)
<1>15. CASE faults' = faults /\ Exhausted
  <2>1. op' = [op EXCEPT !.pc = "failed"]
    BY <1>3, <1>4, <1>15 DEF NotWritten
  <2>2. op'.pc = "failed" /\ op'.key = k /\ op'.job = op.job /\ op'.todo = op.todo
    BY <2>1 DEF OpShape
  <2>3. op'.todo \subseteq Held' /\ k \notin Held'
    BY <1>1, <1>6, <1>7, <1>15, <2>2
  <2>4. OpShape'
    BY <1>1, <2>1, <2>2, <2>3 DEF OpShape
  <2>5. KeyInHand'
    BY <1>1, <1>2, <1>6, <2>2, <2>3 DEF KeyInHand
  <2>6. RestartBudget' /\ UpsetBudget' /\ Wanted' \subseteq Wanted /\ (Admitting' => Admitting)
    BY <1>1, <1>2, <1>4, <1>6, <1>15, <2>2 DEF RestartBudget, UpsetBudget, Wanted, Admitting
  <2> QED BY <1>2, <1>10, <1>12, <1>13, <1>14, <2>4, <2>5, <2>6, StillFits
<1>16. CASE faults' = faults + 1 \/ ~ Exhausted
  <2>1. op' = Idle \/ op' = Continue
    BY <1>3, <1>4, <1>16 DEF Written
  <2>2. /\ OpShape' /\ KeyInHand' /\ Wanted' = Held' /\ ~ Admitting'
        /\ op'.pc \in {"idle", "probe"} /\ op'.job # "exit"
    <3>1. op.todo \subseteq Held'
      BY <1>1, <1>6
    <3> QED BY <2>1, <3>1, GoesOn
  <2>3. Wanted' \subseteq Wanted /\ (Admitting' => Admitting)
    BY <1>1, <1>6, <2>2 DEF Wanted, Admitting
  <2>4. UpsetBudget'
    BY <1>2, <1>4, <1>5, <2>2 DEF UpsetBudget, NotWritten
  <2>5. RestartBudget'
    <3>1. CASE faults' = faults + 1
      BY <1>2, <1>4, <3>1 DEF RestartBudget
    <3>2. CASE faults' = faults /\ ~ Exhausted
      <4>1. attempts[k] <= MaxRestarts
        BY <1>1, <1>4, <3>2, BudgetBounded DEF Exhausted
      <4> QED BY <1>1, <1>2, <1>4, <3>2, <4>1 DEF RestartBudget
    <3> QED BY <1>5, <1>16, <3>1, <3>2
  <2> QED BY <1>2, <1>10, <1>12, <1>13, <1>14, <2>2, <2>3, <2>4, <2>5, StillFits
<1> QED BY <1>5, <1>15, <1>16

(* The processes that are not leaked belong to different keys, all of them *)
(* wanted, so that they fit where the keys do.                             *)
LEMMA OursFit == ResidencyInv => WithinCeilings
<1> SUFFICES ASSUME ResidencyInv PROVE WithinCeilings
    OBVIOUS
<1> USE DEF ResidencyInv
<1> DEFINE ours == running \ leaked
           key == [s \in ours |-> s.key]
           f == [s \in ours |-> size[s.key]]
           K == {key[s] : s \in ours}
<1>1. IsFiniteSet(ours) /\ \A s \in ours : s.key \in Keys /\ s.n # 0
  <2>1. IsFiniteSet(ours)
    BY FS_Subset DEF ProcessShape
  <2> QED BY <2>1 DEF ProcessShape
<1>2. ASSUME NEW s \in ours PROVE s.key \in Wanted
  <2>1. CASE s = residents[s.key]
    BY <1>1, <2>1 DEF Held, Wanted, Admitting, NoServer
  <2>2. CASE op.pc = "loaded" /\ s = op.server
    BY <2>2, <1>1 DEF OpShape, KeyInHand, Wanted, Admitting
  <2> QED BY <2>1, <2>2 DEF Known
<1>3. ASSUME NEW s \in ours, NEW t \in ours, s.key = t.key PROVE s = t
  <2>1. s \in running /\ t \in running
    OBVIOUS
  <2>2. CASE s = residents[s.key] /\ t = residents[t.key]
    BY <1>3, <2>2
  <2>3. CASE op.pc = "loaded" /\ (s = op.server \/ t = op.server)
    BY <1>3, <2>1, <2>3 DEF KeyInHand, Known
  <2> QED BY <2>2, <2>3 DEF Known
<1>4. K \in SUBSET Wanted /\ Wanted \in SUBSET Keys
  <2>1. K \in SUBSET Wanted
    BY <1>2
  <2>2. Wanted \in SUBSET Keys
    BY DEF Wanted, Admitting, Held, KeyInHand
  <2> QED BY <2>1, <2>2
<1>5. /\ admittedUnder \in Configs /\ admittedUnder.count \in Nat /\ admittedUnder.memory \in Nat
      /\ size \in [Keys -> Nat]
  BY ResidencyAssumption DEF TableShape
<1>6. Fit(K, admittedUnder)
  <2> HIDE DEF K
  <2> QED BY <1>4, <1>5, FitShrinks
<1>7. Cardinality(ours) <= Cardinality(K) /\ Cardinality(K) \in Nat /\ Cardinality(ours) \in Nat
  <2>1. key \in Injection(ours, K)
    BY <1>3 DEF Injection, IsInjective
  <2>2. IsFiniteSet(K)
    <3>1. IsFiniteSet(Keys) /\ K \in SUBSET Keys
      BY <1>4, ResidencyAssumption
    <3> HIDE DEF K
    <3> QED BY <3>1, FS_Subset
  <2> HIDE DEF key, K, ours
  <2> QED BY <1>1, <2>1, <2>2, FS_Injection, FS_CardinalityType
<1>8. PICK g \in Sums(f, ours) : MapThenSumSet(LAMBDA s : size[s.key], ours) = g[ours]
  <2> HIDE DEF ours
  <2> QED BY <1>1, <1>5, ServerSum
<1>9. PICK h \in Sums(size, Keys) : Footprint(size, K) = h[K]
  <2>1. K \in SUBSET Keys
    BY <1>4
  <2> HIDE DEF K
  <2> QED BY <1>5, <2>1, FootprintSum
<1>10. g[ours] = h[K]
  <2>1. IsFiniteSet(Keys) /\ size \in [Keys -> Nat] /\ size \in [Keys -> Int]
    BY <1>5, ResidencyAssumption
  <2>2. /\ key \in [ours -> Keys] /\ f \in [ours -> Int]
        /\ \A s \in ours : f[s] = size[key[s]]
    BY <1>1, <2>1
  <2>3. \A s, t \in ours : key[s] = key[t] => s = t
    BY <1>3
  <2> HIDE DEF ours, key, f
  <2> QED BY <1>1, <2>1, <2>2, <2>3, SumOfImage
<1>11. h[K] \in Int
  BY <1>4 DEF Sums
<1> HIDE DEF ours, K
<1>12. /\ Cardinality(ours) <= admittedUnder.count
       /\ MapThenSumSet(LAMBDA s : size[s.key], ours) <= admittedUnder.memory
  BY <1>5, <1>6, <1>7, <1>8, <1>9, <1>10, <1>11 DEF Fit
<1> QED BY <1>12 DEF WithinCeilings, ours, Admitted, Admitting

(* A server that runs is held, being started, or leaked.                   *)
LEMMA KnownServers == ResidencyInv => NoServerForgotten
<1> SUFFICES ASSUME ResidencyInv, NEW s \in running
             PROVE  s \in {residents[k] : k \in Keys} \cup {op.server} \cup leaked
    BY DEF NoServerForgotten
<1>1. s.key \in Keys
  BY DEF ResidencyInv, ProcessShape
<1> QED BY <1>1 DEF ResidencyInv, Known

(* The rows tell the truth all the time, so they do between operations.    *)
LEMMA TruthAtRest == ResidencyInv => TableTellsTheTruth
BY DEF ResidencyInv, Truths, Truthful, TableTellsTheTruth

(* A health check goes on with the key k, to give it up or to restart it.  *)
LEMMA GoesOnWith ==
  ASSUME NEW pc \in {"failed", "start"}, NEW k \in Keys, NEW todo \in SUBSET Keys,
         NEW server \in Servers, todo \subseteq Held', k \notin todo,
         op' = [pc |-> pc, job |-> "tick", key |-> k, todo |-> todo, server |-> server],
         pc = "failed" => k \notin Held',
         pc = "start" => /\ k \in Held' /\ server.key = k /\ server.n # 0
                         /\ server # residents'[k] /\ residents'[k] \notin running'
                         /\ server \notin running'
  PROVE  OpShape' /\ KeyInHand'
<1>1. OpShape'
  BY DEF OpShape
<1> QED BY <1>1 DEF KeyInHand

(* The probe failed and its row was written: the server is stopped, and    *)
(* its key given up or its replacement about to start.                     *)
LEMMA ProbeFailed ==
  ASSUME ResidencyInv, op.pc = "probe", NEW k \in op.todo, RestartOrFail(k),
         Written(k, "health-failed", residents[k]),
         op' = [op EXCEPT !.pc = IF GivenUp(k) THEN "failed" ELSE "start",
                          !.key = k,
                          !.todo = @ \ {k},
                          !.server = IF GivenUp(k) THEN residents[k] ELSE Fresh(k)],
         UNCHANGED <<limits, size, admittedUnder, failed, crashes, leaked>>
  PROVE  ResidencyInv'
<1> USE DEF ResidencyInv
<1>1. /\ op.job = "tick" /\ k \in Keys /\ k \in Held /\ op.todo \subseteq Held
      /\ residents[k] \in Servers /\ k \notin failed /\ residents[k] \notin leaked
      /\ residents[k].key = k /\ residents[k].n # 0
  BY DEF OpShape, TableShape, ProcessShape, Held
<1>2. /\ running' = running \ {residents[k]} /\ deaf' = deaf \ {residents[k]}
      /\ IF GivenUp(k) THEN Drop(k) /\ UNCHANGED attempts
         ELSE attempts' = [attempts EXCEPT ![k] = @ + 1] /\ UNCHANGED <<residents, lru>>
  BY DEF RestartOrFail, Written, StopServer
<1>3. MaxRestarts \in Nat /\ MaxUpsets \in Nat /\ faults \in Nat /\ crashes \in Nat
      /\ attempts \in [Keys -> Nat] /\ faults' = faults
  BY ResidencyAssumption DEF RowShape, Written
<1>4. /\ residents' \in [Keys -> Servers] /\ residents'[k] \in {NoServer, residents[k]}
      /\ \A j \in Keys : j # k => residents'[j] = residents[j]
      /\ Held' = IF GivenUp(k) THEN Held \ {k} ELSE Held
      /\ \A j \in Held' : residents'[j].key = j /\ residents'[j].n # 0
      /\ Lists(lru, Held)'
  <2>1. CASE GivenUp(k)
    BY <1>1, <1>2, <2>1, Dropped
  <2>2. CASE ~ GivenUp(k)
    BY <1>2, <2>2 DEF TableShape, Held
  <2> QED BY <2>1, <2>2
<1>5. TableShape'
  BY <1>4 DEF TableShape
<1>6. RowShape'
  <2>1. "health-failed" \in Events
    BY DEF Events
  <2>2. /\ unsaid' \subseteq Keys /\ row' \in [Keys -> [event : Events, server : Servers]]
    BY <1>1, <2>1, RowsStay
  <2>3. attempts' \in [Keys -> Nat]
    BY <1>1, <1>2, <1>3
  <2> QED BY <1>3, <2>2, <2>3 DEF RowShape
<1>7. NoServer \notin running /\ residents'[k] \notin running'
  BY <1>2, <1>4 DEF ProcessShape, NoServer
<1>8. ProcessShape'
  <2>1. \A j \in Keys : residents'[j] \notin leaked'
    BY <1>4, <1>7 DEF ProcessShape
  <2>2. deaf' \subseteq running' /\ leaked' \subseteq running'
    BY <1>1, <1>2 DEF ProcessShape
  <2> QED BY <1>2, <2>1, <2>2, Stopped
<1>9. Known'
  <2> SUFFICES ASSUME NEW s \in running', s \notin leaked' PROVE s = residents'[s.key]
      BY DEF Known
  <2>1. s \in running /\ s.key \in Keys /\ s = residents[s.key] /\ s # residents[k]
    BY <1>2 DEF Known, ProcessShape
  <2> QED BY <2>1, <1>4
<1>10. Truths'
  <2>1. Truthful(k)'
    <3>1. row'[k].event = "health-failed"
      BY <1>1 DEF Written, RowShape
    <3> QED BY <3>1, <1>1, <1>7 DEF Truthful, Serving
  <2>2. \A j \in Keys : j # k => row'[j] = row[j] /\ (j \in unsaid => j \in unsaid')
    BY DEF Written, RowShape
  <2> QED BY <2>1, <2>2, <1>2, <1>4, TruthElsewhere
<1>11. UpsetBudget'
  BY <1>1, <1>3 DEF UpsetBudget, OpShape
<1>12. CASE GivenUp(k)
  <2>1. op' = [pc |-> "failed", job |-> "tick", key |-> k, todo |-> op.todo \ {k},
               server |-> residents[k]]
    BY <1>1, <1>12 DEF OpShape
  <2>2. Held' = Held \ {k}
    BY <1>4, <1>12
  <2>3. OpShape' /\ KeyInHand'
    <3>1. op.todo \ {k} \in SUBSET Keys /\ op.todo \ {k} \subseteq Held'
      BY <1>1, <2>2 DEF OpShape
    <3>2. PICK T, s : T = op.todo \ {k} /\ s = residents[k]
      OBVIOUS
    <3>3. /\ T \in SUBSET Keys /\ s \in Servers /\ T \subseteq Held' /\ k \notin T
          /\ op' = [pc |-> "failed", job |-> "tick", key |-> k, todo |-> T, server |-> s]
          /\ k \notin Held' /\ k \in Keys
      BY <1>1, <2>1, <2>2, <3>1, <3>2
    <3> QED BY <3>3, GoesOnWith
  <2>4. RestartBudget' /\ Wanted' \subseteq Wanted /\ (Admitting' => Admitting)
    BY <1>1, <1>2, <1>3, <1>12, <2>1, <2>2 DEF RestartBudget, Wanted, Admitting
  <2> QED BY <1>5, <1>6, <1>8, <1>9, <1>10, <1>11, <2>3, <2>4, StillFits
<1>13. CASE ~ GivenUp(k)
  <2> DEFINE new == Fresh(k)
  <2>1. /\ new.key = k /\ new.n \in Nat \ {0} /\ new = [key |-> k, n |-> new.n]
        /\ new \notin running /\ new # residents[k]
    <3>1. IsFiniteSet(running) /\ \A s \in running : s.n \in Nat
      BY DEF ProcessShape, Servers
    <3>2. residents[k].n \in Nat
      BY <1>1 DEF Servers
    <3> QED BY <1>1, <3>1, <3>2, FreshIsNew
  <2>2. op' = [pc |-> "start", job |-> "tick", key |-> k, todo |-> op.todo \ {k}, server |-> new]
    BY <1>1, <1>13 DEF OpShape
  <2> HIDE DEF new
  <2>3. new \in Servers
    BY <1>1, <2>1 DEF Servers
  <2>4. Held' = Held /\ residents' = residents
    BY <1>2, <1>4, <1>13
  <2>5. OpShape' /\ KeyInHand'
    <3>1. op.todo \ {k} \in SUBSET Keys /\ op.todo \ {k} \subseteq Held'
      BY <1>1, <2>4 DEF OpShape
    <3>2. new \notin running'
      BY <1>2, <2>1
    <3>3. PICK T, s : T = op.todo \ {k} /\ s = new
      OBVIOUS
    <3>4. /\ T \in SUBSET Keys /\ s \in Servers /\ T \subseteq Held' /\ k \notin T
          /\ op' = [pc |-> "start", job |-> "tick", key |-> k, todo |-> T, server |-> s]
          /\ k \in Held' /\ k \in Keys /\ s.key = k /\ s.n # 0
          /\ s # residents'[k] /\ residents'[k] \notin running' /\ s \notin running'
      BY <1>1, <1>7, <2>1, <2>2, <2>3, <2>4, <3>1, <3>2, <3>3
    <3> QED BY <3>4, GoesOnWith
  <2>6. RestartBudget'
    <3>1. attempts[k] < MaxRestarts
      BY <1>1, <1>3, <1>13, BudgetBounded DEF GivenUp
    <3> QED BY <1>1, <1>2, <1>3, <1>13, <2>2, <3>1 DEF RestartBudget
  <2>7. Wanted' \subseteq Wanted /\ (Admitting' => Admitting)
    BY <1>1, <2>2, <2>4 DEF Wanted, Admitting
  <2> QED BY <1>5, <1>6, <1>8, <1>9, <1>10, <1>11, <2>5, <2>6, <2>7, StillFits
<1> QED BY <1>12, <1>13

(* health_tick probes one resident of its list.                            *)
LEMMA ProbeStep == ASSUME ResidencyInv, Probe PROVE ResidencyInv'
<1> USE DEF ResidencyInv
<1>1. /\ op.pc = "probe" /\ op.job = "tick" /\ op.todo \subseteq Held
      /\ UNCHANGED <<limits, size, admittedUnder, crashes, leaked>>
  BY DEF Probe, OpShape, config
<1>2. MaxRestarts \in Nat /\ MaxUpsets \in Nat /\ faults \in Nat /\ crashes \in Nat
      /\ attempts \in [Keys -> Nat]
  BY ResidencyAssumption DEF RowShape
<1>3. ASSUME NEW T \in SUBSET op.todo, op' = Idle \/ op' = [op EXCEPT !.todo = T],
             UNCHANGED <<residents, lru, failed, attempts, running, deaf, row, faults, unsaid>>
      PROVE  ResidencyInv'
  <2>1. TableShape' /\ RowShape' /\ ProcessShape' /\ Truths' /\ Held' = Held
    BY <1>1, <1>3, OnlyOp DEF TableShape
  <2>2. NoServer \in Servers /\ NoKey \in Keys \cup {NoKey}
    BY DEF NoServer, Servers, NoKey
  <2>3. /\ OpShape' /\ KeyInHand' /\ Wanted' = Wanted /\ (Admitting' => Admitting)
        /\ op'.job # "exit" /\ op'.pc \in {"idle", "probe"}
    BY <1>1, <1>3, <2>1, <2>2 DEF OpShape, KeyInHand, Wanted, Admitting, Idle
  <2>4. Known' /\ RestartBudget' /\ UpsetBudget'
    BY <1>1, <1>3, <2>3 DEF Known, RestartBudget, UpsetBudget
  <2> QED BY <1>1, <2>1, <2>3, <2>4, StillFits
<1>4. CASE op.todo = {}
  BY <1>3, <1>4 DEF Probe, manager, processes
<1>5. CASE op.todo # {}
  <2>0. PICK k : k = Min(op.todo)
    OBVIOUS
  <2>1. k \in op.todo /\ k \in Held /\ k \in Keys
    <3>1. op.todo \in SUBSET Nat
      BY <1>1, ResidencyAssumption DEF Held
    <3> QED BY <1>1, <1>5, <2>0, <3>1, MinOf DEF Held
  <2>2. CASE Healthy(k)
    BY <1>3, <1>5, <2>0, <2>2 DEF Probe, manager, processes
  <2>3. CASE ~ Healthy(k)
    <3>1. RestartOrFail(k) /\ UNCHANGED failed
      BY <1>5, <2>0, <2>3 DEF Probe
    <3>2. \/ /\ Written(k, "health-failed", residents[k])
             /\ op' = [op EXCEPT !.pc = IF GivenUp(k) THEN "failed" ELSE "start",
                                 !.key = k,
                                 !.todo = @ \ {k},
                                 !.server = IF GivenUp(k) THEN residents[k] ELSE Fresh(k)]
          \/ NotWritten(k) /\ op' = Idle
      BY <3>1, RecordCases DEF RestartOrFail, ProbeFailureRow
    <3>3. CASE NotWritten(k) /\ op' = Idle
      <4>1. UNCHANGED <<residents, lru, attempts, running, deaf>>
        BY <1>2, <3>1, <3>3 DEF RestartOrFail, NotWritten
      <4>2. Held' = Held
        BY <4>1 DEF Held
      <4>3. /\ OpShape' /\ KeyInHand' /\ Wanted' = Held' /\ ~ Admitting'
            /\ op'.pc \in {"idle", "probe"} /\ op'.job # "exit"
        BY <1>1, <3>3, <4>2, GoesOn
      <4>4. TableShape' /\ RowShape' /\ ProcessShape'
        BY <1>1, <2>1, <3>1, <3>3, <4>1, <4>2 DEF TableShape, RowShape, ProcessShape, NotWritten
      <4>5. Known' /\ Wanted' \subseteq Wanted /\ (Admitting' => Admitting)
        BY <1>1, <4>1, <4>2, <4>3 DEF Known, Wanted, Admitting
      <4>6. RestartBudget' /\ UpsetBudget'
        BY <1>1, <1>2, <3>1, <3>3, <4>1, <4>3 DEF RestartBudget, UpsetBudget, NotWritten
      <4>7. Truths'
        BY <3>1, <3>3, <4>1, TruthKept DEF NotWritten
      <4> QED BY <1>1, <4>3, <4>4, <4>5, <4>6, <4>7, StillFits
    <3> QED BY <1>1, <2>1, <3>1, <3>2, <3>3, ProbeFailed
  <2> QED BY <2>2, <2>3
<1> QED BY <1>4, <1>5

(* Operations begin. *)
LEMMA BeginStep ==
  ASSUME ResidencyInv, HealthTick \/ Shutdown \/ \E k \in Keys : Ensure(k)
  PROVE  ResidencyInv'
<1> USE DEF ResidencyInv
<1>1. /\ op = Idle /\ size' \in [Keys -> Nat] /\ \A k \in Held : size'[k] = size[k]
      /\ UNCHANGED <<limits, admittedUnder, residents, lru, failed, attempts, running, deaf, row,
                     faults, crashes, unsaid, leaked>>
  <2>1. size \in [Keys -> Nat] /\ \A k \in Keys : limits.size[k] \in Nat
    BY ResidencyAssumption DEF TableShape
  <2> QED BY <2>1 DEF HealthTick, Shutdown, Ensure, Admissible, Held, config, manager, processes
<1>2. TableShape' /\ RowShape' /\ ProcessShape' /\ Truths' /\ Held' = Held
  BY <1>1, OnlyOp DEF TableShape
<1>3. NoServer \in Servers /\ NoKey \in Keys \cup {NoKey} /\ Held \in SUBSET Keys
  BY DEF NoServer, Servers, NoKey, Held
<1>4. ASSUME NEW pc \in {"reconcile", "exit", "room"}, NEW job, NEW key, NEW todo \in SUBSET Held,
             op' = [pc |-> pc, job |-> job, key |-> key, todo |-> todo, server |-> NoServer],
             \/ pc = "reconcile" /\ job = "tick" /\ key = NoKey
             \/ pc = "exit" /\ job = "exit" /\ key = NoKey /\ faults + crashes < MaxUpsets
             \/ /\ pc = "room" /\ job = "ensure" /\ key \in Keys \ (Held \cup failed)
                /\ todo = {}
      PROVE  ResidencyInv'
  <2>1. OpShape' /\ KeyInHand' /\ Wanted' = Held' /\ ~ Admitting'
    BY <1>1, <1>2, <1>3, <1>4 DEF OpShape, KeyInHand, Wanted, Admitting
  <2>2. Known' /\ RestartBudget'
    BY <1>1, <1>4 DEF Known, RestartBudget, Idle
  <2>3. UpsetBudget'
    BY <1>1, <1>4, ResidencyAssumption DEF UpsetBudget, RowShape
  <2>4. Fit(Held, admittedUnder)
    BY <1>1 DEF Wanted, Admitting, Idle
  <2>5. Fit(Wanted, admittedUnder)' /\ Admitted'
    <3>1. Footprint(size', Held) = Footprint(size, Held)
      BY <1>1, <1>3, SameFootprint DEF TableShape
    <3> QED BY <1>1, <1>2, <2>1, <2>4, <3>1 DEF Fit, Admitted
  <2> QED BY <1>1, <1>2, <2>1, <2>2, <2>3, <2>5
<1>5. CASE HealthTick
  <2>1. op' = [pc |-> "reconcile", job |-> "tick", key |-> NoKey, todo |-> Held \ limits.enabled,
               server |-> NoServer]
    BY <1>5 DEF HealthTick, Idle
  <2> QED BY <1>4, <2>1
<1>6. CASE Shutdown
  <2>1. op' = [pc |-> "exit", job |-> "exit", key |-> NoKey, todo |-> Held, server |-> NoServer]
    BY <1>6 DEF Shutdown, Idle
  <2> QED BY <1>4, <1>6, <2>1 DEF Shutdown
<1>7. ASSUME NEW k \in Keys, Ensure(k) PROVE ResidencyInv'
  <2>1. op' = [pc |-> "room", job |-> "ensure", key |-> k, todo |-> {}, server |-> NoServer]
    BY <1>7 DEF Ensure, Idle
  <2>2. k \in Keys \ (Held \cup failed)
    BY <1>7 DEF Ensure, Admissible
  <2> QED BY <1>4, <2>1, <2>2
<1> QED BY <1>5, <1>6, <1>7

(* Between operations: warm calls and the operator. *)
LEMMA IdleStep ==
  ASSUME ResidencyInv, \/ \E k \in Keys : Warm(k) \/ ClearFailure(k)
                       \/ \E new \in Configs : SetConfig(new)
  PROVE  ResidencyInv'
<1> USE DEF ResidencyInv
<1>1. /\ op = Idle /\ op' = op
      /\ UNCHANGED <<size, residents, running, deaf, row, faults, crashes, unsaid, leaked>>
  BY DEF Warm, ClearFailure, SetConfig, Admissible, config, manager, processes
<1>2. Held' = Held /\ Wanted = Held /\ Fit(Held, admittedUnder)
  BY <1>1 DEF Held, Wanted, Admitting, Idle
<1>3. /\ limits' \in Configs /\ admittedUnder' \in Configs /\ Fit(Held, admittedUnder')
      /\ failed' \subseteq failed /\ attempts' \in [Keys -> Nat]
      /\ \A k \in Keys :
           \/ attempts'[k] = 0
           \/ attempts'[k] = attempts[k] /\ (k \in failed => k \in failed')
      /\ Lists(lru, Held)'
  <2>1. ASSUME NEW k \in Keys, Warm(k)
        PROVE  /\ UNCHANGED <<limits, admittedUnder, failed, attempts>> /\ Lists(lru, Held)'
    <3>1. k \in Held /\ Touch(k) /\ UNCHANGED <<limits, admittedUnder, failed, attempts>>
      BY <2>1 DEF Warm, config
    <3>2. Held' = Held \cup {k}
      BY <1>2, <3>1
    <3> QED BY <3>1, <3>2, Touched
  <2>2. ASSUME NEW k \in Keys, ClearFailure(k)
        PROVE  /\ failed' = failed \ {k} /\ attempts' = [attempts EXCEPT ![k] = 0]
               /\ UNCHANGED <<limits, admittedUnder, lru>>
    BY <2>2 DEF ClearFailure, config
  <2>3. ASSUME NEW new \in Configs, SetConfig(new)
        PROVE  /\ UNCHANGED <<failed, attempts, lru>> /\ limits' = new
               /\ admittedUnder' = admittedUnder \/ (admittedUnder' = new /\ Fit(Held, new))
    BY <2>3 DEF SetConfig, manager, Fit
  <2>4. /\ Lists(lru, Held) /\ attempts \in [Keys -> Nat]
        /\ limits \in Configs /\ admittedUnder \in Configs
    BY DEF TableShape, RowShape
  <2>5. CASE \E k \in Keys : Warm(k)
    BY <1>2, <2>1, <2>4, <2>5
  <2>6. CASE \E k \in Keys : ClearFailure(k)
    BY <1>2, <2>2, <2>4, <2>6
  <2>7. CASE \E new \in Configs : SetConfig(new)
    BY <1>2, <2>3, <2>4, <2>7
  <2> QED BY <2>5, <2>6, <2>7
<1>4. TableShape' /\ RowShape' /\ ProcessShape'
  BY <1>1, <1>2, <1>3 DEF TableShape, RowShape, ProcessShape
<1>5. OpShape' /\ KeyInHand' /\ Known' /\ Wanted' = Held /\ ~ Admitting' /\ UpsetBudget'
  BY <1>1, <1>2, <1>3 DEF OpShape, KeyInHand, Known, Wanted, Admitting, UpsetBudget, Idle
<1>6. RestartBudget'
  <2>1. MaxRestarts \in Nat /\ faults \in Nat
    BY ResidencyAssumption DEF RowShape
  <2> QED BY <1>1, <1>3, <2>1 DEF RestartBudget, Idle
<1>7. Truths'
  BY <1>1, <1>3, TruthKept
<1>8. Fit(Wanted, admittedUnder)' /\ Admitted'
  BY <1>1, <1>3, <1>5 DEF Fit, Admitted
<1> QED BY <1>1, <1>4, <1>5, <1>6, <1>7, <1>8

(* Processes die and hang. *)
LEMMA ProcessStep ==
  ASSUME ResidencyInv, \E s \in running : Die(s) \/ Hang(s)
  PROVE  ResidencyInv'
<1> USE DEF ResidencyInv
<1>1. /\ running' \subseteq running /\ deaf' \subseteq running' /\ leaked' \subseteq running'
      /\ leaked' \subseteq leaked /\ running' \ leaked' \subseteq running \ leaked
      /\ UNCHANGED <<limits, size, admittedUnder, residents, lru, failed, attempts, op, row, faults, crashes,
                     unsaid>>
  BY DEF Die, Hang, ProcessShape, config, manager
<1>2. Held' = Held
  BY <1>1 DEF Held
<1>3. ProcessShape'
  <2>1. \A k \in Keys : residents'[k] \notin leaked'
    BY <1>1 DEF ProcessShape
  <2> QED BY <1>1, <2>1, Stopped
<1>4. TableShape' /\ RowShape' /\ OpShape' /\ KeyInHand'
  BY <1>1, <1>2 DEF TableShape, RowShape, OpShape, KeyInHand
<1>5. Known' /\ RestartBudget' /\ UpsetBudget' /\ Wanted' = Wanted /\ (Admitting' => Admitting)
  BY <1>1, <1>2 DEF Known, RestartBudget, UpsetBudget, Wanted, Admitting
<1> QED BY <1>1, <1>3, <1>4, <1>5, TruthKept, StillFits

(* Every step keeps the invariant. *)
LEMMA ResidencyStep == ResidencyInv /\ [ResidencyNext]_residencyVars => ResidencyInv'
<1> SUFFICES ASSUME ResidencyInv, [ResidencyNext]_residencyVars PROVE ResidencyInv'
    OBVIOUS
<1>1. CASE Work
  BY <1>1, EvictStep, RoomMadeStep, StartServesStep, StartFailsStep, LoadedStep, RestartedStep,
     StartFailureRowStep, FailedRowStep, ReconcileStep, ProbeStep, ExitStep DEF Work
<1>2. CASE UNCHANGED residencyVars
  <2>1. UNCHANGED <<limits, size, admittedUnder, residents, lru, failed, attempts, op, running, deaf, row,
                    faults, crashes, unsaid, leaked>>
    BY <1>2 DEF residencyVars
  <2>2. TableShape' /\ RowShape' /\ ProcessShape' /\ Truths' /\ Held' = Held
    BY <2>1, OnlyOp DEF ResidencyInv, TableShape
  <2>3. OpShape' /\ KeyInHand' /\ Known' /\ RestartBudget' /\ UpsetBudget' /\ Wanted' = Wanted /\ (Admitting' => Admitting)
    BY <2>1, <2>2 DEF ResidencyInv, OpShape, KeyInHand, Known, RestartBudget, UpsetBudget,
       Wanted, Admitting
  <2> QED BY <2>1, <2>2, <2>3, StillFits DEF ResidencyInv
<1> QED BY <1>1, <1>2, CrashStep, BeginStep, IdleStep, ProcessStep DEF ResidencyNext

(* It holds of a manager that starts. *)
LEMMA ResidencyStarts == ResidencyInit => ResidencyInv
<1> SUFFICES ASSUME ResidencyInit PROVE ResidencyInv
    OBVIOUS
<1> USE DEF ResidencyInit
<1>1. Held = {} /\ NoServer \in Servers /\ NoKey \in Keys \cup {NoKey}
  BY DEF Held, Servers, NoServer, NoKey, NoResidents
<1>2. Lists(<<>>, {}) /\ IsFiniteSet({})
  BY FS_EmptySet DEF Lists
<1>3. TableShape
  BY <1>1, <1>2, ResidencyAssumption DEF TableShape, NoResidents
<1>4. RowShape /\ ProcessShape
  BY <1>1, <1>2 DEF RowShape, ProcessShape, NoFailures, Events
<1>5. OpShape /\ KeyInHand /\ Known /\ Wanted = {}
  BY <1>1 DEF OpShape, KeyInHand, Known, Wanted, Admitting, Idle
<1>6. RestartBudget /\ UpsetBudget
  BY ResidencyAssumption DEF RestartBudget, UpsetBudget, NoFailures
<1>7. Truths
  BY <1>1 DEF Truths, Truthful, Serving
<1>8. Fit(Wanted, admittedUnder) /\ Admitted
  BY <1>3, <1>5, NothingFits DEF TableShape, Admitted
<1> QED BY <1>3, <1>4, <1>5, <1>6, <1>7, <1>8 DEF ResidencyInv

(* The invariant of the manager.                                           *)
LEMMA ResidencyHolds == ResidencySpec => []ResidencyInv
BY ResidencyStarts, ResidencyStep, PTL DEF ResidencySpec

(* The order of use lists the held keys, each of them once. *)
LEMMA ListedOnce ==
  ASSUME NEW S, IsFiniteSet(S), NEW s, Lists(s, S)
  PROVE  s \in SetToSeqs(S)
<1> DEFINE n == Len(s)
<1>1. s \in [1 .. n -> S] /\ n \in Nat
  BY DEF Lists
<1>2. s \in Surjection(1 .. n, S) /\ s \in Injection(1 .. n, S)
  BY <1>1 DEF Lists, Surjection, Injection, IsInjective
<1>3. IsFiniteSet(1 .. n) /\ Cardinality(1 .. n) = n
  <2>1. 1 \in Int /\ n \in Int
    BY <1>1
  <2> HIDE DEF n
  <2>2. Cardinality(1 .. n) = IF 1 > n THEN 0 ELSE n - 1 + 1
    BY <2>1, FS_Interval
  <2> QED BY <1>1, <2>1, <2>2, FS_Interval
<1>4. Cardinality(S) = Cardinality(1 .. n)
  BY <1>2, <1>3, FS_Surjection
<1> QED BY <1>1, <1>3, <1>4 DEF SetToSeqs, Lists

(* The manager's state keeps its shape: the order of use is a permutation  *)
(* of the held keys, and a key is tried at most once more than its         *)
(* restarts, plus once for every refused row (ensure_resident,             *)
(* restart_or_fail).                                                       *)
THEOREM ResidencyTyping == ResidencySpec => []ResidencyTypeOK
<1>1. ResidencyInv => ResidencyTypeOK
  <2> SUFFICES ASSUME ResidencyInv PROVE ResidencyTypeOK
      OBVIOUS
  <2> USE DEF ResidencyInv
  <2>1. IsFiniteSet(Held)
    BY ResidencyAssumption, FS_Subset DEF Held
  <2>2. lru \in SetToSeqs(Held)
    BY <2>1, ListedOnce DEF TableShape
  <2>3. attempts \in [Keys -> 0 .. MaxRestarts + 1 + faults]
    BY ResidencyAssumption DEF RowShape, RestartBudget
  <2> QED BY <2>2, <2>3 DEF ResidencyTypeOK, TableShape, RowShape, ProcessShape, OpShape,
        UpsetBudget, Servers, Events
<1> QED BY <1>1, ResidencyHolds, PTL

(* The servers that run, other than leaked ones, fit the count and the     *)
(* memory ceiling they were admitted under or that were configured since,  *)
(* at every moment, also while one is being started or replaced; a server  *)
(* is admitted only under those in force (make_room_for, breached_ceiling, *)
(* restart_or_fail, set_config).                                           *)
THEOREM CeilingsKept == ResidencySpec => []WithinCeilings
BY ResidencyHolds, OursFit, PTL

(* No server runs that the manager neither holds nor is starting, unless a *)
(* refused loaded row or the end of the daemon has left it behind (start,  *)
(* stop_all).                                                              *)
THEOREM ServersKnown == ResidencySpec => []NoServerForgotten
BY ResidencyHolds, KnownServers, PTL

(* Between operations the newest row of a key says whether a server is     *)
(* held for it and which, unless that row was refused or the daemon died   *)
(* (record).                                                               *)
THEOREM TableTruthful == ResidencySpec => []TableTellsTheTruth
BY ResidencyHolds, TruthAtRest, PTL
=============================================================================
