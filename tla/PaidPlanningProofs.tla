-------------------------- MODULE PaidPlanningProofs --------------------------
(***************************************************************************)
(* Which runtime the pool gives, for every pool, and what the paid calls   *)
(* of any number of hosts then amount to.                                  *)
(***************************************************************************)
EXTENDS PaidPlanning, FiniteSetTheorems, WellFoundedInduction, TLAPS

Tiers == ToSet(ExecutionTiers)

(* The tiers and their ranks, spelled out.                                 *)
LEMMA TierRanks ==
  /\ Tiers = {"local", "free", "paid-efficient", "paid-standard", "frontier"}
  /\ Rank("local") = 1 /\ Rank("free") = 2 /\ Rank("paid-efficient") = 3
  /\ Rank("paid-standard") = 4 /\ Rank("frontier") = 5
  /\ \A t \in Tiers : Rank(t) \in 1 .. 5
<1>1. DOMAIN ExecutionTiers = 1 .. 5
  BY DEF ExecutionTiers
<1>2. 1 .. 5 = {1, 2, 3, 4, 5}
  OBVIOUS
<1>3. /\ ExecutionTiers[1] = "local" /\ ExecutionTiers[2] = "free"
      /\ ExecutionTiers[3] = "paid-efficient" /\ ExecutionTiers[4] = "paid-standard"
      /\ ExecutionTiers[5] = "frontier"
  BY DEF ExecutionTiers
<1>4. Tiers = {"local", "free", "paid-efficient", "paid-standard", "frontier"}
  <2>1. Tiers = {ExecutionTiers[i] : i \in {1, 2, 3, 4, 5}}
    BY <1>1, <1>2 DEF Tiers, ToSet
  <2> QED
    BY <1>3, <2>1
<1>5. \A i \in {1, 2, 3, 4, 5} : Rank(ExecutionTiers[i]) = i
  <2> TAKE i \in {1, 2, 3, 4, 5}
  <2>1. \A j \in {1, 2, 3, 4, 5} : ExecutionTiers[j] = ExecutionTiers[i] => j = i
    BY <1>3
  <2> QED
    BY <1>1, <1>2, <2>1 DEF Rank, Index
<1>6. /\ Rank("local") = 1 /\ Rank("free") = 2 /\ Rank("paid-efficient") = 3
      /\ Rank("paid-standard") = 4 /\ Rank("frontier") = 5
  BY <1>3, <1>5
<1> QED
  BY <1>4, <1>6

-----------------------------------------------------------------------------
(* The order of a pool.                                                    *)

(* What the configuration promises of a pool.                              *)
IsPool(pool) ==
  /\ Len(pool.candidates) \in Nat
  /\ DOMAIN pool.candidates = 1 .. Len(pool.candidates)
  /\ \A i \in DOMAIN pool.candidates : pool.candidates[i].tier \in Tiers

(* Cheapest tier first, then as configured, is a strict total order.       *)
LEMMA BeforeIsAnOrder ==
  ASSUME NEW pool, IsPool(pool)
  PROVE  /\ \A i \in DOMAIN pool.candidates : ~Before(pool, i, i)
         /\ \A i, j \in DOMAIN pool.candidates :
              i = j \/ Before(pool, i, j) \/ Before(pool, j, i)
         /\ \A i, j, k \in DOMAIN pool.candidates :
              Before(pool, i, j) /\ Before(pool, j, k) => Before(pool, i, k)
<1> DEFINE D == DOMAIN pool.candidates
           R(i) == Rank(pool.candidates[i].tier)
<1>1. D \subseteq Int
  BY DEF IsPool
<1>2. \A i \in D : R(i) \in Int
  <2> SUFFICES ASSUME NEW i \in D PROVE R(i) \in Int
    OBVIOUS
  <2>1. pool.candidates[i].tier \in Tiers
    BY DEF IsPool
  <2>2. R(i) \in 1 .. 5
    BY <2>1, TierRanks
  <2> QED
    BY <2>2
<1>3. \A i, j : Before(pool, i, j) <=> R(i) < R(j) \/ (R(i) = R(j) /\ i < j)
  BY DEF Before
<1> HIDE DEF D, R
<1>4. /\ \A i \in D : ~Before(pool, i, i)
      /\ \A i, j \in D : i = j \/ Before(pool, i, j) \/ Before(pool, j, i)
      /\ \A i, j, k \in D : Before(pool, i, j) /\ Before(pool, j, k) => Before(pool, i, k)
  BY <1>1, <1>2, <1>3
<1> QED
  BY <1>4 DEF D

(* Places follow the order.                                                *)
LEMMA PlacesAreOrdered ==
  ASSUME NEW pool, IsPool(pool), NEW left \in SUBSET DOMAIN pool.candidates
  PROVE  /\ IsFiniteSet(left)
         /\ \A i \in left : Place(pool, left, i) \in 1 .. Cardinality(left)
         /\ \A i, j \in left : Before(pool, i, j) => Place(pool, left, i) < Place(pool, left, j)
<1> DEFINE upTo(i) == {j \in left : j = i \/ Before(pool, j, i)}
<1>1. IsFiniteSet(left)
  <2>1. IsFiniteSet(DOMAIN pool.candidates)
    BY FS_Interval DEF IsPool
  <2> QED
    BY <2>1, FS_Subset
<1>2. \A i \in left : Place(pool, left, i) \in 1 .. Cardinality(left)
  <2> SUFFICES ASSUME NEW i \in left PROVE Place(pool, left, i) \in 1 .. Cardinality(left)
    OBVIOUS
  <2>1. IsFiniteSet(upTo(i)) /\ Cardinality(upTo(i)) <= Cardinality(left)
    BY <1>1, FS_Subset
  <2>2. upTo(i) # {}
    OBVIOUS
  <2>3. Cardinality(upTo(i)) \in Nat /\ Cardinality(upTo(i)) # 0
    <3> HIDE DEF upTo
    <3> QED
      BY <2>1, <2>2, FS_CardinalityType, FS_EmptySet
  <2>4. Cardinality(left) \in Nat
    BY <1>1, FS_CardinalityType
  <2>5. Place(pool, left, i) = Cardinality(upTo(i))
    BY DEF Place
  <2> HIDE DEF upTo
  <2> QED
    BY <2>1, <2>3, <2>4, <2>5
<1>3. \A i, j \in left : Before(pool, i, j) => Place(pool, left, i) < Place(pool, left, j)
  <2> SUFFICES ASSUME NEW i \in left, NEW j \in left, Before(pool, i, j)
               PROVE  Place(pool, left, i) < Place(pool, left, j)
    OBVIOUS
  <2>1. upTo(i) \subseteq upTo(j)
    BY BeforeIsAnOrder
  <2>2. j \in upTo(j) /\ j \notin upTo(i)
    BY BeforeIsAnOrder
  <2>3. IsFiniteSet(upTo(i)) /\ IsFiniteSet(upTo(j))
    BY <1>1, FS_Subset
  <2>4. Place(pool, left, i) = Cardinality(upTo(i)) /\ Place(pool, left, j) = Cardinality(upTo(j))
    BY DEF Place
  <2> HIDE DEF upTo
  <2>5. Cardinality(upTo(i)) <= Cardinality(upTo(j)) /\ Cardinality(upTo(i)) # Cardinality(upTo(j))
    BY <2>1, <2>2, <2>3, FS_Subset
  <2>6. Cardinality(upTo(i)) \in Nat /\ Cardinality(upTo(j)) \in Nat
    BY <2>3, FS_CardinalityType
  <2> QED
    BY <2>4, <2>5, <2>6
<1> QED
  BY <1>1, <1>2, <1>3

(* Every place is taken, by one position.                                  *)
LEMMA PlacesAreTaken ==
  ASSUME NEW pool, IsPool(pool), NEW left \in SUBSET DOMAIN pool.candidates,
         NEW n \in 1 .. Cardinality(left)
  PROVE  \E i \in left : /\ Place(pool, left, i) = n
                         /\ \A j \in left : Place(pool, left, j) = n => j = i
<1> DEFINE T == 1 .. Cardinality(left)
           f == [i \in left |-> Place(pool, left, i)]
<1>1. IsFiniteSet(left) /\ Cardinality(left) \in Nat
  BY PlacesAreOrdered, FS_CardinalityType
<1>2. \A i, j \in left : Place(pool, left, i) = Place(pool, left, j) => i = j
  <2> SUFFICES ASSUME NEW i \in left, NEW j \in left, i # j,
                      Place(pool, left, i) = Place(pool, left, j)
               PROVE  FALSE
    OBVIOUS
  <2>1. Place(pool, left, i) \in Int
    BY PlacesAreOrdered
  <2>2. Before(pool, i, j) \/ Before(pool, j, i)
    BY BeforeIsAnOrder
  <2>3. \/ Place(pool, left, i) < Place(pool, left, j)
        \/ Place(pool, left, j) < Place(pool, left, i)
    BY <2>2, PlacesAreOrdered
  <2> QED
    BY <2>1, <2>3
<1>3. f \in Injection(left, T)
  <2>1. f \in [left -> T]
    BY PlacesAreOrdered
  <2> QED
    BY <1>2, <2>1 DEF Injection, IsInjective
<1>4. IsFiniteSet(T) /\ Cardinality(T) = Cardinality(left)
  BY <1>1, FS_Interval
<1>5. f \in Surjection(left, T)
  <2> HIDE DEF f, T
  <2> QED
    BY <1>3, <1>4, FS_Injection
<1>6. PICK i \in left : f[i] = n
  BY <1>5 DEF Surjection
<1> QED
  BY <1>2, <1>6

(* The order of select_from_runtime_pool is the remaining positions.       *)
LEMMA EligibleInOrder ==
  ASSUME NEW pool, IsPool(pool), NEW r, NEW ask, NEW led
  PROVE  LET left  == Remaining(pool, r, ask, led)
             order == Eligible(pool, r, ask, led)
         IN  /\ Cardinality(left) \in Nat
             /\ DOMAIN order = 1 .. Cardinality(left)
             /\ \A n \in DOMAIN order : order[n] \in left /\ Place(pool, left, order[n]) = n
             /\ \A i \in left : /\ Place(pool, left, i) \in DOMAIN order
                              /\ order[Place(pool, left, i)] = i
<1> DEFINE left  == Remaining(pool, r, ask, led)
           order == Eligible(pool, r, ask, led)
<1>1. left \subseteq DOMAIN pool.candidates
  BY DEF Remaining
<1>2. order = [n \in 1 .. Cardinality(left) |-> CHOOSE i \in left : Place(pool, left, i) = n]
  BY DEF Eligible
<1> HIDE DEF left, order
<1>3. Cardinality(left) \in Nat
  BY <1>1, PlacesAreOrdered, FS_CardinalityType
<1>4. DOMAIN order = 1 .. Cardinality(left)
  BY <1>2
<1>5. \A n \in DOMAIN order : order[n] \in left /\ Place(pool, left, order[n]) = n
  <2> SUFFICES ASSUME NEW n \in 1 .. Cardinality(left)
               PROVE  order[n] \in left /\ Place(pool, left, order[n]) = n
    BY <1>4
  <2>1. \E i \in left : Place(pool, left, i) = n
    BY <1>1, PlacesAreTaken
  <2>2. order[n] = CHOOSE i \in left : Place(pool, left, i) = n
    BY <1>2
  <2> QED
    BY <2>1, <2>2
<1>6. ASSUME NEW i \in left
      PROVE  Place(pool, left, i) \in DOMAIN order /\ order[Place(pool, left, i)] = i
  <2>1. Place(pool, left, i) \in 1 .. Cardinality(left)
    BY <1>1, PlacesAreOrdered
  <2>2. PICK k \in left : \A j \in left : Place(pool, left, j) = Place(pool, left, i) => j = k
    BY <1>1, <2>1, PlacesAreTaken
  <2>3. /\ order[Place(pool, left, i)] \in left
        /\ Place(pool, left, order[Place(pool, left, i)]) = Place(pool, left, i)
    BY <1>4, <1>5, <2>1
  <2> QED
    BY <1>4, <2>1, <2>2, <2>3
<1> QED
  BY <1>3, <1>4, <1>5, <1>6 DEF left, order

(* A set of naturals has a least element, and Min is it.                   *)
LEMMA LeastNatural ==
  ASSUME NEW S \in SUBSET Nat, S # {}
  PROVE  Min(S) \in S /\ \A x \in S : Min(S) <= x
<1> DEFINE R == OpToRel(<, Nat)
<1>1. IsWellFoundedOn(R, Nat)
  BY NatLessThanWellFounded, Zenon
<1>2. \A y, m \in Nat : y < m => <<y, m>> \in R
  BY Zenon DEF OpToRel
<1> HIDE DEF R
<1>3. \E m \in S : \A y \in S : ~(<<y, m>> \in R)
  BY <1>1, WFMin
<1>4. PICK m \in S : \A y \in S : ~(<<y, m>> \in R)
  BY <1>3
<1>5. \A y \in S : m <= y
  <2> SUFFICES ASSUME NEW y \in S PROVE m <= y
    OBVIOUS
  <2>1. y \in Nat /\ m \in Nat /\ ~(y < m)
    BY <1>2, <1>4
  <2> QED
    BY <2>1
<1> QED
  BY <1>5 DEF Min

(* What select_runtime answers over n candidates, and when it does.        *)
Answers(route, n, r, budget, site) ==
  LET found   == SelectRuntime(route, r, budget, site, "none", 0)
      free(m) == Blockers(route.candidates[m], r, budget, site) = {}
  IN  /\ found # 0 => found \in 1 .. n /\ free(found) /\ ~r.human
      /\ found # 0 => \A m \in 1 .. n : m < found => ~free(m)
      /\ found = 0 => \/ r.human
                      \/ "policy" \in Blockers(route.candidates[1], r, budget, site)
                      \/ \A m \in 1 .. n : ~free(m)

(* It answers so whenever the pool's reasons to pass over are allowed.     *)
LEMMA SearchAnswers ==
  ASSUME NEW route, NEW n \in Nat \ {0}, DOMAIN route.candidates = 1 .. n,
         route.fallbacks = PoolFallbacks, NEW r, NEW budget, NEW site
  PROVE  Answers(route, n, r, budget, site)
<1> DEFINE found == SelectRuntime(route, r, budget, site, "none", 0)
           free(m) == Blockers(route.candidates[m], r, budget, site) = {}
           from == SearchFrom(route, r, budget, site, "none", 0)
           clear == {m \in DOMAIN route.candidates :
                       m >= from /\ Blockers(route.candidates[m], r, budget, site) = {}}
           first == Blockers(route.candidates[1], r, budget, site)
<1>1. found = IF from = 0 \/ clear = {} THEN 0 ELSE Min(clear)
  BY DEF SelectRuntime
<1>2. /\ r.human => from = 0
      /\ ~r.human /\ first = {} => from = 1
      /\ ~r.human /\ first # {} /\ "policy" \in first => from = 0
      /\ ~r.human /\ first # {} /\ "policy" \notin first => from = 2
  <2>1. FallbackReason(first) \in PoolFallbacks
    BY DEF FallbackReason, PoolFallbacks
  <2>2. "none" # "ordinary-failure"
    OBVIOUS
  <2> HIDE DEF first
  <2>3. from = IF r.human THEN 0 ELSE IF first = {} THEN 1
               ELSE IF "policy" \in first \/ FallbackReason(first) \notin route.fallbacks THEN 0
               ELSE 2
    BY <2>2 DEF SearchFrom, first
  <2> QED
    BY <2>1, <2>3
<1>3. free(1) <=> first = {}
  OBVIOUS
<1>4. clear = {m \in 1 .. n : m >= from /\ free(m)}
  OBVIOUS
<1> HIDE DEF found, free, from, clear, first
<1>5. CASE from = 0
  BY <1>1, <1>2, <1>5 DEF Answers, found, free, first
<1>6. CASE from # 0
  <2>1. ~r.human /\ from \in {1, 2} /\ (from = 2 => ~free(1))
    BY <1>2, <1>3, <1>6
  <2>2. \A m \in 1 .. n : free(m) => m \in clear
    BY <1>4, <2>1
  <2>3. CASE clear = {}
    <3>1. found = 0
      BY <1>1, <2>3
    <3>2. \A m \in 1 .. n : ~free(m)
      BY <2>2, <2>3
    <3> QED
      BY <3>1, <3>2 DEF Answers, found, free
  <2>4. CASE clear # {}
    <3>1. clear \in SUBSET Nat
      BY <1>4
    <3>2. Min(clear) \in clear /\ \A x \in clear : Min(clear) <= x
      BY <2>4, <3>1, LeastNatural
    <3>3. found = Min(clear)
      BY <1>1, <1>6, <2>4
    <3>4. found \in 1 .. n /\ free(found)
      BY <1>4, <3>2, <3>3
    <3>5. ASSUME NEW m \in 1 .. n, m < found PROVE ~free(m)
      <4>1. SUFFICES ASSUME free(m) PROVE FALSE
        OBVIOUS
      <4>2. found <= m
        BY <2>2, <3>2, <3>3, <4>1
      <4> QED
        BY <3>4, <3>5, <4>2
    <3>6. found # 0
      BY <3>4
    <3> QED
      BY <2>1, <3>4, <3>5, <3>6 DEF Answers, found, free
  <2> QED
    BY <2>3, <2>4
<1> QED
  BY <1>5, <1>6

(* What the pool gives is permitted (every condition of _eligible), is     *)
(* not blocked, and nothing cheaper, or as cheap and configured earlier,   *)
(* would have done; it gives nothing only if a person has to act, if all   *)
(* that is permitted is blocked, or if the first of it is a policy's to    *)
(* refuse (select_from_runtime_pool).                                      *)
THEOREM SelectionIsCheapest ==
  ASSUME NEW pool, IsPool(pool), NEW r, NEW ask, NEW led, NEW budget, NEW site
  PROVE  LET left    == Remaining(pool, r, ask, led)
             i       == SelectFromPool(pool, r, ask, led, budget, site)
             free(k) == Blockers(pool.candidates[k], r, budget, site) = {}
         IN  /\ i # 0 => /\ i \in left /\ free(i) /\ ~r.human
                         /\ \A k \in left : Before(pool, k, i) => ~free(k)
             /\ i = 0 => \/ r.human
                         \/ \A k \in left : ~free(k)
                         \/ \E k \in left : /\ PolicyBlockers(pool.candidates[k]) # {}
                                           /\ \A l \in left : ~Before(pool, l, k)
<1> DEFINE left    == Remaining(pool, r, ask, led)
           order   == Eligible(pool, r, ask, led)
           n       == Cardinality(left)
           i       == SelectFromPool(pool, r, ask, led, budget, site)
           free(k) == Blockers(pool.candidates[k], r, budget, site) = {}
           route   == [candidates |-> [m \in DOMAIN order |-> pool.candidates[order[m]]],
                       fallbacks  |-> PoolFallbacks]
           found   == SelectRuntime(route, r, budget, site, "none", 0)
<1>1. i = IF order = <<>> THEN 0 ELSE IF found = 0 THEN 0 ELSE order[found]
  BY DEF SelectFromPool
<1>2. /\ n \in Nat /\ DOMAIN order = 1 .. n
      /\ \A m \in 1 .. n : order[m] \in left /\ Place(pool, left, order[m]) = m
      /\ \A k \in left : Place(pool, left, k) \in 1 .. n /\ order[Place(pool, left, k)] = k
  BY EligibleInOrder
<1>3. left \subseteq DOMAIN pool.candidates /\ 0 \notin left
  BY DEF Remaining, IsPool
<1>4. /\ DOMAIN route.candidates = 1 .. n /\ route.fallbacks = PoolFallbacks
      /\ \A m \in 1 .. n : route.candidates[m] = pool.candidates[order[m]]
  BY <1>2
<1>5. \A k, l \in left : Before(pool, k, l) => Place(pool, left, k) < Place(pool, left, l)
  BY <1>3, PlacesAreOrdered
<1>6. order = <<>> => n = 0
  <2>1. SUFFICES ASSUME order = <<>> PROVE n = 0
    OBVIOUS
  <2>2. DOMAIN order = {}
    BY <2>1
  <2> HIDE DEF n, order
  <2>3. 1 \notin 1 .. n
    BY <1>2, <2>2
  <2> QED
    BY <1>2, <2>3
<1>7. n # 0 => order # <<>>
  BY <1>6
<1>8. n = 0 => left = {}
  BY <1>2
<1> HIDE DEF left, order, n, i, route, found
<1>9. CASE n = 0
  <2>1. left = {}
    BY <1>8, <1>9
  <2>2. i = 0
    <3>1. order = <<>>
      <4>1. DOMAIN order = {}
        BY <1>2, <1>9
      <4>2. order = [m \in {} |-> order[m]]
        BY <4>1 DEF order, Eligible
      <4> QED
        BY <4>2
    <3> QED
      BY <1>1, <3>1
  <2> QED
    BY <2>1, <2>2 DEF left, i
<1>10. CASE n # 0
  <2> DEFINE open(m) == Blockers(route.candidates[m], r, budget, site) = {}
  <2>1. n \in Nat \ {0}
    BY <1>2, <1>10
  <2>2. /\ found # 0 => found \in 1 .. n /\ open(found) /\ ~r.human
        /\ found # 0 => \A m \in 1 .. n : m < found => ~open(m)
        /\ found = 0 => \/ r.human
                        \/ "policy" \in Blockers(route.candidates[1], r, budget, site)
                        \/ \A m \in 1 .. n : ~open(m)
    <3>1. DOMAIN route.candidates = 1 .. n /\ route.fallbacks = PoolFallbacks
      BY <1>4
    <3>2. Answers(route, n, r, budget, site)
      BY <2>1, <3>1, SearchAnswers
    <3> QED
      BY <3>2 DEF Answers, found
  <2>3. \A m \in 1 .. n : open(m) <=> free(order[m])
    BY <1>4
  <2>4. i = IF found = 0 THEN 0 ELSE order[found]
    BY <1>1, <1>7, <1>10
  <2> HIDE DEF open, free
  <2>5. CASE found # 0
    <3>1. i \in left /\ free(i) /\ ~r.human /\ Place(pool, left, i) = found
      BY <1>2, <2>2, <2>3, <2>4, <2>5
    <3>2. ASSUME NEW k \in left, Before(pool, k, i) PROVE ~free(k)
      <4>1. Place(pool, left, k) < found /\ Place(pool, left, k) \in 1 .. n
        BY <1>2, <1>5, <3>1, <3>2
      <4>2. ~open(Place(pool, left, k))
        BY <2>2, <2>5, <4>1
      <4> QED
        BY <1>2, <2>3, <4>1, <4>2
    <3>3. i # 0
      BY <1>3, <3>1
    <3> QED
      BY <3>1, <3>2, <3>3 DEF left, i, free
  <2>6. CASE found = 0
    <3>1. i = 0
      BY <2>4, <2>6
    <3>2. CASE r.human
      BY <3>1, <3>2 DEF i
    <3>3. CASE \A m \in 1 .. n : ~open(m)
      <4>1. \A k \in left : ~free(k)
        BY <1>2, <2>3, <3>3
      <4> QED
        BY <3>1, <4>1 DEF i, left, free
    <3>4. CASE "policy" \in Blockers(route.candidates[1], r, budget, site)
      <4> DEFINE k == order[1]
      <4>1. 1 \in 1 .. n /\ k \in left /\ Place(pool, left, k) = 1
        BY <1>2, <2>1
      <4>2. "policy" \in Blockers(pool.candidates[k], r, budget, site)
        BY <1>4, <3>4, <4>1
      <4>3. PolicyBlockers(pool.candidates[k]) # {}
        BY <4>2 DEF Blockers, BudgetBlockers, AdmissionBlockers
      <4> HIDE DEF k
      <4>4. ASSUME NEW l \in left PROVE ~Before(pool, l, k)
        BY <1>2, <1>5, <4>1
      <4> QED
        BY <3>1, <4>1, <4>3, <4>4 DEF i, left, free
    <3> QED
      BY <2>2, <2>6, <3>2, <3>3, <3>4
  <2> QED
    BY <2>5, <2>6
<1> QED
  BY <1>9, <1>10

-----------------------------------------------------------------------------
(* Types.                                                                  *)

(* What the asks of planner and advisor may be answered: nothing, or a     *)
(* tier with a call left, and a paid one only if all usage is accounted.   *)
Answerable(t) ==
  \/ t = "none"
  \/ /\ t \in Tiers
     /\ t \in DOMAIN Pool.budgets => ledger.attempts[t] < Pool.budgets[t]
     /\ Paid(t) => ledger.unaccounted = 0

(* The pool answers nothing else.                                          *)
LEMMA SelectedIsAnswerable ==
  ASSUME TypeOK, NEW r, NEW ask, ask.work, NEW t \in Selected(r, ask)
  PROVE  Answerable(t)
<1>1. IsPool(Pool)
  BY PoolAssumption DEF IsPool, Tiers
<1>2. PICK responsive \in SUBSET {"codex", "claude"} :
        LET i == SelectFromPool(Pool, r, ask, Counted, [limited |-> FALSE],
                   [agents |-> responsive \cup {"opencode"}, models |-> TRUE, context |-> 0])
        IN  t = IF i = 0 THEN "none" ELSE Pool.candidates[i].tier
  BY DEF Selected
<1> DEFINE site == [agents |-> responsive \cup {"opencode"}, models |-> TRUE, context |-> 0]
           budget == [limited |-> FALSE]
           i == SelectFromPool(Pool, r, ask, Counted, budget, site)
<1>3. i # 0 => i \in Remaining(Pool, r, ask, Counted)
  <2> HIDE DEF site, budget
  <2> QED
    BY <1>1, SelectionIsCheapest
<1>4. t = IF i = 0 THEN "none" ELSE Pool.candidates[i].tier
  BY <1>2
<1> HIDE DEF i
<1>5. ASSUME i # 0 PROVE Answerable(t)
  <2>1. i \in DOMAIN Pool.candidates /\ Allowed(Pool, r, ask, Counted, Pool.candidates[i])
    BY <1>3, <1>5 DEF Remaining
  <2>2. t = Pool.candidates[i].tier
    BY <1>4, <1>5
  <2>3. t \in Tiers
    BY <1>1, <2>1, <2>2 DEF IsPool
  <2>4. /\ Paid(t) => PaidAccounted(Counted.unaccounted)
        /\ t \in DOMAIN Pool.budgets => Counted.attempts[t] < Pool.budgets[t]
    BY <2>1, <2>2 DEF Allowed
  <2>5. /\ Counted.unaccounted = ledger.unaccounted
        /\ Counted.attempts[t] = ledger.attempts[t] + ledger.executor[t]
        /\ ledger.attempts[t] \in Nat /\ ledger.executor[t] \in Nat
    BY <2>3 DEF Counted, TypeOK, Tiers
  <2>6. t \in DOMAIN Pool.budgets => ledger.attempts[t] < Pool.budgets[t]
    BY <2>4, <2>5, PoolAssumption
  <2> QED
    BY <2>3, <2>4, <2>5, <2>6 DEF Answerable, PaidAccounted
<1> QED
  BY <1>4, <1>5 DEF Answerable

(* Both asks name the Work, so its ledger counts.                          *)
LEMMA AsksNameTheWork == PlannerAsk.work /\ AdvisorAsk.work
<1>1. \A minimum, maximum, agents : Ask(minimum, maximum, agents).work
  BY DEF Ask
<1>2. CASE need = "local"
  BY <1>1, <1>2 DEF PlannerAsk, AdvisorAsk
<1>3. CASE need = "frontier"
  BY <1>1, <1>3 DEF PlannerAsk, AdvisorAsk
<1>4. CASE need # "local" /\ need # "frontier"
  BY <1>1, <1>4 DEF PlannerAsk, AdvisorAsk
<1> QED
  BY <1>2, <1>3, <1>4

(* A tier Tiers holds is not "none".                                       *)
LEMMA NoneIsNoTier == "none" \notin Tiers /\ NoInput \notin Inputs
BY TierRanks, InputsAssumption DEF NoInput

(* Initially every variable has its type.                                  *)
LEMMA InitTypeOK == Init => TypeOK
<1> SUFFICES ASSUME Init PROVE TypeOK
  OBVIOUS
<1>1. Fresh \in Local
  BY DEF Fresh, Local
<1>2. ledger \in [attempts : [ToSet(ExecutionTiers) -> Nat],
                  executor : [ToSet(ExecutionTiers) -> Nat],
                  outcomes : Nat, unaccounted : Nat, recorded : Nat]
  <2>1. [t \in ToSet(ExecutionTiers) |-> 0] \in [ToSet(ExecutionTiers) -> Nat]
    OBVIOUS
  <2> QED
    BY <2>1 DEF Init
<1> QED
  BY <1>1, <1>2, InputsAssumption DEF Init, TypeOK, Steps

(* The steps, with the ledger and the ghosts they leave.                   *)
LedgerType == [attempts : [Tiers -> Nat], executor : [Tiers -> Nat],
               outcomes : Nat, unaccounted : Nat, recorded : Nat]
SpentType  == [late : Nat, unprepared : Nat, abandoned : Nat, plans : Nat]

(* The ledger and the ghosts keep their types.                             *)
LEMMA LedgerSteps ==
  ASSUME TypeOK
  PROVE  /\ \A t \in Tiers : Attempt(t) => ledger' \in LedgerType
         /\ Outcome => ledger' \in LedgerType
         /\ UNCHANGED ledger => ledger' \in LedgerType
         /\ \A h : Executed(h) => ledger' \in LedgerType
         /\ \A t : Late(t) \in Nat
<1>1. ledger \in LedgerType
  BY DEF TypeOK, LedgerType, Tiers
<1>2. ASSUME NEW t \in Tiers, Attempt(t) PROVE ledger' \in LedgerType
  <2>1. ledger.attempts \in [Tiers -> Nat]
    BY <1>1 DEF LedgerType
  <2>2. [ledger.attempts EXCEPT ![t] = @ + 1] \in [Tiers -> Nat]
    BY <2>1
  <2>3. ledger' = [ledger EXCEPT !.attempts = [ledger.attempts EXCEPT ![t] = @ + 1]]
    BY <1>1, <1>2 DEF Attempt, LedgerType
  <2> HIDE DEF Tiers
  <2> QED
    BY <1>1, <2>2, <2>3 DEF LedgerType
<1>3. Outcome => ledger' \in LedgerType
  BY <1>1 DEF Outcome, LedgerType
<1>4. \A t : Late(t) \in Nat
  BY DEF Late
<1>5. ASSUME NEW h, Executed(h) PROVE ledger' \in LedgerType
  <2>1. PICK t \in Tiers, n \in 0 .. 2 : ledger' = [ledger EXCEPT !.executor[t] = @ + n]
    BY <1>5, TiersAssumption DEF Executed, Tiers
  <2>2. ledger.executor \in [Tiers -> Nat]
    BY <1>1 DEF LedgerType
  <2>3. [ledger.executor EXCEPT ![t] = @ + n] \in [Tiers -> Nat]
    BY <2>2
  <2>4. ledger' = [ledger EXCEPT !.executor = [ledger.executor EXCEPT ![t] = @ + n]]
    BY <1>1, <2>1 DEF LedgerType
  <2> HIDE DEF Tiers
  <2> QED
    BY <1>1, <2>3, <2>4 DEF LedgerType
<1> QED
  BY <1>1, <1>2, <1>3, <1>4, <1>5

(* An executor's attempts are none of planner's and advisor's.             *)
LEMMA ExecutedKeeps ==
  ASSUME TypeOK, NEW h, Executed(h)
  PROVE  /\ ledger'.attempts = ledger.attempts
         /\ ledger'.unaccounted = ledger.unaccounted
         /\ ledger'.outcomes = ledger.outcomes
<1>1. ledger \in LedgerType
  BY DEF TypeOK, LedgerType, Tiers
<1>2. PICK t \in ExecutorTiers, n \in 0 .. 2 : ledger' = [ledger EXCEPT !.executor[t] = @ + n]
  BY DEF Executed
<1> QED
  BY <1>1, <1>2 DEF LedgerType

(* Accounting for usage, or not, leaves a ledger.                          *)
LEMMA AccountedLedger ==
  ASSUME NEW A, NEW l \in [attempts : A, executor : A, outcomes : Nat, unaccounted : Nat, recorded : Nat]
  PROVE  /\ [l EXCEPT !.unaccounted = @ + 1, !.outcomes = @ + 1]
              \in [attempts : A, executor : A, outcomes : Nat, unaccounted : Nat, recorded : Nat]
         /\ [l EXCEPT !.recorded = @ + 1, !.outcomes = @ + 1]
              \in [attempts : A, executor : A, outcomes : Nat, unaccounted : Nat, recorded : Nat]
<1> DEFINE T == [attempts : A, executor : A, outcomes : Nat, unaccounted : Nat, recorded : Nat]
<1>1. \A k \in T : [k EXCEPT !.unaccounted = @ + 1] \in T
  OBVIOUS
<1>2. \A k \in T : [k EXCEPT !.recorded = @ + 1] \in T
  OBVIOUS
<1>3. \A k \in T : [k EXCEPT !.outcomes = @ + 1] \in T
  OBVIOUS
<1>4. [l EXCEPT !.unaccounted = @ + 1, !.outcomes = @ + 1]
        = [[l EXCEPT !.unaccounted = @ + 1] EXCEPT !.outcomes = @ + 1]
  OBVIOUS
<1>5. [l EXCEPT !.recorded = @ + 1, !.outcomes = @ + 1]
        = [[l EXCEPT !.recorded = @ + 1] EXCEPT !.outcomes = @ + 1]
  OBVIOUS
<1> HIDE DEF T
<1> QED
  BY <1>1, <1>2, <1>3, <1>4, <1>5 DEF T

(* Every step of a host keeps the types.                                   *)
LEMMA HostStepTypeOK ==
  ASSUME TypeOK, NEW h \in Hosts, HostStep(h) \/ Crash(h)
  PROVE  TypeOK'
<1> DEFINE Inp == Inputs \cup {NoInput}
           Tr  == Tiers \cup {"none"}
           InTier(s, l) == s \in {"prepare", "planning", "advise", "advising", "account"}
                             => l.tier # "none"
           InInput(s, l) == s \in {"advise", "advising", "account"} => l.input \in Inputs
<1>1. /\ need \in Needs /\ input \in Inputs /\ plan \in Inp /\ digest \in Inp
      /\ ledger \in LedgerType /\ spent \in SpentType
      /\ usage \subseteq Nat \X Inputs
      /\ pc \in [Hosts -> Steps] /\ host \in [Hosts -> Local]
      /\ \A g \in Hosts : InTier(pc[g], host[g]) /\ InInput(pc[g], host[g])
  BY DEF TypeOK, LedgerType, SpentType, Tiers
<1>2. /\ host[h] \in Local /\ host[h].input \in Inp /\ host[h].tier \in Tr
      /\ host[h].failures \in Nat /\ host[h].advice \in {"none", "held", "used"}
  <2>1. host[h] \in Local
    BY <1>1
  <2> QED
    BY <2>1 DEF Local, Tiers
<1>3. Local = [input : Inp, tier : Tr, guide : Inp, asked : Inp,
               failures : Nat, advice : {"none", "held", "used"}]
  BY DEF Local, Tiers
<1>4. Fresh \in Local
  BY DEF Fresh, Local
<1>5. /\ \A t \in Tiers : Attempt(t) => ledger' \in LedgerType
      /\ Outcome => ledger' \in LedgerType
      /\ UNCHANGED ledger => ledger' \in LedgerType
      /\ Executed(h) => ledger' \in LedgerType
      /\ \A t : Late(t) \in Nat
  BY LedgerSteps
(* What each step has to show.                                             *)
<1>6. ASSUME NEW s \in Steps, NEW l \in Local, InTier(s, l), InInput(s, l),
             pc' = [pc EXCEPT ![h] = s], host' = [host EXCEPT ![h] = l],
             need' = need, input' \in Inputs, plan' \in Inp, digest' \in Inp,
             ledger' \in LedgerType, spent' \in SpentType, usage' \subseteq Nat \X Inputs
      PROVE  TypeOK'
  <2>1. pc' \in [Hosts -> Steps] /\ host' \in [Hosts -> Local]
    BY <1>1, <1>6
  <2>2. \A g \in Hosts : InTier(pc'[g], host'[g]) /\ InInput(pc'[g], host'[g])
    <3> SUFFICES ASSUME NEW g \in Hosts
                 PROVE  InTier(pc'[g], host'[g]) /\ InInput(pc'[g], host'[g])
      OBVIOUS
    <3> HIDE DEF InTier, InInput
    <3>1. CASE g = h
      BY <1>1, <1>6, <3>1
    <3>2. CASE g # h
      BY <1>1, <1>6, <3>2
    <3> QED
      BY <3>1, <3>2
  <2> QED
    BY <1>1, <1>6, <2>1, <2>2 DEF TypeOK, LedgerType, SpentType, Tiers
<1> DEFINE Keeps(l) == host' = [host EXCEPT ![h] = l]
<1>7. Steps = {"idle", "prepare", "planning", "savePlan", "saveDigest",
               "execute", "advise", "advising", "account"}
  BY DEF Steps
<1>8. host' = host => Keeps(host[h])
  BY <1>1
<1> HIDE DEF Inp, Tr
<1>10. CASE SkipPlanning(h)
  <2> DEFINE l == [host[h] EXCEPT !.guide = NoInput, !.asked = input]
  <2>1. l \in Local
    BY <1>1, <1>2, <1>3 DEF Inp
  <2>2. Keeps(l) /\ pc' = [pc EXCEPT ![h] = "execute"]
    BY <1>10 DEF SkipPlanning, Go
  <2> QED
    BY <1>1, <1>5, <1>6, <1>7, <1>10, <2>1, <2>2 DEF SkipPlanning
<1>11. CASE ReusePlan(h)
  <2> DEFINE l == [host[h] EXCEPT !.guide = plan, !.asked = input]
  <2>1. l \in Local
    BY <1>1, <1>2, <1>3 DEF Inp
  <2>2. Keeps(l) /\ pc' = [pc EXCEPT ![h] = "execute"]
    BY <1>11 DEF ReusePlan, Go
  <2> QED
    BY <1>1, <1>5, <1>6, <1>7, <1>11, <2>1, <2>2 DEF ReusePlan
<1>12. CASE ChoosePlanner(h)
  <2>1. PICK t \in Selected(PlannerRequirements, PlannerAsk) :
          /\ Go(h, "idle", IF t = "none" THEN "execute" ELSE "prepare")
          /\ host' = [host EXCEPT ![h].tier = t, ![h].input = input,
                                  ![h].guide = NoInput, ![h].asked = input]
    BY <1>12 DEF ChoosePlanner
  <2> DEFINE l == [host[h] EXCEPT !.tier = t, !.input = input, !.guide = NoInput, !.asked = input]
             s == IF t = "none" THEN "execute" ELSE "prepare"
  <2>2. t \in Tr
    BY SelectedIsAnswerable, AsksNameTheWork DEF Answerable, Tr
  <2>3. l \in Local
    BY <1>1, <1>2, <1>3, <2>2 DEF Inp
  <2>4. Keeps(l) /\ pc' = [pc EXCEPT ![h] = s]
    BY <2>1 DEF Go
  <2>5. InTier(s, l) /\ InInput(s, l) /\ s \in Steps
    BY <1>2, <1>3, <1>7
  <2> QED
    BY <1>1, <1>5, <1>6, <1>12, <2>3, <2>4, <2>5 DEF ChoosePlanner
<1>13. CASE PreparePlanner(h)
  <2>1. pc[h] = "prepare" /\ host[h].tier \in Tiers
    BY <1>1, <1>2, <1>13 DEF PreparePlanner, Go, Tr
  <2>2. ledger' \in LedgerType
    BY <1>5, <1>13, <2>1 DEF PreparePlanner
  <2>3. spent' \in SpentType
    BY <1>1, <1>5, <1>13 DEF PreparePlanner, SpentType
  <2>4. \E s \in {"planning", "execute"} : pc' = [pc EXCEPT ![h] = s]
    BY <1>13 DEF PreparePlanner, Go
  <2>5. InTier("planning", host[h]) /\ InInput("planning", host[h])
    BY <2>1, NoneIsNoTier
  <2> QED
    BY <1>1, <1>2, <1>6, <1>7, <1>8, <1>13, <2>2, <2>3, <2>4, <2>5 DEF PreparePlanner
<1>14. CASE PlannerEnds(h)
  <2>1. ledger' \in LedgerType /\ spent' \in SpentType
    BY <1>1, <1>5, <1>14 DEF PlannerEnds, SpentType
  <2>2. \E s \in {"savePlan", "execute"} : pc' = [pc EXCEPT ![h] = s]
    BY <1>14 DEF PlannerEnds, Go
  <2> QED
    BY <1>1, <1>2, <1>6, <1>7, <1>8, <1>14, <2>1, <2>2 DEF PlannerEnds
<1>15. CASE SavePlan(h)
  <2>1. pc' = [pc EXCEPT ![h] = "saveDigest"] /\ plan' \in Inp
    BY <1>2, <1>15 DEF SavePlan, Go
  <2> QED
    BY <1>1, <1>2, <1>5, <1>6, <1>7, <1>8, <1>15, <2>1 DEF SavePlan
<1>16. CASE SaveDigest(h)
  <2> DEFINE l == [host[h] EXCEPT !.guide = host[h].input]
  <2>1. pc' = [pc EXCEPT ![h] = "execute"] /\ digest' \in Inp /\ Keeps(l)
    BY <1>2, <1>16 DEF SaveDigest, Go
  <2>2. l \in Local
    BY <1>2, <1>3
  <2> QED
    BY <1>1, <1>5, <1>6, <1>7, <1>16, <2>1, <2>2 DEF SaveDigest
<1>17. CASE SaveFails(h)
  BY <1>1, <1>2, <1>5, <1>6, <1>7, <1>8, <1>17 DEF SaveFails
<1>18. CASE ExecutorSucceeds(h)
  <2>1. spent' \in SpentType
    BY <1>1, <1>18 DEF ExecutorSucceeds, SpentType
  <2>2. Executed(h)
    BY <1>18 DEF ExecutorSucceeds
  <2>3. UNCHANGED <<need, plan, digest, usage>> /\ input' \in Inputs /\ ledger' \in LedgerType
    BY <1>5, <2>2 DEF Executed
  <2> QED
    BY <1>1, <1>4, <1>6, <1>7, <1>18, <2>1, <2>3 DEF ExecutorSucceeds
<1>19. CASE ExecutorFails(h)
  <2> DEFINE tries == host[h].failures + 1
             used  == IF host[h].advice = "none" THEN "none" ELSE "used"
             asked(t) == [Fresh EXCEPT !.tier = t, !.failures = tries, !.input = input']
             again == [Fresh EXCEPT !.failures = tries, !.advice = used]
  <2>1. \/ Keeps(again) /\ pc' = [pc EXCEPT ![h] = "idle"]
        \/ Keeps(Fresh) /\ pc' = [pc EXCEPT ![h] = "idle"]
        \/ \E t \in Selected(AdvisorRequirements, AdvisorAsk) :
             t # "none" /\ Keeps(asked(t)) /\ pc' = [pc EXCEPT ![h] = "advise"]
    BY <1>19 DEF ExecutorFails
  <2>2. \A t \in Selected(AdvisorRequirements, AdvisorAsk) : t \in Tr
    BY SelectedIsAnswerable, AsksNameTheWork DEF Answerable, Tr
  <2>3. Executed(h) /\ UNCHANGED spent
    BY <1>19 DEF ExecutorFails
  <2>7. input' \in Inputs /\ tries \in Nat /\ used \in {"none", "used"}
    BY <1>2, <2>3 DEF Executed
  <2>4. again \in Local /\ \A t \in Tr : asked(t) \in Local
    BY <1>3, <2>7 DEF Fresh, Inp, Tr
  <2>5. \A t : asked(t).tier = t /\ asked(t).input = input'
    BY DEF Fresh
  <2>6. UNCHANGED <<need, plan, digest, usage, spent>> /\ ledger' \in LedgerType
    BY <1>5, <2>3 DEF Executed
  <2> HIDE DEF again, asked, tries, used
  <2> QED
    BY <1>1, <1>4, <1>5, <1>6, <1>7, <2>1, <2>2, <2>4, <2>5, <2>6, <2>7
<1>20. CASE CallAdvisor(h)
  <2>1. pc[h] = "advise" /\ host[h].tier \in Tiers /\ host[h].input \in Inputs
    BY <1>1, <1>2, <1>20 DEF CallAdvisor, Go, Tr
  <2>2. ledger' \in LedgerType
    BY <1>5, <1>20, <2>1 DEF CallAdvisor
  <2>3. spent' \in SpentType
    BY <1>1, <1>5, <1>20 DEF CallAdvisor, SpentType
  <2>4. InTier("advising", host[h]) /\ InInput("advising", host[h])
    BY <2>1, NoneIsNoTier
  <2> QED
    BY <1>1, <1>2, <1>6, <1>7, <1>8, <1>20, <2>2, <2>3, <2>4 DEF CallAdvisor, Go
<1>21. CASE AdvisorEnds(h)
  <2>1. ledger' \in LedgerType
    BY <1>5, <1>21 DEF AdvisorEnds
  <2>2. pc[h] = "advising"
    BY <1>21 DEF AdvisorEnds, Go
  <2>3. \/ pc' = [pc EXCEPT ![h] = "idle"] /\ Keeps(Fresh)
        \/ pc' = [pc EXCEPT ![h] = "account"] /\ Keeps(host[h])
    BY <1>8, <1>21 DEF AdvisorEnds, Go
  <2>4. InTier("account", host[h]) /\ InInput("account", host[h])
    BY <1>1, <2>2
  <2> QED
    BY <1>1, <1>2, <1>4, <1>6, <1>7, <1>21, <2>1, <2>3, <2>4 DEF AdvisorEnds
<1>22. CASE AccountUsage(h)
  <2> DEFINE l == [host[h] EXCEPT !.advice = "held", !.tier = "none", !.input = NoInput]
  <2>1. pc[h] = "account" /\ pc' = [pc EXCEPT ![h] = "idle"] /\ Keeps(l)
    BY <1>22 DEF AccountUsage, Go
  <2>2. l \in Local
    BY <1>2, <1>3 DEF Inp, Tr
  <2>3. host[h].input \in Inputs
    BY <1>1, <2>1
  <2>4. usage' \subseteq Nat \X Inputs
    BY <1>1, <1>2, <1>22, <2>3 DEF AccountUsage
  <2>5. ledger' \in LedgerType
    <3>1. \/ ledger' = [ledger EXCEPT !.unaccounted = @ + 1, !.outcomes = @ + 1]
          \/ ledger' = [ledger EXCEPT !.recorded = @ + 1, !.outcomes = @ + 1]
      BY <1>22 DEF AccountUsage
    <3> QED
      BY <1>1, <3>1, AccountedLedger DEF LedgerType
  <2> QED
    BY <1>1, <1>6, <1>7, <1>22, <2>1, <2>2, <2>4, <2>5 DEF AccountUsage
<1>23. CASE Crash(h)
  <2>1. spent' \in SpentType
    BY <1>1, <1>23 DEF Crash, SpentType
  <2> QED
    BY <1>1, <1>4, <1>5, <1>6, <1>7, <1>23, <2>1 DEF Crash
<1> QED
  BY <1>10, <1>11, <1>12, <1>13, <1>14, <1>15, <1>16, <1>17, <1>18, <1>19,
     <1>20, <1>21, <1>22, <1>23 DEF HostStep

-----------------------------------------------------------------------------
(* Counting hosts.                                                         *)

(* Only h takes part in the step.                                          *)
Elsewhere(h) == \A g \in Hosts \ {h} : pc'[g] = pc[g] /\ host'[g] = host[g]

(* Sets of hosts are finite; two that differ in h at most.                 *)
LEMMA HostsCount ==
  ASSUME NEW S \in SUBSET Hosts
  PROVE  /\ IsFiniteSet(S) /\ Cardinality(S) \in Nat /\ Cardinality(Hosts) \in Nat
         /\ Cardinality(S) <= Cardinality(Hosts)
         /\ \A h \in Hosts \ S : Cardinality(S) <= Cardinality(Hosts) - 1
<1>1. IsFiniteSet(S) /\ Cardinality(S) \in Nat /\ Cardinality(Hosts) \in Nat
  BY HostsAssumption, FS_Subset, FS_CardinalityType
<1>2. Cardinality(S) <= Cardinality(Hosts)
  BY HostsAssumption, FS_Subset
<1>3. ASSUME NEW h \in Hosts \ S PROVE Cardinality(S) <= Cardinality(Hosts) - 1
  <2>1. Cardinality(S) # Cardinality(Hosts)
    BY HostsAssumption, FS_Subset
  <2> QED
    BY <1>1, <1>2, <2>1
<1> QED
  BY <1>1, <1>2, <1>3

LEMMA HostMoves ==
  ASSUME NEW S \in SUBSET Hosts, NEW T \in SUBSET Hosts, NEW h \in Hosts,
         S \ {h} = T \ {h}
  PROVE  /\ h \in S /\ h \notin T => Cardinality(T) = Cardinality(S) - 1
         /\ h \notin S /\ h \in T => Cardinality(T) = Cardinality(S) + 1
         /\ (h \in S <=> h \in T) => T = S
<1>1. IsFiniteSet(S) /\ IsFiniteSet(T)
  BY HostsCount
<1>2. Cardinality(S) \in Nat /\ Cardinality(T) \in Nat
  BY HostsCount
<1>3. h \in S /\ h \notin T => Cardinality(T) = Cardinality(S) - 1
  <2>1. SUFFICES ASSUME h \in S, h \notin T PROVE Cardinality(T) = Cardinality(S) - 1
    OBVIOUS
  <2>2. T = S \ {h}
    BY <2>1
  <2> QED
    BY <1>1, <2>1, <2>2, FS_RemoveElement
<1>4. h \notin S /\ h \in T => Cardinality(T) = Cardinality(S) + 1
  <2>1. SUFFICES ASSUME h \notin S, h \in T PROVE Cardinality(T) = Cardinality(S) + 1
    OBVIOUS
  <2>2. T = S \cup {h}
    BY <2>1
  <2> QED
    BY <1>1, <2>1, <2>2, FS_AddElement
<1>5. (h \in S <=> h \in T) => T = S
  OBVIOUS
<1> QED
  BY <1>3, <1>4, <1>5

-----------------------------------------------------------------------------
(* Admission.                                                              *)

(* The ways a step of h concerns who is admitted: it is admitted on an     *)
(* answer of the pool, it makes its call, it accounts for usage, or none.  *)
Enters(h) ==
  /\ ~Admitted(h) /\ Admitted(h)'
  /\ host'[h].tier \in Tiers /\ Answerable(host'[h].tier)
  /\ ledger'.attempts = ledger.attempts /\ ledger'.unaccounted = ledger.unaccounted
  /\ spent'.late = spent.late

Calls(h) ==
  /\ Admitted(h) /\ ~Admitted(h)'
  /\ host[h].tier \in Tiers
  /\ ledger'.attempts = [ledger.attempts EXCEPT ![host[h].tier] = @ + 1]
  /\ ledger'.unaccounted = ledger.unaccounted
  /\ spent'.late = spent.late + Late(host[h].tier)

Leaves(h) ==
  /\ ~Admitted(h)'
  /\ ledger'.attempts = ledger.attempts
  /\ \/ ledger'.unaccounted = ledger.unaccounted
     \/ ~Admitted(h) /\ ledger'.unaccounted = ledger.unaccounted + 1
  /\ spent'.late = spent.late

(* A step of h leaves the other hosts where they are.                      *)
LEMMA HostStepElsewhere ==
  ASSUME TypeOK, NEW h \in Hosts, HostStep(h) \/ Crash(h)
  PROVE  Elsewhere(h)
<1>1. /\ DOMAIN pc = Hosts /\ DOMAIN host = Hosts
      /\ pc = [g \in Hosts |-> pc[g]] /\ host = [g \in Hosts |-> host[g]]
  BY DEF TypeOK
<1>2. \A l : (host' = host \/ host' = [host EXCEPT ![h] = l])
               => \A g \in Hosts \ {h} : host'[g] = host[g]
  BY <1>1
<1>3. \A s : pc' = [pc EXCEPT ![h] = s] => \A g \in Hosts \ {h} : pc'[g] = pc[g]
  BY <1>1
<1>4. CASE SkipPlanning(h) \/ ReusePlan(h) \/ ChoosePlanner(h)
  <2>1. \E s : pc' = [pc EXCEPT ![h] = s]
    BY <1>4 DEF SkipPlanning, ReusePlan, ChoosePlanner, Go
  <2>2. \E l : host' = [host EXCEPT ![h] = l]
    BY <1>4 DEF SkipPlanning, ReusePlan, ChoosePlanner
  <2> QED
    BY <1>2, <1>3, <2>1, <2>2 DEF Elsewhere
<1>5. CASE PreparePlanner(h) \/ PlannerEnds(h) \/ SavePlan(h) \/ SaveFails(h) \/ CallAdvisor(h)
  <2>1. \E s : pc' = [pc EXCEPT ![h] = s]
    BY <1>5 DEF PreparePlanner, PlannerEnds, SavePlan, SaveFails, CallAdvisor, Go
  <2>2. host' = host
    BY <1>5 DEF PreparePlanner, PlannerEnds, SavePlan, SaveFails, CallAdvisor
  <2> QED
    BY <1>2, <1>3, <2>1, <2>2 DEF Elsewhere
<1>6. CASE SaveDigest(h) \/ ExecutorSucceeds(h) \/ AccountUsage(h) \/ Crash(h)
  <2>1. \E s : pc' = [pc EXCEPT ![h] = s]
    BY <1>6 DEF SaveDigest, ExecutorSucceeds, AccountUsage, Crash, Go
  <2>2. \E l : host' = [host EXCEPT ![h] = l]
    BY <1>6 DEF SaveDigest, ExecutorSucceeds, AccountUsage, Crash
  <2> QED
    BY <1>2, <1>3, <2>1, <2>2 DEF Elsewhere
<1>7. CASE ExecutorFails(h)
  <2>1. \E s, l : pc' = [pc EXCEPT ![h] = s] /\ host' = [host EXCEPT ![h] = l]
    BY <1>7 DEF ExecutorFails
  <2> QED
    BY <1>2, <1>3, <2>1 DEF Elsewhere
<1>8. CASE AdvisorEnds(h)
  <2>1. \E s : pc' = [pc EXCEPT ![h] = s]
    BY <1>8 DEF AdvisorEnds, Go
  <2>2. host' = host \/ host' = [host EXCEPT ![h] = Fresh]
    BY <1>8 DEF AdvisorEnds
  <2> QED
    BY <1>2, <1>3, <2>1, <2>2 DEF Elsewhere
<1> QED
  BY <1>4, <1>5, <1>6, <1>7, <1>8 DEF HostStep

(* Every step of h is one of these ways.                                   *)
LEMMA HostStepAdmission ==
  ASSUME TypeOK, NEW h \in Hosts, HostStep(h) \/ Crash(h)
  PROVE  Enters(h) \/ Calls(h) \/ Leaves(h)
<1>1. /\ pc \in [Hosts -> Steps] /\ host \in [Hosts -> Local]
      /\ ledger \in LedgerType /\ spent \in SpentType
      /\ pc[h] \in {"prepare", "advise"} => host[h].tier # "none"
  BY DEF TypeOK, LedgerType, SpentType, Tiers
<1>2. /\ host[h] \in Local /\ host[h].tier \in Tiers \cup {"none"}
      /\ Admitted(h) => host[h].tier \in Tiers
  <2>1. host[h] \in Local
    BY <1>1
  <2>2. host[h].tier \in Tiers \cup {"none"}
    BY <2>1 DEF Local, Tiers
  <2> QED
    BY <1>1, <2>1, <2>2 DEF Admitted
<1>3. \A s : pc' = [pc EXCEPT ![h] = s] => pc'[h] = s
  BY <1>1
<1>4. pc'[h] \notin {"prepare", "advise"} => ~Admitted(h)'
  BY DEF Admitted
<1>5. \A l : host' = [host EXCEPT ![h] = l] => host'[h] = l
  BY <1>1
(* A step that leaves the ledger and ends elsewhere.                       *)
<1>6. ASSUME ~Admitted(h)', ledger' = ledger, spent' = spent PROVE Leaves(h)
  BY <1>6 DEF Leaves
<1>7. Outcome => ledger'.attempts = ledger.attempts /\ ledger'.unaccounted = ledger.unaccounted
  BY <1>1 DEF Outcome, LedgerType
<1>8. ASSUME Attempt(host[h].tier)
      PROVE  /\ ledger'.attempts = [ledger.attempts EXCEPT ![host[h].tier] = @ + 1]
             /\ ledger'.unaccounted = ledger.unaccounted
  BY <1>1, <1>8 DEF Attempt, LedgerType
<1>10. CASE SkipPlanning(h) \/ ReusePlan(h) \/ SaveDigest(h)
  <2>1. pc' = [pc EXCEPT ![h] = "execute"]
    BY <1>10 DEF SkipPlanning, ReusePlan, SaveDigest, Go
  <2>2. ledger' = ledger /\ spent' = spent
    BY <1>10 DEF SkipPlanning, ReusePlan, SaveDigest
  <2> QED
    BY <1>1, <1>4, <1>6, <2>1, <2>2
<1>11. CASE ChoosePlanner(h)
  <2>1. PICK t \in Selected(PlannerRequirements, PlannerAsk) :
          /\ Go(h, "idle", IF t = "none" THEN "execute" ELSE "prepare")
          /\ host' = [host EXCEPT ![h].tier = t, ![h].input = input,
                                  ![h].guide = NoInput, ![h].asked = input]
    BY <1>11 DEF ChoosePlanner
  <2>2. Answerable(t)
    BY SelectedIsAnswerable, AsksNameTheWork
  <2>3. ledger' = ledger /\ spent' = spent /\ pc[h] = "idle"
    BY <1>11 DEF ChoosePlanner
  <2>4. host'[h].tier = t
    <3>1. host'[h] = [host[h] EXCEPT !.tier = t, !.input = input, !.guide = NoInput, !.asked = input]
      BY <1>1, <2>1
    <3> QED
      BY <1>2, <3>1 DEF Local
  <2>5. CASE t = "none"
    <3>1. pc' = [pc EXCEPT ![h] = "execute"]
      BY <2>1, <2>5 DEF Go
    <3> QED
      BY <1>1, <1>4, <1>6, <2>3, <3>1
  <2>6. CASE t # "none"
    <3>1. pc'[h] = "prepare"
      BY <1>1, <2>1, <2>6 DEF Go
    <3>2. ~Admitted(h) /\ Admitted(h)'
      BY <2>3, <3>1 DEF Admitted
    <3>3. t \in Tiers
      BY <2>2, <2>6 DEF Answerable
    <3> QED
      BY <2>2, <2>3, <2>4, <3>2, <3>3 DEF Enters
  <2> QED
    BY <2>5, <2>6
<1>12. CASE PreparePlanner(h)
  <2>1. Admitted(h) /\ host[h].tier \in Tiers
    BY <1>2, <1>12 DEF PreparePlanner, Go, Admitted
  <2>2. CASE Go(h, "prepare", "planning") /\ Attempt(host[h].tier)
             /\ spent' = [spent EXCEPT !.late = @ + Late(host[h].tier)]
    <3>1. ~Admitted(h)'
      BY <1>1, <1>4, <2>2 DEF Go
    <3>2. spent'.late = spent.late + Late(host[h].tier)
      BY <1>1, <2>2 DEF SpentType
    <3> QED
      BY <1>8, <2>1, <2>2, <3>1, <3>2 DEF Calls
  <2>3. CASE Go(h, "prepare", "execute") /\ Outcome
             /\ spent' = [spent EXCEPT !.unprepared = @ + 1]
    <3>1. ~Admitted(h)'
      BY <1>1, <1>4, <2>3 DEF Go
    <3>2. spent'.late = spent.late
      BY <1>1, <2>3 DEF SpentType
    <3> QED
      BY <1>7, <2>3, <3>1, <3>2 DEF Leaves
  <2> QED
    BY <1>12, <2>2, <2>3 DEF PreparePlanner
<1>13. CASE PlannerEnds(h)
  <2>1. ~Admitted(h)'
    BY <1>1, <1>4, <1>13 DEF PlannerEnds, Go
  <2>2. spent'.late = spent.late
    BY <1>1, <1>13 DEF PlannerEnds, SpentType
  <2> QED
    BY <1>7, <1>13, <2>1, <2>2 DEF PlannerEnds, Leaves
<1>14. CASE SavePlan(h) \/ SaveFails(h)
  <2>1. ~Admitted(h)'
    BY <1>1, <1>4, <1>14 DEF SavePlan, SaveFails, Go
  <2>2. ledger' = ledger /\ spent' = spent
    BY <1>14 DEF SavePlan, SaveFails
  <2> QED
    BY <1>6, <2>1, <2>2
<1>15. CASE ExecutorSucceeds(h) \/ Crash(h)
  <2>1. pc' = [pc EXCEPT ![h] = "idle"]
    BY <1>15 DEF ExecutorSucceeds, Crash
  <2>2. ledger'.attempts = ledger.attempts /\ ledger'.unaccounted = ledger.unaccounted
    BY <1>15, ExecutedKeeps DEF ExecutorSucceeds, Crash
  <2>3. spent'.late = spent.late
    BY <1>1, <1>15 DEF ExecutorSucceeds, Crash, SpentType
  <2> QED
    BY <1>1, <1>4, <2>1, <2>2, <2>3 DEF Leaves
<1>16. CASE ExecutorFails(h)
  <2>1. \/ pc' = [pc EXCEPT ![h] = "idle"]
        \/ \E t \in Selected(AdvisorRequirements, AdvisorAsk) :
             /\ t # "none" /\ pc' = [pc EXCEPT ![h] = "advise"]
             /\ host' = [host EXCEPT ![h] =
                  [Fresh EXCEPT !.tier = t, !.failures = host[h].failures + 1, !.input = input']]
    BY <1>16 DEF ExecutorFails
  <2>2. Executed(h) /\ spent' = spent
    BY <1>16 DEF ExecutorFails
  <2>3. /\ ledger'.attempts = ledger.attempts /\ ledger'.unaccounted = ledger.unaccounted
        /\ pc[h] = "execute"
    BY <2>2, ExecutedKeeps DEF Executed
  <2>4. CASE pc' = [pc EXCEPT ![h] = "idle"]
    BY <1>1, <1>4, <2>2, <2>3, <2>4 DEF Leaves
  <2>5. ASSUME NEW t \in Selected(AdvisorRequirements, AdvisorAsk), t # "none",
               pc' = [pc EXCEPT ![h] = "advise"],
               host' = [host EXCEPT ![h] =
                 [Fresh EXCEPT !.tier = t, !.failures = host[h].failures + 1, !.input = input']]
        PROVE  Enters(h)
    <3>1. Answerable(t)
      BY SelectedIsAnswerable, AsksNameTheWork
    <3>2. host'[h].tier = t
      BY <1>5, <2>5 DEF Fresh
    <3>3. ~Admitted(h) /\ Admitted(h)'
      BY <1>3, <2>3, <2>5 DEF Admitted
    <3>4. t \in Tiers
      BY <2>5, <3>1 DEF Answerable
    <3> QED
      BY <2>2, <2>3, <3>1, <3>2, <3>3, <3>4 DEF Enters
  <2> QED
    BY <2>1, <2>4, <2>5
<1>17. CASE CallAdvisor(h)
  <2>1. Admitted(h) /\ host[h].tier \in Tiers
    BY <1>2, <1>17 DEF CallAdvisor, Go, Admitted
  <2>2. ~Admitted(h)'
    BY <1>1, <1>4, <1>17 DEF CallAdvisor, Go
  <2>3. spent'.late = spent.late + Late(host[h].tier)
    BY <1>1, <1>17 DEF CallAdvisor, SpentType
  <2>4. Attempt(host[h].tier)
    BY <1>17 DEF CallAdvisor
  <2> QED
    BY <1>8, <2>1, <2>2, <2>3, <2>4 DEF Calls
<1>18. CASE AdvisorEnds(h)
  <2>1. ~Admitted(h)'
    BY <1>1, <1>4, <1>18 DEF AdvisorEnds, Go
  <2>2. Outcome \/ ledger' = ledger
    BY <1>18 DEF AdvisorEnds
  <2>3. spent' = spent
    BY <1>18 DEF AdvisorEnds
  <2> QED
    BY <1>7, <2>1, <2>2, <2>3 DEF Leaves
<1>19. CASE AccountUsage(h)
  <2>1. ~Admitted(h) /\ ~Admitted(h)'
    BY <1>1, <1>4, <1>19 DEF AccountUsage, Go, Admitted
  <2>2. \/ ledger' = [ledger EXCEPT !.unaccounted = @ + 1, !.outcomes = @ + 1]
        \/ ledger' = [ledger EXCEPT !.recorded = @ + 1, !.outcomes = @ + 1]
    BY <1>19 DEF AccountUsage
  <2>3. /\ ledger'.attempts = ledger.attempts
        /\ \/ ledger'.unaccounted = ledger.unaccounted
           \/ ledger'.unaccounted = ledger.unaccounted + 1
    BY <1>1, <2>2 DEF LedgerType
  <2>4. spent' = spent
    BY <1>19 DEF AccountUsage
  <2> QED
    BY <2>1, <2>3, <2>4 DEF Leaves
<1> QED
  BY <1>10, <1>11, <1>12, <1>13, <1>14, <1>15, <1>16, <1>17, <1>18, <1>19 DEF HostStep

(* Admitted hosts stay within the budget of every tier.                    *)
LEMMA HostStepInBudget ==
  ASSUME TypeOK, AdmittedInBudget, NEW h \in Hosts, HostStep(h) \/ Crash(h)
  PROVE  AdmittedInBudget'
<1> SUFFICES ASSUME NEW t \in DOMAIN Pool.budgets
             PROVE  ledger'.attempts[t] + Cardinality(AdmittedTo(t)')
                      <= Pool.budgets[t] + Cardinality(Hosts) - 1
  BY DEF AdmittedInBudget
<1> DEFINE S == AdmittedTo(t)
           T == AdmittedTo(t)'
<1>1. S \in SUBSET Hosts /\ T \in SUBSET Hosts
  BY DEF AdmittedTo
<1>2. S \ {h} = T \ {h}
  BY HostStepElsewhere DEF Elsewhere, AdmittedTo, Admitted
<1>3. /\ h \in S <=> Admitted(h) /\ host[h].tier = t
      /\ h \in T <=> Admitted(h)' /\ host'[h].tier = t
  BY DEF AdmittedTo
<1>4. /\ ledger.attempts \in [Tiers -> Nat] /\ Pool.budgets[t] \in Nat
      /\ t \in Tiers /\ ledger.attempts[t] \in Nat
  BY PoolAssumption DEF TypeOK, Tiers
<1>5. ledger.attempts[t] + Cardinality(S) <= Pool.budgets[t] + Cardinality(Hosts) - 1
  BY DEF AdmittedInBudget
<1> HIDE DEF S, T
<1>6. /\ Cardinality(S) \in Nat /\ Cardinality(T) \in Nat /\ Cardinality(Hosts) \in Nat
      /\ Cardinality(T) <= Cardinality(Hosts)
  BY <1>1, HostsCount
<1>7. /\ h \in S /\ h \notin T => Cardinality(T) = Cardinality(S) - 1
      /\ h \notin S /\ h \in T => Cardinality(T) = Cardinality(S) + 1
      /\ (h \in S <=> h \in T) => Cardinality(T) = Cardinality(S)
  BY <1>1, <1>2, HostMoves
<1>8. ledger'.attempts[t] + Cardinality(T) <= Pool.budgets[t] + Cardinality(Hosts) - 1
  <2>1. CASE Enters(h)
    <3>1. ledger'.attempts[t] = ledger.attempts[t]
      BY <2>1 DEF Enters
    <3>2. CASE host'[h].tier = t
      <4>1. ledger.attempts[t] < Pool.budgets[t]
        BY <2>1, <3>2, NoneIsNoTier DEF Enters, Answerable
      <4> QED
        BY <1>4, <1>6, <3>1, <4>1
    <3>3. CASE host'[h].tier # t
      <4>1. h \notin S /\ h \notin T
        BY <1>3, <2>1, <3>3 DEF Enters
      <4> QED
        BY <1>5, <1>7, <3>1, <4>1
    <3> QED
      BY <3>2, <3>3
  <2>2. CASE Calls(h)
    <3>1. h \notin T
      BY <1>3, <2>2 DEF Calls
    <3>2. CASE host[h].tier = t
      <4>1. h \in S /\ ledger'.attempts[t] = ledger.attempts[t] + 1
        BY <1>3, <1>4, <2>2, <3>2 DEF Calls
      <4> QED
        BY <1>4, <1>5, <1>6, <1>7, <3>1, <4>1
    <3>3. CASE host[h].tier # t
      <4>1. h \notin S /\ ledger'.attempts[t] = ledger.attempts[t]
        BY <1>3, <1>4, <2>2, <3>3 DEF Calls
      <4> QED
        BY <1>5, <1>7, <3>1, <4>1
    <3> QED
      BY <3>2, <3>3
  <2>3. CASE Leaves(h)
    <3>1. h \notin T /\ ledger'.attempts[t] = ledger.attempts[t]
      BY <1>3, <2>3 DEF Leaves
    <3> QED
      BY <1>4, <1>5, <1>6, <1>7, <3>1
  <2> QED
    BY <2>1, <2>2, <2>3, HostStepAdmission
<1> QED
  BY <1>8 DEF T

(* Paid calls begin late only where they were admitted before.             *)
LEMMA HostStepAccounted ==
  ASSUME TypeOK, AdmittedWhileAccounted, NEW h \in Hosts, HostStep(h) \/ Crash(h)
  PROVE  AdmittedWhileAccounted'
<1> DEFINE S == AdmittedPaid
           T == AdmittedPaid'
           u == ledger.unaccounted
           v == ledger'.unaccounted
           m == spent.late
           n == spent'.late
           H == Cardinality(Hosts)
<1>1. S \in SUBSET Hosts /\ T \in SUBSET Hosts
  BY DEF AdmittedPaid
<1>2. S \ {h} = T \ {h}
  BY HostStepElsewhere DEF Elsewhere, AdmittedPaid, Admitted
<1>3. /\ h \in S <=> Admitted(h) /\ Paid(host[h].tier)
      /\ h \in T <=> Admitted(h)' /\ Paid(host'[h].tier)
  BY DEF AdmittedPaid
<1>4. u \in Nat /\ m \in Nat
  BY DEF TypeOK
<1>5. (u = 0 => m = 0) /\ (u > 0 => m + Cardinality(S) <= H - 1)
  BY DEF AdmittedWhileAccounted
<1>6. /\ Cardinality(S) \in Nat /\ Cardinality(T) \in Nat /\ H \in Nat
      /\ h \notin T => Cardinality(T) <= H - 1
  BY <1>1, HostsCount
<1>7. /\ h \in S /\ h \notin T => Cardinality(T) = Cardinality(S) - 1
      /\ h \notin S /\ h \in T => Cardinality(T) = Cardinality(S) + 1
      /\ (h \in S <=> h \in T) => Cardinality(T) = Cardinality(S)
  BY <1>1, <1>2, HostMoves
<1>8. CASE Enters(h)
  <2>1. v = u /\ n = m /\ h \notin S
    BY <1>3, <1>8 DEF Enters
  <2>2. h \in T => u = 0
    BY <1>3, <1>8, NoneIsNoTier DEF Enters, Answerable
  <2> HIDE DEF S, T, u, v, m, n, H
  <2>3. (v = 0 => n = 0) /\ (v > 0 => n + Cardinality(T) <= H - 1)
    BY <1>5, <1>7, <2>1, <2>2
  <2> QED
    BY <2>3 DEF AdmittedWhileAccounted, T, v, n, H
<1>9. CASE Calls(h)
  <2>1. v = u /\ h \notin T
    BY <1>3, <1>9 DEF Calls
  <2>2. n = m + Late(host[h].tier)
    BY <1>9 DEF Calls
  <2>3. Late(host[h].tier) = IF h \in S /\ u > 0 THEN 1 ELSE 0
    BY <1>3, <1>9 DEF Late, Calls
  <2> HIDE DEF S, T, u, v, m, n, H
  <2>4. (v = 0 => n = 0) /\ (v > 0 => n + Cardinality(T) <= H - 1)
    BY <1>4, <1>5, <1>6, <1>7, <2>1, <2>2, <2>3
  <2> QED
    BY <2>4 DEF AdmittedWhileAccounted, T, v, n, H
<1>10. CASE Leaves(h)
  <2>1. n = m /\ h \notin T /\ (v = u \/ (h \notin S /\ v = u + 1))
    BY <1>3, <1>10 DEF Leaves
  <2> HIDE DEF S, T, u, v, m, n, H
  <2>2. (v = 0 => n = 0) /\ (v > 0 => n + Cardinality(T) <= H - 1)
    BY <1>4, <1>5, <1>6, <1>7, <2>1
  <2> QED
    BY <2>2 DEF AdmittedWhileAccounted, T, v, n, H
<1> QED
  BY <1>8, <1>9, <1>10, HostStepAdmission

-----------------------------------------------------------------------------
(* The two files of a plan.                                                *)

PlansFit == AskedForItsInput /\ FilesAgree /\ PlanFitsItsInput

(* A step of h that writes neither file and gives up no save unnoticed.    *)
Reads(h) ==
  /\ plan' = plan /\ digest' = digest /\ (torn => torn')
  /\ pc'[h] # "saveDigest" /\ (pc[h] = "saveDigest" => torn')
  /\ \/ torn' \/ host'[h].guide = NoInput \/ host'[h].guide = host'[h].asked
     \/ host'[h].guide = host[h].guide /\ host'[h].asked = host[h].asked
  /\ pc'[h] \in {"prepare", "planning", "savePlan"} => host'[h].asked = host'[h].input

(* Such a step leaves every plan fitting.                                  *)
LEMMA ReadsKeep ==
  ASSUME TypeOK, PlansFit, NEW h \in Hosts, Elsewhere(h), Reads(h)
  PROVE  PlansFit'
<1>1. AskedForItsInput'
  BY DEF PlansFit, AskedForItsInput, Elsewhere, Reads
<1>2. FilesAgree'
  <2>1. SUFFICES ASSUME ~torn' PROVE /\ Saving' = {} => plan' = digest'
                                     /\ \A g \in Saving' : plan' = host'[g].input /\ Saving' = {g}
    BY DEF FilesAgree
  <2>2. ~torn /\ h \notin Saving /\ Saving' = Saving
    BY <2>1 DEF Reads, Saving, Elsewhere
  <2>3. \A g \in Saving : host'[g] = host[g]
    BY <2>2 DEF Elsewhere, Saving
  <2>4. /\ Saving = {} => plan = digest
        /\ \A g \in Saving : plan = host[g].input /\ Saving = {g}
    BY <2>2 DEF PlansFit, FilesAgree
  <2>5. plan' = plan /\ digest' = digest
    BY DEF Reads
  <2> HIDE DEF Saving
  <2> QED
    BY <2>2, <2>3, <2>4, <2>5
<1>3. PlanFitsItsInput'
  <2> SUFFICES ASSUME NEW g \in Hosts, host'[g].guide # NoInput
               PROVE  host'[g].guide = host'[g].asked \/ torn'
    BY DEF PlanFitsItsInput
  <2>1. host[g].guide # NoInput => host[g].guide = host[g].asked \/ torn
    BY DEF PlansFit, PlanFitsItsInput
  <2>2. CASE g = h
    BY <2>1, <2>2 DEF Reads
  <2>3. CASE g # h
    BY <2>1, <2>3 DEF Reads, Elsewhere
  <2> QED
    BY <2>2, <2>3
<1> QED
  BY <1>1, <1>2, <1>3 DEF PlansFit

(* Every step of h keeps the plans fitting.                                *)
LEMMA HostStepPlansFit ==
  ASSUME TypeOK, PlansFit, NEW h \in Hosts, HostStep(h) \/ Crash(h)
  PROVE  PlansFit'
<1>1. pc \in [Hosts -> Steps] /\ host \in [Hosts -> Local] /\ host[h] \in Local
  BY DEF TypeOK
<1>2. /\ \A s : pc' = [pc EXCEPT ![h] = s] => pc'[h] = s
      /\ \A l : host' = [host EXCEPT ![h] = l] => host'[h] = l
  BY <1>1
<1>3. Elsewhere(h)
  BY HostStepElsewhere
<1>4. pc[h] \in {"prepare", "planning", "savePlan", "saveDigest"} => host[h].asked = host[h].input
  BY DEF PlansFit, AskedForItsInput
<1>5. Fresh.guide = NoInput
  BY DEF Fresh
<1>10. CASE SkipPlanning(h)
  <2>1. host'[h] = [host[h] EXCEPT !.guide = NoInput, !.asked = input]
    BY <1>1, <1>10 DEF SkipPlanning
  <2>2. host'[h].guide = NoInput
    BY <1>1, <2>1 DEF Local
  <2>3. pc[h] = "idle" /\ pc'[h] = "execute"
    BY <1>1, <1>10 DEF SkipPlanning, Go
  <2>4. Reads(h)
    BY <1>10, <2>2, <2>3 DEF SkipPlanning, Reads
  <2> QED
    BY <1>3, <2>4, ReadsKeep
<1>11. CASE ReusePlan(h)
  <2>1. host'[h] = [host[h] EXCEPT !.guide = plan, !.asked = input]
    BY <1>1, <1>11 DEF ReusePlan
  <2>2. host'[h].guide = plan /\ host'[h].asked = input
    BY <1>1, <2>1 DEF Local
  <2>3. pc[h] = "idle" /\ pc'[h] = "execute"
    BY <1>1, <1>11 DEF ReusePlan, Go
  <2>4. digest = input
    BY <1>11 DEF ReusePlan, Cached
  <2>5. torn' \/ plan = digest
    <3>1. SUFFICES ASSUME ~torn' PROVE plan = digest
      OBVIOUS
    <3>2. ~torn /\ ~\E g \in Hosts \ {h} : pc[g] = "saveDigest"
      BY <1>11, <3>1 DEF ReusePlan
    <3>3. Saving = {}
      BY <2>3, <3>2 DEF Saving
    <3> QED
      BY <3>2, <3>3 DEF PlansFit, FilesAgree
  <2>6. torn => torn'
    BY <1>11 DEF ReusePlan
  <2>7. Reads(h)
    BY <1>11, <2>2, <2>3, <2>4, <2>5, <2>6 DEF ReusePlan, Reads
  <2> QED
    BY <1>3, <2>7, ReadsKeep
<1>12. CASE ChoosePlanner(h)
  <2>1. PICK t \in Selected(PlannerRequirements, PlannerAsk) :
          /\ Go(h, "idle", IF t = "none" THEN "execute" ELSE "prepare")
          /\ host' = [host EXCEPT ![h].tier = t, ![h].input = input,
                                  ![h].guide = NoInput, ![h].asked = input]
    BY <1>12 DEF ChoosePlanner
  <2>2. host'[h] = [host[h] EXCEPT !.tier = t, !.input = input, !.guide = NoInput, !.asked = input]
    BY <1>1, <2>1
  <2>3. host'[h].guide = NoInput /\ host'[h].asked = host'[h].input
    BY <1>1, <2>2 DEF Local
  <2>4. pc[h] = "idle" /\ pc'[h] \in {"execute", "prepare"}
    BY <1>1, <2>1 DEF Go
  <2>5. plan' = plan /\ digest' = digest /\ torn' = torn
    BY <1>12 DEF ChoosePlanner
  <2>6. Reads(h)
    BY <2>3, <2>4, <2>5 DEF Reads
  <2> QED
    BY <1>3, <2>6, ReadsKeep
<1>13. CASE PreparePlanner(h) \/ PlannerEnds(h) \/ CallAdvisor(h)
  <2>1. /\ plan' = plan /\ digest' = digest /\ torn' = torn /\ host' = host
    BY <1>13 DEF PreparePlanner, PlannerEnds, CallAdvisor
  <2>2. \/ pc[h] = "prepare" /\ pc'[h] \in {"planning", "execute"}
        \/ pc[h] = "planning" /\ pc'[h] \in {"execute", "savePlan"}
        \/ pc[h] = "advise" /\ pc'[h] = "advising"
    BY <1>1, <1>13 DEF PreparePlanner, PlannerEnds, CallAdvisor, Go
  <2>3. Reads(h)
    BY <1>4, <2>1, <2>2 DEF Reads
  <2> QED
    BY <1>3, <2>3, ReadsKeep
<1>14. CASE SavePlan(h)
  <2>1. /\ pc[h] = "savePlan" /\ pc' = [pc EXCEPT ![h] = "saveDigest"]
        /\ plan' = host[h].input /\ digest' = digest /\ host' = host
        /\ torn' = (torn \/ \E g \in Hosts \ {h} : pc[g] = "saveDigest")
    BY <1>14 DEF SavePlan, Go
  <2>2. pc'[h] = "saveDigest"
    BY <1>1, <2>1
  <2>3. AskedForItsInput'
    BY <1>4, <2>1, <2>2, <1>3 DEF PlansFit, AskedForItsInput, Elsewhere
  <2>4. FilesAgree'
    <3>1. SUFFICES ASSUME ~torn' PROVE /\ Saving' = {} => plan' = digest'
                                       /\ \A g \in Saving' : plan' = host'[g].input /\ Saving' = {g}
      BY DEF FilesAgree
    <3>2. \A g \in Hosts \ {h} : pc'[g] # "saveDigest"
      BY <1>3, <2>1, <3>1 DEF Elsewhere
    <3>3. Saving' = {h}
      BY <2>2, <3>2 DEF Saving
    <3> QED
      BY <2>1, <3>3
  <2>5. PlanFitsItsInput'
    BY <2>1 DEF PlansFit, PlanFitsItsInput
  <2> QED
    BY <2>3, <2>4, <2>5 DEF PlansFit
<1>15. CASE SaveDigest(h)
  <2>1. /\ pc[h] = "saveDigest" /\ pc' = [pc EXCEPT ![h] = "execute"]
        /\ digest' = host[h].input /\ plan' = plan /\ torn' = (torn /\ ~Mends(h))
        /\ host' = [host EXCEPT ![h].guide = host[h].input]
    BY <1>15 DEF SaveDigest, Go
  <2>2. pc'[h] = "execute"
    BY <1>1, <2>1
  <2>3. host'[h] = [host[h] EXCEPT !.guide = host[h].input]
    BY <1>1, <2>1
  <2>4. host'[h].guide = host[h].input /\ host'[h].asked = host[h].asked
    BY <1>1, <2>3 DEF Local
  <2>5. AskedForItsInput'
    BY <2>2, <1>3 DEF PlansFit, AskedForItsInput, Elsewhere
  <2>6. FilesAgree'
    <3>1. SUFFICES ASSUME ~torn' PROVE /\ Saving' = {} => plan' = digest'
                                       /\ \A g \in Saving' : plan' = host'[g].input /\ Saving' = {g}
      BY DEF FilesAgree
    <3>2. h \in Saving /\ (~torn \/ Mends(h))
      BY <2>1, <3>1 DEF Saving
    <3>3. plan = host[h].input /\ Saving = {h}
      <4>1. ~torn => plan = host[h].input /\ Saving = {h}
        BY <3>2 DEF PlansFit, FilesAgree
      <4>2. Mends(h) => plan = host[h].input /\ Saving = {h}
        BY <3>2 DEF Mends, Saving
      <4> QED
        BY <3>2, <4>1, <4>2
    <3>4. Saving' = {}
      BY <1>3, <2>2, <3>3 DEF Saving, Elsewhere
    <3> QED
      BY <2>1, <3>3, <3>4
  <2>7. PlanFitsItsInput'
    <3> SUFFICES ASSUME NEW g \in Hosts, host'[g].guide # NoInput, ~torn'
                 PROVE  host'[g].guide = host'[g].asked
      BY DEF PlanFitsItsInput
    <3>1. ~torn \/ Mends(h)
      BY <2>1
    <3>2. CASE g = h
      BY <1>4, <2>1, <2>4, <3>2
    <3>3. CASE g # h
      BY <1>3, <3>1, <3>3 DEF PlansFit, PlanFitsItsInput, Elsewhere, Mends
    <3> QED
      BY <3>2, <3>3
  <2> QED
    BY <2>5, <2>6, <2>7 DEF PlansFit
<1>16. CASE SaveFails(h)
  <2>1. /\ plan' = plan /\ digest' = digest /\ host' = host
        /\ pc'[h] = "execute" /\ torn' = (torn \/ pc[h] = "saveDigest")
    BY <1>1, <1>16 DEF SaveFails
  <2>2. Reads(h)
    BY <2>1 DEF Reads
  <2> QED
    BY <1>3, <2>2, ReadsKeep
<1>17. CASE ExecutorSucceeds(h) \/ Crash(h)
  <2>1. /\ plan' = plan /\ digest' = digest
        /\ host' = [host EXCEPT ![h] = Fresh] /\ pc' = [pc EXCEPT ![h] = "idle"]
        /\ (torn => torn') /\ (pc[h] = "saveDigest" => torn')
    <3>1. CASE ExecutorSucceeds(h)
      BY <3>1 DEF ExecutorSucceeds, Executed
    <3>2. CASE Crash(h)
      BY <3>2 DEF Crash
    <3> QED
      BY <1>17, <3>1, <3>2
  <2>2. pc'[h] = "idle" /\ host'[h].guide = NoInput
    BY <1>1, <1>5, <2>1
  <2>3. Reads(h)
    BY <2>1, <2>2 DEF Reads
  <2> QED
    BY <1>3, <2>3, ReadsKeep
<1>18. CASE ExecutorFails(h)
  <2>1. Executed(h)
    BY <1>18 DEF ExecutorFails
  <2>2. plan' = plan /\ digest' = digest /\ torn' = torn /\ pc[h] = "execute"
    BY <2>1 DEF Executed
  <2>3. PICK s, l : /\ pc' = [pc EXCEPT ![h] = s] /\ host' = [host EXCEPT ![h] = l]
                    /\ s \in {"idle", "advise"} /\ l.guide = NoInput
    <3> DEFINE tries == host[h].failures + 1
               used  == IF host[h].advice = "none" THEN "none" ELSE "used"
               asked(t) == [Fresh EXCEPT !.tier = t, !.failures = tries, !.input = input']
               again == [Fresh EXCEPT !.failures = tries, !.advice = used]
    <3>1. \/ host' = [host EXCEPT ![h] = again] /\ pc' = [pc EXCEPT ![h] = "idle"]
          \/ host' = [host EXCEPT ![h] = Fresh] /\ pc' = [pc EXCEPT ![h] = "idle"]
          \/ \E t : host' = [host EXCEPT ![h] = asked(t)] /\ pc' = [pc EXCEPT ![h] = "advise"]
      BY <1>18 DEF ExecutorFails
    <3>2. again.guide = NoInput /\ \A t : asked(t).guide = NoInput
      BY DEF Fresh
    <3> HIDE DEF again, asked
    <3> QED
      BY <1>5, <3>1, <3>2
  <2>4. pc'[h] \in {"idle", "advise"} /\ host'[h].guide = NoInput
    BY <1>1, <2>3
  <2>5. Reads(h)
    BY <2>2, <2>4 DEF Reads
  <2> QED
    BY <1>3, <2>5, ReadsKeep
<1>19. CASE AdvisorEnds(h)
  <2>1. /\ plan' = plan /\ digest' = digest /\ torn' = torn /\ pc[h] = "advising"
    BY <1>19 DEF AdvisorEnds, Go
  <2>2. pc'[h] \in {"idle", "account"}
    BY <1>1, <1>19 DEF AdvisorEnds, Go
  <2>3. host' = host \/ host'[h].guide = NoInput
    BY <1>1, <1>5, <1>19 DEF AdvisorEnds
  <2>4. Reads(h)
    BY <2>1, <2>2, <2>3 DEF Reads
  <2> QED
    BY <1>3, <2>4, ReadsKeep
<1>20. CASE AccountUsage(h)
  <2>1. /\ plan' = plan /\ digest' = digest /\ torn' = torn /\ pc[h] = "account"
    BY <1>20 DEF AccountUsage, Go
  <2>2. pc'[h] = "idle"
    BY <1>1, <1>20 DEF AccountUsage, Go
  <2>3. host'[h] = [host[h] EXCEPT !.advice = "held", !.tier = "none", !.input = NoInput]
    BY <1>1, <1>20 DEF AccountUsage
  <2>4. host'[h].guide = host[h].guide /\ host'[h].asked = host[h].asked
    BY <1>1, <2>3 DEF Local
  <2>5. Reads(h)
    BY <2>1, <2>2, <2>4 DEF Reads
  <2> QED
    BY <1>3, <2>5, ReadsKeep
<1> QED
  BY <1>10, <1>11, <1>12, <1>13, <1>14, <1>15, <1>16, <1>17, <1>18, <1>19, <1>20 DEF HostStep

-----------------------------------------------------------------------------
(* The balance of attempts and outcomes.                                   *)

Between == {h \in Hosts : Attempted(h)}

(* One more attempt of a tier is one more attempt.                         *)
LEMMA AttemptsCount ==
  ASSUME ledger.attempts \in [Tiers -> Nat]
  PROVE  /\ Attempts \in Nat
         /\ \A t \in Tiers : ledger'.attempts = [ledger.attempts EXCEPT ![t] = @ + 1]
                             => Attempts' = Attempts + 1
         /\ ledger'.attempts = ledger.attempts => Attempts' = Attempts
<1> DEFINE a == ledger.attempts
           b == ledger'.attempts
<1>1. /\ a["local"] \in Nat /\ a["free"] \in Nat /\ a["paid-efficient"] \in Nat
      /\ a["paid-standard"] \in Nat /\ a["frontier"] \in Nat
  BY TierRanks
<1>2. Attempts = a["local"] + a["free"] + a["paid-efficient"] + a["paid-standard"] + a["frontier"]
  BY DEF Attempts
<1>3. Attempts' = b["local"] + b["free"] + b["paid-efficient"] + b["paid-standard"] + b["frontier"]
  BY DEF Attempts
<1>4. ASSUME NEW t \in Tiers, b = [a EXCEPT ![t] = @ + 1] PROVE Attempts' = Attempts + 1
  <2>1. \A u \in Tiers : b[u] = IF u = t THEN a[u] + 1 ELSE a[u]
    BY <1>4
  <2>2. t \in {"local", "free", "paid-efficient", "paid-standard", "frontier"}
    BY TierRanks
  <2>3. /\ b["local"] = IF t = "local" THEN a["local"] + 1 ELSE a["local"]
        /\ b["free"] = IF t = "free" THEN a["free"] + 1 ELSE a["free"]
        /\ b["paid-efficient"] = IF t = "paid-efficient" THEN a["paid-efficient"] + 1
                                 ELSE a["paid-efficient"]
        /\ b["paid-standard"] = IF t = "paid-standard" THEN a["paid-standard"] + 1
                                ELSE a["paid-standard"]
        /\ b["frontier"] = IF t = "frontier" THEN a["frontier"] + 1 ELSE a["frontier"]
    <3> HIDE DEF a, b
    <3> QED
      BY <2>1, TierRanks
  <2> HIDE DEF a, b
  <2> QED
    BY <1>1, <1>2, <1>3, <2>2, <2>3
<1>5. b = a => Attempts' = Attempts
  BY <1>2, <1>3
<1>6. Attempts \in Nat
  BY <1>1, <1>2
<1> QED
  BY <1>4, <1>5, <1>6

(* What a step of h adds to the two sides of the balance.                  *)
Settles(before, after) ==
  Attempts' + spent'.unprepared + ledger.outcomes + spent.abandoned + before
    = Attempts + spent.unprepared + ledger'.outcomes + spent'.abandoned + after

LEMMA HostStepSettles ==
  ASSUME TypeOK, NEW h \in Hosts, HostStep(h) \/ Crash(h)
  PROVE  Settles(IF h \in Between THEN 1 ELSE 0, IF h \in Between' THEN 1 ELSE 0)
<1>1. /\ pc \in [Hosts -> Steps] /\ ledger \in LedgerType /\ spent \in SpentType
      /\ ledger.attempts \in [Tiers -> Nat]
      /\ Attempts \in Nat /\ ledger.outcomes \in Nat
      /\ spent.unprepared \in Nat /\ spent.abandoned \in Nat
  <2>1. pc \in [Hosts -> Steps] /\ ledger \in LedgerType /\ spent \in SpentType
    BY DEF TypeOK, LedgerType, SpentType, Tiers
  <2> QED
    BY <2>1, AttemptsCount DEF LedgerType, SpentType
<1>2. pc[h] \in {"prepare", "advise"} => host[h].tier \in Tiers
  <2>1. host[h] \in Local
    BY DEF TypeOK
  <2> QED
    BY <2>1 DEF TypeOK, Local, Tiers
<1>3. /\ h \in Between <=> pc[h] \in {"planning", "advising", "account"}
      /\ h \in Between' <=> pc'[h] \in {"planning", "advising", "account"}
  BY DEF Between, Attempted
<1>4. \A s : pc' = [pc EXCEPT ![h] = s] => pc'[h] = s
  BY <1>1
<1>5. /\ \A t \in Tiers : Attempt(t) => Attempts' = Attempts + 1 /\ ledger'.outcomes = ledger.outcomes
      /\ Outcome => Attempts' = Attempts /\ ledger'.outcomes = ledger.outcomes + 1
      /\ ledger' = ledger => Attempts' = Attempts /\ ledger'.outcomes = ledger.outcomes
      /\ Executed(h) => Attempts' = Attempts /\ ledger'.outcomes = ledger.outcomes
  <2>1. ASSUME NEW t \in Tiers, Attempt(t)
        PROVE  Attempts' = Attempts + 1 /\ ledger'.outcomes = ledger.outcomes
    <3>1. ledger'.attempts = [ledger.attempts EXCEPT ![t] = @ + 1] /\ ledger'.outcomes = ledger.outcomes
      BY <1>1, <2>1 DEF Attempt, LedgerType
    <3> QED
      BY <1>1, <3>1, AttemptsCount
  <2>2. ASSUME Outcome PROVE Attempts' = Attempts /\ ledger'.outcomes = ledger.outcomes + 1
    <3>1. ledger'.attempts = ledger.attempts /\ ledger'.outcomes = ledger.outcomes + 1
      BY <1>1, <2>2 DEF Outcome, LedgerType
    <3> QED
      BY <1>1, <3>1, AttemptsCount
  <2>3. ledger' = ledger => Attempts' = Attempts /\ ledger'.outcomes = ledger.outcomes
    BY <1>1, AttemptsCount
  <2>4. Executed(h) => Attempts' = Attempts /\ ledger'.outcomes = ledger.outcomes
    BY <1>1, ExecutedKeeps, AttemptsCount
  <2> QED
    BY <2>1, <2>2, <2>3, <2>4
<1>6. UNCHANGED spent => spent'.unprepared = spent.unprepared /\ spent'.abandoned = spent.abandoned
  OBVIOUS
(* A step that touches neither side.                                       *)
<1>7. ASSUME h \notin Between, h \notin Between', ledger' = ledger \/ Executed(h),
             spent'.unprepared = spent.unprepared, spent'.abandoned = spent.abandoned
      PROVE  Settles(0, 0)
  BY <1>5, <1>7 DEF Settles
<1>10. CASE SkipPlanning(h) \/ ReusePlan(h) \/ SavePlan(h) \/ SaveDigest(h) \/ SaveFails(h)
  <2>1. /\ pc[h] \in {"idle", "savePlan", "saveDigest"} /\ ledger' = ledger /\ spent' = spent
        /\ pc'[h] \in {"execute", "saveDigest"}
    BY <1>1, <1>10 DEF SkipPlanning, ReusePlan, SavePlan, SaveDigest, SaveFails, Go
  <2> QED
    BY <1>3, <1>6, <1>7, <2>1
<1>11. CASE ChoosePlanner(h)
  <2>1. pc[h] = "idle" /\ ledger' = ledger /\ spent' = spent
    BY <1>11 DEF ChoosePlanner
  <2>2. pc'[h] \in {"execute", "prepare"}
    BY <1>1, <1>11 DEF ChoosePlanner, Go
  <2> QED
    BY <1>3, <1>6, <1>7, <2>1, <2>2
<1>12. CASE PreparePlanner(h)
  <2>1. CASE Go(h, "prepare", "planning") /\ Attempt(host[h].tier)
             /\ spent' = [spent EXCEPT !.late = @ + Late(host[h].tier)]
    <3>1. h \notin Between /\ h \in Between'
      BY <1>1, <1>3, <2>1 DEF Go
    <3>2. Attempts' = Attempts + 1 /\ ledger'.outcomes = ledger.outcomes
      BY <1>2, <1>5, <2>1 DEF Go
    <3>3. spent'.unprepared = spent.unprepared /\ spent'.abandoned = spent.abandoned
      BY <1>1, <2>1 DEF SpentType
    <3> QED
      BY <1>1, <3>1, <3>2, <3>3 DEF Settles
  <2>2. CASE Go(h, "prepare", "execute") /\ Outcome
             /\ spent' = [spent EXCEPT !.unprepared = @ + 1]
    <3>1. h \notin Between /\ h \notin Between'
      BY <1>1, <1>3, <2>2 DEF Go
    <3>2. Attempts' = Attempts /\ ledger'.outcomes = ledger.outcomes + 1
      BY <1>5, <2>2
    <3>3. spent'.unprepared = spent.unprepared + 1 /\ spent'.abandoned = spent.abandoned
      BY <1>1, <2>2 DEF SpentType
    <3> QED
      BY <1>1, <3>1, <3>2, <3>3 DEF Settles
  <2> QED
    BY <1>12, <2>1, <2>2 DEF PreparePlanner
<1>13. CASE PlannerEnds(h)
  <2>1. h \in Between /\ h \notin Between'
    BY <1>1, <1>3, <1>13 DEF PlannerEnds, Go
  <2>2. Attempts' = Attempts /\ ledger'.outcomes = ledger.outcomes + 1
    BY <1>5, <1>13 DEF PlannerEnds
  <2>3. spent'.unprepared = spent.unprepared /\ spent'.abandoned = spent.abandoned
    BY <1>1, <1>13 DEF PlannerEnds, SpentType
  <2> QED
    BY <1>1, <2>1, <2>2, <2>3 DEF Settles
<1>14. CASE ExecutorSucceeds(h)
  <2>1. pc[h] = "execute" /\ Executed(h) /\ pc'[h] = "idle"
    BY <1>1, <1>14 DEF ExecutorSucceeds, Executed
  <2>2. spent'.unprepared = spent.unprepared /\ spent'.abandoned = spent.abandoned
    BY <1>1, <1>14 DEF ExecutorSucceeds, SpentType
  <2> QED
    BY <1>3, <1>7, <2>1, <2>2
<1>15. CASE ExecutorFails(h)
  <2>1. Executed(h) /\ spent' = spent
    BY <1>15 DEF ExecutorFails
  <2>2. pc[h] = "execute"
    BY <2>1 DEF Executed
  <2>3. pc' = [pc EXCEPT ![h] = "idle"] \/ pc' = [pc EXCEPT ![h] = "advise"]
    BY <1>15 DEF ExecutorFails
  <2>4. pc'[h] \in {"idle", "advise"}
    BY <1>1, <2>3
  <2> QED
    BY <1>3, <1>6, <1>7, <2>1, <2>2, <2>4
<1>16. CASE CallAdvisor(h)
  <2>1. h \notin Between /\ h \in Between' /\ pc[h] = "advise"
    BY <1>1, <1>3, <1>16 DEF CallAdvisor, Go
  <2>2. Attempt(host[h].tier)
    BY <1>16 DEF CallAdvisor
  <2>3. Attempts' = Attempts + 1 /\ ledger'.outcomes = ledger.outcomes
    BY <1>2, <1>5, <2>1, <2>2
  <2>4. spent'.unprepared = spent.unprepared /\ spent'.abandoned = spent.abandoned
    BY <1>1, <1>16 DEF CallAdvisor, SpentType
  <2>5. Settles(0, 1)
    BY <1>1, <2>3, <2>4 DEF Settles
  <2> QED
    BY <2>1, <2>5
<1>17. CASE AdvisorEnds(h)
  <2>1. spent' = spent
    BY <1>17 DEF AdvisorEnds
  <2>2. CASE Go(h, "advising", "idle") /\ Outcome
    <3>1. h \in Between /\ h \notin Between'
      BY <1>1, <1>3, <2>2 DEF Go
    <3> QED
      BY <1>1, <1>5, <1>6, <2>1, <2>2, <3>1 DEF Settles
  <2>3. CASE Go(h, "advising", "account") /\ ledger' = ledger
    <3>1. h \in Between /\ h \in Between'
      BY <1>1, <1>3, <2>3 DEF Go
    <3> QED
      BY <1>1, <1>5, <1>6, <2>1, <2>3, <3>1 DEF Settles
  <2> QED
    BY <1>17, <2>2, <2>3 DEF AdvisorEnds
<1>18. CASE AccountUsage(h)
  <2>1. h \in Between /\ h \notin Between'
    BY <1>1, <1>3, <1>18 DEF AccountUsage, Go
  <2>2. \/ ledger' = [ledger EXCEPT !.unaccounted = @ + 1, !.outcomes = @ + 1]
        \/ ledger' = [ledger EXCEPT !.recorded = @ + 1, !.outcomes = @ + 1]
    BY <1>18 DEF AccountUsage
  <2>3. ledger'.attempts = ledger.attempts /\ ledger'.outcomes = ledger.outcomes + 1
    BY <1>1, <2>2 DEF LedgerType
  <2>4. spent' = spent
    BY <1>18 DEF AccountUsage
  <2> QED
    BY <1>1, <1>6, <2>1, <2>3, <2>4, AttemptsCount DEF Settles
<1>19. CASE Crash(h)
  <2>1. ledger' = ledger /\ pc'[h] = "idle"
    BY <1>1, <1>19 DEF Crash
  <2>2. /\ spent'.unprepared = spent.unprepared
        /\ spent'.abandoned = spent.abandoned + (IF Attempted(h) THEN 1 ELSE 0)
    BY <1>1, <1>19 DEF Crash, SpentType
  <2>3. (h \in Between <=> Attempted(h)) /\ h \notin Between'
    BY <1>3, <2>1 DEF Between
  <2>4. CASE Attempted(h)
    BY <1>1, <1>5, <2>1, <2>2, <2>3, <2>4 DEF Settles
  <2>5. CASE ~Attempted(h)
    BY <1>1, <1>5, <2>1, <2>2, <2>3, <2>5 DEF Settles
  <2> QED
    BY <2>4, <2>5
<1> QED
  BY <1>10, <1>11, <1>12, <1>13, <1>14, <1>15, <1>16, <1>17, <1>18, <1>19 DEF HostStep

(* So the balance is kept.                                                 *)
LEMMA HostStepBalances ==
  ASSUME TypeOK, TypeOK', LedgerBalances, NEW h \in Hosts, HostStep(h) \/ Crash(h)
  PROVE  LedgerBalances'
<1> DEFINE b == IF h \in Between THEN 1 ELSE 0
           a == IF h \in Between' THEN 1 ELSE 0
           n == Cardinality(Between)
           m == Cardinality(Between')
<1>1. Settles(b, a)
  BY HostStepSettles
<1>2. Between \in SUBSET Hosts /\ Between' \in SUBSET Hosts
  BY DEF Between
<1>3. Between \ {h} = Between' \ {h}
  BY HostStepElsewhere DEF Elsewhere, Between, Attempted
<1>4. n \in Nat /\ m \in Nat
  BY <1>2, HostsCount
<1>5. m + b = n + a
  <2>1. /\ h \in Between /\ h \notin Between' => m = n - 1
        /\ h \notin Between /\ h \in Between' => m = n + 1
        /\ (h \in Between <=> h \in Between') => m = n
    BY <1>2, <1>3, HostMoves
  <2> HIDE DEF n, m
  <2> QED
    BY <1>4, <2>1
<1>6. Attempts + spent.unprepared = ledger.outcomes + spent.abandoned + n
  BY DEF LedgerBalances, Between
<1>7. /\ Attempts \in Nat /\ ledger.outcomes \in Nat
      /\ spent.unprepared \in Nat /\ spent.abandoned \in Nat
  BY AttemptsCount DEF TypeOK, Tiers
<1>8. /\ Attempts' \in Nat /\ ledger'.outcomes \in Nat
      /\ spent'.unprepared \in Nat /\ spent'.abandoned \in Nat
  <2>1. /\ ledger' \in LedgerType /\ spent' \in SpentType
    BY DEF TypeOK, LedgerType, SpentType, Tiers
  <2>2. /\ ledger'.attempts \in [Tiers -> Nat] /\ ledger'.outcomes \in Nat
        /\ spent'.unprepared \in Nat /\ spent'.abandoned \in Nat
    BY <2>1 DEF LedgerType, SpentType
  <2>3. /\ ledger'.attempts["local"] \in Nat /\ ledger'.attempts["free"] \in Nat
        /\ ledger'.attempts["paid-efficient"] \in Nat
        /\ ledger'.attempts["paid-standard"] \in Nat /\ ledger'.attempts["frontier"] \in Nat
    BY <2>2, TierRanks
  <2> QED
    BY <2>2, <2>3 DEF Attempts
<1>9. Attempts' + spent'.unprepared = ledger'.outcomes + spent'.abandoned + m
  <2>1. /\ b \in Nat /\ a \in Nat
        /\ Attempts' + spent'.unprepared + ledger.outcomes + spent.abandoned + b
             = Attempts + spent.unprepared + ledger'.outcomes + spent'.abandoned + a
    BY <1>1 DEF Settles
  <2> DEFINE A == Attempts
             B == Attempts'
  <2> HIDE DEF A, B, a, b, n, m
  <2> QED
    BY <1>4, <1>5, <1>6, <1>7, <1>8, <2>1
<1> QED
  BY <1>9 DEF LedgerBalances, Between

-----------------------------------------------------------------------------
(* The inductive invariant.                                                *)

(* Initially nothing is admitted, attempted or saved.                      *)
LEMMA Initially == Init => PlanningInv
<1> SUFFICES ASSUME Init PROVE PlanningInv
  OBVIOUS
<1>1. TypeOK
  BY InitTypeOK
<1>2. \A h \in Hosts : pc[h] = "idle" /\ host[h] = Fresh
  BY DEF Init
<1>3. /\ \A t : AdmittedTo(t) = {}
      /\ AdmittedPaid = {} /\ Saving = {} /\ Between = {}
  BY <1>2 DEF AdmittedTo, AdmittedPaid, Saving, Between, Admitted, Attempted
<1>4. Cardinality(Hosts) \in Nat /\ Cardinality(Hosts) >= 1
  <2>1. Cardinality(Hosts) \in Nat /\ Cardinality(Hosts) # 0
    BY HostsAssumption, FS_CardinalityType, FS_EmptySet
  <2> QED
    BY <2>1
<1>5. AdmittedInBudget
  <2> SUFFICES ASSUME NEW t \in DOMAIN Pool.budgets
               PROVE  ledger.attempts[t] + Cardinality(AdmittedTo(t))
                        <= Pool.budgets[t] + Cardinality(Hosts) - 1
    BY DEF AdmittedInBudget
  <2>1. ledger.attempts[t] = 0 /\ Pool.budgets[t] \in Nat
    BY PoolAssumption DEF Init, Tiers
  <2>2. Cardinality(AdmittedTo(t)) = 0
    BY <1>3, FS_EmptySet
  <2> QED
    BY <1>4, <2>1, <2>2
<1>6. AdmittedWhileAccounted
  BY DEF AdmittedWhileAccounted, Init
<1>7. AskedForItsInput
  BY <1>2 DEF AskedForItsInput
<1>8. FilesAgree
  BY <1>3 DEF FilesAgree, Init
<1>9. PlanFitsItsInput
  BY <1>2 DEF PlanFitsItsInput, Fresh
<1>10. LedgerBalances
  <2>1. \A t \in Tiers : ledger.attempts[t] = 0
    BY DEF Init, Tiers
  <2>2. Attempts = 0
    BY <2>1, TierRanks DEF Attempts
  <2>3. Cardinality({h \in Hosts : Attempted(h)}) = 0
    BY <1>3, FS_EmptySet DEF Between
  <2> QED
    BY <2>2, <2>3 DEF LedgerBalances, Init
<1> QED
  BY <1>1, <1>5, <1>6, <1>7, <1>8, <1>9, <1>10 DEF PlanningInv

(* What people change does not count, and stuttering changes nothing.      *)
LEMMA OtherSteps ==
  ASSUME PlanningInv, Edit \/ UNCHANGED vars
  PROVE  PlanningInv'
<1>1. /\ UNCHANGED <<need, plan, digest, ledger, usage, pc, host, spent, torn>>
      /\ input' \in Inputs
  BY DEF Edit, vars, PlanningInv, TypeOK
<1>2. TypeOK'
  BY <1>1 DEF PlanningInv, TypeOK
<1>3. AdmittedInBudget' /\ AdmittedWhileAccounted'
  BY <1>1 DEF PlanningInv, AdmittedInBudget, AdmittedWhileAccounted, AdmittedTo,
              AdmittedPaid, Admitted
<1>4. AskedForItsInput' /\ FilesAgree' /\ PlanFitsItsInput'
  BY <1>1 DEF PlanningInv, AskedForItsInput, FilesAgree, Saving, PlanFitsItsInput
<1>5. LedgerBalances'
  BY <1>1 DEF PlanningInv, LedgerBalances, Attempts, Attempted
<1> QED
  BY <1>2, <1>3, <1>4, <1>5 DEF PlanningInv

(* PlanningInv holds in every reachable state, for every pool, budget,     *)
(* number of hosts, rounds, edits and deaths.                              *)
THEOREM PlanningInvariance == Spec => []PlanningInv
<1>1. Init => PlanningInv
  BY Initially
<1>2. PlanningInv /\ [Next]_vars => PlanningInv'
  <2> SUFFICES ASSUME PlanningInv, [Next]_vars PROVE PlanningInv'
    OBVIOUS
  <2>1. CASE Edit \/ UNCHANGED vars
    BY <2>1, OtherSteps
  <2>2. ASSUME NEW h \in Hosts, HostStep(h) \/ Crash(h) PROVE PlanningInv'
    <3>1. TypeOK'
      BY <2>2, HostStepTypeOK DEF PlanningInv
    <3>2. AdmittedInBudget'
      BY <2>2, HostStepInBudget DEF PlanningInv
    <3>3. AdmittedWhileAccounted'
      BY <2>2, HostStepAccounted DEF PlanningInv
    <3>4. PlansFit'
      BY <2>2, HostStepPlansFit DEF PlanningInv, PlansFit
    <3>5. LedgerBalances'
      BY <2>2, <3>1, HostStepBalances DEF PlanningInv
    <3> QED
      BY <3>1, <3>2, <3>3, <3>4, <3>5 DEF PlanningInv, PlansFit
  <2> QED
    BY <2>1, <2>2 DEF Next
<1> QED
  BY <1>1, <1>2, PTL DEF Spec

(* Whatever order hosts plan, save, reuse and die in, an executor is given *)
(* a plan made for the input it is used for, except between a save that    *)
(* was cut short, overlapped another or was read halfway and the next      *)
(* whole one (maybe_plan_skill, _persist).                                 *)
THEOREM PlanFits == Spec => []PlanFitsItsInput
<1>1. PlanningInv => PlanFitsItsInput
  BY DEF PlanningInv
<1> QED
  BY <1>1, PlanningInvariance, PTL

(* One outcome for each attempt, except where the host died; an outcome    *)
(* without an attempt only where a planner could not be prepared.          *)
THEOREM PlanningLedgerBalances == Spec => []LedgerBalances
<1>1. PlanningInv => LedgerBalances
  BY DEF PlanningInv
<1> QED
  BY <1>1, PlanningInvariance, PTL

(* The calls of n hosts exceed the budget of a tier that has one by at     *)
(* most n - 1, and at most n - 1 paid calls begin while the ledger holds   *)
(* usage as unaccounted: no lock is held between the pool's answer and the *)
(* attempt (_eligible, execution_economics.attempt_count).                 *)
THEOREM PaidCallsAreBounded == Spec => []PaidCallsBounded
<1>1. PlanningInv => PaidCallsBounded
  <2> SUFFICES ASSUME PlanningInv PROVE PaidCallsBounded
    OBVIOUS
  <2>1. /\ Cardinality(Hosts) \in Nat /\ Cardinality(Hosts) >= 1
    <3>1. Cardinality(Hosts) \in Nat /\ Cardinality(Hosts) # 0
      BY HostsAssumption, FS_CardinalityType, FS_EmptySet
    <3> QED
      BY <3>1
  <2>2. spent.late <= Cardinality(Hosts) - 1
    <3>1. spent.late \in Nat /\ ledger.unaccounted \in Nat
      BY DEF PlanningInv, TypeOK
    <3>2. Cardinality(AdmittedPaid) \in Nat
      BY HostsCount DEF AdmittedPaid
    <3>3. /\ ledger.unaccounted = 0 => spent.late = 0
          /\ ledger.unaccounted > 0
               => spent.late + Cardinality(AdmittedPaid) <= Cardinality(Hosts) - 1
      BY DEF PlanningInv, AdmittedWhileAccounted
    <3> QED
      BY <2>1, <3>1, <3>2, <3>3
  <2>3. ASSUME NEW t \in DOMAIN Pool.budgets
        PROVE  ledger.attempts[t] <= Pool.budgets[t] + (Cardinality(Hosts) - 1)
    <3>1. ledger.attempts[t] \in Nat /\ Pool.budgets[t] \in Nat
      BY PoolAssumption DEF PlanningInv, TypeOK
    <3>2. Cardinality(AdmittedTo(t)) \in Nat
      BY HostsCount DEF AdmittedTo
    <3>3. ledger.attempts[t] + Cardinality(AdmittedTo(t))
            <= Pool.budgets[t] + Cardinality(Hosts) - 1
      BY DEF PlanningInv, AdmittedInBudget
    <3> QED
      BY <2>1, <3>1, <3>2, <3>3
  <2> QED
    BY <2>2, <2>3 DEF PaidCallsBounded
<1> QED
  BY <1>1, PlanningInvariance, PTL

=============================================================================
