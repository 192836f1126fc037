------------------------- MODULE WireHygieneProofs -------------------------
(* Proofs about WireHygiene, for any buckets and any framing: what the        *)
(* padding's iteration returns is what LandsWherePossible says, and no        *)
(* subtraction in it goes below zero.                                         *)
(*                                                                            *)
(* A padding of n bytes fills Filled(n) = Digits(n) + n of the budget.  Two   *)
(* powers of ten are far apart, so that Digits grows by at most one over any  *)
(* distance of up to ten.  Hence the first round leaves a length that fills   *)
(* the budget or misses it by one, and a later round adds one byte or takes   *)
(* it away again: odd rounds never overfill the budget, even rounds never     *)
(* underfill it.  When both miss it, no length fills it exactly.              *)
EXTENDS WireHygiene, FiniteSetTheorems, WellFoundedInduction, TLAPS

Filled(n) == Digits(n) + n

\* The bucket that is filled is the smallest one with room for an item.
Chosen ==
    /\ size \notin Buckets
    /\ Roomy # {} /\ Min(Roomy) \in Roomy
    /\ budget = Min(Roomy) - size - Framing

\* The length fills a byte too much, and one byte less a byte too little.
OneBeyond == len > 0 /\ Filled(len) = budget + 1 /\ Filled(len - 1) = budget - 1

\* The iteration is one byte short at most in an odd round, one byte beyond at most
\* in an even one, and then the length before was one byte short.
Nearly ==
    /\ round = 0 => len = budget
    /\ round \in {1, 3} => Filled(len) \in {budget - 1, budget}
    /\ round \in {2, 4} => Filled(len) = budget \/ OneBeyond

\* The length that is left is exact, or no length is.
Best ==
    \/ Filled(len) = budget
    \/ Filled(len) = budget - 1 /\ Filled(len + 1) = budget + 1

Candidates ==
    /\ candidates \subseteq {b \in Buckets : b >= size}
    /\ Roomy \subseteq candidates
    /\ size \in Buckets => size \in candidates

HygieneInv ==
    /\ TypeOK
    /\ pc = "choose" => Candidates
    /\ pc = "iterate" => Chosen /\ budget > 0 /\ Nearly
    /\ pc = "clamp" => Chosen /\ budget > 0 /\ (Best \/ OneBeyond)
    /\ pc = "assemble" => Chosen /\ (IF budget = 0 THEN len = 0 ELSE Best)
    /\ LandsWherePossible

-----------------------------------------------------------------------------
(* Decimal digits.                                                            *)

\* One more element adds at most one to the size of a finite set.
LEMMA OneMore ==
    ASSUME NEW S, NEW x, IsFiniteSet(S)
    PROVE  /\ IsFiniteSet(S \cup {x})
           /\ Cardinality(S) \in Nat /\ Cardinality(S \cup {x}) \in Nat
           /\ Cardinality(S \cup {x}) <= Cardinality(S) + 1
<1>1. Cardinality(S) \in Nat
  BY FS_CardinalityType
<1>2. /\ IsFiniteSet(S \cup {x})
      /\ Cardinality(S \cup {x}) = Cardinality(S) \/ Cardinality(S \cup {x}) = Cardinality(S) + 1
  BY FS_AddElement
<1> QED
  BY <1>1, <1>2

\* A set of nine listed elements is finite and has at most nine.
LEMMA Nine ==
    ASSUME NEW a, NEW b, NEW c, NEW d, NEW e, NEW f, NEW g, NEW h, NEW i
    PROVE  /\ IsFiniteSet({a, b, c, d, e, f, g, h, i})
           /\ Cardinality({a, b, c, d, e, f, g, h, i}) <= 9
<1> DEFINE A1 == {a}
           A2 == A1 \cup {b}
           A3 == A2 \cup {c}
           A4 == A3 \cup {d}
           A5 == A4 \cup {e}
           A6 == A5 \cup {f}
           A7 == A6 \cup {g}
           A8 == A7 \cup {h}
           A9 == A8 \cup {i}
<1>1. IsFiniteSet(A1) /\ Cardinality(A1) = 1
  BY FS_Singleton
<1>10. {a, b, c, d, e, f, g, h, i} = A9
  OBVIOUS
<1> HIDE DEF A1, A2, A3, A4, A5, A6, A7, A8, A9
<1>2. IsFiniteSet(A2) /\ Cardinality(A2) <= 2 /\ Cardinality(A2) \in Nat
  <2>1. /\ IsFiniteSet(A1 \cup {b}) /\ Cardinality(A1 \cup {b}) \in Nat
        /\ Cardinality(A1 \cup {b}) <= Cardinality(A1) + 1
    BY <1>1, OneMore, Zenon
  <2> QED
    BY <1>1, <2>1 DEF A2
<1>3. IsFiniteSet(A3) /\ Cardinality(A3) <= 3 /\ Cardinality(A3) \in Nat
  <2>1. /\ IsFiniteSet(A2 \cup {c}) /\ Cardinality(A2 \cup {c}) \in Nat
        /\ Cardinality(A2 \cup {c}) <= Cardinality(A2) + 1
    BY <1>2, OneMore, Zenon
  <2> QED
    BY <1>2, <2>1 DEF A3
<1>4. IsFiniteSet(A4) /\ Cardinality(A4) <= 4 /\ Cardinality(A4) \in Nat
  <2>1. /\ IsFiniteSet(A3 \cup {d}) /\ Cardinality(A3 \cup {d}) \in Nat
        /\ Cardinality(A3 \cup {d}) <= Cardinality(A3) + 1
    BY <1>3, OneMore, Zenon
  <2> QED
    BY <1>3, <2>1 DEF A4
<1>5. IsFiniteSet(A5) /\ Cardinality(A5) <= 5 /\ Cardinality(A5) \in Nat
  <2>1. /\ IsFiniteSet(A4 \cup {e}) /\ Cardinality(A4 \cup {e}) \in Nat
        /\ Cardinality(A4 \cup {e}) <= Cardinality(A4) + 1
    BY <1>4, OneMore, Zenon
  <2> QED
    BY <1>4, <2>1 DEF A5
<1>6. IsFiniteSet(A6) /\ Cardinality(A6) <= 6 /\ Cardinality(A6) \in Nat
  <2>1. /\ IsFiniteSet(A5 \cup {f}) /\ Cardinality(A5 \cup {f}) \in Nat
        /\ Cardinality(A5 \cup {f}) <= Cardinality(A5) + 1
    BY <1>5, OneMore, Zenon
  <2> QED
    BY <1>5, <2>1 DEF A6
<1>7. IsFiniteSet(A7) /\ Cardinality(A7) <= 7 /\ Cardinality(A7) \in Nat
  <2>1. /\ IsFiniteSet(A6 \cup {g}) /\ Cardinality(A6 \cup {g}) \in Nat
        /\ Cardinality(A6 \cup {g}) <= Cardinality(A6) + 1
    BY <1>6, OneMore, Zenon
  <2> QED
    BY <1>6, <2>1 DEF A7
<1>8. IsFiniteSet(A8) /\ Cardinality(A8) <= 8 /\ Cardinality(A8) \in Nat
  <2>1. /\ IsFiniteSet(A7 \cup {h}) /\ Cardinality(A7 \cup {h}) \in Nat
        /\ Cardinality(A7 \cup {h}) <= Cardinality(A7) + 1
    BY <1>7, OneMore, Zenon
  <2> QED
    BY <1>7, <2>1 DEF A8
<1>9. IsFiniteSet(A9) /\ Cardinality(A9) <= 9 /\ Cardinality(A9) \in Nat
  <2>1. /\ IsFiniteSet(A8 \cup {i}) /\ Cardinality(A8 \cup {i}) \in Nat
        /\ Cardinality(A8 \cup {i}) <= Cardinality(A8) + 1
    BY <1>8, OneMore, Zenon
  <2> QED
    BY <1>8, <2>1 DEF A9
<1> QED
  BY <1>9, <1>10

\* The powers of ten are nine, and far apart.
LEMMA Powers ==
    /\ IsFiniteSet(PowersOfTen) /\ Cardinality(PowersOfTen) <= 9
    /\ \A p, q \in PowersOfTen : p # q => p >= q + 90 \/ q >= p + 90
    /\ \A p \in PowersOfTen : p \in Nat /\ p >= 10
<1>1. PICK a, b, c, d, e, f, g, h, i :
        /\ a = 10 /\ b = 100 /\ c = 1000 /\ d = 10000 /\ e = 100000
        /\ f = 1000000 /\ g = 10000000 /\ h = 100000000 /\ i = 1000000000
  BY SMT
<1>2. PowersOfTen = {a, b, c, d, e, f, g, h, i}
  BY <1>1, SMT DEF PowersOfTen
<1>3. IsFiniteSet(PowersOfTen) /\ Cardinality(PowersOfTen) <= 9
  BY <1>2, Nine, Zenon
<1>4. \A p, q \in PowersOfTen : p # q => p >= q + 90 \/ q >= p + 90
  BY SMT DEF PowersOfTen
<1>5. \A p \in PowersOfTen : p \in Nat /\ p >= 10
  BY SMT DEF PowersOfTen
<1> QED
  BY <1>3, <1>4, <1>5, Zenon

\* A number has between one and ten digits, and one below ten has one.
LEMMA DigitsType ==
    ASSUME NEW n \in Nat
    PROVE  Digits(n) \in 1 .. 10 /\ (n < 10 => Digits(n) = 1)
<1> DEFINE S == {p \in PowersOfTen : n >= p}
<1>1. S \subseteq PowersOfTen
  OBVIOUS
<1>2. n < 10 => S = {}
  <2>1. \A p \in PowersOfTen : p \in Nat /\ p >= 10
    BY Powers, Zenon
  <2> QED
    BY <2>1
<1> HIDE DEF S
<1>3. IsFiniteSet(S) /\ Cardinality(S) <= Cardinality(PowersOfTen)
  BY <1>1, Powers, FS_Subset, Zenon
<1>4. Cardinality(S) \in Nat /\ Cardinality(PowersOfTen) \in Nat
  BY <1>3, Powers, FS_CardinalityType, Zenon
<1>5. n < 10 => Cardinality(S) = 0
  BY <1>2, FS_EmptySet
<1>6. Digits(n) = 1 + Cardinality(S)
  BY DEF Digits, S
<1>7. Cardinality(PowersOfTen) <= 9
  BY Powers, Zenon
<1> QED
  BY <1>3, <1>4, <1>5, <1>6, <1>7

\* Over a distance of up to ten, the number of digits grows by at most one.
LEMMA DigitsStep ==
    ASSUME NEW m \in Nat, NEW n \in Nat, m <= n, n <= m + 10
    PROVE  Digits(n) \in {Digits(m), Digits(m) + 1}
<1> DEFINE S == {p \in PowersOfTen : m >= p}
           T == {p \in PowersOfTen : n >= p}
<1>1. /\ \A p \in PowersOfTen : p \in Nat
      /\ \A p, q \in PowersOfTen : p # q => p >= q + 90 \/ q >= p + 90
  BY Powers, Zenon
<1>2. S \subseteq PowersOfTen /\ S \subseteq T
  BY <1>1
<1>3. IsFiniteSet(S)
  BY <1>2, Powers, FS_Subset, Zenon
<1>4. CASE T = S
  BY <1>4 DEF Digits
<1>5. CASE T # S
  <2>1. PICK p \in T : p \notin S
    BY <1>2, <1>5
  <2>2. \A q \in T : q # p => q \in S
    BY <1>1, <2>1
  <2>3. T = S \cup {p}
    BY <1>2, <2>1, <2>2, Zenon
  <2> HIDE DEF S, T
  <2>4. Cardinality(T) = Cardinality(S) + 1
    BY <1>3, <2>1, <2>3, FS_AddElement
  <2>5. Digits(m) = 1 + Cardinality(S) /\ Digits(n) = 1 + Cardinality(T)
    BY DEF Digits, S, T
  <2>6. Cardinality(S) \in Nat
    BY <1>3, FS_CardinalityType
  <2> QED
    BY <2>4, <2>5, <2>6
<1> QED
  BY <1>4, <1>5

\* The number of digits does not shrink.
LEMMA DigitsMonotone ==
    ASSUME NEW m \in Nat, NEW n \in Nat, m <= n
    PROVE  Digits(m) <= Digits(n)
<1> DEFINE S == {p \in PowersOfTen : m >= p}
           T == {p \in PowersOfTen : n >= p}
<1>1. \A p \in PowersOfTen : p \in Nat
  BY Powers, Zenon
<1>2. S \subseteq T /\ T \subseteq PowersOfTen
  BY <1>1
<1> HIDE DEF S, T
<1>3. IsFiniteSet(T)
  BY <1>2, Powers, FS_Subset, Zenon
<1>4. IsFiniteSet(S) /\ Cardinality(S) <= Cardinality(T)
  BY <1>2, <1>3, FS_Subset, Zenon
<1>5. Cardinality(S) \in Nat /\ Cardinality(T) \in Nat
  BY <1>3, <1>4, FS_CardinalityType, Zenon
<1>6. Digits(m) = 1 + Cardinality(S) /\ Digits(n) = 1 + Cardinality(T)
  BY DEF Digits, S, T
<1> QED
  BY <1>4, <1>5, <1>6

\* A longer padding fills more, at the next length by one byte or by two.
LEMMA FilledStep ==
    ASSUME NEW n \in Nat
    PROVE  Filled(n) \in Nat /\ Filled(n + 1) \in {Filled(n) + 1, Filled(n) + 2}
  BY DigitsType, DigitsStep DEF Filled

\* No length between two that miss a room on either side fills it.
LEMMA NoneBetween ==
    ASSUME NEW n \in Nat, NEW room \in Nat, Filled(n) = room - 1, Filled(n + 1) = room + 1
    PROVE  ~Fillable(room)
<1>1. ASSUME NEW k \in Nat, Digits(k) + k = room
      PROVE  FALSE
  <2>1. Digits(k) \in Nat /\ Digits(n) \in Nat /\ Digits(n + 1) \in Nat
    BY DigitsType
  <2>2. CASE k <= n
    BY <1>1, <2>1, <2>2, DigitsMonotone DEF Filled
  <2>3. CASE n + 1 <= k
    BY <1>1, <2>1, <2>3, DigitsMonotone DEF Filled
  <2> QED
    BY <2>2, <2>3
<1>2. \A k \in (IF room > 10 THEN room - 10 ELSE 0) .. room : k \in Nat
  OBVIOUS
<1> QED
  BY <1>1, <1>2 DEF Fillable

\* A length that fills a room exactly is among those that Fillable looks at.
LEMMA ExactIsFillable ==
    ASSUME NEW n \in Nat, NEW room \in Nat, Filled(n) = room
    PROVE  Fillable(room)
<1>1. n \in (IF room > 10 THEN room - 10 ELSE 0) .. room /\ Digits(n) + n = room
  BY DigitsType DEF Filled
<1> QED
  BY <1>1 DEF Fillable

\* No length fills a room of nothing: an empty item still writes one digit.
LEMMA NothingFillsNothing == ~Fillable(0)
  BY DigitsType DEF Fillable

-----------------------------------------------------------------------------
(* The smallest of some numbers.                                              *)

\* A set of natural numbers that is not empty has a smallest one.
LEMMA MinIsLeast ==
    ASSUME NEW S, S \subseteq Nat, S # {}
    PROVE  Min(S) \in S /\ \A y \in S : Min(S) <= y
<1>1. PICK x \in S : \A y \in S : ~(<<y, x>> \in OpToRel(<, Nat))
  BY NatLessThanWellFounded, WFMin
<1>2. \A y \in S : x <= y
  <2> TAKE y \in S
  <2>1. x \in Nat /\ y \in Nat
    OBVIOUS
  <2>2. ~(y < x)
    BY <1>1, <2>1 DEF OpToRel
  <2> QED
    BY <2>1, <2>2
<1> QED
  BY <1>2 DEF Min

\* The smallest element of a set is also the smallest of a subset that has it.
LEMMA SameMin ==
    ASSUME NEW S, NEW T, T \subseteq Nat, S \subseteq T, Min(T) \in S
    PROVE  Min(S) = Min(T)
<1>1. Min(S) \in S /\ \A y \in S : Min(S) <= y
  BY MinIsLeast
<1>2. Min(T) \in T /\ \A y \in T : Min(T) <= y
  BY MinIsLeast
<1>3. Min(S) <= Min(T) /\ Min(T) <= Min(S)
  BY <1>1, <1>2, Zenon
<1>4. Min(S) \in Nat /\ Min(T) \in Nat
  BY <1>1, <1>2
<1> QED
  BY <1>3, <1>4

-----------------------------------------------------------------------------
(* The rounds of the iteration.                                               *)

\* The first round fills the budget or leaves one byte of it, and is always taken.
LEMMA FirstRound ==
    ASSUME NEW b \in Nat, b > 0
    PROVE  /\ Digits(b) <= b /\ b - Digits(b) # b
           /\ b - Digits(b) \in Nat /\ Filled(b - Digits(b)) \in {b - 1, b}
<1>1. Digits(b) \in 1 .. 10 /\ (b < 10 => Digits(b) = 1)
  BY DigitsType
<1>2. Digits(b) <= b /\ b - Digits(b) \in Nat
  BY <1>1
<1> DEFINE x == b - Digits(b)
<1>3. x \in Nat /\ x <= b /\ b <= x + 10
  BY <1>1, <1>2
<1>4. Digits(b) \in {Digits(x), Digits(x) + 1}
  BY <1>3, DigitsStep
<1>5. Digits(x) \in 1 .. 10
  BY <1>3, DigitsType
<1>6. Filled(x) \in {b - 1, b}
  BY <1>1, <1>4, <1>5 DEF Filled
<1> QED
  BY <1>1, <1>2, <1>6

\* After an odd round: the next one keeps an exact length, and adds a byte to one that
\* is a byte short.
LEMMA OddRound ==
    ASSUME NEW b \in Nat, NEW n \in Nat, Filled(n) \in {b - 1, b}
    PROVE  /\ Digits(n) <= b
           /\ b - Digits(n) = n <=> Filled(n) = b
           /\ Filled(n) = b - 1 => b - Digits(n) = n + 1 /\ Filled(n + 1) \in {b, b + 1}
<1>1. Digits(n) \in 1 .. 10
  BY DigitsType
<1>2. Filled(n) = Digits(n) + n
  BY DEF Filled
<1>3. Filled(n + 1) \in {Filled(n) + 1, Filled(n) + 2}
  BY FilledStep
<1> QED
  BY <1>1, <1>2, <1>3

\* After an even round: a byte too many is taken away again.
LEMMA EvenRound ==
    ASSUME NEW b \in Nat, NEW n \in Nat, n > 0, Filled(n) = b + 1
    PROVE  Digits(n) <= b /\ b - Digits(n) = n - 1 /\ b - Digits(n) # n
<1>1. Digits(n) \in 1 .. 10
  BY DigitsType
<1> QED
  BY <1>1 DEF Filled

-----------------------------------------------------------------------------
(* The invariant.                                                             *)

\* The search starts from the invariant.
LEMMA HygieneInit == Init => HygieneInv
  BY DEF Init, HygieneInv, TypeOK, LandsWherePossible

\* What returns a length in the end returns the length that it promises.
LEMMA AssembleLands ==
    ASSUME HygieneInv, Assemble
    PROVE  LandsWherePossible' /\ wire' \in Nat
<1>1. /\ Chosen /\ size \in Nat /\ len \in Nat /\ budget \in Nat /\ pc = "assemble"
      /\ IF budget = 0 THEN len = 0 ELSE Best
      /\ wire' = size + Framing + Filled(len)
      /\ UNCHANGED size
  <2>1. /\ Chosen /\ size \in Nat /\ len \in Nat /\ budget \in Nat /\ pc = "assemble"
        /\ IF budget = 0 THEN len = 0 ELSE Best
        /\ wire' = size + Framing + Digits(len) + len
        /\ UNCHANGED size
    BY HygieneAssumption DEF HygieneInv, TypeOK, Assemble, Return
  <2>2. size + Framing + Digits(len) + len = size + Framing + Filled(len)
    BY <2>1, DigitsType, HygieneAssumption DEF Filled
  <2> QED
    BY <2>1, <2>2
<1> DEFINE b == Min(Roomy)
<1>2. /\ size \notin Buckets /\ Roomy # {}
      /\ b \in Nat /\ b >= size + Framing /\ budget = b - size - Framing
  BY <1>1, HygieneAssumption DEF Chosen, Roomy, Room
<1>3. Filled(len) \in Nat
  BY <1>1, FilledStep
<1>4. IF Fillable(budget) THEN wire' = b ELSE wire' \in {b - 1, b + 1}
  <2>1. CASE budget = 0
    <3>1. Filled(len) = 1
      BY <1>1, <2>1, DigitsType DEF Filled
    <3>2. wire' = b + 1
      BY <1>1, <1>2, <2>1, <3>1, HygieneAssumption
    <3> QED
      BY <2>1, <3>2, NothingFillsNothing
  <2>2. CASE budget # 0 /\ Filled(len) = budget
    <3>1. wire' = b
      BY <1>1, <1>2, <2>2, HygieneAssumption
    <3> QED
      BY <1>1, <2>2, <3>1, ExactIsFillable
  <2>3. CASE budget # 0 /\ Filled(len) = budget - 1 /\ Filled(len + 1) = budget + 1
    <3>1. wire' = b - 1
      BY <1>1, <1>2, <2>3, HygieneAssumption
    <3>2. ~Fillable(budget)
      BY <1>1, <2>3, NoneBetween
    <3> QED
      BY <3>1, <3>2
  <2> QED
    BY <1>1, <2>1, <2>2, <2>3 DEF Best
<1>5. Roomy' = Roomy
  BY <1>1 DEF Roomy, Room
<1> HIDE DEF b
<1>6. LandsWherePossible'
  BY <1>1, <1>2, <1>4, <1>5 DEF LandsWherePossible, b, Fillable
<1> QED
  BY <1>1, <1>3, <1>6, HygieneAssumption


\* A round that neither ends the iteration nor finds its own length again.
LEMMA RoundGoesOn ==
    ASSUME Iterate, len \in Nat, budget \in Nat, round # 4,
           Digits(len) <= budget, budget - Digits(len) # len
    PROVE  /\ len' = budget - Digits(len) /\ round' = round + 1
           /\ UNCHANGED <<size, pc, candidates, budget, wire>>
<1>1. Digits(len) \in Nat
  BY DigitsType
<1>2. ~(budget < Digits(len))
  BY <1>1
<1> QED
  BY <1>2 DEF Iterate

\* Every step of the search keeps the invariant.
LEMMA HygieneNext == HygieneInv /\ [Next]_vars => HygieneInv'
<1> SUFFICES ASSUME HygieneInv, [Next]_vars
             PROVE  HygieneInv'
  OBVIOUS
<1>1. /\ size \in 1 .. MaxSize /\ size \in Nat
      /\ candidates \in SUBSET Buckets /\ candidates \subseteq Nat
      /\ budget \in Nat /\ len \in Nat /\ round \in 0 .. 4 /\ wire \in Nat
  BY HygieneAssumption DEF HygieneInv, TypeOK
<1>2. CASE CheckCap
  <2>1. CASE size > MaxPayload
    BY <1>1, <1>2, <2>1 DEF CheckCap, HygieneInv, TypeOK, LandsWherePossible
  <2>2. CASE ~(size > MaxPayload)
    <3>1. pc' = "choose" /\ candidates' = {b \in Buckets : b >= size} /\ UNCHANGED size
      BY <1>2, <2>2 DEF CheckCap
    <3>2. \A b \in Buckets : Room(b) => b >= size
      BY <1>1, HygieneAssumption DEF Room
    <3>3. Candidates'
      <4>1. Roomy' = Roomy
        BY <3>1 DEF Roomy, Room
      <4>2. Roomy \subseteq candidates'
        BY <3>1, <3>2 DEF Roomy
      <4>3. size \in Buckets => size \in candidates'
        BY <1>1, <3>1
      <4> QED
        BY <3>1, <4>1, <4>2, <4>3 DEF Candidates
    <3> QED
      BY <1>1, <1>2, <3>1, <3>3 DEF CheckCap, HygieneInv, TypeOK, LandsWherePossible
  <2> QED
    BY <2>1, <2>2
<1>3. CASE OnBucket
  <2>1. Min(candidates) \in candidates
    BY <1>1, <1>3, MinIsLeast DEF OnBucket
  <2> QED
    BY <1>1, <1>3, <2>1 DEF OnBucket, Return, HygieneInv, TypeOK, LandsWherePossible
<1>4. CASE SkipBucket
  <2>1. Candidates'
    <3>1. Candidates /\ ~Room(Min(candidates)) /\ Min(candidates) # size
      BY <1>4 DEF SkipBucket, HygieneInv
    <3>2. candidates' = candidates \ {Min(candidates)} /\ UNCHANGED size
      BY <1>4 DEF SkipBucket
    <3> QED
      BY <3>1, <3>2 DEF Candidates, Roomy, Room
  <2> QED
    BY <1>1, <1>4, <2>1 DEF SkipBucket, HygieneInv, TypeOK, LandsWherePossible
<1>5. CASE NoBucket
  <2>1. Roomy = {} /\ Roomy' = {}
    BY <1>5 DEF NoBucket, HygieneInv, Candidates, Roomy, Room
  <2> QED
    BY <1>1, <1>5, <2>1 DEF NoBucket, Return, HygieneInv, TypeOK, LandsWherePossible
<1>6. CASE TakeBucket
  <2>1. /\ Min(candidates) \in candidates /\ \A y \in candidates : Min(candidates) <= y
        /\ Candidates /\ Room(Min(candidates)) /\ Min(candidates) # size
    BY <1>1, <1>6, MinIsLeast DEF TakeBucket, HygieneInv
  <2>2. Min(candidates) \in Roomy
    BY <1>1, <2>1 DEF Roomy
  <2>3. Min(Roomy) = Min(candidates)
    BY <1>1, <2>1, <2>2, SameMin DEF Candidates
  <2>4. size \notin Buckets
    <3>1. SUFFICES ASSUME size \in Buckets
                   PROVE  FALSE
      OBVIOUS
    <3>2. Min(candidates) <= size /\ Min(candidates) >= size
      BY <2>1, <3>1 DEF Candidates
    <3>3. Min(candidates) \in Nat
      BY <1>1, <2>1
    <3> QED
      BY <1>1, <2>1, <3>2, <3>3
  <2>5. /\ budget' = Min(candidates) - size - Framing /\ budget' \in Nat
        /\ len' = budget' /\ round' = 0
        /\ pc' = IF budget' = 0 THEN "assemble" ELSE "iterate"
        /\ UNCHANGED <<size, candidates, wire>>
    <3>1. Min(candidates) \in Nat /\ Min(candidates) >= size + Framing
      BY <1>1, <2>1 DEF Room
    <3>2. Min(candidates) - size - Framing \in Nat
      BY <1>1, <3>1, HygieneAssumption
    <3> QED
      BY <1>6, <3>2 DEF TakeBucket, Left
  <2>6. Chosen'
    BY <2>2, <2>3, <2>4, <2>5 DEF Chosen, Roomy, Room
  <2> QED
    BY <1>1, <2>5, <2>6 DEF HygieneInv, TypeOK, Nearly, LandsWherePossible
<1>7. CASE Iterate
  <2>1. Chosen /\ budget > 0 /\ Nearly /\ pc = "iterate"
    BY <1>7 DEF Iterate, HygieneInv
  <2>2. Chosen'
    BY <1>7, <2>1 DEF Iterate, Chosen, Roomy, Room
  <2>3. CASE round = 0
    <3>1. /\ len' = budget - Digits(budget) /\ len' \in Nat /\ Filled(len') \in {budget - 1, budget}
          /\ round' = 1 /\ UNCHANGED <<size, pc, candidates, budget, wire>>
      <4>1. /\ len = budget /\ Digits(budget) <= budget /\ budget - Digits(budget) # budget
            /\ budget - Digits(budget) \in Nat
            /\ Filled(budget - Digits(budget)) \in {budget - 1, budget}
        BY <1>1, <2>1, <2>3, FirstRound DEF Nearly
      <4>2. /\ len' = budget - Digits(budget) /\ round' = round + 1
            /\ UNCHANGED <<size, pc, candidates, budget, wire>>
        BY <1>1, <1>7, <2>3, <4>1, RoundGoesOn
      <4> QED
        BY <2>3, <4>1, <4>2
    <3> QED
      BY <1>1, <2>1, <2>2, <3>1 DEF HygieneInv, TypeOK, Nearly, LandsWherePossible
  <2>4. CASE round \in {1, 3}
    <3>1. Filled(len) \in {budget - 1, budget}
      BY <2>1, <2>4 DEF Nearly
    <3>2. /\ Digits(len) <= budget
          /\ budget - Digits(len) = len <=> Filled(len) = budget
          /\ Filled(len) = budget - 1 =>
               budget - Digits(len) = len + 1 /\ Filled(len + 1) \in {budget, budget + 1}
      BY <1>1, <3>1, OddRound
    <3>3. CASE Filled(len) = budget
      <4>1. pc' = "clamp" /\ UNCHANGED <<size, candidates, budget, len, round, wire>>
        BY <1>7, <3>2, <3>3 DEF Iterate
      <4> QED
        BY <1>1, <2>1, <2>2, <3>3, <4>1 DEF HygieneInv, TypeOK, Best, LandsWherePossible
    <3>4. CASE Filled(len) = budget - 1
      <4>1. Filled(len) # budget
        BY <1>1, <3>4
      <4>2. /\ len' = len + 1 /\ round' = round + 1
            /\ UNCHANGED <<size, pc, candidates, budget, wire>>
        BY <1>1, <1>7, <2>4, <3>2, <3>4, <4>1, RoundGoesOn
      <4>3. Filled(len') \in {budget, budget + 1} /\ len' \in Nat /\ len' - 1 = len /\ len' > 0
        BY <1>1, <3>2, <3>4, <4>2
      <4>4. round' \in {2, 4}
        BY <2>4, <4>2
      <4>5. Nearly'
        BY <3>4, <4>2, <4>3, <4>4 DEF Nearly, OneBeyond, Filled
      <4> QED
        BY <1>1, <2>1, <2>2, <4>2, <4>3, <4>4, <4>5 DEF HygieneInv, TypeOK, LandsWherePossible
    <3> QED
      BY <3>1, <3>3, <3>4
  <2>5. CASE round \in {2, 4} /\ Filled(len) = budget
    <3>1. pc' = "clamp" /\ UNCHANGED <<size, candidates, budget, len, round, wire>>
      BY <1>1, <1>7, <2>5, OddRound DEF Iterate
    <3> QED
      BY <1>1, <2>1, <2>2, <2>5, <3>1 DEF HygieneInv, TypeOK, Best, LandsWherePossible
  <2>6. CASE round = 4 /\ OneBeyond
    <3>1. pc' = "clamp" /\ UNCHANGED <<size, candidates, budget, len, round, wire>>
      BY <1>7, <2>6 DEF Iterate
    <3>2. OneBeyond'
      BY <2>6, <3>1 DEF OneBeyond, Filled
    <3> QED
      BY <1>1, <2>1, <2>2, <3>1, <3>2 DEF HygieneInv, TypeOK, LandsWherePossible
  <2>7. CASE round = 2 /\ OneBeyond
    <3>1. /\ len > 0 /\ Filled(len - 1) = budget - 1
          /\ Digits(len) <= budget /\ budget - Digits(len) = len - 1 /\ budget - Digits(len) # len
      BY <1>1, <2>7, EvenRound DEF OneBeyond
    <3>2. /\ len' = len - 1 /\ round' = 3 /\ len' \in Nat
          /\ UNCHANGED <<size, pc, candidates, budget, wire>>
      BY <1>1, <1>7, <2>7, <3>1, RoundGoesOn
    <3>3. Nearly'
      BY <3>1, <3>2 DEF Nearly, Filled
    <3> QED
      BY <1>1, <2>1, <2>2, <3>2, <3>3 DEF HygieneInv, TypeOK, LandsWherePossible
  <2> QED
    BY <1>1, <2>1, <2>3, <2>4, <2>5, <2>6, <2>7 DEF Nearly
<1>8. CASE Clamp
  <2>1. Chosen /\ budget > 0 /\ (Best \/ OneBeyond) /\ pc = "clamp"
    BY <1>8 DEF Clamp, HygieneInv
  <2>2. Chosen'
    BY <1>8, <2>1 DEF Clamp, Chosen, Roomy, Room
  <2>3. Digits(len) + len = Filled(len) /\ Digits(len) \in Nat
    BY <1>1, DigitsType DEF Filled
  <2>4. CASE Best
    <3>1. Digits(len) + len <= budget
      BY <1>1, <2>3, <2>4 DEF Best
    <3>2. pc' = "assemble" /\ UNCHANGED <<size, candidates, budget, len, round, wire>>
      BY <1>1, <1>8, <2>3, <3>1 DEF Clamp
    <3>3. Best'
      BY <2>4, <3>2 DEF Best, Filled
    <3> QED
      BY <1>1, <2>1, <2>2, <3>2, <3>3 DEF HygieneInv, TypeOK, LandsWherePossible
  <2>5. CASE OneBeyond
    <3>1. Digits(len) + len > budget /\ len > 0
      BY <1>1, <2>3, <2>5 DEF OneBeyond
    <3>2. /\ len' = len - 1 /\ len' \in Nat /\ len' + 1 = len
          /\ UNCHANGED <<size, pc, candidates, budget, round, wire>>
      BY <1>1, <1>8, <3>1 DEF Clamp
    <3>3. Best'
      BY <2>5, <3>2 DEF Best, OneBeyond, Filled
    <3> QED
      BY <1>1, <2>1, <2>2, <3>2, <3>3 DEF HygieneInv, TypeOK, LandsWherePossible
  <2> QED
    BY <2>1, <2>4, <2>5
<1>9. CASE Assemble
  BY <1>1, <1>9, AssembleLands DEF Assemble, Return, HygieneInv, TypeOK
<1>10. CASE UNCHANGED vars
  BY <1>10 DEF vars, HygieneInv, TypeOK, Candidates, Chosen, Nearly, Best, OneBeyond,
       LandsWherePossible, Roomy, Room, Filled
<1> QED
  BY <1>2, <1>3, <1>4, <1>5, <1>6, <1>7, <1>8, <1>9, <1>10 DEF Next

\* No subtraction of the padding goes below zero, for any buckets and framing.
THEOREM HygieneTypeCorrect == Spec => []TypeOK
<1>1. HygieneInv => TypeOK
  BY DEF HygieneInv
<1> QED
  BY <1>1, HygieneInit, HygieneNext, PTL DEF Spec

\* The padding ends on the smallest bucket with room for an item, exactly if any item
\* fills it, and one byte off if none does, for any buckets and framing.
THEOREM PaddingLands == Spec => []LandsWherePossible
<1>1. HygieneInv => LandsWherePossible
  BY DEF HygieneInv
<1> QED
  BY <1>1, HygieneInit, HygieneNext, PTL DEF Spec

=============================================================================
