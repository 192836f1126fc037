--------------------------- MODULE SanitizeProofs ---------------------------
(***************************************************************************)
(* Theorems about Sanitize, for any texts, directories, environment and    *)
(* budgets.                                                                *)
(*                                                                         *)
(* Every rule of the sanitizer is a rewriting of runs of a text to marks.  *)
(* What is known of one is a trace: each glyph of the result is a mark, or *)
(* a glyph of the text, the next one after the run or the glyph before     *)
(* (Rewritten).  So a part without marks that stands in the result stood   *)
(* in the text, where no run started (StoodBefore): a rule takes away the  *)
(* part that it looks for, and no later rule makes it up again from what   *)
(* is left of something else (Keeps).  The same trace says that a mark     *)
(* makes no absolute path of what stands before or behind it (NoNewPath),  *)
(* and that collapsing leaves no two redactions in one cluster             *)
(* (CollapseApart).  The invariants carry this through the lines: what a   *)
(* line has lost it does not get back, and neither does the joined text.   *)
(***************************************************************************)
EXTENDS Sanitize, FiniteSetTheorems, SequenceTheorems, WellFoundedInduction, TLAPS

-----------------------------------------------------------------------------
(* Numbers.                                                                   *)

\* Induction over a set, which no theorem with an operator is needed for.
LEMMA Induction ==
    ASSUME NEW P, 0 \in P, \A n \in Nat : n \in P => n + 1 \in P
    PROVE  Nat \subseteq P
<1> SUFFICES ASSUME Nat \ P # {} PROVE FALSE
  OBVIOUS
<1> DEFINE R == OpToRel(<, Nat)
           T == Nat \ P
<1>0. IsWellFoundedOn(R, Nat) /\ T \subseteq Nat /\ T # {}
  BY NatLessThanWellFounded
<1>1. PICK k \in T : \A j \in T : ~(<<j, k>> \in R)
  <2> HIDE DEF R, T
  <2> QED
    BY <1>0, WFMin
<1>2. k # 0 /\ k - 1 \in Nat /\ k - 1 < k
  OBVIOUS
<1>3. k - 1 \in P
  BY <1>1, <1>2 DEF OpToRel
<1> QED
  BY <1>2, <1>3

\* A set of numbers has a least one.
LEMMA Least ==
    ASSUME NEW T, T \subseteq Nat, T # {}
    PROVE  \E i \in T : \A j \in T : i <= j
<1> DEFINE R == OpToRel(<, Nat)
<1>1. IsWellFoundedOn(R, Nat)
  BY NatLessThanWellFounded
<1>2. PICK k \in T : \A j \in T : ~(<<j, k>> \in R)
  <2> HIDE DEF R
  <2> QED
    BY <1>1, WFMin
<1>3. \A j \in T : ~(j < k)
  BY <1>2 DEF OpToRel
<1> QED
  BY <1>3

\* One with a bound has a greatest one.
LEMMA Greatest ==
    ASSUME NEW N \in Nat, NEW T, T \subseteq 1 .. N, T # {}
    PROVE  \E i \in T : \A j \in T : j <= i
<1> DEFINE U == {N - i : i \in T}
<1>1. U \subseteq Nat /\ U # {}
  <2>1. \A i \in 1 .. N : N - i \in Nat
    OBVIOUS
  <2> QED
    BY <2>1
<1>2. PICK m \in U : \A n \in U : m <= n
  <2> HIDE DEF U
  <2> QED
    BY <1>1, Least
<1>3. PICK i \in T : m = N - i
  BY <1>2
<1>4. \A j \in T : N - i <= N - j
  BY <1>2, <1>3
<1>5. \A j \in T : j <= i
  BY <1>4
<1> QED
  BY <1>5

\* Intervals from one that are the same have the same end.
LEMMA SameInterval ==
    ASSUME NEW a \in Nat, NEW b \in Nat, 1 .. a = 1 .. b
    PROVE  a = b
<1>1. CASE a < b
  <2>1. b \in 1 .. b /\ b \notin 1 .. a
    BY <1>1
  <2> QED
    BY <2>1
<1>2. CASE b < a
  <2>1. a \in 1 .. a /\ a \notin 1 .. b
    BY <1>2
  <2> QED
    BY <2>1
<1> QED
  BY <1>1, <1>2

-----------------------------------------------------------------------------
(* A scan from left to right.                                                 *)

\* From every place up to N an item, and then what follows at the next place.
Scans(f, N, M, item, next) ==
    f = [i \in 1 .. M |-> IF i > N THEN <<>> ELSE <<item[i]>> \o f[next[i]]]

\* The scan goes forward and stays within 1 .. M.
Forward(N, M, next) ==
    /\ N \in Nat /\ M \in Nat /\ N < M
    /\ \A i \in 1 .. N : next[i] \in 1 .. M /\ i < next[i]

\* What is computed from place i on is defined from what is computed further right.
LEMMA ScanExists ==
    ASSUME NEW N, NEW M, NEW item, NEW next, Forward(N, M, next)
    PROVE  \E f : Scans(f, N, M, item, next)
<1> DEFINE D(d) == {i \in 1 .. M : M - i < d}
           Part(g, d) == g = [i \in D(d) |-> IF i > N THEN <<>> ELSE <<item[i]>> \o g[next[i]]]
           P == {d \in Nat : \E g : Part(g, d)}
<1>0. N \in Nat /\ M \in Nat /\ \A i \in 1 .. N : next[i] \in 1 .. M /\ i < next[i]
  BY DEF Forward
<1>1. 0 \in P
  <2> DEFINE g == [i \in D(0) |-> <<>>]
  <2>1. D(0) = {}
    BY <1>0
  <2> HIDE DEF D
  <2>2. Part(g, 0)
    BY <2>1
  <2> QED
    BY <2>2
<1>2. ASSUME NEW d \in Nat, d \in P PROVE d + 1 \in P
  <2>1. PICK g : Part(g, d)
    BY <1>2
  <2> DEFINE j == M - d
             e == d + 1
             h == [i \in D(e) |-> IF i > N THEN <<>> ELSE <<item[i]>> \o g[next[i]]]
  <2>2. \A i \in D(d) : i \in D(e) /\ g[i] = IF i > N THEN <<>> ELSE <<item[i]>> \o g[next[i]]
    <3>1. \A i \in D(d) : i \in D(e)
      BY <1>0
    <3> HIDE DEF D
    <3>2. \A i \in D(d) : g[i] = IF i > N THEN <<>> ELSE <<item[i]>> \o g[next[i]]
      BY <2>1
    <3> QED
      BY <3>1, <3>2
  <2>3. \A i \in D(d) : h[i] = g[i]
    <3> HIDE DEF D
    <3> QED
      BY <2>2
  <2>4. \A i \in D(e) : i <= N => next[i] \in D(d)
    BY <1>0
  <2>5. \A i \in D(e) : i \in Nat
    BY <1>0
  <2> HIDE DEF D
  <2>6. \A i \in D(e) : h[i] = IF i > N THEN <<>> ELSE <<item[i]>> \o h[next[i]]
    <3> TAKE i \in D(e)
    <3>1. CASE i > N
      BY <3>1
    <3>2. CASE ~(i > N)
      <4>1. i <= N
        BY <1>0, <2>5, <3>2
      <4>2. h[next[i]] = g[next[i]]
        BY <2>3, <2>4, <4>1
      <4>3. h[i] = <<item[i]>> \o g[next[i]]
        BY <3>2
      <4> QED
        BY <3>2, <4>2, <4>3
    <3> QED
      BY <3>1, <3>2
  <2>7. h = [i \in D(e) |-> h[i]]
    OBVIOUS
  <2> HIDE DEF h
  <2>8. Part(h, e)
    BY <2>6, <2>7
  <2>9. e \in Nat
    OBVIOUS
  <2> HIDE DEF Part
  <2> QED
    BY <2>8, <2>9 DEF e
<1> HIDE DEF P
<1>3. M \in P
  BY <1>0, <1>1, <1>2, Induction
<1>4. PICK g : Part(g, M)
  BY <1>3 DEF P
<1>5. D(M) = 1 .. M
  BY <1>0
<1> HIDE DEF D
<1> QED
  BY <1>4, <1>5 DEF Scans

\* Which place every item of t comes from.
Traces(o, t, i, N, item, next) ==
    /\ t = [k \in 1 .. Len(t) |-> item[o[k]]]
    /\ Len(t) \in Nat
    /\ \A k \in 1 .. Len(t) : o[k] \in 1 .. N
    /\ Len(t) = 0 <=> i > N
    /\ Len(t) > 0 => o[1] = i
    /\ \A k \in 1 .. (Len(t) - 1) : o[k + 1] = next[o[k]]

\* A first item before the others.
LEMMA OneBefore ==
    ASSUME NEW S, NEW x \in S, NEW q \in Seq(S), NEW t, t = <<x>> \o q
    PROVE  /\ t \in Seq(S) /\ Len(q) \in Nat /\ Len(t) = Len(q) + 1 /\ t[1] = x
           /\ \A k \in 1 .. Len(q) : t[k + 1] = q[k]
           /\ \A k \in 2 .. Len(t) : k - 1 \in 1 .. Len(q) /\ t[k] = q[k - 1]
<1>1. \A y \in S : <<y>> \in Seq(S) /\ Len(<<y>>) = 1 /\ <<y>>[1] = y
  OBVIOUS
<1> DEFINE h == <<x>>
<1>2. h \in Seq(S) /\ Len(h) = 1 /\ h[1] = x
  BY <1>1
<1>3. t = h \o q
  OBVIOUS
<1> HIDE DEF h
<1>4. /\ h \o q \in Seq(S) /\ Len(h \o q) = Len(h) + Len(q)
      /\ \A k \in 1 .. Len(h) + Len(q) : (h \o q)[k] = IF k <= Len(h) THEN h[k] ELSE q[k - Len(h)]
  BY <1>2, ConcatProperties
<1>5. Len(q) \in Nat
  BY LenProperties
<1>6. /\ t \in Seq(S) /\ Len(t) = Len(q) + 1
      /\ \A k \in 1 .. Len(q) + 1 : t[k] = IF k <= 1 THEN h[k] ELSE q[k - 1]
  BY <1>2, <1>3, <1>4, <1>5
<1>7. t[1] = x
  BY <1>2, <1>5, <1>6
<1>8. \A k \in 1 .. Len(q) : k + 1 \in 1 .. Len(q) + 1 /\ ~(k + 1 <= 1) /\ (k + 1) - 1 = k
  BY <1>5
<1>9. \A k \in 2 .. Len(t) : k \in 1 .. Len(q) + 1 /\ ~(k <= 1) /\ k - 1 \in 1 .. Len(q)
  BY <1>5, <1>6
<1> QED
  BY <1>5, <1>6, <1>7, <1>8, <1>9

\* A scan makes a sequence of the items on its way.
LEMMA ScanTraces ==
    ASSUME NEW S, NEW N, NEW M, NEW item, NEW next, Forward(N, M, next),
           \A k \in 1 .. N : item[k] \in S, NEW f, Scans(f, N, M, item, next), NEW i \in 1 .. M
    PROVE  f[i] \in Seq(S) /\ \E o : Traces(o, f[i], i, N, item, next)
<1> DEFINE Good(j) == f[j] \in Seq(S) /\ \E o : Traces(o, f[j], j, N, item, next)
           P == {d \in Nat : \A j \in 1 .. M : M - j < d => Good(j)}
<1>0. N \in Nat /\ M \in Nat /\ \A k \in 1 .. N : next[k] \in 1 .. M /\ k < next[k]
  BY DEF Forward
<1>1. \A j \in 1 .. M : f[j] = IF j > N THEN <<>> ELSE <<item[j]>> \o f[next[j]]
  BY DEF Scans
<1>2. ASSUME NEW j \in 1 .. M, j > N PROVE Good(j)
  <2>1. f[j] = <<>>
    BY <1>1, <1>2
  <2> DEFINE t == f[j]
             o == <<>>
  <2>2. t \in Seq(S) /\ Len(t) = 0
    BY <2>1
  <2>3. t = [k \in 1 .. Len(t) |-> item[o[k]]]
    <3>1. t = [k \in 1 .. 0 |-> item[o[k]]]
      BY <2>1
    <3> HIDE DEF t
    <3> QED
      BY <2>2, <3>1
  <2> HIDE DEF t
  <2>4. 1 .. Len(t) = {} /\ 1 .. (Len(t) - 1) = {}
    BY <2>2
  <2>5. Traces(o, t, j, N, item, next)
    BY <1>2, <2>2, <2>3, <2>4 DEF Traces
  <2> QED
    BY <2>2, <2>5 DEF t
<1>3. ASSUME NEW j \in 1 .. M, ~(j > N), Good(next[j]) PROVE Good(j)
  <2> DEFINE t == f[j]
             q == f[next[j]]
             x == item[j]
             n == next[j]
  <2>1. q \in Seq(S) /\ j \in 1 .. N /\ x \in S /\ n \in 1 .. M /\ j < n /\ t = <<x>> \o q
    <3>1. j \in 1 .. N
      BY <1>0, <1>3
    <3>2. x \in S /\ n \in 1 .. M /\ j < n
      BY <1>0, <3>1
    <3>3. t = <<x>> \o q
      BY <1>1, <1>3
    <3> QED
      BY <1>3, <3>1, <3>2, <3>3
  <2>2. PICK p : Traces(p, q, n, N, item, next)
    BY <1>3
  <2>3. n = next[j] /\ x = item[j]
    OBVIOUS
  <2> HIDE DEF t, q, x, n
  <2>4. /\ t \in Seq(S) /\ Len(q) \in Nat /\ Len(t) = Len(q) + 1 /\ t[1] = x
        /\ \A k \in 2 .. Len(t) : k - 1 \in 1 .. Len(q) /\ t[k] = q[k - 1]
    BY <2>1, OneBefore
  <2> DEFINE o == [k \in 1 .. Len(t) |-> IF k = 1 THEN j ELSE p[k - 1]]
  <2>5. 1 \in 1 .. Len(t) /\ Len(t) \in Nat /\ DOMAIN t = 1 .. Len(t)
    BY <2>4, LenProperties
  <2>6. \A k \in 1 .. Len(q) : q[k] = item[p[k]] /\ p[k] \in 1 .. N
    BY <2>2 DEF Traces
  <2>7. o[1] = j /\ \A k \in 2 .. Len(t) : o[k] = p[k - 1]
    BY <2>5
  <2> HIDE DEF o
  <2>8. \A k \in 1 .. Len(t) : k = 1 \/ k \in 2 .. Len(t)
    BY <2>5
  <2>9. \A k \in 1 .. Len(t) : t[k] = item[o[k]] /\ o[k] \in 1 .. N
    BY <2>1, <2>3, <2>4, <2>6, <2>7, <2>8
  <2>10. t = [k \in 1 .. Len(t) |-> item[o[k]]]
    <3>1. t = [k \in 1 .. Len(t) |-> t[k]]
      BY <2>4, <2>5, SeqDef
    <3> QED
      BY <2>9, <3>1
  <2>11. ASSUME NEW k \in 1 .. (Len(t) - 1) PROVE o[k + 1] = next[o[k]]
    <3>1. k + 1 \in 2 .. Len(t) /\ (k + 1) - 1 = k
      BY <2>5
    <3>2. o[k + 1] = p[k] /\ k \in 1 .. Len(q)
      BY <2>4, <2>7, <3>1
    <3>3. CASE k = 1
      <4>1. Len(q) > 0
        BY <2>4, <3>2
      <4>2. p[1] = n
        BY <2>2, <4>1 DEF Traces
      <4> QED
        BY <2>3, <2>7, <3>2, <3>3, <4>2
    <3>4. CASE k # 1
      <4>1. k \in 2 .. Len(t) /\ k - 1 \in 1 .. (Len(q) - 1) /\ (k - 1) + 1 = k
        BY <2>4, <2>5, <3>2, <3>4
      <4>2. p[(k - 1) + 1] = next[p[k - 1]]
        BY <2>2, <4>1 DEF Traces
      <4> QED
        BY <2>7, <3>2, <4>1, <4>2
    <3> QED
      BY <3>3, <3>4
  <2>12. Len(t) # 0 /\ ~(j > N)
    BY <1>3, <2>4
  <2>13. Traces(o, t, j, N, item, next)
    BY <2>5, <2>7, <2>9, <2>10, <2>11, <2>12 DEF Traces
  <2> QED
    BY <2>4, <2>13 DEF t
<1> HIDE DEF Good
<1>4. 0 \in P
  BY <1>0
<1>5. ASSUME NEW d \in Nat, d \in P PROVE d + 1 \in P
  <2>1. ASSUME NEW j \in 1 .. M, M - j < d + 1 PROVE Good(j)
    <3>1. CASE j > N
      BY <1>2, <3>1
    <3>2. CASE ~(j > N)
      <4>1. j \in 1 .. N
        BY <1>0, <3>2
      <4>2. next[j] \in 1 .. M /\ j < next[j]
        BY <1>0, <4>1
      <4>3. M - next[j] < d
        BY <1>0, <2>1, <4>2
      <4>4. Good(next[j])
        BY <1>5, <4>2, <4>3
      <4> QED
        BY <1>3, <3>2, <4>4
    <3> QED
      BY <3>1, <3>2
  <2> QED
    BY <2>1
<1> HIDE DEF P
<1>6. M \in P
  BY <1>0, <1>4, <1>5, Induction
<1>7. M - i < M
  BY <1>0
<1>8. Good(i)
  BY <1>0, <1>6, <1>7 DEF P
<1> QED
  BY <1>8 DEF Good

-----------------------------------------------------------------------------
(* What Rewrite makes of a text.                                              *)

\* A run ends in the text.
Runs(s, run) == \A i \in 1 .. Len(s) : run[i] \in Nat /\ i + run[i] <= Len(s) + 1

\* Every glyph of t is the mark of a run of s or a glyph of s, the next one after it.
Rewritten(t, o, s, run, mark) ==
    /\ \A k \in 1 .. Len(t) :
          o[k] \in 1 .. Len(s) /\ t[k] = IF run[o[k]] > 0 THEN mark ELSE s[o[k]]
    /\ Len(t) > 0 => o[1] = 1
    /\ \A k \in 1 .. (Len(t) - 1) :
          o[k + 1] = IF run[o[k]] > 0 THEN o[k] + run[o[k]] ELSE o[k] + 1

\* So it is.
LEMMA Rewrites ==
    ASSUME NEW S, NEW s \in Seq(S), NEW mark \in S, NEW run, Runs(s, run), NEW t, t = Rewrite(s, run, mark)
    PROVE  t \in Seq(S) /\ \E o : Rewritten(t, o, s, run, mark)
<1> DEFINE N == Len(s)
           M == N + 1
           item == [i \in 1 .. N |-> IF run[i] > 0 THEN mark ELSE s[i]]
           next == [i \in 1 .. N |-> IF run[i] > 0 THEN i + run[i] ELSE i + 1]
           Body(f, i) == IF i > N THEN <<>>
                         ELSE IF run[i] > 0 THEN <<mark>> \o f[i + run[i]]
                         ELSE <<s[i]>> \o f[i + 1]
           Is(f) == f = [i \in 1 .. M |-> Body(f, i)]
<1>1. N \in Nat /\ M \in Nat /\ N < M /\ DOMAIN s = 1 .. N
  BY LenProperties
<1>2. \A i \in 1 .. N : run[i] \in Nat /\ i + run[i] <= M /\ s[i] \in S
  BY <1>1, ElementOfSeq DEF Runs
<1>3. t = (CHOOSE f : Is(f))[1]
  BY DEF Rewrite
<1> HIDE DEF N, M
<1>4. \A i \in 1 .. N : item[i] = (IF run[i] > 0 THEN mark ELSE s[i]) /\ item[i] \in S
  BY <1>2
<1>5. \A i \in 1 .. N : next[i] = IF run[i] > 0 THEN i + run[i] ELSE i + 1
  OBVIOUS
<1>6. \A i \in 1 .. N : next[i] \in 1 .. M /\ i < next[i]
  <2> TAKE i \in 1 .. N
  <2>1. run[i] \in Nat /\ i + run[i] <= M /\ i \in Nat /\ i + 1 <= M
    BY <1>1, <1>2 DEF M
  <2> HIDE DEF next
  <2> QED
    BY <1>1, <1>5, <2>1
<1> HIDE DEF item, next
<1>7. Forward(N, M, next)
  BY <1>1, <1>6 DEF Forward
<1>8. \A f : \A i \in 1 .. M : Body(f, i) = IF i > N THEN <<>> ELSE <<item[i]>> \o f[next[i]]
  <2> TAKE f
  <2> TAKE i \in 1 .. M
  <2>1. CASE i > N
    BY <2>1
  <2>2. CASE ~(i > N)
    <3>1. i \in 1 .. N
      BY <1>1, <2>2
    <3> QED
      BY <1>4, <1>5, <2>2, <3>1
  <2> QED
    BY <2>1, <2>2
<1> HIDE DEF Body
<1>9. \A f : Is(f) <=> Scans(f, N, M, item, next)
  BY <1>8 DEF Scans
<1>10. \E f : Is(f)
  BY <1>7, <1>9, ScanExists
<1> DEFINE c == CHOOSE f : Is(f)
<1> HIDE DEF Is
<1>11. Is(c)
  BY <1>10
<1>12. Scans(c, N, M, item, next) /\ t = c[1]
  BY <1>3, <1>9, <1>11
<1> HIDE DEF c
<1> DEFINE one == 1
<1>13. one \in 1 .. M
  BY <1>1
<1> HIDE DEF one
<1>14. \A k \in 1 .. N : item[k] \in S
  BY <1>4
<1>15. c[one] \in Seq(S) /\ \E o : Traces(o, c[one], one, N, item, next)
  BY <1>7, <1>12, <1>13, <1>14, ScanTraces
<1>16. t = c[one]
  BY <1>12 DEF one
<1>17. PICK o : Traces(o, t, one, N, item, next)
  BY <1>15, <1>16
<1>18. \A k \in 1 .. Len(t) : o[k] \in 1 .. N /\ t[k] = item[o[k]]
  BY <1>17 DEF Traces
<1>19. Len(t) \in Nat /\ (Len(t) > 0 => o[1] = 1) /\ \A k \in 1 .. (Len(t) - 1) : o[k + 1] = next[o[k]]
  BY <1>17 DEF Traces, one
<1>20. \A k \in 1 .. Len(t) : t[k] = IF run[o[k]] > 0 THEN mark ELSE s[o[k]]
  BY <1>4, <1>18
<1>21. \A k \in 1 .. (Len(t) - 1) : o[k + 1] = IF run[o[k]] > 0 THEN o[k] + run[o[k]] ELSE o[k] + 1
  <2> TAKE k \in 1 .. (Len(t) - 1)
  <2>1. o[k + 1] = next[o[k]]
    BY <1>19
  <2>2. k \in 1 .. Len(t)
    BY <1>19
  <2>3. o[k] \in 1 .. N
    BY <1>18, <2>2
  <2> QED
    BY <1>5, <2>1, <2>3
<1>22. Rewritten(t, o, s, run, mark)
  BY <1>18, <1>19, <1>20, <1>21 DEF Rewritten, N
<1> QED
  BY <1>15, <1>16, <1>22

\* What holds of no glyph of s and not of the mark holds of no glyph of the result.
LEMMA NothingNew ==
    ASSUME NEW s, NEW mark, NEW run, NEW t, NEW o,
           Rewritten(t, o, s, run, mark), NEW g, g # mark, \A i \in 1 .. Len(s) : s[i] # g
    PROVE  \A k \in 1 .. Len(t) : t[k] # g
BY DEF Rewritten

\* A part of a sequence is one.
LEMMA SubIs ==
    ASSUME NEW S, NEW s \in Seq(S), NEW a \in Nat, NEW b \in Int, a >= 1, b <= Len(s), b >= a - 1,
           NEW u, u = SubSeq(s, a, b)
    PROVE  /\ u \in Seq(S) /\ Len(u) = b - a + 1
           /\ \A i \in 1 .. (b - a + 1) : a + i - 1 \in a .. b /\ u[i] = s[a + i - 1]
<1>1. Len(s) \in Nat /\ \A i \in 1 .. Len(s) : s[i] \in S
  BY LenProperties, ElementOfSeq
<1>2. \A i \in a .. b : s[i] \in S
  BY <1>1
<1>3. /\ SubSeq(s, a, b) \in Seq(S) /\ Len(SubSeq(s, a, b)) = (IF a <= b THEN b - a + 1 ELSE 0)
      /\ \A i \in 1 .. b - a + 1 : SubSeq(s, a, b)[i] = s[a + i - 1]
  BY <1>2, SubSeqProperties
<1>4. u \in Seq(S) /\ Len(u) = (IF a <= b THEN b - a + 1 ELSE 0) /\ \A i \in 1 .. b - a + 1 : u[i] = s[a + i - 1]
  BY <1>3
<1>5. \A i \in 1 .. (b - a + 1) : a + i - 1 \in a .. b
  OBVIOUS
<1> QED
  BY <1>4, <1>5

\* Where a part stands, glyph by glyph.
Stands(s, i, part) ==
    /\ part # <<>> /\ i + Len(part) - 1 <= Len(s)
    /\ \A j \in 1 .. Len(part) : s[i + j - 1] = part[j]

\* Occurs means that.
LEMMA OccursIs ==
    ASSUME NEW S, NEW s \in Seq(S), NEW part \in Seq(S), NEW i \in 1 .. Len(s)
    PROVE  Occurs(s, i, part) <=> Stands(s, i, part)
<1> SUFFICES ASSUME part # <<>>, i + Len(part) - 1 <= Len(s)
             PROVE  SubSeq(s, i, i + Len(part) - 1) = part <=> \A j \in 1 .. Len(part) : s[i + j - 1] = part[j]
  BY DEF Occurs, Stands
<1> DEFINE n == Len(part)
           b == i + n - 1
           u == SubSeq(s, i, b)
<1>1. n \in Nat /\ n >= 1 /\ Len(s) \in Nat
  BY LenProperties, EmptySeq
<1>2. i \in Nat /\ b \in Int /\ i >= 1 /\ b <= Len(s) /\ b >= i - 1 /\ b - i + 1 = n
  BY <1>1
<1>3. u = SubSeq(s, i, b)
  OBVIOUS
<1> HIDE DEF b, u, n
<1>4. u \in Seq(S) /\ Len(u) = b - i + 1 /\ \A j \in 1 .. (b - i + 1) : u[j] = s[i + j - 1]
  BY <1>2, <1>3, SubIs
<1>5. u \in Seq(S) /\ Len(u) = n /\ \A j \in 1 .. n : u[j] = s[i + j - 1]
  BY <1>2, <1>4
<1>6. u = part <=> \A j \in 1 .. n : s[i + j - 1] = part[j]
  <2>1. ASSUME u = part PROVE \A j \in 1 .. n : s[i + j - 1] = part[j]
    BY <1>5, <2>1
  <2>2. ASSUME \A j \in 1 .. n : s[i + j - 1] = part[j] PROVE u = part
    <3>1. Len(u) = Len(part) /\ \A j \in 1 .. Len(u) : u[j] = part[j]
      BY <1>5, <2>2 DEF n
    <3> QED
      BY <1>5, <3>1, SeqEqual
  <2> QED
    BY <2>1, <2>2
<1> QED
  BY <1>6 DEF u, b, n

\* A part without the mark that stands at k in the result stands at o[k] in the text, and
\* no run starts there.
LEMMA StoodBefore ==
    ASSUME NEW S, NEW s \in Seq(S), NEW mark, NEW run, Runs(s, run), NEW t \in Seq(S), NEW o,
           Rewritten(t, o, s, run, mark),
           NEW part \in Seq(S), \A i \in 1 .. Len(part) : part[i] # mark,
           NEW k \in 1 .. Len(t), Stands(t, k, part)
    PROVE  o[k] \in 1 .. Len(s) /\ Stands(s, o[k], part) /\ run[o[k]] = 0
<1> DEFINE n == Len(part)
           a == o[k]
           P == {j \in Nat : j < n => o[k + j] = a + j}
<1>1. n \in Nat /\ n >= 1 /\ Len(t) \in Nat /\ Len(s) \in Nat /\ k + n - 1 <= Len(t)
  BY LenProperties, EmptySeq DEF Stands
<1>2. \A m \in 1 .. Len(t) : o[m] \in 1 .. Len(s) /\ t[m] = IF run[o[m]] > 0 THEN mark ELSE s[o[m]]
  BY DEF Rewritten
<1>3. \A m \in 1 .. (Len(t) - 1) : o[m + 1] = IF run[o[m]] > 0 THEN o[m] + run[o[m]] ELSE o[m] + 1
  BY DEF Rewritten
<1>4. \A j \in 1 .. n : t[k + j - 1] = part[j] /\ part[j] # mark
  BY DEF Stands
<1> HIDE DEF n
<1>5. \A j \in 0 .. (n - 1) : /\ k + j \in 1 .. Len(t) /\ ~(run[o[k + j]] > 0) /\ s[o[k + j]] = part[j + 1]
                              /\ o[k + j] \in 1 .. Len(s)
  <2> TAKE j \in 0 .. (n - 1)
  <2>1. j + 1 \in 1 .. n /\ k + (j + 1) - 1 = k + j /\ k + j \in 1 .. Len(t)
    BY <1>1
  <2>2. t[k + j] = part[j + 1] /\ part[j + 1] # mark
    BY <1>4, <2>1
  <2> QED
    BY <1>2, <2>1, <2>2
<1> HIDE DEF a
<1>6. a \in 1 .. Len(s) /\ a = o[k + 0] /\ a = o[k]
  <2>1. k + 0 = k /\ 0 \in 0 .. (n - 1)
    BY <1>1
  <2> QED
    BY <1>5, <2>1 DEF a
<1> a \in Nat
  BY <1>1, <1>6
<1>7. 0 \in P
  BY <1>6
<1>8. ASSUME NEW j \in Nat, j \in P PROVE j + 1 \in P
  <2> DEFINE i == j + 1
  <2>1. i \in Nat
    OBVIOUS
  <2>2. ASSUME i < n PROVE o[k + i] = a + i
    <3>1. j \in 0 .. (n - 1) /\ (k + j) + 1 = k + i /\ k + j \in 1 .. (Len(t) - 1) /\ j < n
      BY <1>1, <2>2
    <3>2. o[(k + j) + 1] = o[k + j] + 1
      BY <1>3, <1>5, <3>1
    <3>3. o[k + j] = a + j
      BY <1>8, <3>1
    <3>4. a + i = (a + j) + 1
      OBVIOUS
    <3> QED
      BY <3>1, <3>2, <3>3, <3>4
  <2> HIDE DEF i
  <2> QED
    BY <2>1, <2>2 DEF i
<1> HIDE DEF P
<1>9. Nat \subseteq P
  BY <1>7, <1>8, Induction
<1>10. \A j \in 0 .. (n - 1) : o[k + j] = a + j
  <2> TAKE j \in 0 .. (n - 1)
  <2>1. j \in Nat /\ j < n
    BY <1>1
  <2> QED
    BY <1>9, <2>1 DEF P
<1>11. a + n - 1 <= Len(s)
  <2>1. n - 1 \in 0 .. (n - 1) /\ a + (n - 1) = a + n - 1
    BY <1>1, <1>6
  <2>2. o[k + (n - 1)] \in 1 .. Len(s) /\ o[k + (n - 1)] = a + (n - 1)
    BY <1>5, <1>10, <2>1
  <2> QED
    BY <1>1, <1>6, <2>1, <2>2
<1>12. \A j \in 1 .. n : s[a + j - 1] = part[j]
  <2> TAKE j \in 1 .. n
  <2>1. j - 1 \in 0 .. (n - 1) /\ (j - 1) + 1 = j /\ a + (j - 1) = a + j - 1
    BY <1>1, <1>6
  <2>2. s[o[k + (j - 1)]] = part[(j - 1) + 1] /\ o[k + (j - 1)] = a + (j - 1)
    BY <1>5, <1>10, <2>1
  <2> QED
    BY <2>1, <2>2
<1>13. run[a] = 0
  <2>1. 0 \in 0 .. (n - 1)
    BY <1>1
  <2>2. ~(run[a] > 0)
    BY <1>5, <1>6, <2>1
  <2> QED
    BY <1>6, <2>2 DEF Runs
<1>14. part # <<>>
  BY DEF Stands
<1> QED
  BY <1>6, <1>11, <1>12, <1>13, <1>14 DEF Stands, n

\* So a part that is not in a text is not in what is made of it by writing marks.
LEMMA StaysGone ==
    ASSUME NEW S, NEW s \in Seq(S), NEW mark \in S, NEW run, Runs(s, run), NEW t, t = Rewrite(s, run, mark),
           NEW part \in Seq(S), \A i \in 1 .. Len(part) : part[i] # mark, ~Contains(s, part)
    PROVE  t \in Seq(S) /\ ~Contains(t, part)
<1>1. t \in Seq(S)
  BY Rewrites
<1>2. PICK o : Rewritten(t, o, s, run, mark)
  BY Rewrites
<1>3. ASSUME NEW k \in 1 .. Len(t), Occurs(t, k, part) PROVE FALSE
  <2>1. Stands(t, k, part)
    BY <1>1, <1>3, OccursIs
  <2>2. o[k] \in 1 .. Len(s) /\ Stands(s, o[k], part)
    BY <1>1, <1>2, <2>1, StoodBefore
  <2>3. Occurs(s, o[k], part)
    BY <2>2, OccursIs
  <2> QED
    BY <2>2, <2>3 DEF Contains
<1> QED
  BY <1>1, <1>3 DEF Contains

-----------------------------------------------------------------------------
(* Replacing a part.                                                          *)

\* Where a part occurs is a run of its length.
LEMMA PartsAreRuns ==
    ASSUME NEW S, NEW s \in Seq(S), NEW part \in Seq(S),
           NEW run, run = [i \in DOMAIN s |-> IF Occurs(s, i, part) THEN Len(part) ELSE 0]
    PROVE  Runs(s, run) /\ \A i \in 1 .. Len(s) : run[i] = 0 => ~Occurs(s, i, part)
<1>1. Len(s) \in Nat /\ DOMAIN s = 1 .. Len(s) /\ Len(part) \in Nat
  BY LenProperties
<1>2. \A i \in 1 .. Len(s) : run[i] = IF Occurs(s, i, part) THEN Len(part) ELSE 0
  BY <1>1
<1>3. \A i \in 1 .. Len(s) : Occurs(s, i, part) => i + Len(part) - 1 <= Len(s) /\ Len(part) # 0
  <2>1. part # <<>> => Len(part) # 0
    BY EmptySeq
  <2> QED
    BY <2>1 DEF Occurs
<1>4. ASSUME NEW i \in 1 .. Len(s)
      PROVE  run[i] \in Nat /\ i + run[i] <= Len(s) + 1 /\ (run[i] = 0 => ~Occurs(s, i, part))
  <2>1. CASE Occurs(s, i, part)
    BY <1>1, <1>2, <1>3, <2>1
  <2>2. CASE ~Occurs(s, i, part)
    BY <1>1, <1>2, <2>2
  <2> QED
    BY <2>1, <2>2
<1> QED
  BY <1>4 DEF Runs

\* Replace takes every occurrence of a part away, if the mark is none of its glyphs.
LEMMA ReplaceTakes ==
    ASSUME NEW S, NEW s \in Seq(S), NEW part \in Seq(S), NEW mark \in S, NEW t, t = Replace(s, part, mark),
           \A i \in 1 .. Len(part) : part[i] # mark
    PROVE  ~Contains(t, part)
<1> DEFINE run == [i \in DOMAIN s |-> IF Occurs(s, i, part) THEN Len(part) ELSE 0]
<1>1. Runs(s, run) /\ \A i \in 1 .. Len(s) : run[i] = 0 => ~Occurs(s, i, part)
  BY PartsAreRuns
<1>2. t = Rewrite(s, run, mark)
  BY DEF Replace
<1> HIDE DEF run
<1>3. t \in Seq(S)
  BY <1>1, <1>2, Rewrites
<1>4. PICK o : Rewritten(t, o, s, run, mark)
  BY <1>1, <1>2, Rewrites
<1>5. ASSUME NEW k \in 1 .. Len(t), Occurs(t, k, part) PROVE FALSE
  <2>1. Stands(t, k, part)
    BY <1>3, <1>5, OccursIs
  <2>2. o[k] \in 1 .. Len(s) /\ Stands(s, o[k], part) /\ run[o[k]] = 0
    BY <1>1, <1>3, <1>4, <2>1, StoodBefore
  <2>3. Occurs(s, o[k], part)
    BY <2>2, OccursIs
  <2> QED
    BY <1>1, <2>2, <2>3
<1> QED
  BY <1>5 DEF Contains

\* What replacing a part leaves of another one.
LEMMA ReplaceLeaves ==
    ASSUME NEW S, NEW s \in Seq(S), NEW part \in Seq(S), NEW mark \in S, NEW t, t = Replace(s, part, mark)
    PROVE  /\ t \in Seq(S)
           /\ \A other \in Seq(S) :
                 (\A i \in 1 .. Len(other) : other[i] # mark) /\ ~Contains(s, other) => ~Contains(t, other)
<1> DEFINE run == [i \in DOMAIN s |-> IF Occurs(s, i, part) THEN Len(part) ELSE 0]
<1>1. Runs(s, run)
  BY PartsAreRuns
<1>2. t = Rewrite(s, run, mark)
  BY DEF Replace
<1> HIDE DEF run
<1>3. t \in Seq(S)
  BY <1>1, <1>2, Rewrites
<1>4. ASSUME NEW other \in Seq(S), \A i \in 1 .. Len(other) : other[i] # mark, ~Contains(s, other)
      PROVE  ~Contains(t, other)
  BY <1>1, <1>2, <1>4, StaysGone
<1> QED
  BY <1>3, <1>4

-----------------------------------------------------------------------------
(* What a rule of the sanitizer leaves of a text.                             *)

\* No redaction stands in a text.
Unredacted(s) == \A i \in 1 .. Len(s) : s[i] # REDACTED

\* What has no placeholder in it and is not in s is not in t.
Keeps(s, t) ==
    /\ t \in Seq(Glyph)
    /\ \A part \in Seq(Glyph \ Placeholder) : ~Contains(s, part) => ~Contains(t, part)

\* A rule that does not redact.
Marks(s, t) == Keeps(s, t) /\ (Unredacted(s) => Unredacted(t))

\* One rule after the other.
LEMMA BothKeep ==
    ASSUME NEW s, NEW t, NEW u
    PROVE  /\ Keeps(s, t) /\ Keeps(t, u) => Keeps(s, u)
           /\ Marks(s, t) /\ Marks(t, u) => Marks(s, u)
BY DEF Keeps, Marks

\* Rewriting runs to a placeholder is such a rule.
LEMMA RewriteKeeps ==
    ASSUME NEW s \in Seq(Glyph), NEW mark \in Placeholder, NEW run, Runs(s, run),
           NEW t, t = Rewrite(s, run, mark)
    PROVE  Keeps(s, t) /\ (mark # REDACTED => Marks(s, t))
<1>1. mark \in Glyph
  BY DEF Glyph
<1>2. t \in Seq(Glyph)
  BY <1>1, Rewrites
<1>3. ASSUME NEW part \in Seq(Glyph \ Placeholder), ~Contains(s, part) PROVE ~Contains(t, part)
  <2>1. \A i \in 1 .. Len(part) : part[i] # mark
    BY ElementOfSeq
  <2>2. part \in Seq(Glyph)
    <3>1. Glyph \ Placeholder \subseteq Glyph
      OBVIOUS
    <3> QED
      BY <3>1, SeqMonotonic
  <2> QED
    BY <1>1, <1>3, <2>1, <2>2, StaysGone
<1>4. ASSUME mark # REDACTED, Unredacted(s) PROVE Unredacted(t)
  <2>1. PICK o : Rewritten(t, o, s, run, mark)
    BY <1>1, Rewrites
  <2> DEFINE g == REDACTED
  <2>2. g # mark /\ \A i \in 1 .. Len(s) : s[i] # g
    BY <1>4 DEF Unredacted
  <2> HIDE DEF g
  <2>3. \A k \in 1 .. Len(t) : t[k] # g
    BY <2>1, <2>2, NothingNew
  <2> QED
    BY <2>3 DEF Unredacted, g
<1>5. Keeps(s, t)
  BY <1>2, <1>3 DEF Keeps
<1> QED
  BY <1>4, <1>5 DEF Marks

\* So is replacing a part.
LEMMA ReplaceMarks ==
    ASSUME NEW s \in Seq(Glyph), NEW part \in Seq(Glyph), NEW mark \in Placeholder, mark # REDACTED
    PROVE  Marks(s, Replace(s, part, mark))
<1> DEFINE run == [i \in DOMAIN s |-> IF Occurs(s, i, part) THEN Len(part) ELSE 0]
<1>1. Runs(s, run)
  BY PartsAreRuns
<1>2. Replace(s, part, mark) = Rewrite(s, run, mark)
  BY DEF Replace
<1> HIDE DEF run
<1> QED
  BY <1>1, <1>2, RewriteKeeps

\* And replacing a token that stands alone.
LEMMA TokenMarks ==
    ASSUME NEW s \in Seq(Glyph), NEW token \in Seq(Glyph), NEW mark \in Placeholder, mark # REDACTED
    PROVE  Marks(s, replace_token(s, token, mark))
<1> DEFINE run == [i \in DOMAIN s |-> IF StandsAlone(s, i, token) THEN Len(token) ELSE 0]
<1>1. Len(s) \in Nat /\ DOMAIN s = 1 .. Len(s) /\ Len(token) \in Nat
  BY LenProperties
<1>2. \A i \in 1 .. Len(s) : run[i] = IF StandsAlone(s, i, token) THEN Len(token) ELSE 0
  BY <1>1
<1>3. \A i \in 1 .. Len(s) : StandsAlone(s, i, token) => i + Len(token) - 1 <= Len(s)
  BY DEF StandsAlone, Occurs
<1>4. replace_token(s, token, mark) = Rewrite(s, run, mark)
  BY DEF replace_token
<1> HIDE DEF run
<1>5. ASSUME NEW i \in 1 .. Len(s) PROVE run[i] \in Nat /\ i + run[i] <= Len(s) + 1
  <2>1. CASE StandsAlone(s, i, token)
    BY <1>1, <1>2, <1>3, <2>1
  <2>2. CASE ~StandsAlone(s, i, token)
    BY <1>1, <1>2, <2>2
  <2> QED
    BY <2>1, <2>2
<1>6. Runs(s, run)
  BY <1>5 DEF Runs
<1> QED
  BY <1>4, <1>6, RewriteKeeps

\* The form with forward slashes is of the same length.
LEMMA SlashedIs ==
    ASSUME NEW S, "/" \in S, NEW s \in Seq(S)
    PROVE  Slashed(s) \in Seq(S) /\ Len(Slashed(s)) = Len(s)
<1> DEFINE t == Slashed(s)
<1>1. Len(s) \in Nat /\ DOMAIN s = 1 .. Len(s) /\ \A i \in 1 .. Len(s) : s[i] \in S
  BY LenProperties, ElementOfSeq
<1>2. t = [i \in 1 .. Len(s) |-> IF s[i] = "\\" THEN "/" ELSE s[i]]
  BY <1>1 DEF Slashed
<1>3. t \in [1 .. Len(s) -> S]
  BY <1>1, <1>2
<1> HIDE DEF t
<1>4. t \in Seq(S)
  BY <1>1, <1>3, SeqDef
<1>5. DOMAIN t = 1 .. Len(t) /\ Len(t) \in Nat
  BY <1>4, LenProperties
<1>6. 1 .. Len(t) = 1 .. Len(s)
  BY <1>3, <1>5
<1>7. Len(t) = Len(s)
  BY <1>1, <1>5, <1>6, SameInterval
<1> QED
  BY <1>4, <1>7 DEF t

-----------------------------------------------------------------------------
(* The paths.                                                                 *)

\* Where a run of glyphs of a class ends.
Ends(s, i, class, j) ==
    /\ j \in i .. Len(s) + 1
    /\ \A k \in i .. (j - 1) : s[k] \in class
    /\ j = Len(s) + 1 \/ s[j] \notin class

\* RunEnd finds it.
LEMMA RunEndIs ==
    ASSUME NEW S, NEW s \in Seq(S), NEW class, NEW i \in 1 .. (Len(s) + 1)
    PROVE  Ends(s, i, class, RunEnd(s, i, class))
<1> DEFINE n == Len(s) + 1
           T == {j \in i .. n : j = n \/ s[j] \notin class}
<1>1. n \in Nat /\ i \in 1 .. n
  BY LenProperties
<1> HIDE DEF n
<1>2. T \subseteq Nat /\ T # {}
  BY <1>1
<1>3. PICK j \in T : \A k \in T : j <= k
  <2> HIDE DEF T
  <2> QED
    BY <1>2, Least
<1>4. \A k \in i .. (j - 1) : k \notin T /\ k \in i .. n
  BY <1>1, <1>3
<1>5. \A k \in i .. (j - 1) : s[k] \in class
  BY <1>4
<1>6. \E m \in i .. n : (\A k \in i .. (m - 1) : s[k] \in class) /\ (m = n \/ s[m] \notin class)
  BY <1>3, <1>5
<1> DEFINE P(m) == (\A k \in i .. (m - 1) : s[k] \in class) /\ (m = n \/ s[m] \notin class)
           c == CHOOSE m \in i .. n : P(m)
<1>7. \E m \in i .. n : P(m)
  BY <1>6
<1>8. RunEnd(s, i, class) = c
  BY DEF RunEnd, n
<1> HIDE DEF P
<1>9. c \in i .. n /\ P(c)
  BY <1>7
<1> HIDE DEF c
<1> QED
  BY <1>8, <1>9 DEF P, Ends, n

\* What the code takes for the start of an absolute path.
StartsPath(s, i) ==
    LET starts == i = 1 \/ s[i - 1] \in BeforePath
    IN \/ s[i] = "/" /\ starts /\ i + 1 <= Len(s) /\ s[i + 1] \in PathChar
       \/ s[i] = "\\" /\ i + 1 <= Len(s) /\ s[i + 1] = "\\"
       \/ /\ s[i] \in Letter /\ starts /\ i + 2 <= Len(s)
          /\ s[i + 1] = ":" /\ s[i + 2] \in {"/", "\\"}

\* A path that starts there has a length, and ends in the text; none has length 0.
LEMMA PathRun ==
    ASSUME NEW s \in Seq(Glyph), NEW i \in 1 .. Len(s), NEW n, n = absolute_path_run_at(s, i)
    PROVE  n \in Nat /\ i + n <= Len(s) + 1 /\ (n = 0 <=> ~StartsPath(s, i))
<1> DEFINE starts == i = 1 \/ s[i - 1] \in BeforePath
           Has(m) == i + m <= Len(s)
           From(m) == RunEnd(s, i + m, PathChar) - i
           slash == s[i] = "/" /\ starts /\ Has(1) /\ s[i + 1] \in PathChar
           unc == s[i] = "\\" /\ Has(1) /\ s[i + 1] = "\\"
           drive == s[i] \in Letter /\ starts /\ Has(2) /\ s[i + 1] = ":" /\ s[i + 2] \in {"/", "\\"}
<1>1. Len(s) \in Nat
  BY LenProperties
<1>2. "/" # "\\" /\ "/" \notin Letter /\ "\\" \notin Letter
  BY SanitizeAssumption DEF Character
<1>3. n = CASE slash -> From(1) [] unc -> From(2) [] drive -> From(3) [] OTHER -> 0
  BY DEF absolute_path_run_at
<1>4. StartsPath(s, i) <=> slash \/ unc \/ drive
  BY DEF StartsPath
<1>5. ASSUME NEW m \in {1, 2, 3}, i + m <= Len(s) + 1
      PROVE  From(m) \in Nat /\ From(m) >= m /\ i + From(m) <= Len(s) + 1
  <2> DEFINE k == i + m
             e == RunEnd(s, k, PathChar)
  <2>1. k \in 1 .. (Len(s) + 1)
    BY <1>1, <1>5
  <2> HIDE DEF k
  <2>2. e \in k .. Len(s) + 1
    BY <2>1, RunEndIs DEF Ends
  <2> HIDE DEF e
  <2>3. e - i \in Nat /\ e - i >= m /\ i + (e - i) <= Len(s) + 1
    BY <1>1, <2>1, <2>2 DEF k
  <2> QED
    BY <2>3 DEF e, k
<1>6. /\ slash => ~unc /\ ~drive
      /\ unc => ~slash /\ ~drive
  BY <1>2
<1>7. slash => i + 1 <= Len(s) + 1
  BY <1>1
<1>8. unc => i + 2 <= Len(s) + 1
  BY <1>1
<1>9. drive => i + 3 <= Len(s) + 1
  BY <1>1
<1> HIDE DEF slash, unc, drive, From
<1>10. CASE slash
  <2>1. n = From(1)
    BY <1>3, <1>6, <1>10
  <2>2. From(1) \in Nat /\ From(1) >= 1 /\ i + From(1) <= Len(s) + 1
    BY <1>5, <1>7, <1>10
  <2> QED
    BY <1>4, <1>10, <2>1, <2>2
<1>11. CASE unc
  <2>1. n = From(2)
    BY <1>3, <1>6, <1>11
  <2>2. From(2) \in Nat /\ From(2) >= 2 /\ i + From(2) <= Len(s) + 1
    BY <1>5, <1>8, <1>11
  <2> QED
    BY <1>4, <1>11, <2>1, <2>2
<1>12. CASE drive
  <2>1. n = From(3)
    BY <1>3, <1>6, <1>12
  <2>2. From(3) \in Nat /\ From(3) >= 3 /\ i + From(3) <= Len(s) + 1
    BY <1>5, <1>9, <1>12
  <2> QED
    BY <1>4, <1>12, <2>1, <2>2
<1>13. CASE ~slash /\ ~unc /\ ~drive
  <2>1. n = 0
    BY <1>3, <1>13
  <2> QED
    BY <1>1, <1>4, <1>13, <2>1
<1> QED
  BY <1>10, <1>11, <1>12, <1>13

\* No absolute path is in a text.
PathFree(s) == \A i \in 1 .. Len(s) : ~StartsPath(s, i)

\* A slash that stays does not come to stand in front of a mark where a path may start.
NoSlashBefore(s, run) ==
    \A i \in 1 .. (Len(s) - 1) :
        ~(s[i] = "/" /\ run[i] = 0 /\ run[i + 1] > 0 /\ (i = 1 \/ s[i - 1] \in BeforePath))

\* Writing a mark makes no path, unless in such a place.
LEMMA NoNewPath ==
    ASSUME NEW s \in Seq(Glyph), NEW mark \in {PATH_DROP, REDACTED}, NEW run, Runs(s, run),
           \A i \in 1 .. Len(s) : run[i] = 0 => ~StartsPath(s, i), NoSlashBefore(s, run),
           NEW t, t = Rewrite(s, run, mark)
    PROVE  PathFree(t)
<1>1. mark \in Glyph /\ mark \notin BeforePath \cup {"/", "\\", ":"} /\ mark \notin Letter
  BY SanitizeAssumption DEF Glyph, Placeholder, BeforePath, PATH_DROP, REDACTED
<1>2. t \in Seq(Glyph)
  BY <1>1, Rewrites
<1>3. PICK o : Rewritten(t, o, s, run, mark)
  BY <1>1, Rewrites
<1>4. Len(t) \in Nat /\ Len(s) \in Nat
  BY <1>2, LenProperties
<1> SUFFICES ASSUME NEW k \in 1 .. Len(t), StartsPath(t, k) PROVE FALSE
  BY DEF PathFree
<1> DEFINE i == o[k]
<1>5. ASSUME NEW m \in 1 .. Len(t), t[m] # mark
      PROVE  run[o[m]] = 0 /\ s[o[m]] = t[m] /\ (m < Len(t) => o[m + 1] = o[m] + 1 /\ o[m] + 1 <= Len(s))
  <2>1. o[m] \in 1 .. Len(s) /\ ~(run[o[m]] > 0) /\ t[m] = s[o[m]]
    BY <1>3, <1>5 DEF Rewritten
  <2>2. run[o[m]] = 0
    BY <2>1 DEF Runs
  <2>3. ASSUME m < Len(t) PROVE o[m + 1] = o[m] + 1 /\ o[m] + 1 <= Len(s)
    <3>1. m \in 1 .. (Len(t) - 1) /\ m + 1 \in 1 .. Len(t)
      BY <1>4, <2>3
    <3>2. o[m + 1] = o[m] + 1 /\ o[m + 1] \in 1 .. Len(s)
      BY <1>3, <2>1, <3>1 DEF Rewritten
    <3> QED
      BY <1>4, <3>2
  <2> QED
    BY <2>1, <2>2, <2>3
<1>6. i \in 1 .. Len(s) /\ (k = 1 => i = 1)
  BY <1>3, <1>4 DEF Rewritten
<1>7. ASSUME k # 1, t[k - 1] \in BeforePath PROVE s[i - 1] \in BeforePath
  <2>1. k - 1 \in 1 .. Len(t) /\ k - 1 < Len(t) /\ (k - 1) + 1 = k /\ t[k - 1] # mark
    BY <1>1, <1>4, <1>7
  <2>2. s[o[k - 1]] = t[k - 1] /\ o[k] = o[k - 1] + 1 /\ o[k - 1] \in 1 .. Len(s)
    <3>1. s[o[k - 1]] = t[k - 1] /\ o[(k - 1) + 1] = o[k - 1] + 1
      BY <1>5, <2>1
    <3>2. o[k - 1] \in 1 .. Len(s)
      BY <1>3, <2>1 DEF Rewritten
    <3> QED
      BY <2>1, <3>1, <3>2
  <2>3. i - 1 = o[k - 1]
    BY <1>4, <2>2
  <2> QED
    BY <1>7, <2>2, <2>3
<1>8. (k = 1 \/ t[k - 1] \in BeforePath) => (i = 1 \/ s[i - 1] \in BeforePath)
  BY <1>6, <1>7
<1>9. run[i] = 0 => ~StartsPath(s, i)
  BY <1>6
<1>10. t[k] # mark => run[i] = 0 /\ s[i] = t[k] /\ (k < Len(t) => o[k + 1] = i + 1 /\ i + 1 <= Len(s))
  BY <1>5
<1>11. CASE t[k] = "/" /\ (k = 1 \/ t[k - 1] \in BeforePath) /\ k + 1 <= Len(t) /\ t[k + 1] \in PathChar
  <2>1. run[i] = 0 /\ s[i] = "/" /\ o[k + 1] = i + 1 /\ i + 1 <= Len(s) /\ (i = 1 \/ s[i - 1] \in BeforePath)
    <3>1. k < Len(t) /\ t[k] # mark
      BY <1>1, <1>4, <1>11
    <3> QED
      BY <1>8, <1>10, <1>11, <3>1
  <2>2. k + 1 \in 1 .. Len(t)
    BY <1>4, <1>11
  <2> HIDE DEF i
  <2>3. t[k + 1] = IF run[i + 1] > 0 THEN mark ELSE s[i + 1]
    <3>1. t[k + 1] = IF run[o[k + 1]] > 0 THEN mark ELSE s[o[k + 1]]
      BY <1>3, <2>2 DEF Rewritten
    <3> QED
      BY <2>1, <3>1
  <2>4. CASE run[i + 1] > 0
    <3>1. i \in 1 .. (Len(s) - 1)
      BY <1>4, <1>6, <2>1
    <3> QED
      BY <2>1, <2>4, <3>1 DEF NoSlashBefore
  <2>5. CASE ~(run[i + 1] > 0)
    <3>1. s[i + 1] \in PathChar
      BY <1>11, <2>3, <2>5
    <3> QED
      BY <1>9, <2>1, <3>1 DEF StartsPath
  <2> QED
    BY <2>4, <2>5
<1>12. CASE t[k] = "\\" /\ k + 1 <= Len(t) /\ t[k + 1] = "\\"
  <2>1. k < Len(t) /\ t[k] # mark /\ k + 1 \in 1 .. Len(t) /\ t[k + 1] # mark
    BY <1>1, <1>4, <1>12
  <2>2. run[i] = 0 /\ s[i] = "\\" /\ o[k + 1] = i + 1 /\ i + 1 <= Len(s)
    BY <1>10, <1>12, <2>1
  <2>3. s[i + 1] = "\\"
    BY <1>5, <1>12, <2>1, <2>2
  <2> HIDE DEF i
  <2> QED
    BY <1>9, <2>2, <2>3 DEF StartsPath
<1>13. CASE /\ t[k] \in Letter /\ (k = 1 \/ t[k - 1] \in BeforePath) /\ k + 2 <= Len(t)
            /\ t[k + 1] = ":" /\ t[k + 2] \in {"/", "\\"}
  <2>1. /\ k < Len(t) /\ t[k] # mark /\ k + 1 \in 1 .. Len(t) /\ t[k + 1] # mark /\ k + 1 < Len(t)
        /\ k + 2 \in 1 .. Len(t) /\ t[k + 2] # mark /\ (k + 1) + 1 = k + 2
    BY <1>1, <1>4, <1>13
  <2>2. run[i] = 0 /\ s[i] \in Letter /\ o[k + 1] = i + 1 /\ (i = 1 \/ s[i - 1] \in BeforePath)
    BY <1>8, <1>10, <1>13, <2>1
  <2>3. s[i + 1] = ":" /\ o[k + 2] = (i + 1) + 1 /\ (i + 1) + 1 <= Len(s)
    <3>1. s[o[k + 1]] = ":" /\ o[(k + 1) + 1] = o[k + 1] + 1 /\ o[k + 1] + 1 <= Len(s)
      BY <1>5, <1>13, <2>1
    <3> QED
      BY <2>1, <2>2, <3>1
  <2>4. (i + 1) + 1 = i + 2
    BY <1>4, <1>6
  <2>5. s[i + 2] \in {"/", "\\"}
    <3>1. s[o[k + 2]] = t[k + 2]
      BY <1>5, <2>1
    <3> QED
      BY <1>13, <2>3, <2>4, <3>1
  <2> HIDE DEF i
  <2> QED
    BY <1>9, <2>2, <2>3, <2>4, <2>5 DEF StartsPath
<1> QED
  BY <1>11, <1>12, <1>13 DEF StartsPath

\* What drop_unrecognized_absolute_paths leaves has none.
LEMMA DropTakes ==
    ASSUME NEW s \in Seq(Glyph), NEW t, t = drop_unrecognized_absolute_paths(s)
    PROVE  Marks(s, t) /\ PathFree(t)
<1> DEFINE run == [i \in DOMAIN s |-> absolute_path_run_at(s, i)]
           mark == PATH_DROP
<1>1. Len(s) \in Nat /\ DOMAIN s = 1 .. Len(s)
  BY LenProperties
<1>2. t = Rewrite(s, run, mark)
  BY DEF drop_unrecognized_absolute_paths
<1>3. \A i \in 1 .. Len(s) : run[i] = absolute_path_run_at(s, i)
  BY <1>1
<1> HIDE DEF run
<1>4. \A i \in 1 .. Len(s) : run[i] \in Nat /\ i + run[i] <= Len(s) + 1 /\ (run[i] = 0 <=> ~StartsPath(s, i))
  BY <1>3, PathRun
<1>5. Runs(s, run)
  BY <1>4 DEF Runs
<1>6. mark \in Placeholder /\ mark # REDACTED /\ mark \in {PATH_DROP, REDACTED}
  BY DEF Placeholder, PATH_DROP, REDACTED
<1>7. NoSlashBefore(s, run)
  <2> SUFFICES ASSUME NEW i \in 1 .. (Len(s) - 1), s[i] = "/", run[i] = 0, run[i + 1] > 0,
                      i = 1 \/ s[i - 1] \in BeforePath
               PROVE  FALSE
    BY DEF NoSlashBefore
  <2>1. i \in 1 .. Len(s) /\ i + 1 \in 1 .. Len(s) /\ i + 1 # 1 /\ (i + 1) - 1 = i /\ i + 1 <= Len(s)
    BY <1>1
  <2>2. ~StartsPath(s, i) /\ StartsPath(s, i + 1)
    BY <1>4, <2>1
  <2>3. s[i] \notin BeforePath /\ "\\" \in PathChar
    BY SanitizeAssumption DEF BeforePath, PathChar, Glyph, Character, PathEnd, White
  <2> DEFINE j == i + 1
  <2>4. s[j] = "\\"
    <3>1. j # 1 /\ j - 1 = i /\ StartsPath(s, j)
      BY <2>1, <2>2
    <3> HIDE DEF j
    <3> QED
      BY <2>3, <3>1 DEF StartsPath
  <2> QED
    BY <2>1, <2>2, <2>3, <2>4 DEF StartsPath
<1> HIDE DEF mark
<1>8. \A i \in 1 .. Len(s) : run[i] = 0 => ~StartsPath(s, i)
  BY <1>4
<1> QED
  BY <1>2, <1>5, <1>6, <1>7, <1>8, RewriteKeeps, NoNewPath

-----------------------------------------------------------------------------
(* The redactions.                                                            *)

\* The first glyph of the token around i.
FirstOf(s, i, a) ==
    /\ a \in 1 .. i
    /\ \A k \in a .. i : s[k] \notin White
    /\ a = 1 \/ s[a - 1] \in White

\* There is one.
LEMMA HasFirst ==
    ASSUME NEW s, NEW i \in Nat, i >= 1, s[i] \notin White
    PROVE  \E a \in 1 .. i : FirstOf(s, i, a)
<1> DEFINE T == {a \in 1 .. i : \A k \in a .. i : s[k] \notin White}
<1>1. T \subseteq Nat /\ i \in T
  <2>1. i .. i = {i} /\ i \in 1 .. i
    OBVIOUS
  <2> QED
    BY <2>1
<1>2. PICK a \in T : \A b \in T : a <= b
  <2>1. T # {}
    BY <1>1
  <2> HIDE DEF T
  <2> QED
    BY <1>1, <2>1, Least
<1>3. a \in 1 .. i /\ \A k \in a .. i : s[k] \notin White
  OBVIOUS
<1>4. a = 1 \/ s[a - 1] \in White
  <2> SUFFICES ASSUME a # 1, s[a - 1] \notin White PROVE FALSE
    OBVIOUS
  <2>1. a - 1 \in 1 .. i /\ ~(a <= a - 1)
    BY <1>3
  <2>2. \A k \in (a - 1) .. i : k = a - 1 \/ k \in a .. i
    BY <1>3
  <2>3. \A k \in (a - 1) .. i : s[k] \notin White
    BY <1>3, <2>2
  <2>4. a - 1 \in T
    BY <2>1, <2>3
  <2> QED
    BY <1>2, <2>1, <2>4
<1> QED
  BY <1>3, <1>4 DEF FirstOf

\* A token that is redacted ends in the text; what stands before its first glyph is white
\* space or punctuation.
LEMMA TokenRun ==
    ASSUME NEW s \in Seq(Glyph), NEW i \in 1 .. Len(s), NEW n, n = SensitiveAt(s, i)
    PROVE  /\ n \in Nat /\ i + n <= Len(s) + 1
           /\ n > 0 /\ i > 1 => s[i - 1] \in White \cup EdgePunct
<1>0. Len(s) \in Nat /\ i \in Nat /\ i >= 1
  BY LenProperties
<1> DEFINE core == IF s[i] \in White THEN <<1, 0>> ELSE Core(s, i)
           here == core[1] = i /\ core[2] >= i /\ is_sensitive(SubSeq(s, core[1], core[2]))
<1>1. n = IF here THEN core[2] - core[1] + 1 ELSE 0
  BY DEF SensitiveAt
<1>2. CASE ~here
  BY <1>0, <1>1, <1>2
<1>3. CASE here
  <2>1. core[1] = i /\ core[2] >= i /\ n = core[2] - core[1] + 1
    BY <1>1, <1>3
  <2>2. s[i] \notin White /\ core = Core(s, i)
    <3>1. ASSUME s[i] \in White PROVE FALSE
      <4>1. core = <<1, 0>>
        BY <3>1
      <4>2. core[2] = 0
        BY <4>1
      <4> QED
        BY <1>0, <2>1, <4>2
    <3> QED
      BY <3>1
  <2> HIDE DEF here
  <2> DEFINE first == CHOOSE a \in 1 .. i : /\ \A k \in a .. i : s[k] \notin White
                                            /\ a = 1 \/ s[a - 1] \in White
             class == Glyph \ White
             e == RunEnd(s, i, class)
             last == e - 1
             inner == {k \in first .. last : s[k] \notin EdgePunct}
             lo == CHOOSE a \in inner : \A k \in inner : a <= k
             hi == CHOOSE b \in inner : \A k \in inner : k <= b
  <2>3. core = IF inner = {} THEN <<1, 0>> ELSE <<lo, hi>>
    BY <2>2 DEF Core
  <2>4. FirstOf(s, i, first)
    <3>1. \E a \in 1 .. i : /\ \A k \in a .. i : s[k] \notin White
                            /\ a = 1 \/ s[a - 1] \in White
      BY <1>0, <2>2, HasFirst DEF FirstOf
    <3> QED
      BY <3>1 DEF FirstOf
  <2> HIDE DEF core
  <2>5. Ends(s, i, class, e)
    <3>1. i \in 1 .. (Len(s) + 1)
      BY <1>0
    <3> HIDE DEF class
    <3> QED
      BY <3>1, RunEndIs
  <2> HIDE DEF first, e
  <2>6. s[i] \in class
    BY <2>2, ElementOfSeq
  <2> HIDE DEF class
  <2>7. e \in Nat /\ e > i /\ e <= Len(s) + 1
    <3>1. e \in i .. Len(s) + 1 /\ (e = Len(s) + 1 \/ s[e] \notin class)
      BY <2>5 DEF Ends
    <3> QED
      BY <1>0, <2>6, <3>1
  <2>8. first \in 1 .. i
    BY <2>4 DEF FirstOf
  <2>9. last \in 1 .. Len(s) /\ i <= last
    BY <1>0, <2>7
  <2> HIDE DEF last
  <2>10. inner \subseteq 1 .. Len(s) /\ inner \subseteq Nat
    BY <1>0, <2>8, <2>9
  <2>11. inner # {}
    <3> SUFFICES ASSUME inner = {} PROVE FALSE
      OBVIOUS
    <3>1. core = <<1, 0>>
      BY <2>3
    <3>2. core[2] = 0
      BY <3>1
    <3> QED
      BY <1>0, <2>1, <3>2
  <2>12. lo \in inner /\ \A k \in inner : lo <= k
    <3> HIDE DEF inner
    <3>1. \E a \in inner : \A k \in inner : a <= k
      BY <2>10, <2>11, Least
    <3> QED
      BY <3>1
  <2>13. hi \in inner
    <3> HIDE DEF inner
    <3>1. \E b \in inner : \A k \in inner : k <= b
      BY <1>0, <2>10, <2>11, Greatest
    <3> QED
      BY <3>1
  <2> HIDE DEF lo, hi
  <2>14. core[1] = lo /\ core[2] = hi
    <3>1. core = <<lo, hi>>
      BY <2>3, <2>11
    <3> QED
      BY <3>1
  <2>15. n \in Nat /\ i + n <= Len(s) + 1
    <3>1. hi \in 1 .. Len(s) /\ n = hi - i + 1 /\ hi >= i
      BY <2>1, <2>10, <2>13, <2>14
    <3> QED
      BY <1>0, <3>1
  <2>16. ASSUME i > 1, s[i - 1] \notin White, s[i - 1] \notin EdgePunct PROVE FALSE
    <3>1. first # i
      BY <1>0, <2>4, <2>16 DEF FirstOf
    <3>2. i - 1 \in first .. last
      BY <1>0, <2>8, <2>9, <3>1
    <3>3. i - 1 \in inner
      BY <2>16, <3>2
    <3>4. lo <= i - 1 /\ lo = i
      BY <2>1, <2>12, <2>14, <3>3
    <3> QED
      BY <1>0, <3>4
  <2> QED
    BY <2>15, <2>16
<1> QED
  BY <1>2, <1>3

\* What redact_tokens leaves: no path comes up.
LEMMA TokensKeep ==
    ASSUME NEW s \in Seq(Glyph), NEW t, t = redact_tokens(s)
    PROVE  Keeps(s, t) /\ (PathFree(s) => PathFree(t))
<1> DEFINE run == [i \in DOMAIN s |-> SensitiveAt(s, i)]
           mark == REDACTED
<1>1. Len(s) \in Nat /\ DOMAIN s = 1 .. Len(s)
  BY LenProperties
<1>2. t = Rewrite(s, run, mark)
  BY DEF redact_tokens
<1>3. \A i \in 1 .. Len(s) : run[i] = SensitiveAt(s, i)
  BY <1>1
<1> HIDE DEF run
<1>4. \A i \in 1 .. Len(s) : /\ run[i] \in Nat /\ i + run[i] <= Len(s) + 1
                             /\ run[i] > 0 /\ i > 1 => s[i - 1] \in White \cup EdgePunct
  BY <1>3, TokenRun
<1>5. Runs(s, run)
  BY <1>4 DEF Runs
<1>6. mark \in Placeholder /\ mark \in {PATH_DROP, REDACTED}
  BY DEF Placeholder
<1>7. NoSlashBefore(s, run)
  <2> SUFFICES ASSUME NEW i \in 1 .. (Len(s) - 1), s[i] = "/", run[i + 1] > 0
               PROVE  FALSE
    BY DEF NoSlashBefore
  <2>1. i + 1 \in 1 .. Len(s) /\ i + 1 > 1 /\ (i + 1) - 1 = i
    BY <1>1
  <2>2. s[i] \in White \cup EdgePunct
    BY <1>4, <2>1
  <2> QED
    BY <2>2 DEF White, EdgePunct
<1> HIDE DEF mark
<1>8. ASSUME PathFree(s) PROVE PathFree(t)
  <2>1. \A i \in 1 .. Len(s) : run[i] = 0 => ~StartsPath(s, i)
    BY <1>8 DEF PathFree
  <2> QED
    BY <1>2, <1>5, <1>6, <1>7, <2>1, NoNewPath
<1> QED
  BY <1>2, <1>5, <1>6, <1>8, RewriteKeeps

\* What stands in a cluster.
InCluster == Joining \cup {REDACTED}

\* A cluster begins with a redaction and reaches to the last one that only white space and
\* simple punctuation keep apart from it.
LEMMA ClusterRun ==
    ASSUME NEW s \in Seq(Glyph), NEW i \in 1 .. Len(s), NEW n, n = ClusterAt(s, i)
    PROVE  /\ n \in Nat /\ i + n <= Len(s) + 1
           /\ n > 0 <=> s[i] = REDACTED
           /\ \A k \in i .. (i + n - 1) : s[k] \in InCluster
           /\ \A m \in i .. Len(s) :
                 s[i] = REDACTED /\ s[m] = REDACTED /\ (\A k \in i .. m : s[k] \in InCluster) => m < i + n
<1>0. Len(s) \in Nat /\ i \in Nat /\ i >= 1
  BY LenProperties
<1>1. CASE s[i] # REDACTED
  <2>1. n = 0
    BY <1>1 DEF ClusterAt
  <2>2. i .. (i + n - 1) = {}
    BY <1>0, <2>1
  <2> QED
    BY <1>0, <1>1, <2>1, <2>2
<1>2. CASE s[i] = REDACTED
  <2> DEFINE e == RunEnd(s, i, InCluster)
             reach == e - 1
             tokens == {k \in i .. reach : s[k] = REDACTED}
             hi == CHOOSE k \in tokens : \A l \in tokens : l <= k
  <2>1. n = hi - i + 1
    BY <1>2 DEF ClusterAt, InCluster
  <2>2. Ends(s, i, InCluster, e)
    <3>1. i \in 1 .. (Len(s) + 1)
      BY <1>0
    <3> QED
      BY <3>1, RunEndIs
  <2> HIDE DEF e
  <2>3. s[i] \in InCluster
    BY <1>2 DEF InCluster
  <2>4. /\ e \in i .. Len(s) + 1 /\ (e = Len(s) + 1 \/ s[e] \notin InCluster)
        /\ \A k \in i .. (e - 1) : s[k] \in InCluster
    BY <2>2 DEF Ends
  <2>5. e \in Nat /\ e > i /\ e <= Len(s) + 1
    BY <1>0, <2>3, <2>4
  <2>6. reach \in 1 .. Len(s) /\ i <= reach /\ reach = e - 1
    BY <1>0, <2>5
  <2> HIDE DEF reach
  <2>7. tokens \subseteq 1 .. Len(s) /\ i \in tokens
    BY <1>0, <1>2, <2>6
  <2>8. hi \in tokens /\ \A l \in tokens : l <= hi
    <3>1. tokens # {}
      BY <2>7
    <3> HIDE DEF tokens
    <3>2. \E k \in tokens : \A l \in tokens : l <= k
      BY <1>0, <2>7, <3>1, Greatest
    <3> QED
      BY <3>2
  <2> HIDE DEF hi
  <2>9. hi \in i .. reach
    BY <2>8
  <2>10. n \in Nat /\ n > 0 /\ i + n <= Len(s) + 1 /\ i + n - 1 = hi
    BY <1>0, <2>1, <2>6, <2>9
  <2>11. ASSUME NEW k \in i .. (i + n - 1) PROVE s[k] \in InCluster
    <3>1. k \in i .. (e - 1)
      BY <1>0, <2>6, <2>9, <2>10
    <3> QED
      BY <2>4, <3>1
  <2>12. ASSUME NEW m \in i .. Len(s), s[m] = REDACTED, \A k \in i .. m : s[k] \in InCluster
         PROVE  m < i + n
    <3>1. m <= reach
      <4> SUFFICES ASSUME m >= e PROVE FALSE
        BY <1>0, <2>5, <2>6
      <4>1. e \in i .. m /\ e # Len(s) + 1
        BY <1>0, <2>5
      <4> QED
        BY <2>4, <2>12, <4>1
    <3>2. m \in tokens
      BY <1>0, <2>6, <2>12, <3>1
    <3>3. m <= hi
      BY <2>8, <3>2
    <3> QED
      BY <1>0, <2>10, <3>3
  <2> QED
    BY <1>2, <2>10, <2>11, <2>12
<1> QED
  BY <1>1, <1>2

\* Between two redactions there is something else to read.
Apart(s) ==
    \A i, j \in 1 .. Len(s) :
        i < j /\ s[i] = REDACTED /\ s[j] = REDACTED => \E k \in i .. j : s[k] \notin InCluster

\* collapse_redactions sees to it.
LEMMA CollapseApart ==
    ASSUME NEW s \in Seq(Glyph), NEW t, t = collapse_redactions(s)
    PROVE  Keeps(s, t) /\ (PathFree(s) => PathFree(t)) /\ Apart(t)
<1> DEFINE run == [i \in DOMAIN s |-> ClusterAt(s, i)]
           mark == REDACTED
<1>1. Len(s) \in Nat /\ DOMAIN s = 1 .. Len(s)
  BY LenProperties
<1>2. t = Rewrite(s, run, mark)
  BY DEF collapse_redactions
<1>3. \A i \in 1 .. Len(s) : run[i] = ClusterAt(s, i)
  BY <1>1
<1> HIDE DEF run
<1>4. \A i \in 1 .. Len(s) :
         /\ run[i] \in Nat /\ i + run[i] <= Len(s) + 1
         /\ run[i] > 0 <=> s[i] = REDACTED
         /\ \A k \in i .. (i + run[i] - 1) : s[k] \in InCluster
         /\ \A m \in i .. Len(s) :
               s[i] = REDACTED /\ s[m] = REDACTED /\ (\A k \in i .. m : s[k] \in InCluster) => m < i + run[i]
  BY <1>3, ClusterRun
<1>5. Runs(s, run)
  BY <1>4 DEF Runs
<1>6. mark \in Placeholder /\ mark \in {PATH_DROP, REDACTED}
  BY DEF Placeholder
<1>7. ASSUME PathFree(s) PROVE PathFree(t)
  <2>1. \A i \in 1 .. Len(s) : run[i] = 0 => ~StartsPath(s, i)
    BY <1>7 DEF PathFree
  <2>2. NoSlashBefore(s, run)
    <3> SUFFICES ASSUME NEW i \in 1 .. (Len(s) - 1), s[i] = "/", run[i + 1] > 0,
                        i = 1 \/ s[i - 1] \in BeforePath
                 PROVE  FALSE
      BY DEF NoSlashBefore
    <3>1. i + 1 \in 1 .. Len(s) /\ i \in 1 .. Len(s) /\ i + 1 <= Len(s)
      BY <1>1
    <3>2. s[i + 1] = REDACTED /\ ~StartsPath(s, i)
      BY <1>4, <1>7, <3>1 DEF PathFree
    <3>3. REDACTED \in PathChar
      BY DEF PathChar, Glyph, Placeholder, PathEnd, White, REDACTED
    <3> QED
      BY <3>1, <3>2, <3>3 DEF StartsPath
  <2> HIDE DEF mark
  <2> QED
    BY <1>2, <1>5, <1>6, <2>1, <2>2, NoNewPath
<1>8. mark \in Glyph
  BY DEF Glyph, Placeholder
<1>9. t \in Seq(Glyph) /\ \E o : Rewritten(t, o, s, run, mark)
  <2> HIDE DEF mark
  <2> QED
    BY <1>2, <1>5, <1>8, Rewrites
<1>10. PICK o : Rewritten(t, o, s, run, mark)
  BY <1>9
<1>11. Len(t) \in Nat
  BY <1>9, LenProperties
<1>12. \A k \in 1 .. Len(t) : /\ o[k] \in 1 .. Len(s)
                              /\ t[k] = REDACTED <=> run[o[k]] > 0
                              /\ t[k] = REDACTED => s[o[k]] = REDACTED
                              /\ t[k] # REDACTED => s[o[k]] = t[k]
  <2> TAKE k \in 1 .. Len(t)
  <2>1. o[k] \in 1 .. Len(s) /\ t[k] = IF run[o[k]] > 0 THEN REDACTED ELSE s[o[k]]
    BY <1>10 DEF Rewritten
  <2>2. run[o[k]] > 0 <=> s[o[k]] = REDACTED
    BY <1>4, <2>1
  <2> QED
    BY <2>1, <2>2
<1>13. \A k \in 1 .. (Len(t) - 1) : o[k + 1] = IF t[k] = REDACTED THEN o[k] + run[o[k]] ELSE o[k] + 1
  <2> TAKE k \in 1 .. (Len(t) - 1)
  <2>1. k \in 1 .. Len(t)
    BY <1>11
  <2>2. o[k + 1] = IF run[o[k]] > 0 THEN o[k] + run[o[k]] ELSE o[k] + 1
    BY <1>10 DEF Rewritten
  <2> QED
    BY <1>12, <2>1, <2>2
<1>14. Apart(t)
  <2> SUFFICES ASSUME NEW i \in 1 .. Len(t), NEW j \in 1 .. Len(t), i < j, t[i] = REDACTED, t[j] = REDACTED,
                      \A k \in i .. j : t[k] \in InCluster
               PROVE  FALSE
    BY DEF Apart
  <2> DEFINE T == {k \in (i + 1) .. j : t[k] = REDACTED}
  <2>1. T \subseteq Nat /\ j \in T
    BY <1>11
  <2>2. PICK m \in T : \A k \in T : m <= k
    <3>1. T # {}
      BY <2>1
    <3> HIDE DEF T
    <3> QED
      BY <2>1, <3>1, Least
  <2>3. /\ m \in Nat /\ i < m /\ m <= j /\ t[m] = REDACTED /\ m \in 1 .. Len(t)
        /\ \A k \in (i + 1) .. (m - 1) : t[k] # REDACTED
    <3>1. m \in (i + 1) .. j /\ t[m] = REDACTED
      OBVIOUS
    <3>2. \A k \in (i + 1) .. (m - 1) : k \in (i + 1) .. j /\ ~(m <= k)
      BY <1>11, <3>1
    <3>3. \A k \in (i + 1) .. (m - 1) : t[k] # REDACTED
      BY <2>2, <3>2
    <3> QED
      BY <1>11, <3>1, <3>3
  <2> HIDE DEF T
  <2> DEFINE a == o[i]
             b == a + run[a]
             P == {d \in Nat : i + 1 + d <= m => o[i + 1 + d] = b + d}
  <2>4. a \in 1 .. Len(s) /\ run[a] \in Nat /\ run[a] > 0 /\ s[a] = REDACTED
    BY <1>4, <1>12
  <2>5. a \in Nat /\ b \in Nat /\ b > a
    BY <1>1, <2>4
  <2>6. o[i + 1] = b
    <3>1. i \in 1 .. (Len(t) - 1)
      BY <1>11
    <3> QED
      BY <1>13, <3>1
  <2> HIDE DEF a, b
  <2>7. 0 \in P
    <3>1. i + 1 + 0 = i + 1 /\ b + 0 = b
      BY <2>5
    <3> QED
      BY <2>6, <3>1
  <2>8. ASSUME NEW d \in Nat, d \in P PROVE d + 1 \in P
    <3> DEFINE c == d + 1
               k == i + 1 + d
    <3>1. c \in Nat /\ k \in Nat /\ i + 1 + c = k + 1 /\ b + c = (b + d) + 1
      BY <2>5
    <3>2. ASSUME i + 1 + c <= m PROVE o[i + 1 + c] = b + c
      <4>1. k \in (i + 1) .. (m - 1) /\ k \in 1 .. (Len(t) - 1) /\ i + 1 + d <= m
        BY <1>11, <2>3, <3>2
      <4>2. o[k] = b + d /\ t[k] # REDACTED
        BY <2>3, <2>8, <4>1
      <4>3. o[k + 1] = o[k] + 1
        BY <1>13, <4>1, <4>2
      <4> QED
        BY <3>1, <4>2, <4>3
    <3> HIDE DEF c
    <3> QED
      BY <3>1, <3>2 DEF c
  <2> HIDE DEF P
  <2>9. Nat \subseteq P
    BY <2>7, <2>8, Induction
  <2>10. \A k \in (i + 1) .. m : o[k] = b + (k - (i + 1))
    <3> TAKE k \in (i + 1) .. m
    <3> DEFINE d == k - (i + 1)
    <3>1. d \in Nat /\ i + 1 + d = k /\ k <= m
      BY <2>3
    <3> HIDE DEF d
    <3>2. o[i + 1 + d] = b + d
      BY <2>9, <3>1 DEF P
    <3> QED
      BY <3>1, <3>2 DEF d
  <2> DEFINE z == o[m]
  <2>11. z \in 1 .. Len(s) /\ s[z] = REDACTED /\ z = b + (m - (i + 1)) /\ z >= b
    <3>1. m \in (i + 1) .. m
      BY <2>3
    <3>2. z = b + (m - (i + 1))
      BY <2>10, <3>1
    <3>3. z >= b
      BY <2>3, <2>5, <3>2
    <3> QED
      BY <1>12, <2>3, <3>2, <3>3
  <2> HIDE DEF z
  <2>12. ASSUME NEW x \in a .. z PROVE s[x] \in InCluster
    <3>1. CASE x < b
      <4>1. x \in a .. (a + run[a] - 1)
        BY <1>1, <2>4, <2>5, <2>11, <3>1 DEF b
      <4> QED
        BY <1>4, <2>4, <4>1
    <3>2. CASE ~(x < b)
      <4> DEFINE k == (i + 1) + (x - b)
      <4>1. k \in (i + 1) .. m /\ k - (i + 1) = x - b
        BY <2>3, <2>5, <2>11, <3>2
      <4>2. b + (x - b) = x
        BY <2>5, <2>11
      <4>3. k \in i .. j /\ k \in 1 .. Len(t)
        BY <1>11, <2>3, <4>1
      <4> HIDE DEF k
      <4>4. o[k] = x
        BY <2>10, <4>1, <4>2
      <4>5. t[k] \in InCluster
        BY <4>3
      <4>6. s[x] = t[k]
        BY <1>12, <4>3, <4>4
      <4> QED
        BY <4>5, <4>6
    <3> QED
      BY <2>5, <2>11, <3>1, <3>2
  <2>13. z \in a .. Len(s)
    BY <1>1, <2>5, <2>11
  <2>14. z < a + run[a]
    BY <1>4, <2>4, <2>11, <2>12, <2>13
  <2> QED
    BY <2>5, <2>11, <2>14 DEF b
<1>15. Keeps(s, t)
  BY <1>2, <1>5, <1>6, RewriteKeeps
<1> QED
  BY <1>7, <1>14, <1>15

-----------------------------------------------------------------------------
(* Who and where the host is.                                                 *)

\* What is known of the host are texts.
LEMMA IdentityIs ==
    /\ Home \in Seq(Glyph) /\ User \in Seq(Glyph) /\ Host \in Seq(Glyph)
    /\ identity.home_dir \in Seq(Glyph) /\ identity.cache_dir \in Seq(Glyph)
    /\ identity.config_dir \in Seq(Glyph) /\ identity.tmp_dir \in Seq(Glyph)
<1> DEFINE Known == Seq(Glyph)
<1>1. <<>> \in Known
  BY EmptySeq
<1>2. ASSUME NEW name, NEW other PROVE EnvOr(name, other) \in Known
  <2>1. \A n \in DOMAIN Env : Env[n] \in Known
    BY SanitizeAssumption
  <2> HIDE DEF Known
  <2> QED
    BY <1>1, <2>1 DEF EnvOr
<1>3. Dirs["home"] \in Known /\ Dirs["tmp"] \in Known /\ Dirs["cache"] \in Known /\ Dirs["config"] \in Known
  <2>1. Dirs \in [{"home", "tmp", "cache", "config"} -> Known]
    BY SanitizeAssumption
  <2> HIDE DEF Known
  <2> QED
    BY <2>1
<1>4. ASSUME NEW s \in Seq(Glyph) PROVE WithoutSeparators(s) \in Seq(Glyph)
  <2> DEFINE black == {i \in DOMAIN s : s[i] \notin {"/", "\\"}}
             Last(b) == \A k \in black : k <= b
             c == CHOOSE b \in black : Last(b)
             u == SubSeq(s, 1, c)
  <2>1. WithoutSeparators(s) = IF black = {} THEN <<>> ELSE u
    BY DEF WithoutSeparators
  <2>2. Len(s) \in Nat /\ DOMAIN s = 1 .. Len(s) /\ black \subseteq 1 .. Len(s)
    BY LenProperties
  <2>3. u = SubSeq(s, 1, c)
    OBVIOUS
  <2> HIDE DEF u
  <2>4. CASE black = {}
    BY <2>1, <2>4, EmptySeq
  <2>5. CASE black # {}
    <3> HIDE DEF black
    <3>1. \E b \in black : \A k \in black : k <= b
      BY <2>2, <2>5, Greatest
    <3>2. \E b \in black : Last(b)
      BY <3>1
    <3> HIDE DEF Last
    <3>3. c \in black
      BY <3>2
    <3> HIDE DEF c
    <3> DEFINE a == 1
    <3>4. c \in Nat /\ c <= Len(s) /\ c >= 1 /\ c \in Int /\ a \in Nat /\ a >= 1 /\ c >= a - 1 /\ u = SubSeq(s, a, c)
      BY <2>2, <2>3, <3>3
    <3> HIDE DEF a
    <3>5. u \in Seq(Glyph)
      BY <3>4, SubIs
    <3> QED
      BY <2>1, <2>5, <3>5
  <2> QED
    BY <2>4, <2>5
<1>5. Dirs["tmp"] \in Seq(Glyph)
  BY <1>3
<1>6. WithoutSeparators(Dirs["tmp"]) \in Known
  BY <1>4, <1>5
<1> HIDE DEF Known
<1>7. identity.home_dir = Dirs["home"] /\ identity.cache_dir = Dirs["cache"] /\ identity.config_dir = Dirs["config"]
      /\ identity.tmp_dir = WithoutSeparators(Dirs["tmp"])
      /\ identity.username = EnvOr("USER", "USERNAME") /\ identity.hostname = EnvOr("HOSTNAME", "COMPUTERNAME")
  BY DEF identity
<1>8. /\ Home \in Known /\ User \in Known /\ Host \in Known
      /\ identity.home_dir \in Known /\ identity.cache_dir \in Known
      /\ identity.config_dir \in Known /\ identity.tmp_dir \in Known
  BY <1>2, <1>3, <1>6, <1>7 DEF Home, User, Host
<1> QED
  BY <1>8 DEF Known

\* A root with its anchor.
Anchor == {"<cache>", "<tmp>", "<home>"}
Root == Seq(Glyph) \X Anchor

\* Sorting the four roots loses none and makes none up.
LEMMA RootsAre ==
    /\ path_roots \in Seq(Root) /\ Len(path_roots) = 4
    /\ \A k \in 1 .. 4 : path_roots[k] \in Root
<1> DEFINE pushed == <<<<identity.cache_dir, "<cache>">>, <<identity.config_dir, "<cache>">>,
                       <<identity.tmp_dir, "<tmp>">>, <<identity.home_dir, "<home>">> >>
           D == DOMAIN pushed
<1>1. D = 1 .. 4 /\ \A a \in D : pushed[a] \in Root
  <2>1. \A d1, d2, d3, d4 \in Seq(Glyph) : \A a \in 1 .. 4 :
           <<<<d1, "<cache>">>, <<d2, "<cache>">>, <<d3, "<tmp>">>, <<d4, "<home>">> >>[a] \in Root
    <3> DEFINE Known == Seq(Glyph)
    <3>1. Root = Known \X Anchor
      BY DEF Root
    <3> HIDE DEF Known
    <3> QED
      BY <3>1 DEF Anchor, Known
  <2> QED
    BY <2>1, IdentityIs
<1>2. path_roots = PathRoots(pushed)
  BY DEF path_roots
<1> HIDE DEF pushed
<1> DEFINE size(a) == Len(pushed[a][1])
           Before(a, b) == size(a) > size(b) \/ (size(a) = size(b) /\ a <= b)
           upTo(a) == {b \in D : Before(b, a)}
           At(k) == CHOOSE a \in D : Cardinality(upTo(a)) = k
<1>3. path_roots = [k \in D |-> pushed[At(k)]]
  BY <1>2 DEF PathRoots
<1>4. \A a \in D : size(a) \in Nat
  <2> TAKE a \in D
  <2>1. pushed[a][1] \in Seq(Glyph)
    BY <1>1 DEF Root
  <2> QED
    BY <2>1, LenProperties
<1> HIDE DEF size, D
<1>5. IsFiniteSet(D) /\ Cardinality(D) = 4
  <2> DEFINE one == 1
             four == 4
  <2>1. one \in Int /\ four \in Int /\ ~(one > four) /\ four - one + 1 = 4 /\ D = one .. four
    BY <1>1
  <2> HIDE DEF one, four
  <2>2. IsFiniteSet(one .. four) /\ Cardinality(one .. four) = IF one > four THEN 0 ELSE four - one + 1
    BY <2>1, FS_Interval
  <2> QED
    BY <2>1, <2>2
<1>6. \A a \in D : a \in upTo(a) /\ upTo(a) \subseteq D
  BY <1>1, <1>4
<1>7. \A a, b \in D : a # b /\ Before(a, b) => upTo(a) \subseteq upTo(b) /\ b \notin upTo(a)
  BY <1>1, <1>4
<1>8. \A a, b \in D : Before(a, b) \/ Before(b, a)
  BY <1>1, <1>4
<1> HIDE DEF Before
<1> DEFINE rank == [a \in D |-> Cardinality(upTo(a))]
<1>9. \A a \in D : IsFiniteSet(upTo(a)) /\ rank[a] \in D
  <2> TAKE a \in D
  <2>1. IsFiniteSet(upTo(a)) /\ Cardinality(upTo(a)) <= 4 /\ Cardinality(upTo(a)) \in Nat
    BY <1>5, <1>6, FS_Subset, FS_CardinalityType
  <2>2. Cardinality(upTo(a)) # 0
    BY <1>6, <2>1, FS_EmptySet
  <2> QED
    BY <1>1, <2>1, <2>2
<1>10. \A a, b \in D : a # b /\ Before(a, b) => rank[a] # rank[b]
  <2> SUFFICES ASSUME NEW a \in D, NEW b \in D, a # b, Before(a, b) PROVE Cardinality(upTo(a)) # Cardinality(upTo(b))
    OBVIOUS
  <2>1. upTo(a) \subseteq upTo(b) /\ b \notin upTo(a) /\ b \in upTo(b)
    BY <1>6, <1>7
  <2>2. upTo(a) # upTo(b)
    BY <2>1
  <2> QED
    BY <1>9, <2>1, <2>2, FS_Subset
<1>11. \A a, b \in D : a # b => rank[a] # rank[b]
  BY <1>8, <1>10
<1>12. ASSUME NEW k \in D PROVE \E a \in D : rank[a] = k
  <2> SUFFICES ASSUME \A a \in D : rank[a] # k PROVE FALSE
    OBVIOUS
  <2> DEFINE T == D \ {k}
  <2>1. rank \in [D -> T]
    BY <1>9, <1>12
  <2>2. IsFiniteSet(T) /\ Cardinality(T) = 3
    BY <1>5, <1>12, FS_RemoveElement
  <2> HIDE DEF T
  <2>3. Cardinality(D) > Cardinality(T)
    BY <1>5, <2>2
  <2> HIDE DEF rank, D
  <2>4. \E a, b \in D : a # b /\ rank[a] = rank[b]
    BY <1>5, <2>1, <2>2, <2>3, FS_PigeonHole
  <2> QED
    BY <1>11, <2>4
<1>13. \A k \in D : At(k) \in D
  <2> TAKE k \in D
  <2> DEFINE P(a) == Cardinality(upTo(a)) = k
  <2>1. \E a \in D : P(a)
    BY <1>12
  <2> HIDE DEF upTo, D
  <2> HIDE DEF P
  <2>2. (CHOOSE a \in D : P(a)) \in D
    BY <2>1
  <2> QED
    BY <2>2 DEF P
<1> HIDE DEF At
<1>14. path_roots \in [1 .. 4 -> Root]
  BY <1>1, <1>3, <1>13
<1>15. path_roots \in Seq(Root)
  BY <1>14, SeqDef
<1>16. DOMAIN path_roots = 1 .. 4 /\ DOMAIN path_roots = 1 .. Len(path_roots) /\ Len(path_roots) \in Nat
  BY <1>14, <1>15, LenProperties
<1>17. Len(path_roots) = 4
  <2> DEFINE four == 4
  <2>1. 1 .. Len(path_roots) = 1 .. four /\ four \in Nat
    BY <1>16
  <2> HIDE DEF four
  <2>2. Len(path_roots) = four
    BY <1>16, <2>1, SameInterval
  <2> QED
    BY <2>2 DEF four
<1> QED
  BY <1>14, <1>15, <1>17

-----------------------------------------------------------------------------
(* The rules of a line, one after the other.                                  *)

\* Anchoring at one root marks.
LEMMA RootMarks ==
    ASSUME NEW s \in Seq(Glyph), NEW root \in Root
    PROVE  Marks(s, AnchoredAt(s, root))
<1>1. root[1] \in Seq(Glyph) /\ root[2] \in Placeholder /\ root[2] # REDACTED
  BY DEF Root, Anchor, Placeholder, REDACTED
<1> DEFINE part == root[1]
           mark == root[2]
           other == Slashed(part)
           t == Replace(s, part, mark)
           u == Replace(t, other, mark)
<1>2. AnchoredAt(s, root) = u
  BY DEF AnchoredAt
<1>3. part \in Seq(Glyph) /\ mark \in Placeholder /\ mark # REDACTED
  BY <1>1
<1> HIDE DEF part, mark
<1>4. other \in Seq(Glyph)
  <2>1. "/" \in Glyph
    BY DEF Glyph, Character
  <2> QED
    BY <1>3, <2>1, SlashedIs
<1> HIDE DEF other
<1>5. Marks(s, t)
  BY <1>3, ReplaceMarks
<1>6. t \in Seq(Glyph)
  BY <1>5 DEF Marks, Keeps
<1> HIDE DEF t
<1>7. Marks(t, u)
  BY <1>3, <1>4, <1>6, ReplaceMarks
<1> QED
  BY <1>2, <1>5, <1>7, BothKeep

\* So does anchoring at one after the other.
LEMMA AnchoredMarks ==
    ASSUME NEW s \in Seq(Glyph)
    PROVE  Marks(s, Anchored(s))
<1> DEFINE Is(f) == f = [k \in 0 .. 4 |-> IF k = 0 THEN s ELSE AnchoredAt(f[k - 1], path_roots[k])]
           c == CHOOSE f : Is(f)
<1>1. Anchored(s) = c[4]
  BY RootsAre DEF Anchored
<1>2. \E f : Is(f)
  <2> DEFINE s1 == AnchoredAt(s, path_roots[1])
             s2 == AnchoredAt(s1, path_roots[2])
             s3 == AnchoredAt(s2, path_roots[3])
             s4 == AnchoredAt(s3, path_roots[4])
             f == [k \in 0 .. 4 |-> IF k = 0 THEN s ELSE IF k = 1 THEN s1 ELSE IF k = 2 THEN s2
                                    ELSE IF k = 3 THEN s3 ELSE s4]
  <2>1. \A k \in 1 .. 4 : k = 1 \/ k = 2 \/ k = 3 \/ k = 4
    OBVIOUS
  <2>2. /\ s1 = AnchoredAt(s, path_roots[1]) /\ s2 = AnchoredAt(s1, path_roots[2])
        /\ s3 = AnchoredAt(s2, path_roots[3]) /\ s4 = AnchoredAt(s3, path_roots[4])
    OBVIOUS
  <2> HIDE DEF s1, s2, s3, s4
  <2>3. f[0] = s /\ f[1] = s1 /\ f[2] = s2 /\ f[3] = s3 /\ f[4] = s4
    OBVIOUS
  <2>4. \A k \in 1 .. 4 : f[k] = AnchoredAt(f[k - 1], path_roots[k])
    <3> HIDE DEF f
    <3> TAKE k \in 1 .. 4
    <3>1. CASE k = 1
      <4>1. k - 1 = 0
        BY <3>1
      <4> QED
        BY <2>2, <2>3, <3>1, <4>1
    <3>2. CASE k = 2
      <4>1. k - 1 = 1
        BY <3>2
      <4> QED
        BY <2>2, <2>3, <3>2, <4>1
    <3>3. CASE k = 3
      <4>1. k - 1 = 2
        BY <3>3
      <4> QED
        BY <2>2, <2>3, <3>3, <4>1
    <3>4. CASE k = 4
      <4>1. k - 1 = 3
        BY <3>4
      <4> QED
        BY <2>2, <2>3, <3>4, <4>1
    <3> QED
      BY <2>1, <3>1, <3>2, <3>3, <3>4
  <2>5. \A k \in 0 .. 4 : k = 0 \/ k \in 1 .. 4
    OBVIOUS
  <2>6. \A k \in 0 .. 4 : f[k] = IF k = 0 THEN s ELSE AnchoredAt(f[k - 1], path_roots[k])
    BY <2>3, <2>4, <2>5
  <2>7. Is(f)
    BY <2>6
  <2> QED
    BY <2>7
<1>3. Is(c)
  <2> HIDE DEF Is
  <2> QED
    BY <1>2
<1> HIDE DEF c
<1>4. c[0] = s
  BY <1>3
<1>5. \A k \in 1 .. 4 : c[k] = AnchoredAt(c[k - 1], path_roots[k])
  BY <1>3
<1>6. Marks(s, s)
  BY DEF Marks, Keeps
<1>7. ASSUME NEW k \in 1 .. 4, Marks(s, c[k - 1]) PROVE Marks(s, c[k])
  <2>1. c[k - 1] \in Seq(Glyph)
    BY <1>7 DEF Marks, Keeps
  <2>2. Marks(c[k - 1], c[k])
    BY <1>5, <2>1, RootsAre, RootMarks
  <2> QED
    BY <1>7, <2>2, BothKeep
<1>8. Marks(s, c[0])
  BY <1>4, <1>6
<1>9. 1 - 1 = 0 /\ 2 - 1 = 1 /\ 3 - 1 = 2 /\ 4 - 1 = 3 /\ {1, 2, 3, 4} = 1 .. 4
  OBVIOUS
<1>10. Marks(s, c[1])
  BY <1>7, <1>8, <1>9
<1>11. Marks(s, c[2])
  BY <1>7, <1>9, <1>10
<1>12. Marks(s, c[3])
  BY <1>7, <1>9, <1>11
<1>13. Marks(s, c[4])
  BY <1>7, <1>9, <1>12
<1> QED
  BY <1>1, <1>13

\* No home path is left.
Homeless(s) == ~Contains(s, Home) /\ ~Contains(s, Slashed(Home))

\* The forms of a plain home path.
LEMMA PlainForms ==
    /\ Home \in Seq(Glyph) /\ Slashed(Home) \in Seq(Glyph)
    /\ (Home = <<>> => Slashed(Home) = <<>>)
    /\ PlainHome => \A form \in {Home, Slashed(Home)} :
           form \in Seq(Glyph \ (Placeholder \cup {"\n"})) /\ form \in Seq(Glyph \ Placeholder)
<1>1. "/" \in Glyph /\ "/" \in Glyph \ (Placeholder \cup {"\n"})
  BY DEF Glyph, Character, Placeholder, HOME_PLACEHOLDER, PATH_DROP, REDACTED
<1>2. Home \in Seq(Glyph) /\ Slashed(Home) \in Seq(Glyph) /\ Len(Slashed(Home)) = Len(Home)
  BY <1>1, IdentityIs, SlashedIs
<1>3. Home = <<>> => Slashed(Home) = <<>>
  BY <1>2, EmptySeq
<1>4. ASSUME PlainHome
      PROVE  \A form \in {Home, Slashed(Home)} :
           form \in Seq(Glyph \ (Placeholder \cup {"\n"})) /\ form \in Seq(Glyph \ Placeholder)
  <2> DEFINE G == Glyph \ (Placeholder \cup {"\n"})
             H == Glyph \ Placeholder
  <2>1. Home \in Seq(G) /\ "/" \in G /\ G \subseteq H
    BY <1>1, <1>4 DEF PlainHome
  <2> HIDE DEF G, H
  <2>2. Slashed(Home) \in Seq(G)
    BY <2>1, SlashedIs
  <2>3. \A form \in {Home, Slashed(Home)} : form \in Seq(G) /\ form \in Seq(H)
    BY <2>1, <2>2, SeqMonotonic
  <2> QED
    BY <2>3 DEF G, H
<1> QED
  BY <1>2, <1>3, <1>4

\* replace_path_prefixes takes the home path away.
LEMMA PrefixesGo ==
    ASSUME NEW s \in Seq(Glyph)
    PROVE  /\ Marks(s, replace_path_prefixes(s))
           /\ PlainHome => Homeless(replace_path_prefixes(s))
<1> DEFINE r == replace_path_prefixes(s)
<1>1. CASE Home = <<>>
  <2>1. r = s
    BY <1>1 DEF replace_path_prefixes
  <2>2. Marks(s, s)
    BY DEF Marks, Keeps
  <2>3. Homeless(s)
    BY <1>1, PlainForms DEF Homeless, Contains, Occurs
  <2> QED
    BY <2>1, <2>2, <2>3
<1>2. CASE Home # <<>>
  <2> DEFINE mark == HOME_PLACEHOLDER
             t == Replace(s, Home, mark)
             u == Replace(t, Slashed(Home), mark)
  <2>1. r = u
    BY <1>2 DEF replace_path_prefixes
  <2>2. mark \in Placeholder /\ mark # REDACTED /\ mark \in Glyph
    BY DEF Placeholder, HOME_PLACEHOLDER, REDACTED, Glyph
  <2> HIDE DEF mark
  <2>3. Marks(s, t)
    BY <2>2, PlainForms, ReplaceMarks
  <2>4. t \in Seq(Glyph)
    BY <2>3 DEF Marks, Keeps
  <2>5. Marks(t, u)
    BY <2>2, <2>4, PlainForms, ReplaceMarks
  <2>6. Marks(s, u)
    BY <2>3, <2>5, BothKeep
  <2>7. ASSUME PlainHome PROVE Homeless(u)
    <3>1. /\ \A i \in 1 .. Len(Home) : Home[i] # mark
          /\ \A i \in 1 .. Len(Slashed(Home)) : Slashed(Home)[i] # mark
      BY <2>2, <2>7, PlainForms, ElementOfSeq
    <3>2. ~Contains(t, Home)
      BY <2>2, <3>1, PlainForms, ReplaceTakes
    <3>3. ~Contains(u, Home)
      BY <2>2, <2>4, <3>1, <3>2, PlainForms, ReplaceLeaves
    <3>4. ~Contains(u, Slashed(Home))
      BY <2>2, <2>4, <3>1, PlainForms, ReplaceTakes
    <3> QED
      BY <3>3, <3>4 DEF Homeless
  <2> QED
    BY <2>1, <2>6, <2>7
<1> QED
  BY <1>1, <1>2

\* What a rule keeps of the home path.
LEMMA KeepsHomeless ==
    ASSUME NEW s, NEW t, Keeps(s, t), PlainHome, Homeless(s)
    PROVE  Homeless(t)
BY PlainForms DEF Keeps, Homeless

\* strip_identity leaves neither an absolute path nor the home path.
LEMMA StripIdentity ==
    ASSUME NEW s \in Seq(Glyph)
    PROVE  /\ Marks(s, strip_identity(s)) /\ PathFree(strip_identity(s))
           /\ PlainHome => Homeless(strip_identity(s))
<1> DEFINE host == "<HOST>"
           user == "<USER>"
           a == replace_path_prefixes(s)
           b == replace_token(a, Host, host)
           c == replace_token(b, User, user)
           d == Anchored(c)
           e == drop_unrecognized_absolute_paths(d)
<1>1. strip_identity(s) = e
  BY DEF strip_identity, anchor_paths
<1>2. host \in Placeholder /\ host # REDACTED /\ user \in Placeholder /\ user # REDACTED
  BY DEF Placeholder, REDACTED
<1> HIDE DEF host, user
<1>3. Marks(s, a) /\ (PlainHome => Homeless(a))
  BY PrefixesGo
<1>4. a \in Seq(Glyph)
  BY <1>3 DEF Marks, Keeps
<1> HIDE DEF a
<1>5. Marks(a, b)
  BY <1>2, <1>4, IdentityIs, TokenMarks
<1>6. b \in Seq(Glyph)
  BY <1>5 DEF Marks, Keeps
<1> HIDE DEF b
<1>7. Marks(b, c)
  BY <1>2, <1>6, IdentityIs, TokenMarks
<1>8. c \in Seq(Glyph)
  BY <1>7 DEF Marks, Keeps
<1> HIDE DEF c
<1>9. Marks(c, d)
  BY <1>8, AnchoredMarks
<1>10. d \in Seq(Glyph)
  BY <1>9 DEF Marks, Keeps
<1> HIDE DEF d
<1>11. Marks(d, e) /\ PathFree(e)
  BY <1>10, DropTakes
<1>12. Marks(a, e)
  BY <1>5, <1>7, <1>9, <1>11, BothKeep
<1>13. Marks(s, e)
  BY <1>3, <1>12, BothKeep
<1>14. PlainHome => Homeless(e)
  BY <1>3, <1>12, KeepsHomeless DEF Marks
<1> QED
  BY <1>1, <1>11, <1>13, <1>14

\* redact_free_text makes none, and leaves redactions apart.
LEMMA RedactFreeText ==
    ASSUME NEW s \in Seq(Glyph)
    PROVE  /\ Keeps(s, redact_free_text(s)) /\ Apart(redact_free_text(s))
           /\ PathFree(s) => PathFree(redact_free_text(s))
           /\ PlainHome /\ Homeless(s) => Homeless(redact_free_text(s))
<1> DEFINE t == redact_tokens(s)
           u == collapse_redactions(t)
<1>1. redact_free_text(s) = u
  BY DEF redact_free_text
<1>2. Keeps(s, t) /\ (PathFree(s) => PathFree(t))
  BY TokensKeep
<1>3. t \in Seq(Glyph)
  BY <1>2 DEF Keeps
<1> HIDE DEF t
<1>4. Keeps(t, u) /\ (PathFree(t) => PathFree(u)) /\ Apart(u)
  BY <1>3, CollapseApart
<1>5. Keeps(s, u)
  BY <1>2, <1>4, BothKeep
<1> QED
  BY <1>1, <1>2, <1>4, <1>5, KeepsHomeless

-----------------------------------------------------------------------------
(* The lines of a body.                                                       *)

\* A text in which there is a redaction only if there is one in s.
NoNewRedaction(s) == {u \in Seq(Glyph) : Unredacted(s) => Unredacted(u)}

\* The lines of a text are texts, and there is a redaction in one of them only if there is
\* one in the text.
LEMMA LinesAre ==
    ASSUME NEW s \in Seq(Glyph)
    PROVE  Lines(s) \in Seq(NoNewRedaction(s))
<1> DEFINE N == Len(s)
           M == N + 2
           class == Glyph \ {"\n"}
           end == [i \in 1 .. N |-> RunEnd(s, i, class)]
           item == [i \in 1 .. N |-> SubSeq(s, i, end[i] - 1)]
           next == [i \in 1 .. N |-> end[i] + 1]
           Is(f) == f = [i \in 1 .. M |-> IF i > N THEN <<>>
                                          ELSE LET j == RunEnd(s, i, class)
                                               IN <<SubSeq(s, i, j - 1)>> \o f[j + 1]]
           c == CHOOSE f : Is(f)
           S == NoNewRedaction(s)
<1>1. N \in Nat /\ M \in Nat /\ N < M /\ 1 \in 1 .. M
  BY LenProperties
<1>2. Lines(s) = c[1]
  BY DEF Lines
<1>3. \A i \in 1 .. N : end[i] \in i .. N + 1
  <2> TAKE i \in 1 .. N
  <2>1. i \in 1 .. (Len(s) + 1)
    BY <1>1
  <2> HIDE DEF class
  <2>2. RunEnd(s, i, class) \in i .. Len(s) + 1
    BY <2>1, RunEndIs DEF Ends
  <2> QED
    BY <2>2
<1>4. ASSUME NEW f PROVE Is(f) <=> Scans(f, N, M, item, next)
  <2>1. \A i \in 1 .. M :
           (IF i > N THEN <<>> ELSE LET j == RunEnd(s, i, class) IN <<SubSeq(s, i, j - 1)>> \o f[j + 1])
             = (IF i > N THEN <<>> ELSE <<item[i]>> \o f[next[i]])
    <3> TAKE i \in 1 .. M
    <3>1. CASE i > N
      BY <3>1
    <3>2. CASE ~(i > N)
      <4>1. i \in 1 .. N
        BY <1>1, <3>2
      <4>2. item[i] = SubSeq(s, i, RunEnd(s, i, class) - 1) /\ next[i] = RunEnd(s, i, class) + 1
        BY <4>1
      <4> HIDE DEF item, next, class
      <4> QED
        BY <3>2, <4>2
    <3> QED
      BY <3>1, <3>2
  <2> HIDE DEF item, next, class, M
  <2> QED
    BY <2>1 DEF Scans
<1>5. Forward(N, M, next)
  <2>1. \A i \in 1 .. N : next[i] \in 1 .. M /\ i < next[i]
    <3> TAKE i \in 1 .. N
    <3>1. next[i] = end[i] + 1 /\ end[i] \in i .. N + 1
      BY <1>3
    <3> HIDE DEF end, next
    <3> QED
      BY <1>1, <3>1
  <2> HIDE DEF next
  <2> QED
    BY <1>1, <2>1 DEF Forward
<1>6. \A i \in 1 .. N : item[i] \in S
  <2> TAKE i \in 1 .. N
  <2> DEFINE b == end[i] - 1
             u == SubSeq(s, i, b)
  <2>2. item[i] = u
    OBVIOUS
  <2> HIDE DEF end, item
  <2>1. i \in Nat /\ b \in Int /\ i >= 1 /\ b <= Len(s) /\ b >= i - 1
    <3>1. end[i] \in i .. N + 1
      BY <1>3
    <3> QED
      BY <1>1, <3>1
  <2> HIDE DEF b
  <2>3. u = SubSeq(s, i, b)
    OBVIOUS
  <2> HIDE DEF u
  <2>4. /\ u \in Seq(Glyph) /\ Len(u) = b - i + 1
        /\ \A k \in 1 .. (b - i + 1) : i + k - 1 \in i .. b /\ u[k] = s[i + k - 1]
    BY <2>1, <2>3, SubIs
  <2>5. ASSUME Unredacted(s) PROVE Unredacted(u)
    <3>1. \A k \in 1 .. Len(u) : i + k - 1 \in 1 .. Len(s) /\ u[k] = s[i + k - 1]
      BY <1>1, <2>1, <2>4
    <3> QED
      BY <2>5, <3>1 DEF Unredacted
  <2> QED
    BY <2>2, <2>4, <2>5 DEF NoNewRedaction
<1> HIDE DEF item, next, class, end, M, N
<1>7. \E f : Scans(f, N, M, item, next)
  BY <1>5, ScanExists
<1>8. \E f : Is(f)
  BY <1>4, <1>7
<1>9. Is(c)
  <2> HIDE DEF Is
  <2> QED
    BY <1>8
<1>10. Scans(c, N, M, item, next)
  BY <1>4, <1>9
<1> HIDE DEF c, S
<1> DEFINE one == 1
<1>11. one \in 1 .. M
  BY <1>1
<1> HIDE DEF one
<1>12. c[one] \in Seq(S)
  BY <1>5, <1>6, <1>10, <1>11, ScanTraces
<1> QED
  BY <1>2, <1>12 DEF one, S

\* No more of them are kept than the budget has room for.
LEMMA FirstLinesAre ==
    ASSUME NEW S, NEW t \in Seq(S)
    PROVE  FirstLines(t) \in Seq(S) /\ Len(FirstLines(t)) <= MaxLines
<1> DEFINE b == IF Len(t) < MaxLines THEN Len(t) ELSE MaxLines
           a == 1
           u == SubSeq(t, a, b)
<1>1. FirstLines(t) = u /\ u = SubSeq(t, a, b)
  BY DEF FirstLines
<1>2. Len(t) \in Nat /\ MaxLines \in Nat
  BY LenProperties, SanitizeAssumption
<1>3. a \in Nat /\ b \in Int /\ a >= 1 /\ b <= Len(t) /\ b >= a - 1 /\ b - a + 1 <= MaxLines
  BY <1>2
<1> HIDE DEF a, b, u
<1>4. u \in Seq(S) /\ Len(u) = b - a + 1
  BY <1>1, <1>3, SubIs
<1> QED
  BY <1>1, <1>3, <1>4

\* What a loop has written after each round: the start, and then a part more.
Appends(f, N, H, F) ==
    f = [n \in 0 .. N |-> IF n = 0 THEN H ELSE f[n - 1] \o F[n]]

\* Such a loop is defined, whatever it writes.
LEMMA AppendsExists ==
    ASSUME NEW F, NEW H, NEW N \in Nat
    PROVE  \E f : Appends(f, N, H, F)
<1> DEFINE P == {m \in Nat : \E f : Appends(f, m, H, F)}
<1>1. 0 \in P
  <2> DEFINE f == [n \in 0 .. 0 |-> H]
  <2>1. f = [n \in 0 .. 0 |-> IF n = 0 THEN H ELSE f[n - 1] \o F[n]]
    OBVIOUS
  <2> QED
    BY <2>1 DEF Appends
<1>2. ASSUME NEW m \in Nat, m \in P PROVE m + 1 \in P
  <2>1. PICK f : f = [n \in 0 .. m |-> IF n = 0 THEN H ELSE f[n - 1] \o F[n]]
    BY <1>2 DEF Appends
  <2>2. \A n \in 0 .. m : f[n] = IF n = 0 THEN H ELSE f[n - 1] \o F[n]
    BY <2>1
  <2> DEFINE g == [n \in 0 .. (m + 1) |-> IF n = m + 1 THEN f[m] \o F[n] ELSE f[n]]
  <2>3. \A n \in 0 .. (m + 1) : g[n] = IF n = 0 THEN H ELSE g[n - 1] \o F[n]
    BY <2>2
  <2>4. g = [n \in 0 .. (m + 1) |-> g[n]]
    OBVIOUS
  <2> HIDE DEF g
  <2>5. g = [n \in 0 .. (m + 1) |-> IF n = 0 THEN H ELSE g[n - 1] \o F[n]]
    BY <2>3, <2>4
  <2> QED
    BY <2>5 DEF Appends
<1> HIDE DEF P
<1>3. N \in P
  BY <1>1, <1>2, Induction
<1> QED
  BY <1>3 DEF P

\* A part without g is in neither of two texts: then it is not in both with g between them.
LEMMA NotAcross ==
    ASSUME NEW S, NEW g \in S, NEW p \in Seq(S), NEW q \in Seq(S), NEW t, t = p \o (<<g>> \o q)
    PROVE  /\ t \in Seq(S)
           /\ \A part \in Seq(S \ {g}) : ~Contains(p, part) /\ ~Contains(q, part) => ~Contains(t, part)
<1> DEFINE h == <<g>> \o q
           n == Len(p)
<1>1. h \in Seq(S) /\ Len(q) \in Nat /\ Len(h) = Len(q) + 1 /\ h[1] = g
      /\ \A k \in 2 .. Len(h) : k - 1 \in 1 .. Len(q) /\ h[k] = q[k - 1]
  <2>1. h = <<g>> \o q
    OBVIOUS
  <2> HIDE DEF h
  <2> QED
    BY <2>1, OneBefore
<1>2. t = p \o h
  OBVIOUS
<1> HIDE DEF h
<1>3. /\ p \o h \in Seq(S) /\ Len(p \o h) = Len(p) + Len(h)
      /\ \A k \in 1 .. Len(p) + Len(h) : (p \o h)[k] = IF k <= Len(p) THEN p[k] ELSE h[k - Len(p)]
  BY <1>1, ConcatProperties
<1>4. n \in Nat /\ t \in Seq(S) /\ Len(t) = n + Len(q) + 1
  BY <1>1, <1>2, <1>3, LenProperties
<1>5. \A k \in 1 .. Len(t) : t[k] = IF k <= n THEN p[k] ELSE h[k - n]
  BY <1>1, <1>2, <1>3, <1>4
<1> HIDE DEF n
<1>6. /\ \A k \in 1 .. n : t[k] = p[k]
      /\ t[n + 1] = g
      /\ \A k \in 1 .. Len(q) : t[n + 1 + k] = q[k]
  <2>1. \A k \in 1 .. n : t[k] = p[k]
    BY <1>1, <1>4, <1>5
  <2>2. t[n + 1] = g
    <3>1. n + 1 \in 1 .. Len(t) /\ ~(n + 1 <= n) /\ (n + 1) - n = 1
      BY <1>1, <1>4
    <3> QED
      BY <1>1, <1>5, <3>1
  <2>3. ASSUME NEW k \in 1 .. Len(q) PROVE t[n + 1 + k] = q[k]
    <3>1. n + 1 + k \in 1 .. Len(t) /\ ~(n + 1 + k <= n) /\ (n + 1 + k) - n = k + 1
      BY <1>1, <1>4
    <3>2. k + 1 \in 2 .. Len(h) /\ (k + 1) - 1 = k
      BY <1>1
    <3>3. h[k + 1] = q[k]
      BY <1>1, <3>2
    <3> QED
      BY <1>5, <3>1, <3>3
  <2> QED
    BY <2>1, <2>2, <2>3
<1>7. ASSUME NEW part \in Seq(S \ {g}), ~Contains(p, part), ~Contains(q, part), NEW i \in 1 .. Len(t), Occurs(t, i, part)
      PROVE  FALSE
  <2> DEFINE m == Len(part)
  <2>1. part \in Seq(S) /\ \A j \in 1 .. Len(part) : part[j] # g
    <3>1. S \ {g} \subseteq S
      OBVIOUS
    <3> QED
      BY <3>1, SeqMonotonic, ElementOfSeq
  <2>2. Stands(t, i, part)
    BY <1>4, <1>7, <2>1, OccursIs
  <2>3. m \in Nat /\ m >= 1 /\ i + m - 1 <= Len(t) /\ part # <<>>
    BY <2>1, <2>2, LenProperties, EmptySeq DEF Stands
  <2>4. \A j \in 1 .. m : t[i + j - 1] = part[j] /\ part[j] # g
    BY <2>1, <2>2 DEF Stands
  <2>5. CASE i + m - 1 <= n
    <3>1. i \in 1 .. n /\ \A j \in 1 .. m : i + j - 1 \in 1 .. n
      BY <1>4, <2>3, <2>5
    <3>2. \A j \in 1 .. m : p[i + j - 1] = part[j]
      BY <1>6, <2>4, <3>1
    <3>3. i \in 1 .. Len(p) /\ Stands(p, i, part)
      BY <2>3, <2>5, <3>1, <3>2 DEF Stands, n
    <3>4. Occurs(p, i, part)
      BY <2>1, <3>3, OccursIs
    <3> QED
      BY <1>7, <3>3, <3>4 DEF Contains
  <2>6. CASE i > n + 1
    <3> DEFINE a == i - (n + 1)
    <3>1. a \in 1 .. Len(q) /\ a + m - 1 <= Len(q)
      BY <1>1, <1>4, <2>3, <2>6
    <3>2. \A j \in 1 .. m : a + j - 1 \in 1 .. Len(q) /\ n + 1 + (a + j - 1) = i + j - 1
      BY <1>1, <1>4, <2>3, <2>6
    <3> HIDE DEF a
    <3>3. \A j \in 1 .. m : q[a + j - 1] = part[j]
      <4> TAKE j \in 1 .. m
      <4> DEFINE k == a + j - 1
      <4>1. k \in 1 .. Len(q) /\ n + 1 + k = i + j - 1
        BY <3>2
      <4> HIDE DEF k
      <4>2. q[k] = t[i + j - 1]
        BY <1>6, <4>1
      <4> QED
        BY <2>4, <4>2 DEF k
    <3>4. Stands(q, a, part)
      BY <2>3, <3>1, <3>3 DEF Stands
    <3>5. Occurs(q, a, part)
      BY <2>1, <3>1, <3>4, OccursIs
    <3> QED
      BY <1>7, <3>1, <3>5 DEF Contains
  <2>7. CASE i <= n + 1 /\ i + m - 1 > n
    <3> DEFINE j == n + 2 - i
    <3>1. j \in 1 .. m /\ i + j - 1 = n + 1
      BY <1>4, <2>3, <2>7
    <3> HIDE DEF j
    <3>2. t[n + 1] = part[j] /\ part[j] # g
      BY <2>4, <3>1
    <3> QED
      BY <1>6, <3>2
  <2> QED
    BY <1>4, <2>3, <2>5, <2>6, <2>7
<1> QED
  BY <1>4, <1>7 DEF Contains

\* Without a part, and so without one of its kind that crosses a line break.
LEMMA JoinedIs ==
    ASSUME NEW parts \in Seq(Seq(Glyph))
    PROVE  /\ Joined(parts) \in Seq(Glyph)
           /\ \A part \in Seq(Glyph \ {"\n"}) :
                 (\A k \in 1 .. Len(parts) : ~Contains(parts[k], part)) => ~Contains(Joined(parts), part)
<1> DEFINE N == Len(parts)
           nl == "\n"
           F == [k \in 1 .. N |-> IF k = 1 THEN parts[k] ELSE <<nl>> \o parts[k]]
           Is(f) == f = [k \in 0 .. N |-> IF k = 0 THEN <<>>
                                          ELSE f[k - 1] \o (IF k = 1 THEN parts[k] ELSE <<nl>> \o parts[k])]
           c == CHOOSE f : Is(f)
<1>1. N \in Nat /\ \A k \in 1 .. N : parts[k] \in Seq(Glyph)
  BY LenProperties, ElementOfSeq
<1>2. Joined(parts) = c[N]
  BY DEF Joined
<1>3. nl \in Glyph
  BY DEF Glyph, Character, PathEnd, White
<1>4. \E f : Is(f)
  <2>1. PICK f : Appends(f, N, <<>>, F)
    BY <1>1, AppendsExists
  <2>2. \A k \in 0 .. N : f[k] = IF k = 0 THEN <<>> ELSE f[k - 1] \o F[k]
    BY <2>1 DEF Appends
  <2>3. f = [k \in 0 .. N |-> f[k]]
    BY <2>1 DEF Appends
  <2>4. \A k \in 0 .. N : f[k] = IF k = 0 THEN <<>> ELSE f[k - 1] \o (IF k = 1 THEN parts[k] ELSE <<nl>> \o parts[k])
    <3> TAKE k \in 0 .. N
    <3>1. k = 0 \/ k \in 1 .. N
      BY <1>1
    <3>2. k \in 1 .. N => F[k] = IF k = 1 THEN parts[k] ELSE <<nl>> \o parts[k]
      OBVIOUS
    <3> HIDE DEF F, nl
    <3> QED
      BY <2>2, <3>1, <3>2
  <2>5. Is(f)
    BY <2>3, <2>4
  <2> QED
    BY <2>5
<1>5. Is(c)
  <2> HIDE DEF Is
  <2> QED
    BY <1>4
<1>6. \A k \in 0 .. N : c[k] = IF k = 0 THEN <<>> ELSE c[k - 1] \o (IF k = 1 THEN parts[k] ELSE <<nl>> \o parts[k])
  <2> HIDE DEF c, nl, N
  <2> QED
    BY <1>5
<1> HIDE DEF c, N, nl
<1> DEFINE Without(part) == \A k \in 1 .. N : ~Contains(parts[k], part)
           Good(t) == t \in Seq(Glyph) /\ \A part \in Seq(Glyph \ {nl}) : Without(part) => ~Contains(t, part)
           P == {k \in Nat : k <= N => Good(c[k])}
<1>7. Good(<<>>)
  <2>1. <<>> \in Seq(Glyph) /\ \A part : ~Contains(<<>>, part)
    BY EmptySeq DEF Contains
  <2> QED
    BY <2>1
<1>8. 0 \in P
  <2>0. 0 \in 0 .. N
    BY <1>1
  <2>1. c[0] = <<>>
    BY <1>6, <2>0
  <2> QED
    BY <1>7, <2>1
<1>9. ASSUME NEW k \in Nat, k \in P PROVE k + 1 \in P
  <2> DEFINE j == k + 1
  <2>1. j \in Nat /\ j - 1 = k /\ j # 0
    OBVIOUS
  <2>2. ASSUME j <= N PROVE Good(c[j])
    <3>1. j \in 1 .. N /\ k <= N /\ j \in 0 .. N
      BY <1>1, <2>2
    <3>2. Good(c[k])
      BY <1>9, <3>1
    <3>3. c[j] = c[k] \o (IF j = 1 THEN parts[j] ELSE <<nl>> \o parts[j])
      BY <1>6, <2>1, <3>1
    <3>4. parts[j] \in Seq(Glyph) /\ \A part : Without(part) => ~Contains(parts[j], part)
      BY <1>1, <3>1
    <3>5. CASE j = 1
      <4>1. k = 0
        BY <3>5
      <4>2. c[k] = <<>>
        BY <1>1, <1>6, <4>1
      <4>3. c[j] = parts[j]
        BY <3>3, <3>4, <3>5, <4>2, ConcatEmptySeq
      <4> HIDE DEF Without
      <4> QED
        BY <3>4, <4>3
    <3>6. CASE j # 1
      <4>1. c[j] = c[k] \o (<<nl>> \o parts[j])
        BY <3>3, <3>6
      <4>2. c[k] \in Seq(Glyph)
        BY <3>2
      <4> HIDE DEF Without
      <4>3. /\ c[j] \in Seq(Glyph)
            /\ \A part \in Seq(Glyph \ {nl}) : ~Contains(c[k], part) /\ ~Contains(parts[j], part) => ~Contains(c[j], part)
        <5> DEFINE t == c[j]
                   p == c[k]
                   q == parts[j]
        <5>1. t = p \o (<<nl>> \o q) /\ p \in Seq(Glyph) /\ q \in Seq(Glyph)
          BY <3>4, <4>1, <4>2
        <5> HIDE DEF t, p, q
        <5>2. t \in Seq(Glyph) /\ \A part \in Seq(Glyph \ {nl}) : ~Contains(p, part) /\ ~Contains(q, part) => ~Contains(t, part)
          BY <1>3, <5>1, NotAcross
        <5> QED
          BY <5>2 DEF t, p, q
      <4> QED
        BY <3>2, <3>4, <4>3
    <3> QED
      BY <3>5, <3>6
  <2> HIDE DEF j, Good
  <2> QED
    BY <2>1, <2>2 DEF j
<1> HIDE DEF P
<1>10. N \in P
  BY <1>1, <1>8, <1>9, Induction
<1>11. Good(c[N])
  <2> HIDE DEF Good
  <2> QED
    BY <1>1, <1>10 DEF P
<1> QED
  BY <1>2, <1>11 DEF N, nl

\* What is capped is within the cap, the marker included.
LEMMA CapIs ==
    ASSUME NEW s \in Seq(Glyph)
    PROVE  cap_bytes(s) \in Seq(Glyph) /\ Len(cap_bytes(s)) <= MaxField
<1> DEFINE m == Marker
           b == MaxField - Len(m)
           a == 1
           u == SubSeq(s, a, b)
<1>1. m \in Seq(Glyph) /\ Len(m) = 2
  <2>1. Marker[1] \in Glyph /\ Marker[2] \in Glyph
    BY DEF Glyph
  <2>2. \A x, y \in Glyph : <<x, y>> \in Seq(Glyph) /\ Len(<<x, y>>) = 2
    OBVIOUS
  <2>3. Marker = <<Marker[1], Marker[2]>> /\ Marker = <<"...", "[truncated]">>
    BY DEF Marker
  <2> QED
    BY <2>1, <2>2, <2>3
<1>2. Len(s) \in Nat /\ MaxField \in Nat /\ MaxField >= Len(m)
  BY LenProperties, SanitizeAssumption
<1>3. cap_bytes(s) = IF Len(s) <= MaxField THEN s ELSE u \o m
  BY DEF cap_bytes
<1> HIDE DEF m
<1>4. CASE Len(s) <= MaxField
  BY <1>3, <1>4
<1>5. CASE ~(Len(s) <= MaxField)
  <2>1. a \in Nat /\ b \in Int /\ a >= 1 /\ b <= Len(s) /\ b >= a - 1 /\ b - a + 1 = MaxField - 2 /\ u = SubSeq(s, a, b)
    BY <1>1, <1>2, <1>5
  <2> HIDE DEF a, b, u
  <2>2. u \in Seq(Glyph) /\ Len(u) = b - a + 1
    BY <2>1, SubIs
  <2>3. u \o m \in Seq(Glyph) /\ Len(u \o m) = Len(u) + Len(m)
    BY <1>1, <2>2, ConcatProperties
  <2>4. cap_bytes(s) = u \o m
    BY <1>3, <1>5
  <2> QED
    BY <1>1, <1>2, <2>1, <2>2, <2>3, <2>4
<1> QED
  BY <1>4, <1>5

-----------------------------------------------------------------------------
(* The sanitizer.                                                             *)

\* What the steps keep: texts everywhere, and room for the line in hand.
TypeInv ==
    /\ kind \in {"field", "body"}
    /\ pc \in {"line", "stripped", "redacted", "done"}
    /\ input \in Seq(Glyph) /\ text \in Seq(Glyph)
    /\ lines \in Seq(Seq(Glyph)) /\ out \in Seq(Seq(Glyph))
    /\ kind = "body" => Len(lines) + Len(out) + (IF pc \in {"stripped", "redacted"} THEN 1 ELSE 0) <= MaxLines
    /\ pc = "done" => Len(text) <= MaxField

\* It is so before the first line.
LEMMA TypeInit == Init => TypeInv
<1> SUFFICES ASSUME Init PROVE TypeInv
  OBVIOUS
<1>1. input \in Seq(Glyph) /\ text = <<>> /\ out = <<>> /\ pc = "line" /\ kind \in {"field", "body"}
  BY SanitizeAssumption DEF Init
<1>2. \A S : <<>> \in Seq(S) /\ Len(<<>>) = 0
  BY EmptySeq
<1>3. CASE kind = "field"
  <2>1. lines = <<input>>
    BY <1>3 DEF Init
  <2>2. \A x \in Seq(Glyph) : <<x>> \in Seq(Seq(Glyph))
    <3> DEFINE T == Seq(Glyph)
    <3> HIDE DEF T
    <3>1. \A x \in T : <<x>> \in Seq(T)
      OBVIOUS
    <3> QED
      BY <3>1 DEF T
  <2>3. lines \in Seq(Seq(Glyph))
    BY <1>1, <2>1, <2>2
  <2> QED
    BY <1>1, <1>2, <1>3, <2>3 DEF TypeInv
<1>4. CASE kind = "body"
  <2>1. lines = FirstLines(Lines(input))
    BY <1>4 DEF Init
  <2>2. Lines(input) \in Seq(NoNewRedaction(input))
    BY <1>1, LinesAre
  <2>3. NoNewRedaction(input) \subseteq Seq(Glyph)
    BY DEF NoNewRedaction
  <2>4. Lines(input) \in Seq(Seq(Glyph))
    BY <2>2, <2>3, SeqMonotonic
  <2>5. lines \in Seq(Seq(Glyph)) /\ Len(lines) <= MaxLines
    BY <2>1, <2>4, FirstLinesAre
  <2>6. Len(lines) \in Nat /\ MaxLines \in Nat
    BY <2>5, LenProperties, SanitizeAssumption
  <2> QED
    BY <1>1, <1>2, <1>4, <2>5, <2>6 DEF TypeInv
<1> QED
  BY <1>1, <1>3, <1>4

\* The mark for a line that has no safe shape.
LEMMA RedactedLine ==
    /\ <<REDACTED>> \in Seq(Glyph) /\ Apart(<<REDACTED>>) /\ PathFree(<<REDACTED>>)
    /\ PlainHome => Homeless(<<REDACTED>>)
<1> DEFINE t == <<REDACTED>>
<1>1. REDACTED \in Glyph /\ REDACTED \in Placeholder
  BY DEF Glyph, Placeholder
<1>2. t \in Seq(Glyph) /\ Len(t) = 1 /\ t[1] = REDACTED
  BY <1>1
<1> HIDE DEF t
<1>3. \A i \in 1 .. Len(t) : i = 1
  BY <1>2
<1>4. Apart(t)
  BY <1>3 DEF Apart
<1>5. PathFree(t)
  <2>1. ~(1 + 1 <= Len(t)) /\ ~(1 + 2 <= Len(t))
    BY <1>2
  <2> QED
    BY <1>3, <2>1 DEF PathFree, StartsPath
<1>6. ASSUME PlainHome, NEW form \in {Home, Slashed(Home)}, Contains(t, form) PROVE FALSE
  <2>1. form \in Seq(Glyph \ Placeholder) /\ form \in Seq(Glyph)
    BY <1>6, PlainForms
  <2>2. PICK i \in 1 .. Len(t) : Occurs(t, i, form)
    BY <1>6 DEF Contains
  <2>3. Stands(t, i, form) /\ i = 1
    BY <1>2, <1>3, <2>1, <2>2, OccursIs
  <2>4. form # <<>> /\ \A j \in 1 .. Len(form) : t[i + j - 1] = form[j]
    BY <2>3 DEF Stands
  <2>5. 1 \in 1 .. Len(form) /\ i + 1 - 1 = 1
    BY <2>1, <2>3, <2>4, LenProperties, EmptySeq
  <2>6. form[1] = REDACTED
    BY <1>2, <2>4, <2>5
  <2>7. form[1] \in Glyph \ Placeholder
    BY <2>1, <2>5, ElementOfSeq
  <2> QED
    BY <1>1, <2>6, <2>7
<1> QED
  BY <1>2, <1>4, <1>5, <1>6 DEF Homeless, t

\* Every step keeps it.
LEMMA TypeNext == TypeInv /\ [Next]_vars => TypeInv'
<1> SUFFICES ASSUME TypeInv, [Next]_vars PROVE TypeInv'
  OBVIOUS
<1> DEFINE T == Seq(Glyph)
           Room(n, m, p) == kind = "body" => n + m + (IF p \in {"stripped", "redacted"} THEN 1 ELSE 0) <= MaxLines
<1>1. /\ kind \in {"field", "body"} /\ pc \in {"line", "stripped", "redacted", "done"}
      /\ input \in T /\ text \in T /\ lines \in Seq(T) /\ out \in Seq(T)
      /\ Room(Len(lines), Len(out), pc)
      /\ pc = "done" => Len(text) <= MaxField
  BY DEF TypeInv
<1>2. /\ kind' \in {"field", "body"} /\ pc' \in {"line", "stripped", "redacted", "done"}
      /\ input' \in T /\ text' \in T /\ lines' \in Seq(T) /\ out' \in Seq(T)
      /\ Room(Len(lines'), Len(out'), pc')
      /\ kind' = kind
      /\ pc' = "done" => Len(text') <= MaxField
      => TypeInv'
  BY DEF TypeInv
<1>3. Len(lines) \in Nat /\ Len(out) \in Nat /\ MaxLines \in Nat
  BY <1>1, LenProperties, SanitizeAssumption
<1>4. ASSUME NEW t \in T, out' = Append(out, t), pc' = "line", UNCHANGED <<kind, input, lines, text>>,
             pc \in {"stripped", "redacted"}
      PROVE  TypeInv'
  <2> HIDE DEF T
  <2>1. out' \in Seq(T) /\ Len(out') = Len(out) + 1
    BY <1>1, <1>4, AppendProperties
  <2>2. Room(Len(lines'), Len(out'), pc')
    BY <1>1, <1>3, <1>4, <2>1
  <2> HIDE DEF Room
  <2> QED
    BY <1>1, <1>2, <1>4, <2>1, <2>2
<1>5. CASE Strip
  <2>1. /\ pc = "line" /\ lines # <<>> /\ text' = strip_identity(Head(lines)) /\ lines' = Tail(lines)
        /\ pc' = "stripped" /\ UNCHANGED <<kind, input, out>>
    BY <1>5 DEF Strip
  <2>2. Head(lines) \in T /\ lines' \in Seq(T) /\ Len(lines') = Len(lines) - 1
    <3> HIDE DEF T
    <3> QED
      BY <1>1, <2>1, HeadTailProperties
  <2>3. text' \in T
    BY <2>1, <2>2, StripIdentity DEF Marks, Keeps
  <2> HIDE DEF T
  <2>4. Room(Len(lines'), Len(out'), pc')
    BY <1>1, <1>3, <2>1, <2>2
  <2> HIDE DEF Room
  <2> QED
    BY <1>1, <1>2, <2>1, <2>2, <2>3, <2>4
<1>6. CASE KeepFrame
  BY <1>1, <1>4, <1>6 DEF KeepFrame
<1>7. CASE RedactText
  <2>1. pc = "stripped" /\ text' = redact_free_text(text) /\ pc' = "redacted" /\ UNCHANGED <<kind, input, lines, out>>
    BY <1>7 DEF RedactText
  <2>2. text' \in T
    BY <1>1, <2>1, RedactFreeText DEF Keeps
  <2> HIDE DEF T
  <2>3. Room(Len(lines'), Len(out'), pc')
    BY <1>1, <1>3, <2>1
  <2> HIDE DEF Room
  <2> QED
    BY <1>1, <1>2, <2>1, <2>2, <2>3
<1>8. CASE Judge
  <2>1. pc = "redacted" /\ pc' = "line" /\ UNCHANGED <<kind, input, lines, text>>
        /\ \E t \in {text, <<REDACTED>>} : out' = Append(out, t)
    BY <1>8 DEF Judge
  <2>2. <<REDACTED>> \in T
    BY RedactedLine
  <2> HIDE DEF T
  <2>3. PICK t \in T : out' = Append(out, t)
    BY <1>1, <2>1, <2>2
  <2> QED
    BY <1>4, <2>1, <2>3
<1>9. CASE Cap
  <2>1. pc = "line" /\ lines = <<>> /\ text' = cap_bytes(Joined(out)) /\ pc' = "done" /\ UNCHANGED <<kind, input, lines, out>>
    BY <1>9 DEF Cap
  <2>2. Joined(out) \in T
    BY <1>1, JoinedIs
  <2>3. text' \in T /\ Len(text') <= MaxField
    BY <2>1, <2>2, CapIs
  <2> HIDE DEF T
  <2>4. Room(Len(lines'), Len(out'), pc')
    BY <1>1, <1>3, <2>1
  <2> HIDE DEF Room
  <2> QED
    BY <1>1, <1>2, <2>1, <2>3, <2>4
<1>10. CASE UNCHANGED vars
  BY <1>10 DEF vars, TypeInv
<1> QED
  BY <1>5, <1>6, <1>7, <1>8, <1>9, <1>10 DEF Next

\* The elements of a text.
LEMMA InText ==
    ASSUME NEW S, NEW s \in Seq(S)
    PROVE  Range(s) \subseteq S /\ \A x \in Range(s) : \E i \in 1 .. Len(s) : x = s[i]
<1>1. DOMAIN s = 1 .. Len(s)
  BY LenProperties
<1> QED
  BY <1>1, ElementOfSeq DEF Range

\* Whatever the text, the directories and the environment, no step makes up a glyph, a body
\* never has more lines than its budget, and what leaves the sanitizer is within the cap,
\* the marker included (sanitize.rs:171, cap_bytes).
THEOREM SanitizerTypeCorrect == Spec => []TypeOK
<1>1. TypeInv => TypeOK
  <2> SUFFICES ASSUME TypeInv PROVE TypeOK
    OBVIOUS
  <2>1. /\ kind \in {"field", "body"} /\ pc \in {"line", "stripped", "redacted", "done"}
        /\ input \in Seq(Glyph) /\ text \in Seq(Glyph)
        /\ lines \in Seq(Seq(Glyph)) /\ out \in Seq(Seq(Glyph))
        /\ kind = "body" => Len(lines) + Len(out) + (IF pc \in {"stripped", "redacted"} THEN 1 ELSE 0) <= MaxLines
        /\ pc = "done" => Len(text) <= MaxField
    BY DEF TypeInv
  <2>2. Range(lines) \subseteq Seq(Glyph) /\ Range(out) \subseteq Seq(Glyph)
    BY <2>1, InText
  <2>3. \A s \in {input, text} \cup Range(lines) \cup Range(out) : s \in Seq(Glyph)
    BY <2>1, <2>2
  <2>4. \A s \in {input, text} \cup Range(lines) \cup Range(out) : Range(s) \subseteq Glyph
    BY <2>3, InText
  <2>5. Len(lines) \in Nat /\ Len(out) \in Nat /\ MaxLines \in Nat
    BY <2>1, LenProperties, SanitizeAssumption
  <2>6. kind = "body" => Len(lines) + Len(out) <= MaxLines
    BY <2>1, <2>5
  <2> QED
    BY <2>1, <2>4, <2>6 DEF TypeOK
<1> QED
  BY <1>1, TypeInit, TypeNext, PTL DEF Spec

\* The texts in which no absolute path starts.
PathFreeTexts == {t \in Seq(Glyph) : PathFree(t)}

\* Once a line is stripped it has no absolute path in it, and keeps none.
PathInv ==
    /\ pc \in {"stripped", "redacted"} => PathFree(text)
    /\ out \in Seq(PathFreeTexts)

\* No step brings one back.
LEMMA PathNext == TypeInv /\ PathInv /\ [Next]_vars => PathInv'
<1> SUFFICES ASSUME TypeInv, PathInv, [Next]_vars PROVE PathInv'
  OBVIOUS
<1>1. text \in Seq(Glyph) /\ lines \in Seq(Seq(Glyph)) /\ out \in Seq(PathFreeTexts)
      /\ (pc \in {"stripped", "redacted"} => PathFree(text))
  BY DEF TypeInv, PathInv
<1>2. ASSUME NEW t \in PathFreeTexts, out' = Append(out, t), pc' = "line" PROVE PathInv'
  <2>1. out' \in Seq(PathFreeTexts)
    BY <1>1, <1>2, AppendProperties
  <2> QED
    BY <1>2, <2>1 DEF PathInv
<1>3. CASE Strip
  <2>1. Head(lines) \in Seq(Glyph)
    <3> DEFINE T == Seq(Glyph)
    <3>1. lines \in Seq(T) /\ lines # <<>>
      BY <1>1, <1>3 DEF Strip
    <3> HIDE DEF T
    <3>2. Head(lines) \in T
      BY <3>1, HeadTailProperties
    <3> QED
      BY <3>2 DEF T
  <2> QED
    BY <1>1, <1>3, <2>1, StripIdentity DEF Strip, PathInv
<1>4. CASE KeepFrame
  BY <1>1, <1>2, <1>4 DEF KeepFrame, PathFreeTexts
<1>5. CASE RedactText
  <2>1. PathFree(redact_free_text(text))
    BY <1>1, <1>5, RedactFreeText DEF RedactText
  <2> QED
    BY <1>1, <1>5, <2>1 DEF RedactText, PathInv
<1>6. CASE Judge
  <2>1. text \in PathFreeTexts /\ <<REDACTED>> \in PathFreeTexts
    BY <1>1, <1>6, RedactedLine DEF Judge, PathFreeTexts
  <2>2. pc' = "line" /\ \E t \in {text, <<REDACTED>>} : out' = Append(out, t)
    BY <1>6 DEF Judge
  <2> QED
    BY <1>2, <2>1, <2>2
<1>7. CASE Cap
  BY <1>1, <1>7 DEF Cap, PathInv
<1>8. CASE UNCHANGED vars
  BY <1>8 DEF vars, PathInv
<1> QED
  BY <1>3, <1>4, <1>5, <1>6, <1>7, <1>8 DEF Next

\* Whatever the text, a line or field that is done has no absolute path at its beginning or
\* behind a space, a quote, '(' or '=', whoever's it is: neither one that the anchoring left
\* nor one that the marks written around others make up (redact.rs:106).  Of a path behind a
\* newline, '[', '{' or ';' it says nothing, and of those the code leaves some.
THEOREM ListedPathsGone == Spec => []NoListedPath
<1>1. Init => PathInv
  BY EmptySeq DEF Init, PathInv
<1>2. PathInv => NoListedPath
  <2> SUFFICES ASSUME PathInv, NEW line \in Range(out), NEW i \in DOMAIN line
               PROVE  ~PathStarts(line, i, {" ", "\"", "'", "(", "="})
    BY DEF NoListedPath
  <2>1. line \in Seq(Glyph) /\ PathFree(line)
    BY InText DEF PathInv, PathFreeTexts
  <2>2. i \in 1 .. Len(line) /\ Len(line) \in Nat
    BY <2>1, LenProperties
  <2>3. ~StartsPath(line, i)
    BY <2>1, <2>2 DEF PathFree
  <2>4. {" ", "\"", "'", "(", "="} \subseteq BeforePath /\ Word \subseteq PathChar
    BY SanitizeAssumption DEF BeforePath, PathChar, PathEnd, White, Character, Glyph
  <2>5. i + 0 = i
    BY <2>2
  <2> QED
    BY <2>2, <2>3, <2>4, <2>5 DEF PathStarts, StartsPath
<1> QED
  BY <1>1, <1>2, TypeInit, TypeNext, PathNext, PTL DEF Spec

\* The texts without a home path.
HomelessTexts == {t \in Seq(Glyph) : Homeless(t)}

\* Once a line is stripped it has no home path in it, and keeps none.
HomeInv ==
    /\ pc \in {"stripped", "redacted"} => Homeless(text)
    /\ out \in Seq(HomelessTexts)

\* No step brings one back.
LEMMA HomeNext ==
    ASSUME PlainHome
    PROVE  TypeInv /\ HomeInv /\ [Next]_vars => HomeInv'
<1> SUFFICES ASSUME TypeInv, HomeInv, [Next]_vars PROVE HomeInv'
  OBVIOUS
<1>0. Homeless(text)' <=> Homeless(text')
  BY DEF Homeless
<1>1. text \in Seq(Glyph) /\ lines \in Seq(Seq(Glyph)) /\ out \in Seq(HomelessTexts)
      /\ (pc \in {"stripped", "redacted"} => Homeless(text))
  BY DEF TypeInv, HomeInv
<1>2. ASSUME NEW t \in HomelessTexts, out' = Append(out, t), pc' = "line" PROVE HomeInv'
  <2>1. out' \in Seq(HomelessTexts)
    BY <1>1, <1>2, AppendProperties
  <2> QED
    BY <1>2, <2>1 DEF HomeInv
<1>3. CASE Strip
  <2>1. Head(lines) \in Seq(Glyph)
    <3> DEFINE T == Seq(Glyph)
    <3>1. lines \in Seq(T) /\ lines # <<>>
      BY <1>1, <1>3 DEF Strip
    <3> HIDE DEF T
    <3>2. Head(lines) \in T
      BY <3>1, HeadTailProperties
    <3> QED
      BY <3>2 DEF T
  <2>2. Homeless(strip_identity(Head(lines)))
    BY <2>1, StripIdentity
  <2> QED
    BY <1>1, <1>3, <2>2 DEF Strip, HomeInv
<1>4. CASE KeepFrame
  BY <1>1, <1>2, <1>4 DEF KeepFrame, HomelessTexts
<1>5. CASE RedactText
  <2>1. Homeless(redact_free_text(text))
    BY <1>1, <1>5, RedactFreeText DEF RedactText
  <2> QED
    BY <1>1, <1>5, <2>1 DEF RedactText, HomeInv
<1>6. CASE Judge
  <2>1. text \in HomelessTexts /\ <<REDACTED>> \in HomelessTexts
    BY <1>1, <1>6, RedactedLine DEF Judge, HomelessTexts
  <2>2. pc' = "line" /\ \E t \in {text, <<REDACTED>>} : out' = Append(out, t)
    BY <1>6 DEF Judge
  <2> QED
    BY <1>2, <2>1, <2>2
<1>7. CASE Cap
  BY <1>1, <1>7 DEF Cap, HomeInv
<1>8. CASE UNCHANGED vars
  BY <1>8 DEF vars, HomeInv
<1> QED
  BY <1>3, <1>4, <1>5, <1>6, <1>7, <1>8 DEF Next

\* Of a home path without line breaks nothing is left, in either form, in whatever text it
\* stood and whatever was written around it: no mark that is written puts its ends together
\* again, and no two lines do when they are joined (sanitize.rs:225).
THEOREM HomePathGone == ASSUME PlainHome PROVE Spec => []NoHomePath
<1>1. Init => HomeInv
  BY EmptySeq DEF Init, HomeInv
<1>2. TypeInv /\ HomeInv => NoHomePath
  <2> SUFFICES ASSUME TypeInv, HomeInv, NEW form \in {Home, Slashed(Home)} PROVE ~Contains(Joined(out), form)
    BY DEF NoHomePath, Result
  <2>1. out \in Seq(HomelessTexts) /\ out \in Seq(Seq(Glyph))
    BY DEF TypeInv, HomeInv
  <2>2. \A k \in 1 .. Len(out) : out[k] \in HomelessTexts
    BY <2>1, ElementOfSeq
  <2>3. \A k \in 1 .. Len(out) : ~Contains(out[k], form)
    BY <2>2 DEF HomelessTexts, Homeless
  <2>4. form \in Seq(Glyph \ {"\n"})
    <3>1. form \in Seq(Glyph \ (Placeholder \cup {"\n"})) /\ Glyph \ (Placeholder \cup {"\n"}) \subseteq Glyph \ {"\n"}
      BY PlainForms
    <3> QED
      BY <3>1, SeqMonotonic
  <2> QED
    BY <2>1, <2>3, <2>4, JoinedIs
<1> QED
  BY <1>1, <1>2, TypeInit, TypeNext, HomeNext, PTL DEF Spec

Unmarked == {t \in Seq(Glyph) : Unredacted(t)}
ApartTexts == {t \in Seq(Glyph) : Apart(t)}

\* Before the redaction there is none, and after it two never touch.
ApartInv ==
    /\ lines \in Seq(Unmarked)
    /\ pc = "stripped" => Unredacted(text)
    /\ pc = "redacted" => Apart(text)
    /\ out \in Seq(ApartTexts)

\* The lines of a text without redactions have none.
LEMMA ApartInit == ASSUME FreshText PROVE Init => ApartInv
<1> SUFFICES ASSUME Init PROVE ApartInv
  OBVIOUS
<1>1. input \in Seq(Glyph) /\ Unredacted(input)
  <2>1. input \in Seq(Glyph) /\ REDACTED \notin Range(input)
    BY SanitizeAssumption DEF Init, FreshText
  <2>2. \A i \in 1 .. Len(input) : input[i] \in Range(input)
    BY <2>1, LenProperties DEF Range
  <2> QED
    BY <2>1, <2>2 DEF Unredacted
<1>2. lines \in Seq(Unmarked)
  <2>1. CASE kind = "field"
    <3>1. \A x \in Unmarked : <<x>> \in Seq(Unmarked)
      OBVIOUS
    <3>2. input \in Unmarked
      BY <1>1 DEF Unmarked
    <3> QED
      BY <2>1, <3>1, <3>2 DEF Init
  <2>2. CASE kind # "field"
    <3>1. Lines(input) \in Seq(NoNewRedaction(input))
      BY <1>1, LinesAre
    <3>2. NoNewRedaction(input) \subseteq Unmarked
      BY <1>1 DEF NoNewRedaction, Unmarked
    <3>3. Lines(input) \in Seq(Unmarked)
      BY <3>1, <3>2, SeqMonotonic
    <3> QED
      BY <2>2, <3>3, FirstLinesAre DEF Init
  <2> QED
    BY <2>1, <2>2
<1> QED
  BY <1>2, EmptySeq DEF Init, ApartInv

\* Only the redaction writes them, and collapses them.
LEMMA ApartNext == TypeInv /\ ApartInv /\ [Next]_vars => ApartInv'
<1> SUFFICES ASSUME TypeInv, ApartInv, [Next]_vars PROVE ApartInv'
  OBVIOUS
<1>1. text \in Seq(Glyph) /\ lines \in Seq(Unmarked) /\ out \in Seq(ApartTexts)
      /\ (pc = "stripped" => Unredacted(text)) /\ (pc = "redacted" => Apart(text))
  BY DEF TypeInv, ApartInv
<1>2. ASSUME NEW t \in ApartTexts, out' = Append(out, t), pc' = "line", lines' = lines PROVE ApartInv'
  <2>1. out' \in Seq(ApartTexts)
    BY <1>1, <1>2, AppendProperties
  <2> QED
    BY <1>1, <1>2, <2>1 DEF ApartInv
<1>3. CASE Strip
  <2>1. lines # <<>> /\ text' = strip_identity(Head(lines)) /\ lines' = Tail(lines) /\ pc' = "stripped" /\ out' = out
    BY <1>3 DEF Strip
  <2>2. Head(lines) \in Unmarked /\ lines' \in Seq(Unmarked)
    BY <1>1, <2>1, HeadTailProperties
  <2>3. Unredacted(text')
    BY <2>1, <2>2, StripIdentity DEF Unmarked, Marks
  <2> QED
    BY <1>1, <2>1, <2>2, <2>3 DEF ApartInv
<1>4. CASE KeepFrame
  <2>1. text \in ApartTexts
    BY <1>1, <1>4 DEF KeepFrame, ApartTexts, Apart, Unredacted
  <2> QED
    BY <1>2, <1>4, <2>1 DEF KeepFrame
<1>5. CASE RedactText
  <2>1. Apart(redact_free_text(text))
    BY <1>1, RedactFreeText
  <2> QED
    BY <1>1, <1>5, <2>1 DEF RedactText, ApartInv
<1>6. CASE Judge
  <2>1. text \in ApartTexts /\ <<REDACTED>> \in ApartTexts
    BY <1>1, <1>6, RedactedLine DEF Judge, ApartTexts
  <2>2. pc' = "line" /\ lines' = lines /\ \E t \in {text, <<REDACTED>>} : out' = Append(out, t)
    BY <1>6 DEF Judge
  <2> QED
    BY <1>2, <2>1, <2>2
<1>7. CASE Cap
  BY <1>1, <1>7 DEF Cap, ApartInv
<1>8. CASE UNCHANGED vars
  BY <1>8 DEF vars, ApartInv
<1> QED
  BY <1>3, <1>4, <1>5, <1>6, <1>7, <1>8 DEF Next

\* Of a text that comes without redactions it cannot be read off how many secrets stood side
\* by side: between two redactions of a line or a field there is something else to read,
\* whatever the text (redact.rs:18).
THEOREM RedactionsStayUncounted == ASSUME FreshText PROVE Spec => []RedactionsUncounted
<1>1. ApartInv => RedactionsUncounted
  <2> SUFFICES ASSUME ApartInv, NEW s \in Range(out), NEW i \in DOMAIN s, NEW j \in DOMAIN s,
                      i < j, s[i] = REDACTED, s[j] = REDACTED
               PROVE  \E k \in i .. j : s[k] \notin Joining \cup {REDACTED}
    BY DEF RedactionsUncounted
  <2>1. s \in Seq(Glyph) /\ Apart(s)
    BY InText DEF ApartInv, ApartTexts
  <2>2. i \in 1 .. Len(s) /\ j \in 1 .. Len(s)
    BY <2>1, LenProperties
  <2> QED
    BY <2>1, <2>2 DEF Apart, InCluster
<1> QED
  BY <1>1, ApartInit, TypeInit, TypeNext, ApartNext, PTL DEF Spec
=============================================================================
