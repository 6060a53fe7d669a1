-------------------------- MODULE DashboardProofs --------------------------
(***************************************************************************)
(* Proofs about Dashboard, for every output of go test: the results are    *)
(* those of its lines, the page is made of them, the axis of every chart   *)
(* holds its bars, and every label reads back as its number.               *)
(*                                                                         *)
(* The induction and recursion theorems of the library take an operator as *)
(* a parameter, which the provers cannot instantiate.  The first section   *)
(* derives what is needed, for sets and functions in its place, from the   *)
(* well-foundedness of strict inclusion among finite sets.                 *)
(***************************************************************************)
EXTENDS Dashboard, FiniteSetTheorems, SequenceTheorems, WellFoundedInduction, TLAPS

-----------------------------------------------------------------------------
(* Induction and recursion *)

\* A nonempty set of naturals has a least member.
LEMMA LeastNat == ASSUME NEW T \in SUBSET Nat, T # {} PROVE \E n \in T : \A m \in T : n <= m
<1> DEFINE UpTo(n) == 0 .. n
           D == {UpTo(n) : n \in T}
<1>1. D \subseteq FiniteSubsetsOf(Nat) /\ D # {}
  <2>1. \A n \in T : IsFiniteSet(UpTo(n)) /\ UpTo(n) \subseteq Nat
    BY FS_Interval
  <2> QED
    BY <2>1 DEF FiniteSubsetsOf
<1>2. PICK x \in D : \A y \in D : ~ (<<y, x>> \in StrictSubsetOrdering(Nat))
  <2> HIDE DEF D
  <2> QED
    BY <1>1, FS_StrictSubsetOrderingWellFounded, WFMin
<1>3. PICK n \in T : x = UpTo(n)
  OBVIOUS
<1>4. ASSUME NEW m \in T, m < n PROVE FALSE
  <2>1. UpTo(m) \in D /\ UpTo(m) \subseteq UpTo(n) /\ n \in UpTo(n) /\ n \notin UpTo(m)
    BY <1>4
  <2>2. UpTo(m) \in SUBSET Nat /\ UpTo(n) \in SUBSET Nat /\ UpTo(m) # UpTo(n)
    BY <2>1
  <2>3. ~ (<<UpTo(m), UpTo(n)>> \in StrictSubsetOrdering(Nat))
    BY <1>2, <1>3, <2>1
  <2> HIDE DEF UpTo
  <2> QED
    BY <2>1, <2>2, <2>3 DEF StrictSubsetOrdering
<1> QED
  BY <1>4

\* Induction, for a set instead of a predicate.
LEMMA Induction ==
  ASSUME NEW S, 0 \in S, \A n \in Nat : n \in S => n + 1 \in S
  PROVE  Nat \subseteq S
<1> SUFFICES ASSUME Nat \ S # {} PROVE FALSE
  OBVIOUS
<1>1. PICK n \in Nat \ S : \A m \in Nat \ S : n <= m
  BY LeastNat
<1>2. n # 0 /\ n - 1 \in Nat /\ n - 1 \in S
  BY <1>1
<1> QED
  BY <1>1, <1>2

\* A nonempty set of naturals with a bound has a greatest member.
LEMMA Greatest ==
  ASSUME NEW T \in SUBSET Nat, T # {}, NEW b \in Nat, \A n \in T : n <= b
  PROVE  Max(T) \in T /\ \A n \in T : n <= Max(T)
<1> DEFINE U == {n \in Nat : \A m \in T : m <= n}
<1>1. PICK n \in U : \A m \in U : n <= m
  <2>1. U \in SUBSET Nat /\ b \in U
    OBVIOUS
  <2> QED
    BY <2>1, LeastNat
<1>2. n \in T
  <2> SUFFICES ASSUME n \notin T PROVE FALSE
    OBVIOUS
  <2>1. \A m \in T : m \in Nat /\ m <= n /\ m # n
    BY <1>1
  <2>2. n \in Nat /\ n # 0
    <3>1. PICK m \in T : TRUE
      OBVIOUS
    <3>2. m \in Nat /\ m <= n /\ m # n /\ n \in Nat
      BY <2>1
    <3> QED
      BY <3>2
  <2>3. n - 1 \in Nat /\ \A m \in T : m <= n - 1
    BY <2>1, <2>2
  <2> QED
    BY <1>1, <2>3
<1>3. \A m \in T : n >= m
  BY <1>1
<1> HIDE DEF U
<1> QED
  BY <1>2, <1>3 DEF Max

\* A list of naturals has a bound.
LEMMA Bounded ==
  ASSUME NEW n \in Nat, NEW f, \A i \in 1 .. n : f[i] \in Nat
  PROVE  \E b \in Nat : \A i \in 1 .. n : f[i] <= b
<1> DEFINE B(k) == \E b \in Nat : \A i \in 1 .. k : f[i] <= b
           S == {k \in Nat : k <= n => B(k)}
<1>1. B(0)
  OBVIOUS
<1>2. ASSUME NEW k \in Nat, B(k), k + 1 <= n PROVE B(k + 1)
  <2>1. PICK b \in Nat : \A i \in 1 .. k : f[i] <= b
    BY <1>2
  <2>2. f[k + 1] \in Nat /\ \A i \in 1 .. k : f[i] \in Nat
    BY <1>2
  <2>3. \A i \in 1 .. k + 1 : i \in 1 .. k \/ i = k + 1
    BY <1>2
  <2>4. b + f[k + 1] \in Nat /\ \A i \in 1 .. k + 1 : f[i] <= b + f[k + 1]
    BY <2>1, <2>2, <2>3
  <2> QED
    BY <2>4
<1> HIDE DEF B
<1>3. 0 \in S /\ \A k \in Nat : k \in S => k + 1 \in S
  BY <1>1, <1>2
<1> HIDE DEF S
<1>4. n \in S
  BY <1>3, Induction
<1> QED
  BY <1>4 DEF S, B

\* A function on S with values in A is defined by its values on B and, elsewhere,
\* from its value at one member of S of lower rank.
Descends(S, A, B, base, pred, combine, rank) ==
  /\ \A x \in S : rank[x] \in Nat
  /\ \A x \in S \intersect B : base[x] \in A
  /\ \A x \in S \ B : pred[x] \in S /\ rank[pred[x]] < rank[x]
  /\ \A x \in S \ B : \A a \in A : combine[x][a] \in A

Solves(f, S, A, B, base, pred, combine) ==
  \A x \in S :
    /\ x \in B => f[x] = base[x]
    /\ x \notin B /\ f[pred[x]] \in A => f[x] = combine[x][f[pred[x]]]

LEMMA Recursion ==
  ASSUME NEW S, NEW A, NEW B, NEW base, NEW pred, NEW combine, NEW rank,
         Descends(S, A, B, base, pred, combine, rank)
  PROVE  \E f \in [S -> A] :
           /\ Solves(f, S, A, B, base, pred, combine)
           /\ \A g : Solves(g, S, A, B, base, pred, combine) => \A x \in S : g[x] = f[x]
<1> USE DEF Descends
<1> DEFINE Right(f, x) == f[x] = IF x \in B THEN base[x] ELSE combine[x][f[pred[x]]]
           Below(f, n) == \A x \in S : rank[x] < n => f[x] \in A /\ Right(f, x)
           N == {n \in Nat : \E f : Below(f, n)}
           Same == {n \in Nat : \A f, g : Below(f, n) /\ Below(g, n) =>
                                  \A x \in S : rank[x] < n => f[x] = g[x]}
<1>1. 0 \in N /\ 0 \in Same
  OBVIOUS
<1>2. ASSUME NEW n \in Nat, NEW f, Below(f, n)
      PROVE  \E g : Below(g, n + 1)
  <2> DEFINE g == [x \in S |-> IF rank[x] < n THEN f[x]
                               ELSE IF x \in B THEN base[x] ELSE combine[x][f[pred[x]]]]
  <2>1. ASSUME NEW x \in S, rank[x] < n PROVE g[x] = f[x] /\ g[x] \in A /\ Right(g, x)
    <3>1. g[x] = f[x] /\ f[x] \in A /\ Right(f, x)
      BY <1>2, <2>1
    <3>2. CASE x \in B
      BY <3>1, <3>2
    <3>3. CASE x \notin B
      <4>1. pred[x] \in S /\ rank[pred[x]] < n
        BY <2>1, <3>3
      <4>2. g[pred[x]] = f[pred[x]]
        BY <4>1
      <4> QED
        BY <3>1, <3>3, <4>2
    <3> QED
      BY <3>2, <3>3
  <2>2. ASSUME NEW x \in S, rank[x] = n PROVE g[x] \in A /\ Right(g, x)
    <3>1. CASE x \in B
      BY <2>2, <3>1
    <3>2. CASE x \notin B
      <4>1. pred[x] \in S /\ rank[pred[x]] < n
        BY <2>2, <3>2
      <4>2. g[pred[x]] = f[pred[x]] /\ f[pred[x]] \in A
        BY <1>2, <4>1
      <4>3. g[x] = combine[x][f[pred[x]]]
        BY <2>2, <3>2
      <4> QED
        BY <3>2, <4>2, <4>3
    <3> QED
      BY <3>1, <3>2
  <2>3. \A x \in S : rank[x] < n + 1 => rank[x] < n \/ rank[x] = n
    OBVIOUS
  <2> HIDE DEF g, Right
  <2>4. Below(g, n + 1)
    BY <2>1, <2>2, <2>3
  <2> HIDE DEF Below
  <2> QED
    BY <2>4
<1>3. ASSUME NEW n \in Nat, NEW f, NEW g, Below(f, n + 1), Below(g, n + 1),
             \A x \in S : rank[x] < n => f[x] = g[x],
             NEW x \in S, rank[x] < n + 1
      PROVE  f[x] = g[x]
  <2>1. Right(f, x) /\ Right(g, x)
    BY <1>3
  <2>2. CASE x \in B
    BY <2>1, <2>2
  <2>3. CASE x \notin B
    <3>1. f[pred[x]] = g[pred[x]]
      BY <1>3, <2>3
    <3> QED
      BY <2>1, <2>3, <3>1
  <2> QED
    BY <2>2, <2>3
<1>4. ASSUME NEW f, NEW n \in Nat, NEW m \in Nat, m <= n, Below(f, n) PROVE Below(f, m)
  BY <1>4
<1> HIDE DEF Right, Below
<1>5. \A n \in Nat : n \in N => n + 1 \in N
  BY <1>2
<1>6. \A n \in Nat : n \in Same => n + 1 \in Same
  <2> SUFFICES ASSUME NEW n \in Nat, n \in Same, NEW f, NEW g, Below(f, n + 1), Below(g, n + 1)
               PROVE  \A x \in S : rank[x] < n + 1 => f[x] = g[x]
    OBVIOUS
  <2>1. Below(f, n) /\ Below(g, n)
    BY <1>4
  <2>2. \A x \in S : rank[x] < n => f[x] = g[x]
    BY <2>1
  <2> HIDE DEF Same
  <2> QED
    BY <1>3, <2>2
<1> DEFINE Stage(n) == CHOOSE f : Below(f, n)
           h == [x \in S |-> Stage(rank[x] + 1)[x]]
<1>7. \A n \in Nat : Below(Stage(n), n) /\ n \in Same
  <2> HIDE DEF N, Same
  <2>1. \A n \in Nat : n \in N /\ n \in Same
    BY <1>1, <1>5, <1>6, Induction
  <2> QED
    BY <2>1 DEF N
<1> HIDE DEF Stage
<1>8. ASSUME NEW n \in Nat, NEW x \in S, rank[x] < n PROVE h[x] = Stage(n)[x]
  <2>1. rank[x] + 1 \in Nat /\ rank[x] + 1 <= n
    BY <1>8
  <2>2. Below(Stage(n), rank[x] + 1) /\ Below(Stage(rank[x] + 1), rank[x] + 1)
    BY <1>4, <1>7, <2>1
  <2>3. Stage(n)[x] = Stage(rank[x] + 1)[x]
    BY <1>7, <2>1, <2>2
  <2> QED
    BY <2>3
<1>9. ASSUME NEW x \in S PROVE h[x] \in A /\ Right(h, x)
  <2> DEFINE n == rank[x] + 1
             f == Stage(n)
  <2>1. n \in Nat /\ rank[x] < n
    OBVIOUS
  <2>2. f[x] \in A /\ Right(f, x)
    BY <1>7, <2>1 DEF Below
  <2>3. h[x] = f[x]
    OBVIOUS
  <2>4. x \notin B => h[pred[x]] = f[pred[x]]
    BY <1>8, <2>1
  <2> HIDE DEF h, f
  <2> QED
    BY <2>2, <2>3, <2>4 DEF Right
<1>10. h \in [S -> A]
  BY <1>9
<1> HIDE DEF h
<1>11. ASSUME NEW g, Solves(g, S, A, B, base, pred, combine), NEW y \in S PROVE g[y] = h[y]
  <2> DEFINE Equal == {n \in Nat : \A x \in S : rank[x] < n => g[x] = h[x]}
  <2>1. 0 \in Equal
    OBVIOUS
  <2>2. ASSUME NEW n \in Nat, n \in Equal PROVE n + 1 \in Equal
    <3>1. ASSUME NEW x \in S, rank[x] < n + 1 PROVE g[x] = h[x]
      <4>1. Right(h, x)
        BY <1>9
      <4>2. x \notin B => g[pred[x]] = h[pred[x]] /\ h[pred[x]] \in A
        BY <1>9, <2>2, <3>1
      <4> QED
        BY <1>11, <4>1, <4>2 DEF Right, Solves
    <3> QED
      BY <3>1
  <2> HIDE DEF Equal
  <2>3. rank[y] + 1 \in Equal
    BY <2>1, <2>2, Induction
  <2> QED
    BY <2>3 DEF Equal
<1>12. Solves(h, S, A, B, base, pred, combine)
  BY <1>9 DEF Right, Solves
<1> QED
  BY <1>10, <1>11, <1>12

-----------------------------------------------------------------------------
(* The axis *)

\* The greatest power of ten up to v.
IsMagnitude(v, p) ==
  /\ p \in Powers /\ p <= v /\ v < 10 * p
  /\ \A q \in Powers : q <= v => q <= p

LEMMA MagnitudeValue ==
  ASSUME NEW v \in Nat \ {0}, NEW p, IsMagnitude(v, p), NEW low \in BOOLEAN
  PROVE  Magnitude10(v, low) = IF low /\ p = v THEN p ELSE 10 * p
<1> DEFINE S == {q \in Powers : q <= v}
<1>1. p \in Nat \ {0} /\ p <= v /\ v < 10 * p /\ S \subseteq Nat
  BY AxisAssumption DEF IsMagnitude
<1>2. p \in S /\ \A y \in S : p >= y
  BY <1>1 DEF IsMagnitude
<1>3. Max(S) \in S /\ \A y \in S : Max(S) >= y
  BY <1>2 DEF Max
<1>4. Max(S) = p
  BY <1>1, <1>2, <1>3
<1> QED
  BY <1>4 DEF Magnitude10

LEMMA MagnitudeOfValue ==
  ASSUME NEW v \in Nat \ {0}, NEW p, IsMagnitude(v, p), NEW low \in BOOLEAN
  PROVE  /\ Magnitude10(v, low) \in Nat \ {0}
         /\ Magnitude10(v, low) <= 10 * v /\ 10 * v <= 10 * Magnitude10(v, low)
<1>1. p \in Nat \ {0} /\ p <= v /\ v < 10 * p
  BY AxisAssumption DEF IsMagnitude
<1> QED
  BY <1>1, MagnitudeValue

\* The residual is the least of 1, 2, 5 and 10 that reaches the value.
LEMMA ResidualOfValue ==
  ASSUME NEW v \in Nat \ {0}, NEW m \in Nat \ {0}, m <= 10 * v, 10 * v <= 10 * m
  PROVE  \/ NiceResidual(v, m) = 1 /\ m = 10 * v
         \/ NiceResidual(v, m) = 2 /\ m < 10 * v /\ 10 * v <= 2 * m
         \/ NiceResidual(v, m) = 5 /\ 2 * m < 10 * v /\ 10 * v <= 5 * m
         \/ NiceResidual(v, m) = 10 /\ 5 * m < 10 * v /\ 10 * v <= 10 * m
<1> DEFINE S == {n \in {1, 2, 5} : 10 * v <= n * m} \union {10}
           n == NiceResidual(v, m)
<1>1. ASSUME NEW k \in S, \A y \in S : k <= y PROVE n = k
  <2>1. S \subseteq Nat
    OBVIOUS
  <2>2. Min(S) \in S /\ \A y \in S : Min(S) <= y
    BY <1>1 DEF Min
  <2> QED
    BY <1>1, <2>1, <2>2 DEF NiceResidual
<1>2. CASE 10 * v <= m
  <2>1. 1 \in S /\ \A y \in S : 1 <= y
    BY <1>2
  <2> QED
    BY <1>1, <1>2, <2>1
<1>3. CASE m < 10 * v /\ 10 * v <= 2 * m
  <2>1. 2 \in S /\ \A y \in S : 2 <= y
    BY <1>3
  <2> QED
    BY <1>1, <1>3, <2>1
<1>4. CASE 2 * m < 10 * v /\ 10 * v <= 5 * m
  <2>1. 5 \in S /\ \A y \in S : 5 <= y
    BY <1>4
  <2> QED
    BY <1>1, <1>4, <2>1
<1>5. CASE 5 * m < 10 * v
  <2>1. 10 \in S /\ \A y \in S : 10 <= y
    BY <1>5
  <2> QED
    BY <1>1, <1>5, <2>1
<1> QED
  BY <1>2, <1>3, <1>4, <1>5

\* Ceil of x / s, which is g.
LEMMA Ceiling ==
  ASSUME NEW x \in Nat, NEW s \in Nat \ {0}, NEW k \in Nat, x <= k * s
  PROVE  /\ (x + s - 1) \div s \in Nat
         /\ (x + s - 1) \div s <= k
         /\ x <= s * ((x + s - 1) \div s)
         /\ \A j \in Nat : j * s < x => j < (x + s - 1) \div s
<1> DEFINE y == x + s - 1
           g == y \div s
<1>1. y \in Nat /\ g \in Nat
  OBVIOUS
<1>2. y = s * g + (y % s) /\ y % s \in 0 .. s - 1
  BY <1>1
<1>3. x <= s * g
  BY <1>1, <1>2
<1>4. s * g < x + s
  BY <1>1, <1>2
<1>5. ASSUME NEW j \in Nat, j >= g PROVE s * j >= s * g
  BY <1>1, <1>5
<1>6. ASSUME NEW j \in Nat, j * s < x PROVE j < g
  BY <1>1, <1>3, <1>5, <1>6
<1>7. g <= k
  <2> SUFFICES ASSUME g >= k + 1 PROVE FALSE
    BY <1>1
  <2>1. s * g >= s * (k + 1)
    BY <1>1
  <2>2. s * (k + 1) = k * s + s
    OBVIOUS
  <2> QED
    BY <1>1, <1>4, <2>1, <2>2
<1> QED
  BY <1>1, <1>3, <1>6, <1>7

LEMMA StepType ==
  ASSUME NEW v \in Nat \ {0}, NEW p, IsMagnitude(v, p), NEW low \in BOOLEAN
  PROVE  NiceStep(v, low) \in Nat
<1> DEFINE m == Magnitude10(v, low)
           n == NiceResidual(v, m)
<1>1. m \in Nat \ {0} /\ m <= 10 * v /\ 10 * v <= 10 * m
  BY MagnitudeOfValue
<1>2. n \in {1, 2, 5, 10}
  BY <1>1, ResidualOfValue
<1>3. NiceStep(v, low) = n * m
  BY DEF NiceStep
<1> HIDE DEF m, n
<1> QED
  BY <1>1, <1>2, <1>3

\* The axis of a chart whose largest value is v ends at or above v, and two to
\* four gridlines divide it ("roughly 4", render.go:304), whichever way Log10 of
\* a power of ten is rounded.
THEOREM AxisHoldsValue ==
  ASSUME NEW v \in Nat \ {0}, NEW p, IsMagnitude(v, p), NEW low \in BOOLEAN
  PROVE  LET step == NiceStep(v, low)
         IN  Fine * v <= Top(v, step) /\ Gridlines(v, step) \in 2 .. 4
<1> DEFINE m == Magnitude10(v, low)
           n == NiceResidual(v, m)
           s == n * m
<1>1. m \in Nat \ {0} /\ m <= 10 * v /\ 10 * v <= 10 * m
  BY MagnitudeOfValue
<1>2. \/ n = 1 /\ m = 10 * v
      \/ n = 2 /\ m < 10 * v /\ 10 * v <= 2 * m
      \/ n = 5 /\ 2 * m < 10 * v /\ 10 * v <= 5 * m
      \/ n = 10 /\ 5 * m < 10 * v /\ 10 * v <= 10 * m
  BY <1>1, ResidualOfValue
<1> HIDE DEF m, n
<1>3. s \in Nat \ {0} /\ 1 * s < 40 * v /\ 40 * v <= 4 * s
  BY <1>1, <1>2
<1>4. NiceStep(v, low) = s
  BY DEF NiceStep, m, n
<1>5. Gridlines(v, s) = (40 * v + s - 1) \div s
  BY DEF Gridlines, Fine
<1> HIDE DEF s
<1>6. /\ Gridlines(v, s) \in Nat /\ Gridlines(v, s) <= 4 /\ 1 < Gridlines(v, s)
      /\ 40 * v <= s * Gridlines(v, s)
  <2> DEFINE x == 40 * v
  <2>1. x \in Nat /\ s \in Nat \ {0} /\ 4 \in Nat /\ x <= 4 * s
    BY <1>3
  <2> HIDE DEF x
  <2>2. /\ (x + s - 1) \div s \in Nat /\ (x + s - 1) \div s <= 4
        /\ x <= s * ((x + s - 1) \div s)
        /\ 1 * s < x => 1 < (x + s - 1) \div s
    BY <2>1, Ceiling
  <2> QED
    BY <1>3, <1>5, <2>2 DEF x
<1> QED
  BY <1>4, <1>6 DEF Top, Fine

-----------------------------------------------------------------------------
(* Digits *)

LEMMA FormatIntDef ==
  ASSUME NEW n \in Nat
  PROVE  /\ FormatInt[n] \in Seq(Digits)
         /\ FormatInt[n] = IF n < 10 THEN <<n>> ELSE Append(FormatInt[n \div 10], n % 10)
<1> DEFINE A == Seq(Digits)
           base == [k \in Digits |-> <<k>>]
           pred == [k \in Nat |-> k \div 10]
           rank == [k \in Nat |-> k]
           combine == [k \in Nat |-> [s \in A |-> Append(s, k % 10)]]
<1>1. \A k \in Nat : k \notin Digits => k \div 10 \in Nat /\ k \div 10 < k
  BY DEF Digits
<1>2. \A k \in Nat : k % 10 \in Digits
  BY DEF Digits
<1>3. Descends(Nat, A, Digits, base, pred, combine, rank)
  BY <1>1, <1>2 DEF Descends
<1>4. PICK f \in [Nat -> A] :
        /\ Solves(f, Nat, A, Digits, base, pred, combine)
        /\ \A g : Solves(g, Nat, A, Digits, base, pred, combine) => \A k \in Nat : g[k] = f[k]
  <2> HIDE DEF A, base, pred, rank, combine
  <2> QED
    BY <1>3, Recursion
<1>5. ASSUME NEW k \in Nat
      PROVE  /\ k < 10 => k \in Digits /\ base[k] = <<k>>
             /\ ~(k < 10) => k \notin Digits /\ pred[k] = k \div 10 /\ k \div 10 \in Nat
             /\ \A s \in A : combine[k][s] = Append(s, k % 10)
  <2>1. k < 10 => k \in Digits
    BY DEF Digits
  <2>2. ~(k < 10) => k \notin Digits
    BY DEF Digits
  <2>3. k \in Digits => base[k] = <<k>>
    OBVIOUS
  <2>4. pred[k] = k \div 10 /\ k \div 10 \in Nat
    OBVIOUS
  <2>5. \A s \in A : combine[k][s] = Append(s, k % 10)
    <3> HIDE DEF A
    <3>1. combine[k] = [s \in A |-> Append(s, k % 10)]
      OBVIOUS
    <3> QED
      BY <3>1
  <2> HIDE DEF A, base, pred, combine
  <2> QED
    BY <2>1, <2>2, <2>3, <2>4, <2>5
<1> HIDE DEF A, base, pred, rank, combine
<1>6. ASSUME NEW k \in Nat PROVE f[k] = IF k < 10 THEN <<k>> ELSE Append(f[k \div 10], k % 10)
  <2>1. /\ k \in Digits => f[k] = base[k]
        /\ k \notin Digits /\ f[pred[k]] \in A => f[k] = combine[k][f[pred[k]]]
    BY <1>4 DEF Solves
  <2>2. CASE k < 10
    BY <1>5, <2>1, <2>2
  <2>3. CASE ~(k < 10)
    <3>1. k \notin Digits /\ pred[k] = k \div 10 /\ k \div 10 \in Nat
      BY <1>5, <2>3
    <3>2. f[k \div 10] \in A
      BY <3>1
    <3>3. f[k] = combine[k][f[k \div 10]]
      BY <2>1, <3>1, <3>2
    <3>4. f[k] = Append(f[k \div 10], k % 10)
      BY <1>5, <3>2, <3>3
    <3> QED
      BY <2>3, <3>4
  <2> QED
    BY <2>2, <2>3
<1>8. ASSUME NEW g, \A k \in Nat : g[k] = IF k < 10 THEN <<k>> ELSE Append(g[k \div 10], k % 10)
      PROVE  \A k \in Nat : g[k] = f[k]
  <2>1. ASSUME NEW k \in Nat, k \in Digits PROVE g[k] = base[k]
    <3>1. k < 10 /\ base[k] = <<k>>
      BY <1>5, <2>1
    <3> QED
      BY <1>8, <3>1
  <2>2. ASSUME NEW k \in Nat, k \notin Digits, g[pred[k]] \in A
        PROVE  g[k] = combine[k][g[pred[k]]]
    <3>1. pred[k] = k \div 10 /\ ~(k < 10)
      BY <1>5, <2>2
    <3>2. g[k] = Append(g[k \div 10], k % 10)
      BY <1>8, <3>1
    <3>3. combine[k][g[pred[k]]] = Append(g[pred[k]], k % 10)
      BY <1>5, <2>2
    <3> QED
      BY <3>1, <3>2, <3>3
  <2>3. Solves(g, Nat, A, Digits, base, pred, combine)
    BY <2>1, <2>2 DEF Solves
  <2> QED
    BY <1>4, <2>3
<1>7. FormatInt = [k \in Nat |-> IF k < 10 THEN <<k>> ELSE Append(FormatInt[k \div 10], k % 10)]
  <2>1. f = [k \in Nat |-> IF k < 10 THEN <<k>> ELSE Append(f[k \div 10], k % 10)]
    BY <1>6
  <2> QED
    BY <2>1 DEF FormatInt
<1> QED
  BY <1>6, <1>7, <1>8 DEF A

\* parts of CommaParts, which calls itself on all but the last three digits.
Parts ==
  CHOOSE p : p = [s \in Seq(Digits) |->
    IF Len(s) <= 3 THEN <<s>>
    ELSE Append(p[SubSeq(s, 1, Len(s) - 3)], SubSeq(s, Len(s) - 2, Len(s)))]

LEMMA CommaPartsIsParts == \A s : CommaParts(s) = Parts[s]
BY DEF CommaParts, Parts

LEMMA LastThree ==
  ASSUME NEW s \in Seq(Digits), Len(s) > 3
  PROVE  LET t == SubSeq(s, 1, Len(s) - 3)
             u == SubSeq(s, Len(s) - 2, Len(s))
         IN  /\ t \in Seq(Digits) /\ Len(t) = Len(s) - 3
             /\ u \in Seq(Digits) /\ Len(u) = 3
             /\ t \o u = s
<1> DEFINE n == Len(s)
<1>1. n \in Nat /\ n > 3 /\ \A i \in 1 .. n : s[i] \in Digits
  OBVIOUS
<1>2. SubSeq(s, 1, n - 3) \in Seq(Digits) /\ Len(SubSeq(s, 1, n - 3)) = n - 3
  BY <1>1, SubSeqProperties
<1>3. SubSeq(s, n - 2, n) \in Seq(Digits) /\ Len(SubSeq(s, n - 2, n)) = 3
  BY <1>1, SubSeqProperties
<1>4. SubSeq(s, 1, n - 3) \o SubSeq(s, (n - 3) + 1, n) = SubSeq(s, 1, n)
  <2>1. 1 \in 1 .. Len(s) + 1 /\ n - 3 \in 1 - 1 .. Len(s) /\ n \in n - 3 .. Len(s)
    BY <1>1
  <2> QED
    BY <2>1, ConcatAdjacentSubSeq
<1>5. SubSeq(s, 1, n) = s /\ (n - 3) + 1 = n - 2
  BY <1>1, SubSeqFull
<1> QED
  BY <1>2, <1>3, <1>4, <1>5

LEMMA PartsDef ==
  ASSUME NEW s \in Seq(Digits)
  PROVE  /\ Parts[s] \in Seq(Seq(Digits))
         /\ Parts[s] = IF Len(s) <= 3 THEN <<s>>
                       ELSE Append(Parts[SubSeq(s, 1, Len(s) - 3)], SubSeq(s, Len(s) - 2, Len(s)))
<1> DEFINE S == Seq(Digits)
           A == Seq(S)
           B == {t \in S : Len(t) <= 3}
           But3(t) == SubSeq(t, 1, Len(t) - 3)
           Three(t) == SubSeq(t, Len(t) - 2, Len(t))
           base == [t \in S |-> <<t>>]
           pred == [t \in S |-> But3(t)]
           rank == [t \in S |-> Len(t)]
           combine == [t \in S |-> [p \in A |-> Append(p, Three(t))]]
<1>1. ASSUME NEW t \in S, t \notin B
      PROVE  But3(t) \in S /\ Len(But3(t)) < Len(t) /\ Three(t) \in S
  <2>1. Len(t) > 3 /\ Len(t) \in Nat
    BY <1>1
  <2> QED
    BY <2>1, LastThree
<1>2. \A t \in S : base[t] = <<t>> /\ pred[t] = But3(t) /\ rank[t] = Len(t) /\ Len(t) \in Nat
  OBVIOUS
<1>3. ASSUME NEW t \in S, NEW p \in A PROVE combine[t][p] = Append(p, Three(t))
  <2> HIDE DEF A, S
  <2>1. combine[t] = [q \in A |-> Append(q, Three(t))]
    OBVIOUS
  <2> QED
    BY <2>1
<1>4. \A t \in S : (t \in B) = (Len(t) <= 3)
  OBVIOUS
<1>5. \A t \in S : <<t>> \in A /\ \A p \in A : \A u \in S : Append(p, u) \in A
  OBVIOUS
<1> HIDE DEF S, A, B, But3, Three, base, pred, rank, combine
<1>6. Descends(S, A, B, base, pred, combine, rank)
  <2>1. \A t \in S : rank[t] \in Nat /\ base[t] \in A
    BY <1>2, <1>5
  <2>2. \A t \in S \ B : pred[t] \in S /\ rank[pred[t]] < rank[t]
    BY <1>1, <1>2
  <2>3. \A t \in S \ B : \A p \in A : combine[t][p] \in A
    BY <1>1, <1>3, <1>5
  <2> QED
    BY <2>1, <2>2, <2>3 DEF Descends
<1>7. PICK f \in [S -> A] :
        /\ Solves(f, S, A, B, base, pred, combine)
        /\ \A g : Solves(g, S, A, B, base, pred, combine) => \A t \in S : g[t] = f[t]
  BY <1>6, Recursion
<1> DEFINE Right(g) == g = [t \in S |-> IF Len(t) <= 3 THEN <<t>> ELSE Append(g[But3(t)], Three(t))]
<1>8. Right(f)
  <2>1. ASSUME NEW t \in S, t \in B PROVE f[t] = <<t>>
    BY <1>2, <1>7, <2>1 DEF Solves
  <2>2. ASSUME NEW t \in S, t \notin B PROVE f[t] = Append(f[But3(t)], Three(t))
    <3>1. pred[t] = But3(t) /\ f[But3(t)] \in A
      BY <1>1, <1>2, <2>2
    <3>2. f[t] = combine[t][f[But3(t)]]
      BY <1>7, <2>2, <3>1 DEF Solves
    <3> QED
      BY <1>3, <3>1, <3>2
  <2> QED
    BY <1>4, <2>1, <2>2
<1>9. Right(Parts)
  <2>1. Parts = CHOOSE g : Right(g)
    BY DEF Parts, S, But3, Three
  <2> HIDE DEF Right
  <2> QED
    BY <1>8, <2>1
<1>10. \A t \in S : Parts[t] = IF Len(t) <= 3 THEN <<t>> ELSE Append(Parts[But3(t)], Three(t))
  BY <1>9
<1> HIDE DEF Right
<1>11. Solves(Parts, S, A, B, base, pred, combine)
  <2>1. ASSUME NEW t \in S, t \in B PROVE Parts[t] = base[t]
    <3>1. Parts[t] = <<t>> /\ base[t] = <<t>>
      BY <1>2, <1>4, <1>10, <2>1
    <3> QED
      BY <3>1
  <2>2. ASSUME NEW t \in S, t \notin B, Parts[pred[t]] \in A
        PROVE  Parts[t] = combine[t][Parts[pred[t]]]
    <3>1. Parts[t] = Append(Parts[But3(t)], Three(t)) /\ pred[t] = But3(t)
      BY <1>2, <1>4, <1>10, <2>2
    <3> QED
      BY <1>3, <2>2, <3>1
  <2> QED
    BY <2>1, <2>2 DEF Solves
<1>12. s \in S /\ Parts[s] \in A
  <2>1. s \in S
    BY DEF S
  <2> QED
    BY <1>7, <1>11, <2>1
<1> QED
  BY <1>10, <1>12 DEF S, A, But3, Three

\* flatten of FlattenSeq.
Flattens(f, s) ==
  /\ FlattenSeq(s) = f[Len(s)]
  /\ f[1] = s[1]
  /\ \A i \in 2 .. Len(s) : f[i] = f[i - 1] \o s[i]

LEMMA FlattenDef ==
  ASSUME NEW D, NEW s \in Seq(Seq(D)), Len(s) > 0
  PROVE  \E f \in [1 .. Len(s) -> Seq(D)] : Flattens(f, s)
<1> DEFINE S == 1 .. Len(s)
           A == Seq(D)
           pred == [i \in S |-> i - 1]
           rank == [i \in S |-> i]
           combine == [i \in S |-> [a \in A |-> a \o s[i]]]
<1>1. \A i \in S : s[i] \in A /\ i \in Nat /\ (i \notin {1} => i - 1 \in S /\ i - 1 < i)
  OBVIOUS
<1>2. \A i \in S : pred[i] = i - 1 /\ rank[i] = i
  OBVIOUS
<1>3. ASSUME NEW i \in S, NEW a \in A PROVE combine[i][a] = a \o s[i]
  <2> HIDE DEF A, S
  <2>1. combine[i] = [b \in A |-> b \o s[i]]
    OBVIOUS
  <2> QED
    BY <2>1
<1>4. \A i \in S : \A a \in A : a \o s[i] \in A
  BY <1>1
<1>5. 1 \in S
  OBVIOUS
<1> HIDE DEF S, A, pred, rank, combine
<1>6. Descends(S, A, {1}, s, pred, combine, rank)
  <2>1. \A i \in S : rank[i] \in Nat /\ s[i] \in A
    BY <1>1, <1>2
  <2>2. \A i \in S \ {1} : pred[i] \in S /\ rank[pred[i]] < rank[i]
    BY <1>1, <1>2
  <2>3. \A i \in S \ {1} : \A a \in A : combine[i][a] \in A
    BY <1>3, <1>4
  <2> QED
    BY <2>1, <2>2, <2>3 DEF Descends
<1>7. PICK f \in [S -> A] :
        /\ Solves(f, S, A, {1}, s, pred, combine)
        /\ \A g : Solves(g, S, A, {1}, s, pred, combine) => \A i \in S : g[i] = f[i]
  BY <1>6, Recursion
<1> DEFINE Right(g) == g = [i \in S |-> IF i = 1 THEN s[i] ELSE g[i - 1] \o s[i]]
<1>8. Right(f)
  <2>1. f[1] = s[1]
    BY <1>5, <1>7 DEF Solves
  <2>2. ASSUME NEW i \in S, i # 1 PROVE f[i] = f[i - 1] \o s[i]
    <3>1. pred[i] = i - 1 /\ f[i - 1] \in A
      BY <1>1, <1>2, <2>2
    <3>2. f[i] = combine[i][f[i - 1]]
      BY <1>7, <2>2, <3>1 DEF Solves
    <3> QED
      BY <1>3, <3>1, <3>2
  <2> QED
    BY <2>1, <2>2
<1> DEFINE h == CHOOSE g : Right(g)
<1>9. FlattenSeq(s) = h[Len(s)]
  BY DEF FlattenSeq, S
<1>10. Right(h)
  <2> HIDE DEF Right
  <2> QED
    BY <1>8
<1> HIDE DEF h
<1>11. \A i \in S : h[i] = IF i = 1 THEN s[i] ELSE h[i - 1] \o s[i]
  BY <1>10
<1>12. Solves(h, S, A, {1}, s, pred, combine)
  <2>1. ASSUME NEW i \in S, i # 1, h[pred[i]] \in A
        PROVE  h[i] = combine[i][h[pred[i]]]
    <3>1. h[i] = h[i - 1] \o s[i] /\ pred[i] = i - 1
      BY <1>2, <1>11, <2>1
    <3> QED
      BY <1>3, <2>1, <3>1
  <2>2. h[1] = s[1]
    BY <1>5, <1>11
  <2> QED
    BY <2>1, <2>2 DEF Solves
<1>13. h \in [S -> A]
  <2>1. h = [i \in S |-> IF i = 1 THEN s[i] ELSE h[i - 1] \o s[i]]
    BY <1>10
  <2>2. \A i \in S : h[i] \in A
    BY <1>7, <1>12
  <2> HIDE DEF Right
  <2> QED
    BY <2>1, <2>2
<1>14. h[1] = s[1] /\ \A i \in 2 .. Len(s) : h[i] = h[i - 1] \o s[i]
  <2>1. \A i \in 2 .. Len(s) : i \in S /\ i # 1
    BY DEF S
  <2> QED
    BY <1>5, <1>11, <2>1
<1> QED
  BY <1>9, <1>13, <1>14 DEF S, A, Flattens

LEMMA FlattenOne ==
  ASSUME NEW D, NEW a \in Seq(D)
  PROVE  FlattenSeq(<<a>>) = a
<1>1. <<a>> \in Seq(Seq(D)) /\ Len(<<a>>) = 1 /\ <<a>>[1] = a
  OBVIOUS
<1>2. PICK f \in [1 .. Len(<<a>>) -> Seq(D)] : Flattens(f, <<a>>)
  <2>1. Len(<<a>>) > 0
    BY <1>1
  <2> QED
    BY <1>1, <2>1, FlattenDef
<1> QED
  BY <1>1, <1>2 DEF Flattens

LEMMA FlattenAppend ==
  ASSUME NEW D, NEW s \in Seq(Seq(D)), Len(s) > 0, NEW a \in Seq(D)
  PROVE  FlattenSeq(Append(s, a)) = FlattenSeq(s) \o a
<1> DEFINE n == Len(s)
           t == Append(s, a)
<1>1. /\ n \in Nat /\ n > 0
      /\ t \in Seq(Seq(D)) /\ Len(t) = n + 1 /\ t[n + 1] = a
      /\ \A i \in 1 .. n : t[i] = s[i]
  BY AppendProperties
<1> HIDE DEF n, t
<1>2. PICK f \in [1 .. Len(s) -> Seq(D)] : Flattens(f, s)
  BY FlattenDef
<1>3. PICK g \in [1 .. Len(t) -> Seq(D)] : Flattens(g, t)
  <2>1. Len(t) > 0
    BY <1>1
  <2> QED
    BY <1>1, <2>1, FlattenDef
<1>0. /\ FlattenSeq(s) = f[n] /\ f[1] = s[1] /\ \A i \in 2 .. n : f[i] = f[i - 1] \o s[i]
      /\ FlattenSeq(t) = g[n + 1] /\ g[1] = t[1] /\ \A i \in 2 .. n + 1 : g[i] = g[i - 1] \o t[i]
  BY <1>1, <1>2, <1>3 DEF Flattens, n
<1> DEFINE Same == {i \in Nat : i \in 1 .. n => g[i] = f[i]}
<1>4. 0 \in Same
  OBVIOUS
<1>5. ASSUME NEW i \in Nat, i \in Same PROVE i + 1 \in Same
  <2>1. CASE i = 0
    <3>1. g[1] = f[1]
      BY <1>0, <1>1
    <3> QED
      BY <2>1, <3>1
  <2>2. CASE i # 0 /\ i + 1 <= n
    <3>1. i \in 1 .. n /\ i + 1 \in 2 .. n /\ i + 1 \in 2 .. n + 1 /\ (i + 1) - 1 = i
      BY <1>1, <2>2
    <3>2. g[i] = f[i] /\ t[i + 1] = s[i + 1]
      BY <1>1, <1>5, <3>1
    <3>3. f[i + 1] = f[i] \o s[i + 1]
      BY <1>0, <3>1
    <3>4. g[i + 1] = g[i] \o t[i + 1]
      BY <1>0, <3>1
    <3>5. g[i + 1] = f[i + 1]
      BY <3>2, <3>3, <3>4
    <3> QED
      BY <3>5
  <2>3. CASE ~(i + 1 <= n)
    BY <1>1, <2>3
  <2> QED
    BY <2>1, <2>2, <2>3
<1> HIDE DEF Same
<1>6. n \in Same
  BY <1>1, <1>4, <1>5, Induction
<1>7. g[n] = f[n]
  BY <1>1, <1>6 DEF Same
<1>8. g[n + 1] = g[n] \o t[n + 1]
  <2>1. n + 1 \in 2 .. n + 1 /\ (n + 1) - 1 = n
    BY <1>1
  <2> QED
    BY <1>0, <2>1
<1>9. FlattenSeq(t) = f[n] \o a
  BY <1>0, <1>1, <1>7, <1>8
<1> QED
  BY <1>0, <1>9 DEF t

ReadsBack(parts, digits) ==
  /\ FlattenSeq(parts) = digits
  /\ Len(parts[1]) \in 1 .. 3
  /\ \A i \in 2 .. Len(parts) : Len(parts[i]) = 3

\* Grouped by threes, a number reads back, and no group is empty.
LEMMA CommaPartsReadBack ==
  ASSUME NEW digits \in Seq(Digits), Len(digits) > 0
  PROVE  ReadsBack(CommaParts(digits), digits)
<1> DEFINE Good(s) == Parts[s] \in Seq(Seq(Digits)) /\ Len(Parts[s]) > 0 /\ ReadsBack(Parts[s], s)
           N == {n \in Nat : \A s \in Seq(Digits) : Len(s) > 0 /\ Len(s) <= n => Good(s)}
<1>1. ASSUME NEW s \in Seq(Digits), Len(s) > 0, Len(s) <= 3 PROVE Good(s)
  <2>1. Parts[s] = <<s>>
    BY <1>1, PartsDef
  <2>2. FlattenSeq(<<s>>) = s
    BY FlattenOne
  <2>3. <<s>> \in Seq(Seq(Digits)) /\ Len(<<s>>) = 1 /\ <<s>>[1] = s
    OBVIOUS
  <2>4. Len(s) \in 1 .. 3
    <3>1. \A n \in Nat : n > 0 /\ n <= 3 => n \in 1 .. 3
      OBVIOUS
    <3>2. Len(s) \in Nat
      BY LenProperties
    <3> QED
      BY <1>1, <3>1, <3>2
  <2> DEFINE p == <<s>>
  <2>5. p \in Seq(Seq(Digits)) /\ Len(p) = 1 /\ p[1] = s /\ FlattenSeq(p) = s /\ Parts[s] = p
    BY <2>1, <2>2, <2>3
  <2> HIDE DEF p
  <2>6. Len(p[1]) \in 1 .. 3
    BY <2>4, <2>5
  <2>7. \A i \in 2 .. Len(p) : FALSE
    BY <2>5
  <2>8. ReadsBack(p, s)
    BY <2>5, <2>6, <2>7 DEF ReadsBack
  <2>9. Len(p) > 0
    BY <2>5
  <2> QED
    BY <2>5, <2>8, <2>9
<1>2. ASSUME NEW s \in Seq(Digits), Len(s) > 3, Good(SubSeq(s, 1, Len(s) - 3)) PROVE Good(s)
  <2> DEFINE t == SubSeq(s, 1, Len(s) - 3)
             u == SubSeq(s, Len(s) - 2, Len(s))
             p == Parts[t]
  <2>1. Parts[s] = Append(p, u) /\ u \in Seq(Digits) /\ Len(u) = 3 /\ t \o u = s
    <3>1. ~(Len(s) <= 3)
      BY <1>2
    <3> QED
      BY <1>2, <3>1, PartsDef, LastThree
  <2>2. p \in Seq(Seq(Digits)) /\ Len(p) > 0 /\ ReadsBack(p, t)
    BY <1>2
  <2> HIDE DEF t, u, p
  <2>3. FlattenSeq(Append(p, u)) = t \o u
    BY <2>1, <2>2, FlattenAppend DEF ReadsBack
  <2>4. /\ Append(p, u) \in Seq(Seq(Digits)) /\ Len(Append(p, u)) = Len(p) + 1
        /\ \A i \in 1 .. Len(p) : Append(p, u)[i] = p[i]
        /\ Append(p, u)[Len(p) + 1] = u
    BY <2>1, <2>2, AppendProperties
  <2>5. Len(p) \in Nat
    BY <2>2
  <2>6. \A i \in 2 .. Len(p) + 1 : Len(Append(p, u)[i]) = 3
    BY <2>1, <2>2, <2>4, <2>5 DEF ReadsBack
  <2>7. Len(Append(p, u)[1]) \in 1 .. 3
    BY <2>2, <2>4, <2>5 DEF ReadsBack
  <2> QED
    BY <2>1, <2>3, <2>4, <2>5, <2>6, <2>7, <2>2 DEF ReadsBack
<1> HIDE DEF Good
<1>3. 0 \in N
  OBVIOUS
<1>4. ASSUME NEW n \in Nat, n \in N PROVE n + 1 \in N
  <2> SUFFICES ASSUME NEW s \in Seq(Digits), Len(s) > 0, Len(s) <= n + 1 PROVE Good(s)
    OBVIOUS
  <2>1. CASE Len(s) <= 3
    BY <1>1, <2>1
  <2>2. CASE Len(s) > 3
    <3> DEFINE t == SubSeq(s, 1, Len(s) - 3)
    <3>1. t \in Seq(Digits) /\ Len(t) = Len(s) - 3 /\ Len(s) \in Nat
      BY <2>2, LastThree
    <3> HIDE DEF t
    <3>3. Len(t) > 0 /\ Len(t) <= n
      BY <2>2, <3>1
    <3>4. Good(t)
      BY <1>4, <3>1, <3>3
    <3>2. Good(SubSeq(s, 1, Len(s) - 3))
      BY <3>4 DEF t
    <3> QED
      BY <1>2, <2>2, <3>2
  <2>3. Len(s) \in Nat
    OBVIOUS
  <2> QED
    BY <2>1, <2>2, <2>3
<1> HIDE DEF N
<1>5. Len(digits) \in N
  <2>1. Len(digits) \in Nat
    OBVIOUS
  <2> QED
    BY <1>3, <1>4, <2>1, Induction
<1>6. Good(digits)
  BY <1>5 DEF N
<1> QED
  BY <1>6, CommaPartsIsParts DEF Good

\* The label of a bar.
LEMMA LabelReadsBack ==
  ASSUME NEW x \in Nat
  PROVE  ReadsBack(Label(x), FormatInt[Rounded(x)])
<1>1. Rounded(x) \in Nat
  BY AxisAssumption DEF Rounded, Fine
<1>2. ASSUME NEW n \in Nat PROVE FormatInt[n] \in Seq(Digits) /\ Len(FormatInt[n]) > 0
  <2>1. FormatInt[n] \in Seq(Digits)
    BY FormatIntDef
  <2>2. CASE n < 10
    <3>1. FormatInt[n] = <<n>>
      BY <2>2, FormatIntDef
    <3> QED
      BY <2>1, <3>1
  <2>3. CASE ~(n < 10)
    <3>1. n \div 10 \in Nat /\ n % 10 \in Digits
      BY DEF Digits
    <3>2. /\ FormatInt[n \div 10] \in Seq(Digits)
          /\ FormatInt[n] = Append(FormatInt[n \div 10], n % 10)
      BY <2>3, <3>1, FormatIntDef
    <3> QED
      BY <3>1, <3>2, AppendProperties
  <2> QED
    BY <2>1, <2>2, <2>3
<1> QED
  BY <1>1, <1>2, CommaPartsReadBack DEF Label

-----------------------------------------------------------------------------
(* Values and charts *)

\* A value below ten times a power of ten.
Small(v) == \E p \in Powers : v < 10 * p

LEMMA HasMagnitude ==
  ASSUME NEW v \in Nat \ {0}, Small(v)
  PROVE  \E p : IsMagnitude(v, p)
<1> DEFINE S == {p \in Powers : p <= v}
<1>1. S \in SUBSET Nat /\ S # {} /\ \A p \in S : p <= v
  <2>1. 1 \in S
    BY AxisAssumption
  <2> QED
    BY <2>1, AxisAssumption
<1>2. Max(S) \in S /\ \A p \in S : p <= Max(S)
  BY <1>1, Greatest
<1>3. PICK q \in Powers : v < 10 * q
  BY DEF Small
<1> DEFINE p == Max(S)
<1>4. p \in Powers /\ p \in Nat /\ q \in Nat /\ p <= v
  BY <1>1, <1>2, AxisAssumption
<1> HIDE DEF p
<1>5. ASSUME 10 * p <= v PROVE FALSE
  <2>1. p < q
    BY <1>3, <1>4, <1>5
  <2>2. 10 * p \in S
    BY <1>4, <1>5, <2>1, AxisAssumption
  <2>3. 10 * p <= p /\ p # 0
    BY <1>2, <1>4, <2>2, AxisAssumption DEF p
  <2> QED
    BY <1>4, <2>3
<1>6. v < 10 * p
  BY <1>4, <1>5
<1> QED
  BY <1>2, <1>4, <1>6 DEF IsMagnitude, p

\* A benchmark line is read whatever the order of its units.
LEMMA ParsedLine ==
  ASSUME NEW line \in Lines, line.kind = "benchmark", NEW u \in Units
  PROVE  LET m == ParseBenchLine(line).measured[u]
         IN  /\ m \in Nat /\ Small(m)
             /\ \A i \in DOMAIN line.pairs :
                  line.pairs[i][1] # NaN /\ line.pairs[i][2] = u => m = Converted(line.pairs[i])
             /\ (\A i \in DOMAIN line.pairs : ~(line.pairs[i][1] # NaN /\ line.pairs[i][2] = u))
                  => m = 0
<1> DEFINE n == Len(line.pairs)
           given == {i \in DOMAIN line.pairs : line.pairs[i][1] # NaN /\ line.pairs[i][2] = u}
           m == ParseBenchLine(line).measured[u]
<1>1. /\ line.pairs \in Seq((Nat \union {NaN}) \X STRING)
      /\ \A i, j \in DOMAIN line.pairs : line.pairs[i][2] = line.pairs[j][2] => i = j
      /\ \A i \in DOMAIN line.pairs : line.pairs[i][1] # NaN => Small(line.pairs[i][1])
  BY DashboardAssumption DEF Small
<1>2. n \in Nat /\ DOMAIN line.pairs = 1 .. n /\ given \in SUBSET Nat /\ \A i \in given : i <= n
  BY <1>1, LenProperties
<1>3. m = IF given = {} THEN 0 ELSE Converted(line.pairs[Max(given)])
  BY DEF ParseBenchLine, Measured
<1>4. ASSUME NEW i \in given PROVE m = Converted(line.pairs[i])
  <2>1. Max(given) \in given
    BY <1>2, <1>4, Greatest
  <2>2. Max(given) = i
    BY <1>1, <1>4, <2>1
  <2> QED
    BY <1>3, <1>4, <2>2
<1>5. ASSUME NEW i \in given
      PROVE  Converted(line.pairs[i]) \in Nat /\ Small(Converted(line.pairs[i]))
  <2> DEFINE v == line.pairs[i][1]
  <2>1. v \in Nat /\ Small(v)
    <3>1. i \in 1 .. n
      BY <1>2, <1>5
    <3>2. line.pairs[i] \in (Nat \union {NaN}) \X STRING
      BY <1>1, <3>1, ElementOfSeq
    <3> QED
      BY <1>1, <1>5, <3>2
  <2>2. Unit \in Nat \ {0}
    BY AxisAssumption
  <2>3. Converted(line.pairs[i]) \in {v, Unit * (v \div Unit)}
    BY DEF Converted
  <2> HIDE DEF v
  <2>4. Unit * (v \div Unit) \in Nat /\ Unit * (v \div Unit) <= v
    BY <2>1, <2>2
  <2>5. PICK p \in Powers : v < 10 * p
    BY <2>1 DEF Small
  <2>6. p \in Nat
    BY AxisAssumption
  <2>7. Unit * (v \div Unit) < 10 * p
    BY <2>1, <2>4, <2>5, <2>6
  <2> QED
    BY <2>1, <2>3, <2>4, <2>7 DEF Small
<1>6. Small(0)
  BY AxisAssumption DEF Small
<1> HIDE DEF m
<1>7. CASE given = {}
  BY <1>3, <1>6, <1>7 DEF m
<1>8. CASE given # {}
  <2>1. PICK i \in given : TRUE
    BY <1>8
  <2>2. m \in Nat /\ Small(m)
    BY <1>4, <1>5
  <2>3. \A j \in DOMAIN line.pairs :
          line.pairs[j][1] # NaN /\ line.pairs[j][2] = u => m = Converted(line.pairs[j])
    BY <1>4
  <2>4. ~ \A j \in DOMAIN line.pairs : ~(line.pairs[j][1] # NaN /\ line.pairs[j][2] = u)
    BY <1>8
  <2> QED
    BY <2>2, <2>3, <2>4 DEF m
<1> QED
  BY <1>7, <1>8

\* The chart of a suite and a unit.
LEMMA MaxValFacts ==
  ASSUME NEW rs, NEW R, rs \in Seq(R), NEW suite, NEW unit,
         \A i \in DOMAIN rs : rs[i].measured[unit] \in Nat /\ Small(rs[i].measured[unit])
  PROVE  /\ MaxVal(rs, suite, unit) \in Nat
         /\ Small(MaxVal(rs, suite, unit))
         /\ \A i \in DOMAIN rs :
              rs[i].algorithm \in Algorithms(suite) =>
                rs[i].measured[unit] <= MaxVal(rs, suite, unit)
<1> DEFINE I == {i \in DOMAIN rs : rs[i].algorithm \in Algorithms(suite)}
           M == {0} \union {rs[i].measured[unit] : i \in I}
           n == Len(rs)
           f == [i \in 1 .. n |-> rs[i].measured[unit]]
<1>1. n \in Nat /\ DOMAIN rs = 1 .. n
  BY LenProperties
<1>2. \A i \in 1 .. n : f[i] = rs[i].measured[unit] /\ f[i] \in Nat
  BY <1>1
<1>3. PICK b \in Nat : \A i \in 1 .. n : f[i] <= b
  <2> HIDE DEF n, f
  <2> QED
    BY <1>1, <1>2, Bounded
<1>4. M \in SUBSET Nat /\ M # {} /\ \A m \in M : m <= b
  BY <1>1, <1>2, <1>3
<1>5. Max(M) \in M /\ \A m \in M : m <= Max(M)
  <2> HIDE DEF M
  <2> QED
    BY <1>4, Greatest
<1>6. MaxVal(rs, suite, unit) = Max(M)
  BY DEF MaxVal
<1>7. \A m \in M : m \in Nat /\ Small(m)
  BY <1>1, AxisAssumption DEF Small
<1>8. \A i \in I : rs[i].measured[unit] \in M
  OBVIOUS
<1> HIDE DEF M
<1> QED
  BY <1>5, <1>6, <1>7, <1>8

LEMMA ValueInAxis ==
  ASSUME NEW rs, NEW R, rs \in Seq(R), NEW suite, NEW unit,
         \A i \in DOMAIN rs : rs[i].measured[unit] \in Nat /\ Small(rs[i].measured[unit]),
         NEW op, NEW a \in Algorithms(suite)
  PROVE  /\ Value(rs, a, op, unit) \in Nat
         /\ Value(rs, a, op, unit) <= MaxVal(rs, suite, unit)
<1> DEFINE K == ResultsOf(rs, a, op)
<1>1. MaxVal(rs, suite, unit) \in Nat
  BY MaxValFacts
<1>2. ASSUME K # {}
      PROVE  Max(K) \in K
  <2>1. Len(rs) \in Nat /\ DOMAIN rs = 1 .. Len(rs)
    BY LenProperties
  <2>2. K \in SUBSET Nat /\ \A k \in K : k <= Len(rs)
    BY <2>1 DEF ResultsOf
  <2> HIDE DEF K
  <2> QED
    BY <1>2, <2>1, <2>2, Greatest
<1>3. CASE K = {}
  BY <1>1, <1>3 DEF Value, Has
<1>4. CASE K # {}
  <2>1. Value(rs, a, op, unit) = rs[Max(K)].measured[unit]
    BY <1>4 DEF Value, Has, LastResult
  <2>2. Max(K) \in DOMAIN rs /\ rs[Max(K)].algorithm = a
    BY <1>2, <1>4 DEF ResultsOf
  <2> HIDE DEF K
  <2> QED
    BY <2>1, <2>2, MaxValFacts
<1> QED
  BY <1>3, <1>4

\* Which way Log10 of a power of ten is rounded does not change the step.
LEMMA StepHidesRounding ==
  ASSUME NEW v \in Nat, Small(v), NEW low \in BOOLEAN
  PROVE  NiceStep(v, low) = NiceStep(v, TRUE)
<1>1. CASE v = 0
  BY <1>1 DEF NiceStep
<1>2. CASE v # 0
  <2>1. PICK p : IsMagnitude(v, p)
    BY <1>2, HasMagnitude
  <2>2. p \in Nat \ {0} /\ p <= v /\ v < 10 * p
    BY <2>1, AxisAssumption DEF IsMagnitude
  <2>3. \A b \in BOOLEAN : Magnitude10(v, b) = IF b /\ p = v THEN p ELSE 10 * p
    BY <1>2, <2>1, MagnitudeValue
  <2>4. CASE p # v
    BY <1>2, <2>3, <2>4 DEF NiceStep
  <2>5. CASE p = v
    <3>1. NiceResidual(v, 10 * p) = 1
      <4>1. 10 * p \in Nat \ {0} /\ 10 * p <= 10 * v /\ 10 * v <= 10 * (10 * p) /\ 10 * p = 10 * v
        BY <2>2, <2>5
      <4> QED
        BY <1>2, <4>1, ResidualOfValue
    <3>2. NiceResidual(v, p) = 10
      <4>1. p \in Nat \ {0} /\ p <= 10 * v /\ 10 * v <= 10 * p /\ 5 * p < 10 * v
        BY <2>2, <2>5
      <4> QED
        BY <1>2, <4>1, ResidualOfValue
    <3>3. Magnitude10(v, TRUE) = p /\ Magnitude10(v, FALSE) = 10 * p
      BY <2>3, <2>5
    <3>4. NiceStep(v, TRUE) = 10 * p
      BY <1>2, <3>2, <3>3 DEF NiceStep
    <3>5. NiceStep(v, FALSE) = 1 * (10 * p)
      BY <1>2, <3>1, <3>3 DEF NiceStep
    <3>6. 1 * (10 * p) = 10 * p
      BY <2>2
    <3> QED
      BY <3>4, <3>5, <3>6
  <2> QED
    BY <2>4, <2>5
<1> QED
  BY <1>1, <1>2

-----------------------------------------------------------------------------
(* The state machine *)

Parsed == {ParseBenchLine(line) : line \in {l \in Lines : IsResult(l)}}

\* What holds besides the type invariant: the results are those of the lines that
\* have been read, and a page is made of all of them.
IInv ==
  /\ TypeOK
  /\ results \in Seq(Parsed)
  /\ ResultsOfLines(next - 1)
  /\ pc = "go test" => next = 1 /\ results = <<>>
  /\ pc # "exited" => file = "earlier"
  /\ pc \in {"go test", "scan", "render"} => page = NoPage
  /\ page # NoPage => \E low \in BOOLEAN : page = RenderDashboard(results, low)
  /\ pc \in {"render", "write"} \/ page # NoPage \/ file # "earlier" \/ exit = 0
       => next = Len(output) + 1 /\ results # <<>>

LEMMA OutputIsLines == ASSUME output \in Outputs \union {<<>>}
  PROVE output \in Seq(Lines) /\ Len(output) \in Nat /\ DOMAIN output = 1 .. Len(output)
<1>1. output \in Seq(Lines)
  BY DashboardAssumption, EmptySeq
<1> QED
  BY <1>1, LenProperties

\* What every result has.
LEMMA ParsedResult ==
  ASSUME NEW r \in Parsed
  PROVE  /\ r.operation \in UNION {Operations(s) : s \in Suites}
         /\ r.measured \in [Units -> Nat]
         /\ \A u \in Units : r.measured[u] \in Nat /\ Small(r.measured[u])
<1>1. PICK line \in Lines : IsResult(line) /\ r = ParseBenchLine(line)
  BY DEF Parsed
<1>2. line.kind = "benchmark" /\ line.operation \in UNION {Operations(s) : s \in Suites}
  BY <1>1 DEF IsResult
<1>3. \A u \in Units : r.measured[u] \in Nat /\ Small(r.measured[u])
  BY <1>1, <1>2, ParsedLine
<1>4. r.operation = line.operation /\ r.measured = [u \in Units |-> r.measured[u]]
  BY <1>1 DEF ParseBenchLine, Measured
<1> QED
  BY <1>2, <1>3, <1>4

LEMMA ResultTypes ==
  ASSUME NEW rs \in Seq(Parsed)
  PROVE  \A i \in DOMAIN rs :
           /\ rs[i].operation \in UNION {Operations(s) : s \in Suites}
           /\ rs[i].measured \in [Units -> Nat]
           /\ \A u \in Units : rs[i].measured[u] \in Nat /\ Small(rs[i].measured[u])
<1> SUFFICES ASSUME NEW i \in DOMAIN rs
             PROVE  /\ rs[i].operation \in UNION {Operations(s) : s \in Suites}
                    /\ rs[i].measured \in [Units -> Nat]
                    /\ \A u \in Units : rs[i].measured[u] \in Nat /\ Small(rs[i].measured[u])
  OBVIOUS
<1>1. rs[i] \in Parsed
  BY LenProperties, ElementOfSeq
<1> QED
  BY <1>1, ParsedResult

LEMMA InitInv == Init => IInv
<1> SUFFICES ASSUME Init PROVE IInv
  OBVIOUS
<1>1. /\ output = <<>> /\ Len(output) = 0 /\ results = <<>> /\ next = 1
      /\ \A k \in DOMAIN results : FALSE
  <2>1. output = <<>> /\ results = <<>> /\ next = 1
    BY DEF Init
  <2>2. Len(<<>>) = 0
    BY EmptySeq
  <2> QED
    BY <2>1, <2>2
<1>2. TypeOK
  <2>1. next \in 1 .. Len(output) + 1
    BY <1>1
  <2>2. \A i \in DOMAIN results :
          /\ results[i].operation \in UNION {Operations(s) : s \in Suites}
          /\ results[i].measured \in [Units -> Nat]
    BY <1>1
  <2>3. output \in Outputs \union {<<>>}
    BY <1>1
  <2>4. /\ pc = "go test" /\ file = "earlier" /\ exit = -1
    BY DEF Init
  <2> QED
    BY <2>1, <2>2, <2>3, <2>4 DEF TypeOK
<1>3. ResultsOfLines(next - 1)
  <2> DEFINE place == [k \in DOMAIN results |-> 0]
  <2>1. next - 1 = 0 /\ place \in [DOMAIN results -> 1 .. 0]
    BY <1>1
  <2>2. {place[k] : k \in DOMAIN results} = {i \in 1 .. 0 : IsResult(output[i])}
    BY <1>1
  <2> HIDE DEF place
  <2> QED
    BY <1>1, <2>1, <2>2 DEF ResultsOfLines
<1>4. results \in Seq(Parsed)
  BY <1>1, EmptySeq
<1>5. pc = "go test" /\ page = NoPage /\ file = "earlier" /\ exit = -1
  BY DEF Init
<1>6. ~(pc \in {"render", "write"} \/ page # NoPage \/ file # "earlier" \/ exit = 0)
  <2>1. exit # 0
    <3>1. exit = -1
      BY <1>5
    <3> QED
      BY <3>1
  <2>2. pc # "render" /\ pc # "write"
    BY <1>5
  <2> QED
    BY <1>5, <2>1, <2>2
<1> QED
  BY <1>1, <1>2, <1>3, <1>4, <1>5, <1>6 DEF IInv

LEMMA ScanInv == ASSUME IInv, Scan PROVE IInv'
<1>1. /\ pc = "scan" /\ next \in Nat /\ next <= Len(output) /\ next > 0
      /\ next' = next + 1 /\ Len(output) \in Nat /\ output \in Seq(Lines)
      /\ DOMAIN output = 1 .. Len(output)
      /\ UNCHANGED <<pc, output, page, file, exit>>
  <2>1. output \in Outputs \union {<<>>} /\ next \in 1 .. Len(output) + 1
    BY DEF IInv, TypeOK
  <2>2. output \in Seq(Lines) /\ Len(output) \in Nat /\ DOMAIN output = 1 .. Len(output)
    BY <2>1, OutputIsLines
  <2>3. /\ pc = "scan" /\ next <= Len(output) /\ next' = next + 1
        /\ UNCHANGED <<pc, output, page, file, exit>>
    BY DEF Scan
  <2> QED
    BY <2>1, <2>2, <2>3
<1>2. output[next] \in Lines
  BY <1>1, ElementOfSeq
<1>3. results \in Seq(Parsed) /\ Len(results) \in Nat /\ DOMAIN results = 1 .. Len(results)
  BY LenProperties DEF IInv
<1>4. PICK place \in [DOMAIN results -> 1 .. next - 1] :
        /\ {place[k] : k \in DOMAIN results} = {i \in 1 .. next - 1 : IsResult(output[i])}
        /\ \A j, k \in DOMAIN results : j < k => place[j] < place[k]
        /\ \A k \in DOMAIN results : results[k] = ParseBenchLine(output[place[k]])
  BY DEF IInv, ResultsOfLines
<1>5. results' \in Seq(Parsed) /\ ResultsOfLines(next - 1)'
  <2>1. CASE ~IsResult(output[next])
    <3>1. results' = results
      BY <2>1 DEF Scan
    <3>2. place \in [DOMAIN results -> 1 .. next]
      BY <1>1, <1>4
    <3>3. {i \in 1 .. next : IsResult(output[i])} = {i \in 1 .. next - 1 : IsResult(output[i])}
      BY <1>1, <2>1
    <3>4. (next - 1)' = next
      BY <1>1
    <3> QED
      BY <1>1, <1>3, <1>4, <3>1, <3>2, <3>3, <3>4 DEF ResultsOfLines
  <2>2. CASE IsResult(output[next])
    <3> DEFINE r == ParseBenchLine(output[next])
               n == Len(results)
               p == [k \in 1 .. n + 1 |-> IF k <= n THEN place[k] ELSE next]
    <3>1. results' = Append(results, r) /\ r \in Parsed
      BY <1>2, <2>2 DEF Scan, Parsed
    <3> HIDE DEF r
    <3>2. /\ results' \in Seq(Parsed) /\ Len(results') = n + 1 /\ n \in Nat
          /\ \A k \in 1 .. n : results'[k] = results[k]
          /\ results'[n + 1] = r
      BY <1>3, <3>1, AppendProperties
    <3>3. DOMAIN results' = 1 .. n + 1 /\ DOMAIN results = 1 .. n
      BY <1>3, <3>2, LenProperties
    <3> HIDE DEF n
    <3>4. \A k \in 1 .. n : k \in Nat /\ k <= n /\ k \in 1 .. n + 1 /\ place[k] \in 1 .. next - 1
      BY <1>4, <3>2, <3>3
    <3>5. \A k \in 1 .. n : p[k] = place[k]
      BY <3>4
    <3>6. p[n + 1] = next
      BY <3>2
    <3>7. \A k \in 1 .. n + 1 : k \in 1 .. n \/ k = n + 1
      BY <3>2
    <3>8. p \in [1 .. n + 1 -> 1 .. next]
      BY <1>1, <3>4, <3>7
    <3> HIDE DEF p
    <3>9. {p[k] : k \in 1 .. n + 1} = {i \in 1 .. next : IsResult(output[i])}
      <4>1. ASSUME NEW k \in 1 .. n + 1 PROVE p[k] \in {i \in 1 .. next : IsResult(output[i])}
        <5>1. CASE k = n + 1
          BY <1>1, <2>2, <3>6, <5>1
        <5>2. CASE k \in 1 .. n
          <6>1. place[k] \in {i \in 1 .. next - 1 : IsResult(output[i])}
            BY <1>4, <3>3, <5>2
          <6> QED
            BY <1>1, <3>5, <5>2, <6>1
        <5> QED
          BY <3>7, <5>1, <5>2
      <4>2. ASSUME NEW i \in 1 .. next, IsResult(output[i]) PROVE \E k \in 1 .. n + 1 : p[k] = i
        <5>1. CASE i = next
          <6>1. n + 1 \in 1 .. n + 1
            BY <3>2
          <6> QED
            BY <3>6, <5>1, <6>1
        <5>2. CASE i # next
          <6>1. i \in 1 .. next - 1
            BY <1>1, <5>2
          <6>2. PICK k \in 1 .. n : place[k] = i
            BY <1>4, <3>3, <4>2, <6>1
          <6> QED
            BY <3>4, <3>5, <6>2
        <5> QED
          BY <5>1, <5>2
      <4> QED
        BY <4>1, <4>2
    <3>10. ASSUME NEW j \in 1 .. n + 1, NEW k \in 1 .. n + 1, j < k PROVE p[j] < p[k]
      <4>1. j \in 1 .. n
        BY <3>2, <3>7, <3>10
      <4>2. CASE k \in 1 .. n
        BY <1>4, <3>3, <3>5, <3>10, <4>1, <4>2
      <4>3. CASE k = n + 1
        BY <1>1, <3>4, <3>5, <3>6, <4>1, <4>3
      <4> QED
        BY <3>7, <4>2, <4>3
    <3>11. \A k \in 1 .. n + 1 : results'[k] = ParseBenchLine(output[p[k]])
      <4>1. results'[n + 1] = ParseBenchLine(output[p[n + 1]])
        BY <3>2, <3>6 DEF r
      <4>2. \A k \in 1 .. n : results'[k] = ParseBenchLine(output[p[k]])
        BY <1>4, <3>2, <3>3, <3>5
      <4> QED
        BY <3>7, <4>1, <4>2
    <3>12. (next - 1)' = next /\ output' = output
      BY <1>1
    <3> QED
      BY <3>2, <3>3, <3>8, <3>9, <3>10, <3>11, <3>12 DEF ResultsOfLines
  <2> QED
    BY <2>1, <2>2
<1>6. TypeOK'
  <2>1. \A i \in DOMAIN results' :
          /\ results'[i].operation \in UNION {Operations(s) : s \in Suites}
          /\ results'[i].measured \in [Units -> Nat]
    BY <1>5, ResultTypes
  <2>2. next' \in 1 .. Len(output) + 1
    BY <1>1
  <2> QED
    BY <1>1, <2>1, <2>2 DEF IInv, TypeOK
<1>7. page = NoPage /\ file = "earlier" /\ exit # 0
  <2>1. exit = -1
    BY <1>1 DEF IInv, TypeOK
  <2>2. page = NoPage
    BY <1>1 DEF IInv
  <2>3. file = "earlier"
    BY <1>1 DEF IInv, TypeOK
  <2> QED
    BY <2>1, <2>2, <2>3
<1>8. pc # "go test" /\ pc # "render" /\ pc # "write" /\ pc # "exited"
  BY <1>1
<1> QED
  BY <1>1, <1>5, <1>6, <1>7, <1>8 DEF IInv

LEMMA RunBenchmarksInv == ASSUME IInv, RunBenchmarks PROVE IInv'
<1>1. /\ pc' = "scan" /\ output' \in Outputs
      /\ UNCHANGED <<next, results, page, file, exit>>
  BY DEF RunBenchmarks
<1>2. pc = "go test"
  BY DEF RunBenchmarks
<1>3. page = NoPage /\ exit = -1
  BY <1>2 DEF IInv, TypeOK
<1>4. next = 1 /\ results = <<>> /\ file = "earlier" /\ pc # "exited"
  BY <1>2 DEF IInv, TypeOK
<1>5. output' \in Seq(Lines) /\ Len(output') \in Nat
  BY <1>1, DashboardAssumption, LenProperties
<1>6. \A k \in DOMAIN results : FALSE
  BY <1>4
<1>7. TypeOK'
  <2>1. next' \in 1 .. Len(output') + 1
    BY <1>1, <1>4, <1>5
  <2>2. exit' = -1 /\ (pc' = "exited" <=> exit' # -1)
    BY <1>1, <1>3
  <2>3. results' = results /\ file' = file
    BY <1>1
  <2> QED
    BY <1>1, <1>4, <1>6, <2>1, <2>2, <2>3 DEF TypeOK
<1>8. ResultsOfLines(next - 1)'
  <2>1. PICK place \in [DOMAIN results -> 1 .. next - 1] : TRUE
    BY DEF IInv, ResultsOfLines
  <2>2. next' = 1 /\ results' = results
    BY <1>1, <1>4
  <2>3. 1 .. next - 1 = {} /\ 1 .. 1 - 1 = {}
    BY <1>4
  <2>4. /\ place \in [DOMAIN results -> 1 .. 1 - 1]
        /\ {place[k] : k \in DOMAIN results} = {i \in 1 .. 1 - 1 : IsResult(output'[i])}
    BY <1>6, <2>1, <2>3
  <2>5. ResultsOfLines(1 - 1)'
    BY <1>6, <2>2, <2>4 DEF ResultsOfLines
  <2> QED
    BY <2>2, <2>5
<1>9. results' \in Seq(Parsed)
  BY <1>1, <1>4, EmptySeq
<1>10. exit' # 0
  <2>1. exit' = -1
    BY <1>1, <1>3
  <2> QED
    BY <2>1
<1> QED
  BY <1>1, <1>3, <1>4, <1>7, <1>8, <1>9, <1>10 DEF IInv

\* A step that leaves the output and the results alone.
LEMMA KeepsResults ==
  ASSUME IInv, UNCHANGED <<output, next, results>>,
         pc' \in {"go test", "scan", "render", "write", "exited"},
         file' \in {"earlier", "partial", "page"}, exit' \in {-1, 0, 1},
         pc' = "exited" <=> exit' # -1
  PROVE  TypeOK' /\ results' \in Seq(Parsed) /\ ResultsOfLines(next - 1)'
<1>1. TypeOK'
  BY DEF IInv, TypeOK
<1>2. results' \in Seq(Parsed)
  BY DEF IInv
<1>3. ResultsOfLines(next - 1)'
  BY DEF IInv, ResultsOfLines
<1> QED
  BY <1>1, <1>2, <1>3

LEMMA FailureInv == ASSUME IInv, RunBenchmarksFails \/ ScanFails PROVE IInv'
<1>1. /\ pc # "exited" /\ pc' = "exited" /\ exit' = 1
      /\ UNCHANGED <<output, next, results, page, file>>
  BY DEF RunBenchmarksFails, ScanFails, Exit
<1>2. exit' # 0 /\ exit' # -1 /\ exit' \in {-1, 0, 1}
  BY <1>1
<1>3. file = "earlier"
  BY <1>1 DEF IInv
<1>4. TypeOK' /\ results' \in Seq(Parsed) /\ ResultsOfLines(next - 1)'
  BY <1>1, <1>2, <1>3, KeepsResults
<1>5. page = NoPage
  BY DEF IInv, RunBenchmarksFails, ScanFails
<1>6. page' = NoPage /\ file' = "earlier"
  BY <1>1, <1>3, <1>5
<1> QED
  BY <1>1, <1>2, <1>4, <1>6 DEF IInv

LEMMA ScanEndsInv == ASSUME IInv, ScanEnds PROVE IInv'
<1>1. pc = "scan" /\ UNCHANGED <<output, next, results, page, file>>
  BY DEF ScanEnds
<1>2. file = "earlier" /\ page = NoPage /\ exit = -1
  BY <1>1 DEF IInv, TypeOK
<1>3. \/ pc' = "exited" /\ exit' = 1
      \/ pc' = "render" /\ exit' = -1 /\ results # <<>>
  BY <1>2 DEF ScanEnds, Exit
<1>4. exit' # 0 /\ exit' \in {-1, 0, 1} /\ (pc' = "exited" <=> exit' # -1)
  BY <1>3
<1>5. TypeOK' /\ results' \in Seq(Parsed) /\ ResultsOfLines(next - 1)'
  BY <1>1, <1>2, <1>3, <1>4, KeepsResults
<1>6. next = Len(output) + 1
  <2>1. next \in 1 .. Len(output) + 1 /\ output \in Outputs \union {<<>>} /\ next > Len(output)
    BY DEF IInv, TypeOK, ScanEnds
  <2>2. Len(output) \in Nat
    BY <2>1, OutputIsLines
  <2> QED
    BY <2>1, <2>2
<1> QED
  BY <1>1, <1>2, <1>3, <1>4, <1>5, <1>6 DEF IInv

LEMMA RenderInv == ASSUME IInv, Render PROVE IInv'
<1>1. /\ pc = "render" /\ pc' = "write" /\ UNCHANGED <<output, next, results, file, exit>>
      /\ \E low \in BOOLEAN : page' = RenderDashboard(results, low)
  BY DEF Render
<1>2. /\ file = "earlier" /\ exit = -1
      /\ next = Len(output) + 1 /\ results # <<>>
  BY <1>1 DEF IInv, TypeOK
<1>3. TypeOK' /\ results' \in Seq(Parsed) /\ ResultsOfLines(next - 1)'
  BY <1>1, <1>2, KeepsResults
<1>4. \E low \in BOOLEAN : page' = RenderDashboard(results', low)
  BY <1>1
<1> HIDE DEF RenderDashboard
<1> QED
  BY <1>1, <1>2, <1>3, <1>4 DEF IInv

LEMMA WriteFileInv == ASSUME IInv, WriteFile PROVE IInv'
<1>1. /\ pc = "write" /\ pc' = "exited" /\ UNCHANGED <<output, next, results, page>>
      /\ file' \in {"earlier", "partial", "page"} /\ exit' \in {0, 1}
  BY DEF WriteFile, Exit
<1>2. next = Len(output) + 1 /\ results # <<>>
  BY <1>1 DEF IInv
<1>3. exit' # -1 /\ exit' \in {-1, 0, 1}
  BY <1>1
<1>4. TypeOK' /\ results' \in Seq(Parsed) /\ ResultsOfLines(next - 1)'
  BY <1>1, <1>3, KeepsResults
<1>5. page' # NoPage => \E low \in BOOLEAN : page' = RenderDashboard(results', low)
  BY <1>1 DEF IInv
<1> QED
  BY <1>1, <1>2, <1>4, <1>5 DEF IInv

LEMMA Inductive == IInv /\ [Next]_vars => IInv'
<1> SUFFICES ASSUME IInv, [Next]_vars PROVE IInv'
  OBVIOUS
<1>1. CASE UNCHANGED vars
  <2>1. UNCHANGED <<pc, output, next, results, page, file, exit>>
    BY <1>1 DEF vars
  <2>2. TypeOK' /\ results' \in Seq(Parsed) /\ ResultsOfLines(next - 1)'
    BY <2>1, KeepsResults DEF IInv, TypeOK
  <2> QED
    BY <2>1, <2>2 DEF IInv
<1> QED
  BY <1>1, RunBenchmarksInv, FailureInv, ScanInv, ScanEndsInv, RenderInv, WriteFileInv DEF Next

LEMMA Invariant == Spec => []IInv
BY InitInv, Inductive, PTL DEF Spec

-----------------------------------------------------------------------------
(* Theorems *)

\* Every result is of a known operation and has a natural number for every unit,
\* whatever go test prints (parse.go:41-69).
THEOREM TypeCorrect == Spec => []TypeOK
BY Invariant, PTL DEF IInv

\* Success is reported only for the results of every benchmark line, in order,
\* and a run that fails before it writes leaves the earlier page (main.go:20-39).
THEOREM ShowsAll == Spec => []SuccessShowsAll
<1>1. IInv => SuccessShowsAll
  <2> SUFFICES ASSUME IInv PROVE SuccessShowsAll
    OBVIOUS
  <2>1. output \in Outputs \union {<<>>}
    BY DEF IInv, TypeOK
  <2>2. Len(output) \in Nat
    BY <2>1, OutputIsLines
  <2>3. ASSUME exit = 0 PROVE ResultsOfLines(Len(output))
    <3>1. next = Len(output) + 1
      BY <2>3 DEF IInv
    <3>2. next - 1 = Len(output)
      BY <2>2, <3>1
    <3> QED
      BY <3>2 DEF IInv
  <2>4. file # "earlier" => next = Len(output) + 1 /\ results # <<>>
    BY DEF IInv
  <2> QED
    BY <2>3, <2>4 DEF SuccessShowsAll
<1> QED
  BY <1>1, Invariant, PTL

\* A chart of the page, a bar in it, and a row of a table.
LEMMA PageFacts ==
  ASSUME IInv, page # NoPage
  PROVE  /\ results \in Seq(Parsed)
         /\ ResultsOfLines(Len(output))
         /\ output \in Seq(Lines) /\ Len(output) \in Nat /\ DOMAIN output = 1 .. Len(output)
         /\ \E low \in BOOLEAN : page = RenderDashboard(results, low)
<1>1. output \in Seq(Lines) /\ Len(output) \in Nat /\ DOMAIN output = 1 .. Len(output)
  <2>1. output \in Outputs \union {<<>>}
    BY DEF IInv, TypeOK
  <2> QED
    BY <2>1, OutputIsLines
<1>2. next - 1 = Len(output)
  <2>1. next = Len(output) + 1
    BY DEF IInv
  <2> QED
    BY <1>1, <2>1
<1>3. ResultsOfLines(next - 1) /\ results \in Seq(Parsed)
  BY DEF IInv
<1>4. \E low \in BOOLEAN : page = RenderDashboard(results, low)
  BY DEF IInv
<1> QED
  BY <1>1, <1>2, <1>3, <1>4

LEMMA ChartOf ==
  ASSUME NEW low \in BOOLEAN, page = RenderDashboard(results, low),
         NEW suite \in Suites, NEW unit \in Units
  PROVE  page.charts[<<suite, unit>>] = RenderBarChart(results, suite, unit, low)
<1>1. page.charts = [k \in Suites \X Units |-> RenderBarChart(results, k[1], k[2], low)]
  BY DEF RenderDashboard
<1>2. <<suite, unit>> \in Suites \X Units
  OBVIOUS
<1> HIDE DEF RenderBarChart
<1> QED
  BY <1>1, <1>2

LEMMA RowOf ==
  ASSUME NEW low \in BOOLEAN, page = RenderDashboard(results, low), NEW suite \in Suites
  PROVE  page.tables[suite] = RenderTable(results, suite)
<1> HIDE DEF RenderTable
<1> QED
  BY DEF RenderDashboard

\* The page does not depend on how Log10 of a power of ten is rounded
\* (render.go:309-310).
THEOREM HidesRounding == Spec => []Log10RoundingHidden
<1>1. IInv => Log10RoundingHidden
  <2> SUFFICES ASSUME IInv, page # NoPage, NEW low \in BOOLEAN
               PROVE  page = RenderDashboard(results, low)
    BY DEF Log10RoundingHidden
  <2>1. results \in Seq(Parsed)
    BY DEF IInv
  <2>2. \A suite \in Suites, unit \in Units :
          MaxVal(results, suite, unit) \in Nat /\ Small(MaxVal(results, suite, unit))
    BY <2>1, ResultTypes, MaxValFacts
  <2>3. ASSUME NEW b \in BOOLEAN
        PROVE  RenderDashboard(results, b) = RenderDashboard(results, TRUE)
    <3>1. ASSUME NEW suite \in Suites, NEW unit \in Units
          PROVE  RenderBarChart(results, suite, unit, b)
                   = RenderBarChart(results, suite, unit, TRUE)
      <4>1. NiceStep(MaxVal(results, suite, unit), b) = NiceStep(MaxVal(results, suite, unit), TRUE)
        BY <2>2, StepHidesRounding
      <4> QED
        BY <4>1 DEF RenderBarChart
    <3>2. [k \in Suites \X Units |-> RenderBarChart(results, k[1], k[2], b)]
            = [k \in Suites \X Units |-> RenderBarChart(results, k[1], k[2], TRUE)]
      BY <3>1
    <3> QED
      BY <3>2 DEF RenderDashboard
  <2>4. \E b \in BOOLEAN : page = RenderDashboard(results, b)
    BY DEF IInv
  <2> QED
    BY <2>3, <2>4
<1> QED
  BY <1>1, Invariant, PTL

\* The bars and the ticks of a chart.
LEMMA BarsFitChart ==
  ASSUME NEW rs \in Seq(Parsed), NEW suite \in Suites, NEW unit \in Units, NEW low \in BOOLEAN
  PROVE  LET c == RenderBarChart(rs, suite, unit, low)
         IN  /\ \A k \in DOMAIN c.bars : c.bars[k] <= c.top
             /\ c.ticks[Len(c.ticks)] = c.top
             /\ Len(c.ticks) - 1 \in 2 .. 4 \/ \A k \in DOMAIN c.bars : c.bars[k] = 0
<1> DEFINE c == RenderBarChart(rs, suite, unit, low)
           v == MaxVal(rs, suite, unit)
           step == NiceStep(v, low)
           g == Gridlines(v, step)
<1>1. v \in Nat /\ Small(v)
  BY ResultTypes, MaxValFacts
<1>2. ASSUME NEW op, NEW a \in Algorithms(suite)
      PROVE  Value(rs, a, op, unit) \in Nat /\ Value(rs, a, op, unit) <= v
  BY ResultTypes, ValueInAxis
<1>3. /\ c.bars = [row \in Operations(suite) \X Algorithms(suite) |->
                     Fine * Value(rs, row[2], row[1], unit)]
      /\ c.ticks = [i \in 1 .. g + 1 |-> (i - 1) * step]
      /\ c.top = step * g
  BY DEF RenderBarChart, Top
<1>4. ASSUME NEW k \in DOMAIN c.bars
      PROVE  \E w \in Nat : w <= v /\ c.bars[k] = Fine * w
  <2>1. k \in Operations(suite) \X Algorithms(suite)
    BY <1>3
  <2>2. c.bars[k] = Fine * Value(rs, k[2], k[1], unit) /\ k[2] \in Algorithms(suite)
    BY <1>3, <2>1
  <2> HIDE DEF c
  <2> QED
    BY <1>2, <2>2
<1> HIDE DEF c, v
<1>5. step \in Nat /\ g \in Nat /\ Fine * v <= step * g
      /\ (v # 0 => g \in 2 .. 4)
  <2>1. CASE v = 0
    BY <1>1, <2>1, AxisAssumption DEF NiceStep, Gridlines, Fine
  <2>2. CASE v # 0
    <3>1. PICK p : IsMagnitude(v, p)
      BY <1>1, <2>2, HasMagnitude
    <3>2. step \in Nat
      BY <1>1, <2>2, <3>1, StepType
    <3>3. Fine * v <= Top(v, step) /\ g \in 2 .. 4
      BY <1>1, <2>2, <3>1, AxisHoldsValue
    <3> QED
      BY <3>2, <3>3 DEF Top
  <2> QED
    BY <2>1, <2>2
<1> HIDE DEF step, g
<1>6. \A k \in DOMAIN c.bars : c.bars[k] <= c.top
  <2> SUFFICES ASSUME NEW k \in DOMAIN c.bars PROVE c.bars[k] <= c.top
    OBVIOUS
  <2>1. PICK w \in Nat : w <= v /\ c.bars[k] = 40 * w
    BY <1>4 DEF Fine
  <2>2. 40 * w <= 40 * v /\ 40 * v <= step * g /\ step * g \in Nat
    BY <1>1, <1>5, <2>1 DEF Fine
  <2> QED
    BY <1>1, <1>3, <2>1, <2>2
<1>7. Len(c.ticks) = g + 1 /\ c.ticks[g + 1] = c.top
  <2>1. Len(c.ticks) = g + 1
    BY <1>3, <1>5
  <2>2. g + 1 \in 1 .. g + 1 /\ (g + 1) - 1 = g
    BY <1>5
  <2>3. c.ticks[g + 1] = g * step
    BY <1>3, <2>2
  <2>4. g * step = step * g
    BY <1>5
  <2> QED
    BY <1>3, <2>1, <2>3, <2>4
<1>8. Len(c.ticks) - 1 \in 2 .. 4 \/ \A k \in DOMAIN c.bars : c.bars[k] = 0
  <2>1. CASE v # 0
    BY <1>5, <1>7, <2>1
  <2>2. CASE v = 0
    <3>1. ASSUME NEW k \in DOMAIN c.bars PROVE c.bars[k] = 0
      <4>1. PICK w \in Nat : w <= v /\ c.bars[k] = 40 * w
        BY <1>4 DEF Fine
      <4>2. w = 0
        BY <2>2, <4>1
      <4> QED
        BY <4>1, <4>2
    <3> QED
      BY <3>1
  <2> QED
    BY <2>1, <2>2
<1> QED
  BY <1>6, <1>7, <1>8 DEF c

\* Every bar of the page fits under the top gridline of its chart, which is one
\* of two to four unless all bars are empty (render.go:163-182, 304).
THEOREM Fits == Spec => []BarsFit
<1>1. IInv => BarsFit
  <2> SUFFICES ASSUME IInv, page # NoPage, NEW k \in Suites \X Units
               PROVE  LET c == page.charts[k]
                      IN  /\ \A b \in DOMAIN c.bars : c.bars[b] <= c.top
                          /\ c.ticks[Len(c.ticks)] = c.top
                          /\ Len(c.ticks) - 1 \in 2 .. 4 \/ \A b \in DOMAIN c.bars : c.bars[b] = 0
    BY DEF BarsFit, Charts
  <2>1. PICK suite \in Suites, unit \in Units : k = <<suite, unit>>
    OBVIOUS
  <2>2. PICK low \in BOOLEAN : page = RenderDashboard(results, low)
    BY DEF IInv
  <2>3. page.charts[k] = RenderBarChart(results, suite, unit, low)
    BY <2>1, <2>2, ChartOf
  <2>4. results \in Seq(Parsed)
    BY DEF IInv
  <2> QED
    BY <2>3, <2>4, BarsFitChart
<1> QED
  BY <1>1, Invariant, PTL

\* A row of a table.
LEMMA TableRow ==
  ASSUME NEW rs, NEW suite, NEW row
  PROVE  /\ row \in DOMAIN RenderTable(rs, suite)
              <=> row \in Operations(suite) \X Algorithms(suite) /\ Has(rs, row[2], row[1])
         /\ \A u \in Units : row \in DOMAIN RenderTable(rs, suite) =>
              RenderTable(rs, suite)[row][u] = Label(Fine * Value(rs, row[2], row[1], u))
<1> DEFINE rows == {r \in Operations(suite) \X Algorithms(suite) : Has(rs, r[2], r[1])}
           Cell(r, u) == Label(Fine * LastResult(rs, r[2], r[1]).measured[u])
<1>1. RenderTable(rs, suite) = [r \in rows |-> [u \in Units |-> Cell(r, u)]]
  BY DEF RenderTable
<1>2. \A u \in Units : Has(rs, row[2], row[1])
        => Cell(row, u) = Label(Fine * Value(rs, row[2], row[1], u))
  BY DEF Value
<1> HIDE DEF Cell
<1>3. DOMAIN RenderTable(rs, suite) = rows
  BY <1>1
<1>4. row \in rows => RenderTable(rs, suite)[row] = [u \in Units |-> Cell(row, u)]
  BY <1>1
<1> QED
  BY <1>2, <1>3, <1>4

\* The lines of a benchmark.
LinesOf(op, a) ==
  {i \in DOMAIN output :
     IsResult(output[i]) /\ output[i].algorithm = a /\ output[i].operation = op}

\* The last result of a benchmark is that of the last line of it.
LEMMA LastLine ==
  ASSUME results \in Seq(Parsed), ResultsOfLines(Len(output)), Len(output) \in Nat,
         DOMAIN output = 1 .. Len(output), NEW op, NEW a
  PROVE  /\ Has(results, a, op) <=> LinesOf(op, a) # {}
         /\ LinesOf(op, a) # {} =>
              /\ Max(LinesOf(op, a)) \in LinesOf(op, a)
              /\ LastResult(results, a, op) = ParseBenchLine(output[Max(LinesOf(op, a))])
<1> DEFINE runs == {i \in DOMAIN output :
                      /\ IsResult(output[i])
                      /\ output[i].algorithm = a /\ output[i].operation = op}
           K == ResultsOf(results, a, op)
           n == Len(results)
<1>1. n \in Nat /\ DOMAIN results = 1 .. n
  BY LenProperties
<1>2. PICK place \in [DOMAIN results -> 1 .. Len(output)] :
        /\ {place[k] : k \in DOMAIN results} = {i \in 1 .. Len(output) : IsResult(output[i])}
        /\ \A j, k \in DOMAIN results : j < k => place[j] < place[k]
        /\ \A k \in DOMAIN results : results[k] = ParseBenchLine(output[place[k]])
  BY DEF ResultsOfLines
<1>3. ASSUME NEW k \in DOMAIN results
      PROVE  /\ place[k] \in DOMAIN output /\ IsResult(output[place[k]])
             /\ results[k].algorithm = output[place[k]].algorithm
             /\ results[k].operation = output[place[k]].operation
  <2>1. place[k] \in {i \in 1 .. Len(output) : IsResult(output[i])}
    BY <1>2
  <2>2. results[k] = ParseBenchLine(output[place[k]])
    BY <1>2
  <2> QED
    BY <2>1, <2>2 DEF ParseBenchLine
<1>4. \A k \in K : k \in DOMAIN results /\ place[k] \in runs
  BY <1>3 DEF ResultsOf
<1>5. \A i \in runs : \E k \in K : place[k] = i
  <2> SUFFICES ASSUME NEW i \in runs PROVE \E k \in K : place[k] = i
    OBVIOUS
  <2>1. PICK k \in DOMAIN results : place[k] = i
    BY <1>2
  <2>2. k \in K
    BY <1>3, <2>1 DEF ResultsOf
  <2> QED
    BY <2>1, <2>2
<1>6. K = {} <=> runs = {}
  BY <1>4, <1>5
<1>7. ASSUME runs # {}
      PROVE  Max(runs) \in runs /\ LastResult(results, a, op) = ParseBenchLine(output[Max(runs)])
  <2>1. K \in SUBSET Nat /\ \A k \in K : k <= n
    BY <1>1 DEF ResultsOf
  <2>2. Max(K) \in K /\ \A k \in K : k <= Max(K)
    <3> HIDE DEF K, runs
    <3> QED
      BY <1>1, <1>6, <1>7, <2>1, Greatest
  <2>3. runs \in SUBSET Nat /\ \A i \in runs : i <= Len(output)
    OBVIOUS
  <2>4. Max(runs) \in runs /\ \A i \in runs : i <= Max(runs)
    <3> HIDE DEF runs
    <3> QED
      BY <1>7, <2>3, Greatest
  <2>5. LastResult(results, a, op) = results[Max(K)]
    BY DEF LastResult
  <2> DEFINE m == Max(K)
  <2>6. m \in DOMAIN results /\ place[m] \in runs /\ place[m] \in Nat
    BY <1>4, <2>2, <2>3
  <2>7. \A i \in runs : i <= place[m]
    <3> SUFFICES ASSUME NEW i \in runs PROVE i <= place[m]
      OBVIOUS
    <3>1. PICK k \in K : place[k] = i
      BY <1>5
    <3>2. k \in DOMAIN results /\ k \in Nat /\ k <= m /\ m \in Nat
      BY <1>4, <2>1, <2>2, <3>1
    <3>3. CASE k = m
      BY <2>6, <3>1, <3>3
    <3>4. CASE k < m
      <4>1. place[k] < place[m] /\ place[k] \in Nat
        BY <1>2, <2>6, <3>2, <3>4
      <4> QED
        BY <2>6, <3>1, <4>1
    <3> QED
      BY <3>2, <3>3, <3>4
  <2> HIDE DEF m, runs, K
  <2>8. Max(runs) = place[m]
    <3>1. Max(runs) <= place[m] /\ place[m] <= Max(runs) /\ Max(runs) \in Nat
      BY <2>3, <2>4, <2>6, <2>7
    <3> QED
      BY <2>6, <3>1
  <2>9. results[m] = ParseBenchLine(output[place[m]])
    BY <1>2, <2>6
  <2> QED
    BY <2>4, <2>5, <2>8, <2>9 DEF m
<1>8. Has(results, a, op) <=> runs # {}
  BY <1>6 DEF Has
<1>9. runs = LinesOf(op, a)
  BY DEF LinesOf
<1> HIDE DEF runs
<1> QED
  BY <1>7, <1>8, <1>9

\* Bars and tables show, for every benchmark and unit, the value of its last
\* line, or that it has none (render.go:163-175, 276-297).
THEOREM ShowsLastRun == Spec => []PageShowsLastRun
<1>1. IInv => PageShowsLastRun
  <2> SUFFICES ASSUME IInv, page # NoPage, NEW suite \in Suites, NEW unit \in Units,
                      NEW op \in Operations(suite), NEW a \in Algorithms(suite)
               PROVE
        LET runs  == {i \in DOMAIN output :
                        /\ IsResult(output[i])
                        /\ output[i].algorithm = a /\ output[i].operation = op}
            given == {p \in ToSet(output[Max(runs)].pairs) : p[1] # NaN /\ p[2] = unit}
            bar   == page.charts[<<suite, unit>>].bars[<<op, a>>]
        IN  IF runs = {} THEN bar = 0 /\ <<op, a>> \notin DOMAIN page.tables[suite]
            ELSE /\ \A p \in given : bar = Fine * Converted(p)
                 /\ given = {} => bar = 0
                 /\ page.tables[suite][<<op, a>>][unit] = Label(bar)
    BY DEF PageShowsLastRun
  <2> DEFINE runs  == {i \in DOMAIN output :
                         /\ IsResult(output[i])
                         /\ output[i].algorithm = a /\ output[i].operation = op}
             line  == output[Max(runs)]
             given == {p \in ToSet(line.pairs) : p[1] # NaN /\ p[2] = unit}
             bar   == page.charts[<<suite, unit>>].bars[<<op, a>>]
             value == Value(results, a, op, unit)
  <2>1. /\ results \in Seq(Parsed) /\ ResultsOfLines(Len(output))
        /\ output \in Seq(Lines) /\ Len(output) \in Nat /\ DOMAIN output = 1 .. Len(output)
    BY PageFacts
  <2>2. PICK low \in BOOLEAN : page = RenderDashboard(results, low)
    BY PageFacts
  <2>3. bar = Fine * value
    <3>1. page.charts[<<suite, unit>>] = RenderBarChart(results, suite, unit, low)
      BY <2>2, ChartOf
    <3>2. RenderBarChart(results, suite, unit, low).bars
            = [row \in Operations(suite) \X Algorithms(suite) |->
                 Fine * Value(results, row[2], row[1], unit)]
      BY DEF RenderBarChart
    <3> QED
      BY <3>1, <3>2
  <2>4. page.tables[suite] = RenderTable(results, suite)
    BY <2>2, RowOf
  <2>5. /\ Has(results, a, op) <=> runs # {}
        /\ runs # {} => /\ Max(runs) \in runs
                        /\ LastResult(results, a, op) = ParseBenchLine(line)
    <3>1. runs = LinesOf(op, a)
      BY DEF LinesOf
    <3> HIDE DEF runs
    <3> QED
      BY <2>1, <3>1, LastLine
  <2>6. /\ <<op, a>> \in DOMAIN RenderTable(results, suite) <=> Has(results, a, op)
        /\ Has(results, a, op) => RenderTable(results, suite)[<<op, a>>][unit] = Label(Fine * value)
    <3>1. /\ <<op, a>> \in Operations(suite) \X Algorithms(suite)
          /\ <<op, a>>[2] = a /\ <<op, a>>[1] = op
      OBVIOUS
    <3> QED
      BY <3>1, TableRow
  <2>7. CASE runs = {}
    <3>1. value = 0
      BY <2>5, <2>7 DEF Value
    <3> QED
      BY <2>3, <2>4, <2>5, <2>6, <2>7, <3>1 DEF Fine
  <2>8. CASE runs # {}
    <3>1. line \in Lines /\ line.kind = "benchmark"
      <4>1. Max(runs) \in 1 .. Len(output) /\ IsResult(line)
        BY <2>1, <2>5, <2>8
      <4> QED
        BY <2>1, <4>1, ElementOfSeq DEF IsResult
    <3>2. value = ParseBenchLine(line).measured[unit]
      BY <2>5, <2>8 DEF Value
    <3> HIDE DEF value, line, runs, bar
    <3>3. /\ \A i \in DOMAIN line.pairs :
                line.pairs[i][1] # NaN /\ line.pairs[i][2] = unit
                  => value = Converted(line.pairs[i])
          /\ (\A i \in DOMAIN line.pairs : ~(line.pairs[i][1] # NaN /\ line.pairs[i][2] = unit))
                => value = 0
      BY <3>1, <3>2, ParsedLine
    <3>4. /\ \A p \in given : value = Converted(p)
          /\ given = {} => value = 0
      BY <3>3 DEF ToSet
    <3>5. (\A p \in given : bar = Fine * Converted(p)) /\ (given = {} => bar = 0)
      BY <2>3, <3>4 DEF Fine
    <3>6. page.tables[suite][<<op, a>>][unit] = Label(bar)
      BY <2>3, <2>4, <2>5, <2>6, <2>8
    <3> QED
      BY <2>8, <3>5, <3>6 DEF runs, line, bar
  <2> QED
    BY <2>7, <2>8
<1> QED
  BY <1>1, Invariant, PTL

\* The labels of the tables read back as the numbers of the bars, in groups of
\* three digits after the first (render.go:336-353).
THEOREM ReadBack == Spec => []CommasReadBack
<1>1. IInv => CommasReadBack
  <2> SUFFICES ASSUME IInv, page # NoPage, NEW suite \in Suites,
                      NEW row \in DOMAIN page.tables[suite], NEW u \in Units
               PROVE  ReadsBack(page.tables[suite][row][u],
                                FormatInt[Rounded(page.charts[<<suite, u>>].bars[row])])
    BY DEF CommasReadBack, ReadsBack
  <2> DEFINE value == Value(results, row[2], row[1], u)
  <2>1. PICK low \in BOOLEAN : page = RenderDashboard(results, low)
    BY PageFacts
  <2>2. results \in Seq(Parsed)
    BY PageFacts
  <2>3. page.tables[suite] = RenderTable(results, suite)
    BY <2>1, RowOf
  <2>4. /\ row \in Operations(suite) \X Algorithms(suite)
        /\ page.tables[suite][row][u] = Label(Fine * value)
    BY <2>3, TableRow
  <2>5. page.charts[<<suite, u>>].bars[row] = Fine * value
    <3>1. page.charts[<<suite, u>>] = RenderBarChart(results, suite, u, low)
      BY <2>1, ChartOf
    <3>2. RenderBarChart(results, suite, u, low).bars
            = [r \in Operations(suite) \X Algorithms(suite) |->
                 Fine * Value(results, r[2], r[1], u)]
      BY DEF RenderBarChart
    <3> QED
      BY <2>4, <3>1, <3>2
  <2>6. Fine * value \in Nat
    <3>1. row[2] \in Algorithms(suite)
      BY <2>4
    <3>2. value \in Nat
      BY <2>2, <3>1, ResultTypes, ValueInAxis
    <3> HIDE DEF value
    <3> QED
      BY <3>2 DEF Fine
  <2> HIDE DEF value
  <2> QED
    BY <2>4, <2>5, <2>6, LabelReadsBack
<1> QED
  BY <1>1, Invariant, PTL
=============================================================================
