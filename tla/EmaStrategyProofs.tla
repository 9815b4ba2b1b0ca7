-------------------------- MODULE EmaStrategyProofs --------------------------
(***************************************************************************)
(* The averages and the signals of the strategy for any periods, any       *)
(* prices and any number of candles.                                       *)
(***************************************************************************)
EXTENDS EmaStrategy, FiniteSetTheorems, SequenceTheorems, WellFoundedInduction, TLAPS

-----------------------------------------------------------------------------
(* Induction over the naturals.                                            *)

(* A non-empty set of naturals has a smallest element: the intervals from  *)
(* 0 to its elements are well-founded by strict inclusion.                 *)
LEMMA Smallest ==
  ASSUME NEW T \in SUBSET Nat, T # {}
  PROVE  \E m \in T : \A k \in T : m <= k
<1> DEFINE R == StrictSubsetOrdering(Nat)
<1> DEFINE I == {0 .. k : k \in T}
<1>1. I \subseteq FiniteSubsetsOf(Nat) /\ I # {}
  <2>1. \A k \in T : 0 .. k \in FiniteSubsetsOf(Nat)
    BY FS_Interval DEF FiniteSubsetsOf
  <2> QED BY <2>1
<1>2. \E x \in I : \A y \in I : ~ (<<y, x>> \in R)
  <2> HIDE DEF I
  <2>1. IsWellFoundedOn(R, FiniteSubsetsOf(Nat))
    BY FS_StrictSubsetOrderingWellFounded
  <2> HIDE DEF R
  <2> QED BY <1>1, <2>1, WFMin
<1>3. PICK m \in T : \A k \in T : ~ (<<0 .. k, 0 .. m>> \in R)
  BY <1>2
<1>4. ASSUME NEW k \in T, k < m PROVE FALSE
  <2>1. 0 .. k \subseteq 0 .. m /\ m \in 0 .. m /\ m \notin 0 .. k
    BY <1>4
  <2>2. <<0 .. k, 0 .. m>> \in R
    BY <2>1 DEF StrictSubsetOrdering
  <2> QED BY <2>2, <1>3
<1> QED BY <1>4

(* g starts with a, and multiplies by c and adds the next element of d.    *)
Solves(g, n, a, c, d) ==
    /\ g \in [0 .. n -> Nat]
    /\ g[0] = a
    /\ \A i \in 1 .. n : g[i] = c * g[i - 1] + d[i]

(* A linear recurrence has a solution: at the smallest k without one, that *)
(* of k - 1 can be extended.                                               *)
LEMMA Recurrence ==
  ASSUME NEW n \in Nat, NEW a \in Nat, NEW c \in Nat, NEW d \in [1 .. n -> Nat]
  PROVE  \E g : Solves(g, n, a, c, d)
<1> DEFINE P(k) == \E g : Solves(g, k, a, c, d)
<1> DEFINE T == {k \in 0 .. n : ~ P(k)}
<1> SUFFICES P(n)
  OBVIOUS
<1>1. SUFFICES ASSUME T # {} PROVE P(n)
  <2> HIDE DEF P
  <2> QED BY <1>1
<1>2. PICK m \in T : \A k \in T : m <= k
  <2> HIDE DEF P
  <2>1. T \in SUBSET Nat
    OBVIOUS
  <2> HIDE DEF T
  <2> QED BY <2>1, <1>1, Smallest
<1>3. m # 0
  <2>1. [i \in 0 .. 0 |-> a] \in [0 .. 0 -> Nat] /\ [i \in 0 .. 0 |-> a][0] = a
    OBVIOUS
  <2>2. 1 .. 0 = {}
    OBVIOUS
  <2>3. P(0)
    BY <2>1, <2>2 DEF Solves
  <2> QED
    BY <2>3
<1>4. P(m - 1)
  <2> HIDE DEF P
  <2>1. m - 1 \in 0 .. n /\ ~ (m <= m - 1)
    BY <1>3
  <2> QED BY <2>1, <1>2
<1>5. PICK g \in [0 .. m - 1 -> Nat] :
         g[0] = a /\ \A i \in 1 .. m - 1 : g[i] = c * g[i - 1] + d[i]
  BY <1>4 DEF Solves
<1> DEFINE h == [i \in 0 .. m |-> IF i = m THEN c * g[m - 1] + d[m] ELSE g[i]]
<1>6. c * g[m - 1] + d[m] \in Nat
  <2>1. g[m - 1] \in Nat /\ d[m] \in Nat
    BY <1>3, m \in 1 .. n
  <2>2. c * g[m - 1] \in Nat BY <2>1
  <2> QED BY <2>1, <2>2
<1>7. h \in [0 .. m -> Nat] /\ h[0] = a
  BY <1>3, <1>5, <1>6
<1>8. \A i \in 1 .. m : h[i] = c * h[i - 1] + d[i]
  BY <1>3, <1>5
<1>9. P(m)
  <2> HIDE DEF h
  <2> QED
    BY <1>7, <1>8 DEF Solves
<1> QED BY <1>9

(* What holds at 0 and is passed on from each number to the next one holds *)
(* up to n.                                                                *)
LEMMA Upward ==
  ASSUME NEW n \in Nat, NEW T, 0 \in T, \A i \in 1 .. n : i - 1 \in T => i \in T
  PROVE  \A i \in 0 .. n : i \in T
<1> DEFINE U == {i \in 0 .. n : i \notin T}
<1>1. SUFFICES ASSUME U # {} PROVE FALSE
  BY <1>1
<1>2. PICK m \in U : \A k \in U : m <= k
  <2>1. U \in SUBSET Nat
    OBVIOUS
  <2> HIDE DEF U
  <2> QED
    BY <2>1, <1>1, Smallest
<1>3. m \in 1 .. n /\ m - 1 \in T
  BY <1>2
<1> QED
  BY <1>3

-----------------------------------------------------------------------------
(* What the recursive definitions of the model compute.                    *)

(* The function whose last value is Power(b, n).                           *)
LEMMA PowerIs ==
  ASSUME NEW b \in Nat, NEW n \in Nat
  PROVE  \E g \in [0 .. n -> Nat] :
            /\ g[0] = 1 /\ \A i \in 1 .. n : g[i] = b * g[i - 1]
            /\ Power(b, n) = g[n]
<1> DEFINE p == CHOOSE g : g = [i \in 0 .. n |-> IF i = 0 THEN 1 ELSE b * g[i - 1]]
<1>1. PICK g \in [0 .. n -> Nat] :
         g[0] = 1 /\ \A i \in 1 .. n : g[i] = b * g[i - 1]
  <2>1. PICK d \in [1 .. n -> Nat] : \A i \in 1 .. n : d[i] = 0
    <3>1. [i \in 1 .. n |-> 0] \in [1 .. n -> Nat]
      OBVIOUS
    <3> QED
      BY <3>1
  <2>2. PICK a \in Nat : a = 1
    OBVIOUS
  <2>3. PICK g : Solves(g, n, a, b, d)
    BY Recurrence
  <2>4. ASSUME NEW i \in 1 .. n PROVE g[i] = b * g[i - 1]
    <3>1. b * g[i - 1] \in Nat
      BY <2>3 DEF Solves
    <3> QED
      BY <2>1, <2>3, <3>1 DEF Solves
  <2> QED
    BY <2>2, <2>3, <2>4 DEF Solves
<1>2. g = [i \in 0 .. n |-> IF i = 0 THEN 1 ELSE b * g[i - 1]]
  BY <1>1
<1>3. p = [i \in 0 .. n |-> IF i = 0 THEN 1 ELSE b * p[i - 1]]
  BY <1>2
<1>4. Power(b, n) = p[n]
  BY DEF Power
<1> HIDE DEF p
<1>5. p[0] = 1 /\ \A i \in 1 .. n : p[i] = b * p[i - 1]
  BY <1>3
<1>6. \A i \in 0 .. n : p[i] = g[i]
  <2> DEFINE T == {i \in 0 .. n : p[i] = g[i]}
  <2>1. 0 \in T /\ \A i \in 1 .. n : i - 1 \in T => i \in T
    BY <1>1, <1>5
  <2> HIDE DEF T
  <2>2. \A i \in 0 .. n : i \in T
    BY <2>1, Upward
  <2> QED
    BY <2>2 DEF T
<1> QED
  BY <1>1, <1>4, <1>6

(* Power is what its name says.                                            *)
LEMMA PowerFacts ==
  ASSUME NEW b \in Nat, NEW n \in Nat
  PROVE  /\ Power(b, n) \in Nat
         /\ Power(b, 0) = 1
         /\ Power(b, n + 1) = b * Power(b, n)
<1>1. PICK g \in [0 .. n -> Nat] :
         /\ g[0] = 1 /\ \A i \in 1 .. n : g[i] = b * g[i - 1]
         /\ Power(b, n) = g[n]
  BY PowerIs
<1>2. PICK h \in [0 .. n + 1 -> Nat] :
         /\ h[0] = 1 /\ \A i \in 1 .. n + 1 : h[i] = b * h[i - 1]
         /\ Power(b, n + 1) = h[n + 1]
  <2>1. PICK m \in Nat : m = n + 1
    OBVIOUS
  <2> QED
    BY <2>1, PowerIs
<1>3. Power(b, 0) = 1
  <2>1. PICK z \in Nat : z = 0
    OBVIOUS
  <2>2. PICK e \in [0 .. z -> Nat] : e[0] = 1 /\ Power(b, z) = e[z]
    BY PowerIs
  <2> QED
    BY <2>1, <2>2
<1>4. \A i \in 0 .. n : h[i] = g[i]
  <2> DEFINE T == {i \in 0 .. n : h[i] = g[i]}
  <2>1. 0 \in T /\ \A i \in 1 .. n : i - 1 \in T => i \in T
    BY <1>1, <1>2
  <2> HIDE DEF T
  <2>2. \A i \in 0 .. n : i \in T
    BY <2>1, Upward
  <2> QED
    BY <2>2 DEF T
<1>5. h[n + 1] = b * h[n]
  BY <1>2
<1> QED
  BY <1>1, <1>2, <1>3, <1>4, <1>5

(* A power of a positive number is positive.                               *)
LEMMA PowerPositive ==
  ASSUME NEW b \in Nat \ {0}, NEW n \in Nat
  PROVE  Power(b, n) \in Nat \ {0}
<1> DEFINE T == {i \in 0 .. n : Power(b, i) > 0}
<1>1. 0 \in T
  BY PowerFacts
<1>2. ASSUME NEW i \in 1 .. n, i - 1 \in T PROVE i \in T
  <2>1. Power(b, i - 1) \in Nat /\ Power(b, i - 1) > 0
    BY <1>2, PowerFacts
  <2>2. Power(b, i) = b * Power(b, i - 1)
    <3>1. PICK m \in Nat : m = i - 1 /\ i = m + 1
      OBVIOUS
    <3>2. Power(b, m + 1) = b * Power(b, m)
      BY PowerFacts
    <3> QED
      BY <3>1, <3>2
  <2>3. \A x \in Nat : x > 0 => b * x > 0
    OBVIOUS
  <2> QED
    BY <2>1, <2>2, <2>3
<1> HIDE DEF T
<1>3. n \in T
  BY <1>1, <1>2, Upward
<1> QED
  BY <1>3, PowerFacts DEF T

(* The closes of t are naturals.                                           *)
Closes(t, n) == \A i \in 1 .. n : t[i].close \in Nat

(* g holds the partial sums of Mean(t, period, n).                         *)
Sums(g, t, period, n) ==
    /\ g \in [0 .. n -> Nat]
    /\ g[0] = 0
    /\ \A i \in 1 .. n : g[i] = g[i - 1] + Weight(period, i, n) * t[i].close

(* Weights are naturals.                                                   *)
LEMMA WeightType ==
  ASSUME NEW period \in Nat \ {0}, NEW n \in Nat, NEW i \in 1 .. n
  PROVE  Weight(period, i, n) \in Nat
<1>1. Power(period - 1, n - i) \in Nat
  BY PowerFacts
<1>2. i # 1 => Power(period + 1, i - 2) \in Nat
  BY PowerFacts
<1>3. \A x, y \in Nat : x * y \in Nat /\ 2 * y \in Nat /\ x * 1 \in Nat
  OBVIOUS
<1> QED
  BY <1>1, <1>2, <1>3 DEF Weight

(* The recursive definition of Mean has its function of partial sums.      *)
LEMMA MeanIs ==
  ASSUME NEW period \in Nat \ {0}, NEW n \in Nat, NEW t, Closes(t, n)
  PROVE  \E g : /\ Sums(g, t, period, n)
                /\ Mean(t, period, n) = [num |-> g[n], den |-> Power(period + 1, n - 1)]
<1> DEFINE W(i) == Weight(period, i, n)
           sum == CHOOSE g : g = [i \in 0 .. n |-> IF i = 0 THEN 0
                                                   ELSE g[i - 1] + W(i) * t[i].close]
<1>1. Mean(t, period, n) = [num |-> sum[n], den |-> Power(period + 1, n - 1)]
  BY DEF Mean
<1> HIDE DEF sum
<1>2. PICK d \in [1 .. n -> Nat] : \A i \in 1 .. n : d[i] = W(i) * t[i].close
  <2>1. \A i \in 1 .. n : W(i) * t[i].close \in Nat
    <3>1. \A x, y \in Nat : x * y \in Nat
      OBVIOUS
    <3> QED
      BY <3>1, WeightType DEF Closes
  <2> HIDE DEF W
  <2>2. [i \in 1 .. n |-> W(i) * t[i].close] \in [1 .. n -> Nat]
    BY <2>1
  <2> QED
    BY <2>2
<1>3. PICK a \in Nat, c \in Nat : a = 0 /\ c = 1
  OBVIOUS
<1>4. PICK g : Solves(g, n, a, c, d)
  BY Recurrence
<1>5. /\ g \in [0 .. n -> Nat] /\ g[0] = 0
      /\ \A i \in 1 .. n : g[i] = g[i - 1] + W(i) * t[i].close
  <2> HIDE DEF W
  <2> QED
    BY <1>2, <1>3, <1>4 DEF Solves
<1>6. g = [i \in 0 .. n |-> IF i = 0 THEN 0 ELSE g[i - 1] + W(i) * t[i].close]
  <2> HIDE DEF W
  <2> QED
    BY <1>5
<1>7. sum = [i \in 0 .. n |-> IF i = 0 THEN 0 ELSE sum[i - 1] + W(i) * t[i].close]
  <2> HIDE DEF W
  <2> QED
    BY <1>6 DEF sum
<1>8. \A i \in 0 .. n : sum[i] = g[i]
  <2> HIDE DEF W
  <2> DEFINE T == {i \in 0 .. n : sum[i] = g[i]}
  <2>1. 0 \in T /\ \A i \in 1 .. n : i - 1 \in T => i \in T
    BY <1>5, <1>7
  <2> HIDE DEF T
  <2>2. \A i \in 0 .. n : i \in T
    BY <2>1, Upward
  <2> QED
    BY <2>2 DEF T
<1>9. Sums(g, t, period, n)
  BY <1>5 DEF Sums
<1>10. Mean(t, period, n) = [num |-> g[n], den |-> Power(period + 1, n - 1)]
  BY <1>1, <1>8
<1> QED
  BY <1>9, <1>10

(* A mean has the shape of an average, with a positive denominator.        *)
LEMMA MeanType ==
  ASSUME NEW period \in Nat \ {0}, NEW n \in Nat \ {0}, NEW t, Closes(t, n)
  PROVE  Mean(t, period, n) \in [num : Nat, den : Nat \ {0}]
<1>1. PICK g : /\ Sums(g, t, period, n)
               /\ Mean(t, period, n) = [num |-> g[n], den |-> Power(period + 1, n - 1)]
  BY MeanIs
<1>2. g[n] \in Nat
  BY <1>1 DEF Sums
<1>3. Power(period + 1, n - 1) \in Nat \ {0}
  BY PowerPositive
<1> QED
  BY <1>1, <1>2, <1>3

(* The mean of the first n closes does not depend on later ones.           *)
LEMMA MeanStable ==
  ASSUME NEW period \in Nat \ {0}, NEW n \in Nat, NEW t, NEW u, Closes(t, n),
         \A i \in 1 .. n : u[i] = t[i]
  PROVE  Mean(u, period, n) = Mean(t, period, n)
<1>1. PICK g : /\ Sums(g, t, period, n)
               /\ Mean(t, period, n) = [num |-> g[n], den |-> Power(period + 1, n - 1)]
  BY MeanIs
<1>2. Closes(u, n)
  BY DEF Closes
<1>3. PICK h : /\ Sums(h, u, period, n)
               /\ Mean(u, period, n) = [num |-> h[n], den |-> Power(period + 1, n - 1)]
  BY <1>2, MeanIs
<1> DEFINE T == {i \in 0 .. n : h[i] = g[i]}
<1>4. 0 \in T
  BY <1>1, <1>3 DEF Sums
<1>5. ASSUME NEW i \in 1 .. n, i - 1 \in T PROVE i \in T
  <2>1. h[i] = h[i - 1] + Weight(period, i, n) * u[i].close
    BY <1>3 DEF Sums
  <2>2. g[i] = g[i - 1] + Weight(period, i, n) * t[i].close
    BY <1>1 DEF Sums
  <2>3. u[i].close = t[i].close /\ h[i - 1] = g[i - 1]
    BY <1>5
  <2> QED
    BY <2>1, <2>2, <2>3
<1> HIDE DEF T
<1>6. \A i \in 0 .. n : i \in T
  BY <1>4, <1>5, Upward
<1>7. h[n] = g[n]
  BY <1>6 DEF T
<1> QED
  BY <1>1, <1>3, <1>7

(* The weights of the first n closes shrink by period - 1 with one more.   *)
LEMMA WeightNext ==
  ASSUME NEW period \in Nat \ {0}, NEW n \in Nat \ {0}
  PROVE  /\ \A i \in 1 .. n :
              Weight(period, i, n + 1) = (period - 1) * Weight(period, i, n)
         /\ Weight(period, n + 1, n + 1) = 2 * Power(period + 1, n - 1)
         /\ Weight(period, 1, 1) = 1
<1>1. ASSUME NEW i \in 1 .. n
      PROVE  Weight(period, i, n + 1) = (period - 1) * Weight(period, i, n)
  <2>1. PICK b \in Nat, m \in Nat : b = period - 1 /\ m = n - i
    OBVIOUS
  <2>2. Power(b, m) \in Nat /\ Power(b, m + 1) = b * Power(b, m)
    BY PowerFacts
  <2>3. PICK r \in Nat : r = IF i = 1 THEN 1 ELSE 2 * Power(period + 1, i - 2)
    <3>1. i # 1 => Power(period + 1, i - 2) \in Nat
      BY PowerFacts
    <3>2. \A x \in Nat : 2 * x \in Nat
      OBVIOUS
    <3> QED
      BY <3>1, <3>2
  <2>4. n + 1 - i = m + 1
    BY <2>1
  <2>5. Weight(period, i, n) = Power(b, m) * r
    BY <2>1, <2>3 DEF Weight
  <2>6. Weight(period, i, n + 1) = Power(b, m + 1) * r
    BY <2>1, <2>3, <2>4 DEF Weight
  <2>7. \A x \in Nat : (b * x) * r = b * (x * r)
    OBVIOUS
  <2> QED
    BY <2>1, <2>2, <2>5, <2>6, <2>7
<1>2. Power(period - 1, 0) = 1
  BY PowerFacts
<1>3. Weight(period, n + 1, n + 1) = 2 * Power(period + 1, n - 1)
  <2>1. Power(period + 1, n - 1) \in Nat
    BY PowerFacts
  <2>2. (n + 1) - (n + 1) = 0 /\ (n + 1) - 2 = n - 1 /\ n + 1 # 1
    OBVIOUS
  <2>3. \A x \in Nat : 1 * (2 * x) = 2 * x
    OBVIOUS
  <2> QED
    BY <1>2, <2>1, <2>2, <2>3 DEF Weight
<1>4. Weight(period, 1, 1) = 1
  BY <1>2 DEF Weight
<1> QED
  BY <1>1, <1>3, <1>4

(* The mean of a single close is that close.                               *)
LEMMA MeanFirst ==
  ASSUME NEW period \in Nat \ {0}, NEW t, Closes(t, 1)
  PROVE  Mean(t, period, 1) = [num |-> t[1].close, den |-> 1]
<1>1. PICK one \in Nat \ {0} : one = 1
  OBVIOUS
<1>2. PICK g : /\ Sums(g, t, period, one)
               /\ Mean(t, period, one) = [num |-> g[one], den |-> Power(period + 1, one - 1)]
  BY <1>1, MeanIs
<1>3. g[1] = g[0] + Weight(period, 1, 1) * t[1].close /\ g[0] = 0
  BY <1>1, <1>2 DEF Sums
<1>4. Weight(period, 1, 1) = 1
  BY <1>1, WeightNext
<1>5. t[1].close \in Nat
  BY DEF Closes
<1>6. Power(period + 1, 0) = 1
  BY PowerFacts
<1>7. g[1] = t[1].close
  BY <1>3, <1>4, <1>5
<1> QED
  BY <1>1, <1>2, <1>6, <1>7

(* One more close changes the mean as the strategy changes its average.    *)
LEMMA MeanNext ==
  ASSUME NEW period \in Nat \ {0}, NEW n \in Nat \ {0}, NEW t, Closes(t, n + 1)
  PROVE  Mean(t, period, n + 1) = Updated(Mean(t, period, n), period, t[n + 1].close)
<1>1. Closes(t, n)
  BY DEF Closes
<1>2. PICK g : /\ Sums(g, t, period, n)
               /\ Mean(t, period, n) = [num |-> g[n], den |-> Power(period + 1, n - 1)]
  BY <1>1, MeanIs
<1>3. PICK h : /\ Sums(h, t, period, n + 1)
               /\ Mean(t, period, n + 1) = [num |-> h[n + 1], den |-> Power(period + 1, n)]
  <2>1. PICK m \in Nat : m = n + 1
    OBVIOUS
  <2>2. \E h : /\ Sums(h, t, period, m)
               /\ Mean(t, period, m) = [num |-> h[m], den |-> Power(period + 1, m - 1)]
    BY <2>1, MeanIs
  <2>3. m - 1 = n
    BY <2>1
  <2> QED
    BY <2>1, <2>2, <2>3
<1>4. \A i \in 0 .. n : h[i] = (period - 1) * g[i]
  <2> DEFINE T == {i \in 0 .. n : h[i] = (period - 1) * g[i]}
  <2>1. 0 \in T
    BY <1>2, <1>3 DEF Sums
  <2>2. ASSUME NEW i \in 1 .. n, i - 1 \in T PROVE i \in T
    <3>1. h[i] = h[i - 1] + Weight(period, i, n + 1) * t[i].close
      BY <1>3 DEF Sums
    <3>2. g[i] = g[i - 1] + Weight(period, i, n) * t[i].close
      BY <1>2 DEF Sums
    <3>3. PICK b \in Nat, w \in Nat, c \in Nat, x \in Nat :
             b = period - 1 /\ w = Weight(period, i, n) /\ c = t[i].close /\ x = g[i - 1]
      <4>1. Weight(period, i, n) \in Nat
        BY WeightType
      <4>2. t[i].close \in Nat /\ g[i - 1] \in Nat /\ period - 1 \in Nat
        BY <1>1, <1>2 DEF Closes, Sums
      <4> QED
        BY <4>1, <4>2
    <3>4. Weight(period, i, n + 1) = b * w
      BY <3>3, WeightNext
    <3>5. h[i - 1] = b * x
      BY <2>2, <3>3
    <3>6. b * x + (b * w) * c = b * (x + w * c)
      BY SMT
    <3> QED
      BY <3>1, <3>2, <3>3, <3>4, <3>5, <3>6
  <2> HIDE DEF T
  <2>3. \A i \in 0 .. n : i \in T
    BY <2>1, <2>2, Upward
  <2> QED
    BY <2>3 DEF T
<1>5. h[n + 1] = h[n] + Weight(period, n + 1, n + 1) * t[n + 1].close
  BY <1>3 DEF Sums
<1>6. PICK q \in Nat \ {0}, c \in Nat, x \in Nat :
         q = Power(period + 1, n - 1) /\ c = t[n + 1].close /\ x = g[n]
  <2>1. Power(period + 1, n - 1) \in Nat \ {0}
    BY PowerPositive
  <2>2. t[n + 1].close \in Nat /\ g[n] \in Nat
    BY <1>2 DEF Closes, Sums
  <2> QED
    BY <2>1, <2>2
<1>7. h[n + 1] = 2 * c * q + (period - 1) * x
  <2>1. Weight(period, n + 1, n + 1) = 2 * q
    BY <1>6, WeightNext
  <2>2. h[n] = (period - 1) * x
    BY <1>4, <1>6
  <2>3. (2 * q) * c = 2 * c * q
    OBVIOUS
  <2>4. (period - 1) * x \in Int /\ 2 * c * q \in Int
    OBVIOUS
  <2> QED
    BY <1>5, <1>6, <2>1, <2>2, <2>3, <2>4
<1>8. Power(period + 1, n) = (period + 1) * q
  <2>1. PICK m \in Nat : m = n - 1 /\ n = m + 1
    OBVIOUS
  <2>2. Power(period + 1, m + 1) = (period + 1) * Power(period + 1, m)
    BY PowerFacts
  <2> QED
    BY <1>6, <2>1, <2>2
<1> QED
  BY <1>2, <1>3, <1>6, <1>7, <1>8 DEF Updated

-----------------------------------------------------------------------------
(* The averages.                                                           *)

Candles == [close : Prices, asked : BOOLEAN, signal : Signals]

(* Before the first candle there is no average and no difference, and from *)
(* then on there is one.                                                   *)
Started ==
    /\ trail = <<>> => fast = NoValue /\ slow = NoValue /\ prev = "none"
    /\ trail # <<>> => prev # "none"

IInv == TypeOK /\ Started /\ AveragesAreMeans

(* The history with one more candle.                                       *)
LEMMA Longer ==
  ASSUME TypeOK, NEW e \in Candles, trail' = Append(trail, e)
  PROVE  /\ Len(trail) \in Nat /\ Len(trail') = Len(trail) + 1
         /\ trail' \in Seq(Candles) /\ trail' # <<>>
         /\ \A i \in 1 .. Len(trail) : trail[i] \in Candles /\ trail'[i] = trail[i]
         /\ trail'[Len(trail) + 1] = e
         /\ Closes(trail, Len(trail)) /\ Closes(trail', Len(trail) + 1)
<1>1. trail \in Seq(Candles) /\ Len(trail) \in Nat
  BY LenProperties DEF TypeOK, Candles
<1>2. /\ trail' \in Seq(Candles) /\ Len(trail') = Len(trail) + 1
      /\ \A i \in 1 .. Len(trail) : trail'[i] = trail[i]
      /\ trail'[Len(trail) + 1] = e
  BY <1>1, AppendProperties
<1>3. \A i \in 1 .. Len(trail) : trail[i] \in Candles
  BY <1>1, ElementOfSeq
<1>4. Closes(trail, Len(trail)) /\ Closes(trail', Len(trail) + 1)
  <2>1. \A c \in Candles : c.close \in Nat
    BY PricesAssumption DEF Candles
  <2>2. \A i \in 1 .. Len(trail) + 1 : trail'[i] \in Candles
    BY <1>1, <1>2, <1>3
  <2> QED
    BY <1>3, <2>1, <2>2 DEF Closes
<1>5. trail' # <<>>
  BY <1>1, <1>2, EmptySeq
<1> QED
  BY <1>1, <1>2, <1>3, <1>4, <1>5

(* An average stays a fraction of naturals, and has a value after a candle. *)
LEMMA UpdatedType ==
  ASSUME NEW ema \in Emas, NEW period \in Nat \ {0}, NEW close \in Nat
  PROVE  Updated(ema, period, close) \in [num : Nat, den : Nat \ {0}]
<1>1. PICK x \in Nat, d \in Nat : ema = [num |-> x, den |-> d]
  BY DEF Emas
<1>2. \A y, z \in Nat : y * z \in Nat
  OBVIOUS
<1>3. 2 * close * d + (period - 1) * x \in Nat
  BY <1>2
<1>4. d # 0 => (period + 1) * d \in Nat \ {0}
  OBVIOUS
<1> QED
  BY <1>1, <1>3, <1>4 DEF Updated

(* Both averages of the history up to the last candle.                     *)
LEMMA MeansNext ==
  ASSUME IInv, NEW e \in Candles, trail' = Append(trail, e), Averages(e.close),
         NEW period \in Nat \ {0}, NEW ema,
         trail = <<>> => ema = NoValue,
         trail # <<>> => ema = Mean(trail, period, Len(trail))
  PROVE  Updated(ema, period, e.close) = Mean(trail', period, Len(trail'))
<1> DEFINE n == Len(trail)
<1>1. /\ n \in Nat /\ Len(trail') = n + 1 /\ trail'[n + 1] = e
      /\ Closes(trail, n) /\ Closes(trail', n + 1)
      /\ \A i \in 1 .. n : trail'[i] = trail[i]
  BY Longer DEF IInv
<1>2. CASE n = 0
  <2>1. trail = <<>>
    BY <1>1, <1>2, LenProperties, EmptySeq DEF IInv, TypeOK
  <2>2. Mean(trail', period, 1) = [num |-> e.close, den |-> 1]
    BY <1>1, <1>2, MeanFirst
  <2> QED
    BY <1>1, <1>2, <2>1, <2>2 DEF Updated, NoValue
<1>3. CASE n # 0
  <2>1. trail # <<>>
    BY <1>3, EmptySeq
  <2>2. Mean(trail', period, n) = Mean(trail, period, n)
    BY <1>1, MeanStable
  <2>3. Mean(trail', period, n + 1) = Updated(Mean(trail', period, n), period, trail'[n + 1].close)
    BY <1>1, <1>3, MeanNext
  <2> QED
    BY <1>1, <2>1, <2>2, <2>3
<1> QED
  BY <1>2, <1>3

(* The comparison of two averages is a sign.                               *)
LEMMA SignsType ==
  \A f, s : Compare(f, s) \in Signs /\ ComputedSigns(f, s) \subseteq Signs
  BY RoundedAssumption DEF Compare, ComputedSigns, Signs

(* A candle, with or without a question, keeps the invariant.              *)
LEMMA CandleIInv ==
  ASSUME IInv, NEW e \in Candles, trail' = Append(trail, e), Averages(e.close),
         prev' \in Signs
  PROVE  IInv'
<1>1. /\ Len(trail) \in Nat /\ Len(trail') = Len(trail) + 1
      /\ trail' \in Seq(Candles) /\ trail' # <<>>
  BY Longer DEF IInv
<1>2. e.close \in Nat
  BY PricesAssumption DEF Candles
<1>3. TypeOK'
  <2>1. fast' \in Emas /\ slow' \in Emas
    BY <1>2, UpdatedType, PeriodsAssumption DEF IInv, TypeOK, Averages, Emas
  <2> QED
    BY <1>1, <2>1 DEF TypeOK, Candles
<1>4. Started'
  BY <1>1 DEF Started, Signs
<1>5. AveragesAreMeans'
  <2>1. trail = <<>> => fast = NoValue /\ slow = NoValue
    BY DEF IInv, Started
  <2>2. trail # <<>> => /\ fast = Mean(trail, Fast, Len(trail))
                        /\ slow = Mean(trail, Slow, Len(trail))
    <3>1. trail # <<>> => Len(trail) > 0
      BY <1>1, EmptySeq, LenProperties DEF IInv, TypeOK
    <3> QED
      BY <3>1 DEF IInv, AveragesAreMeans
  <2>3. fast' = Mean(trail', Fast, Len(trail'))
    BY <2>1, <2>2, MeansNext, PeriodsAssumption DEF Averages
  <2>4. slow' = Mean(trail', Slow, Len(trail'))
    BY <2>1, <2>2, MeansNext, PeriodsAssumption DEF Averages
  <2> QED
    BY <2>3, <2>4 DEF AveragesAreMeans
<1> QED
  BY <1>3, <1>4, <1>5 DEF IInv

(* The initial state satisfies the inductive invariant.                    *)
LEMMA InitIInv == Init => IInv
<1> SUFFICES ASSUME Init PROVE IInv
  OBVIOUS
<1>1. Len(trail) = 0 /\ trail \in Seq(Candles)
  BY EmptySeq DEF Init
<1>2. NoValue \in Emas
  BY DEF NoValue, Emas
<1> QED
  BY <1>1, <1>2 DEF Init, IInv, TypeOK, Started, AveragesAreMeans, Candles

(* What a candle with a question does, and one without.                    *)
LEMMA GenerateSignalIs ==
  ASSUME IInv, NEW close \in Prices, GenerateSignal(close)
  PROVE  \E now \in ComputedSigns(fast', slow'), e \in Candles :
            /\ e = [close |-> close, asked |-> TRUE, signal |-> Cross(Before(now), now)]
            /\ prev' = now /\ trail' = Append(trail, e)
            /\ Averages(e.close) /\ now \in Signs
<1>1. PICK now \in ComputedSigns(fast', slow') :
         /\ prev' = now
         /\ trail' = Append(trail, [close |-> close, asked |-> TRUE,
                                    signal |-> Cross(Before(now), now)])
  BY DEF GenerateSignal, Kept
<1>2. Cross(Before(now), now) \in Signals /\ now \in Signs
  BY SignsType DEF Cross, Signals
<1>3. [close |-> close, asked |-> TRUE, signal |-> Cross(Before(now), now)] \in Candles
  BY <1>2 DEF Candles
<1> QED
  BY <1>1, <1>2, <1>3 DEF GenerateSignal

LEMMA UpdateIs ==
  ASSUME IInv, NEW close \in Prices, Update(close)
  PROVE  \E now \in ComputedSigns(fast', slow'), e \in Candles :
            /\ e = [close |-> close, asked |-> FALSE, signal |-> "NONE"]
            /\ prev' = Before(now) /\ trail' = Append(trail, e)
            /\ Averages(e.close) /\ now \in Signs
<1>1. PICK now \in ComputedSigns(fast', slow') : prev' = Before(now)
  BY DEF Update
<1>2. now \in Signs
  BY SignsType
<1>3. [close |-> close, asked |-> FALSE, signal |-> "NONE"] \in Candles
  BY DEF Candles, Signals
<1> QED
  BY <1>1, <1>2, <1>3 DEF Update

(* Every step keeps it.                                                    *)
LEMMA NextIInv == IInv /\ [Next]_vars => IInv'
<1> SUFFICES ASSUME IInv, [Next]_vars PROVE IInv'
  OBVIOUS
<1>1. ASSUME NEW p \in Prices, GenerateSignal(p) PROVE IInv'
  BY <1>1, GenerateSignalIs, CandleIInv
<1>2. ASSUME NEW p \in Prices, Update(p) PROVE IInv'
  <2>1. prev \in Signs \cup {"none"}
    BY DEF IInv, TypeOK
  <2>2. \A now \in Signs : Before(now) \in Signs
    BY <2>1 DEF Before
  <2> QED
    BY <1>2, <2>2, UpdateIs, CandleIInv
<1>3. CASE Reset
  <2>1. Len(trail') = 0 /\ trail' \in Seq(Candles) /\ NoValue \in Emas
    BY <1>3, EmptySeq DEF Reset, NoValue, Emas
  <2> QED
    BY <1>3, <2>1 DEF Reset, IInv, TypeOK, Started, AveragesAreMeans, Candles
<1>4. CASE UNCHANGED vars
  BY <1>4 DEF vars, IInv, TypeOK, Started, AveragesAreMeans
<1> QED
  BY <1>1, <1>2, <1>3, <1>4 DEF Next

(* Every reachable state satisfies it, whatever the signs computed for     *)
(* equal averages.                                                         *)
THEOREM Inductive == Spec => []IInv
<1>1. Init => IInv
  BY InitIInv
<1>2. IInv /\ [Next]_vars => IInv'
  BY NextIInv
<1> QED
  BY <1>1, <1>2, PTL DEF Spec

(* Every variable keeps its shape.                                         *)
THEOREM TypeCorrect == Spec => []TypeOK
<1>1. IInv => TypeOK
  BY DEF IInv
<1> QED
  BY <1>1, Inductive, PTL

(* The averages that the strategy carries from candle to candle are the    *)
(* weighted means of all closes since it was created or reset.             *)
THEOREM AveragesAreRight == Spec => []AveragesAreMeans
<1>1. IInv => AveragesAreMeans
  BY DEF IInv
<1> QED
  BY <1>1, Inductive, PTL

-----------------------------------------------------------------------------
(* The signals, where the weights of the averages are exact.               *)

(* The difference kept for the next question is that of the last candle    *)
(* with a question, or of the first.                                       *)
KeptSign == \A i \in 1 .. Len(trail) :
    LooksBack(i, Len(trail) + 1) => prev = SignAt(i)

(* Only a question is answered.                                            *)
Unasked == \A i \in 1 .. Len(trail) : ~ trail[i].asked => trail[i].signal = "NONE"

XInv == IInv /\ KeptSign /\ Unasked /\ SignalIsCrossing

(* What is left of the older candles when one is added: the signs of their *)
(* averages and which of them were kept.                                   *)
LEMMA OlderCandles ==
  ASSUME IInv, NEW e \in Candles, trail' = Append(trail, e)
  PROVE  /\ \A i \in 1 .. Len(trail) : SignAt(i)' = SignAt(i)
         /\ KeptCandles' = KeptCandles \cup (IF e.asked THEN {Len(trail) + 1} ELSE {})
                                       \cup {1}
         /\ KeptCandles \subseteq 1 .. Len(trail) \cup {1}
<1>1. /\ Len(trail) \in Nat /\ Len(trail') = Len(trail) + 1
      /\ \A i \in 1 .. Len(trail) : trail'[i] = trail[i]
      /\ trail'[Len(trail) + 1] = e
      /\ Closes(trail, Len(trail))
  BY Longer DEF IInv
<1>2. ASSUME NEW i \in 1 .. Len(trail) PROVE SignAt(i)' = SignAt(i)
  <2>1. Closes(trail, i) /\ \A k \in 1 .. i : trail'[k] = trail[k]
    BY <1>1 DEF Closes
  <2>2. i \in Nat
    BY <1>1
  <2>3. /\ Mean(trail', Fast, i) = Mean(trail, Fast, i)
        /\ Mean(trail', Slow, i) = Mean(trail, Slow, i)
    BY <2>1, <2>2, MeanStable, PeriodsAssumption
  <2> QED
    BY <2>3 DEF SignAt
<1>3. \A i : i \in KeptCandles' <=>
         i \in KeptCandles \cup (IF e.asked THEN {Len(trail) + 1} ELSE {}) \cup {1}
  <2>1. \A i : i \in 1 .. Len(trail') <=> i \in 1 .. Len(trail) \/ i = Len(trail) + 1
    BY <1>1
  <2>2. Len(trail) + 1 \notin 1 .. Len(trail)
    BY <1>1
  <2> QED
    BY <1>1, <2>1, <2>2 DEF KeptCandles
<1>4. KeptCandles \subseteq 1 .. Len(trail) \cup {1}
  BY DEF KeptCandles
<1> QED
  BY <1>2, <1>3, <1>4

(* The sign of the difference after a candle that has just been added.     *)
LEMMA SignNext ==
  ASSUME IInv', NEW n \in Nat \ {0}, n = Len(trail'), Rounded = {"equal"},
         NEW now \in ComputedSigns(fast', slow')
  PROVE  now = SignAt(n)'
  BY DEF IInv, AveragesAreMeans, SignAt, ComputedSigns

(* The candle a question looks back to is the same for the older questions, *)
(* and for the new one the candle whose difference prev has.               *)
LEMMA LooksBackNext ==
  ASSUME IInv, NEW e \in Candles, trail' = Append(trail, e)
  PROVE  \A n \in 1 .. Len(trail) + 1, i \in 1 .. Len(trail) :
            LooksBack(i, n)' => LooksBack(i, n)
<1>1. Len(trail) \in Nat
  BY Longer DEF IInv
<1> TAKE n \in 1 .. Len(trail) + 1, i \in 1 .. Len(trail)
<1>2. i < n /\ i \in KeptCandles' => i \in KeptCandles
  BY <1>1, OlderCandles DEF KeptCandles
<1>3. KeptCandles \subseteq KeptCandles'
  BY OlderCandles
<1> QED
  BY <1>2, <1>3 DEF LooksBack

(* A candle keeps the invariant when prev and the signal are what          *)
(* generate_signal, or update, makes of them.                              *)
LEMMA CandleXInv ==
  ASSUME XInv, Rounded = {"equal"}, NEW close, NEW e \in Candles,
         NEW now \in ComputedSigns(fast', slow'),
         trail' = Append(trail, e), IInv',
         \/ /\ e = [close |-> close, asked |-> TRUE, signal |-> Cross(Before(now), now)]
            /\ prev' = now
         \/ /\ e = [close |-> close, asked |-> FALSE, signal |-> "NONE"]
            /\ prev' = Before(now)
  PROVE  XInv'
<1>0. PICK n : n = Len(trail) + 1
  OBVIOUS
<1>1. /\ Len(trail) \in Nat /\ Len(trail') = n /\ n = Len(trail) + 1
      /\ \A i \in 1 .. Len(trail) : trail'[i] = trail[i]
      /\ trail'[n] = e
  BY <1>0, Longer DEF XInv, IInv
<1>2. now = SignAt(n)'
  BY <1>1, SignNext
<1>3. n = 1 => prev = "none"
  <2>1. n = 1 => trail = <<>>
    BY <1>1, LenProperties, EmptySeq DEF XInv, IInv, TypeOK
  <2> QED
    BY <2>1 DEF XInv, IInv, Started
<1>4. n # 1 => prev # "none"
  <2>1. n # 1 => trail # <<>>
    BY <1>1, EmptySeq
  <2> QED
    BY <2>1 DEF XInv, IInv, Started
<1>5. ASSUME NEW i \in 1 .. Len(trail), LooksBack(i, n)' PROVE prev = SignAt(i)'
  <2>1. LooksBack(i, n) /\ SignAt(i)' = SignAt(i)
    BY <1>1, <1>5, LooksBackNext, OlderCandles DEF XInv
  <2> QED
    BY <1>1, <2>1 DEF XInv, KeptSign
<1>6. KeptSign'
  <2> SUFFICES ASSUME NEW i \in 1 .. n, LooksBack(i, n + 1)'
               PROVE  prev' = SignAt(i)'
    BY <1>1 DEF KeptSign
  <2>1. CASE i = n
    <3>1. CASE e.asked
      BY <1>2, <2>1, <3>1
    <3>2. CASE ~ e.asked
      <4>1. n = 1
        <5>1. n \in KeptCandles'
          BY <2>1 DEF LooksBack
        <5>2. n \notin KeptCandles \/ n = 1
          BY <1>1 DEF KeptCandles
        <5> QED
          BY <3>2, <5>1, <5>2, OlderCandles DEF XInv
      <4>2. prev' = now
        BY <1>3, <3>2, <4>1 DEF Before
      <4> QED
        BY <1>2, <2>1, <4>2
    <3> QED
      BY <3>1, <3>2
  <2>2. CASE i # n
    <3>1. n \notin KeptCandles'
      BY <1>1, <2>2 DEF LooksBack
    <3>2. ~ e.asked
      BY <1>1, <3>1, OlderCandles DEF XInv
    <3>3. LooksBack(i, n)' /\ i \in 1 .. Len(trail)
      <4>1. \A k \in KeptCandles' : k <= i
        <5>1. \A k \in KeptCandles' : k \in Int /\ k <= n
          BY <1>1 DEF KeptCandles
        <5>2. \A k \in KeptCandles' : k <= i \/ k >= n + 1
          BY DEF LooksBack
        <5>3. n \in Int
          BY <1>1
        <5> QED
          BY <5>1, <5>2, <5>3
      <4> QED
        BY <1>1, <2>2, <4>1 DEF LooksBack
    <3>4. prev = SignAt(i)'
      BY <1>5, <3>3
    <3>5. prev' = prev
      BY <1>1, <1>4, <3>2, <3>3 DEF Before
    <3> QED
      BY <3>4, <3>5
  <2> QED
    BY <2>1, <2>2
<1>7. Unasked'
  BY <1>1 DEF XInv, Unasked
<1>8. SignalIsCrossing'
  <2> SUFFICES ASSUME NEW m \in 1 .. n, trail'[m].asked
               PROVE  IF m = 1 THEN trail'[m].signal = "NONE"
                      ELSE \A i \in 1 .. m : LooksBack(i, m)' =>
                         /\ trail'[m].signal = "LONG"
                              <=> SignAt(i)' # "above" /\ SignAt(m)' = "above"
                         /\ trail'[m].signal = "SHORT"
                              <=> SignAt(i)' # "below" /\ SignAt(m)' = "below"
    BY <1>1 DEF SignalIsCrossing
  <2>1. CASE m \in 1 .. Len(trail)
    <3>1. trail'[m] = trail[m]
      BY <1>1, <2>1
    <3>2. \A i \in 1 .. m : LooksBack(i, m)' =>
             LooksBack(i, m) /\ SignAt(i)' = SignAt(i) /\ SignAt(m)' = SignAt(m)
      BY <1>1, <2>1, LooksBackNext, OlderCandles DEF XInv
    <3>3. IF m = 1 THEN trail[m].signal = "NONE"
          ELSE \A i \in 1 .. m : LooksBack(i, m) =>
             /\ trail[m].signal = "LONG" <=> SignAt(i) # "above" /\ SignAt(m) = "above"
             /\ trail[m].signal = "SHORT" <=> SignAt(i) # "below" /\ SignAt(m) = "below"
      BY <2>1, <3>1 DEF XInv, SignalIsCrossing
    <3> QED
      BY <3>1, <3>2, <3>3
  <2>2. CASE m = n
    <3>1. e.asked /\ e.signal = Cross(Before(now), now)
      BY <1>1, <2>2
    <3>2. CASE n = 1
      <4>1. Before(now) = now
        BY <1>3, <3>2 DEF Before
      <4> QED
        BY <1>1, <2>2, <3>1, <3>2, <4>1 DEF Cross
    <3>3. CASE n # 1
      <4>1. Before(now) = prev
        BY <1>4, <3>3 DEF Before
      <4> SUFFICES ASSUME NEW i \in 1 .. n, LooksBack(i, n)'
                   PROVE  /\ e.signal = "LONG"
                               <=> SignAt(i)' # "above" /\ SignAt(n)' = "above"
                          /\ e.signal = "SHORT"
                               <=> SignAt(i)' # "below" /\ SignAt(n)' = "below"
        BY <1>1, <2>2, <3>3
      <4>2. i \in 1 .. Len(trail)
        BY <1>1 DEF LooksBack
      <4>3. prev = SignAt(i)'
        BY <1>5, <4>2
      <4>4. e.signal = Cross(SignAt(i)', SignAt(n)')
        BY <1>2, <3>1, <4>1, <4>3
      <4> QED
        BY <4>4 DEF Cross
    <3> QED
      BY <3>2, <3>3
  <2> QED
    BY <1>1, <2>1, <2>2
<1> QED
  BY <1>6, <1>7, <1>8 DEF XInv

(* Every step keeps the invariant of the signals.                          *)
LEMMA NextXInv == Rounded = {"equal"} /\ XInv /\ [Next]_vars => XInv'
<1> SUFFICES ASSUME Rounded = {"equal"}, XInv, [Next]_vars PROVE XInv'
  OBVIOUS
<1>1. IInv /\ IInv'
  BY NextIInv DEF XInv
<1>2. ASSUME NEW p \in Prices, GenerateSignal(p) PROVE XInv'
  <2>1. PICK now \in ComputedSigns(fast', slow'), e \in Candles :
           /\ e = [close |-> p, asked |-> TRUE, signal |-> Cross(Before(now), now)]
           /\ prev' = now /\ trail' = Append(trail, e)
    BY <1>1, <1>2, GenerateSignalIs
  <2> QED
    BY <1>1, <2>1, CandleXInv
<1>3. ASSUME NEW p \in Prices, Update(p) PROVE XInv'
  <2>1. PICK now \in ComputedSigns(fast', slow'), e \in Candles :
           /\ e = [close |-> p, asked |-> FALSE, signal |-> "NONE"]
           /\ prev' = Before(now) /\ trail' = Append(trail, e)
    BY <1>1, <1>3, UpdateIs
  <2> QED
    BY <1>1, <2>1, CandleXInv
<1>4. CASE Reset
  <2>1. Len(trail') = 0
    BY <1>4 DEF Reset
  <2> QED
    BY <1>1, <2>1 DEF XInv, KeptSign, Unasked, SignalIsCrossing
<1>5. CASE UNCHANGED vars
  BY <1>1, <1>5 DEF vars, XInv, KeptSign, Unasked, SignalIsCrossing, LooksBack, KeptCandles, SignAt
<1> QED
  BY <1>2, <1>3, <1>4, <1>5 DEF Next

(* Where no two equal averages are computed to be different.  The program  *)
(* does compute such, for some periods and closes, and then two candles of *)
(* one price may seem to cross.                                            *)
THEOREM ExactInductive == Rounded = {"equal"} /\ Spec => []XInv
<1> SUFFICES ASSUME Rounded = {"equal"} PROVE Spec => []XInv
  OBVIOUS
<1>1. Init => XInv
  <2>1. Init => Len(trail) = 0
    BY DEF Init
  <2> QED
    BY <2>1, InitIInv DEF XInv, KeptSign, Unasked, SignalIsCrossing
<1>2. XInv /\ [Next]_vars => XInv'
  BY NextXInv
<1> QED
  BY <1>1, <1>2, PTL DEF Spec

(* A signal is the crossing of the averages between the last candle that   *)
(* was kept and this one, and without a crossing there is no signal.       *)
THEOREM SignalsAreCrossings == Rounded = {"equal"} /\ Spec => []SignalIsCrossing
<1> SUFFICES ASSUME Rounded = {"equal"} PROVE Spec => []SignalIsCrossing
  OBVIOUS
<1>1. XInv => SignalIsCrossing
  BY DEF XInv
<1> QED
  BY <1>1, ExactInductive, PTL

(* Among the kept candles before a question, one is the last.              *)
LEMMA LastKept ==
  ASSUME TypeOK, NEW n \in 2 .. Len(trail)
  PROVE  \E i \in 1 .. n - 1 : LooksBack(i, n)
<1> DEFINE K == {k \in KeptCandles : k < n}
           T == {n - k : k \in K}
<1>1. Len(trail) \in Nat
  BY LenProperties DEF TypeOK
<1>2. K \subseteq 1 .. n - 1 /\ 1 \in K
  BY <1>1 DEF KeptCandles
<1>3. T \in SUBSET Nat /\ T # {}
  <2> HIDE DEF K
  <2> QED
    BY <1>1, <1>2
<1>4. PICK m \in T : \A k \in T : m <= k
  <2> HIDE DEF T
  <2> QED
    BY <1>3, Smallest
<1>5. PICK i \in K : m = n - i
  BY <1>4
<1>6. \A k \in K : k <= i
  <2> SUFFICES ASSUME NEW k \in K PROVE k <= i
    OBVIOUS
  <2>1. n - i <= n - k
    BY <1>4, <1>5
  <2>2. i \in Int /\ k \in Int /\ n \in Int
    BY <1>1, <1>2
  <2> QED
    BY <2>1, <2>2
<1>7. \A k \in KeptCandles : k <= i \/ k >= n
  <2>1. KeptCandles \subseteq Int /\ n \in Int
    BY <1>1 DEF KeptCandles
  <2> QED
    BY <1>6, <2>1
<1> QED
  BY <1>1, <1>2, <1>5, <1>7 DEF LooksBack

(* s is the answer to a crossing to the sign up, r to one to the sign down. *)
Answers(s, up, r, down) ==
    /\ s # "NONE" /\ r # "NONE" /\ up # down
    /\ \A n \in 1 .. Len(trail) : SignAt(n) \in {up, down, "equal"}
    /\ \A n \in 2 .. Len(trail), i \in 1 .. Len(trail) :
          trail[n].asked /\ LooksBack(i, n) =>
             /\ trail[n].signal = s <=> SignAt(i) # up /\ SignAt(n) = up
             /\ trail[n].signal = r <=> SignAt(i) # down /\ SignAt(n) = down

(* Two signals s in a row: after the first one the averages are at up, and *)
(* before the second they were not.  The first question in between with    *)
(* another sign saw them meet, for from up to down it would have been      *)
(* answered with r.                                                        *)
LEMMA Alternate ==
  ASSUME XInv, NEW s, NEW up, NEW r, NEW down, Answers(s, up, r, down),
         NEW i \in 1 .. Len(trail), NEW j \in 1 .. Len(trail), i < j,
         trail[i].signal = s, trail[j].signal = s,
         \A k \in i + 1 .. j - 1 : trail[k].signal = "NONE"
  PROVE  \E k \in i + 1 .. j - 1 : trail[k].asked /\ SignAt(k) = "equal"
<1> USE DEF Answers
<1>1. TypeOK /\ Len(trail) \in Nat
  BY LenProperties DEF XInv, IInv, TypeOK
<1>2. /\ \A k \in KeptCandles : k \in 1 .. Len(trail) \/ k = 1
      /\ \A k \in KeptCandles : k # 1 => trail[k].asked
  BY DEF KeptCandles
<1>3. i > 1 /\ trail[i].asked /\ trail[j].asked
  <2>1. trail[i].asked /\ trail[j].asked
    BY DEF XInv, Unasked
  <2>2. i # 1
    BY <2>1 DEF XInv, SignalIsCrossing
  <2> QED
    BY <1>1, <2>1, <2>2
<1>4. SignAt(i) = up /\ i \in KeptCandles
  <2>1. PICK b \in 1 .. i - 1 : LooksBack(b, i)
    BY <1>1, <1>3, LastKept
  <2> QED
    BY <1>1, <1>3, <2>1 DEF KeptCandles
<1>5. ASSUME NEW n \in i + 1 .. j
      PROVE  \E b \in i .. n - 1 :
                /\ LooksBack(b, n)
                /\ b = i \/ (b \in i + 1 .. n - 1 /\ trail[b].asked)
  <2>1. PICK b \in 1 .. n - 1 : LooksBack(b, n)
    BY <1>1, <1>3, LastKept
  <2>2. b >= i
    BY <1>1, <1>4, <2>1 DEF LooksBack
  <2>3. b = i \/ (b \in i + 1 .. n - 1 /\ trail[b].asked)
    BY <1>1, <1>2, <1>3, <2>1, <2>2 DEF LooksBack
  <2> QED
    BY <1>1, <2>1, <2>2, <2>3
<1> DEFINE T == {k \in i + 1 .. j - 1 : trail[k].asked /\ SignAt(k) # up}
<1>6. T # {}
  <2>1. PICK b \in i .. j - 1 :
           LooksBack(b, j) /\ (b = i \/ (b \in i + 1 .. j - 1 /\ trail[b].asked))
    BY <1>1, <1>5
  <2>2. SignAt(b) # up
    BY <1>1, <1>3, <2>1
  <2> QED
    BY <1>4, <2>1, <2>2
<1>7. PICK m \in T : \A k \in T : m <= k
  <2>1. T \in SUBSET Nat
    BY <1>1
  <2> HIDE DEF T
  <2> QED
    BY <1>6, <2>1, Smallest
<1>8. PICK b \in i .. m - 1 :
         LooksBack(b, m) /\ (b = i \/ (b \in i + 1 .. m - 1 /\ trail[b].asked))
  BY <1>1, <1>5
<1>9. SignAt(b) = up
  <2>1. b # i => b \in i + 1 .. j - 1 /\ ~ (m <= b)
    BY <1>1, <1>8
  <2>2. b \notin T \/ b = i
    BY <1>7, <2>1
  <2> QED
    BY <1>4, <1>8, <2>1, <2>2
<1>10. SignAt(m) # down
  <2>1. trail[m].signal = "NONE" /\ trail[m].asked
    BY <1>7
  <2>2. m \in 2 .. Len(trail) /\ b \in 1 .. Len(trail)
    BY <1>1, <1>3, <1>8
  <2> QED
    BY <1>8, <1>9, <2>1, <2>2
<1>11. SignAt(m) = "equal"
  <2>1. m \in 1 .. Len(trail)
    BY <1>1, <1>3
  <2> QED
    BY <1>7, <1>10, <2>1
<1> QED
  BY <1>7, <1>11

(* Two equal signals in a row only when the averages met in between: that  *)
(* the executor drops a repeated signal loses no reversal.                 *)
THEOREM SignalsDoAlternate == Rounded = {"equal"} /\ Spec => []SignalsAlternate
<1> SUFFICES ASSUME Rounded = {"equal"} PROVE Spec => []SignalsAlternate
  OBVIOUS
<1>1. XInv => SignalsAlternate
  <2> SUFFICES ASSUME XInv,
                      NEW i \in 1 .. Len(trail), NEW j \in 1 .. Len(trail),
                      i < j, trail[i].signal # "NONE", trail[j].signal = trail[i].signal,
                      \A k \in i + 1 .. j - 1 : trail[k].signal = "NONE"
               PROVE  \E k \in i + 1 .. j - 1 : trail[k].asked /\ SignAt(k) = "equal"
    BY DEF SignalsAlternate
  <2>1. \A n \in 2 .. Len(trail), b \in 1 .. Len(trail) :
           trail[n].asked /\ LooksBack(b, n) =>
              /\ trail[n].signal = "LONG" <=> SignAt(b) # "above" /\ SignAt(n) = "above"
              /\ trail[n].signal = "SHORT" <=> SignAt(b) # "below" /\ SignAt(n) = "below"
    <3>1. Len(trail) \in Nat
      BY LenProperties DEF XInv, IInv, TypeOK
    <3>2. ASSUME NEW n \in 2 .. Len(trail), NEW b \in 1 .. Len(trail), LooksBack(b, n)
          PROVE  b \in 1 .. n /\ n \in 1 .. Len(trail) /\ n # 1
      BY <3>1, <3>2 DEF LooksBack
    <3> QED
      BY <3>2 DEF XInv, SignalIsCrossing
  <2>2. \A n \in 1 .. Len(trail) : SignAt(n) \in {"above", "below", "equal"}
    BY SignsType DEF SignAt, Signs
  <2>3. trail[i].signal \in {"LONG", "SHORT"}
    <3>1. trail \in Seq(Candles)
      BY DEF XInv, IInv, TypeOK, Candles
    <3>2. trail[i] \in Candles
      BY <3>1, ElementOfSeq
    <3> QED
      BY <3>2 DEF Candles, Signals
  <2>4. CASE trail[i].signal = "LONG"
    <3>1. Answers("LONG", "above", "SHORT", "below")
      BY <2>1, <2>2 DEF Answers
    <3> QED
      BY <2>4, <3>1, Alternate
  <2>5. CASE trail[i].signal = "SHORT"
    <3>1. Answers("SHORT", "below", "LONG", "above")
      BY <2>1, <2>2 DEF Answers
    <3> QED
      BY <2>5, <3>1, Alternate
  <2> QED
    BY <2>3, <2>4, <2>5
<1> QED
  BY <1>1, ExactInductive, PTL

-----------------------------------------------------------------------------
(* The signal and the price.                                               *)

(* A fast average that is not above the slow one stays so on a close that  *)
(* is not above the slow average, and the other way round.  How far the    *)
(* new averages are apart is, cross-multiplied, a part of what the old     *)
(* ones were, and a part of how far the close is from the slow one: the    *)
(* fast one gives more weight to the close.                                *)
LEMMA NoCrossing ==
  ASSUME NEW f \in Emas, NEW s \in Emas, f.den # 0, s.den # 0,
         NEW c \in Nat, NEW p \in Nat \ {0}, NEW q \in Nat \ {0}, p < q
  PROVE  /\ Compare(f, s) # "above" /\ c * s.den <= s.num
              => Compare(Updated(f, p, c), Updated(s, q, c)) # "above"
         /\ Compare(f, s) # "below" /\ c * s.den >= s.num
              => Compare(Updated(f, p, c), Updated(s, q, c)) # "below"
<1>1. PICK x \in Nat, d \in Nat, y \in Nat, e \in Nat :
         f = [num |-> x, den |-> d] /\ s = [num |-> y, den |-> e]
  BY DEF Emas
<1>2. d # 0 /\ e # 0
  BY <1>1
<1>3. /\ Updated(f, p, c) = [num |-> 2 * c * d + (p - 1) * x, den |-> (p + 1) * d]
      /\ Updated(s, q, c) = [num |-> 2 * c * e + (q - 1) * y, den |-> (q + 1) * e]
  BY <1>1, <1>2 DEF Updated
<1>4. PICK L \in Int, R \in Int :
         /\ L = (2 * c * d + (p - 1) * x) * ((q + 1) * e)
         /\ R = (2 * c * e + (q - 1) * y) * ((p + 1) * d)
  OBVIOUS
<1>5. PICK A \in Int, B \in Int, X \in Int :
         A = (c * e) * d /\ B = y * d /\ X = x * e
  <2>1. \A u, v \in Nat : u * v \in Int /\ u * v \in Nat
    OBVIOUS
  <2> QED
    BY <2>1
<1>6. PICK k \in Nat, m \in Nat : R - L = m * (B - A) + k * (B - X)
  <2>1. PICK k \in Nat, m \in Nat : k = (p - 1) * (q + 1) /\ m = 2 * (q - p)
    OBVIOUS
  <2>2. L = (q + 1) * (2 * A) + k * X
    BY <1>4, <1>5, <2>1
  <2>3. R = (p + 1) * (2 * A) + ((q - 1) * (p + 1)) * B
    BY <1>4, <1>5
  <2>4. ((q - 1) * (p + 1)) * B = k * B + m * B
    BY <2>1
  <2>5. (p + 1) * (2 * A) = (q + 1) * (2 * A) - m * A
    BY <2>1
  <2>6. m * (B - A) = m * B - m * A /\ k * (B - X) = k * B - k * X
    OBVIOUS
  <2>7. PICK kB \in Int, kX \in Int, mA \in Int, mB \in Int, U \in Int :
           kB = k * B /\ kX = k * X /\ mA = m * A /\ mB = m * B /\ U = (q + 1) * (2 * A)
    OBVIOUS
  <2>8. L = U + kX /\ R = U - mA + (kB + mB)
    BY <2>2, <2>3, <2>4, <2>5, <2>7
  <2>9. m * (B - A) = mB - mA /\ k * (B - X) = kB - kX
    BY <2>6, <2>7
  <2>10. R - L = m * (B - A) + k * (B - X)
    BY <2>8, <2>9
  <2> QED
    BY <2>10
<1>7. /\ Compare(f, s) = IF X < B THEN "below" ELSE IF X > B THEN "above" ELSE "equal"
      /\ Compare(Updated(f, p, c), Updated(s, q, c))
           = IF L < R THEN "below" ELSE IF L > R THEN "above" ELSE "equal"
  BY <1>1, <1>3, <1>4, <1>5 DEF Compare
<1>8. ASSUME X <= B, c * e <= y PROVE L <= R
  <2>1. A <= B
    <3>1. \A u, v \in Nat : u <= v => u * d <= v * d
      OBVIOUS
    <3>2. c * e \in Nat
      OBVIOUS
    <3> QED
      BY <1>5, <1>8, <3>1, <3>2
  <2>2. \A n \in Nat, u \in Int : u >= 0 => n * u >= 0 /\ n * u \in Int
    OBVIOUS
  <2>3. m * (B - A) >= 0 /\ k * (B - X) >= 0 /\ m * (B - A) \in Int /\ k * (B - X) \in Int
    BY <1>8, <2>1, <2>2
  <2> QED
    BY <1>6, <2>3
<1>9. ASSUME X >= B, c * e >= y PROVE L >= R
  <2>1. A >= B
    <3>1. \A u, v \in Nat : u >= v => u * d >= v * d
      OBVIOUS
    <3>2. c * e \in Nat
      OBVIOUS
    <3> QED
      BY <1>5, <1>9, <3>1, <3>2
  <2>2. \A n \in Nat, u \in Int : u <= 0 => n * u <= 0 /\ n * u \in Int
    OBVIOUS
  <2>3. m * (B - A) <= 0 /\ k * (B - X) <= 0 /\ m * (B - A) \in Int /\ k * (B - X) \in Int
    BY <1>9, <2>1, <2>2
  <2> QED
    BY <1>6, <2>3
<1>10. c * s.den = c * e /\ s.num = y
  BY <1>1
<1> QED
  BY <1>7, <1>8, <1>9, <1>10

(* What a question on a fresh state answers.                               *)
LEMMA FreshQuestion ==
  ASSUME XInv, Fresh, Rounded = {"equal"}, Fast < Slow, NEW close \in Prices, GenerateSignal(close)
  PROVE  LET c == LastClose(trail')
             g == LastSignal(trail')
         IN  /\ g = "LONG" => c * slow.den > slow.num
             /\ g \notin {"LONG", "NONE"} => c * slow.den < slow.num
<1>1. PICK now \in ComputedSigns(fast', slow'), e \in Candles :
         /\ e = [close |-> close, asked |-> TRUE, signal |-> Cross(Before(now), now)]
         /\ trail' = Append(trail, e) /\ Averages(e.close)
  BY GenerateSignalIs DEF XInv
<1>2. /\ Len(trail) \in Nat /\ Len(trail') = Len(trail) + 1 /\ trail' # <<>>
      /\ trail'[Len(trail) + 1] = e /\ Closes(trail, Len(trail))
  BY <1>1, Longer DEF XInv, IInv
<1>3. LastSignal(trail') = Cross(Before(now), now) /\ LastClose(trail') = close
  BY <1>1, <1>2 DEF LastSignal, LastClose
<1>4. CASE trail = <<>>
  <2>1. prev = "none"
    BY <1>4 DEF XInv, IInv, Started
  <2>2. Cross(Before(now), now) = "NONE"
    BY <2>1 DEF Before, Cross
  <2> QED
    BY <1>3, <2>2
<1>5. CASE trail # <<>>
  <2>1. Len(trail) \in Nat \ {0}
    BY <1>2, <1>5, LenProperties, EmptySeq DEF XInv, IInv, TypeOK
  <2>2. LooksBack(Len(trail), Len(trail) + 1)
    <3>1. \A k \in KeptCandles : k \in 1 .. Len(trail)
      BY <2>1 DEF KeptCandles
    <3> QED
      BY <1>5, <2>1, <3>1 DEF Fresh, LooksBack
  <2>3. prev = Compare(fast, slow)
    BY <2>1, <2>2 DEF XInv, IInv, KeptSign, SignAt, AveragesAreMeans
  <2>4. fast \in Emas /\ slow \in Emas /\ fast.den # 0 /\ slow.den # 0
    BY <1>2, <2>1, MeanType, PeriodsAssumption DEF XInv, IInv, TypeOK, AveragesAreMeans
  <2>5. close \in Nat
    BY PricesAssumption
  <2>6. now = Compare(Updated(fast, Fast, close), Updated(slow, Slow, close))
    BY <1>1 DEF ComputedSigns, Averages
  <2>7. Before(now) = prev
    BY <1>5 DEF Before, XInv, IInv, Started
  <2>8. /\ prev # "above" /\ close * slow.den <= slow.num => now # "above"
        /\ prev # "below" /\ close * slow.den >= slow.num => now # "below"
    BY <2>3, <2>4, <2>5, <2>6, NoCrossing, PeriodsAssumption
  <2>9. close * slow.den \in Int /\ slow.num \in Int
    BY <2>4, <2>5 DEF Emas
  <2> QED
    BY <1>3, <2>7, <2>8, <2>9 DEF Cross
<1> QED
  BY <1>4, <1>5

(* With fast < slow and a question at every candle, no signal goes against *)
(* the price: LONG only on a close above the slow average, SHORT below it. *)
THEOREM SignalsFollowThePrice ==
  Rounded = {"equal"} /\ Fast < Slow /\ Spec => SignalFollowsPrice
<1> SUFFICES ASSUME Rounded = {"equal"}, Fast < Slow PROVE Spec => SignalFollowsPrice
  OBVIOUS
<1> DEFINE Follows ==
      /\ Fresh
      /\ LastSignal(trail') # "NONE"
      => IF LastSignal(trail') = "LONG"
           THEN LastClose(trail') * slow.den > slow.num
           ELSE LastClose(trail') * slow.den < slow.num
<1>1. ASSUME XInv, [Next]_vars PROVE [Follows]_vars
  <2>1. ASSUME NEW p \in Prices, GenerateSignal(p) PROVE Follows
    BY <1>1, <2>1, FreshQuestion
  <2>2. ASSUME NEW p \in Prices, Update(p) PROVE LastSignal(trail') = "NONE"
    <3>1. PICK e \in Candles : e.signal = "NONE" /\ trail' = Append(trail, e)
      BY <1>1, <2>2, UpdateIs DEF XInv
    <3> QED
      BY <1>1, <3>1, Longer DEF XInv, IInv, LastSignal
  <2>3. Reset => LastSignal(trail') = "NONE"
    BY DEF Reset, LastSignal
  <2> QED
    BY <1>1, <2>1, <2>2, <2>3 DEF Next
<1> QED
  BY <1>1, ExactInductive, PTL DEF Spec, SignalFollowsPrice
=============================================================================
