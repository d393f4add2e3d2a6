-------------------------- MODULE ArchLayoutProofs --------------------------
(***************************************************************************)
(* Proofs about the layout of diagrams, for any topologies, edges, drags   *)
(* and number of layouts.  What is proved by induction over sequences goes *)
(* by least counterexamples (UpTo), which needs no operator parameter.     *)
(***************************************************************************)
EXTENDS ArchLayout, FiniteSetTheorems, SequenceTheorems, WellFoundedInduction, TLAPS

-----------------------------------------------------------------------------
(* Counting and sums *)

(* A set of numbers has a least one. *)
LEMMA LeastNatural ==
  ASSUME NEW T \in SUBSET Nat, T # {}
  PROVE  \E m \in T : \A k \in T : m <= k
<1> DEFINE Below == {0..n : n \in T}
<1>1. IsWellFoundedOn(StrictSubsetOrdering(Nat), FiniteSubsetsOf(Nat))
  BY FS_StrictSubsetOrderingWellFounded
<1>2. Below \subseteq FiniteSubsetsOf(Nat)
  <2>1. ASSUME NEW n \in T PROVE 0..n \in FiniteSubsetsOf(Nat)
    <3>1. 0 \in Int /\ n \in Int
      OBVIOUS
    <3>2. IsFiniteSet(0..n)
      BY <3>1, FS_Interval
    <3> QED BY <3>2 DEF FiniteSubsetsOf
  <2> QED BY <2>1
<1>3. Below # {}
  OBVIOUS
<1> HIDE DEF Below
<1>4. PICK x \in Below : \A y \in Below : ~(<<y, x>> \in StrictSubsetOrdering(Nat))
  BY <1>1, <1>2, <1>3, WFMin
<1>5. PICK m \in T : x = 0..m
  BY DEF Below
<1>6. ASSUME NEW k \in T, k < m PROVE FALSE
  <2>1. 0..k \in Below /\ 0..k \subseteq 0..m /\ 0..k # 0..m /\ 0..m \subseteq Nat /\ 0..k \subseteq Nat
    BY <1>6 DEF Below
  <2> QED BY <1>4, <1>5, <2>1 DEF StrictSubsetOrdering
<1>7. \A k \in T : m <= k
  BY <1>6
<1> QED BY <1>7

(* What holds of 0 and is passed on from each number to the next one holds up to k: else there *)
(* were a least number of which it does not.                                                   *)
LEMMA UpTo ==
  ASSUME NEW k \in Nat, NEW T, 0 \in T, \A n \in 1..k : n - 1 \in T => n \in T
  PROVE  0..k \subseteq T
<1> DEFINE Out == (0..k) \ T
<1>1. SUFFICES Out = {}
  OBVIOUS
<1>2. SUFFICES ASSUME Out # {} PROVE FALSE
  OBVIOUS
<1>3. Out \in SUBSET Nat
  OBVIOUS
<1>4. PICK m \in Out : \A n \in Out : m <= n
  BY <1>2, <1>3, LeastNatural
<1>5. m \in 1..k
  OBVIOUS
<1>6. m - 1 \in 0..k /\ ~(m <= m - 1)
  BY <1>5
<1>7. m - 1 \in T
  BY <1>4, <1>6
<1> QED BY <1>5, <1>7

(* f starts at base and goes on by step, up to k. *)
Builds(f, k, S, base, step) == f \in [0..k -> S] /\ f[0] = base /\ \A n \in 1..k : f[n] = step[<<f[n - 1], n>>]
StepsInside(step, k, S) == \A n \in 1..k : \A x \in S : step[<<x, n>>] \in S

(* A function defined by recursion on 0..k exists. *)
LEMMA Recursion ==
  ASSUME NEW k \in Nat, NEW S, NEW base \in S, NEW step, StepsInside(step, k, S)
  PROVE  \E f : Builds(f, k, S, base, step)
<1> DEFINE T == {m \in 0..k : \E f : Builds(f, m, S, base, step)}
<1>1. 0 \in T
  <2>1. Builds([n \in 0..0 |-> base], 0, S, base, step)
    BY DEF Builds
  <2> QED BY <2>1
<1>2. ASSUME NEW m \in 1..k, m - 1 \in T PROVE m \in T
  <2>1. PICK f : Builds(f, m - 1, S, base, step)
    BY <1>2
  <2> DEFINE g == [n \in 0..m |-> IF n = m THEN step[<<f[m - 1], m>>] ELSE f[n]]
  <2>2. f[m - 1] \in S
    BY <2>1 DEF Builds
  <2>3. g \in [0..m -> S]
    BY <2>1, <2>2 DEF Builds, StepsInside
  <2>4. g[0] = base
    BY <2>1 DEF Builds
  <2>5. ASSUME NEW n \in 1..m PROVE g[n] = step[<<g[n - 1], n>>]
    <3>1. CASE n = m
      BY <3>1
    <3>2. CASE n # m
      <4>1. n \in 1..(m - 1) /\ n - 1 # m /\ n - 1 \in 0..m /\ n \in 0..m
        BY <3>2
      <4>2. g[n] = f[n] /\ g[n - 1] = f[n - 1]
        BY <3>2, <4>1
      <4> QED BY <2>1, <4>1, <4>2 DEF Builds
    <3> QED BY <3>1, <3>2
  <2>6. Builds(g, m, S, base, step)
    BY <2>3, <2>4, <2>5 DEF Builds
  <2> HIDE DEF g
  <2> QED BY <2>6
<1> HIDE DEF T
<1>3. 0..k \subseteq T
  BY <1>1, <1>2, UpTo
<1>4. k \in T
  BY <1>3
<1> QED BY <1>4 DEF T

(* The recursive function of the sums is what it says: each sum is the one before and one number more. *)
LEMMA SumsDef ==
  ASSUME NEW numbers \in Seq(Int)
  PROVE  /\ Sums(numbers) \in [0..Len(numbers) -> Int]
         /\ Sums(numbers)[0] = 0
         /\ \A n \in 1..Len(numbers) : Sums(numbers)[n] = Sums(numbers)[n - 1] + numbers[n]
<1> DEFINE k == Len(numbers)
           step == [pair \in Int \X (1..k) |-> pair[1] + numbers[pair[2]]]
           Def(f) == [n \in 0..k |-> IF n = 0 THEN 0 ELSE f[n - 1] + numbers[n]]
<1>1. k \in Nat /\ \A n \in 1..k : numbers[n] \in Int
  OBVIOUS
<1>2. \A n \in 1..k : \A x \in Int : step[<<x, n>>] = x + numbers[n]
  OBVIOUS
<1>3. StepsInside(step, k, Int)
  <2>1. ASSUME NEW n \in 1..k, NEW x \in Int PROVE step[<<x, n>>] \in Int
    <3>1. step[<<x, n>>] = x + numbers[n] /\ numbers[n] \in Int
      BY <1>1, <1>2
    <3> HIDE DEF step
    <3> QED BY <3>1
  <2> HIDE DEF step
  <2> QED BY <2>1 DEF StepsInside
<1> HIDE DEF step, k
<1>4. PICK f : f \in [0..k -> Int] /\ f[0] = 0 /\ \A n \in 1..k : f[n] = step[<<f[n - 1], n>>]
  <2>1. 0 \in Int
    OBVIOUS
  <2>2. \E f : Builds(f, k, Int, 0, step)
    BY <1>1, <1>3, <2>1, Recursion, Zenon
  <2> QED BY <2>2 DEF Builds
<1>5. ASSUME NEW n \in 0..k PROVE f[n] = Def(f)[n]
  <2>1. CASE n = 0
    BY <1>4, <2>1
  <2>2. CASE n # 0
    <3>1. n \in 1..k /\ f[n - 1] \in Int
      BY <1>1, <1>4, <2>2
    <3>2. f[n] = f[n - 1] + numbers[n]
      BY <1>2, <1>4, <3>1
    <3> QED BY <2>2, <3>2
  <2> QED BY <2>1, <2>2
<1>6. f = Def(f)
  <2> DEFINE g == Def(f)
  <2>1. g = [n \in 0..k |-> g[n]]
    OBVIOUS
  <2>2. \A n \in 0..k : f[n] = g[n]
    BY <1>5
  <2> HIDE DEF g
  <2>3. f = g
    BY <1>4, <2>1, <2>2
  <2> QED BY <2>3 DEF g
<1>7. Sums(numbers) = CHOOSE g : g = Def(g)
  BY DEF Sums, k
<1> DEFINE s == Sums(numbers)
<1>8. s = Def(s)
  BY <1>6, <1>7
<1> HIDE DEF s
<1>9. s[0] = 0 /\ \A n \in 1..k : s[n] = s[n - 1] + numbers[n]
  <2>1. s[0] = 0
    BY <1>1, <1>8
  <2>2. ASSUME NEW n \in 1..k PROVE s[n] = s[n - 1] + numbers[n]
    <3>1. n \in 0..k /\ n # 0
      BY <1>1
    <3> QED BY <1>8, <3>1
  <2> QED BY <2>1, <2>2
<1>10. s \in [0..k -> Int]
  <2> DEFINE T == {n \in 0..k : s[n] \in Int}
  <2>1. 0 \in T
    BY <1>1, <1>9
  <2>2. ASSUME NEW n \in 1..k, n - 1 \in T PROVE n \in T
    <3>1. s[n] = s[n - 1] + numbers[n] /\ s[n - 1] \in Int /\ numbers[n] \in Int /\ n \in 0..k
      BY <1>1, <1>9, <2>2
    <3> QED BY <3>1
  <2> HIDE DEF T
  <2>3. 0..k \subseteq T
    BY <1>1, <2>1, <2>2, UpTo
  <2>4. \A n \in 0..k : s[n] \in Int
    BY <2>3 DEF T
  <2>5. s = [n \in 0..k |-> s[n]]
    BY <1>8
  <2> QED BY <2>4, <2>5
<1> QED BY <1>9, <1>10 DEF s, k

(* Sums of natural numbers grow. *)
LEMMA SumsGrow ==
  ASSUME NEW numbers \in Seq(Nat)
  PROVE  /\ Sums(numbers) \in [0..Len(numbers) -> Nat]
         /\ \A n \in 1..Len(numbers) : Sums(numbers)[n] = Sums(numbers)[n - 1] + numbers[n]
         /\ \A m, n \in 0..Len(numbers) : m <= n => Sums(numbers)[m] <= Sums(numbers)[n]
<1> DEFINE k == Len(numbers)
           s == Sums(numbers)
<1>1. numbers \in Seq(Int) /\ k \in Nat /\ \A n \in 1..k : numbers[n] \in Nat
  OBVIOUS
<1>2. s \in [0..k -> Int] /\ s[0] = 0 /\ \A n \in 1..k : s[n] = s[n - 1] + numbers[n]
  BY <1>1, SumsDef
<1> HIDE DEF s, k
<1>3. ASSUME NEW m \in 0..k PROVE \A n \in 0..k : m <= n => s[m] <= s[n]
  <2> DEFINE T == {n \in 0..k : m <= n => s[m] <= s[n]}
  <2>1. 0 \in T
    BY <1>1, <1>2
  <2>2. ASSUME NEW n \in 1..k, n - 1 \in T PROVE n \in T
    <3>1. n \in 0..k /\ n - 1 \in 0..k /\ s[n] \in Int /\ s[n - 1] \in Int /\ s[m] \in Int /\ numbers[n] \in Nat
      BY <1>1, <1>2
    <3>2. s[n] = s[n - 1] + numbers[n]
      BY <1>2
    <3>3. m <= n - 1 => s[m] <= s[n - 1]
      BY <2>2
    <3> QED BY <3>1, <3>2, <3>3
  <2> HIDE DEF T
  <2>3. 0..k \subseteq T
    BY <1>1, <2>1, <2>2, UpTo
  <2> QED BY <2>3 DEF T
<1>4. s \in [0..k -> Nat]
  <2>1. \A n \in 0..k : s[n] \in Int /\ 0 <= s[n]
    BY <1>1, <1>2, <1>3
  <2> QED BY <1>2, <2>1
<1> QED BY <1>2, <1>3, <1>4 DEF s, k

(* Products of numbers. *)
LEMMA Products ==
  /\ \A a, b, c \in Nat : (a + b) * c = a * c + b * c /\ c * (a + b) = c * a + c * b /\ a * b \in Nat /\ a * b = b * a
  /\ \A a, b, c \in Nat : a <= b => a * c <= b * c
  /\ \A a, b, c \in Nat : c > 0 /\ a * c <= b * c => a <= b
<1>1. ASSUME NEW a \in Nat, NEW b \in Nat, NEW c \in Nat
      PROVE  (a + b) * c = a * c + b * c /\ c * (a + b) = c * a + c * b /\ a * b \in Nat /\ a * b = b * a
  BY SMT
<1>2. ASSUME NEW a \in Nat, NEW b \in Nat, NEW c \in Nat, a <= b PROVE a * c <= b * c
  <2>1. b = a + (b - a) /\ b - a \in Nat
    BY <1>2
  <2>2. b * c = a * c + (b - a) * c /\ (b - a) * c \in Nat
    BY <2>1, <1>1
  <2>3. a * c \in Nat
    BY <1>1
  <2> QED BY <2>2, <2>3
<1>3. ASSUME NEW a \in Nat, NEW b \in Nat, NEW c \in Nat, c > 0, a * c <= b * c PROVE a <= b
  <2> SUFFICES ASSUME b < a PROVE FALSE
    OBVIOUS
  <2>1. b + 1 <= a /\ b + 1 \in Nat
    OBVIOUS
  <2>2. (b + 1) * c <= a * c
    BY <2>1, <1>2
  <2>3. (b + 1) * c = b * c + c
    BY SMT
  <2>4. a * c \in Nat /\ b * c \in Nat
    BY <1>1
  <2> QED BY <1>3, <2>2, <2>3, <2>4
<1> QED BY <1>1, <1>2, <1>3

(* What a whole quotient is: a natural number, with less than the divisor left over. *)
LEMMA Quotients ==
  ASSUME NEW a \in Nat, NEW b \in Nat, b > 0
  PROVE  a \div b \in Nat /\ (a \div b) * b <= a /\ a < (a \div b) * b + b
BY SMT

SizesOf(weights, available) == [i \in DOMAIN weights |-> (available * weights[i]) \div Sums(weights)[Len(weights)]]

(* What the shares of a whole add up to: rounded down, they are never more than it. *)
LEMMA SharesAddUp ==
  ASSUME NEW weights \in Seq(Weight), NEW available \in Nat,
         NEW sizes, sizes = SizesOf(weights, available)
  PROVE  /\ sizes \in Seq(Nat) /\ Len(sizes) = Len(weights)
         /\ Sums(sizes) \in [0..Len(weights) -> Nat]
         /\ \A n \in 0..Len(weights) : Sums(sizes)[n] <= available
<1> DEFINE k == Len(weights)
           sum == Sums(weights)
           total == sum[k]
           size == Sums(sizes)
<1>1. k \in Nat /\ DOMAIN weights = 1..k /\ weights \in Seq(Nat) /\ \A i \in 1..k : weights[i] \in Nat /\ weights[i] > 0
  BY DEF Weight
<1>2. sum \in [0..k -> Nat] /\ (\A n \in 1..k : sum[n] = sum[n - 1] + weights[n]) /\ \A m, n \in 0..k : m <= n => sum[m] <= sum[n]
  BY <1>1, SumsGrow
<1>3. sizes = [i \in 1..k |-> (available * weights[i]) \div total]
  BY <1>1 DEF SizesOf
<1> HIDE DEF k, sum
<1>4. \A i \in 1..k : total >= weights[i] /\ total > 0
  <2> TAKE i \in 1..k
  <2>1. i \in 0..k /\ i - 1 \in 0..k /\ k \in 0..k /\ i <= k
    BY <1>1
  <2>2. sum[i] \in Nat /\ sum[i - 1] \in Nat /\ sum[k] \in Nat
    BY <1>2, <2>1
  <2>3. sum[i] = sum[i - 1] + weights[i] /\ sum[i] <= sum[k]
    BY <1>2, <2>1
  <2> QED BY <1>1, <2>2, <2>3
<1>5. \A i \in 1..k : sizes[i] \in Nat /\ sizes[i] * total <= available * weights[i]
  <2> TAKE i \in 1..k
  <2>1. available * weights[i] \in Nat
    BY <1>1, Products
  <2>2. total \in Nat /\ total > 0
    BY <1>1, <1>2, <1>4
  <2> HIDE DEF total
  <2> DEFINE a == available * weights[i]
  <2>3. sizes[i] = a \div total
    BY <1>3
  <2> HIDE DEF a
  <2>4. sizes[i] \in Nat /\ sizes[i] * total <= a
    BY <2>1, <2>2, <2>3, Quotients DEF a
  <2> QED BY <2>4 DEF a
<1>6. sizes \in Seq(Nat) /\ Len(sizes) = k
  <2>1. sizes \in [1..k -> Nat]
    BY <1>3, <1>5
  <2> QED BY <1>1, <2>1
<1>7. size \in [0..k -> Nat] /\ (\A n \in 1..k : size[n] = size[n - 1] + sizes[n]) /\ size[0] = 0
  <2>1. sizes \in Seq(Int)
    BY <1>6
  <2> QED BY <1>6, <2>1, SumsGrow, SumsDef
<1>8. \A n \in 0..k : size[n] * total <= available * sum[n]
  <2> DEFINE T == {n \in 0..k : size[n] * total <= available * sum[n]}
  <2>1. 0 \in T
    <3>1. total \in Nat /\ sum[0] \in Nat /\ 0 \in 0..k
      BY <1>1, <1>2
    <3>2. available * sum[0] \in Nat /\ 0 * total = 0
      BY <3>1, Products
    <3> QED BY <1>7, <3>1, <3>2
  <2>2. ASSUME NEW n \in 1..k, n - 1 \in T PROVE n \in T
    <3> DEFINE S == size[n - 1]
               P == sum[n - 1]
    <3>1. n \in 0..k /\ n - 1 \in 0..k /\ k \in 0..k
      BY <1>1
    <3>2. S \in Nat /\ P \in Nat /\ sizes[n] \in Nat /\ weights[n] \in Nat /\ total \in Nat
      BY <1>1, <1>2, <1>5, <1>7, <3>1
    <3>3. size[n] = S + sizes[n] /\ sum[n] = P + weights[n]
      BY <1>2, <1>7
    <3>4. S * total <= available * P
      BY <2>2
    <3>5. sizes[n] * total <= available * weights[n]
      BY <1>5
    <3> HIDE DEF S, P, total
    <3>6. (S + sizes[n]) * total = S * total + sizes[n] * total
      BY <3>2, Products
    <3>7. available * (P + weights[n]) = available * P + available * weights[n]
      BY <3>2, Products
    <3>8. S * total \in Nat /\ sizes[n] * total \in Nat /\ available * P \in Nat /\ available * weights[n] \in Nat
      BY <3>2, Products
    <3> QED BY <3>1, <3>3, <3>4, <3>5, <3>6, <3>7, <3>8
  <2> HIDE DEF T
  <2>3. 0..k \subseteq T
    BY <1>1, <2>1, <2>2, UpTo
  <2> QED BY <2>3 DEF T
<1>9. \A n \in 0..k : size[n] <= available
  <2> TAKE n \in 0..k
  <2>1. CASE k = 0
    <3>1. n = 0
      BY <2>1
    <3> QED BY <1>7, <3>1
  <2>2. CASE k # 0
    <3>1. total \in Nat /\ total > 0 /\ sum[n] \in Nat /\ sum[n] <= total /\ size[n] \in Nat
      <4>1. k \in 1..k /\ k \in 0..k /\ n <= k
        BY <1>1, <2>2
      <4> QED BY <1>2, <1>4, <1>7, <4>1
    <3> HIDE DEF total
    <3>2. sum[n] * available <= total * available
      BY <3>1, Products
    <3>3. size[n] * total <= available * total
      <4>1. size[n] * total \in Nat /\ available * sum[n] = sum[n] * available /\ available * total = total * available
            /\ sum[n] * available \in Nat /\ total * available \in Nat
        BY <3>1, Products
      <4>2. size[n] * total <= available * sum[n]
        BY <1>8 DEF total
      <4> QED BY <3>2, <4>1, <4>2
    <3> QED BY <3>1, <3>3, Products
  <2> QED BY <2>1, <2>2
<1> QED BY <1>6, <1>7, <1>9 DEF k

(* ... and what rounding down loses of a whole is less than there are shares. *)
LEMMA SharesLoseLittle ==
  ASSUME NEW weights \in Seq(Weight), NEW available \in Nat, Len(weights) > 0,
         NEW sizes, sizes = SizesOf(weights, available)
  PROVE  available < Sums(sizes)[Len(weights)] + Len(weights)
<1> DEFINE k == Len(weights)
           sum == Sums(weights)
           total == sum[k]
           size == Sums(sizes)
<1>1. k \in Nat /\ k > 0 /\ DOMAIN weights = 1..k /\ weights \in Seq(Nat) /\ \A i \in 1..k : weights[i] \in Nat /\ weights[i] > 0
  BY DEF Weight
<1>2. sum \in [0..k -> Nat] /\ (\A n \in 1..k : sum[n] = sum[n - 1] + weights[n]) /\ sum[0] = 0
  <2>1. weights \in Seq(Int)
    BY <1>1
  <2> QED BY <1>1, <2>1, SumsGrow, SumsDef
<1>3. sizes = [i \in 1..k |-> (available * weights[i]) \div total]
  BY <1>1 DEF SizesOf
<1>4. sizes \in Seq(Nat) /\ Len(sizes) = k
  BY SharesAddUp
<1>5. size \in [0..k -> Nat] /\ (\A n \in 1..k : size[n] = size[n - 1] + sizes[n]) /\ size[0] = 0
  <2>1. sizes \in Seq(Int)
    BY <1>4
  <2> QED BY <1>4, <2>1, SumsGrow, SumsDef
<1> HIDE DEF k, sum, size
<1>6. total \in Nat /\ total > 0
  <2>1. k \in 1..k /\ k \in 0..k /\ k - 1 \in 0..k
    BY <1>1
  <2>2. sum[k] = sum[k - 1] + weights[k] /\ sum[k] \in Nat /\ sum[k - 1] \in Nat
    BY <1>2, <2>1
  <2> QED BY <1>1, <2>1, <2>2
<1>7. \A i \in 1..k : sizes[i] \in Nat /\ available * weights[i] + 1 <= (sizes[i] + 1) * total
  <2> TAKE i \in 1..k
  <2> DEFINE a == available * weights[i]
  <2>1. a \in Nat
    BY <1>1, Products
  <2>2. sizes[i] = a \div total
    BY <1>3
  <2> HIDE DEF total, a
  <2>3. sizes[i] \in Nat /\ a < sizes[i] * total + total
    BY <1>6, <2>1, <2>2, Quotients
  <2>4. (sizes[i] + 1) * total = sizes[i] * total + 1 * total /\ sizes[i] * total \in Nat /\ 1 * total = total
    BY <1>6, <2>3, Products
  <2>5. a + 1 <= (sizes[i] + 1) * total
    BY <1>6, <2>1, <2>3, <2>4
  <2> QED BY <2>3, <2>5 DEF a
<1> HIDE DEF total
<1>8. \A n \in 0..k : available * sum[n] + n <= (size[n] + n) * total
  <2> DEFINE T == {n \in 0..k : available * sum[n] + n <= (size[n] + n) * total}
  <2>1. 0 \in T
    <3>1. available * 0 = 0 /\ (0 + 0) * total = 0 /\ 0 \in 0..k
      BY <1>1, <1>6
    <3> QED BY <1>2, <1>5, <3>1
  <2>2. ASSUME NEW n \in 1..k, n - 1 \in T PROVE n \in T
    <3> DEFINE S == size[n - 1]
               P == sum[n - 1]
               m == n - 1
    <3>1. n \in 0..k /\ m \in 0..k /\ m \in Nat /\ n = m + 1
      BY <1>1
    <3>2. S \in Nat /\ P \in Nat /\ sizes[n] \in Nat /\ weights[n] \in Nat
      BY <1>1, <1>2, <1>5, <1>7, <3>1
    <3>3. size[n] = S + sizes[n] /\ sum[n] = P + weights[n]
      BY <1>2, <1>5
    <3>4. available * P + m <= (S + m) * total
      BY <2>2
    <3>5. available * weights[n] + 1 <= (sizes[n] + 1) * total
      BY <1>7
    <3> HIDE DEF S, P, m
    <3>6. ((S + m) + (sizes[n] + 1)) * total = (S + m) * total + (sizes[n] + 1) * total
      BY <1>6, <3>1, <3>2, Products
    <3>7. available * (P + weights[n]) = available * P + available * weights[n]
      BY <3>2, Products
    <3>8. (S + m) * total \in Nat /\ (sizes[n] + 1) * total \in Nat /\ available * P \in Nat /\ available * weights[n] \in Nat
      BY <1>6, <3>1, <3>2, Products
    <3>9. (S + m) + (sizes[n] + 1) = size[n] + n
      <4> DEFINE z == sizes[n]
                 w == size[n]
      <4>1. z \in Nat /\ w = S + z
        BY <3>2, <3>3
      <4> HIDE DEF z, w
      <4>2. (S + m) + (z + 1) = w + n
        BY <3>1, <3>2, <4>1
      <4> QED BY <4>2 DEF z, w
    <3> QED BY <3>1, <3>3, <3>4, <3>5, <3>6, <3>7, <3>8, <3>9
  <2> HIDE DEF T
  <2>3. 0..k \subseteq T
    BY <1>1, <2>1, <2>2, UpTo
  <2> QED BY <2>3 DEF T
<1>9. available * total + k <= (size[k] + k) * total
  <2>1. k \in 0..k
    BY <1>1
  <2> QED BY <1>8, <2>1 DEF total
<1>10. size[k] \in Nat
  <2>1. k \in 0..k
    BY <1>1
  <2> QED BY <1>5, <2>1
<1>11. available < size[k] + k
  <2> SUFFICES ASSUME size[k] + k <= available PROVE FALSE
    BY <1>1, <1>10
  <2> DEFINE z == size[k] + k
  <2>1. z \in Nat /\ z <= available
    BY <1>1, <1>10
  <2> HIDE DEF z
  <2>2. z * total <= available * total /\ z * total \in Nat /\ available * total \in Nat
    BY <1>6, <2>1, Products
  <2>3. available * total + k <= z * total
    BY <1>9 DEF z
  <2> QED BY <1>1, <2>2, <2>3
<1> QED BY <1>11 DEF k, size

(* The first share begins with the whole, and the last one ends with it, less than one for each *)
(* of the others before.                                                                        *)
LEMMA SharesFill ==
  ASSUME NEW weights \in Seq(Weight), NEW start \in Nat, NEW whole \in Nat, NEW gutter \in Nat,
         NEW shares, shares = Distribute(weights, start, whole, gutter),
         NEW some \in 1..Len(weights), shares[some][2] > 0, NEW gaps, gaps = gutter * (Len(weights) - 1)
  PROVE  /\ shares[1][1] = start
         /\ start + whole <= shares[Len(weights)][1] + shares[Len(weights)][2] + (Len(weights) - 1)
         /\ gaps < whole
<1> DEFINE k == Len(weights)
           available == Larger(0, whole - gutter * (k - 1))
           sizes == [i \in DOMAIN weights |-> (available * weights[i]) \div Sums(weights)[k]]
           before == Sums(sizes)
<1>1. k \in Nat /\ k > 0 /\ DOMAIN weights = 1..k /\ 1 \in 1..k /\ k \in 1..k /\ some \in 1..k
  OBVIOUS
<1>2. gaps \in Nat
  <2>1. k - 1 \in Nat
    BY <1>1
  <2> QED BY <2>1, Products
<1>3. available \in Nat /\ (available > 0 => available = whole - gaps /\ gaps < whole)
  <2>1. available = Larger(0, whole - gaps)
    OBVIOUS
  <2> HIDE DEF available
  <2> QED BY <1>2, <2>1 DEF Larger
<1>4. shares = [i \in 1..k |-> <<start + before[i - 1] + gutter * (i - 1), sizes[i]>>]
  BY <1>1 DEF Distribute
<1>5. sizes = SizesOf(weights, available)
  BY DEF SizesOf
<1>6. shares[1][1] = start + before[0] + gutter * 0 /\ shares[k][1] = start + before[k - 1] + gaps /\ shares[k][2] = sizes[k]
      /\ \A i \in 1..k : shares[i][2] = sizes[i]
  <2> HIDE DEF sizes, before
  <2>1. \A i \in 1..k : shares[i][1] = start + before[i - 1] + gutter * (i - 1) /\ shares[i][2] = sizes[i]
    BY <1>4
  <2>2. 1 - 1 = 0
    OBVIOUS
  <2> QED BY <1>1, <2>1, <2>2
<1>7. before = Sums(sizes)
  OBVIOUS
<1> HIDE DEF k, available, sizes, before
<1>8. /\ sizes \in Seq(Nat) /\ Len(sizes) = k /\ before \in [0..k -> Nat]
      /\ \A n \in 0..k : before[n] <= available
  BY <1>3, <1>5, <1>7, SharesAddUp DEF k
<1>9. before[0] = 0 /\ \A n \in 1..k : before[n] = before[n - 1] + sizes[n]
  <2>1. sizes \in Seq(Int)
    BY <1>8
  <2> QED BY <1>7, <1>8, <2>1, SumsDef
<1>10. available < before[k] + k
  BY <1>1, <1>3, <1>5, <1>7, SharesLoseLittle DEF k
<1>11. shares[1][1] = start
  <2>1. gutter * 0 = 0
    OBVIOUS
  <2> QED BY <1>6, <1>9, <2>1
<1>12. start + whole <= shares[k][1] + shares[k][2] + (k - 1) /\ gaps < whole
  <2>1. available > 0
    <3>1. some \in 1..k /\ some \in 0..k /\ some - 1 \in 0..k
      BY <1>1
    <3>3. sizes[some] \in Nat
      BY <1>8, <3>1
    <3>4. shares[some][2] > 0
      OBVIOUS
    <3>5. shares[some][2] = sizes[some]
      BY <1>6, <3>1
    <3>2. before[some] = before[some - 1] + sizes[some] /\ before[some - 1] \in Nat /\ before[some] \in Nat /\ before[some] <= available
      BY <1>8, <1>9, <3>1
    <3> QED BY <1>3, <3>2, <3>3, <3>4, <3>5
  <2> DEFINE b == before[k - 1]
  <2>2. before[k] = b + sizes[k] /\ b \in Nat /\ sizes[k] \in Nat
    <3>1. k - 1 \in 0..k /\ k \in 1..k /\ k \in 0..k
      BY <1>1
    <3>2. before[k - 1] \in Nat
      BY <1>8, <3>1
    <3>4. sizes[k] \in Nat
      BY <1>8, <3>1
    <3>3. before[k] = before[k - 1] + sizes[k]
      BY <1>9, <3>1
    <3> QED BY <3>2, <3>3, <3>4
  <2> HIDE DEF b
  <2>3. shares[k][1] = start + b + gaps /\ shares[k][2] = sizes[k]
    BY <1>6 DEF b
  <2>4. available = whole - gaps /\ gaps < whole
    BY <1>3, <2>1
  <2>5. whole - gaps < (b + sizes[k]) + k
    BY <1>10, <2>2, <2>4
  <2>6. start + whole <= (start + b + gaps) + sizes[k] + (k - 1)
    BY <1>1, <1>2, <2>2, <2>5
  <2> QED BY <2>3, <2>4, <2>6
<1> QED BY <1>11, <1>12 DEF k

(* Shares of a whole: they begin at its start, leave a gutter between any two, and end by its end *)
(* if the gutters leave room at all, as they do when one share is not empty.                      *)
LEMMA Shares ==
  ASSUME NEW weights \in Seq(Weight), NEW start \in Nat, NEW whole \in Nat, NEW gutter \in Nat,
         NEW shares, shares = Distribute(weights, start, whole, gutter)
  PROVE  /\ DOMAIN shares = 1..Len(weights)
         /\ \A i \in 1..Len(weights) : shares[i][1] \in Nat /\ shares[i][2] \in Nat /\ start <= shares[i][1]
         /\ \A i, j \in 1..Len(weights) : i < j => shares[i][1] + shares[i][2] + gutter <= shares[j][1]
         /\ (\E i \in 1..Len(weights) : shares[i][2] > 0)
              => \A i \in 1..Len(weights) : shares[i][1] + shares[i][2] <= start + whole
<1> DEFINE k == Len(weights)
           available == Larger(0, whole - gutter * (k - 1))
           sizes == [i \in DOMAIN weights |-> (available * weights[i]) \div Sums(weights)[k]]
           before == Sums(sizes)
           Gaps(n) == gutter * n
<1>1. k \in Nat /\ DOMAIN weights = 1..k
  OBVIOUS
<1>2. \A n \in Int : gutter * n \in Int
  OBVIOUS
<1>3. available \in Nat /\ (available > 0 => available = whole - gutter * (k - 1))
  <2>1. gutter * (k - 1) \in Int
    BY <1>1, <1>2
  <2> QED BY <2>1 DEF Larger
<1>4. shares = [i \in 1..k |-> <<start + before[i - 1] + Gaps(i - 1), sizes[i]>>]
  BY <1>1 DEF Distribute
<1>14. sizes = SizesOf(weights, available)
  BY DEF SizesOf
<1>16. k = Len(weights) /\ before = Sums(sizes)
  OBVIOUS
<1> HIDE DEF available, sizes, k, before
<1>5. /\ sizes \in Seq(Nat) /\ Len(sizes) = k /\ before \in [0..k -> Nat]
      /\ \A n \in 0..k : before[n] <= available
  BY <1>3, <1>14, <1>16, SharesAddUp, Zenon
<1>6. /\ \A n \in 1..k : before[n] = before[n - 1] + sizes[n]
      /\ \A m, n \in 0..k : m <= n => before[m] <= before[n]
  BY <1>5, <1>16, SumsGrow
<1>7. \A i \in 1..k : sizes[i] \in Nat /\ i - 1 \in 0..k /\ i \in 0..k
  BY <1>1, <1>5
<1>8. (\A m, n \in Nat : m <= n => Gaps(m) <= Gaps(n)) /\ \A n \in Nat : Gaps(n) \in Nat /\ Gaps(n + 1) = Gaps(n) + gutter
  <2>1. ASSUME NEW m \in Nat, NEW n \in Nat, m <= n PROVE Gaps(m) <= Gaps(n)
    <3>1. m * gutter \in Nat /\ n * gutter \in Nat /\ m * gutter = gutter * m /\ n * gutter = gutter * n
      BY Products
    <3>2. m * gutter <= n * gutter
      BY <2>1, Products
    <3> QED BY <3>1, <3>2
  <2>2. ASSUME NEW n \in Nat PROVE Gaps(n) \in Nat /\ Gaps(n + 1) = Gaps(n) + gutter
    <3>1. gutter * (n + 1) = gutter * n + gutter * 1 /\ gutter * n \in Nat
      BY Products
    <3> QED BY <3>1
  <2> QED BY <2>1, <2>2
<1>15. available > 0 => available = whole - Gaps(k - 1)
  BY <1>3
<1>9. \A i \in 1..k : shares[i][1] = start + before[i - 1] + Gaps(i - 1) /\ shares[i][2] = sizes[i]
  BY <1>4
<1>13. DOMAIN shares = 1..k
  BY <1>4
<1> HIDE DEF Gaps
<1>10. \A i \in 1..k : shares[i][1] \in Nat /\ shares[i][2] \in Nat /\ start <= shares[i][1]
  <2> TAKE i \in 1..k
  <2>1. i - 1 \in Nat /\ i - 1 \in 0..k
    BY <1>7
  <2>2. Gaps(i - 1) \in Nat /\ before[i - 1] \in Nat
    BY <1>5, <1>8, <2>1
  <2>3. shares[i][1] = start + before[i - 1] + Gaps(i - 1) /\ shares[i][2] = sizes[i] /\ sizes[i] \in Nat
    BY <1>7, <1>9
  <2> QED BY <2>2, <2>3
<1>11. \A i, j \in 1..k : i < j => shares[i][1] + shares[i][2] + gutter <= shares[j][1]
  <2> SUFFICES ASSUME NEW i \in 1..k, NEW j \in 1..k, i < j PROVE shares[i][1] + shares[i][2] + gutter <= shares[j][1]
    OBVIOUS
  <2>1. i - 1 \in Nat /\ i \in Nat /\ j - 1 \in Nat /\ i <= j - 1 /\ j - 1 \in 0..k /\ i = (i - 1) + 1
    BY <1>7
  <2>2. Gaps(i) <= Gaps(j - 1) /\ Gaps(i) \in Nat /\ Gaps(j - 1) \in Nat /\ Gaps(i - 1) \in Nat /\ Gaps(i) = Gaps(i - 1) + gutter
    BY <1>8, <2>1
  <2>4. before[i] = before[i - 1] + sizes[i] /\ before[i] <= before[j - 1]
    BY <1>6, <1>7, <2>1
  <2>5. before[i] \in Nat /\ before[i - 1] \in Nat /\ before[j - 1] \in Nat /\ sizes[i] \in Nat
    BY <1>5, <1>7, <2>1
  <2>6. /\ shares[i][1] = start + before[i - 1] + Gaps(i - 1) /\ shares[i][2] = sizes[i]
        /\ shares[j][1] = start + before[j - 1] + Gaps(j - 1)
    BY <1>9
  <2>7. (start + before[i - 1] + Gaps(i - 1)) + sizes[i] + gutter <= start + before[j - 1] + Gaps(j - 1)
    <3> DEFINE b == before[i - 1]
               B == before[j - 1]
               g == Gaps(i - 1)
               G == Gaps(j - 1)
    <3>1. b \in Nat /\ B \in Nat /\ g \in Nat /\ G \in Nat /\ sizes[i] \in Nat /\ b + sizes[i] <= B /\ g + gutter <= G
      BY <2>2, <2>4, <2>5
    <3> HIDE DEF b, B, g, G
    <3>2. (start + b + g) + sizes[i] + gutter <= start + B + G
      BY <3>1
    <3> QED BY <3>2 DEF b, B, g, G
  <2> QED BY <2>6, <2>7
<1>12. ASSUME NEW i0 \in 1..k, shares[i0][2] > 0
       PROVE  \A i \in 1..k : shares[i][1] + shares[i][2] <= start + whole
  <2>1. available = whole - Gaps(k - 1)
    <3>1. sizes[i0] > 0 /\ before[i0] = before[i0 - 1] + sizes[i0] /\ before[i0] <= available
      BY <1>5, <1>6, <1>7, <1>9, <1>12
    <3>2. before[i0] \in Nat /\ before[i0 - 1] \in Nat /\ sizes[i0] \in Nat
      BY <1>5, <1>7
    <3> QED BY <1>3, <1>15, <3>1, <3>2
  <2> TAKE i \in 1..k
  <2>2. i - 1 \in Nat /\ k - 1 \in Nat /\ i - 1 <= k - 1
    BY <1>1
  <2>3. Gaps(i - 1) <= Gaps(k - 1) /\ Gaps(i - 1) \in Nat /\ Gaps(k - 1) \in Nat
    BY <1>8, <2>2
  <2>4. before[i] = before[i - 1] + sizes[i] /\ before[i] <= available
    BY <1>5, <1>6, <1>7
  <2>5. before[i] \in Nat /\ before[i - 1] \in Nat /\ sizes[i] \in Nat
    BY <1>5, <1>7
  <2>6. shares[i][1] = start + before[i - 1] + Gaps(i - 1) /\ shares[i][2] = sizes[i]
    BY <1>9
  <2>7. (start + before[i - 1] + Gaps(i - 1)) + sizes[i] <= start + whole
    <3> DEFINE b == before[i - 1]
               g == Gaps(i - 1)
               G == Gaps(k - 1)
    <3>1. b \in Nat /\ g \in Nat /\ G \in Nat /\ sizes[i] \in Nat /\ b + sizes[i] <= whole - G /\ g <= G
      BY <2>1, <2>3, <2>4, <2>5
    <3> HIDE DEF b, g, G
    <3>2. (start + b + g) + sizes[i] <= start + whole
      BY <3>1
    <3> QED BY <3>2 DEF b, g
  <2> QED BY <2>6, <2>7
<1> QED BY <1>10, <1>11, <1>12, <1>13 DEF k

-----------------------------------------------------------------------------
(* Where the nodes of a diagram are *)

(* Rows have ranks without gaps: each position is some row's, and no two have the same row. *)
LEMMA RowsHaveRanks ==
  ASSUME NEW rows \in Seq(Rows)
  PROVE  \A r \in 1..Len(rows) : RowAt(rows, r) \in 1..Len(rows) /\ Cardinality(RowsBefore(rows, RowAt(rows, r))) = r - 1
<1> DEFINE n == Len(rows)
           rank == [i \in 1..n |-> Cardinality(RowsBefore(rows, i))]
<1>1. n \in Nat /\ DOMAIN rows = 1..n /\ \A i \in 1..n : rows[i].order \in Int
  <2>1. \A i \in 1..n : rows[i] \in Rows
    OBVIOUS
  <2> QED BY <2>1 DEF Rows
<1>2. IsFiniteSet(1..n) /\ Cardinality(1..n) = n /\ IsFiniteSet(0..(n - 1)) /\ Cardinality(0..(n - 1)) = n
  <2> HIDE DEF n
  <2>1. 1 \in Int /\ n \in Int /\ 0 \in Int /\ n - 1 \in Int
    BY <1>1
  <2>2. Cardinality(1..n) = (IF 1 > n THEN 0 ELSE n - 1 + 1) /\ Cardinality(0..(n - 1)) = (IF 0 > n - 1 THEN 0 ELSE n - 1 - 0 + 1)
    BY <2>1, FS_Interval
  <2>3. IsFiniteSet(1..n) /\ IsFiniteSet(0..(n - 1))
    BY <2>1, FS_Interval
  <2>4. (IF 1 > n THEN 0 ELSE n - 1 + 1) = n /\ (IF 0 > n - 1 THEN 0 ELSE n - 1 - 0 + 1) = n
    BY <1>1
  <2> QED BY <2>2, <2>3, <2>4
<1>3. \A i \in 1..n : RowsBefore(rows, i) \in SUBSET (1..n) /\ i \notin RowsBefore(rows, i)
  BY <1>1 DEF RowsBefore
<1>4. \A i \in 1..n : IsFiniteSet(RowsBefore(rows, i)) /\ rank[i] \in 0..(n - 1)
  <2> TAKE i \in 1..n
  <2>1. RowsBefore(rows, i) \in SUBSET ((1..n) \ {i}) /\ i \in 1..n
    BY <1>3
  <2>2. IsFiniteSet((1..n) \ {i}) /\ Cardinality((1..n) \ {i}) = n - 1
    BY <1>2, <2>1, FS_RemoveElement
  <2>3. IsFiniteSet(RowsBefore(rows, i)) /\ Cardinality(RowsBefore(rows, i)) <= n - 1
    BY <2>1, <2>2, FS_Subset
  <2>4. Cardinality(RowsBefore(rows, i)) \in Nat
    BY <2>3, FS_CardinalityType
  <2> QED BY <1>1, <2>3, <2>4
<1>5. \A i, j \in 1..n : i # j => rank[i] # rank[j]
  <2>1. ASSUME NEW i \in 1..n, NEW j \in 1..n, i \in RowsBefore(rows, j) PROVE rank[i] # rank[j]
    <3>1. RowsBefore(rows, i) \in SUBSET RowsBefore(rows, j) /\ i \notin RowsBefore(rows, i)
      BY <1>1, <1>3, <2>1 DEF RowsBefore
    <3>2. Cardinality(RowsBefore(rows, i)) # Cardinality(RowsBefore(rows, j))
      BY <1>4, <2>1, <3>1, FS_Subset
    <3> QED BY <3>2
  <2>2. \A i, j \in 1..n : i # j => i \in RowsBefore(rows, j) \/ j \in RowsBefore(rows, i)
    BY <1>1 DEF RowsBefore
  <2> HIDE DEF rank
  <2> QED BY <2>1, <2>2
<1>6. rank \in Injection(1..n, 0..(n - 1))
  <2>1. rank \in [1..n -> 0..(n - 1)]
    BY <1>4
  <2> HIDE DEF rank
  <2> QED BY <1>5, <2>1 DEF Injection, IsInjective
<1>7. rank \in Surjection(1..n, 0..(n - 1))
  <2> HIDE DEF rank, n
  <2> QED BY <1>2, <1>6, FS_Injection
<1>8. ASSUME NEW r \in 1..n PROVE \E i \in DOMAIN rows : Cardinality(RowsBefore(rows, i)) = r - 1
  <2>1. r - 1 \in 0..(n - 1)
    BY <1>1
  <2>2. PICK i \in 1..n : rank[i] = r - 1
    BY <1>7, <2>1 DEF Surjection
  <2> QED BY <1>1, <2>2
<1> QED BY <1>1, <1>8 DEF RowAt

(* The rows in order are rows, as many as were written. *)
LEMMA OrderedRows ==
  ASSUME NEW rows \in Seq(Rows)
  PROVE  RowsInOrder(rows) \in Seq(Rows) /\ Len(RowsInOrder(rows)) = Len(rows)
<1>1. DOMAIN rows = 1..Len(rows) /\ Len(rows) \in Nat
  OBVIOUS
<1>2. RowsInOrder(rows) \in [1..Len(rows) -> Rows]
  BY <1>1, RowsHaveRanks DEF RowsInOrder
<1> QED BY <1>1, <1>2

(* The elements of a sequence. *)
LEMMA Elements ==
  ASSUME NEW S, NEW items \in Seq(S)
  PROVE  Len(items) \in Nat /\ DOMAIN items = 1..Len(items) /\ \A i \in 1..Len(items) : items[i] \in S
OBVIOUS

(* The slots of a row, what a slot takes up, and the node at a position of it. *)
SlotsOf(d, r) == RowsInOrder(d.rows)[r].slots
Cell(d, r, s) == Box(Distribute(Weights(SlotsOf(d, r)), 0, Full, ColGutter)[s], RowGeometry(d)[r])
NodesOf(d, r, s) == SlotsOf(d, r)[s].nodes
StackOf(d, r, s) == Distribute(Weights(NodesOf(d, r, s)), Cell(d, r, s).y, Cell(d, r, s).h, NestedGutter)
InColumn(d, r, s) == SlotsOf(d, r)[s].kind = "arch-col"
StackBox(d, r, s, n) == Box(<<Cell(d, r, s).x, Cell(d, r, s).w>>, StackOf(d, r, s)[n])
ColumnNode(d, r, s, n) == [id |-> NodesOf(d, r, s)[n].id, row |-> r - 1, column |-> Cell(d, r, s), box |-> StackBox(d, r, s, n)]
SlotNode(d, r, s) == [id |-> NodesOf(d, r, s)[1].id, row |-> r - 1, box |-> Cell(d, r, s), column |-> Unset]

(* p is the node at position n of slot s of row r. *)
At(d, p, r, s, n) ==
  \/ InColumn(d, r, s) /\ n \in 1..Len(NodesOf(d, r, s)) /\ p = ColumnNode(d, r, s, n)
  \/ SlotsOf(d, r)[s].kind = "arch-node" /\ n = 1 /\ p = SlotNode(d, r, s)

(* Rows, slots and nodes of a topology are sequences, and so are their weights. *)
LEMMA TopologyTypes ==
  ASSUME NEW d \in Topology
  PROVE  /\ d.rows \in Seq(Rows) /\ Len(d.rows) \in Nat /\ DOMAIN d.rows = 1..Len(d.rows)
         /\ RowsInOrder(d.rows) \in Seq(Rows) /\ Len(RowsInOrder(d.rows)) = Len(d.rows)
         /\ \A r \in 1..Len(d.rows) :
              /\ SlotsOf(d, r) \in Seq(Slots) /\ Len(SlotsOf(d, r)) \in Nat /\ DOMAIN SlotsOf(d, r) = 1..Len(SlotsOf(d, r))
              /\ Weights(SlotsOf(d, r)) \in Seq(Weight) /\ Len(Weights(SlotsOf(d, r))) = Len(SlotsOf(d, r))
              /\ \A s \in 1..Len(SlotsOf(d, r)) :
                   /\ Len(NodesOf(d, r, s)) \in Nat /\ DOMAIN NodesOf(d, r, s) = 1..Len(NodesOf(d, r, s))
                   /\ Weights(NodesOf(d, r, s)) \in Seq(Weight) /\ Len(Weights(NodesOf(d, r, s))) = Len(NodesOf(d, r, s))
                   /\ \A n \in 1..Len(NodesOf(d, r, s)) : NodesOf(d, r, s)[n].id \in NodeIds
                   /\ SlotsOf(d, r)[s].kind \in {"arch-node", "arch-col", "arch-spacer"}
                   /\ SlotsOf(d, r)[s].kind = "arch-node" => Len(NodesOf(d, r, s)) = 1
         /\ Weights(RowsInOrder(d.rows)) \in Seq(Weight) /\ Len(Weights(RowsInOrder(d.rows))) = Len(d.rows)
<1>1. d.rows \in Seq(Rows)
  BY DEF Topology
<1>2. RowsInOrder(d.rows) \in Seq(Rows) /\ Len(RowsInOrder(d.rows)) = Len(d.rows) /\ Len(d.rows) \in Nat /\ DOMAIN d.rows = 1..Len(d.rows)
  BY <1>1, OrderedRows
<1>3. ASSUME NEW items, NEW k \in Nat, DOMAIN items = 1..k, \A i \in 1..k : items[i].weight \in Weight
      PROVE  Weights(items) \in Seq(Weight) /\ Len(Weights(items)) = k
  <2>1. Weights(items) \in [1..k -> Weight]
    BY <1>3 DEF Weights
  <2> QED BY <2>1
<1>4. ASSUME NEW r \in 1..Len(d.rows)
      PROVE  /\ SlotsOf(d, r) \in Seq(Slots) /\ Len(SlotsOf(d, r)) \in Nat /\ DOMAIN SlotsOf(d, r) = 1..Len(SlotsOf(d, r))
             /\ RowsInOrder(d.rows)[r].weight \in Weight
  <2>1. RowsInOrder(d.rows)[r] \in Rows
    BY <1>2
  <2> QED BY <2>1 DEF SlotsOf, Rows
<1>5. ASSUME NEW r \in 1..Len(d.rows), NEW s \in 1..Len(SlotsOf(d, r))
      PROVE  /\ SlotsOf(d, r)[s].weight \in Weight
             /\ NodesOf(d, r, s) \in Seq([id : NodeIds, weight : Weight])
             /\ SlotsOf(d, r)[s].kind \in {"arch-node", "arch-col", "arch-spacer"}
             /\ SlotsOf(d, r)[s].kind = "arch-node" => Len(NodesOf(d, r, s)) = 1
  <2>1. SlotsOf(d, r)[s] \in Slots
    BY <1>4
  <2> QED BY <2>1 DEF NodesOf, Slots
<1>6. Weights(RowsInOrder(d.rows)) \in Seq(Weight) /\ Len(Weights(RowsInOrder(d.rows))) = Len(d.rows)
  <2>1. DOMAIN RowsInOrder(d.rows) = 1..Len(d.rows)
    BY <1>2
  <2> QED BY <1>2, <1>3, <1>4, <2>1
<1>7. ASSUME NEW r \in 1..Len(d.rows)
      PROVE  Weights(SlotsOf(d, r)) \in Seq(Weight) /\ Len(Weights(SlotsOf(d, r))) = Len(SlotsOf(d, r))
  BY <1>3, <1>4, <1>5
<1>8. ASSUME NEW r \in 1..Len(d.rows), NEW s \in 1..Len(SlotsOf(d, r))
      PROVE  /\ Len(NodesOf(d, r, s)) \in Nat /\ DOMAIN NodesOf(d, r, s) = 1..Len(NodesOf(d, r, s))
             /\ Weights(NodesOf(d, r, s)) \in Seq(Weight) /\ Len(Weights(NodesOf(d, r, s))) = Len(NodesOf(d, r, s))
             /\ \A n \in 1..Len(NodesOf(d, r, s)) : NodesOf(d, r, s)[n].id \in NodeIds
  <2>1. /\ Len(NodesOf(d, r, s)) \in Nat /\ DOMAIN NodesOf(d, r, s) = 1..Len(NodesOf(d, r, s))
        /\ \A n \in 1..Len(NodesOf(d, r, s)) : NodesOf(d, r, s)[n] \in [id : NodeIds, weight : Weight]
    BY <1>5, Elements
  <2>2. \A n \in 1..Len(NodesOf(d, r, s)) : NodesOf(d, r, s)[n].id \in NodeIds /\ NodesOf(d, r, s)[n].weight \in Weight
    BY <2>1
  <2> QED BY <1>3, <2>1, <2>2
<1> QED BY <1>1, <1>2, <1>4, <1>5, <1>6, <1>7, <1>8

(* Every place has a position: a row, a slot of it and a node of that. *)
LEMMA Positions ==
  ASSUME NEW d \in Topology, NEW r \in 1..Len(d.rows), NEW s \in 1..Len(SlotsOf(d, r)), NEW n, NEW p, At(d, p, r, s, n)
  PROVE  n \in 1..Len(NodesOf(d, r, s))
<1>1. SlotsOf(d, r)[s].kind = "arch-node" => Len(NodesOf(d, r, s)) = 1
  BY TopologyTypes
<1>2. CASE InColumn(d, r, s) /\ n \in 1..Len(NodesOf(d, r, s))
  BY <1>2
<1>3. CASE SlotsOf(d, r)[s].kind = "arch-node" /\ n = 1
  <2>1. 1 \in 1..1 /\ Len(NodesOf(d, r, s)) = 1 /\ n = 1
    BY <1>1, <1>3
  <2> QED BY <2>1, Zenon
<1> QED BY <1>2, <1>3 DEF At

(* The places of a diagram are the nodes at the positions of its slots. *)
LEMMA PlacesAre ==
  ASSUME NEW d \in Topology
  PROVE  /\ \A p \in Places(d) : \E r \in 1..Len(d.rows) : \E s \in 1..Len(SlotsOf(d, r)) : \E n \in 1..Len(NodesOf(d, r, s)) : At(d, p, r, s, n)
         /\ \A r \in 1..Len(d.rows) : \A s \in 1..Len(SlotsOf(d, r)) : \A n, p : At(d, p, r, s, n) => p \in Places(d)
<1> DEFINE Here(r, s) == SlotPlaces(SlotsOf(d, r)[s], Cell(d, r, s), r - 1)
<1>1. /\ DOMAIN d.rows = 1..Len(d.rows)
      /\ \A r \in 1..Len(d.rows) : DOMAIN SlotsOf(d, r) = 1..Len(SlotsOf(d, r))
  BY TopologyTypes
<1> DEFINE InRow(r) == RowPlaces(RowsInOrder(d.rows)[r], r - 1, RowGeometry(d)[r])
<1>2. ASSUME NEW r \in 1..Len(d.rows), NEW p
      PROVE  p \in InRow(r) <=> \E s \in 1..Len(SlotsOf(d, r)) : p \in Here(r, s)
  <2>1. InRow(r) = UNION {Here(r, s) : s \in 1..Len(SlotsOf(d, r))}
    BY <1>1 DEF RowPlaces, SlotsOf, Cell
  <2> HIDE DEF InRow, Here
  <2> QED BY <2>1
<1>3. ASSUME NEW p
      PROVE  p \in Places(d) <=> \E r \in 1..Len(d.rows) : p \in InRow(r)
  <2>1. Places(d) = UNION {InRow(r) : r \in 1..Len(d.rows)}
    BY <1>1 DEF Places
  <2> HIDE DEF InRow
  <2> QED BY <2>1
<1>4. ASSUME NEW r \in 1..Len(d.rows), NEW s \in 1..Len(SlotsOf(d, r)), NEW p
      PROVE  p \in Here(r, s) <=> \E n \in 1..Len(NodesOf(d, r, s)) : At(d, p, r, s, n)
  <2>1. /\ SlotsOf(d, r)[s].kind \in {"arch-node", "arch-col", "arch-spacer"}
        /\ SlotsOf(d, r)[s].kind = "arch-node" => Len(NodesOf(d, r, s)) = 1
        /\ DOMAIN NodesOf(d, r, s) = 1..Len(NodesOf(d, r, s))
    BY TopologyTypes
  <2>2. CASE SlotsOf(d, r)[s].kind = "arch-node"
    <3>1. Here(r, s) = {SlotNode(d, r, s)}
      BY <2>2 DEF SlotPlaces, SlotNode, NodesOf
    <3>2. Len(NodesOf(d, r, s)) = 1
      BY <2>1, <2>2
    <3> QED BY <2>2, <3>1, <3>2 DEF At, InColumn
  <2>3. CASE SlotsOf(d, r)[s].kind = "arch-col"
    <3>1. Here(r, s) = {ColumnNode(d, r, s, n) : n \in 1..Len(NodesOf(d, r, s))}
      BY <2>1, <2>3 DEF SlotPlaces, ColumnNode, StackBox, StackOf, NodesOf
    <3> QED BY <2>3, <3>1 DEF At, InColumn
  <2>4. CASE SlotsOf(d, r)[s].kind = "arch-spacer"
    <3>1. Here(r, s) = {}
      BY <2>4 DEF SlotPlaces
    <3> QED BY <2>4, <3>1 DEF At, InColumn
  <2> QED BY <2>1, <2>2, <2>3, <2>4
<1> HIDE DEF Here, InRow
<1>6. \A p \in Places(d) : \E r \in 1..Len(d.rows) : \E s \in 1..Len(SlotsOf(d, r)) : \E n \in 1..Len(NodesOf(d, r, s)) : At(d, p, r, s, n)
  BY <1>2, <1>3, <1>4
<1>7. \A r \in 1..Len(d.rows) : \A s \in 1..Len(SlotsOf(d, r)) : \A n, p : At(d, p, r, s, n) => p \in Places(d)
  <2>1. ASSUME NEW r \in 1..Len(d.rows), NEW s \in 1..Len(SlotsOf(d, r)), NEW n, NEW p, At(d, p, r, s, n) PROVE p \in Places(d)
    <3>1. n \in 1..Len(NodesOf(d, r, s))
      BY <2>1, Positions
    <3>2. p \in Here(r, s)
      BY <1>4, <2>1, <3>1
    <3> QED BY <1>2, <1>3, <3>2
  <2> QED BY <2>1
<1> QED BY <1>6, <1>7

(* Every node has a box of some width and height, as it has unless a row or slot is crowded. *)
Visible(d) == \A p \in Places(d) : p.box.w > 0 /\ p.box.h > 0

Natural(box) == box.x \in Nat /\ box.y \in Nat /\ box.w \in Nat /\ box.h \in Nat

(* A cell begins where its row and its slot do. *)
LEMMA CellOf ==
  ASSUME NEW d \in Topology, NEW r \in 1..Len(d.rows), NEW s \in 1..Len(SlotsOf(d, r))
  PROVE  /\ Cell(d, r, s).x = Distribute(Weights(SlotsOf(d, r)), 0, Full, ColGutter)[s][1]
         /\ Cell(d, r, s).w = Distribute(Weights(SlotsOf(d, r)), 0, Full, ColGutter)[s][2]
         /\ Cell(d, r, s).y = RowGeometry(d)[r][1]
         /\ Cell(d, r, s).h = RowGeometry(d)[r][2]
BY DEF Cell, Box

(* Rows are laid out one under the other, a gutter apart, within the diagram. *)
LEMMA RowShares ==
  ASSUME NEW d \in Topology
  PROVE  /\ DOMAIN RowGeometry(d) = 1..Len(d.rows)
         /\ \A r \in 1..Len(d.rows) : RowGeometry(d)[r][1] \in Nat /\ RowGeometry(d)[r][2] \in Nat
         /\ \A r, q \in 1..Len(d.rows) : r < q => RowGeometry(d)[r][1] + RowGeometry(d)[r][2] + RowGutter <= RowGeometry(d)[q][1]
         /\ (\E r \in 1..Len(d.rows) : RowGeometry(d)[r][2] > 0)
              => \A r \in 1..Len(d.rows) : RowGeometry(d)[r][1] + RowGeometry(d)[r][2] <= Full
<1> DEFINE weights == Weights(RowsInOrder(d.rows))
           shares == RowGeometry(d)
<1>1. weights \in Seq(Weight) /\ Len(weights) = Len(d.rows) /\ shares = Distribute(weights, 0, Full, RowGutter)
  BY TopologyTypes DEF RowGeometry
<1>2. 0 \in Nat /\ Full \in Nat /\ RowGutter \in Nat /\ 0 + Full = Full
  BY DEF Full, RowGutter
<1> HIDE DEF weights, shares
<1>3. /\ DOMAIN shares = 1..Len(weights)
      /\ \A i \in 1..Len(weights) : shares[i][1] \in Nat /\ shares[i][2] \in Nat /\ 0 <= shares[i][1]
      /\ \A i, j \in 1..Len(weights) : i < j => shares[i][1] + shares[i][2] + RowGutter <= shares[j][1]
      /\ (\E i \in 1..Len(weights) : shares[i][2] > 0)
              => \A i \in 1..Len(weights) : shares[i][1] + shares[i][2] <= 0 + Full
  BY <1>1, <1>2, Shares
<1> QED BY <1>1, <1>2, <1>3 DEF shares

(* Slots of a row are laid out side by side, a gutter apart, within the diagram. *)
LEMMA SlotShares ==
  ASSUME NEW d \in Topology, NEW r \in 1..Len(d.rows),
         NEW shares, shares = Distribute(Weights(SlotsOf(d, r)), 0, Full, ColGutter)
  PROVE  /\ \A s \in 1..Len(SlotsOf(d, r)) : shares[s][1] \in Nat /\ shares[s][2] \in Nat
         /\ \A s, t \in 1..Len(SlotsOf(d, r)) : s < t => shares[s][1] + shares[s][2] + ColGutter <= shares[t][1]
         /\ (\E s \in 1..Len(SlotsOf(d, r)) : shares[s][2] > 0)
              => \A s \in 1..Len(SlotsOf(d, r)) : shares[s][1] + shares[s][2] <= Full
<1> DEFINE weights == Weights(SlotsOf(d, r))
<1>1. weights \in Seq(Weight) /\ Len(weights) = Len(SlotsOf(d, r)) /\ shares = Distribute(weights, 0, Full, ColGutter)
  BY TopologyTypes
<1>2. 0 \in Nat /\ Full \in Nat /\ ColGutter \in Nat /\ 0 + Full = Full
  BY DEF Full, ColGutter
<1> HIDE DEF weights
<1>3. /\ \A i \in 1..Len(weights) : shares[i][1] \in Nat /\ shares[i][2] \in Nat /\ 0 <= shares[i][1]
      /\ \A i, j \in 1..Len(weights) : i < j => shares[i][1] + shares[i][2] + ColGutter <= shares[j][1]
      /\ (\E i \in 1..Len(weights) : shares[i][2] > 0)
              => \A i \in 1..Len(weights) : shares[i][1] + shares[i][2] <= 0 + Full
  BY <1>1, <1>2, Shares
<1> QED BY <1>1, <1>2, <1>3

(* Nodes of a column are laid out one under the other, a gutter apart, within its cell. *)
LEMMA StackShares ==
  ASSUME NEW d \in Topology, NEW r \in 1..Len(d.rows), NEW s \in 1..Len(SlotsOf(d, r)),
         NEW shares, shares = StackOf(d, r, s)
  PROVE  /\ Natural(Cell(d, r, s))
         /\ \A n \in 1..Len(NodesOf(d, r, s)) : shares[n][1] \in Nat /\ shares[n][2] \in Nat /\ Cell(d, r, s).y <= shares[n][1]
         /\ \A n, m \in 1..Len(NodesOf(d, r, s)) : n < m => shares[n][1] + shares[n][2] + NestedGutter <= shares[m][1]
         /\ (\E n \in 1..Len(NodesOf(d, r, s)) : shares[n][2] > 0)
              => \A n \in 1..Len(NodesOf(d, r, s)) : shares[n][1] + shares[n][2] <= Bottom(Cell(d, r, s))
<1> DEFINE weights == Weights(NodesOf(d, r, s))
           cell == Cell(d, r, s)
<1>1. weights \in Seq(Weight) /\ Len(weights) = Len(NodesOf(d, r, s)) /\ shares = Distribute(weights, cell.y, cell.h, NestedGutter)
  BY TopologyTypes DEF StackOf
<1>2. Natural(cell)
  <2>1. RowGeometry(d)[r][1] \in Nat /\ RowGeometry(d)[r][2] \in Nat
    BY RowShares
  <2> DEFINE across == Distribute(Weights(SlotsOf(d, r)), 0, Full, ColGutter)
  <2>2. across[s][1] \in Nat /\ across[s][2] \in Nat
    BY SlotShares
  <2> QED BY <2>1, <2>2, CellOf DEF Natural
<1>3. NestedGutter \in Nat /\ cell.y \in Nat /\ cell.h \in Nat
  BY <1>2 DEF NestedGutter, Natural
<1> HIDE DEF weights, cell
<1>4. /\ \A i \in 1..Len(weights) : shares[i][1] \in Nat /\ shares[i][2] \in Nat /\ cell.y <= shares[i][1]
      /\ \A i, j \in 1..Len(weights) : i < j => shares[i][1] + shares[i][2] + NestedGutter <= shares[j][1]
      /\ (\E i \in 1..Len(weights) : shares[i][2] > 0)
              => \A i \in 1..Len(weights) : shares[i][1] + shares[i][2] <= cell.y + cell.h
  BY <1>1, <1>3, Shares
<1> QED BY <1>1, <1>2, <1>4 DEF Bottom, cell

(* Cells in which nodes are seen end within the diagram. *)
LEMMA CellEnds ==
  ASSUME NEW d \in Topology, NEW r \in 1..Len(d.rows), NEW s \in 1..Len(SlotsOf(d, r)), NEW box
  PROVE  /\ box.x = Cell(d, r, s).x /\ box.w = Cell(d, r, s).w /\ box.w > 0 => Right(box) <= Full
         /\ Cell(d, r, s).h > 0 => Bottom(Cell(d, r, s)) <= Full
<1> DEFINE across == Distribute(Weights(SlotsOf(d, r)), 0, Full, ColGutter)
<1>1. across[s][2] > 0 => across[s][1] + across[s][2] <= Full
  BY SlotShares
<1>2. RowGeometry(d)[r][2] > 0 => RowGeometry(d)[r][1] + RowGeometry(d)[r][2] <= Full
  BY RowShares
<1> QED BY <1>1, <1>2, CellOf DEF Right, Bottom

(* Where a node sits: in its cell, which it fills unless it shares a column. *)
LEMMA Sits ==
  ASSUME NEW d \in Topology, Visible(d), NEW r \in 1..Len(d.rows), NEW s \in 1..Len(SlotsOf(d, r)),
         NEW n, NEW p, At(d, p, r, s, n)
  PROVE  /\ p \in Places(d) /\ p.id \in NodeIds /\ p.row = r - 1 /\ n \in 1..Len(NodesOf(d, r, s))
         /\ p.box \in Boxes /\ Natural(p.box) /\ p.box.w > 0 /\ p.box.h > 0
         /\ Cell(d, r, s) \in Boxes /\ Natural(Cell(d, r, s))
         /\ p.box.x = Cell(d, r, s).x /\ p.box.w = Cell(d, r, s).w /\ Right(p.box) <= Full
         /\ Cell(d, r, s).y <= p.box.y /\ Bottom(p.box) <= Bottom(Cell(d, r, s)) /\ Bottom(Cell(d, r, s)) <= Full
         /\ InColumn(d, r, s) => p.column = Cell(d, r, s) /\ p.box = StackBox(d, r, s, n) /\ p.box.y = StackOf(d, r, s)[n][1] /\ p.box.h = StackOf(d, r, s)[n][2]
         /\ ~InColumn(d, r, s) => p.column = Unset /\ p.box = Cell(d, r, s) /\ n = 1
<1> DEFINE cell == Cell(d, r, s)
<1>1. p \in Places(d) /\ p.box.w > 0 /\ p.box.h > 0
  BY PlacesAre DEF Visible
<1>2. Natural(cell)
  BY StackShares
<1>3. cell.x \in Int /\ cell.y \in Int /\ cell.w \in Int /\ cell.h \in Int
  BY <1>2 DEF Natural
<1>4. cell \in Boxes
  BY <1>3 DEF Cell, Box, Boxes
<1>5. n \in 1..Len(NodesOf(d, r, s)) /\ NodesOf(d, r, s)[n].id \in NodeIds
  BY TopologyTypes, Positions
<1>6. CASE InColumn(d, r, s)
  <2> DEFINE shares == StackOf(d, r, s)
  <2>1. p = ColumnNode(d, r, s, n)
    BY <1>6 DEF At, InColumn
  <2>2. p.id \in NodeIds /\ p.row = r - 1 /\ p.column = cell /\ p.box = StackBox(d, r, s, n)
    BY <1>5, <2>1 DEF ColumnNode
  <2>3. p.box = Box(<<cell.x, cell.w>>, shares[n])
    BY <2>2 DEF StackBox
  <2>4. p.box.x = cell.x /\ p.box.w = cell.w /\ p.box.y = shares[n][1] /\ p.box.h = shares[n][2]
    BY <2>3 DEF Box
  <2>5. shares[n][1] \in Nat /\ shares[n][2] \in Nat /\ cell.y <= shares[n][1]
        /\ (shares[n][2] > 0 => shares[n][1] + shares[n][2] <= Bottom(cell))
    BY <1>5, StackShares
  <2> HIDE DEF cell, shares
  <2>6. Natural(p.box) /\ p.box.x \in Int /\ p.box.y \in Int /\ p.box.w \in Int /\ p.box.h \in Int
    BY <1>2, <2>4, <2>5 DEF Natural
  <2>7. p.box \in Boxes
    BY <2>3, <2>4, <2>6 DEF Box, Boxes
  <2>8. cell.h > 0
    BY <1>1, <1>2, <2>4, <2>5 DEF Natural, Bottom
  <2>9. Bottom(p.box) <= Bottom(cell) /\ cell.y <= p.box.y
    BY <1>1, <2>4, <2>5 DEF Bottom
  <2>10. Right(p.box) <= Full /\ Bottom(cell) <= Full
    BY <1>1, <2>4, <2>8, CellEnds DEF cell
  <2> QED BY <1>1, <1>2, <1>4, <1>5, <1>6, <2>2, <2>4, <2>6, <2>7, <2>9, <2>10 DEF cell, shares
<1>7. CASE ~InColumn(d, r, s)
  <2>1. p = SlotNode(d, r, s) /\ n = 1
    BY <1>7 DEF At
  <2>2. p.id \in NodeIds /\ p.row = r - 1 /\ p.column = Unset /\ p.box = cell
    BY <1>5, <2>1 DEF SlotNode
  <2> HIDE DEF cell
  <2>3. cell.y <= p.box.y /\ Bottom(p.box) <= Bottom(cell)
    BY <1>2, <2>2 DEF Natural, Bottom
  <2> QED BY <1>1, <1>2, <1>4, <1>5, <1>7, <2>1, <2>2, <2>3, CellEnds DEF cell
<1> QED BY <1>6, <1>7

(* The shares of a column fill its cell up to what rounding loses: less than half a percent. *)
LEMMA ColumnFills ==
  ASSUME NEW weights \in Seq(Weight), NEW start \in Nat, NEW whole \in Nat, whole <= Full,
         NEW shares, shares = Distribute(weights, start, whole, NestedGutter),
         NEW some \in 1..Len(weights), shares[some][2] > 0
  PROVE  /\ shares[1][1] = start
         /\ start + whole <= shares[Len(weights)][1] + shares[Len(weights)][2] + 49
<1> DEFINE k == Len(weights)
           gutter == NestedGutter
           gaps == gutter * (k - 1)
           a == shares[k][1]
           b == shares[k][2]
<1>1. gutter \in Nat /\ gaps = gutter * (Len(weights) - 1) /\ shares = Distribute(weights, start, whole, gutter)
  BY DEF NestedGutter
<1>2. k \in Nat /\ k \in 1..k
  OBVIOUS
<1>3. a \in Nat /\ b \in Nat
  BY <1>1, <1>2, Shares
<1> HIDE DEF gutter, gaps
<1>4. shares[1][1] = start /\ start + whole <= a + b + (k - 1) /\ gaps < whole
  BY <1>1, SharesFill
<1>5. whole <= Full /\ k - 1 \in Nat
  BY <1>2
<1> HIDE DEF a, b, k
<1>6. gaps = 200 * (k - 1)
  BY DEF gaps, gutter, NestedGutter
<1>7. k - 1 <= 49
  BY <1>2, <1>4, <1>5, <1>6 DEF Full
<1>8. start + whole <= a + b + 49
  BY <1>2, <1>3, <1>4, <1>7
<1> QED BY <1>4, <1>8 DEF a, b, k

(* So they do between the ends of the column's own cell. *)
LEMMA StackFills ==
  ASSUME NEW d \in Topology, NEW r \in 1..Len(d.rows), NEW s \in 1..Len(SlotsOf(d, r)),
         NEW shares, shares = StackOf(d, r, s), NEW k \in 1..Len(NodesOf(d, r, s)), k = Len(NodesOf(d, r, s)), shares[k][2] > 0,
         Cell(d, r, s).h <= Full
  PROVE  /\ shares[1][1] = Cell(d, r, s).y
         /\ Bottom(Cell(d, r, s)) <= shares[k][1] + shares[k][2] + 49
<1> DEFINE weights == Weights(NodesOf(d, r, s))
           cell == Cell(d, r, s)
<1>1. weights \in Seq(Weight) /\ Len(weights) = k /\ shares = Distribute(weights, cell.y, cell.h, NestedGutter)
  BY TopologyTypes DEF StackOf
<1>2. Natural(cell)
  BY StackShares
<1>3. cell.y \in Nat /\ cell.h \in Nat
  BY <1>2 DEF Natural
<1>4. cell.h <= Full /\ k \in 1..Len(weights) /\ shares[k][2] > 0
  BY <1>1
<1> HIDE DEF weights, cell
<1>5. /\ shares[1][1] = cell.y
      /\ cell.y + cell.h <= shares[Len(weights)][1] + shares[Len(weights)][2] + 49
  BY ONLY <1>1, <1>3, <1>4, ColumnFills
<1>6. cell.y + cell.h <= shares[k][1] + shares[k][2] + 49
  BY <1>1, <1>5
<1> QED BY <1>5, <1>6 DEF cell, Bottom

(* The first and the last node of a column are at its ends, up to what rounding loses. *)
LEMMA StackEnds ==
  ASSUME NEW d \in Topology, Visible(d), NEW r \in 1..Len(d.rows), NEW s \in 1..Len(SlotsOf(d, r)),
         NEW n \in 1..Len(NodesOf(d, r, s)), NEW p, At(d, p, r, s, n)
  PROVE  \E first, last \in Places(d) :
           /\ At(d, first, r, s, 1) /\ first.box.y = Cell(d, r, s).y
           /\ At(d, last, r, s, Len(NodesOf(d, r, s))) /\ Bottom(Cell(d, r, s)) <= Bottom(last.box) + 49
<1> DEFINE k == Len(NodesOf(d, r, s))
           cell == Cell(d, r, s)
<1>1. k \in Nat /\ k > 0 /\ 1 \in 1..k /\ k \in 1..k
  BY TopologyTypes
<1>2. Natural(cell)
  BY StackShares
<1>3. CASE InColumn(d, r, s)
  <2> DEFINE shares == StackOf(d, r, s)
             first == ColumnNode(d, r, s, 1)
             last == ColumnNode(d, r, s, k)
  <2>1. At(d, first, r, s, 1) /\ At(d, last, r, s, k)
    BY <1>1, <1>3 DEF At
  <2>2. first \in Places(d) /\ first.box.y = shares[1][1] /\ last \in Places(d) /\ last.box.y = shares[k][1] /\ last.box.h = shares[k][2] /\ last.box.h > 0
    BY <1>3, <2>1, Sits
  <2>3. cell.h <= Full
    <3>1. Bottom(cell) <= Full
      BY <2>1, Sits
    <3> QED BY <1>2, <3>1 DEF Natural, Bottom, Full
  <2>4. shares[1][1] = cell.y /\ Bottom(cell) <= shares[k][1] + shares[k][2] + 49
    BY <1>1, <2>2, <2>3, StackFills
  <2> HIDE DEF k, cell, shares, first, last
  <2>5. Bottom(cell) <= Bottom(last.box) + 49
    BY <2>2, <2>4 DEF Bottom
  <2> QED BY <2>1, <2>2, <2>4, <2>5 DEF k, cell
<1>4. CASE ~InColumn(d, r, s)
  <2>1. p.box = cell /\ n = 1 /\ p \in Places(d)
    BY <1>4, Sits
  <2>2. k = 1
    BY <1>4, TopologyTypes DEF At
  <2>3. Bottom(cell) <= Bottom(cell) + 49
    BY <1>2 DEF Natural, Bottom
  <2> HIDE DEF k, cell
  <2> QED BY <2>1, <2>2, <2>3 DEF k, cell
<1> QED BY <1>3, <1>4

(* Cells of two rows are a row gutter apart, those of two slots of a row a column gutter, and *)
(* two nodes of one column a nested gutter.                                                   *)
LEMMA Separated ==
  ASSUME NEW d \in Topology, Visible(d),
         NEW r \in 1..Len(d.rows), NEW s \in 1..Len(SlotsOf(d, r)), NEW n, NEW p, At(d, p, r, s, n),
         NEW t \in 1..Len(d.rows), NEW u \in 1..Len(SlotsOf(d, t)), NEW m, NEW q, At(d, q, t, u, m)
  PROVE  /\ r < t => Bottom(Cell(d, r, s)) + RowGutter <= Cell(d, t, u).y
         /\ r = t /\ s < u => Right(Cell(d, r, s)) + ColGutter <= Cell(d, t, u).x
         /\ r = t /\ s = u /\ n < m => Bottom(p.box) + NestedGutter <= q.box.y
         /\ r = t /\ s = u /\ n = m => p = q
<1>1. r < t => Bottom(Cell(d, r, s)) + RowGutter <= Cell(d, t, u).y
  BY RowShares, CellOf DEF Bottom
<1>2. ASSUME r = t, s < u PROVE Right(Cell(d, r, s)) + ColGutter <= Cell(d, t, u).x
  <2> DEFINE across == Distribute(Weights(SlotsOf(d, r)), 0, Full, ColGutter)
  <2>1. s \in 1..Len(SlotsOf(d, r)) /\ u \in 1..Len(SlotsOf(d, r))
    BY <1>2
  <2>2. across[s][1] + across[s][2] + ColGutter <= across[u][1]
    BY <1>2, <2>1, SlotShares
  <2>3. Cell(d, t, u).x = across[u][1] /\ Cell(d, r, s).x = across[s][1] /\ Cell(d, r, s).w = across[s][2]
    BY <1>2, <2>1, CellOf
  <2> QED BY <2>2, <2>3 DEF Right
<1>3. ASSUME r = t, s = u, n < m PROVE Bottom(p.box) + NestedGutter <= q.box.y
  <2>1. n \in 1..Len(NodesOf(d, r, s)) /\ m \in 1..Len(NodesOf(d, r, s))
    BY <1>3, Positions
  <2>2. At(d, q, r, s, m)
    BY <1>3
  <2>3. InColumn(d, r, s)
    <3>1. n # m /\ Len(NodesOf(d, r, s)) \in Nat
      BY <1>3, TopologyTypes, <2>1
    <3> QED BY <2>2, <3>1 DEF At
  <2> DEFINE stack == StackOf(d, r, s)
  <2>4. p.box.y = stack[n][1] /\ p.box.h = stack[n][2] /\ q.box.y = stack[m][1]
    BY <2>2, <2>3, Sits
  <2>5. stack[n][1] + stack[n][2] + NestedGutter <= stack[m][1]
    BY <1>3, <2>1, StackShares
  <2> QED BY <2>4, <2>5 DEF Bottom
<1>4. ASSUME r = t, s = u, n = m PROVE p = q
  <2>1. SlotsOf(d, r)[s].kind # "arch-node" \/ SlotsOf(d, r)[s].kind # "arch-col"
    OBVIOUS
  <2> QED BY <1>4, <2>1 DEF At, InColumn
<1> QED BY <1>1, <1>2, <1>3, <1>4

(* Rounding to tenths moves a number by half a tenth at most, and leaves zero and the whole. *)
LEMMA TenthsNear ==
  ASSUME NEW v \in Int
  PROVE  /\ Tenths(v) \in Int /\ v <= Tenths(v) + 5 /\ Tenths(v) <= v + 5
         /\ v >= 0 => Tenths(v) \in Nat
         /\ v <= Full => Tenths(v) <= Full
         /\ Tenths(0) = 0
<1> DEFINE c(n) == IF n \in HalvesUp THEN 5 ELSE 4
           q(n) == (n + c(n)) \div 10
<1>1. \A n \in Int : q(n) \in Int /\ 10 * q(n) <= n + c(n) /\ n + c(n) < 10 * q(n) + 10 /\ c(n) \in {4, 5}
  <2> TAKE n \in Int
  <2> DEFINE k == c(n)
  <2>1. k \in {4, 5}
    OBVIOUS
  <2> HIDE DEF k
  <2>2. (n + k) \div 10 \in Int /\ 10 * ((n + k) \div 10) <= n + k /\ n + k < 10 * ((n + k) \div 10) + 10
    BY <2>1
  <2> QED BY <2>1, <2>2 DEF k
<1>2. \A n : Tenths(n) = 10 * q(n)
  BY DEF Tenths
<1> HIDE DEF q, c
<1>3. q(v) \in Int /\ 10 * q(v) <= v + 5 /\ v <= 10 * q(v) + 5 /\ (v >= 0 => q(v) >= 0) /\ (v <= 10000 => q(v) <= 1000)
  BY <1>1
<1>4. q(0) = 0
  BY <1>1
<1> QED BY <1>2, <1>3, <1>4 DEF Full

(* Fractions of two numbers, each rounded down, are no more than that of what is no less than their sum. *)
LEMMA FloorsAdd ==
  ASSUME NEW a \in Nat, NEW b \in Nat, NEW c \in Nat, a + b <= c, NEW k \in Nat, NEW m \in Nat, m > 0
  PROVE  /\ (a * k) \div m \in Nat /\ (b * k) \div m \in Nat /\ (c * k) \div m \in Nat
         /\ (a * k) \div m + (b * k) \div m <= (c * k) \div m
<1> DEFINE A == a * k
           B == b * k
           C == c * k
           p == A \div m
           q == B \div m
           r == C \div m
<1>1. A \in Nat /\ B \in Nat /\ C \in Nat /\ A + B <= C
  <2>1. a + b \in Nat /\ (a + b) * k <= c * k /\ (a + b) * k = a * k + b * k
    BY Products
  <2> QED BY <2>1, Products
<1> HIDE DEF A, B, C
<1>2. p \in Nat /\ q \in Nat /\ r \in Nat /\ p * m <= A /\ q * m <= B /\ C < r * m + m
  BY <1>1, Quotients
<1> HIDE DEF p, q, r
<1>3. p + q <= r
  <2>1. p + q \in Nat /\ r + 1 \in Nat
    BY <1>2
  <2>2. (p + q) * m = p * m + q * m /\ (r + 1) * m = r * m + m /\ p * m \in Nat /\ q * m \in Nat /\ r * m \in Nat
    <3>1. (r + 1) * m = r * m + m
      BY <1>2, SMT
    <3> QED BY <1>2, <3>1, Products
  <2> SUFFICES ASSUME r + 1 <= p + q PROVE FALSE
    BY <1>2
  <2>3. (r + 1) * m <= (p + q) * m
    BY <2>1, Products
  <2> QED BY <1>1, <1>2, <2>2, <2>3
<1> QED BY <1>2, <1>3 DEF p, q, r, A, B, C

(* A length a of whole, stored as a fraction that rounding moved and shown in a whole that rounding moved. *)
LEMMA ReadBack ==
  ASSUME NEW whole \in Nat, whole > 0, whole <= Full, NEW a \in Nat, a <= whole,
         NEW part, part = (a * Full) \div whole,
         NEW l \in Nat, NEW written \in Nat, written <= Full, written <= whole + 5, whole <= written + 5,
         NEW back, back = (l * written) \div Full
  PROVE  /\ part \in Nat /\ part <= Full /\ back \in Nat
         /\ l <= part + 10 => back <= a + 15
         /\ part <= l + 5 => a <= back + 15
<1> DEFINE A == a * Full
           M == part * whole
           N == part * written
           L == l * written
           F == Full
<1>1. F = 10000 /\ F \in Nat /\ F > 0 /\ A = 10000 * a
  BY DEF Full
<1>2. A \in Nat /\ L \in Nat
  BY <1>1, Products
<1>3. part \in Nat /\ M <= A /\ A < M + whole
  <2> HIDE DEF A
  <2>1. part = A \div whole
    BY DEF A
  <2> QED BY <1>2, <2>1, Quotients
<1>4. back \in Nat /\ 10000 * back <= L /\ L < 10000 * back + 10000
  <2> HIDE DEF L
  <2>1. back = L \div F /\ back \in Nat /\ back * F <= L /\ L < back * F + F
    BY <1>1, <1>2, Quotients DEF L
  <2> QED BY <1>1, <2>1
<1>5. part <= F
  <2>1. whole * F \in Nat /\ a * F <= whole * F /\ whole * F = F * whole
    BY <1>1, Products
  <2>2. part * whole <= F * whole
    <3>1. M \in Nat
      BY <1>3, Products
    <3> QED BY <1>1, <1>2, <1>3, <2>1, <3>1
  <2> QED BY <1>1, <1>3, <2>2, Products
<1>6. /\ M \in Nat /\ N \in Nat /\ N <= M + 5 * part /\ M <= N + 5 * part
  <2>1. \A x, y \in Nat : x <= y + 5 => part * x <= part * y + 5 * part
    <3> TAKE x, y \in Nat
    <3> HAVE x <= y + 5
    <3>1. y + 5 \in Nat /\ part * x = x * part /\ (y + 5) * part = y * part + 5 * part /\ y * part = part * y
      BY <1>3, Products
    <3>2. x * part <= (y + 5) * part
      BY <1>3, <3>1, Products
    <3> QED BY <3>1, <3>2
  <2> QED BY <1>3, <2>1, Products
<1>7. ASSUME l <= part + 10 PROVE L <= N + 10 * written
  <2>1. part + 10 \in Nat /\ (part + 10) * written = part * written + 10 * written
    BY <1>3, Products
  <2>2. l * written <= (part + 10) * written
    BY <1>7, <2>1, Products
  <2> QED BY <2>1, <2>2
<1>8. ASSUME part <= l + 5 PROVE N <= L + 5 * written
  <2>1. l + 5 \in Nat /\ (l + 5) * written = l * written + 5 * written
    BY Products
  <2>2. part * written <= (l + 5) * written
    BY <1>3, <1>8, <2>1, Products
  <2> QED BY <2>1, <2>2
<1>9. F = Full
  OBVIOUS
<1> HIDE DEF A, M, N, L, F
<1>10. part <= 10000 /\ whole <= 10000 /\ written <= 10000
  BY <1>1, <1>5, <1>9
<1>11. ASSUME l <= part + 10 PROVE back <= a + 15
  BY <1>1, <1>2, <1>3, <1>4, <1>6, <1>7, <1>10, <1>11
<1>12. ASSUME part <= l + 5 PROVE a <= back + 15
  BY <1>1, <1>2, <1>3, <1>4, <1>6, <1>8, <1>10, <1>12
<1> QED BY <1>3, <1>4, <1>5, <1>9, <1>11, <1>12

(* Along one axis, what is seen of from and size within a column is at most two tenths off. *)
LEMMA AxisInColumn ==
  ASSUME NEW start \in Nat, NEW whole \in Nat, whole > 0, whole <= Full,
         NEW from \in Nat, NEW size \in Nat, start <= from, from + size <= start + whole,
         NEW b, b = Tenths(start) + (Tenths(Percent(from - start, whole)) * Tenths(whole)) \div Full,
         NEW k, k = (Tenths(Percent(size, whole)) * Tenths(whole)) \div Full
  PROVE  b \in Nat /\ k \in Nat /\ from <= b + 20 /\ b + k <= from + size + 20
<1> DEFINE a == from - start
           e == a + size
           partA == (a * Full) \div whole
           partS == (size * Full) \div whole
           partE == (e * Full) \div whole
           lA == Tenths(partA)
           lS == Tenths(partS)
           lE == lA + lS
           written == Tenths(whole)
           backA == (lA * written) \div Full
           backS == (lS * written) \div Full
           backE == (lE * written) \div Full
           first == Tenths(start)
<1>1. a \in Nat /\ e \in Nat /\ a <= whole /\ e <= whole /\ a + size <= e
  OBVIOUS
<1>2. Full \in Nat /\ Full > 0
  BY DEF Full
<1>3. b = first + backA /\ k = backS
  BY DEF Percent
<1>4. partA \in Nat /\ partS \in Nat /\ partE \in Nat /\ partA + partS <= partE
  <2> HIDE DEF a, e
  <2> QED BY <1>1, <1>2, FloorsAdd
<1>5. written \in Nat /\ written <= Full /\ written <= whole + 5 /\ whole <= written + 5
  BY TenthsNear
<1>6. first \in Nat /\ first <= start + 5 /\ start <= first + 5
  BY TenthsNear
<1>7. lA \in Nat /\ lA <= partA + 5 /\ partA <= lA + 5 /\ lS \in Nat /\ lS <= partS + 5
  <2> HIDE DEF partA, partS
  <2>1. partA \in Int /\ partA >= 0 /\ partS \in Int /\ partS >= 0
    BY <1>4
  <2> QED BY <2>1, TenthsNear
<1>8. lE \in Nat /\ lE <= partE + 10
  <2> HIDE DEF partA, partS, partE, lA, lS
  <2> QED BY <1>4, <1>7
<1>9. backA \in Nat /\ a <= backA + 15
  <2> HIDE DEF a, lA, written
  <2>1. partA = (a * Full) \div whole /\ backA = (lA * written) \div Full
    OBVIOUS
  <2> HIDE DEF partA, backA
  <2> QED BY <1>1, <1>5, <1>7, <2>1, ReadBack
<1>10. backE \in Nat /\ backE <= e + 15
  <2> HIDE DEF e, lE, written
  <2>1. partE = (e * Full) \div whole /\ backE = (lE * written) \div Full
    OBVIOUS
  <2> HIDE DEF partE, backE
  <2> QED BY <1>1, <1>5, <1>8, <2>1, ReadBack
<1>11. backS \in Nat /\ backA + backS <= backE
  <2>1. lA + lS <= lE
    BY <1>7, <1>8
  <2> HIDE DEF lA, lS, lE, written
  <2> QED BY <1>2, <1>5, <1>7, <1>8, <2>1, FloorsAdd
<1>12. a = from - start /\ e = from - start + size
  OBVIOUS
<1> HIDE DEF a, e, first, backA, backS, backE
<1> QED BY <1>3, <1>6, <1>9, <1>10, <1>11, <1>12

(* A finite set of numbers has a least and a greatest one. *)
LEMMA Extremes ==
  ASSUME NEW T \in SUBSET Int, IsFiniteSet(T), T # {}
  PROVE  (\E m \in T : \A k \in T : m <= k) /\ (\E m \in T : \A k \in T : m >= k)
<1> DEFINE Below(k) == {x \in T : x <= k}
           Above(k) == {x \in T : x >= k}
           Belows == {Below(k) : k \in T}
           Aboves == {Above(k) : k \in T}
<1>1. IsWellFoundedOn(StrictSubsetOrdering(T), FiniteSubsetsOf(T))
  BY FS_StrictSubsetOrderingWellFounded
<1>2. \A k \in T : Below(k) \in FiniteSubsetsOf(T) /\ Above(k) \in FiniteSubsetsOf(T)
  <2> TAKE k \in T
  <2>1. Below(k) \in SUBSET T /\ Above(k) \in SUBSET T
    OBVIOUS
  <2> HIDE DEF Below, Above
  <2>2. IsFiniteSet(Below(k)) /\ IsFiniteSet(Above(k))
    BY <2>1, FS_Subset
  <2> QED BY <2>1, <2>2 DEF FiniteSubsetsOf
<1>3. Belows \subseteq FiniteSubsetsOf(T) /\ Belows # {} /\ Aboves \subseteq FiniteSubsetsOf(T) /\ Aboves # {}
  <2> HIDE DEF Below, Above
  <2> QED BY <1>2
<1>4. \E m \in T : \A k \in T : m <= k
  <2> HIDE DEF Belows
  <2>1. PICK x \in Belows : \A y \in Belows : ~(<<y, x>> \in StrictSubsetOrdering(T))
    BY <1>1, <1>3, WFMin
  <2>2. PICK m \in T : x = Below(m)
    BY DEF Belows
  <2>3. ASSUME NEW k \in T, k < m PROVE FALSE
    <3>1. Below(k) \in Belows
      BY DEF Belows
    <3>4. \A y \in T : y <= k => y <= m
      BY <2>3
    <3>5. m <= m /\ ~(m <= k)
      BY <2>3
    <3>2. m \in Below(m) /\ m \notin Below(k) /\ Below(k) \subseteq Below(m) /\ Below(m) \subseteq T
      BY <3>4, <3>5, Zenon
    <3>3. <<Below(k), Below(m)>> \in StrictSubsetOrdering(T)
      <4> HIDE DEF Below
      <4> QED BY <3>2 DEF StrictSubsetOrdering
    <3> QED BY <2>1, <2>2, <3>1, <3>3
  <2> QED BY <2>3
<1>5. \E m \in T : \A k \in T : m >= k
  <2> HIDE DEF Aboves
  <2>1. PICK x \in Aboves : \A y \in Aboves : ~(<<y, x>> \in StrictSubsetOrdering(T))
    BY <1>1, <1>3, WFMin
  <2>2. PICK m \in T : x = Above(m)
    BY DEF Aboves
  <2>3. ASSUME NEW k \in T, k > m PROVE FALSE
    <3>1. Above(k) \in Aboves
      BY DEF Aboves
    <3>4. \A y \in T : y >= k => y >= m
      BY <2>3
    <3>5. m >= m /\ ~(m >= k)
      BY <2>3
    <3>2. m \in Above(m) /\ m \notin Above(k) /\ Above(k) \subseteq Above(m) /\ Above(m) \subseteq T
      BY <3>4, <3>5, Zenon
    <3>3. <<Above(k), Above(m)>> \in StrictSubsetOrdering(T)
      <4> HIDE DEF Above
      <4> QED BY <3>2 DEF StrictSubsetOrdering
    <3> QED BY <2>1, <2>2, <3>1, <3>3
  <2> QED BY <2>3
<1> QED BY <1>4, <1>5

(* The image of a finite set is finite. *)
LEMMA FiniteImage ==
  ASSUME NEW S, IsFiniteSet(S), NEW f
  PROVE  IsFiniteSet({f[x] : x \in S})
<1> DEFINE g == [x \in S |-> f[x]]
           T == {f[x] : x \in S}
<1>1. g \in Surjection(S, T)
  BY DEF Surjection
<1> HIDE DEF g, T
<1>2. IsFiniteSet(T)
  BY <1>1, FS_Surjection
<1> QED BY <1>2 DEF T

(* A diagram has finitely many places. *)
LEMMA FinitePlaces ==
  ASSUME NEW d \in Topology
  PROVE  IsFiniteSet(Places(d))
<1> DEFINE n == Len(d.rows)
           InRow(r) == RowPlaces(RowsInOrder(d.rows)[r], r - 1, RowGeometry(d)[r])
           rowsPlaces == [r \in 1..n |-> InRow(r)]
<1>1. DOMAIN d.rows = 1..n /\ n \in Nat
  BY TopologyTypes
<1>2. ASSUME NEW a \in Nat PROVE IsFiniteSet(1..a)
  <2>1. 1 \in Int /\ a \in Int
    OBVIOUS
  <2> QED BY <2>1, FS_Interval
<1>3. ASSUME NEW r \in 1..n PROVE IsFiniteSet(InRow(r))
  <2> DEFINE m == Len(SlotsOf(d, r))
             Here(s) == SlotPlaces(SlotsOf(d, r)[s], Cell(d, r, s), r - 1)
             slots == [s \in 1..m |-> Here(s)]
  <2>1. DOMAIN SlotsOf(d, r) = 1..m /\ m \in Nat
    BY TopologyTypes
  <2>2. InRow(r) = UNION {Here(s) : s \in 1..m}
    BY <2>1 DEF RowPlaces, SlotsOf, Cell
  <2>3. ASSUME NEW s \in 1..m PROVE IsFiniteSet(Here(s))
    <3> DEFINE k == Len(NodesOf(d, r, s))
               nodes == [i \in 1..k |-> ColumnNode(d, r, s, i)]
    <3>1. /\ SlotsOf(d, r)[s].kind \in {"arch-node", "arch-col", "arch-spacer"}
          /\ DOMAIN NodesOf(d, r, s) = 1..k /\ k \in Nat
      BY TopologyTypes
    <3>2. CASE SlotsOf(d, r)[s].kind = "arch-node"
      <4>1. Here(s) = {SlotNode(d, r, s)}
        BY <3>2 DEF SlotPlaces, SlotNode, NodesOf
      <4> HIDE DEF Here
      <4> QED BY <4>1, FS_Singleton
    <3>3. CASE SlotsOf(d, r)[s].kind = "arch-col"
      <4>1. Here(s) = {ColumnNode(d, r, s, i) : i \in 1..k}
        BY <3>1, <3>3 DEF SlotPlaces, ColumnNode, StackBox, StackOf, NodesOf
      <4>2. Here(s) = {nodes[i] : i \in 1..k}
        <5> HIDE DEF Here
        <5> QED BY <4>1
      <4> HIDE DEF Here, nodes, k
      <4> QED BY <1>2, <3>1, <4>2, FiniteImage
    <3>4. CASE SlotsOf(d, r)[s].kind = "arch-spacer"
      <4>1. Here(s) = {}
        BY <3>4 DEF SlotPlaces
      <4> HIDE DEF Here
      <4> QED BY <4>1, FS_EmptySet
    <3> QED BY <3>1, <3>2, <3>3, <3>4
  <2> HIDE DEF Here, InRow, m
  <2>4. InRow(r) = UNION {slots[s] : s \in 1..m}
    BY <2>2
  <2>5. \A T \in {slots[s] : s \in 1..m} : IsFiniteSet(T)
    BY <2>3
  <2> DEFINE sets == {slots[s] : s \in 1..m}
  <2>6. IsFiniteSet(sets)
    <3> HIDE DEF slots
    <3> QED BY <1>2, <2>1, FiniteImage
  <2> HIDE DEF slots, sets
  <2> QED BY <2>4, <2>5, <2>6, FS_UNION DEF sets
<1>4. Places(d) = UNION {InRow(r) : r \in 1..n}
  BY <1>1 DEF Places
<1> HIDE DEF InRow, n
<1>5. Places(d) = UNION {rowsPlaces[r] : r \in 1..n}
  BY <1>4
<1>6. \A T \in {rowsPlaces[r] : r \in 1..n} : IsFiniteSet(T)
  BY <1>3
<1> HIDE DEF rowsPlaces
<1> DEFINE sets == {rowsPlaces[r] : r \in 1..n}
<1>7. IsFiniteSet(sets)
  BY <1>1, <1>2, FiniteImage
<1>8. (\A T \in sets : IsFiniteSet(T)) /\ Places(d) = UNION sets
  BY <1>5, <1>6
<1> HIDE DEF sets
<1> QED BY <1>7, <1>8, FS_UNION

(* Boxes one of which ends above, or left of, where the other begins do not overlap. *)
LEMMA ApartInOneDirection ==
  ASSUME NEW a, NEW b, Natural(a), Natural(b), Bottom(a) <= b.y \/ Right(a) <= b.x
  PROVE  ~Overlap(a, b) /\ ~Overlap(b, a)
BY DEF Natural, Bottom, Right, Overlap

(* b is where o is but for two tenths. *)
Near(b, o) ==
  /\ Natural(b)
  /\ o.x <= b.x + 20 /\ Right(b) <= Right(o) + 20
  /\ o.y <= b.y + 20 /\ Bottom(b) <= Bottom(o) + 20

(* Boxes stay above, or beside, one another when both move by what rounding moves them. *)
LEMMA StillApart ==
  ASSUME NEW a, NEW A, NEW b, NEW B, Natural(A), Natural(B), Near(a, A), Near(b, B), NEW gap \in Nat, gap >= 40
  PROVE  /\ Bottom(A) + gap <= B.y => Bottom(a) <= b.y
         /\ Right(A) + gap <= B.x => Right(a) <= b.x
BY DEF Natural, Near, Bottom, Right

(* What is in one of two cells above one another is above what is in the other. *)
LEMMA WellAbove ==
  ASSUME NEW a, NEW A, NEW b, NEW B, Natural(a), Natural(A), Natural(b), Natural(B), NEW gap \in Nat,
         Bottom(a) <= Bottom(A), B.y <= b.y, Bottom(A) + gap <= B.y
  PROVE  Bottom(a) + gap <= b.y
BY DEF Natural, Bottom

(* What the browser shows of p once p is written. *)
SeenAs(p) ==
  IF p.column = Unset THEN Rounded(p.box) ELSE FromLocal(Rounded(ToLocal(p.box, p.column)), Rounded(p.column))

(* A cell with a node in it is no larger than the diagram. *)
LEMMA CellsFit ==
  ASSUME NEW box, NEW cell, Natural(box), Natural(cell), box.w > 0, box.h > 0, box.w = cell.w, Right(box) <= Full,
         cell.y <= box.y, Bottom(box) <= Bottom(cell), Bottom(cell) <= Full
  PROVE  cell.w \in Nat /\ cell.w > 0 /\ cell.w <= Full /\ cell.h \in Nat /\ cell.h > 0 /\ cell.h <= Full
<1> DEFINE w == cell.w
           h == cell.h
           y == cell.y
           b == box.y
           k == box.h
           x == box.x
<1>1. w \in Nat /\ h \in Nat /\ y \in Nat /\ b \in Nat /\ k \in Nat /\ x \in Nat /\ k > 0 /\ w > 0
  BY DEF Natural
<1>2. x + w <= 10000 /\ y <= b /\ b + k <= y + h /\ y + h <= 10000
  BY DEF Right, Bottom, Full
<1> HIDE DEF w, h, y, b, k, x
<1>3. w <= 10000 /\ h > 0 /\ h <= 10000
  BY <1>1, <1>2
<1> QED BY <1>1, <1>3 DEF w, h, Full

(* A rounded box is where the box is. *)
LEMMA RoundedIsNear ==
  ASSUME NEW o, Natural(o)
  PROVE  Near(Rounded(o), o)
<1> DEFINE b == Rounded(o)
<1>1. o.x \in Int /\ o.y \in Int /\ o.w \in Int /\ o.h \in Int /\ o.x >= 0 /\ o.y >= 0 /\ o.w >= 0 /\ o.h >= 0
  BY DEF Natural
<1>2. b.x = Tenths(o.x) /\ b.y = Tenths(o.y) /\ b.w = Tenths(o.w) /\ b.h = Tenths(o.h)
  BY DEF Rounded
<1>3. b.x \in Nat /\ o.x <= b.x + 5 /\ b.x <= o.x + 5 /\ b.w \in Nat /\ b.w <= o.w + 5
  BY <1>1, <1>2, TenthsNear
<1>4. b.y \in Nat /\ o.y <= b.y + 5 /\ b.y <= o.y + 5 /\ b.h \in Nat /\ b.h <= o.h + 5
  BY <1>1, <1>2, TenthsNear
<1> HIDE DEF b
<1>5. Near(b, o)
  BY <1>1, <1>3, <1>4 DEF Near, Natural, Right, Bottom
<1> QED BY <1>5 DEF b

(* Where the browser shows a node is where it was computed to be, but for two tenths. *)
LEMMA SeenInPlace ==
  ASSUME NEW d \in Topology, Visible(d), NEW r \in 1..Len(d.rows), NEW s \in 1..Len(SlotsOf(d, r)),
         NEW n, NEW p, At(d, p, r, s, n)
  PROVE  Near(SeenAs(p), p.box)
<1> DEFINE cell == Cell(d, r, s)
<1>1. /\ Natural(p.box) /\ p.box.w > 0 /\ p.box.h > 0 /\ Natural(cell) /\ cell \in Boxes
      /\ p.box.x = cell.x /\ p.box.w = cell.w /\ Right(p.box) <= Full
      /\ cell.y <= p.box.y /\ Bottom(p.box) <= Bottom(cell) /\ Bottom(cell) <= Full
      /\ InColumn(d, r, s) => p.column = cell
      /\ ~InColumn(d, r, s) => p.column = Unset /\ p.box = cell
  BY Sits
<1>2. CASE ~InColumn(d, r, s)
  <2>1. SeenAs(p) = Rounded(p.box)
    BY <1>1, <1>2 DEF SeenAs
  <2> QED BY <1>1, <2>1, RoundedIsNear
<1>3. CASE InColumn(d, r, s)
  <2>1. p.column = cell /\ cell # Unset
    BY <1>1, <1>3, LayoutAssumption
  <2> DEFINE box == p.box
             b == FromLocal(Rounded(ToLocal(box, cell)), Rounded(cell))
  <2>2. SeenAs(p) = b
    BY <2>1 DEF SeenAs
  <2>3. /\ b.x = Tenths(cell.x) + (Tenths(Percent(box.x - cell.x, cell.w)) * Tenths(cell.w)) \div Full
        /\ b.y = Tenths(cell.y) + (Tenths(Percent(box.y - cell.y, cell.h)) * Tenths(cell.h)) \div Full
        /\ b.w = (Tenths(Percent(box.w, cell.w)) * Tenths(cell.w)) \div Full
        /\ b.h = (Tenths(Percent(box.h, cell.h)) * Tenths(cell.h)) \div Full
    <3> HIDE DEF box, cell
    <3> QED BY DEF FromLocal, ToLocal, Rounded
  <2>4. Natural(box) /\ Natural(cell)
    BY <1>1
  <2>5. cell.w \in Nat /\ cell.w > 0 /\ cell.w <= Full /\ cell.h \in Nat /\ cell.h > 0 /\ cell.h <= Full
    <3>1. /\ Natural(box) /\ Natural(cell) /\ box.w > 0 /\ box.h > 0 /\ box.w = cell.w /\ Right(box) <= Full
          /\ cell.y <= box.y /\ Bottom(box) <= Bottom(cell) /\ Bottom(cell) <= Full
      BY <1>1
    <3> HIDE DEF box, cell
    <3> QED BY <3>1, CellsFit
  <2>6. /\ cell.x \in Nat /\ cell.y \in Nat /\ box.x \in Nat /\ box.y \in Nat /\ box.w \in Nat /\ box.h \in Nat
        /\ cell.x <= box.x /\ box.x + box.w <= cell.x + cell.w
        /\ cell.y <= box.y /\ box.y + box.h <= cell.y + cell.h
    <3>1. box.x = cell.x /\ box.w = cell.w /\ cell.y <= box.y /\ Bottom(box) <= Bottom(cell)
      BY <1>1
    <3> HIDE DEF box, cell
    <3>2. cell.x \in Nat /\ cell.y \in Nat /\ box.x \in Nat /\ box.y \in Nat /\ box.w \in Nat /\ box.h \in Nat
      BY <2>4 DEF Natural
    <3>3. cell.x <= box.x /\ box.x + box.w <= cell.x + cell.w
      BY <2>5, <3>1, <3>2
    <3> QED BY <3>1, <3>2, <3>3 DEF Bottom
  <2> HIDE DEF box, cell, b
  <2>7. b.x \in Nat /\ b.w \in Nat /\ box.x <= b.x + 20 /\ b.x + b.w <= box.x + box.w + 20
    BY <2>3, <2>5, <2>6, AxisInColumn
  <2>8. b.y \in Nat /\ b.h \in Nat /\ box.y <= b.y + 20 /\ b.y + b.h <= box.y + box.h + 20
    BY <2>3, <2>5, <2>6, AxisInColumn
  <2>9. Near(b, box)
    BY <2>7, <2>8 DEF Near, Natural, Right, Bottom
  <2> QED BY <2>2, <2>9 DEF box
<1> QED BY <1>2, <1>3

(* No two nodes are seen to overlap: their computed boxes are a gutter apart, of two percent at least. *)
LEMMA SeenApart ==
  ASSUME NEW d \in Topology, Visible(d), NEW p \in Places(d), NEW q \in Places(d), p # q
  PROVE  ~Overlap(SeenAs(p), SeenAs(q))
<1>1. PICK r \in 1..Len(d.rows) : \E s \in 1..Len(SlotsOf(d, r)) : \E n \in 1..Len(NodesOf(d, r, s)) : At(d, p, r, s, n)
  BY PlacesAre
<1>2. PICK s \in 1..Len(SlotsOf(d, r)) : \E n \in 1..Len(NodesOf(d, r, s)) : At(d, p, r, s, n)
  BY <1>1
<1>3. PICK n \in 1..Len(NodesOf(d, r, s)) : At(d, p, r, s, n)
  BY <1>2
<1>4. PICK t \in 1..Len(d.rows) : \E u \in 1..Len(SlotsOf(d, t)) : \E m \in 1..Len(NodesOf(d, t, u)) : At(d, q, t, u, m)
  BY PlacesAre
<1>5. PICK u \in 1..Len(SlotsOf(d, t)) : \E m \in 1..Len(NodesOf(d, t, u)) : At(d, q, t, u, m)
  BY <1>4
<1>6. PICK m \in 1..Len(NodesOf(d, t, u)) : At(d, q, t, u, m)
  BY <1>5
<1> DEFINE a == SeenAs(p)
           b == SeenAs(q)
           P == p.box
           Q == q.box
           A == Cell(d, r, s)
           B == Cell(d, t, u)
<1>7. Near(a, P) /\ Natural(P) /\ Natural(A) /\ P.x = A.x /\ P.w = A.w /\ A.y <= P.y /\ Bottom(P) <= Bottom(A)
  BY <1>3, SeenInPlace, Sits
<1>8. Near(b, Q) /\ Natural(Q) /\ Natural(B) /\ Q.x = B.x /\ Q.w = B.w /\ B.y <= Q.y /\ Bottom(Q) <= Bottom(B)
  BY <1>6, SeenInPlace, Sits
<1>9. /\ r < t => Bottom(A) + RowGutter <= B.y
      /\ r = t /\ s < u => Right(A) + ColGutter <= B.x
      /\ r = t /\ s = u /\ n < m => Bottom(P) + NestedGutter <= Q.y
      /\ r = t /\ s = u /\ n = m => p = q
  BY <1>3, <1>6, Separated
<1>10. /\ t < r => Bottom(B) + RowGutter <= A.y
       /\ r = t /\ u < s => Right(B) + ColGutter <= A.x
       /\ r = t /\ s = u /\ m < n => Bottom(Q) + NestedGutter <= P.y
  BY <1>3, <1>6, Separated
<1>11. /\ r \in Nat /\ t \in Nat /\ s \in Nat /\ u \in Nat /\ n \in Nat /\ m \in Nat
  OBVIOUS
<1>12. /\ r = t /\ s = u => n < m \/ m < n
       /\ r = t => s < u \/ u < s \/ s = u
       /\ r < t \/ t < r \/ r = t
  BY <1>9, <1>11
<1> HIDE DEF a, b, P, Q, A, B
<1>13. SUFFICES ~Overlap(a, b)
  BY DEF a, b
<1>14. RowGutter \in Nat /\ RowGutter >= 40 /\ ColGutter \in Nat /\ ColGutter >= 40 /\ NestedGutter \in Nat /\ NestedGutter >= 40
  BY DEF RowGutter, ColGutter, NestedGutter
<1>15. Natural(a) /\ Natural(b)
  BY <1>7, <1>8 DEF Near
<1>16. CASE r # t
  <2>1. Bottom(A) + RowGutter <= B.y \/ Bottom(B) + RowGutter <= A.y
    BY <1>9, <1>10, <1>12, <1>16
  <2>2. Bottom(P) + RowGutter <= Q.y \/ Bottom(Q) + RowGutter <= P.y
    BY <1>7, <1>8, <1>14, <2>1, WellAbove
  <2>3. Bottom(a) <= b.y \/ Bottom(b) <= a.y
    BY <1>7, <1>8, <1>14, <2>2, StillApart
  <2> QED BY <1>15, <2>3, ApartInOneDirection
<1>17. CASE r = t /\ s # u
  <2>1. Right(A) + ColGutter <= B.x \/ Right(B) + ColGutter <= A.x
    BY <1>9, <1>10, <1>12, <1>17
  <2>2. Right(P) + ColGutter <= Q.x \/ Right(Q) + ColGutter <= P.x
    BY <1>7, <1>8, <2>1 DEF Right
  <2>3. Right(a) <= b.x \/ Right(b) <= a.x
    BY <1>7, <1>8, <1>14, <2>2, StillApart
  <2> QED BY <1>15, <2>3, ApartInOneDirection
<1>18. CASE r = t /\ s = u
  <2>1. Bottom(P) + NestedGutter <= Q.y \/ Bottom(Q) + NestedGutter <= P.y
    BY <1>9, <1>10, <1>12, <1>18
  <2>2. Bottom(a) <= b.y \/ Bottom(b) <= a.y
    BY <1>7, <1>8, <1>14, <2>1, StillApart
  <2> QED BY <1>15, <2>2, ApartInOneDirection
<1> QED BY <1>16, <1>17, <1>18

-----------------------------------------------------------------------------
(* What a layout writes *)

(* A cell that holds a box of some height has a height. *)
LEMMA InsideIsPositive ==
  ASSUME NEW box, NEW cell, Natural(box), Natural(cell), box.h > 0, cell.y <= box.y, Bottom(box) <= Bottom(cell), Bottom(cell) <= Full
  PROVE  cell.h > 0 /\ Bottom(box) <= Full
BY DEF Natural, Bottom, Full

(* What is near a box of the diagram is inside it, but for two tenths. *)
LEMMA InTheDiagram ==
  ASSUME NEW o, NEW b, Natural(o), Near(b, o), Right(o) <= Full, Bottom(o) <= Full
  PROVE  Inside(b, Grown(DiagramSlack, Box(<<0, Full>>, <<0, Full>>)))
<1> DEFINE outer == Grown(DiagramSlack, Box(<<0, Full>>, <<0, Full>>))
<1>1. outer.x = 0 /\ outer.y = 0 /\ outer.w = 10020 /\ outer.h = 10020
  BY DEF Grown, Box, Full, DiagramSlack
<1> HIDE DEF outer
<1>2. Inside(b, outer)
  BY <1>1 DEF Near, Natural, Bottom, Right, Inside, Full
<1> QED BY <1>2 DEF outer

(* Boxes are converted to boxes. *)
LEMMA LocalTypes ==
  ASSUME NEW box \in Boxes, NEW column \in Boxes, Natural(column), column.w > 0, column.h > 0
  PROVE  FromLocal(box, column) \in Boxes /\ ToLocal(box, column) \in Boxes
<1>1. \A a, b \in Int : a * b \in Int
  OBVIOUS
<1>2. \A a \in Int : \A n \in Nat : n > 0 => a \div n \in Int
  OBVIOUS
<1>3. box.x \in Int /\ box.y \in Int /\ box.w \in Int /\ box.h \in Int /\ column.x \in Int /\ column.y \in Int
      /\ column.w \in Nat /\ column.h \in Nat /\ column.w \in Int /\ column.h \in Int /\ column.w > 0 /\ column.h > 0
  BY DEF Boxes, Natural
<1>4. Full \in Nat /\ Full > 0 /\ Full \in Int
  BY DEF Full
<1>5. ASSUME NEW a \in Int, NEW n \in Nat, n > 0 PROVE (a * n) \div Full \in Int /\ Percent(a, n) \in Int
  <2>1. n \in Int /\ a * n \in Int /\ a * Full \in Int
    BY <1>1, <1>4
  <2>2. Percent(a, n) = (a * Full) \div n
    BY <1>5 DEF Percent
  <2> QED BY <1>2, <1>4, <1>5, <2>1, <2>2
<1>6. box.x - column.x \in Int /\ box.y - column.y \in Int
  BY <1>3
<1> DEFINE b == FromLocal(box, column)
           l == ToLocal(box, column)
<1>7. (box.x * column.w) \div Full \in Int /\ (box.y * column.h) \div Full \in Int /\ (box.w * column.w) \div Full \in Int /\ (box.h * column.h) \div Full \in Int
  BY <1>3, <1>5
<1>8. b \in Boxes
  BY <1>3, <1>7 DEF FromLocal, Boxes
<1>9. Percent(box.x - column.x, column.w) \in Int /\ Percent(box.y - column.y, column.h) \in Int
      /\ Percent(box.w, column.w) \in Int /\ Percent(box.h, column.h) \in Int
  BY <1>3, <1>5, <1>6
<1>10. l \in Boxes
  BY <1>9 DEF ToLocal, Boxes
<1> QED BY <1>8, <1>10

(* So are they by rounding. *)
LEMMA RoundedTypes ==
  ASSUME NEW box \in Boxes
  PROVE  Rounded(box) \in Boxes
<1>1. box.x \in Int /\ box.y \in Int /\ box.w \in Int /\ box.h \in Int
  BY DEF Boxes
<1>2. Tenths(box.x) \in Int /\ Tenths(box.y) \in Int /\ Tenths(box.w) \in Int /\ Tenths(box.h) \in Int
  BY <1>1, TenthsNear
<1> QED BY <1>2 DEF Rounded, Boxes

(* The least of a finite set of integers is one of them, and below the others. *)
LEMMA LeastIs ==
  ASSUME NEW T \in SUBSET Int, IsFiniteSet(T), T # {}
  PROVE  /\ Least(T) \in T /\ \A k \in T : Least(T) <= k
         /\ Greatest(T) \in T /\ \A k \in T : k <= Greatest(T)
<1>1. (\E m \in T : \A k \in T : m <= k) /\ (\E m \in T : \A k \in T : m >= k)
  BY Extremes
<1>2. Least(T) \in T /\ \A k \in T : Least(T) <= k
  BY <1>1 DEF Least
<1>3. Greatest(T) \in T /\ \A k \in T : Greatest(T) >= k
  BY <1>1 DEF Greatest
<1> QED BY <1>2, <1>3

(* The least and the greatest edges of finitely many boxes bound each of them. *)
LEMMA ExtremesOfBoxes ==
  ASSUME NEW boxes \in SUBSET Boxes, IsFiniteSet(boxes), NEW o \in boxes
  PROVE  /\ Least({b.x : b \in boxes}) \in Int /\ Least({b.x : b \in boxes}) <= o.x
         /\ Least({b.y : b \in boxes}) \in Int /\ Least({b.y : b \in boxes}) <= o.y
         /\ Greatest({b.x + b.w : b \in boxes}) \in Int /\ Right(o) <= Greatest({b.x + b.w : b \in boxes})
         /\ Greatest({b.y + b.h : b \in boxes}) \in Int /\ Bottom(o) <= Greatest({b.y + b.h : b \in boxes})
<1>1. ASSUME NEW f, \A b \in boxes : f[b] \in Int
      PROVE  LET T == {f[b] : b \in boxes}
             IN  Least(T) \in Int /\ Least(T) <= f[o] /\ Greatest(T) \in Int /\ f[o] <= Greatest(T)
  <2> DEFINE T == {f[b] : b \in boxes}
  <2>1. IsFiniteSet(T)
    BY FiniteImage
  <2>2. T \in SUBSET Int /\ f[o] \in T /\ T # {}
    BY <1>1
  <2> HIDE DEF T
  <2>3. Least(T) \in T /\ (\A k \in T : Least(T) <= k) /\ Greatest(T) \in T /\ \A k \in T : k <= Greatest(T)
    BY <2>1, <2>2, LeastIs
  <2>4. Least(T) \in Int /\ Least(T) <= f[o] /\ Greatest(T) \in Int /\ f[o] <= Greatest(T)
    BY <2>2, <2>3
  <2> QED BY <2>4 DEF T
<1>2. \A b \in boxes : b.x \in Int /\ b.y \in Int /\ b.w \in Int /\ b.h \in Int
  BY DEF Boxes
<1> DEFINE x == [b \in boxes |-> b.x]
           y == [b \in boxes |-> b.y]
           right == [b \in boxes |-> b.x + b.w]
           bottom == [b \in boxes |-> b.y + b.h]
<1>3. /\ {b.x : b \in boxes} = {x[b] : b \in boxes} /\ {b.y : b \in boxes} = {y[b] : b \in boxes}
      /\ {b.x + b.w : b \in boxes} = {right[b] : b \in boxes} /\ {b.y + b.h : b \in boxes} = {bottom[b] : b \in boxes}
  BY Zenon
<1>4. \A b \in boxes : x[b] \in Int /\ y[b] \in Int /\ right[b] \in Int /\ bottom[b] \in Int
  BY <1>2
<1>5. x[o] = o.x /\ y[o] = o.y /\ right[o] = Right(o) /\ bottom[o] = Bottom(o)
  BY DEF Right, Bottom
<1> HIDE DEF x, y, right, bottom
<1>6. LET T == {x[b] : b \in boxes} IN Least(T) \in Int /\ Least(T) <= x[o]
  BY <1>1, <1>4
<1>7. LET T == {y[b] : b \in boxes} IN Least(T) \in Int /\ Least(T) <= y[o]
  BY <1>1, <1>4
<1>8. LET T == {right[b] : b \in boxes} IN Greatest(T) \in Int /\ right[o] <= Greatest(T)
  BY <1>1, <1>4
<1>9. LET T == {bottom[b] : b \in boxes} IN Greatest(T) \in Int /\ bottom[o] <= Greatest(T)
  BY <1>1, <1>4
<1> QED BY <1>3, <1>5, <1>6, <1>7, <1>8, <1>9

(* A box with some slack at its right and its bottom. *)
LEMMA GrownIs ==
  ASSUME NEW x, NEW y, NEW w, NEW h, NEW box, box = [x |-> x, y |-> y, w |-> w, h |-> h], NEW slack
  PROVE  LET grown == Grown(slack, box)
         IN  grown.x = x /\ grown.y = y /\ grown.w = w + slack /\ grown.h = h + slack
BY DEF Grown

(* The frame around what reaches from x and y to X and Y. *)
Framed(x, y, X, Y) ==
  Rounded(Box(<<Larger(0, x - LanePadding), Smaller(Full, X + LanePadding) - Larger(0, x - LanePadding)>>,
              <<Larger(0, y - LanePadding), Smaller(Full, Y + LanePadding) - Larger(0, y - LanePadding)>>))

(* A frame around o, with the padding of lanes, holds what is seen of o, but for three tenths. *)
LEMMA Padded ==
  ASSUME NEW o, NEW b, Natural(o), Near(b, o), Right(o) <= Full, Bottom(o) <= Full,
         NEW x \in Int, NEW y \in Int, NEW X \in Int, NEW Y \in Int, x <= o.x, y <= o.y, Right(o) <= X, Bottom(o) <= Y,
         NEW frame, frame = Framed(x, y, X, Y)
  PROVE  Inside(b, Grown(LaneSlack, frame))
<1> DEFINE left == Larger(0, x - LanePadding)
           top == Larger(0, y - LanePadding)
           right == Smaller(Full, X + LanePadding)
           bottom == Smaller(Full, Y + LanePadding)
           grown == Grown(LaneSlack, frame)
<1>1. frame = [x |-> Tenths(left), y |-> Tenths(top), w |-> Tenths(right - left), h |-> Tenths(bottom - top)]
  BY DEF Framed, Box, Rounded
<1>2. left \in Int /\ top \in Int /\ right \in Int /\ bottom \in Int /\ left >= 0 /\ top >= 0
  BY DEF Larger, Smaller, LanePadding, Full
<1>3. (left = 0 \/ left + 300 <= o.x) /\ (top = 0 \/ top + 300 <= o.y)
  BY DEF Larger, LanePadding, Natural
<1>4. (right = Full \/ Right(o) + 300 <= right) /\ (bottom = Full \/ Bottom(o) + 300 <= bottom)
  BY DEF Smaller, LanePadding, Natural, Right, Bottom, Full
<1>5. LaneSlack = 30
  BY DEF LaneSlack
<1> HIDE DEF left, top, right, bottom
<1>8. /\ grown.x = Tenths(left) /\ grown.y = Tenths(top)
      /\ grown.w = Tenths(right - left) + 30 /\ grown.h = Tenths(bottom - top) + 30
  BY <1>1, <1>5, GrownIs
<1> HIDE DEF grown
<1>6. /\ Tenths(left) \in Int /\ Tenths(left) <= left + 5 /\ left <= Tenths(left) + 5 /\ (left = 0 => Tenths(left) = 0)
      /\ Tenths(top) \in Int /\ Tenths(top) <= top + 5 /\ top <= Tenths(top) + 5 /\ (top = 0 => Tenths(top) = 0)
  BY <1>2, TenthsNear
<1>7. /\ Tenths(right - left) \in Int /\ right - left <= Tenths(right - left) + 5
      /\ Tenths(bottom - top) \in Int /\ bottom - top <= Tenths(bottom - top) + 5
  <2>1. right - left \in Int /\ bottom - top \in Int
    BY <1>2
  <2> QED BY <2>1, TenthsNear
<1> DEFINE gx == grown.x
           gw == grown.w
           gy == grown.y
           gh == grown.h
<1>9. /\ gx \in Int /\ gw \in Int /\ (gx = 0 \/ gx + 295 <= o.x) /\ right + 20 <= gx + gw
      /\ gy \in Int /\ gh \in Int /\ (gy = 0 \/ gy + 295 <= o.y) /\ bottom + 20 <= gy + gh
  <2> DEFINE tl == Tenths(left)
             tw == Tenths(right - left)
             tt == Tenths(top)
             th == Tenths(bottom - top)
  <2>1. gx = tl /\ gy = tt /\ gw = tw + 30 /\ gh = th + 30
    BY <1>8
  <2>2. /\ tl \in Int /\ tl <= left + 5 /\ left <= tl + 5 /\ (left = 0 => tl = 0) /\ tw \in Int /\ right - left <= tw + 5
        /\ tt \in Int /\ tt <= top + 5 /\ top <= tt + 5 /\ (top = 0 => tt = 0) /\ th \in Int /\ bottom - top <= th + 5
    BY <1>6, <1>7
  <2>3. o.x \in Int /\ o.y \in Int
    BY DEF Natural
  <2> HIDE DEF tl, tw, tt, th, gx, gy, gw, gh
  <2> QED BY <1>2, <1>3, <2>1, <2>2, <2>3
<1>10. /\ b.x \in Nat /\ o.x <= b.x + 20 /\ b.x + b.w <= Right(o) + 20 /\ Right(o) \in Int /\ Right(o) <= Full
       /\ b.y \in Nat /\ o.y <= b.y + 20 /\ b.y + b.h <= Bottom(o) + 20 /\ Bottom(o) \in Int /\ Bottom(o) <= Full
       /\ b.w \in Nat /\ b.h \in Nat /\ o.x \in Int /\ o.y \in Int /\ Full \in Int
  BY DEF Near, Natural, Right, Bottom, Full
<1> HIDE DEF gx, gy, gw, gh
<1>11. gx <= b.x /\ gy <= b.y /\ b.x + b.w <= gx + gw /\ b.y + b.h <= gy + gh
  BY <1>2, <1>4, <1>9, <1>10
<1>12. Inside(b, grown)
  BY <1>11 DEF Inside, gx, gy, gw, gh
<1> QED BY <1>12 DEF grown

AllVisible == \A d \in Topologies : Visible(d)

EdgeElements == [key : Nat, from : {e[1] : e \in Ends}, to : {e[2] : e \in Ends}, id : Nat \cup {Unset}]

ArchTypeOK ==
  /\ diagram \in Topologies
  /\ edges \in Seq(EdgeElements)
  /\ stored \in [NodeIds -> Boxes \cup {Unset}]
  /\ manual \subseteq NodeIds
  /\ DOMAIN framed = Lanes
  /\ edits \in 0..MaxEdits
  /\ laid \in BOOLEAN

(* Each node has a position. *)
LEMMA Placed ==
  ASSUME NEW d \in Topology, NEW p \in Places(d)
  PROVE  \E r \in 1..Len(d.rows) : \E s \in 1..Len(SlotsOf(d, r)) : \E n \in 1..Len(NodesOf(d, r, s)) : At(d, p, r, s, n)
BY PlacesAre

(* What holds of a placed node wherever it is. *)
LEMMA PlaceTypes ==
  ASSUME NEW d \in Topology, Visible(d), NEW p \in Places(d)
  PROVE  /\ p.id \in NodeIds /\ p.box \in Boxes /\ Natural(p.box) /\ Right(p.box) <= Full /\ Bottom(p.box) <= Full
         /\ p.box.w > 0 /\ p.box.h > 0 /\ p.row \in 0..(Len(d.rows) - 1)
         /\ p.column = Unset \/ (p.column \in Boxes /\ Natural(p.column) /\ p.column.w > 0 /\ p.column.h > 0 /\ p.box.x = p.column.x)
         /\ Near(SeenAs(p), p.box)
<1>1. PICK r \in 1..Len(d.rows) : \E s \in 1..Len(SlotsOf(d, r)) : \E n \in 1..Len(NodesOf(d, r, s)) : At(d, p, r, s, n)
  BY Placed
<1>2. PICK s \in 1..Len(SlotsOf(d, r)) : \E n \in 1..Len(NodesOf(d, r, s)) : At(d, p, r, s, n)
  BY <1>1
<1>3. PICK n \in 1..Len(NodesOf(d, r, s)) : At(d, p, r, s, n)
  BY <1>2
<1> DEFINE cell == Cell(d, r, s)
<1>4. /\ p.id \in NodeIds /\ p.row = r - 1 /\ p.box \in Boxes /\ Natural(p.box) /\ p.box.w > 0 /\ p.box.h > 0
      /\ cell \in Boxes /\ Natural(cell) /\ p.box.x = cell.x /\ p.box.w = cell.w /\ Right(p.box) <= Full
      /\ cell.y <= p.box.y /\ Bottom(p.box) <= Bottom(cell) /\ Bottom(cell) <= Full
      /\ (p.column = cell \/ p.column = Unset)
  BY <1>3, Sits
<1>5. Near(SeenAs(p), p.box)
  BY <1>3, SeenInPlace
<1>6. p.row \in 0..(Len(d.rows) - 1)
  BY <1>4, TopologyTypes
<1> HIDE DEF cell
<1>7. cell.w > 0 /\ cell.h > 0 /\ Bottom(p.box) <= Full
  <2> DEFINE box == p.box
  <2>1. Natural(box) /\ Natural(cell) /\ box.h > 0 /\ cell.y <= box.y /\ Bottom(box) <= Bottom(cell) /\ Bottom(cell) <= Full
    BY <1>4
  <2> HIDE DEF box
  <2>2. cell.h > 0 /\ Bottom(box) <= Full
    BY <2>1, InsideIsPositive
  <2> QED BY <1>4, <2>2 DEF box
<1> QED BY <1>4, <1>5, <1>6, <1>7

(* A layout writes a node that nobody dragged where it is to be seen. *)
LEMMA LayoutWrites ==
  ASSUME ArchTypeOK, AllVisible, Layout, NEW p \in Places(diagram), p.id \notin manual
  PROVE  Shown(p, stored') = SeenAs(p)
<1> DEFINE places == Places(diagram)
<1>1. diagram \in Topologies /\ diagram \in Topology /\ Visible(diagram) /\ DOMAIN stored = NodeIds
  BY LayoutAssumption DEF ArchTypeOK, AllVisible
<1>2. p.id \in NodeIds
  BY <1>1, PlaceTypes
<1>3. \A q \in places : q.id = p.id => q = p
  BY <1>1, IdAssumption
<1>4. (CHOOSE q \in places : q.id = p.id) = p
  BY <1>3
<1>5. stored'[p.id] = Written(p)
  BY <1>1, <1>2, <1>4 DEF Layout
<1> QED BY <1>5 DEF Shown, Written, SeenAs

(* The frame of a lane holds the unlocked nodes of its rows. *)
LEMMA FrameHolds ==
  ASSUME ArchTypeOK, AllVisible, NEW lane, NEW old, NEW p \in Places(diagram), lane[1] <= p.row, p.row <= lane[2],
         p.id \notin manual
  PROVE  Inside(SeenAs(p), Grown(LaneSlack, Frame(lane, Places(diagram), old)))
<1> DEFINE places == Places(diagram)
           mine == {q \in places : lane[1] <= q.row /\ q.row <= lane[2]}
           boxes == {Resolved(q) : q \in mine}
           box == [q \in mine |-> Resolved(q)]
           lefts == {b.x : b \in boxes}
           tops == {b.y : b \in boxes}
           rights == {b.x + b.w : b \in boxes}
           bottoms == {b.y + b.h : b \in boxes}
<1>1. diagram \in Topology /\ Visible(diagram) /\ stored \in [NodeIds -> Boxes \cup {Unset}]
  BY LayoutAssumption DEF ArchTypeOK, AllVisible
<1>2. IsFiniteSet(boxes)
  <2>1. IsFiniteSet(mine)
    <3>1. mine \in SUBSET places /\ IsFiniteSet(places)
      BY <1>1, FinitePlaces
    <3> HIDE DEF mine, places
    <3> QED BY <3>1, FS_Subset
  <2>2. boxes = {box[q] : q \in mine}
    BY Zenon
  <2> HIDE DEF mine, box, boxes
  <2> QED BY <2>1, <2>2, FiniteImage
<1>3. boxes \subseteq Boxes
  <2>1. ASSUME NEW q \in places PROVE Resolved(q) \in Boxes
    <3>1. q.id \in NodeIds /\ q.box \in Boxes /\ (q.column = Unset \/ (q.column \in Boxes /\ Natural(q.column) /\ q.column.w > 0 /\ q.column.h > 0))
      BY <1>1, PlaceTypes
    <3>2. CASE IsLocked(q)
      <4>1. stored[q.id] \in Boxes
        BY <1>1, <3>1, <3>2 DEF IsLocked
      <4>2. CASE q.column = Unset
        BY <3>2, <4>1, <4>2 DEF Resolved
      <4>3. CASE q.column # Unset
        <5>1. FromLocal(stored[q.id], q.column) \in Boxes
          BY <3>1, <4>1, <4>3, LocalTypes
        <5> QED BY <3>2, <4>3, <5>1 DEF Resolved
      <4> QED BY <4>2, <4>3
    <3>3. CASE ~IsLocked(q)
      BY <3>1, <3>3 DEF Resolved
    <3> QED BY <3>2, <3>3
  <2> HIDE DEF places
  <2> QED BY <2>1
<1>4. p.box \in boxes /\ boxes # {}
  <2>1. Resolved(p) = p.box /\ p \in mine
    BY DEF Resolved, IsLocked
  <2> HIDE DEF mine
  <2> QED BY <2>1, Zenon
<1> DEFINE b == SeenAs(p)
           o == p.box
<1>5. Natural(o) /\ Right(o) <= Full /\ Bottom(o) <= Full /\ Near(b, o)
  BY <1>1, PlaceTypes
<1>6. Frame(lane, places, old) = Framed(Least(lefts), Least(tops), Greatest(rights), Greatest(bottoms))
  BY <1>4 DEF Frame, Framed
<1> HIDE DEF boxes, b, o
<1>7. Least(lefts) \in Int /\ Least(lefts) <= o.x /\ Least(tops) \in Int /\ Least(tops) <= o.y
  BY <1>2, <1>3, <1>4, ExtremesOfBoxes DEF o
<1>8. Greatest(rights) \in Int /\ Right(o) <= Greatest(rights) /\ Greatest(bottoms) \in Int /\ Bottom(o) <= Greatest(bottoms)
  BY <1>2, <1>3, <1>4, ExtremesOfBoxes DEF o
<1> DEFINE x == Least(lefts)
           y == Least(tops)
           X == Greatest(rights)
           Y == Greatest(bottoms)
           frame == Frame(lane, places, old)
<1>9. /\ x \in Int /\ y \in Int /\ X \in Int /\ Y \in Int /\ x <= o.x /\ y <= o.y /\ Right(o) <= X /\ Bottom(o) <= Y
      /\ frame = Framed(x, y, X, Y)
  BY <1>6, <1>7, <1>8
<1> HIDE DEF lefts, tops, rights, bottoms, places, x, y, X, Y, frame
<1>10. Inside(b, Grown(LaneSlack, frame))
  BY <1>5, <1>9, Padded
<1> QED BY <1>10 DEF b, frame, places

(* An edge written among others: what is in the new sequence was there, or is the new one. *)
LEMMA Inserted ==
  ASSUME NEW S, NEW items \in Seq(S), NEW at \in 1..(Len(items) + 1), NEW x \in S, NEW t, t = InsertAt(items, at, x)
  PROVE  /\ t \in Seq(S) /\ Len(t) = Len(items) + 1
         /\ \A i \in 1..Len(t) : t[i] = IF i < at THEN items[i] ELSE IF i = at THEN x ELSE items[i - 1]
<1> DEFINE front == SubSeq(items, 1, at - 1)
           back == SubSeq(items, at, Len(items))
           n == Len(items)
<1>1. n \in Nat /\ at \in Int
  OBVIOUS
<1>2. front \in Seq(S) /\ Len(front) = at - 1 /\ \A i \in 1..(at - 1) : front[i] = items[i]
  OBVIOUS
<1>3. back \in Seq(S) /\ Len(back) = n - at + 1 /\ \A i \in 1..(n - at + 1) : back[i] = items[at + i - 1]
  OBVIOUS
<1>4. t = (front \o <<x>>) \o back
  BY DEF InsertAt
<1> HIDE DEF front, back
<1> DEFINE head == front \o <<x>>
<1>5. head \in Seq(S) /\ Len(head) = at /\ \A i \in 1..at : head[i] = IF i < at THEN items[i] ELSE x
  BY <1>1, <1>2
<1> HIDE DEF head
<1>6. t = head \o back
  BY <1>4 DEF head
<1>7. t \in Seq(S) /\ Len(t) = n + 1
  <2>1. t \in Seq(S) /\ Len(t) = Len(head) + Len(back)
    BY <1>3, <1>5, <1>6, ConcatProperties
  <2> QED BY <1>1, <1>3, <1>5, <2>1
<1>8. ASSUME NEW i \in 1..(n + 1) PROVE t[i] = IF i < at THEN items[i] ELSE IF i = at THEN x ELSE items[i - 1]
  <2>1. CASE i <= at
    <3>1. i \in 1..at /\ t[i] = head[i]
      BY <1>1, <1>3, <1>5, <1>6, <2>1
    <3> QED BY <1>5, <2>1, <3>1
  <2>2. CASE i > at
    <3>1. i - at \in 1..(n - at + 1) /\ t[i] = back[i - at] /\ at + (i - at) - 1 = i - 1
      BY <1>1, <1>3, <1>5, <1>6, <2>2
    <3>2. back[i - at] = items[at + (i - at) - 1]
      BY <1>3, <3>1
    <3> QED BY <2>2, <3>1, <3>2
  <2> QED BY <1>1, <2>1, <2>2
<1> QED BY <1>7, <1>8

(* An edge taken out: what is in the new sequence was there. *)
LEMMA Removed ==
  ASSUME NEW S, NEW items \in Seq(S), NEW at \in 1..Len(items), NEW t, t = RemoveAt(items, at)
  PROVE  /\ t \in Seq(S) /\ Len(t) = Len(items) - 1
         /\ \A i \in 1..Len(t) : t[i] = IF i < at THEN items[i] ELSE items[i + 1]
<1> DEFINE front == SubSeq(items, 1, at - 1)
           back == SubSeq(items, at + 1, Len(items))
           n == Len(items)
<1>1. n \in Nat /\ at \in Int
  OBVIOUS
<1>2. front \in Seq(S) /\ Len(front) = at - 1 /\ \A i \in 1..(at - 1) : front[i] = items[i]
  OBVIOUS
<1>3. back \in Seq(S) /\ Len(back) = n - at /\ \A i \in 1..(n - at) : back[i] = items[at + i]
  OBVIOUS
<1>4. t = front \o back
  BY DEF RemoveAt
<1> HIDE DEF front, back
<1>5. t \in Seq(S) /\ Len(t) = n - 1
  BY <1>1, <1>2, <1>3, <1>4
<1>6. ASSUME NEW i \in 1..(n - 1) PROVE t[i] = IF i < at THEN items[i] ELSE items[i + 1]
  <2>1. CASE i < at
    BY <1>1, <1>2, <1>3, <1>4, <2>1
  <2>2. CASE i >= at
    <3>1. i - (at - 1) \in 1..(n - at) /\ t[i] = back[i - (at - 1)] /\ at + (i - (at - 1)) = i + 1
      BY <1>1, <1>2, <1>3, <1>4, <2>2
    <3>2. back[i - (at - 1)] = items[at + (i - (at - 1))]
      BY <1>3, <3>1
    <3> QED BY <2>2, <3>1, <3>2
  <2> QED BY <1>1, <2>1, <2>2
<1> QED BY <1>5, <1>6

(* Edges are named in place. *)
LEMMA NamedEdges ==
  ASSUME edges \in Seq(EdgeElements)
  PROVE  /\ EdgesNamed \in Seq(EdgeElements) /\ Len(EdgesNamed) = Len(edges)
         /\ \A i \in 1..Len(edges) :
              /\ EdgesNamed[i].key = edges[i].key /\ EdgesNamed[i].from = edges[i].from /\ EdgesNamed[i].to = edges[i].to
              /\ EdgesNamed[i].id # Unset /\ (edges[i].id # Unset => EdgesNamed[i].id = edges[i].id)
<1>1. DOMAIN edges = 1..Len(edges) /\ Len(edges) \in Nat
  OBVIOUS
<1>2. ASSUME NEW i \in 1..Len(edges)
      PROVE  /\ EdgesNamed[i] \in EdgeElements
             /\ EdgesNamed[i].key = edges[i].key /\ EdgesNamed[i].from = edges[i].from /\ EdgesNamed[i].to = edges[i].to
             /\ EdgesNamed[i].id # Unset /\ (edges[i].id # Unset => EdgesNamed[i].id = edges[i].id)
  <2> DEFINE before == {j \in 1..(i - 1) : edges[j].id = Unset}
             count == Cardinality(before)
             edge == edges[i]
             named == [edge EXCEPT !.id = count]
  <2>1. edge \in EdgeElements
    OBVIOUS
  <2>2. count \in Nat
    <3>1. 1 \in Int /\ i - 1 \in Int
      BY <1>1
    <3>2. IsFiniteSet(1..(i - 1)) /\ before \in SUBSET (1..(i - 1))
      BY <3>1, FS_Interval
    <3> HIDE DEF before
    <3>3. IsFiniteSet(before)
      BY <3>2, FS_Subset
    <3> QED BY <3>3, FS_CardinalityType
  <2>3. EdgesNamed[i] = IF edge.id # Unset THEN edge ELSE named
    BY <1>1 DEF EdgesNamed
  <2>4. count # Unset
    BY <2>2, LayoutAssumption
  <2> HIDE DEF count, edge
  <2>5. named.key = edge.key /\ named.from = edge.from /\ named.to = edge.to /\ named.id = count /\ named \in EdgeElements
    BY <2>1, <2>2 DEF EdgeElements
  <2> HIDE DEF named
  <2> QED BY <2>1, <2>3, <2>4, <2>5 DEF edge
<1>3. EdgesNamed \in [1..Len(edges) -> EdgeElements]
  BY <1>1, <1>2 DEF EdgesNamed
<1> QED BY <1>1, <1>2, <1>3

(* A layout keeps the type invariant. *)
LEMMA LayoutTypes ==
  ASSUME ArchTypeOK, AllVisible, Layout
  PROVE  ArchTypeOK'
<1> DEFINE places == Places(diagram)
<1>1. diagram \in Topology /\ Visible(diagram) /\ stored \in [NodeIds -> Boxes \cup {Unset}] /\ DOMAIN framed = Lanes
  BY LayoutAssumption DEF ArchTypeOK, AllVisible
<1>2. edges' \in Seq(EdgeElements)
  BY NamedEdges DEF ArchTypeOK, Layout
<1>3. stored' \in [NodeIds -> Boxes \cup {Unset}]
  <2>1. ASSUME NEW p \in places PROVE Written(p) \in Boxes \cup {Unset}
    <3>1. /\ p.id \in NodeIds /\ p.box \in Boxes
          /\ p.column = Unset \/ (p.column \in Boxes /\ Natural(p.column) /\ p.column.w > 0 /\ p.column.h > 0)
      BY <1>1, PlaceTypes
    <3>2. p.column # Unset => ToLocal(p.box, p.column) \in Boxes
      BY <3>1, LocalTypes
    <3>3. Rounded(IF p.column = Unset THEN p.box ELSE ToLocal(p.box, p.column)) \in Boxes
      BY <3>1, <3>2, RoundedTypes
    <3> QED BY <1>1, <3>1, <3>3 DEF Written
  <2>2. stored' = [id \in NodeIds |-> IF \E p \in places : p.id = id THEN Written(CHOOSE p \in places : p.id = id) ELSE stored[id]]
    BY <1>1 DEF Layout
  <2>3. ASSUME NEW id \in NodeIds PROVE stored'[id] \in Boxes \cup {Unset}
    <3> HIDE DEF places
    <3>1. CASE \E p \in places : p.id = id
      BY <2>1, <2>2, <3>1
    <3>2. CASE ~\E p \in places : p.id = id
      BY <1>1, <2>2, <3>2
    <3> QED BY <3>1, <3>2
  <2> HIDE DEF places
  <2> QED BY <2>2, <2>3
<1>4. DOMAIN framed' = Lanes
  BY <1>1 DEF Layout
<1> QED BY <1>2, <1>3, <1>4 DEF ArchTypeOK, Layout

(* Every action leaves the variables in their types. *)
LEMMA ArchTypes ==
  ASSUME AllVisible
  PROVE  (ArchInit => ArchTypeOK /\ ~laid) /\ (ArchTypeOK /\ [ArchNext]_archVars => ArchTypeOK')
<1>1. ASSUME ArchInit PROVE ArchTypeOK /\ ~laid
  <2>1. stored \in [NodeIds -> Boxes \cup {Unset}]
    BY <1>1 DEF ArchInit
  <2>2. edges \in Seq(EdgeElements) /\ manual \subseteq NodeIds /\ DOMAIN framed = Lanes
    BY <1>1 DEF ArchInit
  <2>3. MaxEdits \in Nat
    BY LayoutAssumption
  <2>4. edits \in 0..MaxEdits
    BY <1>1, <2>3 DEF ArchInit
  <2>5. ~laid /\ laid \in BOOLEAN
    BY <1>1, Zenon DEF ArchInit
  <2> QED BY <1>1, <2>1, <2>2, <2>4, <2>5 DEF ArchTypeOK, ArchInit
<1>2. SUFFICES ASSUME ArchTypeOK, [ArchNext]_archVars PROVE ArchTypeOK'
  BY <1>1
<1>3. CASE Layout
  BY <1>2, <1>3, LayoutTypes
<1>4. ASSUME Edited PROVE edits' \in 0..MaxEdits /\ laid' \in BOOLEAN /\ edits \in Nat
  <2>1. MaxEdits \in Nat /\ edits \in 0..MaxEdits
    BY <1>2, LayoutAssumption DEF ArchTypeOK
  <2>2. edits < MaxEdits /\ edits' = edits + 1
    BY <1>4 DEF Edited
  <2>3. laid' \in BOOLEAN
    BY <1>4, Zenon DEF Edited
  <2>4. edits' \in 0..MaxEdits /\ edits \in Nat
    BY <2>1, <2>2
  <2> QED BY <2>3, <2>4
<1>5. ASSUME NEW ends \in Ends, NEW at \in 1..(Len(edges) + 1), AuthorEdge(ends, at) PROVE ArchTypeOK'
  <2> DEFINE new == [key |-> edits, from |-> ends[1], to |-> ends[2], id |-> Unset]
  <2>1. new \in EdgeElements
    BY <1>4, <1>5 DEF EdgeElements, AuthorEdge
  <2>2. edges' = InsertAt(edges, at, new) /\ edges \in Seq(EdgeElements)
    BY <1>2, <1>5 DEF AuthorEdge, ArchTypeOK
  <2> HIDE DEF new
  <2>3. edges' \in Seq(EdgeElements)
    BY <2>1, <2>2, Inserted
  <2> QED BY <1>2, <1>4, <1>5, <2>3 DEF AuthorEdge, ArchTypeOK
<1>6. ASSUME NEW at \in DOMAIN edges, AuthorRemoves(at) PROVE ArchTypeOK'
  <2>1. edges' = RemoveAt(edges, at) /\ edges \in Seq(EdgeElements) /\ at \in 1..Len(edges)
    BY <1>2, <1>6 DEF AuthorRemoves, ArchTypeOK
  <2>2. edges' \in Seq(EdgeElements)
    BY <2>1, Removed
  <2> QED BY <1>2, <1>4, <1>6, <2>2 DEF AuthorRemoves, ArchTypeOK
<1>7. ASSUME NEW d \in Topologies, AuthorTopology(d) PROVE ArchTypeOK'
  BY <1>2, <1>4, <1>7 DEF AuthorTopology, ArchTypeOK
<1>8. ASSUME NEW id \in NodeIds, NEW at \in Drops, Drag(id, at) PROVE ArchTypeOK'
  <2>2. stored \in [NodeIds -> Boxes \cup {Unset}] /\ stored[id] \in Boxes
    BY <1>2, <1>8 DEF Drag, ArchTypeOK
  <2>3. at[1] \in Int /\ at[2] \in Int
    <3>1. at \in Percents \X Percents
      BY LayoutAssumption
    <3>2. \A v \in Percents : v \in 0..Full
      BY Zenon DEF Percents
    <3>3. \A v \in 0..Full : v \in Int
      BY DEF Full
    <3> QED BY <3>1, <3>2, <3>3
  <2>4. [stored[id] EXCEPT !.x = at[1], !.y = at[2]] \in Boxes
    BY <2>2, <2>3 DEF Boxes
  <2>5. stored' = [stored EXCEPT ![id] = [stored[id] EXCEPT !.x = at[1], !.y = at[2]]]
    BY <1>8 DEF Drag
  <2>1. stored' \in [NodeIds -> Boxes \cup {Unset}] /\ manual' \subseteq NodeIds
    BY <1>2, <1>8, <2>2, <2>4, <2>5 DEF Drag, ArchTypeOK
  <2> QED BY <1>2, <1>4, <1>8, <2>1 DEF Drag, ArchTypeOK
<1>9. CASE UNCHANGED archVars
  BY <1>2, <1>9 DEF archVars, ArchTypeOK
<1> QED BY <1>2, <1>3, <1>5, <1>6, <1>7, <1>8, <1>9 DEF ArchNext

(* After a layout the nodes it placed are apart, in the diagram and in the frames of their lanes. *)
LEMMA LayoutSeparates ==
  ASSUME ArchTypeOK, AllVisible, Layout
  PROVE  NodesApart'
<1> DEFINE places == Places(diagram)
           placed == {p \in places : p.id \notin manual}
<1>1. diagram \in Topology /\ Visible(diagram) /\ DOMAIN framed = Lanes /\ diagram \in Topologies
  BY LayoutAssumption DEF ArchTypeOK, AllVisible
<1>2. diagram' = diagram /\ manual' = manual
  BY DEF Layout
<1>3. \A p \in placed : Shown(p, stored') = SeenAs(p)
  BY LayoutWrites
<1>4. ASSUME NEW p \in placed, NEW q \in placed, p # q PROVE ~Overlap(SeenAs(p), SeenAs(q))
  BY <1>1, <1>4, SeenApart
<1>5. ASSUME NEW p \in placed PROVE Inside(SeenAs(p), Grown(DiagramSlack, Box(<<0, Full>>, <<0, Full>>)))
  <2> DEFINE b == SeenAs(p)
             o == p.box
  <2>1. Natural(o) /\ Near(b, o) /\ Right(o) <= Full /\ Bottom(o) <= Full
    BY <1>1, PlaceTypes
  <2> HIDE DEF b, o
  <2>2. Inside(b, Grown(DiagramSlack, Box(<<0, Full>>, <<0, Full>>)))
    BY <2>1, InTheDiagram
  <2> QED BY <2>2 DEF b
<1>6. ASSUME NEW lane \in diagram.lanes, NEW p \in placed, lane[1] <= p.row, p.row <= lane[2]
      PROVE  Inside(SeenAs(p), Grown(LaneSlack, framed'[lane]))
  <2>1. lane \in Lanes
    BY <1>1 DEF Lanes
  <2>2. framed'[lane] = Frame(lane, places, framed[lane])
    BY <1>1, <2>1 DEF Layout
  <2> QED BY <1>6, <2>2, FrameHolds
<1> HIDE DEF places
<1>7. \A p, q \in placed : p # q => ~Overlap(Shown(p, stored'), Shown(q, stored'))
  BY <1>3, <1>4
<1>8. \A p \in placed : Inside(Shown(p, stored'), Grown(DiagramSlack, Box(<<0, Full>>, <<0, Full>>)))
  BY <1>3, <1>5
<1>9. \A lane \in diagram.lanes, p \in placed : lane[1] <= p.row /\ p.row <= lane[2] => Inside(Shown(p, stored'), Grown(LaneSlack, framed'[lane]))
  BY <1>3, <1>6
<1> HIDE DEF placed
<1> QED BY <1>2, <1>7, <1>8, <1>9 DEF NodesApart, placed, places

(* NodesApart, for all topologies an author may write, whatever is dragged and laid out again: nodes *)
(* a layout placed do not overlap where the browser shows them, and are inside the diagram and the     *)
(* lanes of their rows but for two and three tenths of a percent, whichever way halves are rounded.    *)
(* The topologies may hold any rows, columns, spacers and weights that leave each node a hundredth of  *)
(* a percent (_compute_row_boxes makes rows empty when the gutters fill the diagram).                  *)
THEOREM LayoutKeepsNodesApart == AllVisible => (ArchSpec => []NodesApart)
<1> SUFFICES ASSUME AllVisible PROVE ArchSpec => []NodesApart
  OBVIOUS
<1>1. ArchInit => ArchTypeOK /\ NodesApart
  BY ArchTypes DEF NodesApart
<1>2. ASSUME ArchTypeOK, NodesApart, [ArchNext]_archVars PROVE ArchTypeOK' /\ NodesApart'
  <2>1. ArchTypeOK'
    BY <1>2, ArchTypes
  <2>2. CASE Layout
    BY <1>2, <2>1, <2>2, LayoutSeparates
  <2>3. CASE UNCHANGED archVars
    BY <1>2, <2>1, <2>3 DEF archVars, NodesApart, Shown
  <2>4. CASE ~laid'
    BY <2>1, <2>4 DEF NodesApart
  <2> QED BY <1>2, <2>2, <2>3, <2>4 DEF ArchNext, AuthorEdge, AuthorRemoves, AuthorTopology, Drag, Edited
<1> QED BY <1>1, <1>2, PTL DEF ArchSpec

-----------------------------------------------------------------------------
(* The courses of connectors run from their source to their target *)

OnBox(point, box) == Inside(Box(<<point[1], 0>>, <<point[2], 0>>), box)

(* A point is on a box when its coordinates are between the box's edges. *)
LEMMA OnBoxIs ==
  ASSUME NEW x \in Int, NEW y \in Int, NEW box, Natural(box)
  PROVE  OnBox(<<x, y>>, box) <=> box.x <= x /\ x <= Right(box) /\ box.y <= y /\ y <= Bottom(box)
BY DEF OnBox, Inside, Box, Right, Bottom, Natural

(* A point of a box is on its border when one coordinate is an edge's. *)
LEMMA OnBorderIs ==
  ASSUME NEW x \in Int, NEW y \in Int, NEW box, Natural(box), box.x <= x, x <= Right(box), box.y <= y, y <= Bottom(box),
         x = box.x \/ x = Right(box) \/ y = box.y \/ y = Bottom(box)
  PROVE  OnBorder(<<x, y>>, box)
<1>1. OnBox(<<x, y>>, box)
  BY OnBoxIs
<1> QED BY <1>1 DEF OnBox, OnBorder

(* The middle of a box is in it. *)
LEMMA Middles ==
  ASSUME NEW box, Natural(box)
  PROVE  /\ MidX(box) \in Nat /\ box.x <= MidX(box) /\ MidX(box) <= Right(box)
         /\ MidY(box) \in Nat /\ box.y <= MidY(box) /\ MidY(box) <= Bottom(box)
         /\ Right(box) \in Nat /\ Bottom(box) \in Nat /\ box.x <= Right(box) /\ box.y <= Bottom(box)
         /\ box.h > 0 => MidY(box) < Bottom(box)
         /\ box.w > 0 => MidX(box) < Right(box)
BY DEF Natural, MidX, MidY, Right, Bottom

(* A piece across ends where it was drawn from and to. *)
LEMMA AcrossEnds ==
  ASSUME NEW a \in Int, NEW b \in Int, NEW y
  PROVE  <<a, y>> \in EndPoints(Across(a, b, y)) /\ <<b, y>> \in EndPoints(Across(a, b, y))
<1> DEFINE s == Across(a, b, y)
<1>1. s.axis = "h" /\ s.x = Smaller(a, b) /\ s.y = y /\ s.length = Distance(a, b)
  BY DEF Across
<1> HIDE DEF s
<1>2. EndPoints(s) = {<<s.x, s.y>>, <<s.x + s.length, s.y>>}
  BY <1>1 DEF EndPoints
<1>3. (s.x = a /\ s.x + s.length = b) \/ (s.x = b /\ s.x + s.length = a)
  BY <1>1 DEF Smaller, Distance
<1>4. <<a, y>> \in EndPoints(s) /\ <<b, y>> \in EndPoints(s)
  BY <1>1, <1>2, <1>3
<1> QED BY <1>4 DEF s

(* A piece down ends where it was drawn from and to. *)
LEMMA AlongEnds ==
  ASSUME NEW x, NEW a \in Int, NEW b \in Int
  PROVE  <<x, a>> \in EndPoints(Along(x, a, b)) /\ (a <= b => <<x, b>> \in EndPoints(Along(x, a, b)))
<1> DEFINE s == Along(x, a, b)
<1>1. s.axis = "v" /\ s.x = x /\ s.y = a /\ s.length = Larger(0, b - a)
  BY DEF Along
<1> HIDE DEF s
<1>2. EndPoints(s) = {<<s.x, s.y>>, <<s.x, s.y + s.length>>}
  BY <1>1 DEF EndPoints
<1>3. a <= b => s.y + s.length = b
  BY <1>1 DEF Larger
<1>4. <<x, a>> \in EndPoints(s) /\ (a <= b => <<x, b>> \in EndPoints(s))
  BY <1>1, <1>2, <1>3
<1> QED BY <1>4 DEF s

(* A piece up or down ends where it was drawn from and to. *)
LEMMA UpOrDownEnds ==
  ASSUME NEW x, NEW a \in Int, NEW b \in Int
  PROVE  <<x, a>> \in EndPoints(UpOrDown(x, a, b)) /\ <<x, b>> \in EndPoints(UpOrDown(x, a, b))
<1>1. CASE a < b
  <2>1. UpOrDown(x, a, b) = Along(x, a, b)
    BY <1>1 DEF UpOrDown, Smaller, Larger
  <2> QED BY <1>1, <2>1, AlongEnds
<1>2. CASE ~(a < b)
  <2>1. UpOrDown(x, a, b) = Along(x, b, a) /\ b <= a
    BY <1>2 DEF UpOrDown, Smaller, Larger
  <2> QED BY <2>1, AlongEnds
<1> QED BY <1>1, <1>2

(* A leg runs from its box to the rail, unless the rail is beside the box. *)
LEMMA LegEnds ==
  ASSUME NEW box, Natural(box), NEW rail \in Int
  PROVE  /\ \E point \in EndPoints(Leg(box, rail)) : OnBox(point, box)
         /\ <<MidX(box), rail>> \in EndPoints(Leg(box, rail))
         /\ rail >= Bottom(box) => <<MidX(box), Bottom(box)>> \in EndPoints(Leg(box, rail))
         /\ rail <= box.y => <<MidX(box), box.y>> \in EndPoints(Leg(box, rail))
<1>1. /\ MidX(box) \in Int /\ box.x <= MidX(box) /\ MidX(box) <= Right(box)
      /\ Right(box) \in Int /\ Bottom(box) \in Int /\ box.y \in Int /\ box.y <= Bottom(box)
  BY Middles DEF Natural
<1>2. CASE rail >= Bottom(box)
  <2>1. Leg(box, rail) = Along(MidX(box), Bottom(box), rail)
    BY <1>2 DEF Leg
  <2>2. <<MidX(box), Bottom(box)>> \in EndPoints(Leg(box, rail)) /\ <<MidX(box), rail>> \in EndPoints(Leg(box, rail))
    BY <1>1, <1>2, <2>1, AlongEnds
  <2>3. OnBox(<<MidX(box), Bottom(box)>>, box)
    BY <1>1, OnBoxIs
  <2>4. rail <= box.y => Bottom(box) = box.y
    BY <1>1, <1>2
  <2> QED BY <2>2, <2>3, <2>4
<1>3. CASE ~(rail >= Bottom(box))
  <2>1. Leg(box, rail) = Along(MidX(box), rail, box.y)
    BY <1>3 DEF Leg
  <2>2. <<MidX(box), rail>> \in EndPoints(Leg(box, rail)) /\ (rail <= box.y => <<MidX(box), box.y>> \in EndPoints(Leg(box, rail)))
    BY <1>1, <2>1, AlongEnds
  <2>3. CASE rail <= box.y
    <3>1. OnBox(<<MidX(box), box.y>>, box)
      BY <1>1, OnBoxIs
    <3> QED BY <1>3, <2>2, <2>3, <3>1
  <2>4. CASE ~(rail <= box.y)
    <3>1. OnBox(<<MidX(box), rail>>, box)
      BY <1>1, <1>3, <2>4, OnBoxIs
    <3> QED BY <1>3, <2>2, <2>4, <3>1
  <2> QED BY <2>3, <2>4
<1> QED BY <1>2, <1>3

(* A course of pieces that are joined from a point p of source to a tip at target. *)
LEMMA ReachesByOne ==
  ASSUME NEW a, NEW direction, NEW x, NEW y, NEW source, NEW target,
         NEW p, NEW t, p \in EndPoints(a), OnBox(p, source),
         t \in EndPoints(a), t[2] = y, Distance(t[1], x) < Tolerance, OnBorder(<<x, y>>, target)
  PROVE  Reaches(Course(<<a>>, direction, x, y), source, target)
<1> DEFINE c == Course(<<a>>, direction, x, y)
           pieces == c.segments
<1>1. c.x = x /\ c.y = y /\ pieces = <<a>>
  BY DEF Course
<1>2. pieces # <<>> /\ Len(pieces) = 1 /\ pieces[1] = a /\ pieces[Len(pieces)] = a
  <2> HIDE DEF c
  <2>1. Len(pieces) = 1 /\ pieces[1] = a
    BY <1>1
  <2>2. Len(<<>>) = 0
    OBVIOUS
  <2>3. pieces # <<>>
    BY <2>1, <2>2
  <2> QED BY <2>1, <2>3
<1>3. \A i \in 1..(Len(pieces) - 1) : EndPoints(pieces[i]) \cap EndPoints(pieces[i + 1]) # {}
  BY <1>2
<1> HIDE DEF c
<1>4. Reaches(c, source, target)
  BY <1>1, <1>2, <1>3 DEF Reaches, OnBox
<1> QED BY <1>4 DEF c

(* Three joined pieces from the source to a tip on the target's border reach it. *)
LEMMA ReachesByThree ==
  ASSUME NEW a, NEW b, NEW c, NEW direction, NEW x, NEW y, NEW source, NEW target,
         NEW p, NEW q, NEW r, NEW t, p \in EndPoints(a), OnBox(p, source),
         q \in EndPoints(a), q \in EndPoints(b), r \in EndPoints(b), r \in EndPoints(c),
         t \in EndPoints(c), t[2] = y, Distance(t[1], x) < Tolerance, OnBorder(<<x, y>>, target)
  PROVE  Reaches(Course(<<a, b, c>>, direction, x, y), source, target)
<1> DEFINE k == Course(<<a, b, c>>, direction, x, y)
           pieces == k.segments
<1>1. k.x = x /\ k.y = y /\ pieces = <<a, b, c>>
  BY DEF Course
<1>2. pieces # <<>> /\ Len(pieces) = 3 /\ pieces[1] = a /\ pieces[2] = b /\ pieces[3] = c
  BY <1>1
<1> HIDE DEF k
<1>3. ASSUME NEW i \in 1..(Len(pieces) - 1) PROVE EndPoints(pieces[i]) \cap EndPoints(pieces[i + 1]) # {}
  <2>1. i = 1 \/ i = 2
    BY <1>2
  <2>2. EndPoints(a) \cap EndPoints(b) # {} /\ EndPoints(b) \cap EndPoints(c) # {}
    OBVIOUS
  <2>3. CASE i = 1
    BY <1>2, <2>2, <2>3
  <2>4. CASE i = 2
    BY <1>2, <2>2, <2>4
  <2> QED BY <2>1, <2>3, <2>4
<1>4. Reaches(k, source, target)
  BY <1>1, <1>2, <1>3 DEF Reaches, OnBox
<1> QED BY <1>4 DEF k

(* So do four. *)
LEMMA ReachesByFour ==
  ASSUME NEW a, NEW b, NEW c, NEW d, NEW direction, NEW x, NEW y, NEW source, NEW target,
         NEW p, NEW q, NEW r, NEW s, NEW t, p \in EndPoints(a), OnBox(p, source),
         q \in EndPoints(a), q \in EndPoints(b), r \in EndPoints(b), r \in EndPoints(c), s \in EndPoints(c), s \in EndPoints(d),
         t \in EndPoints(d), t[2] = y, Distance(t[1], x) < Tolerance, OnBorder(<<x, y>>, target)
  PROVE  Reaches(Course(<<a, b, c, d>>, direction, x, y), source, target)
<1> DEFINE k == Course(<<a, b, c, d>>, direction, x, y)
           pieces == k.segments
<1>1. k.x = x /\ k.y = y /\ pieces = <<a, b, c, d>>
  BY DEF Course
<1>2. pieces # <<>> /\ Len(pieces) = 4 /\ pieces[1] = a /\ pieces[2] = b /\ pieces[3] = c /\ pieces[4] = d
  BY <1>1
<1> HIDE DEF k
<1>3. ASSUME NEW i \in 1..(Len(pieces) - 1) PROVE EndPoints(pieces[i]) \cap EndPoints(pieces[i + 1]) # {}
  <2>1. i = 1 \/ i = 2 \/ i = 3
    BY <1>2
  <2>2. EndPoints(a) \cap EndPoints(b) # {} /\ EndPoints(b) \cap EndPoints(c) # {} /\ EndPoints(c) \cap EndPoints(d) # {}
    OBVIOUS
  <2>3. CASE i = 1
    BY <1>2, <2>2, <2>3
  <2>4. CASE i = 2
    BY <1>2, <2>2, <2>4
  <2>5. CASE i = 3
    BY <1>2, <2>2, <2>5
  <2> QED BY <2>1, <2>3, <2>4, <2>5
<1>4. Reaches(k, source, target)
  BY <1>1, <1>2, <1>3 DEF Reaches, OnBox
<1> QED BY <1>4 DEF k

(* A concatenation of one piece and two is three pieces. *)
LEMMA ThreePieces ==
  ASSUME NEW a, NEW b, NEW c, NEW l, NEW r, NEW w
  PROVE  l = <<a>> /\ r = <<b, c>> /\ w = <<a, b, c>> => l \o r = w
<1> DEFINE S == {a, b, c}
<1>1. SUFFICES ASSUME l = <<a>>, r = <<b, c>>, w = <<a, b, c>> PROVE l \o r = w
  OBVIOUS
<1>2. l \in Seq(S) /\ r \in Seq(S) /\ w \in Seq(S)
  BY <1>1
<1>3. Len(l) = 1 /\ Len(r) = 2 /\ Len(w) = 3 /\ l[1] = a /\ r[1] = b /\ r[2] = c /\ w[1] = a /\ w[2] = b /\ w[3] = c
  BY <1>1
<1> HIDE DEF S
<1>4. (l \o r) \in Seq(S) /\ Len(l \o r) = Len(w)
  <2>1. (l \o r) \in Seq(S) /\ Len(l \o r) = Len(l) + Len(r)
    BY <1>2, ConcatProperties
  <2> QED BY <1>3, <2>1
<1>5. \A i \in 1..Len(w) : (l \o r)[i] = w[i]
  <2> TAKE i \in 1..Len(w)
  <2>1. i \in 1..(Len(l) + Len(r)) /\ (i = 1 \/ i = 2 \/ i = 3)
    BY <1>3
  <2>2. (l \o r)[i] = IF i <= Len(l) THEN l[i] ELSE r[i - Len(l)]
    BY <1>2, <2>1, ConcatProperties
  <2> QED BY <1>3, <2>1, <2>2
<1> QED BY <1>2, <1>4, <1>5, SeqEqual

(* A concatenation of two pieces and two is four pieces. *)
LEMMA FourPieces ==
  ASSUME NEW a, NEW b, NEW c, NEW d, NEW l, NEW r, NEW w
  PROVE  l = <<a, b>> /\ r = <<c, d>> /\ w = <<a, b, c, d>> => l \o r = w
<1> DEFINE S == {a, b, c, d}
<1>1. SUFFICES ASSUME l = <<a, b>>, r = <<c, d>>, w = <<a, b, c, d>> PROVE l \o r = w
  OBVIOUS
<1>2. l \in Seq(S) /\ r \in Seq(S) /\ w \in Seq(S)
  BY <1>1
<1>3. Len(l) = 2 /\ Len(r) = 2 /\ Len(w) = 4 /\ l[1] = a /\ l[2] = b /\ r[1] = c /\ r[2] = d /\ w[1] = a /\ w[2] = b /\ w[3] = c /\ w[4] = d
  BY <1>1
<1> HIDE DEF S
<1>4. (l \o r) \in Seq(S) /\ Len(l \o r) = Len(w)
  <2>1. (l \o r) \in Seq(S) /\ Len(l \o r) = Len(l) + Len(r)
    BY <1>2, ConcatProperties
  <2> QED BY <1>3, <2>1
<1>5. \A i \in 1..Len(w) : (l \o r)[i] = w[i]
  <2> TAKE i \in 1..Len(w)
  <2>1. i \in 1..(Len(l) + Len(r)) /\ (i = 1 \/ i = 2 \/ i = 3 \/ i = 4)
    BY <1>3
  <2>2. (l \o r)[i] = IF i <= Len(l) THEN l[i] ELSE r[i - Len(l)]
    BY <1>2, <2>1, ConcatProperties
  <2> QED BY <1>3, <2>1, <2>2
<1> QED BY <1>2, <1>4, <1>5, SeqEqual

(* Out of a side and into one. *)
LEMMA ViaChannelReaches ==
  ASSUME NEW target, Natural(target), NEW channel \in Int, NEW y \in Int
  PROVE  \E down, into :
           /\ ViaChannel(channel, y, target) = <<down, into>>
           /\ <<channel, y>> \in EndPoints(down)
           /\ <<channel, MidY(target)>> \in EndPoints(down) /\ <<channel, MidY(target)>> \in EndPoints(into)
           /\ <<NearSide(channel, target), MidY(target)>> \in EndPoints(into)
           /\ NearSide(channel, target) \in Int
           /\ OnBorder(<<NearSide(channel, target), MidY(target)>>, target)
<1> DEFINE down == UpOrDown(channel, y, MidY(target))
           into == Across(channel, NearSide(channel, target), MidY(target))
<1>1. /\ MidY(target) \in Int /\ target.y <= MidY(target) /\ MidY(target) <= Bottom(target)
      /\ target.x \in Int /\ Right(target) \in Int /\ target.x <= Right(target)
  BY Middles DEF Natural
<1>2. NearSide(channel, target) \in {target.x, Right(target)}
  BY DEF NearSide
<1>3. NearSide(channel, target) \in Int /\ target.x <= NearSide(channel, target) /\ NearSide(channel, target) <= Right(target)
  BY <1>1, <1>2
<1>4. ViaChannel(channel, y, target) = <<down, into>>
  BY DEF ViaChannel
<1>5. <<channel, y>> \in EndPoints(down) /\ <<channel, MidY(target)>> \in EndPoints(down)
  BY <1>1, UpOrDownEnds
<1>6. <<channel, MidY(target)>> \in EndPoints(into) /\ <<NearSide(channel, target), MidY(target)>> \in EndPoints(into)
  BY <1>3, AcrossEnds
<1>7. OnBorder(<<NearSide(channel, target), MidY(target)>>, target)
  BY <1>1, <1>2, <1>3, OnBorderIs
<1> HIDE DEF down, into
<1> QED BY <1>3, <1>4, <1>5, <1>6, <1>7

(* A point is within the tolerance of itself. *)
LEMMA NoDistance ==
  ASSUME NEW x \in Int
  PROVE  Distance(x, x) < Tolerance
BY DEF Distance, Tolerance

(* A course out of a side reaches its target, whatever the channel. *)
LEMMA SideExitReaches ==
  ASSUME NEW source, Natural(source), NEW target, Natural(target), NEW channel \in Int
  PROVE  Reaches(SideExit(source, target, channel), source, target)
<1> DEFINE start == IF channel > Right(source) THEN Right(source) ELSE source.x
           out == Across(start, channel, MidY(source))
           x == NearSide(channel, target)
           y == MidY(target)
<1>1. /\ MidY(source) \in Int /\ source.y <= MidY(source) /\ MidY(source) <= Bottom(source)
      /\ source.x \in Int /\ Right(source) \in Int /\ source.x <= Right(source)
  BY Middles DEF Natural
<1>2. start \in Int /\ source.x <= start /\ start <= Right(source)
  BY <1>1
<1>3. PICK down, into :
           /\ ViaChannel(channel, MidY(source), target) = <<down, into>>
           /\ <<channel, MidY(source)>> \in EndPoints(down)
           /\ <<channel, y>> \in EndPoints(down) /\ <<channel, y>> \in EndPoints(into)
           /\ <<x, y>> \in EndPoints(into)
           /\ x \in Int /\ OnBorder(<<x, y>>, target)
  BY <1>1, ViaChannelReaches
<1>4. <<out>> \o ViaChannel(channel, MidY(source), target) = <<out, down, into>>
  <2> DEFINE l == <<out>>
             r == ViaChannel(channel, MidY(source), target)
             w == <<out, down, into>>
  <2>1. l = <<out>> /\ r = <<down, into>> /\ w = <<out, down, into>>
    BY <1>3
  <2> HIDE DEF out, l, r, w
  <2>2. l \o r = w
    BY <2>1, ThreePieces
  <2> QED BY <2>2 DEF l, r, w
<1>5. SideExit(source, target, channel) = Course(<<out, down, into>>, EntersFrom(channel, target), x, y)
  BY <1>4 DEF SideExit
<1> HIDE DEF start
<1>6. <<start, MidY(source)>> \in EndPoints(out) /\ <<channel, MidY(source)>> \in EndPoints(out)
  BY <1>2, AcrossEnds
<1>7. OnBox(<<start, MidY(source)>>, source)
  BY <1>1, <1>2, OnBoxIs
<1>8. <<x, y>>[2] = y /\ Distance(<<x, y>>[1], x) < Tolerance
  BY <1>3, NoDistance
<1> HIDE DEF out, x, y
<1>9. Reaches(Course(<<out, down, into>>, EntersFrom(channel, target), x, y), source, target)
  BY <1>3, <1>6, <1>7, <1>8, ReachesByThree
<1> QED BY <1>5, <1>9

(* So does a detour by a gutter beside the target, unless the rail is beside the source. *)
LEMMA SideDetourReaches ==
  ASSUME NEW source, Natural(source), NEW target, Natural(target), NEW channel \in Int, NEW rail \in Int
  PROVE  Reaches(SideDetour(source, target, channel, rail), source, target)
<1> DEFINE leg == Leg(source, rail)
           along == Across(MidX(source), channel, rail)
           x == NearSide(channel, target)
           y == MidY(target)
<1>1. MidX(source) \in Int
  BY Middles
<1>2. PICK point \in EndPoints(leg) : OnBox(point, source)
  BY LegEnds
<1>3. PICK down, into :
           /\ ViaChannel(channel, rail, target) = <<down, into>>
           /\ <<channel, rail>> \in EndPoints(down)
           /\ <<channel, y>> \in EndPoints(down) /\ <<channel, y>> \in EndPoints(into)
           /\ <<x, y>> \in EndPoints(into)
           /\ x \in Int /\ OnBorder(<<x, y>>, target)
  BY ViaChannelReaches
<1>4. <<leg, along>> \o ViaChannel(channel, rail, target) = <<leg, along, down, into>>
  <2> DEFINE l == <<leg, along>>
             r == ViaChannel(channel, rail, target)
             w == <<leg, along, down, into>>
  <2>1. l = <<leg, along>> /\ r = <<down, into>> /\ w = <<leg, along, down, into>>
    BY <1>3
  <2> HIDE DEF leg, along, l, r, w
  <2>2. l \o r = w
    BY <2>1, FourPieces
  <2> QED BY <2>2 DEF l, r, w
<1>5. SideDetour(source, target, channel, rail) = Course(<<leg, along, down, into>>, EntersFrom(channel, target), x, y)
  BY <1>4 DEF SideDetour
<1>6. <<MidX(source), rail>> \in EndPoints(leg) /\ <<MidX(source), rail>> \in EndPoints(along) /\ <<channel, rail>> \in EndPoints(along)
  BY <1>1, LegEnds, AcrossEnds
<1>8. <<x, y>>[2] = y /\ Distance(<<x, y>>[1], x) < Tolerance
  BY <1>3, NoDistance
<1> HIDE DEF leg, along, x, y
<1>9. Reaches(Course(<<leg, along, down, into>>, EntersFrom(channel, target), x, y), source, target)
  BY <1>2, <1>3, <1>6, <1>8, ReachesByFour
<1> QED BY <1>5, <1>9

(* A detour ends at the target unless its rail runs inside the target's height. *)
LEMMA DetourReaches ==
  ASSUME NEW source, Natural(source), NEW target, Natural(target), NEW rail \in Int,
         rail <= target.y \/ rail >= Bottom(target)
  PROVE  Reaches(Detour(source, target, rail), source, target)
<1> DEFINE leg == Leg(source, rail)
           along == Across(MidX(source), MidX(target), rail)
           last == Leg(target, rail)
           x == MidX(target)
           y == IF rail >= Bottom(target) THEN Bottom(target) ELSE target.y
           direction == IF rail >= Bottom(target) THEN "u" ELSE "d"
<1>1. /\ MidX(source) \in Int /\ x \in Int /\ target.x <= x /\ x <= Right(target)
      /\ target.y \in Int /\ Bottom(target) \in Int /\ target.y <= Bottom(target)
  BY Middles DEF Natural
<1>2. PICK point \in EndPoints(leg) : OnBox(point, source)
  BY LegEnds
<1>3. <<MidX(source), rail>> \in EndPoints(leg) /\ <<MidX(source), rail>> \in EndPoints(along) /\ <<x, rail>> \in EndPoints(along)
  BY <1>1, LegEnds, AcrossEnds
<1>4. <<x, rail>> \in EndPoints(last) /\ <<x, y>> \in EndPoints(last)
  BY LegEnds
<1>5. OnBorder(<<x, y>>, target)
  <2>1. y \in Int /\ target.y <= y /\ y <= Bottom(target) /\ (y = target.y \/ y = Bottom(target))
    BY <1>1
  <2> HIDE DEF y
  <2> QED BY <1>1, <2>1, OnBorderIs
<1>6. Detour(source, target, rail) = Course(<<leg, along, last>>, direction, x, y)
  BY DEF Detour
<1>8. <<x, y>>[2] = y /\ Distance(<<x, y>>[1], x) < Tolerance
  BY <1>1, NoDistance
<1> HIDE DEF leg, along, last, x, y, direction
<1>9. Reaches(Course(<<leg, along, last>>, direction, x, y), source, target)
  BY <1>2, <1>3, <1>4, <1>5, <1>8, ReachesByThree
<1> QED BY <1>6, <1>9

(* The straight line between two boxes side by side. *)
LEMMA SameRowReaches ==
  ASSUME NEW source, Natural(source), NEW target, Natural(target), SharesBand(source, target),
         source.w > 0, target.w > 0,
         Right(source) < target.x \/ Right(target) < source.x
  PROVE  Reaches(SameRow(source, target), source, target)
<1> DEFINE y == (Larger(source.y, target.y) + Smaller(Bottom(source), Bottom(target))) \div 2
           line(from, to) == Across(from, to, y)
<1>1. /\ MidX(source) \in Int /\ source.x <= MidX(source) /\ MidX(source) <= Right(source) /\ Right(source) \in Int /\ source.x \in Int
      /\ Bottom(source) \in Int /\ source.y \in Int /\ source.x <= Right(source)
  BY Middles DEF Natural
<1>2. /\ MidX(target) \in Int /\ target.x <= MidX(target) /\ MidX(target) <= Right(target) /\ Right(target) \in Int /\ target.x \in Int
      /\ Bottom(target) \in Int /\ target.y \in Int /\ target.x <= Right(target)
  BY Middles DEF Natural
<1>3. y \in Int /\ source.y <= y /\ y <= Bottom(source) /\ target.y <= y /\ y <= Bottom(target)
  <2> DEFINE top == Larger(source.y, target.y)
             bottom == Smaller(Bottom(source), Bottom(target))
  <2>1. /\ top \in Int /\ bottom \in Int /\ source.y <= top /\ target.y <= top /\ bottom <= Bottom(source) /\ bottom <= Bottom(target)
        /\ top < bottom
    BY <1>1, <1>2 DEF Larger, Smaller, SharesBand
  <2> HIDE DEF top, bottom
  <2>2. (top + bottom) \div 2 \in Int /\ top <= (top + bottom) \div 2 /\ (top + bottom) \div 2 <= bottom
    BY <2>1
  <2>3. y = (top + bottom) \div 2
    BY DEF top, bottom
  <2> HIDE DEF y
  <2> QED BY <1>1, <1>2, <2>1, <2>2, <2>3
<1> HIDE DEF y
<1>4. CASE Right(source) < target.x
  <2>1. MidX(source) <= MidX(target) /\ target.x > Right(source)
    BY <1>1, <1>2, <1>4
  <2>2. SameRow(source, target) = Course(<<line(Right(source), target.x)>>, "r", target.x, y)
    BY <2>1 DEF SameRow, y
  <2>3. <<Right(source), y>> \in EndPoints(line(Right(source), target.x)) /\ <<target.x, y>> \in EndPoints(line(Right(source), target.x))
    BY <1>1, <1>2, AcrossEnds
  <2>4. OnBox(<<Right(source), y>>, source) /\ OnBorder(<<target.x, y>>, target)
    BY <1>1, <1>2, <1>3, OnBoxIs, OnBorderIs
  <2>5. <<target.x, y>>[2] = y /\ Distance(<<target.x, y>>[1], target.x) < Tolerance
    BY <1>2, NoDistance
  <2> HIDE DEF line
  <2> QED BY <2>2, <2>3, <2>4, <2>5, ReachesByOne
<1>5. CASE Right(target) < source.x
  <2>1. ~(MidX(source) <= MidX(target)) /\ source.x > Right(target)
    BY <1>1, <1>2, <1>5
  <2>2. SameRow(source, target) = Course(<<line(Right(target), source.x)>>, "l", Right(target), y)
    BY <2>1 DEF SameRow, y
  <2>3. <<Right(target), y>> \in EndPoints(line(Right(target), source.x)) /\ <<source.x, y>> \in EndPoints(line(Right(target), source.x))
    BY <1>1, <1>2, AcrossEnds
  <2>4. OnBox(<<source.x, y>>, source) /\ OnBorder(<<Right(target), y>>, target)
    BY <1>1, <1>2, <1>3, OnBoxIs, OnBorderIs
  <2>5. <<Right(target), y>>[2] = y /\ Distance(<<Right(target), y>>[1], Right(target)) < Tolerance
    BY <1>2, NoDistance
  <2> HIDE DEF line
  <2> QED BY <2>2, <2>3, <2>4, <2>5, ReachesByOne
<1> QED BY <1>4, <1>5

(* Down or up to a box below or above. *)
LEMMA ElbowReaches ==
  ASSUME NEW source, Natural(source), NEW target, Natural(target), source.h > 0, target.h > 0,
         Bottom(source) < target.y \/ Bottom(target) < source.y
  PROVE  Reaches(Elbow(source, target), source, target)
<1> DEFINE above == MidY(source) <= MidY(target)
           from == IF above THEN Bottom(source) ELSE Bottom(target)
           to == IF above THEN target.y ELSE source.y
           rail == (from + to) \div 2
           upper == Along(IF above THEN MidX(source) ELSE MidX(target), from, rail)
           lower == Along(IF above THEN MidX(target) ELSE MidX(source), rail, to)
           rung == Across(MidX(source), MidX(target), rail)
           straight == Along(MidX(source), from, to)
           direction == IF above THEN "d" ELSE "u"
           x == MidX(target)
           y == IF above THEN target.y ELSE Bottom(target)
           start == IF above THEN Bottom(source) ELSE source.y
           first == IF above THEN upper ELSE lower
           last == IF above THEN lower ELSE upper
<1>1. /\ MidX(source) \in Int /\ source.x <= MidX(source) /\ MidX(source) <= Right(source) /\ Right(source) \in Int
      /\ MidY(source) \in Int /\ source.y <= MidY(source) /\ MidY(source) < Bottom(source) /\ Bottom(source) \in Int /\ source.y \in Int
  BY Middles DEF Natural
<1>2. /\ MidX(target) \in Int /\ target.x <= MidX(target) /\ MidX(target) <= Right(target) /\ Right(target) \in Int
      /\ MidY(target) \in Int /\ target.y <= MidY(target) /\ MidY(target) < Bottom(target) /\ Bottom(target) \in Int /\ target.y \in Int
  BY Middles DEF Natural
<1>3. (above /\ Bottom(source) < target.y) \/ (~above /\ Bottom(target) < source.y)
  BY <1>1, <1>2
<1>4. from \in Int /\ to \in Int /\ from < to /\ rail \in Int /\ from <= rail /\ rail <= to
  <2>1. from \in Int /\ to \in Int /\ from < to
    BY <1>1, <1>2, <1>3
  <2> HIDE DEF from, to
  <2> QED BY <2>1
<1>5. start \in Int /\ y \in Int /\ OnBox(<<MidX(source), start>>, source) /\ OnBorder(<<x, y>>, target)
  <2>1. start \in Int /\ source.y <= start /\ start <= Bottom(source)
    BY <1>1
  <2>2. y \in Int /\ target.y <= y /\ y <= Bottom(target) /\ (y = target.y \/ y = Bottom(target))
    BY <1>2
  <2> HIDE DEF start, y
  <2> QED BY <1>1, <1>2, <2>1, <2>2, OnBoxIs, OnBorderIs
<1>6. CASE Aligned(source, target)
  <2>1. Elbow(source, target) = Course(<<straight>>, direction, x, y)
    BY <1>6 DEF Elbow
  <2>2. <<MidX(source), from>> \in EndPoints(straight) /\ <<MidX(source), to>> \in EndPoints(straight)
    BY <1>4, AlongEnds
  <2>3. (start = from /\ y = to) \/ (start = to /\ y = from)
    OBVIOUS
  <2>4. <<MidX(source), start>> \in EndPoints(straight) /\ <<MidX(source), y>> \in EndPoints(straight)
    <3> HIDE DEF start, y, from, to
    <3> QED BY <2>2, <2>3
  <2>5. <<MidX(source), y>>[2] = y /\ Distance(<<MidX(source), y>>[1], x) < Tolerance
    BY <1>6 DEF Aligned
  <2> HIDE DEF straight, direction, start, x, y
  <2>6. Reaches(Course(<<straight>>, direction, x, y), source, target)
    BY <1>5, <2>4, <2>5, ReachesByOne
  <2> QED BY <2>1, <2>6
<1>7. CASE ~Aligned(source, target)
  <2>1. Elbow(source, target) = Course(<<first, rung, last>>, direction, x, y)
    BY <1>7 DEF Elbow
  <2>2. <<MidX(source), rail>> \in EndPoints(rung) /\ <<MidX(target), rail>> \in EndPoints(rung)
    BY <1>1, <1>2, AcrossEnds
  <2>3. /\ <<MidX(source), start>> \in EndPoints(first) /\ <<MidX(source), rail>> \in EndPoints(first)
        /\ <<MidX(target), rail>> \in EndPoints(last) /\ <<MidX(target), y>> \in EndPoints(last)
    <3>1. CASE above
      <4>1. first = Along(MidX(source), from, rail) /\ last = Along(MidX(target), rail, to) /\ start = from /\ y = to
        BY <3>1
      <4> HIDE DEF first, last, start, y, from, to, rail
      <4> QED BY <1>4, <4>1, AlongEnds
    <3>2. CASE ~above
      <4>1. first = Along(MidX(source), rail, to) /\ last = Along(MidX(target), from, rail) /\ start = to /\ y = from
        BY <3>2
      <4> HIDE DEF first, last, start, y, from, to, rail
      <4> QED BY <1>4, <4>1, AlongEnds
    <3> QED BY <3>1, <3>2
  <2>5. <<x, y>>[2] = y /\ Distance(<<x, y>>[1], x) < Tolerance
    BY <1>2, NoDistance
  <2>6. x = MidX(target)
    OBVIOUS
  <2> HIDE DEF first, rung, last, direction, start, x, y, rail
  <2>7. Reaches(Course(<<first, rung, last>>, direction, x, y), source, target)
    BY <1>5, <2>2, <2>3, <2>5, <2>6, ReachesByThree
  <2> QED BY <2>1, <2>7
<1> QED BY <1>6, <1>7

-----------------------------------------------------------------------------
(* What a course cuts through *)

(* A course cuts through a box that one of its pieces, with its clearance, overlaps. *)
LEMMA PieceCrosses ==
  ASSUME NEW course, NEW i \in DOMAIN course.segments, NEW boxes, NEW box \in boxes, Overlap(Thick(course.segments[i]), box)
  PROVE  Crosses(course, boxes)
BY DEF Crosses

(* A leg down cuts through a box under its own, in the same column. *)
LEMMA LegDownCrosses ==
  ASSUME NEW source, Natural(source), NEW box, Natural(box), NEW rail \in Int, rail >= Bottom(source),
         box.x = source.x, box.w = source.w, Bottom(source) < Bottom(box), box.y < rail
  PROVE  Overlap(Thick(Leg(source, rail)), box)
<1>1. MidX(source) \in Nat /\ source.x <= MidX(source) /\ MidX(source) <= Right(source) /\ Bottom(source) \in Nat
  BY Middles
<1>2. Leg(source, rail) = Along(MidX(source), Bottom(source), rail)
  BY DEF Leg
<1>3. Thick(Leg(source, rail)) = [x |-> MidX(source) - Clearance, y |-> Bottom(source), w |-> 2 * Clearance, h |-> Larger(0, rail - Bottom(source))]
  BY <1>2 DEF Along, Thick
<1> DEFINE x == MidX(source)
           b == Bottom(source)
<1>4. x \in Nat /\ b \in Nat /\ source.x <= x /\ x <= source.x + source.w
  BY <1>1 DEF Right
<1>5. b < box.y + box.h /\ b <= rail /\ box.y < rail
  BY DEF Bottom
<1> HIDE DEF x, b
<1>6. Thick(Leg(source, rail)) = [x |-> x - 50, y |-> b, w |-> 100, h |-> rail - b]
  <2>1. Larger(0, rail - b) = rail - b
    BY <1>4, <1>5 DEF Larger
  <2>2. 2 * Clearance = 100 /\ x - Clearance = x - 50
    BY DEF Clearance
  <2> QED BY <1>3, <2>1, <2>2 DEF x, b
<1>7. x - 50 < box.x + box.w /\ box.x < x - 50 + 100 /\ b < box.y + box.h /\ box.y < b + (rail - b)
  BY <1>4, <1>5 DEF Natural
<1> QED BY <1>6, <1>7 DEF Overlap, Right, Bottom

(* A leg up cuts through a box above its own. *)
LEMMA LegUpCrosses ==
  ASSUME NEW source, Natural(source), NEW box, Natural(box), NEW rail \in Int, rail < source.y,
         box.x = source.x, box.w = source.w, box.y < source.y, rail < Bottom(box)
  PROVE  Overlap(Thick(Leg(source, rail)), box)
<1>1. MidX(source) \in Nat /\ source.x <= MidX(source) /\ MidX(source) <= Right(source) /\ Bottom(source) \in Nat /\ source.y <= Bottom(source)
  BY Middles
<1>2. source.y \in Nat /\ ~(rail >= Bottom(source))
  BY <1>1 DEF Natural
<1>3. Leg(source, rail) = Along(MidX(source), rail, source.y)
  BY <1>2 DEF Leg
<1>4. Thick(Leg(source, rail)) = [x |-> MidX(source) - Clearance, y |-> rail, w |-> 2 * Clearance, h |-> Larger(0, source.y - rail)]
  BY <1>3 DEF Along, Thick
<1> DEFINE x == MidX(source)
           t == source.y
<1>5. x \in Nat /\ t \in Nat /\ source.x <= x /\ x <= source.x + source.w
  BY <1>1, <1>2 DEF Right
<1>6. rail < box.y + box.h /\ rail < t /\ box.y < t
  BY DEF Bottom
<1> HIDE DEF x, t
<1>7. Thick(Leg(source, rail)) = [x |-> x - 50, y |-> rail, w |-> 100, h |-> t - rail]
  <2>1. Larger(0, t - rail) = t - rail
    BY <1>5, <1>6 DEF Larger
  <2>2. 2 * Clearance = 100 /\ x - Clearance = x - 50
    BY DEF Clearance
  <2> QED BY <1>4, <2>1, <2>2 DEF x, t
<1>8. x - 50 < box.x + box.w /\ box.x < x - 50 + 100 /\ rail < box.y + box.h /\ box.y < rail + (t - rail)
  BY <1>5, <1>6 DEF Natural
<1> QED BY <1>7, <1>8 DEF Overlap, Right, Bottom

(* A piece across at a rail, from one middle to another, cuts through a box between the two at that height. *)
LEMMA RungCrosses ==
  ASSUME NEW source, Natural(source), NEW target, Natural(target), NEW box, Natural(box), NEW rail \in Int, box.w > 0,
         (Right(source) <= box.x /\ Right(box) <= target.x) \/ (Right(target) <= box.x /\ Right(box) <= source.x),
         rail < Bottom(box) + 50, box.y < rail + 50
  PROVE  Overlap(Thick(Across(MidX(source), MidX(target), rail)), box)
<1> DEFINE a == MidX(source)
           b == MidX(target)
           right == box.x + box.w
           bottom == box.y + box.h
<1>1. a \in Nat /\ b \in Nat /\ source.x <= a /\ a <= Right(source) /\ target.x <= b /\ b <= Right(target) /\ Right(source) \in Nat /\ Right(target) \in Nat
  BY Middles
<1>2. Thick(Across(a, b, rail)) = [x |-> Smaller(a, b), y |-> rail - Clearance, w |-> Distance(a, b), h |-> 2 * Clearance]
  BY DEF Thick, Across
<1>3. right = Right(box) /\ bottom = Bottom(box) /\ right \in Nat /\ bottom \in Nat /\ box.x < right /\ rail < bottom + 50
  BY DEF Right, Bottom, Natural
<1>4. (a < right /\ box.x < b) \/ (b < right /\ box.x < a)
  <2>1. CASE Right(source) <= box.x /\ Right(box) <= target.x
    <3>1. a < right
      BY <1>1, <1>3, <2>1 DEF Natural
    <3>2. box.x < b
      BY <1>1, <1>3, <2>1 DEF Natural
    <3> QED BY <3>1, <3>2
  <2>2. CASE Right(target) <= box.x /\ Right(box) <= source.x
    <3>1. b < right
      BY <1>1, <1>3, <2>2 DEF Natural
    <3>2. box.x < a
      BY <1>1, <1>3, <2>2 DEF Natural
    <3> QED BY <3>1, <3>2
  <2> QED BY <2>1, <2>2
<1>5. a <= box.x \/ b <= box.x
  BY <1>1 DEF Natural
<1>6. right <= a \/ right <= b
  BY <1>1, <1>3 DEF Natural
<1> HIDE DEF a, b, right, bottom
<1>7. Smaller(a, b) < right /\ box.x < Smaller(a, b) + Distance(a, b)
  BY <1>1, <1>3, <1>5, <1>6 DEF Smaller, Distance, Natural
<1>8. rail - Clearance < bottom /\ box.y < rail - Clearance + 2 * Clearance
  BY <1>3 DEF Clearance, Natural
<1> DEFINE t == Thick(Across(a, b, rail))
<1>9. t.x = Smaller(a, b) /\ t.y = rail - Clearance /\ t.w = Distance(a, b) /\ t.h = 2 * Clearance
  BY <1>2
<1> HIDE DEF t
<1>10. Overlap(t, box)
  BY <1>3, <1>7, <1>8, <1>9 DEF Overlap, Right, Bottom
<1> QED BY <1>10 DEF t, a, b

(* The pieces of a detour. *)
LEMMA DetourPieces ==
  ASSUME NEW source, NEW target, NEW rail
  PROVE  LET segments == Detour(source, target, rail).segments
         IN  /\ DOMAIN segments = 1..3 /\ segments[1] = Leg(source, rail)
             /\ segments[2] = Across(MidX(source), MidX(target), rail) /\ segments[3] = Leg(target, rail)
BY DEF Detour, Course

-----------------------------------------------------------------------------
(* Rails of a row and its cells *)

(* The rails of a row pass the nodes of other rows. *)
LEMMA RailsOfOtherRow ==
  ASSUME NEW target, Natural(target), NEW row, row[1] \in Nat, row[2] \in Nat, row[1] + row[2] <= Full,
         row[1] + row[2] + RowGutter <= target.y \/ Bottom(target) + RowGutter <= row[1],
         NEW rail \in {RailBelow(row), RailAbove(row)}
  PROVE  rail \in Int /\ (rail <= target.y \/ rail >= Bottom(target))
<1> DEFINE t == target.y
           b == target.y + target.h
           top == row[1]
           bottom == row[1] + row[2]
<1>1. t \in Nat /\ b \in Nat /\ t <= b /\ top \in Nat /\ bottom \in Nat /\ top <= bottom /\ bottom <= 10000
  BY DEF Natural, Full
<1>2. bottom + 600 <= t \/ b + 600 <= top
  BY DEF RowGutter, Bottom
<1>3. rail = Smaller(bottom + 300, 9900) \/ rail = Larger(top - 300, 100)
  <2>1. RowGutter \div 2 = 300 /\ Full - 100 = 9900
    BY DEF RowGutter, Full
  <2> QED BY <2>1 DEF RailBelow, RailAbove
<1> HIDE DEF t, b, top, bottom
<1>4. rail \in Int /\ (rail <= t \/ rail >= b)
  BY <1>1, <1>2, <1>3 DEF Smaller, Larger
<1> QED BY <1>4 DEF t, b, Bottom

(* They pass those of the row itself too, unless the row ends at the diagram's edge. *)
LEMMA RailsOfOwnRow ==
  ASSUME NEW target, Natural(target), NEW row, row[1] \in Nat, row[2] \in Nat,
         row[1] <= target.y, Bottom(target) <= row[1] + row[2],
         NEW rail \in {RailBelow(row), RailAbove(row)}
  PROVE  /\ rail \in Int
         /\ rail <= target.y \/ rail >= Bottom(target) \/ rail = 9900 \/ rail = 100
<1> DEFINE t == target.y
           b == target.y + target.h
           top == row[1]
           bottom == row[1] + row[2]
<1>1. t \in Nat /\ b \in Nat /\ t <= b /\ top \in Nat /\ bottom \in Nat /\ top <= t /\ b <= bottom
  BY DEF Natural, Bottom
<1>2. rail = Smaller(bottom + 300, 9900) \/ rail = Larger(top - 300, 100)
  <2>1. RowGutter \div 2 = 300 /\ Full - 100 = 9900
    BY DEF RowGutter, Full
  <2> QED BY <2>1 DEF RailBelow, RailAbove
<1> HIDE DEF t, b, top, bottom
<1>3. rail \in Int /\ (rail <= t \/ rail >= b \/ rail = 9900 \/ rail = 100)
  BY <1>1, <1>2 DEF Smaller, Larger
<1> QED BY <1>3 DEF t, b, Bottom

(* A straight line to the right that is cut through by a box is so beside the two it joins. *)
LEMMA StraightIsCrossed ==
  ASSUME NEW source, Natural(source), NEW target, Natural(target), NEW left, NEW right,
         (left = source /\ right = target) \/ (left = target /\ right = source),
         Right(left) < right.x, left.w > 0, right.w > 0, SharesBand(source, target),
         NEW boxes, Crosses(SameRow(source, target), boxes), \A box \in boxes : Natural(box)
  PROVE  \E box \in boxes : /\ Right(left) < Right(box) /\ box.x < right.x
                            /\ box.y < Bottom(source) + 50 /\ source.y < Bottom(box) + 50
<1> DEFINE y == (Larger(source.y, target.y) + Smaller(Bottom(source), Bottom(target))) \div 2
           from == Right(left)
           to == right.x
           course == SameRow(source, target)
<1>1. /\ MidX(source) \in Nat /\ source.x <= MidX(source) /\ MidX(source) <= Right(source)
      /\ MidX(target) \in Nat /\ target.x <= MidX(target) /\ MidX(target) <= Right(target)
      /\ Right(source) \in Nat /\ Right(target) \in Nat /\ source.x \in Nat /\ target.x \in Nat
      /\ source.x <= Right(source) /\ target.x <= Right(target)
  BY Middles DEF Natural
<1>2. y \in Int /\ source.y <= y /\ y <= Bottom(source)
  BY DEF SharesBand, Larger, Smaller, Natural, Bottom
<1>3. from \in Nat /\ to \in Nat /\ from < to
  BY <1>1
<1>4. DOMAIN course.segments = {1} /\ course.segments[1] = Across(from, to, y)
  <2>1. course.segments = <<Across(from, to, y)>>
    <3>1. CASE left = source /\ right = target
      <4>1. MidX(source) <= MidX(target)
        BY <1>1, <3>1
      <4> QED BY <1>3, <3>1, <4>1 DEF SameRow, Course
    <3>2. CASE left = target /\ right = source
      <4>1. ~(MidX(source) <= MidX(target))
        <5>1. MidX(target) <= Right(target) /\ Right(target) < source.x /\ source.x <= MidX(source)
          BY <1>1, <3>2
        <5> QED BY <1>1, <5>1
      <4> QED BY <1>3, <3>2, <4>1 DEF SameRow, Course
    <3> QED BY <3>1, <3>2
  <2> HIDE DEF course
  <2> QED BY <2>1
<1>5. PICK box \in boxes : Overlap(Thick(Across(from, to, y)), box)
  BY <1>4 DEF Crosses
<1> HIDE DEF y, course
<1>6. Thick(Across(from, to, y)) = [x |-> from, y |-> y - 50, w |-> to - from, h |-> 100]
  <2>1. Smaller(from, to) = from /\ Distance(from, to) = to - from
    BY <1>3 DEF Smaller, Distance
  <2>2. 2 * Clearance = 100 /\ y - Clearance = y - 50
    BY DEF Clearance
  <2> QED BY <2>1, <2>2 DEF Thick, Across
<1>7. from < box.x + box.w /\ box.x < from + (to - from) /\ y - 50 < box.y + box.h /\ box.y < (y - 50) + 100
  BY <1>5, <1>6 DEF Overlap, Right, Bottom
<1>8. Natural(box)
  OBVIOUS
<1>9. from < Right(box) /\ box.x < to
  <2> HIDE DEF from, to
  <2> QED BY <1>3, <1>7, <1>8 DEF Natural, Right
<1>10. box.y < Bottom(source) + 50 /\ source.y < Bottom(box) + 50
  BY <1>2, <1>7, <1>8 DEF Natural, Bottom
<1> QED BY <1>9, <1>10

-----------------------------------------------------------------------------
(* The connector of two nodes of one row, at the edge of the diagram *)

(* The boxes of all nodes but two. *)
Others(d, p, q) == {o.box : o \in Places(d) \ {p, q}}

(* Every node is taller than the clearance around a piece. *)
Tall(d) == \A p \in Places(d) : p.box.h > 100

(* The edges of a box are numbers. *)
LEMMA Edges ==
  ASSUME NEW box, Natural(box)
  PROVE  /\ box.x \in Nat /\ box.y \in Nat /\ Right(box) \in Nat /\ Bottom(box) \in Nat
         /\ box.x <= Right(box) /\ box.y <= Bottom(box)
BY DEF Natural, Right, Bottom

(* Boxes apart by a gap, and boxes within them. *)
LEMMA FarAbove ==
  ASSUME NEW a, NEW A, NEW b, NEW B, Natural(a), Natural(A), Natural(b), Natural(B), NEW gap \in Nat,
         Bottom(a) <= Bottom(A), Bottom(A) + gap <= B.y, B.y <= b.y
  PROVE  Bottom(a) + gap <= b.y
BY DEF Natural, Bottom

(* Side by side, with one box as wide as the one it is in. *)
LEMMA FarBeside ==
  ASSUME NEW a, NEW A, NEW b, NEW B, Natural(a), Natural(A), Natural(b), Natural(B), NEW gap \in Nat,
         a.x = A.x, a.w = A.w, b.x = B.x, Right(A) + gap <= B.x
  PROVE  Right(a) + gap <= b.x
BY DEF Natural, Right

(* A box above another one is clear of it. *)
LEMMA AboveIsAway ==
  ASSUME NEW a, NEW b, Natural(a), Natural(b), Bottom(a) + RowGutter <= b.y
  PROVE  b.y >= Bottom(a) + 50
BY DEF Natural, Bottom, RowGutter

(* A box beside another one does not come back. *)
LEMMA BesideIsAway ==
  ASSUME NEW a, NEW b, Natural(a), Natural(b), Right(a) + ColGutter <= b.x
  PROVE  a.x < b.x /\ Right(a) < b.x /\ Right(a) < Right(b)
BY DEF Natural, Right, ColGutter

(* A rail at the edge of the diagram that runs beside a box. *)
Beside(rail, box) == rail \in {100, 9900} /\ box.y < rail /\ rail < Bottom(box)

(* A box in a row, one at the row's top and one that all but fills it to its bottom. *)
InRow(box, row) ==
  /\ row[1] \in Nat /\ row[2] \in Nat /\ row[1] + row[2] <= Full
  /\ row[1] <= box.y /\ Bottom(box) <= row[1] + row[2]
AtTop(box, row) == Natural(box) /\ box.h > 100 /\ box.y = row[1]
AtBottom(box, row) == Natural(box) /\ box.h > 100 /\ row[1] + row[2] <= Bottom(box) + 49 /\ Bottom(box) <= row[1] + row[2]

(* The first and the last node of a column reach such a rail beside another node of their row. *)
LEMMA AtTheEdge ==
  ASSUME NEW target, Natural(target), NEW row, InRow(target, row),
         NEW first, AtTop(first, row), NEW last, AtBottom(last, row), NEW rail, Beside(rail, target)
  PROVE  /\ rail = 100 => first.y < rail /\ first.y < rail + 50 /\ rail < Bottom(first) /\ rail < Bottom(first) + 50
         /\ rail = 9900 => last.y < rail /\ last.y < rail + 50 /\ rail < Bottom(last) + 50
<1> DEFINE top == row[1]
           bottom == row[1] + row[2]
           t == target.y
           b == Bottom(target)
           F == Bottom(first)
           l == last.y
           h == last.h
<1>1. /\ top \in Nat /\ bottom \in Nat /\ bottom <= 10000 /\ top <= t /\ b <= bottom /\ t \in Nat /\ b \in Nat
      /\ F \in Nat /\ F > top + 100 /\ l \in Nat /\ h \in Nat /\ h > 100 /\ bottom <= l + h + 49 /\ l + h <= bottom
  BY DEF Natural, Bottom, Full, InRow, AtTop, AtBottom
<1>2. rail \in Int /\ t < rail /\ rail < b
  BY DEF Beside
<1>3. first.y = top
  BY DEF AtTop
<1>4. Bottom(last) = l + h
  BY DEF Bottom
<1> HIDE DEF top, bottom, t, b, F, l, h
<1>5. rail = 100 => top < rail /\ top < rail + 50 /\ rail < F /\ rail < F + 50
  BY <1>1, <1>2
<1>6. rail = 9900 => l < rail /\ l < rail + 50 /\ rail < l + h + 50
  BY <1>1, <1>2
<1> QED BY <1>3, <1>4, <1>5, <1>6 DEF F, l

(* Every node is in its row. *)
LEMMA InItsRow ==
  ASSUME NEW d \in Topology, Visible(d), NEW r \in 1..Len(d.rows), NEW s \in 1..Len(SlotsOf(d, r)), NEW n, NEW p, At(d, p, r, s, n)
  PROVE  LET row == RowGeometry(d)[r]
         IN  InRow(p.box, row) /\ Cell(d, r, s).y = row[1] /\ Bottom(Cell(d, r, s)) = row[1] + row[2]
<1>1. Cell(d, r, s).y = RowGeometry(d)[r][1] /\ Cell(d, r, s).h = RowGeometry(d)[r][2]
  BY CellOf
<1>2. RowGeometry(d)[r][1] \in Nat /\ RowGeometry(d)[r][2] \in Nat
  BY RowShares
<1>3. Cell(d, r, s).y <= p.box.y /\ Bottom(p.box) <= Bottom(Cell(d, r, s)) /\ Bottom(Cell(d, r, s)) <= Full
  BY Sits
<1> QED BY <1>1, <1>2, <1>3 DEF Bottom, InRow

(* The first and the last node of a slot are at the top and at the bottom of its row. *)
LEMMA SlotEnds ==
  ASSUME NEW d \in Topology, Visible(d), Tall(d), NEW r \in 1..Len(d.rows), NEW s \in 1..Len(SlotsOf(d, r)), NEW n, NEW p, At(d, p, r, s, n)
  PROVE  \E first, last \in Places(d) :
           /\ At(d, first, r, s, 1) /\ AtTop(first.box, RowGeometry(d)[r])
           /\ At(d, last, r, s, Len(NodesOf(d, r, s))) /\ AtBottom(last.box, RowGeometry(d)[r])
<1>1. n \in 1..Len(NodesOf(d, r, s))
  BY Positions
<1>2. PICK first, last \in Places(d) :
         /\ At(d, first, r, s, 1) /\ first.box.y = Cell(d, r, s).y
         /\ At(d, last, r, s, Len(NodesOf(d, r, s))) /\ Bottom(Cell(d, r, s)) <= Bottom(last.box) + 49
  BY <1>1, StackEnds
<1>3. Natural(first.box) /\ first.box.h > 100 /\ Natural(last.box) /\ last.box.h > 100
  BY <1>2, Sits DEF Tall
<1>4. Cell(d, r, s).y = RowGeometry(d)[r][1] /\ Bottom(Cell(d, r, s)) = RowGeometry(d)[r][1] + RowGeometry(d)[r][2]
  BY InItsRow
<1>5. Bottom(last.box) <= Bottom(Cell(d, r, s))
  BY <1>2, Sits
<1> QED BY <1>2, <1>3, <1>4, <1>5 DEF AtTop, AtBottom

(* Two nodes are apart: by rows, by slots, or in their column. *)
LEMMA NodesApartFrom ==
  ASSUME NEW d \in Topology, Visible(d),
         NEW r \in 1..Len(d.rows), NEW s \in 1..Len(SlotsOf(d, r)), NEW n, NEW p, At(d, p, r, s, n),
         NEW t \in 1..Len(d.rows), NEW u \in 1..Len(SlotsOf(d, t)), NEW m, NEW q, At(d, q, t, u, m)
  PROVE  /\ r < t => Bottom(p.box) + RowGutter <= q.box.y
         /\ r = t /\ s < u => Right(p.box) + ColGutter <= q.box.x
         /\ r = t /\ s = u => p.box.x = q.box.x /\ p.box.w = q.box.w
         /\ r = t /\ s = u /\ n < m => Bottom(p.box) + NestedGutter <= q.box.y
         /\ r = t /\ s = u /\ n = m => p = q
<1> DEFINE P == Cell(d, r, s)
           Q == Cell(d, t, u)
           a == p.box
           b == q.box
<1>1. /\ Natural(P) /\ Natural(a) /\ a.x = P.x /\ a.w = P.w /\ Bottom(a) <= Bottom(P)
      /\ Natural(Q) /\ Natural(b) /\ b.x = Q.x /\ b.w = Q.w /\ Q.y <= b.y
  BY Sits
<1>2. /\ r < t => Bottom(P) + RowGutter <= Q.y
      /\ r = t /\ s < u => Right(P) + ColGutter <= Q.x
      /\ r = t /\ s = u /\ n < m => Bottom(a) + NestedGutter <= b.y
      /\ r = t /\ s = u /\ n = m => p = q
  BY Separated
<1>3. r = t /\ s = u => P = Q
  OBVIOUS
<1> HIDE DEF P, Q, a, b
<1>4. Bottom(P) + RowGutter <= Q.y => Bottom(a) + RowGutter <= b.y
  <2>1. RowGutter \in Nat
    BY DEF RowGutter
  <2> QED BY <1>1, <2>1, FarAbove
<1>5. Right(P) + ColGutter <= Q.x => Right(a) + ColGutter <= b.x
  <2>1. ColGutter \in Nat
    BY DEF ColGutter
  <2> QED BY <1>1, <2>1, FarBeside
<1>6. P = Q => a.x = b.x /\ a.w = b.w
  BY <1>1
<1> QED BY <1>2, <1>3, <1>4, <1>5, <1>6 DEF a, b

(* A node of another slot is one of the others. *)
LEMMA OtherSlot ==
  ASSUME NEW d \in Topology, Visible(d), NEW r \in 1..Len(d.rows),
         NEW s \in 1..Len(SlotsOf(d, r)), NEW n, NEW p, At(d, p, r, s, n),
         NEW u \in 1..Len(SlotsOf(d, r)), NEW m, NEW q, At(d, q, r, u, m), s # u
  PROVE  p # q
<1> SUFFICES ASSUME p = q PROVE FALSE
  OBVIOUS
<1>1. Natural(p.box)
  BY Sits
<1>2. s < u \/ u < s
  BY TopologyTypes
<1>3. Right(p.box) + ColGutter <= p.box.x
  BY <1>2, NodesApartFrom
<1>4. p.box.x \in Nat
  BY <1>1 DEF Natural
<1> QED BY <1>1, <1>3, <1>4, BesideIsAway

(* Which of two slots s and u is the left one, and which box is in it. *)
LeftToRight(L, R, a, b, s, u, p, q) ==
  L < R /\ ((L = s /\ R = u /\ a = p.box /\ b = q.box) \/ (L = u /\ R = s /\ a = q.box /\ b = p.box))

(* If the straight line between two nodes of a row is blocked at the diagram's edge, so is the way around. *)
LEMMA BlockedInBetween ==
  ASSUME NEW d \in Topology, Visible(d), Tall(d), NEW r \in 1..Len(d.rows),
         NEW s \in 1..Len(SlotsOf(d, r)), NEW n, NEW p, At(d, p, r, s, n),
         NEW u \in 1..Len(SlotsOf(d, r)), NEW m, NEW q, At(d, q, r, u, m),
         NEW L, NEW R, NEW a, NEW b, LeftToRight(L, R, a, b, s, u, p, q),
         SharesBand(p.box, q.box), Crosses(SameRow(p.box, q.box), Others(d, p, q)), NEW rail, Beside(rail, q.box)
  PROVE  Crosses(Detour(p.box, q.box, rail), Others(d, p, q))
<1> DEFINE source == p.box
           target == q.box
           row == RowGeometry(d)[r]
<1>1. /\ Natural(source) /\ Natural(target) /\ source.w > 0 /\ target.w > 0 /\ s \in Int /\ u \in Int
      /\ Natural(a) /\ Natural(b) /\ a.w > 0 /\ b.w > 0
  <2>1. Natural(source) /\ Natural(target) /\ source.w > 0 /\ target.w > 0
    BY Sits
  <2>2. s \in Int /\ u \in Int
    BY TopologyTypes
  <2> QED BY <2>1, <2>2 DEF LeftToRight
<1>2. Right(a) + ColGutter <= b.x
  BY NodesApartFrom DEF LeftToRight
<1>3. Right(a) < b.x
  BY <1>1, <1>2, BesideIsAway
<1>4. \A box \in Others(d, p, q) : Natural(box)
  BY PlaceTypes DEF Others
<1>5. PICK box \in Others(d, p, q) : /\ Right(a) < Right(box) /\ box.x < b.x
                                     /\ box.y < Bottom(source) + 50 /\ source.y < Bottom(box) + 50
  <2>1. (a = source /\ b = target) \/ (a = target /\ b = source)
    BY DEF LeftToRight
  <2> HIDE DEF source, target
  <2>2. SharesBand(source, target) /\ Crosses(SameRow(source, target), Others(d, p, q))
    BY DEF source, target
  <2> QED BY <1>1, <1>3, <1>4, <2>1, <2>2, StraightIsCrossed
<1>6. PICK o \in Places(d) : box = o.box
  BY DEF Others
<1>7. PICK w \in 1..Len(d.rows) : \E v \in 1..Len(SlotsOf(d, w)) : \E k \in 1..Len(NodesOf(d, w, v)) : At(d, o, w, v, k)
  BY Placed
<1>8. PICK v \in 1..Len(SlotsOf(d, w)) : \E k \in 1..Len(NodesOf(d, w, v)) : At(d, o, w, v, k)
  BY <1>7
<1>9. PICK k \in 1..Len(NodesOf(d, w, v)) : At(d, o, w, v, k)
  BY <1>8
<1>10. Natural(box) /\ w \in Int /\ v \in Int /\ r \in Int
  BY <1>4, TopologyTypes
<1>11. w = r
  <2>1. ~(w < r)
    <3>1. w < r => Bottom(box) + RowGutter <= source.y
      BY <1>6, <1>9, NodesApartFrom
    <3>2. source.y \in Nat /\ Bottom(box) \in Nat
      BY <1>1, <1>10, Edges
    <3> QED BY <1>1, <1>5, <1>10, <3>1, <3>2, AboveIsAway
  <2>2. ~(r < w)
    <3>1. r < w => Bottom(source) + RowGutter <= box.y
      BY <1>6, <1>9, NodesApartFrom
    <3>2. box.y \in Nat /\ Bottom(source) \in Nat
      BY <1>1, <1>10, Edges
    <3> QED BY <1>1, <1>5, <1>10, <3>1, <3>2, AboveIsAway
  <2> QED BY <1>10, <2>1, <2>2
<1>12. L < v /\ v < R
  <2>1. ~(v < L) /\ v # L
    <3>1. v < L => Right(box) + ColGutter <= a.x
      BY <1>6, <1>9, <1>11, NodesApartFrom DEF LeftToRight
    <3>2. v = L => box.x = a.x /\ box.w = a.w
      BY <1>6, <1>9, <1>11, NodesApartFrom DEF LeftToRight
    <3>3. Right(a) \in Nat /\ Right(box) \in Nat /\ a.x \in Nat
      BY <1>1, <1>10, Edges
    <3>5. box.x = a.x /\ box.w = a.w => Right(box) = Right(a)
      BY DEF Right
    <3>4. ~(v < L)
      <4> SUFFICES ASSUME v < L PROVE FALSE
        OBVIOUS
      <4>1. Right(box) < Right(a)
        BY <1>1, <1>10, <3>1, BesideIsAway
      <4> QED BY <1>5, <3>3, <4>1
    <3>6. v # L
      BY <1>5, <3>2, <3>3, <3>5
    <3> QED BY <3>4, <3>6
  <2>2. ~(R < v) /\ v # R
    <3>1. R < v => Right(b) + ColGutter <= box.x
      BY <1>6, <1>9, <1>11, NodesApartFrom DEF LeftToRight
    <3>2. v = R => box.x = b.x
      BY <1>6, <1>9, <1>11, NodesApartFrom DEF LeftToRight
    <3>3. b.x \in Nat /\ box.x \in Nat
      BY <1>1, <1>10, Edges
    <3>4. ~(R < v)
      <4> SUFFICES ASSUME R < v PROVE FALSE
        OBVIOUS
      <4>1. b.x < box.x
        BY <1>1, <1>10, <3>1, BesideIsAway
      <4> QED BY <1>5, <3>3, <4>1
    <3>5. v # R
      BY <1>5, <3>2, <3>3
    <3> QED BY <3>4, <3>5
  <2>3. L \in Int /\ R \in Int
    BY <1>1 DEF LeftToRight
  <2> QED BY <1>10, <2>1, <2>2, <2>3
<1>13. PICK first, last \in Places(d) :
         /\ At(d, first, r, v, 1) /\ AtTop(first.box, row)
         /\ At(d, last, r, v, Len(NodesOf(d, r, v))) /\ AtBottom(last.box, row)
  BY <1>9, <1>11, SlotEnds
<1>14. ASSUME NEW e \in {first, last}
       PROVE  /\ e.box \in Others(d, p, q) /\ Natural(e.box) /\ e.box.w > 0
              /\ Right(a) <= e.box.x /\ Right(e.box) <= b.x
  <2>1. PICK i : At(d, e, r, v, i)
    BY <1>13
  <2>2. e # p /\ e # q
    BY <1>1, <1>10, <1>12, <2>1, OtherSlot DEF LeftToRight
  <2>3. e \in Places(d) /\ Natural(e.box) /\ e.box.w > 0
    BY <1>11, <2>1, Sits
  <2>4. Right(a) + ColGutter <= e.box.x /\ Right(e.box) + ColGutter <= b.x
    BY <1>12, <2>1, NodesApartFrom DEF LeftToRight
  <2>5. Right(a) <= e.box.x /\ Right(e.box) <= b.x
    <3>1. Right(a) < e.box.x /\ Right(e.box) < b.x
      BY <1>1, <2>3, <2>4, BesideIsAway
    <3>2. Right(a) \in Nat /\ e.box.x \in Nat /\ Right(e.box) \in Nat /\ b.x \in Nat
      BY <1>1, <2>3, Edges
    <3> QED BY <3>1, <3>2
  <2> QED BY <2>2, <2>3, <2>5 DEF Others
<1>15. InRow(target, row)
  BY InItsRow
<1> HIDE DEF row
<1>19. \E e \in {first, last} : rail < Bottom(e.box) + 50 /\ e.box.y < rail + 50
  <2> DEFINE f == first.box
             l == last.box
  <2>1. AtTop(f, row) /\ AtBottom(l, row)
    BY <1>13
  <2>2. Beside(rail, target) /\ rail \in {100, 9900}
    BY DEF Beside
  <2> HIDE DEF target, f, l
  <2>3. /\ rail = 100 => f.y < rail /\ f.y < rail + 50 /\ rail < Bottom(f) /\ rail < Bottom(f) + 50
        /\ rail = 9900 => l.y < rail /\ l.y < rail + 50 /\ rail < Bottom(l) + 50
    BY <1>1, <1>15, <2>1, <2>2, AtTheEdge
  <2> QED BY <2>2, <2>3 DEF f, l
<1>20. PICK e \in {first, last} : rail < Bottom(e.box) + 50 /\ e.box.y < rail + 50
  BY <1>19
<1>21. (Right(source) <= e.box.x /\ Right(e.box) <= target.x) \/ (Right(target) <= e.box.x /\ Right(e.box) <= source.x)
  BY <1>14 DEF LeftToRight
<1>22. Overlap(Thick(Across(MidX(source), MidX(target), rail)), e.box)
  <2>1. rail \in Int /\ Natural(e.box) /\ e.box.w > 0
    BY <1>14 DEF Beside
  <2> HIDE DEF source, target
  <2> QED BY <1>1, <1>20, <1>21, <2>1, RungCrosses
<1>23. 2 \in DOMAIN Detour(source, target, rail).segments
       /\ Detour(source, target, rail).segments[2] = Across(MidX(source), MidX(target), rail)
  BY DetourPieces
<1> QED BY <1>14, <1>22, <1>23, PieceCrosses

(* A node above or below a rail at the edge that runs beside another one. *)
LEMMA AwayFromRail ==
  ASSUME NEW source, Natural(source), source.h > 100, Bottom(source) <= Full,
         NEW target, Natural(target), target.h > 100, Bottom(target) <= Full,
         ~SharesBand(source, target), NEW rail, Beside(rail, target)
  PROVE  /\ rail \in Int
         /\ rail = 9900 => Bottom(source) <= target.y /\ rail >= Bottom(source)
         /\ rail = 100 => Bottom(target) <= source.y /\ rail < source.y
<1> DEFINE s == source.y
           S == source.y + source.h
           t == target.y
           T == target.y + target.h
<1>1. s \in Nat /\ S \in Nat /\ t \in Nat /\ T \in Nat /\ s + 100 < S /\ t + 100 < T /\ S <= 10000 /\ T <= 10000
  BY DEF Natural, Bottom, Full
<1>2. Smaller(S, T) <= Larger(s, t)
  BY <1>1 DEF SharesBand, Bottom, Smaller, Larger
<1>3. (rail = 100 \/ rail = 9900) /\ t < rail /\ rail < T
  BY DEF Beside, Bottom
<1> HIDE DEF s, S, t, T
<1>4. S <= t \/ T <= s
  BY <1>1, <1>2 DEF Smaller, Larger
<1>5. rail = 9900 => S <= t /\ rail >= S
  BY <1>1, <1>3, <1>4
<1>6. rail = 100 => T <= s /\ rail < s
  BY <1>1, <1>3, <1>4
<1> QED BY <1>3, <1>5, <1>6 DEF s, S, t, T, Bottom

(* A box of the same column beyond another one, on the side of such a rail. *)
Beyond(box, source, rail) ==
  /\ Natural(box) /\ box.x = source.x /\ box.w = source.w
  /\ rail = 9900 => Bottom(source) < Bottom(box) /\ box.y < rail
  /\ rail = 100 => box.y < source.y /\ rail < Bottom(box)

(* The leg to the rail cuts through it. *)
LEMMA LegIsCut ==
  ASSUME NEW source, Natural(source), source.h > 100, Bottom(source) <= Full,
         NEW target, Natural(target), target.h > 100, Bottom(target) <= Full,
         ~SharesBand(source, target), NEW rail, Beside(rail, target),
         NEW boxes, NEW box \in boxes, Beyond(box, source, rail)
  PROVE  Crosses(Detour(source, target, rail), boxes)
<1>1. /\ rail \in Int /\ rail \in {100, 9900}
      /\ rail = 9900 => rail >= Bottom(source)
      /\ rail = 100 => rail < source.y
  BY AwayFromRail DEF Beside
<1>2. Overlap(Thick(Leg(source, rail)), box)
  <2>1. CASE rail = 9900
    BY <1>1, <2>1, LegDownCrosses DEF Beyond
  <2>2. CASE rail = 100
    BY <1>1, <2>2, LegUpCrosses DEF Beyond
  <2> QED BY <1>1, <2>1, <2>2
<1>3. 1 \in DOMAIN Detour(source, target, rail).segments /\ Detour(source, target, rail).segments[1] = Leg(source, rail)
  BY DetourPieces
<1> QED BY <1>2, <1>3, PieceCrosses

(* The ends of a column are beyond a node that shares no height with another one beside such a rail. *)
LEMMA EndIsBeyond ==
  ASSUME NEW source, Natural(source), source.h > 100, Bottom(source) <= Full,
         NEW target, Natural(target), target.h > 100,
         ~SharesBand(source, target), NEW rail, Beside(rail, target), NEW row, InRow(target, row),
         NEW first, AtTop(first, row), NEW last, AtBottom(last, row)
  PROVE  /\ rail = 9900 => Bottom(source) < Bottom(last) /\ last.y < rail
         /\ rail = 100 => first.y < source.y /\ rail < Bottom(first)
<1>1. Bottom(target) <= Full
  BY Edges DEF InRow, Full
<1>2. /\ rail \in Int
      /\ rail = 9900 => Bottom(source) <= target.y /\ rail >= Bottom(source)
      /\ rail = 100 => Bottom(target) <= source.y /\ rail < source.y
  BY <1>1, AwayFromRail
<1>3. /\ rail = 100 => first.y < rail /\ rail < Bottom(first)
      /\ rail = 9900 => last.y < rail
  BY AtTheEdge
<1>4. rail = 9900 => Bottom(source) < Bottom(last)
  <2> DEFINE bottom == row[1] + row[2]
             T == target.y + target.h
             t == target.y
             L == Bottom(last)
             S == Bottom(source)
  <2>1. bottom \in Nat /\ T <= bottom /\ T \in Nat /\ t \in Nat /\ t + 100 < T /\ L \in Nat /\ S \in Nat /\ bottom <= L + 49
    BY DEF InRow, AtBottom, Natural, Bottom
  <2>2. rail = 9900 => S <= t
    BY <1>2
  <2> HIDE DEF bottom, T, t, L, S
  <2>3. rail = 9900 => S < L
    BY <2>1, <2>2
  <2> QED BY <2>3 DEF S, L
<1>5. rail = 100 => first.y < source.y
  <2>1. first.y \in Nat /\ source.y \in Nat
    BY DEF AtTop, Natural
  <2> QED BY <1>2, <1>3, <2>1
<1> QED BY <1>3, <1>4, <1>5

(* A detour between two columns of a row whose nodes share no height is cut by the end of the source's column. *)
LEMMA BlockedAtTheLeg ==
  ASSUME NEW d \in Topology, Visible(d), Tall(d), NEW r \in 1..Len(d.rows),
         NEW s \in 1..Len(SlotsOf(d, r)), NEW n, NEW p, At(d, p, r, s, n),
         NEW u \in 1..Len(SlotsOf(d, r)), NEW m, NEW q, At(d, q, r, u, m), s # u,
         ~SharesBand(p.box, q.box), NEW rail, Beside(rail, q.box)
  PROVE  Crosses(Detour(p.box, q.box, rail), Others(d, p, q))
<1> DEFINE source == p.box
           target == q.box
           row == RowGeometry(d)[r]
<1>1. /\ Natural(source) /\ source.h > 100 /\ Bottom(source) <= Full
      /\ Natural(target) /\ target.h > 100 /\ Bottom(target) <= Full
  BY Sits, PlaceTypes DEF Tall
<1>2. PICK first, last \in Places(d) :
         /\ At(d, first, r, s, 1) /\ AtTop(first.box, row)
         /\ At(d, last, r, s, Len(NodesOf(d, r, s))) /\ AtBottom(last.box, row)
  BY SlotEnds
<1>3. InRow(target, row)
  BY InItsRow
<1> DEFINE f == first.box
           l == last.box
<1>4. /\ rail = 9900 => Bottom(source) < Bottom(l) /\ l.y < rail
      /\ rail = 100 => f.y < source.y /\ rail < Bottom(f)
  <2>1. AtTop(f, row) /\ AtBottom(l, row) /\ ~SharesBand(source, target) /\ Beside(rail, target)
    BY <1>2
  <2> HIDE DEF source, target, row, f, l
  <2> QED BY <1>1, <1>3, <2>1, EndIsBeyond
<1>5. /\ f.x = source.x /\ f.w = source.w /\ l.x = source.x /\ l.w = source.w
      /\ Natural(f) /\ Natural(l) /\ f.h > 100 /\ l.h > 100
  <2>1. f.x = source.x /\ f.w = source.w /\ l.x = source.x /\ l.w = source.w
    BY <1>2, NodesApartFrom
  <2> QED BY <1>2, <2>1 DEF AtTop, AtBottom
<1>6. source.y \in Nat /\ Bottom(source) \in Nat /\ Bottom(f) \in Nat /\ Bottom(l) \in Nat /\ f.y \in Nat /\ l.y \in Nat
  BY <1>1, <1>5, Edges
<1>7. \E box \in Others(d, p, q) : Beyond(box, source, rail)
  <2>0. rail \in {100, 9900}
    BY DEF Beside
  <2>1. CASE rail = 9900
    <3>1. last # p
      BY <1>4, <1>6, <2>1
    <3>2. last # q
      BY <1>2, OtherSlot
    <3>3. l \in Others(d, p, q)
      BY <1>2, <3>1, <3>2 DEF Others
    <3> HIDE DEF l, source
    <3>4. Beyond(l, source, rail)
      BY <1>4, <1>5, <2>1 DEF Beyond
    <3> QED BY <3>3, <3>4
  <2>2. CASE rail = 100
    <3>1. first # p
      BY <1>4, <1>6, <2>2
    <3>2. first # q
      BY <1>2, OtherSlot
    <3>3. f \in Others(d, p, q)
      BY <1>2, <3>1, <3>2 DEF Others
    <3> HIDE DEF f, source
    <3>4. Beyond(f, source, rail)
      BY <1>4, <1>5, <2>2 DEF Beyond
    <3> QED BY <3>3, <3>4
  <2> QED BY <2>0, <2>1, <2>2
<1>8. PICK box \in Others(d, p, q) : Beyond(box, source, rail)
  BY <1>7
<1>9. ~SharesBand(source, target) /\ Beside(rail, target)
  OBVIOUS
<1>10. Crosses(Detour(source, target, rail), Others(d, p, q))
  <2> HIDE DEF source, target
  <2> QED BY <1>1, <1>8, <1>9, LegIsCut
<1> QED BY <1>10

(* What cuts through a piece cuts through a longer one. *)
LEMMA LongerIsCut ==
  ASSUME NEW x, NEW a \in Int, NEW b \in Int, NEW from \in Int, NEW to \in Int, from <= a, a <= b, b <= to,
         NEW box, Natural(box), Overlap(Thick(Along(x, a, b)), box)
  PROVE  Overlap(Thick(Along(x, from, to)), box)
<1>1. Thick(Along(x, a, b)) = [x |-> x - Clearance, y |-> a, w |-> 2 * Clearance, h |-> b - a]
  <2>1. Larger(0, b - a) = b - a
    BY DEF Larger
  <2> QED BY <2>1 DEF Along, Thick
<1>2. Thick(Along(x, from, to)) = [x |-> x - Clearance, y |-> from, w |-> 2 * Clearance, h |-> to - from]
  <2>1. Larger(0, to - from) = to - from
    BY DEF Larger
  <2> QED BY <2>1 DEF Along, Thick
<1> DEFINE left == x - Clearance
           wide == 2 * Clearance
<1>3. left < Right(box) /\ box.x < left + wide /\ a < Bottom(box) /\ box.y < a + (b - a)
  BY <1>1 DEF Overlap, Right, Bottom
<1>4. Bottom(box) \in Nat /\ box.y \in Nat
  BY Edges
<1>5. from < Bottom(box) /\ box.y < from + (to - from)
  BY <1>3, <1>4
<1> HIDE DEF left, wide
<1>6. Overlap([x |-> left, y |-> from, w |-> wide, h |-> to - from], box)
  BY <1>3, <1>5 DEF Overlap, Right, Bottom
<1> QED BY <1>2, <1>6 DEF left, wide

(* In a column, what cuts through the line between two nodes cuts through the way around at the edge. *)
LEMMA BlockedInTheColumn ==
  ASSUME NEW source, Natural(source), source.h > 100, Bottom(source) <= Full,
         NEW target, Natural(target), target.h > 100, Bottom(target) <= Full,
         ~SharesBand(source, target), Aligned(source, target), NEW rail, Beside(rail, target),
         NEW boxes, \A box \in boxes : Natural(box), Crosses(Elbow(source, target), boxes)
  PROVE  Crosses(Detour(source, target, rail), boxes)
<1>1. /\ rail \in Int /\ rail \in {100, 9900} /\ target.y < rail /\ rail < Bottom(target)
      /\ rail = 9900 => Bottom(source) <= target.y /\ rail >= Bottom(source)
      /\ rail = 100 => Bottom(target) <= source.y /\ rail < source.y
  BY AwayFromRail DEF Beside
<1>2. /\ MidY(source) \in Nat /\ source.y <= MidY(source) /\ MidY(source) < Bottom(source) /\ source.y \in Nat
      /\ MidY(target) \in Nat /\ target.y <= MidY(target) /\ MidY(target) < Bottom(target) /\ target.y \in Nat
      /\ Bottom(source) \in Nat /\ Bottom(target) \in Nat /\ source.y < Bottom(source)
  <2>1. source.h > 0 /\ target.h > 0
    BY DEF Natural
  <2>2. source.y \in Nat /\ target.y \in Nat
    BY Edges
  <2>3. /\ MidY(source) \in Nat /\ source.y <= MidY(source) /\ MidY(source) < Bottom(source) /\ Bottom(source) \in Nat
        /\ MidY(target) \in Nat /\ target.y <= MidY(target) /\ MidY(target) < Bottom(target) /\ Bottom(target) \in Nat
    BY <2>1, Middles
  <2> QED BY <2>2, <2>3
<1> DEFINE x == MidX(source)
<1>3. 1 \in DOMAIN Detour(source, target, rail).segments /\ Detour(source, target, rail).segments[1] = Leg(source, rail)
  BY DetourPieces
<1>4. \E a, b \in Int : /\ Elbow(source, target).segments = <<Along(x, a, b)>> /\ a <= b
                        /\ rail = 9900 => a = Bottom(source) /\ b <= rail
                        /\ rail = 100 => rail <= a /\ b = source.y
  <2>1. CASE rail = 9900
    <3>1. MidY(source) <= MidY(target) /\ Bottom(source) <= target.y /\ target.y <= rail
      BY <1>1, <1>2, <2>1
    <3>2. Elbow(source, target).segments = <<Along(x, Bottom(source), target.y)>>
      BY <3>1 DEF Elbow, Course
    <3> QED BY <1>2, <2>1, <3>1, <3>2
  <2>2. CASE rail = 100
    <3>1. ~(MidY(source) <= MidY(target)) /\ Bottom(target) <= source.y /\ rail <= Bottom(target)
      BY <1>1, <1>2, <2>2
    <3>2. Elbow(source, target).segments = <<Along(x, Bottom(target), source.y)>>
      BY <3>1 DEF Elbow, Course
    <3> QED BY <1>2, <2>2, <3>1, <3>2
  <2> QED BY <1>1, <2>1, <2>2
<1>5. PICK a, b \in Int : /\ Elbow(source, target).segments = <<Along(x, a, b)>> /\ a <= b
                          /\ rail = 9900 => a = Bottom(source) /\ b <= rail
                          /\ rail = 100 => rail <= a /\ b = source.y
  BY <1>4
<1>6. PICK box \in boxes : Overlap(Thick(Along(x, a, b)), box)
  <2>1. PICK i \in DOMAIN Elbow(source, target).segments, box \in boxes : Overlap(Thick(Elbow(source, target).segments[i]), box)
    BY DEF Crosses
  <2>2. i = 1 /\ <<Along(x, a, b)>>[1] = Along(x, a, b)
    BY <1>5, <2>1
  <2>3. Overlap(Thick(Along(x, a, b)), box)
    BY <1>5, <2>1, <2>2
  <2> QED BY <2>3
<1> HIDE DEF x
<1>7. Overlap(Thick(Leg(source, rail)), box)
  <2>1. CASE rail = 9900
    <3>1. Leg(source, rail) = Along(x, a, rail)
      BY <1>1, <1>5, <2>1 DEF Leg, x
    <3>2. Overlap(Thick(Along(x, a, rail)), box)
      BY <1>1, <1>5, <1>6, <2>1, LongerIsCut
    <3> QED BY <3>1, <3>2
  <2>2. CASE rail = 100
    <3>1. ~(rail >= Bottom(source))
      BY <1>1, <1>2, <2>2
    <3>2. Leg(source, rail) = Along(x, rail, b)
      BY <1>5, <2>2, <3>1 DEF Leg, x
    <3>3. Overlap(Thick(Along(x, rail, b)), box)
      BY <1>1, <1>5, <1>6, <2>2, LongerIsCut
    <3> QED BY <3>2, <3>3
  <2> QED BY <1>1, <2>1, <2>2
<1> QED BY <1>3, <1>7, PieceCrosses

-----------------------------------------------------------------------------
(* The first course that is clear *)

(* The course taken is one of those tried and clear, or none of them is and it is the last resort. *)
LEMMA FirstClearIs ==
  ASSUME NEW S, NEW courses \in Seq(S), NEW others, NEW fallback
  PROVE  \/ \E i \in 1..Len(courses) : FirstClear(courses, others, fallback) = courses[i] /\ ~Crosses(courses[i], others)
         \/ FirstClear(courses, others, fallback) = fallback /\ \A i \in 1..Len(courses) : Crosses(courses[i], others)
<1> DEFINE clear == {i \in DOMAIN courses : ~Crosses(courses[i], others)}
<1>1. DOMAIN courses = 1..Len(courses) /\ Len(courses) \in Nat
  BY Elements
<1>2. CASE clear = {}
  BY <1>1, <1>2 DEF FirstClear
<1>3. CASE clear # {}
  <2>1. clear \in SUBSET Nat
    BY <1>1
  <2>2. PICK m \in clear : \A k \in clear : m <= k
    BY <1>3, <2>1, LeastNatural
  <2>3. Least(clear) \in clear
    <3> HIDE DEF clear
    <3> QED BY <2>2 DEF Least
  <2>4. FirstClear(courses, others, fallback) = courses[Least(clear)]
    BY <1>3 DEF FirstClear
  <2> QED BY <1>1, <2>3, <2>4
<1> QED BY <1>2, <1>3

-----------------------------------------------------------------------------
(* The course the code takes *)

(* A course goes from its source to its target, unless it cuts through another node. *)
Fits(course, source, target, others) == Reaches(course, source, target) \/ Crosses(course, others)

(* Rails and channels are numbers. *)
LEMMA RailsAndChannels ==
  /\ \A row : row[1] \in Nat /\ row[2] \in Nat => RailBelow(row) \in Int /\ RailAbove(row) \in Int
  /\ \A box : Natural(box) => RightChannel(box) \in Int /\ LeftChannel(box) \in Int
<1>1. ASSUME NEW row, row[1] \in Nat, row[2] \in Nat
      PROVE  RailBelow(row) \in Int /\ RailAbove(row) \in Int
  <2>1. RowGutter \div 2 = 300 /\ Full - 100 = 9900
    BY DEF RowGutter, Full
  <2> QED BY <1>1, <2>1 DEF RailBelow, RailAbove, Smaller, Larger
<1>2. ASSUME NEW box, Natural(box)
      PROVE  RightChannel(box) \in Int /\ LeftChannel(box) \in Int
  <2>1. Right(box) \in Nat /\ box.x \in Nat
    BY <1>2, Edges
  <2>2. ColGutter \div 2 = 200
    BY DEF ColGutter
  <2> QED BY <2>1, <2>2 DEF RightChannel, LeftChannel
<1> QED BY <1>1, <1>2

(* Two sequences joined: the first one comes first. *)
LEMMA Joined ==
  ASSUME NEW S, NEW c \in Seq(S), NEW d \in Seq(S), NEW all, all = c \o d
  PROVE  all \in Seq(S) /\ Len(all) = Len(c) + Len(d) /\ \A i \in 1..Len(c) : all[i] = c[i]
<1>1. all \in Seq(S) /\ Len(all) = Len(c) + Len(d)
  BY ConcatProperties
<1>2. \A i \in 1..(Len(c) + Len(d)) : all[i] = IF i <= Len(c) THEN c[i] ELSE d[i - Len(c)]
  BY ConcatProperties
<1>3. Len(c) \in Nat /\ Len(d) \in Nat
  OBVIOUS
<1>4. \A i \in 1..Len(c) : i \in 1..(Len(c) + Len(d)) /\ i <= Len(c)
  BY <1>3
<1> QED BY <1>1, <1>2, <1>4

(* Two courses and what is tried after them. *)
LEMMA TwoAndMore ==
  ASSUME NEW S, NEW a \in S, NEW b \in S, NEW c \in Seq(S), NEW d \in Seq(S), NEW all, all = <<a, b>> \o c \o d
  PROVE  all \in Seq(S) /\ 1 \in 1..Len(all) /\ 2 \in 1..Len(all) /\ all[1] = a /\ all[2] = b
<1> DEFINE two == <<a, b>>
           three == two \o c
<1>1. two \in Seq(S) /\ Len(two) = 2 /\ two[1] = a /\ two[2] = b
  OBVIOUS
<1>2. all = three \o d
  OBVIOUS
<1> HIDE DEF two
<1>3. three = two \o c
  OBVIOUS
<1> HIDE DEF three
<1>4. three \in Seq(S) /\ Len(three) = Len(two) + Len(c) /\ \A i \in 1..Len(two) : three[i] = two[i]
  <2>1. two \in Seq(S)
    BY <1>1
  <2> QED BY <1>3, <2>1, Joined
<1>5. all \in Seq(S) /\ Len(all) = Len(three) + Len(d) /\ \A i \in 1..Len(three) : all[i] = three[i]
  BY <1>2, <1>4, Joined
<1>6. Len(c) \in Nat /\ Len(d) \in Nat
  BY Elements
<1>7. 1 \in 1..Len(three) /\ 2 \in 1..Len(three)
  BY <1>1, <1>4, <1>6
<1>8. 1 \in 1..Len(all) /\ 2 \in 1..Len(all)
  BY <1>1, <1>4, <1>5, <1>6
<1>9. three[1] = a /\ three[2] = b
  BY <1>1, <1>4
<1> QED BY <1>5, <1>7, <1>8, <1>9

(* The way around fits if the ways below and above the row do, and is clear if one of these is. *)
LEMMA BestDetourFits ==
  ASSUME NEW source, Natural(source), NEW target, Natural(target), NEW row, row[1] \in Nat, row[2] \in Nat, NEW others,
         NEW below, below = Detour(source, target, RailBelow(row)),
         NEW above, above = Detour(source, target, RailAbove(row)),
         NEW around, around = BestDetour(source, target, row, others)
  PROVE  /\ Fits(below, source, target, others) /\ Fits(above, source, target, others) => Fits(around, source, target, others)
         /\ ~Crosses(below, others) \/ ~Crosses(above, others) => ~Crosses(around, others)
<1> DEFINE R == RightChannel(target)
           L == LeftChannel(target)
           ra == SideDetour(source, target, R, RailBelow(row))
           rb == SideDetour(source, target, R, RailAbove(row))
           la == SideDetour(source, target, L, RailBelow(row))
           lb == SideDetour(source, target, L, RailAbove(row))
           right == SideDetours(source, target, R, row)
           left == SideDetours(source, target, L, row)
           S == {below, above, ra, rb, la, lb}
           all == <<below, above>> \o right \o left
<1>1. around = FirstClear(all, others, below)
  BY DEF BestDetour
<1>2. right \in Seq(S) /\ left \in Seq(S)
  <2>1. right \in {<<>>, <<ra, rb>>} /\ left \in {<<>>, <<la, lb>>}
    BY DEF SideDetours
  <2> HIDE DEF ra, rb, la, lb, right, left
  <2>2. <<>> \in Seq(S) /\ <<ra, rb>> \in Seq(S) /\ <<la, lb>> \in Seq(S)
    OBVIOUS
  <2> QED BY <2>1, <2>2
<1>3. /\ Reaches(ra, source, target) /\ Reaches(rb, source, target)
      /\ Reaches(la, source, target) /\ Reaches(lb, source, target)
  BY RailsAndChannels, SideDetourReaches
<1> HIDE DEF ra, rb, la, lb, right, left
<1>4. below \in S /\ above \in S
  OBVIOUS
<1>5. all \in Seq(S) /\ 1 \in 1..Len(all) /\ 2 \in 1..Len(all) /\ all[1] = below /\ all[2] = above
  <2> HIDE DEF S
  <2> QED BY <1>2, <1>4, TwoAndMore
<1> HIDE DEF all
<1>6. \A i \in 1..Len(all) : all[i] \in S
  BY <1>5, Elements
<1>7. \/ \E i \in 1..Len(all) : around = all[i] /\ ~Crosses(all[i], others)
      \/ around = below /\ \A i \in 1..Len(all) : Crosses(all[i], others)
  <2> HIDE DEF S
  <2> QED BY <1>1, <1>5, FirstClearIs
<1>8. around \in S
  BY <1>4, <1>6, <1>7
<1>9. Fits(below, source, target, others) /\ Fits(above, source, target, others) => Fits(around, source, target, others)
  BY <1>3, <1>8 DEF Fits
<1> HIDE DEF S
<1>10. ~Crosses(below, others) \/ ~Crosses(above, others) => ~Crosses(around, others)
  BY <1>5, <1>7
<1> QED BY <1>9, <1>10

(* An element appended to what may be tried before it. *)
LEMMA AndAtLast ==
  ASSUME NEW S, NEW c \in Seq(S), NEW a \in S, NEW all, all = Append(c, a)
  PROVE  all \in Seq(S) /\ \E i \in 1..Len(all) : all[i] = a
<1>1. all \in Seq(S) /\ Len(all) = Len(c) + 1 /\ all[Len(c) + 1] = a /\ Len(c) \in Nat
  OBVIOUS
<1> QED BY <1>1

(* The ways out of a side lead to the target. *)
LEMMA SideExitsReach ==
  ASSUME NEW source, Natural(source), NEW target, Natural(target),
         NEW right, right = SideExit(source, target, RightChannel(source)),
         NEW left, left = SideExit(source, target, LeftChannel(source))
  PROVE  /\ SideExits(source, target) \in Seq({right, left})
         /\ Reaches(right, source, target) /\ Reaches(left, source, target)
<1> DEFINE S == {right, left}
           r == ExitBy(source, target, RightChannel(source))
           l == ExitBy(source, target, LeftChannel(source))
<1>1. r \in Seq(S) /\ l \in Seq(S)
  <2>1. r \in {<<>>, <<right>>} /\ l \in {<<>>, <<left>>}
    BY DEF ExitBy
  <2>2. <<>> \in Seq(S) /\ <<right>> \in Seq(S) /\ <<left>> \in Seq(S)
    OBVIOUS
  <2> QED BY <2>1, <2>2
<1>2. SideExits(source, target) \in {<<>>, r \o l, l \o r}
  BY DEF SideExits
<1>3. <<>> \in Seq(S) /\ r \o l \in Seq(S) /\ l \o r \in Seq(S)
  <2> HIDE DEF r, l, S
  <2> QED BY <1>1, ConcatProperties
<1>4. Reaches(right, source, target) /\ Reaches(left, source, target)
  BY RailsAndChannels, SideExitReaches
<1> QED BY <1>2, <1>3, <1>4

(* The course taken fits, if those tried in each case of the code do. *)
LEMMA RouteFits ==
  ASSUME NEW source, Natural(source), NEW target, Natural(target), NEW sameRow \in BOOLEAN, NEW row, NEW others,
         NEW around, around = BestDetour(source, target, row, others),
         NEW route, route = Route(source, target, sameRow, row, others),
         SharesBand(source, target) =>
           /\ Reaches(SameRow(source, target), source, target)
           /\ Crosses(SameRow(source, target), others) => Fits(around, source, target, others),
         ~SharesBand(source, target) /\ sameRow /\ ~Aligned(source, target) => Fits(around, source, target, others),
         ~SharesBand(source, target) /\ (~sameRow \/ Aligned(source, target)) =>
           /\ Reaches(Elbow(source, target), source, target)
           /\ Crosses(Elbow(source, target), others) => Fits(around, source, target, others)
  PROVE  Fits(route, source, target, others)
<1>1. CASE SharesBand(source, target)
  <2> DEFINE straight == SameRow(source, target)
             all == <<straight>>
  <2>1. route = FirstClear(all, others, around)
    BY <1>1 DEF Route
  <2>2. all \in Seq({straight}) /\ Len(all) = 1 /\ all[1] = straight /\ 1 \in 1..Len(all)
    OBVIOUS
  <2> HIDE DEF all
  <2>3. \/ \E i \in 1..Len(all) : route = all[i] /\ ~Crosses(all[i], others)
        \/ route = around /\ \A i \in 1..Len(all) : Crosses(all[i], others)
    BY <2>1, <2>2, FirstClearIs
  <2>4. route = straight \/ (route = around /\ Crosses(straight, others))
    BY <2>2, <2>3
  <2> QED BY <1>1, <2>4 DEF Fits
<1>2. CASE ~SharesBand(source, target) /\ sameRow /\ ~Aligned(source, target)
  <2>1. route = around
    BY <1>2 DEF Route
  <2> QED BY <1>2, <2>1
<1>3. CASE ~SharesBand(source, target) /\ (~sameRow \/ Aligned(source, target))
  <2> DEFINE elbow == Elbow(source, target)
             right == SideExit(source, target, RightChannel(source))
             left == SideExit(source, target, LeftChannel(source))
             S == {right, left, elbow}
             all == Append(SideExits(source, target), elbow)
  <2>1. route = FirstClear(all, others, around)
    BY <1>3 DEF Route
  <2>2. SideExits(source, target) \in Seq({right, left}) /\ Reaches(right, source, target) /\ Reaches(left, source, target)
    BY SideExitsReach
  <2> HIDE DEF right, left
  <2>3. SideExits(source, target) \in Seq(S)
    BY <2>2
  <2>4. all \in Seq(S) /\ \E i \in 1..Len(all) : all[i] = elbow
    <3> DEFINE exits == SideExits(source, target)
    <3>1. elbow \in S
      OBVIOUS
    <3> HIDE DEF S, exits
    <3> QED BY <2>3, <3>1, AndAtLast DEF exits
  <2> HIDE DEF all
  <2>5. \A i \in 1..Len(all) : all[i] \in S
    BY <2>4, Elements
  <2>6. \/ \E i \in 1..Len(all) : route = all[i] /\ ~Crosses(all[i], others)
        \/ route = around /\ \A i \in 1..Len(all) : Crosses(all[i], others)
    <3> HIDE DEF S
    <3> QED BY <2>1, <2>4, FirstClearIs
  <2>7. route \in S \/ (route = around /\ Crosses(elbow, others))
    BY <2>4, <2>5, <2>6
  <2> QED BY <1>3, <2>2, <2>7 DEF Fits
<1> QED BY <1>1, <1>2, <1>3

-----------------------------------------------------------------------------
(* Any two nodes *)

(* Boxes one above the other share no height. *)
LEMMA NoBand ==
  ASSUME NEW a, NEW b, Natural(a), Natural(b), NEW gap \in Nat, Bottom(a) + gap <= b.y \/ Bottom(b) + gap <= a.y
  PROVE  ~SharesBand(a, b)
<1> DEFINE A == Bottom(a)
           B == Bottom(b)
           x == a.y
           y == b.y
<1>1. A \in Nat /\ B \in Nat /\ x \in Nat /\ y \in Nat /\ x <= A /\ y <= B
  BY Edges
<1> HIDE DEF A, B, x, y
<1>2. A <= y \/ B <= x
  BY <1>1 DEF A, B, x, y
<1>3. ~(Smaller(A, B) > Larger(x, y))
  BY <1>1, <1>2 DEF Smaller, Larger
<1> QED BY <1>3 DEF SharesBand, A, B, x, y

(* Boxes of one column are aligned. *)
LEMMA ColumnIsAligned ==
  ASSUME NEW a, NEW b, Natural(a), Natural(b), a.x = b.x, a.w = b.w
  PROVE  Aligned(a, b)
<1>1. MidX(a) = MidX(b) /\ MidX(a) \in Int
  BY Middles DEF MidX
<1> QED BY <1>1, NoDistance DEF Aligned

(* A detour by a rail of the own row reaches a node, or the rail is at the edge and beside it. *)
LEMMA OwnRails ==
  ASSUME NEW source, Natural(source), NEW target, Natural(target), NEW row, InRow(target, row),
         NEW rail \in {RailBelow(row), RailAbove(row)}
  PROVE  Reaches(Detour(source, target, rail), source, target) \/ Beside(rail, target)
<1>1. /\ rail \in Int
      /\ rail <= target.y \/ rail >= Bottom(target) \/ rail = 9900 \/ rail = 100
  BY RailsOfOwnRow DEF InRow
<1>2. CASE rail <= target.y \/ rail >= Bottom(target)
  BY <1>1, <1>2, DetourReaches
<1>3. CASE ~(rail <= target.y \/ rail >= Bottom(target))
  <2>1. target.y \in Nat /\ Bottom(target) \in Nat
    BY Edges
  <2>2. target.y < rail /\ rail < Bottom(target)
    BY <1>1, <1>3, <2>1
  <2> QED BY <1>1, <1>3, <2>2 DEF Beside
<1> QED BY <1>2, <1>3

(* A detour between two nodes fits, where the code takes one. *)
LEMMA DetoursFit ==
  ASSUME NEW d \in Topology, Visible(d), Tall(d),
         NEW r \in 1..Len(d.rows), NEW s \in 1..Len(SlotsOf(d, r)), NEW n, NEW p, At(d, p, r, s, n),
         NEW t \in 1..Len(d.rows), NEW u \in 1..Len(SlotsOf(d, t)), NEW m, NEW q, At(d, q, t, u, m), p # q,
         NEW rail \in {RailBelow(RowGeometry(d)[r]), RailAbove(RowGeometry(d)[r])},
         SharesBand(p.box, q.box) => Crosses(SameRow(p.box, q.box), Others(d, p, q)),
         ~SharesBand(p.box, q.box) /\ Aligned(p.box, q.box) => Crosses(Elbow(p.box, q.box), Others(d, p, q)) \/ r # t
  PROVE  Fits(Detour(p.box, q.box, rail), p.box, q.box, Others(d, p, q))
<1> DEFINE source == p.box
           target == q.box
           row == RowGeometry(d)[r]
           others == Others(d, p, q)
<1>1. /\ Natural(source) /\ source.h > 100 /\ Bottom(source) <= Full /\ Natural(target) /\ target.h > 100 /\ Bottom(target) <= Full
      /\ \A box \in others : Natural(box)
  BY Sits, PlaceTypes DEF Tall, Others
<1>2. InRow(source, row) /\ InRow(target, RowGeometry(d)[t])
  BY InItsRow
<1>3. CASE r # t
  <2>1. row[1] + row[2] + RowGutter <= target.y \/ Bottom(target) + RowGutter <= row[1]
    <3>1. r < t \/ t < r
      BY <1>3, TopologyTypes
    <3>2. Cell(d, r, s).y = row[1] /\ Bottom(Cell(d, r, s)) = row[1] + row[2]
      BY InItsRow
    <3>3. Natural(Cell(d, r, s)) /\ Natural(Cell(d, t, u)) /\ Cell(d, t, u).y <= target.y /\ Bottom(target) <= Bottom(Cell(d, t, u))
      BY Sits
    <3>4. CASE r < t
      <4>1. Bottom(Cell(d, r, s)) + RowGutter <= Cell(d, t, u).y
        BY <3>4, Separated
      <4> DEFINE C == Cell(d, r, s)
                 D == Cell(d, t, u)
      <4> HIDE DEF C, D, target, row
      <4>2. Bottom(C) + RowGutter <= target.y
        <5>1. RowGutter \in Nat /\ Natural(C) /\ Natural(D) /\ Bottom(C) <= Bottom(C) /\ Bottom(C) + RowGutter <= D.y /\ D.y <= target.y
          BY <3>3, <4>1, Edges DEF RowGutter, C, D
        <5> QED BY <1>1, <5>1, FarAbove
      <4> QED BY <3>2, <4>2 DEF C
    <3>5. CASE t < r
      <4>1. Bottom(Cell(d, t, u)) + RowGutter <= Cell(d, r, s).y
        BY <3>5, Separated
      <4> DEFINE C == Cell(d, r, s)
                 D == Cell(d, t, u)
      <4> HIDE DEF C, D, target, row
      <4>2. Bottom(target) + RowGutter <= C.y
        <5>1. RowGutter \in Nat /\ Natural(C) /\ Natural(D) /\ Bottom(target) <= Bottom(D) /\ Bottom(D) + RowGutter <= C.y /\ C.y <= C.y
          BY <3>3, <4>1, Edges DEF RowGutter, C, D
        <5> QED BY <1>1, <5>1, FarAbove
      <4> QED BY <3>2, <4>2 DEF C
    <3> QED BY <3>1, <3>4, <3>5
  <2>2. rail \in Int /\ (rail <= target.y \/ rail >= Bottom(target))
    <3>1. row[1] \in Nat /\ row[2] \in Nat /\ row[1] + row[2] <= Full
      BY <1>2 DEF InRow
    <3>2. rail \in {RailBelow(row), RailAbove(row)}
      OBVIOUS
    <3> HIDE DEF row, target
    <3> QED BY <1>1, <2>1, <3>1, <3>2, RailsOfOtherRow
  <2>3. Reaches(Detour(source, target, rail), source, target)
    <3> HIDE DEF source, target
    <3> QED BY <1>1, <2>2, DetourReaches
  <2> QED BY <2>3 DEF Fits
<1>4. CASE r = t
  <2>1. Reaches(Detour(source, target, rail), source, target) \/ Beside(rail, target)
    <3>1. rail \in {RailBelow(row), RailAbove(row)} /\ InRow(target, row)
      BY <1>2, <1>4
    <3> HIDE DEF row, target, source
    <3> QED BY <1>1, <3>1, OwnRails
  <2>2. CASE Beside(rail, target)
    <3>1. CASE s # u /\ SharesBand(source, target)
      <4>1. Crosses(SameRow(source, target), others)
        BY <3>1
      <4>2. s \in Int /\ u \in Int
        BY TopologyTypes
      <4>3. CASE s < u
        <5>1. LeftToRight(s, u, p.box, q.box, s, u, p, q)
          BY <4>3 DEF LeftToRight
        <5> QED BY <1>4, <2>2, <3>1, <4>1, <5>1, BlockedInBetween DEF Fits
      <4>4. CASE u < s
        <5>1. LeftToRight(u, s, q.box, p.box, s, u, p, q)
          BY <4>4 DEF LeftToRight
        <5> QED BY <1>4, <2>2, <3>1, <4>1, <5>1, BlockedInBetween DEF Fits
      <4> QED BY <3>1, <4>2, <4>3, <4>4
    <3>2. CASE s # u /\ ~SharesBand(source, target)
      BY <1>4, <2>2, <3>2, BlockedAtTheLeg DEF Fits
    <3>3. CASE s = u
      <4>1. source.x = target.x /\ source.w = target.w
        BY <1>4, <3>3, NodesApartFrom
      <4>2. n \in Int /\ m \in Int
        <5>1. n \in 1..Len(NodesOf(d, r, s)) /\ m \in 1..Len(NodesOf(d, r, s))
          BY <1>4, <3>3, Positions
        <5> QED BY <5>1, TopologyTypes
      <4>3. n # m
        BY <1>4, <3>3, NodesApartFrom
      <4>4. Bottom(source) + NestedGutter <= target.y \/ Bottom(target) + NestedGutter <= source.y
        <5>1. CASE n < m
          BY <1>4, <3>3, <5>1, NodesApartFrom
        <5>2. CASE m < n
          BY <1>4, <3>3, <5>2, NodesApartFrom
        <5> QED BY <4>2, <4>3, <5>1, <5>2
      <4>5. ~SharesBand(source, target)
        <5>1. NestedGutter \in Nat
          BY DEF NestedGutter
        <5> HIDE DEF source, target
        <5> QED BY <1>1, <4>4, <5>1, NoBand
      <4>6. Aligned(source, target)
        BY <1>1, <4>1, ColumnIsAligned
      <4>7. Crosses(Elbow(source, target), others)
        BY <1>4, <4>5, <4>6
      <4>8. Crosses(Detour(source, target, rail), others)
        <5> HIDE DEF source, target, others
        <5> QED BY <1>1, <2>2, <4>5, <4>6, <4>7, BlockedInTheColumn
      <4> QED BY <4>8 DEF Fits
    <3> QED BY <3>1, <3>2, <3>3
  <2> QED BY <2>1, <2>2 DEF Fits
<1> QED BY <1>3, <1>4

(* The course of a connector between two nodes of a diagram nobody dragged. *)
PlainRoute(d, p, q) == Route(p.box, q.box, p.row = q.row, RowGeometry(d)[p.row + 1], Others(d, p, q))

(* Boxes side by side are not aligned. *)
LEMMA BesideIsNotAligned ==
  ASSUME NEW a, NEW b, Natural(a), Natural(b), Right(a) + ColGutter <= b.x \/ Right(b) + ColGutter <= a.x
  PROVE  ~Aligned(a, b)
<1> DEFINE x == MidX(a)
           y == MidX(b)
           A == Right(a)
           B == Right(b)
           l == a.x
           k == b.x
<1>1. x \in Nat /\ y \in Nat /\ l \in Nat /\ k \in Nat /\ A \in Nat /\ B \in Nat /\ l <= x /\ x <= A /\ k <= y /\ y <= B
  BY Middles, Edges
<1>2. A + 400 <= k \/ B + 400 <= l
  BY DEF ColGutter
<1> HIDE DEF x, y, A, B, l, k
<1>3. ~(Distance(x, y) < Tolerance)
  BY <1>1, <1>2 DEF Distance, Tolerance
<1> QED BY <1>3 DEF Aligned, x, y

(* A gap leaves room. *)
LEMMA GapIsRoom ==
  ASSUME NEW a, NEW b, Natural(a), Natural(b), NEW gap \in Nat, gap > 0
  PROVE  /\ Bottom(a) + gap <= b.y => Bottom(a) < b.y
         /\ Right(a) + gap <= b.x => Right(a) < b.x
BY DEF Natural, Bottom, Right

(* How two nodes stand to each other. *)
LEMMA TwoNodes ==
  ASSUME NEW d \in Topology, Visible(d),
         NEW r \in 1..Len(d.rows), NEW s \in 1..Len(SlotsOf(d, r)), NEW n, NEW p, At(d, p, r, s, n),
         NEW t \in 1..Len(d.rows), NEW u \in 1..Len(SlotsOf(d, t)), NEW m, NEW q, At(d, q, t, u, m), p # q
  PROVE  \/ /\ r = t /\ s # u /\ ~Aligned(p.box, q.box)
            /\ Right(p.box) < q.box.x \/ Right(q.box) < p.box.x
         \/ /\ r # t \/ s = u
            /\ ~SharesBand(p.box, q.box)
            /\ Bottom(p.box) < q.box.y \/ Bottom(q.box) < p.box.y
<1> DEFINE a == p.box
           b == q.box
<1>1. Natural(a) /\ Natural(b) /\ r \in Int /\ t \in Int /\ s \in Int
  <2>1. Natural(a) /\ Natural(b)
    BY Sits
  <2>2. r \in Int /\ t \in Int /\ s \in Int
    BY TopologyTypes
  <2> QED BY <2>1, <2>2
<1>2. RowGutter \in Nat /\ RowGutter > 0 /\ NestedGutter \in Nat /\ NestedGutter > 0 /\ ColGutter \in Nat /\ ColGutter > 0
  BY DEF RowGutter, NestedGutter, ColGutter
<1>3. CASE r = t /\ s # u
  <2>1. u \in Int
    BY <1>3, TopologyTypes
  <2>2. Right(a) + ColGutter <= b.x \/ Right(b) + ColGutter <= a.x
    <3>1. CASE s < u
      BY <1>3, <3>1, NodesApartFrom
    <3>2. CASE u < s
      BY <1>3, <3>2, NodesApartFrom
    <3> QED BY <1>1, <1>3, <2>1, <3>1, <3>2
  <2> HIDE DEF a, b
  <2>3. ~Aligned(a, b) /\ (Right(a) < b.x \/ Right(b) < a.x)
    BY <1>1, <1>2, <2>2, BesideIsNotAligned, GapIsRoom
  <2> QED BY <1>3, <2>3 DEF a, b
<1>4. CASE r # t \/ s = u
  <2>1. \E gap \in Nat : gap > 0 /\ (Bottom(a) + gap <= b.y \/ Bottom(b) + gap <= a.y)
    <3>1. CASE r < t
      <4>1. Bottom(a) + RowGutter <= b.y
        BY <3>1, NodesApartFrom
      <4> QED BY <1>2, <4>1
    <3>2. CASE t < r
      <4>1. Bottom(b) + RowGutter <= a.y
        BY <3>2, NodesApartFrom
      <4> QED BY <1>2, <4>1
    <3>3. CASE r = t
      <4>1. s = u
        BY <1>4, <3>3
      <4>2. n \in Int /\ m \in Int
        <5>1. n \in 1..Len(NodesOf(d, r, s)) /\ m \in 1..Len(NodesOf(d, r, s))
          BY <3>3, <4>1, Positions
        <5> QED BY <5>1, TopologyTypes
      <4>3. n # m
        BY <3>3, <4>1, NodesApartFrom
      <4>4. Bottom(a) + NestedGutter <= b.y \/ Bottom(b) + NestedGutter <= a.y
        <5>1. CASE n < m
          BY <3>3, <4>1, <5>1, NodesApartFrom
        <5>2. CASE m < n
          BY <3>3, <4>1, <5>2, NodesApartFrom
        <5> QED BY <4>2, <4>3, <5>1, <5>2
      <4> QED BY <1>2, <4>4
    <3> QED BY <1>1, <3>1, <3>2, <3>3
  <2>2. PICK gap \in Nat : gap > 0 /\ (Bottom(a) + gap <= b.y \/ Bottom(b) + gap <= a.y)
    BY <2>1
  <2> HIDE DEF a, b
  <2>3. ~SharesBand(a, b)
    BY <1>1, <2>2, NoBand
  <2>4. Bottom(a) < b.y \/ Bottom(b) < a.y
    BY <1>1, <2>2, GapIsRoom
  <2> QED BY <1>4, <2>3, <2>4 DEF a, b
<1> QED BY <1>3, <1>4

(* Every connector fits: it goes from its source to its target, unless it cuts through another node. *)
LEMMA PlainRouteFits ==
  ASSUME NEW d \in Topology, Visible(d), Tall(d), NEW p \in Places(d), NEW q \in Places(d), p # q
  PROVE  Fits(PlainRoute(d, p, q), p.box, q.box, Others(d, p, q))
<1>1. PICK r \in 1..Len(d.rows) : \E s \in 1..Len(SlotsOf(d, r)) : \E n \in 1..Len(NodesOf(d, r, s)) : At(d, p, r, s, n)
  BY Placed
<1>2. PICK s \in 1..Len(SlotsOf(d, r)) : \E n \in 1..Len(NodesOf(d, r, s)) : At(d, p, r, s, n)
  BY <1>1
<1>3. PICK n \in 1..Len(NodesOf(d, r, s)) : At(d, p, r, s, n)
  BY <1>2
<1>4. PICK t \in 1..Len(d.rows) : \E u \in 1..Len(SlotsOf(d, t)) : \E m \in 1..Len(NodesOf(d, t, u)) : At(d, q, t, u, m)
  BY Placed
<1>5. PICK u \in 1..Len(SlotsOf(d, t)) : \E m \in 1..Len(NodesOf(d, t, u)) : At(d, q, t, u, m)
  BY <1>4
<1>6. PICK m \in 1..Len(NodesOf(d, t, u)) : At(d, q, t, u, m)
  BY <1>5
<1> DEFINE a == p.box
           b == q.box
           row == RowGeometry(d)[r]
           others == Others(d, p, q)
           sameRow == p.row = q.row
           around == BestDetour(a, b, row, others)
           below == Detour(a, b, RailBelow(row))
           above == Detour(a, b, RailAbove(row))
<1>7. /\ Natural(a) /\ a.w > 0 /\ a.h > 0 /\ Natural(b) /\ b.w > 0 /\ b.h > 0
      /\ row[1] \in Nat /\ row[2] \in Nat
  <2>1. Natural(a) /\ a.w > 0 /\ a.h > 0
    BY <1>3, Sits
  <2>2. Natural(b) /\ b.w > 0 /\ b.h > 0
    BY <1>6, Sits
  <2>3. row[1] \in Nat /\ row[2] \in Nat
    BY RowShares
  <2> QED BY <2>1, <2>2, <2>3
<1>8. (sameRow <=> r = t) /\ p.row + 1 = r
  <2>1. p.row = r - 1 /\ q.row = t - 1
    <3>1. p.row = r - 1
      BY <1>3, Sits
    <3>2. q.row = t - 1
      BY <1>6, Sits
    <3> QED BY <3>1, <3>2
  <2>2. r \in Int /\ t \in Int
    BY TopologyTypes
  <2> QED BY <2>1, <2>2
<1>9. ASSUME SharesBand(a, b) => Crosses(SameRow(a, b), others),
             ~SharesBand(a, b) /\ Aligned(a, b) => Crosses(Elbow(a, b), others) \/ r # t
      PROVE  Fits(around, a, b, others)
  <2>1. Fits(below, a, b, others)
    BY <1>3, <1>6, <1>9, DetoursFit
  <2>2. Fits(above, a, b, others)
    BY <1>3, <1>6, <1>9, DetoursFit
  <2> HIDE DEF a, b, row, others
  <2> QED BY <1>7, <2>1, <2>2, BestDetourFits
<1>10. \/ /\ r = t /\ s # u /\ ~Aligned(a, b)
          /\ Right(a) < b.x \/ Right(b) < a.x
       \/ /\ r # t \/ s = u
          /\ ~SharesBand(a, b)
          /\ Bottom(a) < b.y \/ Bottom(b) < a.y
  BY <1>3, <1>6, TwoNodes
<1> HIDE DEF a, b, row, others, around
<1>11. SharesBand(a, b) => /\ Reaches(SameRow(a, b), a, b)
                           /\ Crosses(SameRow(a, b), others) => Fits(around, a, b, others)
  BY <1>7, <1>9, <1>10, SameRowReaches
<1>12. ~SharesBand(a, b) /\ sameRow /\ ~Aligned(a, b) => Fits(around, a, b, others)
  BY <1>9
<1>13. ~SharesBand(a, b) /\ (~sameRow \/ Aligned(a, b)) =>
         /\ Reaches(Elbow(a, b), a, b)
         /\ Crosses(Elbow(a, b), others) => Fits(around, a, b, others)
  <2>1. ASSUME ~sameRow \/ Aligned(a, b)
        PROVE  Bottom(a) < b.y \/ Bottom(b) < a.y
    BY <1>8, <1>10, <2>1
  <2> HIDE DEF sameRow
  <2>2. ASSUME ~sameRow \/ Aligned(a, b)
        PROVE  Reaches(Elbow(a, b), a, b)
    BY <1>7, <2>1, <2>2, ElbowReaches
  <2> QED BY <1>9, <2>2
<1>14. PlainRoute(d, p, q) = Route(a, b, sameRow, row, others)
  BY <1>8 DEF PlainRoute, a, b, row, others
<1>15. sameRow \in BOOLEAN
  OBVIOUS
<1>16. around = BestDetour(a, b, row, others)
  BY DEF around
<1> HIDE DEF sameRow
<1>17. Fits(PlainRoute(d, p, q), a, b, others)
  BY <1>7, <1>11, <1>12, <1>13, <1>14, <1>15, <1>16, RouteFits
<1> QED BY <1>17 DEF a, b, others

-----------------------------------------------------------------------------
(* Rows without columns: a connector that skips no row cuts through nothing *)

(* Boxes that leave the heights from one to another free, and a piece within these. *)
Leaves(boxes, from, to) == \A box \in boxes : Natural(box) /\ (Bottom(box) <= from \/ to <= box.y)
Within(piece, from, to) ==
  /\ Thick(piece).y \in Int /\ Thick(piece).h \in Int
  /\ from <= Thick(piece).y /\ Thick(piece).y + Thick(piece).h <= to

(* A course whose pieces are all within these heights cuts through none of the boxes. *)
LEMMA ClearBetween ==
  ASSUME NEW from \in Int, NEW to \in Int, NEW boxes, Leaves(boxes, from, to),
         NEW course, \A i \in DOMAIN course.segments : Within(course.segments[i], from, to)
  PROVE  ~Crosses(course, boxes)
<1> SUFFICES ASSUME NEW i \in DOMAIN course.segments, NEW box \in boxes, Overlap(Thick(course.segments[i]), box)
             PROVE  FALSE
  BY DEF Crosses
<1> DEFINE t == Thick(course.segments[i])
           b == Bottom(box)
           y == box.y
<1>1. t.y \in Int /\ t.h \in Int /\ from <= t.y /\ t.y + t.h <= to
  BY DEF Within
<1>2. b \in Nat /\ y \in Nat /\ (b <= from \/ to <= y)
  BY Edges DEF Leaves
<1>3. t.y < b /\ y < t.y + t.h
  BY DEF Overlap, Bottom
<1> HIDE DEF t, b, y
<1> QED BY <1>1, <1>2, <1>3

(* A piece down or up is within the heights of its ends. *)
LEMMA AlongIsWithin ==
  ASSUME NEW x, NEW a \in Int, NEW b \in Int, NEW from \in Int, NEW to \in Int, from <= a, a <= b, b <= to
  PROVE  Within(Along(x, a, b), from, to)
<1>1. Larger(0, b - a) = b - a
  BY DEF Larger
<1>2. Thick(Along(x, a, b)) = [x |-> x - Clearance, y |-> a, w |-> 2 * Clearance, h |-> b - a]
  BY <1>1 DEF Along, Thick
<1>3. Thick(Along(x, a, b)).y = a /\ Thick(Along(x, a, b)).h = b - a
  BY <1>2
<1>4. a + (b - a) <= to
  OBVIOUS
<1> QED BY <1>3, <1>4 DEF Within

(* A piece across is within a clearance above and below it. *)
LEMMA AcrossIsWithin ==
  ASSUME NEW a, NEW b, NEW y \in Int, NEW from \in Int, NEW to \in Int, from + 50 <= y, y + 50 <= to
  PROVE  Within(Across(a, b, y), from, to)
<1>1. Thick(Across(a, b, y)).y = y - 50 /\ Thick(Across(a, b, y)).h = 100
  <2>1. y - Clearance = y - 50 /\ 2 * Clearance = 100
    BY DEF Clearance
  <2> QED BY <2>1 DEF Across, Thick
<1>2. from <= y - 50 /\ (y - 50) + 100 <= to /\ y - 50 \in Int
  OBVIOUS
<1> QED BY <1>1, <1>2 DEF Within

(* The way under two boxes that end together, in the gap below them. *)
LEMMA BelowIsClear ==
  ASSUME NEW from \in Int, NEW to \in Int, NEW boxes, Leaves(boxes, from, to), from + 600 <= to,
         NEW a, Natural(a), Bottom(a) = from, NEW b, Natural(b), Bottom(b) = from, NEW rail, rail = from + 300
  PROVE  ~Crosses(Detour(a, b, rail), boxes)
<1> DEFINE segments == Detour(a, b, rail).segments
<1>1. /\ DOMAIN segments = 1..3 /\ segments[1] = Leg(a, rail)
      /\ segments[2] = Across(MidX(a), MidX(b), rail) /\ segments[3] = Leg(b, rail)
  BY DetourPieces
<1>2. Leg(a, rail) = Along(MidX(a), from, rail) /\ Leg(b, rail) = Along(MidX(b), from, rail)
  BY DEF Leg
<1>3. rail \in Int /\ from <= rail /\ rail <= to /\ from + 50 <= rail /\ rail + 50 <= to
  OBVIOUS
<1>4. Within(Leg(a, rail), from, to) /\ Within(Leg(b, rail), from, to)
  BY <1>2, <1>3, AlongIsWithin
<1>5. Within(Across(MidX(a), MidX(b), rail), from, to)
  BY <1>3, AcrossIsWithin
<1>6. \A i \in DOMAIN segments : Within(segments[i], from, to)
  BY <1>1, <1>4, <1>5
<1> QED BY <1>6, ClearBetween

(* The way over two boxes that begin together. *)
LEMMA AboveIsClear ==
  ASSUME NEW from \in Int, NEW to \in Int, NEW boxes, Leaves(boxes, from, to), from + 600 <= to,
         NEW a, Natural(a), a.y = to, NEW b, Natural(b), b.y = to, NEW rail, rail = to - 300
  PROVE  ~Crosses(Detour(a, b, rail), boxes)
<1> DEFINE segments == Detour(a, b, rail).segments
<1>1. /\ DOMAIN segments = 1..3 /\ segments[1] = Leg(a, rail)
      /\ segments[2] = Across(MidX(a), MidX(b), rail) /\ segments[3] = Leg(b, rail)
  BY DetourPieces
<1>2. Leg(a, rail) = Along(MidX(a), rail, to) /\ Leg(b, rail) = Along(MidX(b), rail, to)
  <2>1. Bottom(a) \in Nat /\ Bottom(b) \in Nat /\ to <= Bottom(a) /\ to <= Bottom(b)
    BY Edges
  <2>2. ~(rail >= Bottom(a)) /\ ~(rail >= Bottom(b))
    BY <2>1
  <2> QED BY <2>2 DEF Leg
<1>3. rail \in Int /\ from <= rail /\ rail <= to /\ from + 50 <= rail /\ rail + 50 <= to
  OBVIOUS
<1>4. Within(Leg(a, rail), from, to) /\ Within(Leg(b, rail), from, to)
  BY <1>2, <1>3, AlongIsWithin
<1>5. Within(Across(MidX(a), MidX(b), rail), from, to)
  BY <1>3, AcrossIsWithin
<1>6. \A i \in DOMAIN segments : Within(segments[i], from, to)
  BY <1>1, <1>4, <1>5
<1> QED BY <1>6, ClearBetween

(* In the gap between a box and one below it. *)
LEMMA ElbowIsClear ==
  ASSUME NEW from \in Int, NEW to \in Int, NEW boxes, Leaves(boxes, from, to), from + 600 <= to,
         NEW a, Natural(a), a.h > 0, NEW b, Natural(b), b.h > 0,
         (Bottom(a) = from /\ b.y = to) \/ (Bottom(b) = from /\ a.y = to)
  PROVE  ~Crosses(Elbow(a, b), boxes)
<1> DEFINE rail == (from + to) \div 2
           rung == Across(MidX(a), MidX(b), rail)
<1>1. /\ MidY(a) \in Nat /\ MidY(b) \in Nat /\ a.y <= MidY(a) /\ b.y <= MidY(b) /\ MidY(a) < Bottom(a) /\ MidY(b) < Bottom(b)
      /\ a.y \in Nat /\ b.y \in Nat /\ Bottom(a) \in Nat /\ Bottom(b) \in Nat
  BY Middles, Edges
<1>2. rail \in Int /\ from <= rail /\ rail <= to /\ from + 50 <= rail /\ rail + 50 <= to
  OBVIOUS
<1> HIDE DEF rail
<1>3. Within(rung, from, to)
  BY <1>2, AcrossIsWithin
<1>4. \A x : /\ Within(Along(x, from, rail), from, to)
             /\ Within(Along(x, rail, to), from, to)
             /\ Within(Along(x, from, to), from, to)
  BY <1>2, AlongIsWithin
<1>5. \E x, y : Elbow(a, b).segments \in {<<Along(x, from, to)>>, <<Along(x, from, rail), rung, Along(y, rail, to)>>,
                                          <<Along(y, rail, to), rung, Along(x, from, rail)>>}
  <2>1. CASE Bottom(a) = from /\ b.y = to
    <3>1. MidY(a) <= MidY(b)
      BY <1>1, <2>1
    <3> QED BY <2>1, <3>1 DEF Elbow, Course, rail
  <2>2. CASE Bottom(b) = from /\ a.y = to
    <3>1. ~(MidY(a) <= MidY(b))
      BY <1>1, <2>2
    <3> QED BY <2>2, <3>1 DEF Elbow, Course, rail
  <2> QED BY <2>1, <2>2
<1>6. PICK x, y : Elbow(a, b).segments \in {<<Along(x, from, to)>>, <<Along(x, from, rail), rung, Along(y, rail, to)>>,
                                            <<Along(y, rail, to), rung, Along(x, from, rail)>>}
  BY <1>5
<1> DEFINE upper == Along(x, from, rail)
           lower == Along(y, rail, to)
           whole == Along(x, from, to)
<1>7. Within(upper, from, to) /\ Within(lower, from, to) /\ Within(whole, from, to)
  BY <1>4
<1> HIDE DEF rung, upper, lower, whole
<1>8. \A i \in DOMAIN Elbow(a, b).segments : Within(Elbow(a, b).segments[i], from, to)
  <2>1. Elbow(a, b).segments \in {<<whole>>, <<upper, rung, lower>>, <<lower, rung, upper>>}
    BY <1>6 DEF whole, upper, rung, lower
  <2> DEFINE e == Elbow(a, b).segments
  <2> HIDE DEF e
  <2>2. \A i \in DOMAIN e : e[i] \in {whole, upper, rung, lower}
    BY <2>1 DEF e
  <2> QED BY <1>3, <1>7, <2>2 DEF e
<1> QED BY <1>8, ClearBetween

(* A node outside columns is as tall as its row. *)
LEMMA FillsRow ==
  ASSUME NEW d \in Topology, Visible(d), NEW r \in 1..Len(d.rows), NEW s \in 1..Len(SlotsOf(d, r)), NEW n, NEW p, At(d, p, r, s, n),
         p.column = Unset
  PROVE  p.box.y = RowGeometry(d)[r][1] /\ Bottom(p.box) = RowGeometry(d)[r][1] + RowGeometry(d)[r][2]
<1>1. Cell(d, r, s) \in Boxes /\ (InColumn(d, r, s) => p.column = Cell(d, r, s)) /\ (~InColumn(d, r, s) => p.box = Cell(d, r, s))
  BY Sits
<1>2. Unset \notin Boxes
  BY LayoutAssumption
<1>3. p.box = Cell(d, r, s)
  BY <1>1, <1>2
<1>4. Cell(d, r, s).y = RowGeometry(d)[r][1] /\ Bottom(Cell(d, r, s)) = RowGeometry(d)[r][1] + RowGeometry(d)[r][2]
  BY InItsRow
<1> QED BY <1>3, <1>4

(* The height at which a row begins, and the one at which it ends. *)
RowTop(d, r) == RowGeometry(d)[r][1]
RowEnd(d, r) == RowGeometry(d)[r][1] + RowGeometry(d)[r][2]

(* Between two rows there is a gap with no node in it. *)
LEMMA GapIsFree ==
  ASSUME NEW d \in Topology, Visible(d), NEW r \in 1..Len(d.rows), NEW t \in 1..Len(d.rows), t = r + 1, NEW p \in Places(d), NEW q,
         NEW from, from = RowEnd(d, r), NEW to, to = RowTop(d, t)
  PROVE  from \in Nat /\ to \in Nat /\ from + 600 <= to /\ to <= 10000 /\ Leaves(Others(d, p, q), from, to)
<1>0. from = RowGeometry(d)[r][1] + RowGeometry(d)[r][2] /\ to = RowGeometry(d)[t][1]
  BY DEF RowTop, RowEnd
<1> DEFINE row == RowGeometry(d)[r]
           next == RowGeometry(d)[t]
<1>a. row[1] \in Nat /\ row[2] \in Nat /\ next[1] \in Nat /\ next[2] \in Nat
  BY RowShares
<1>b. Len(d.rows) \in Nat
  BY TopologyTypes
<1>c. r \in Int /\ t \in Int /\ r < t
  BY <1>b
<1>1. row[1] \in Nat /\ row[2] \in Nat /\ next[1] \in Nat /\ next[2] \in Nat /\ r \in Int /\ t \in Int /\ r < t
  BY <1>a, <1>c
<1>2. row[1] + row[2] + 600 <= next[1]
  BY <1>1, RowShares DEF RowGutter
<1>3. next[1] + next[2] <= 10000
  <2>1. PICK w \in 1..Len(d.rows) : \E s \in 1..Len(SlotsOf(d, w)) : \E n \in 1..Len(NodesOf(d, w, s)) : At(d, p, w, s, n)
    BY Placed
  <2>2. PICK s \in 1..Len(SlotsOf(d, w)) : \E n \in 1..Len(NodesOf(d, w, s)) : At(d, p, w, s, n)
    BY <2>1
  <2>3. PICK n \in 1..Len(NodesOf(d, w, s)) : At(d, p, w, s, n)
    BY <2>2
  <2>4. InRow(p.box, RowGeometry(d)[w]) /\ Natural(p.box) /\ p.box.h > 0
    <3>1. InRow(p.box, RowGeometry(d)[w])
      BY <2>3, InItsRow
    <3>2. Natural(p.box) /\ p.box.h > 0
      BY <2>3, Sits
    <3> QED BY <3>1, <3>2
  <2> DEFINE start == RowGeometry(d)[w][1]
             size == RowGeometry(d)[w][2]
             y == p.box.y
             h == p.box.h
  <2>5. start \in Nat /\ size \in Nat /\ y \in Nat /\ h \in Nat /\ h > 0 /\ start <= y /\ y + h <= start + size
    BY <2>4 DEF InRow, Natural, Bottom
  <2>6. size > 0
    <3> HIDE DEF start, size, y, h
    <3> QED BY <2>5
  <2>7. \A v \in 1..Len(d.rows) : RowGeometry(d)[v][1] + RowGeometry(d)[v][2] <= Full
    BY <2>6, RowShares
  <2>8. next[1] + next[2] <= Full
    BY <2>7
  <2> QED BY <2>8 DEF Full
<1>4. ASSUME NEW o \in Places(d)
      PROVE  Natural(o.box) /\ (Bottom(o.box) <= from \/ to <= o.box.y)
  <2>1. PICK w \in 1..Len(d.rows) : \E s \in 1..Len(SlotsOf(d, w)) : \E n \in 1..Len(NodesOf(d, w, s)) : At(d, o, w, s, n)
    BY Placed
  <2>2. PICK s \in 1..Len(SlotsOf(d, w)) : \E n \in 1..Len(NodesOf(d, w, s)) : At(d, o, w, s, n)
    BY <2>1
  <2>3. PICK n \in 1..Len(NodesOf(d, w, s)) : At(d, o, w, s, n)
    BY <2>2
  <2> DEFINE that == RowGeometry(d)[w]
             y == o.box.y
             b == Bottom(o.box)
             start == that[1]
             size == that[2]
  <2>4. Natural(o.box)
    BY <2>3, Sits
  <2>5. start \in Nat /\ size \in Nat /\ start <= y /\ b <= start + size
    BY <2>3, InItsRow DEF InRow
  <2>6. y \in Nat /\ b \in Nat
    BY <2>4, Edges
  <2>7. w \in Int /\ (w < r \/ w = r \/ w = t \/ t < w)
    <3>1. w \in Int
      BY TopologyTypes
    <3> QED BY <1>1, <3>1
  <2>8. w < r => start + size + 600 <= row[1]
    BY RowShares DEF RowGutter
  <2>9. t < w => next[1] + next[2] + 600 <= start
    BY RowShares DEF RowGutter
  <2>10. (w = r => start = row[1] /\ size = row[2]) /\ (w = t => start = next[1])
    OBVIOUS
  <2>11. from = row[1] + row[2] /\ to = next[1]
    BY <1>0
  <2> HIDE DEF that, start, size, y, b, row, next
  <2>12. CASE w < r
    <3> DEFINE end == row[1] + row[2]
    <3>1. row[1] <= end /\ end \in Nat /\ from = end
      BY <1>1, <2>11
    <3>2. start + size + 600 <= row[1] /\ row[1] \in Nat
      BY <1>1, <2>8, <2>12
    <3> HIDE DEF end
    <3>3. b <= end
      BY <2>5, <2>6, <3>1, <3>2
    <3> QED BY <2>4, <3>1, <3>3 DEF b
  <2>13. CASE w = r
    <3>1. b <= from
      BY <1>1, <2>5, <2>6, <2>10, <2>11, <2>13
    <3> QED BY <2>4, <3>1 DEF b
  <2>14. CASE w = t
    <3>1. to <= y
      BY <1>1, <2>5, <2>6, <2>10, <2>11, <2>14
    <3> QED BY <2>4, <3>1 DEF y
  <2>15. CASE t < w
    <3>1. to <= y
      BY <1>1, <2>5, <2>6, <2>9, <2>11, <2>15
    <3> QED BY <2>4, <3>1 DEF y
  <2> QED BY <2>7, <2>12, <2>13, <2>14, <2>15
<1>5. Leaves(Others(d, p, q), from, to)
  BY <1>4 DEF Leaves, Others
<1>6. from = row[1] + row[2] /\ to = next[1]
  BY <1>0
<1> HIDE DEF row, next
<1>7. from \in Nat /\ to \in Nat /\ from + 600 <= to /\ to <= 10000
  <2> DEFINE A == row[1]
             B == row[2]
             C == next[1]
             D == next[2]
  <2>1. A \in Nat /\ B \in Nat /\ C \in Nat /\ D \in Nat /\ A + B + 600 <= C /\ C + D <= 10000
    BY <1>1, <1>2, <1>3
  <2>2. from = A + B /\ to = C
    BY <1>6
  <2> HIDE DEF A, B, C, D
  <2>3. A + B \in Nat /\ C <= 10000
    BY <2>1
  <2> QED BY <2>1, <2>2, <2>3
<1> QED BY <1>5, <1>7

(* A course is clear if one of those tried is. *)
LEMMA ClearRoute ==
  ASSUME NEW source, Natural(source), NEW target, Natural(target), NEW sameRow \in BOOLEAN, NEW row, NEW others,
         NEW around, around = BestDetour(source, target, row, others),
         NEW route, route = Route(source, target, sameRow, row, others)
  PROVE  /\ SharesBand(source, target) /\ ~Crosses(around, others) => ~Crosses(route, others)
         /\ ~SharesBand(source, target) /\ ~sameRow /\ ~Crosses(Elbow(source, target), others) => ~Crosses(route, others)
<1>1. ASSUME SharesBand(source, target), ~Crosses(around, others)
      PROVE  ~Crosses(route, others)
  <2> DEFINE straight == SameRow(source, target)
             all == <<straight>>
  <2>1. route = FirstClear(all, others, around)
    BY <1>1 DEF Route
  <2>2. all \in Seq({straight})
    OBVIOUS
  <2> HIDE DEF all
  <2>3. \/ \E i \in 1..Len(all) : route = all[i] /\ ~Crosses(all[i], others)
        \/ route = around /\ \A i \in 1..Len(all) : Crosses(all[i], others)
    BY <2>1, <2>2, FirstClearIs
  <2> QED BY <1>1, <2>3
<1>2. ASSUME ~SharesBand(source, target), ~sameRow, ~Crosses(Elbow(source, target), others)
      PROVE  ~Crosses(route, others)
  <2> DEFINE elbow == Elbow(source, target)
             right == SideExit(source, target, RightChannel(source))
             left == SideExit(source, target, LeftChannel(source))
             S == {right, left, elbow}
             exits == SideExits(source, target)
             all == Append(exits, elbow)
  <2>1. route = FirstClear(all, others, around)
    BY <1>2 DEF Route
  <2>2. exits \in Seq({right, left})
    BY SideExitsReach
  <2> HIDE DEF right, left
  <2>3. exits \in Seq(S) /\ elbow \in S
    BY <2>2
  <2>4. all \in Seq(S) /\ \E i \in 1..Len(all) : all[i] = elbow
    <3> HIDE DEF S, exits
    <3> QED BY <2>3, AndAtLast
  <2> HIDE DEF all
  <2>5. \/ \E i \in 1..Len(all) : route = all[i] /\ ~Crosses(all[i], others)
        \/ route = around /\ \A i \in 1..Len(all) : Crosses(all[i], others)
    <3> HIDE DEF S
    <3> QED BY <2>1, <2>4, FirstClearIs
  <2> QED BY <1>2, <2>4, <2>5
<1> QED BY <1>1, <1>2

(* Boxes of the same height share it. *)
LEMMA SameHeightsShare ==
  ASSUME NEW a, NEW b, Natural(a), Natural(b), a.h > 0, a.y = b.y, Bottom(a) = Bottom(b)
  PROVE  SharesBand(a, b)
<1> DEFINE B == Bottom(a)
           y == a.y
<1>1. B \in Nat /\ y \in Nat /\ y < B
  BY DEF Natural, Bottom
<1> HIDE DEF B, y
<1>2. Smaller(B, B) > Larger(y, y)
  BY <1>1 DEF Smaller, Larger
<1> QED BY <1>2 DEF SharesBand, B, y

(* The rails of a row in a gap next to it. *)
LEMMA RailsInGaps ==
  ASSUME NEW row, row[1] \in Nat, row[2] \in Nat
  PROVE  /\ row[1] + row[2] + 600 <= 10000 => RailBelow(row) = row[1] + row[2] + 300
         /\ 600 <= row[1] => RailAbove(row) = row[1] - 300
<1>1. RowGutter \div 2 = 300 /\ Full - 100 = 9900
  BY DEF RowGutter, Full
<1> DEFINE top == row[1]
           bottom == row[1] + row[2]
<1>2. top \in Nat /\ bottom \in Nat
  OBVIOUS
<1> HIDE DEF top, bottom
<1>3. bottom + 600 <= 10000 => Smaller(bottom + 300, 9900) = bottom + 300
  BY <1>2 DEF Smaller
<1>4. 600 <= top => Larger(top - 300, 100) = top - 300
  BY <1>2 DEF Larger
<1> QED BY <1>1, <1>3, <1>4 DEF RailBelow, RailAbove, top, bottom

(* Without columns, a connector that skips no row is clear of all other nodes. *)
LEMMA PlainRouteIsClear ==
  ASSUME NEW d \in Topology, Visible(d), Len(d.rows) > 1, NEW p \in Places(d), NEW q \in Places(d), p # q,
         \A o \in Places(d) : o.column = Unset, Distance(p.row, q.row) <= 1
  PROVE  ~Crosses(PlainRoute(d, p, q), Others(d, p, q))
<1>1. PICK r \in 1..Len(d.rows) : \E s \in 1..Len(SlotsOf(d, r)) : \E n \in 1..Len(NodesOf(d, r, s)) : At(d, p, r, s, n)
  BY Placed
<1>2. PICK s \in 1..Len(SlotsOf(d, r)) : \E n \in 1..Len(NodesOf(d, r, s)) : At(d, p, r, s, n)
  BY <1>1
<1>3. PICK n \in 1..Len(NodesOf(d, r, s)) : At(d, p, r, s, n)
  BY <1>2
<1>4. PICK t \in 1..Len(d.rows) : \E u \in 1..Len(SlotsOf(d, t)) : \E m \in 1..Len(NodesOf(d, t, u)) : At(d, q, t, u, m)
  BY Placed
<1>5. PICK u \in 1..Len(SlotsOf(d, t)) : \E m \in 1..Len(NodesOf(d, t, u)) : At(d, q, t, u, m)
  BY <1>4
<1>6. PICK m \in 1..Len(NodesOf(d, t, u)) : At(d, q, t, u, m)
  BY <1>5
<1> DEFINE a == p.box
           b == q.box
           row == RowGeometry(d)[r]
           others == Others(d, p, q)
           sameRow == p.row = q.row
           around == BestDetour(a, b, row, others)
           below == Detour(a, b, RailBelow(row))
           above == Detour(a, b, RailAbove(row))
<1>7. Natural(a) /\ a.h > 0 /\ Natural(b) /\ b.h > 0 /\ row[1] \in Nat /\ row[2] \in Nat
  <2>1. Natural(a) /\ a.h > 0
    BY <1>3, Sits
  <2>2. Natural(b) /\ b.h > 0
    BY <1>6, Sits
  <2>3. row[1] \in Nat /\ row[2] \in Nat
    BY RowShares
  <2> QED BY <2>1, <2>2, <2>3
<1>8. p.row = r - 1 /\ q.row = t - 1 /\ r \in Int /\ t \in Int
  <2>1. p.row = r - 1
    BY <1>3, Sits
  <2>2. q.row = t - 1
    BY <1>6, Sits
  <2>3. r \in Int /\ t \in Int
    BY TopologyTypes
  <2> QED BY <2>1, <2>2, <2>3
<1>9. (sameRow <=> r = t) /\ p.row + 1 = r
  BY <1>8
<1>10. r = t \/ t = r + 1 \/ r = t + 1
  BY <1>8 DEF Distance
<1>11. /\ a.y = row[1] /\ Bottom(a) = row[1] + row[2]
       /\ b.y = RowGeometry(d)[t][1] /\ Bottom(b) = RowGeometry(d)[t][1] + RowGeometry(d)[t][2]
  <2>1. a.y = row[1] /\ Bottom(a) = row[1] + row[2]
    BY <1>3, FillsRow
  <2>2. b.y = RowGeometry(d)[t][1] /\ Bottom(b) = RowGeometry(d)[t][1] + RowGeometry(d)[t][2]
    BY <1>6, FillsRow
  <2> QED BY <2>1, <2>2
<1>12. PlainRoute(d, p, q) = Route(a, b, sameRow, row, others)
  BY <1>9 DEF PlainRoute
<1>13. sameRow \in BOOLEAN
  OBVIOUS
<1>14. CASE r = t
  <2>1. SharesBand(a, b)
    <3>1. a.y = b.y /\ Bottom(a) = Bottom(b)
      BY <1>11, <1>14
    <3> HIDE DEF a, b
    <3> QED BY <1>7, <3>1, SameHeightsShare
  <2>2. ~Crosses(below, others) \/ ~Crosses(above, others)
    <3>1. CASE r < Len(d.rows)
      <4> DEFINE g == r + 1
                 from == RowEnd(d, r)
                 to == RowTop(d, g)
      <4>1. g \in 1..Len(d.rows) /\ g = r + 1
        BY <1>8, <3>1, TopologyTypes
      <4> HIDE DEF g
      <4>2. from \in Nat /\ to \in Nat /\ from + 600 <= to /\ to <= 10000 /\ Leaves(others, from, to)
        BY <4>1, GapIsFree
      <4>3. RailBelow(row) = from + 300
        <5>1. from + 600 <= 10000
          <6> HIDE DEF from, to
          <6> QED BY <4>2
        <5>2. from = row[1] + row[2]
          BY DEF RowEnd
        <5> HIDE DEF row, from
        <5> QED BY <1>7, <5>1, <5>2, RailsInGaps
      <4>4. Bottom(a) = from /\ Bottom(b) = from
        BY <1>11, <1>14 DEF RowTop, RowEnd
      <4> DEFINE rail == RailBelow(row)
      <4> HIDE DEF from, to, a, b, others, rail
      <4>5. ~Crosses(Detour(a, b, rail), others)
        <5>1. rail = from + 300
          BY <4>3 DEF rail
        <5> QED BY <1>7, <4>2, <4>4, <5>1, BelowIsClear
      <4> QED BY <4>5 DEF rail
    <3>2. CASE ~(r < Len(d.rows))
      <4> DEFINE g == r - 1
                 from == RowEnd(d, g)
                 to == RowTop(d, r)
      <4>1. g \in 1..Len(d.rows) /\ r = g + 1
        BY <1>8, <3>2, TopologyTypes
      <4> HIDE DEF g
      <4>2. from \in Nat /\ to \in Nat /\ from + 600 <= to /\ to <= 10000 /\ Leaves(others, from, to)
        BY <4>1, GapIsFree
      <4>3. RailAbove(row) = to - 300
        <5>1. 600 <= to
          <6> HIDE DEF from, to
          <6> QED BY <4>2
        <5>2. to = row[1]
          BY DEF RowTop
        <5> HIDE DEF row, to
        <5> QED BY <1>7, <5>1, <5>2, RailsInGaps
      <4>4. a.y = to /\ b.y = to
        BY <1>11, <1>14 DEF RowTop, RowEnd
      <4> DEFINE rail == RailAbove(row)
      <4> HIDE DEF from, to, a, b, others, rail
      <4>5. ~Crosses(Detour(a, b, rail), others)
        <5>1. rail = to - 300
          BY <4>3 DEF rail
        <5> QED BY <1>7, <4>2, <4>4, <5>1, AboveIsClear
      <4> QED BY <4>5 DEF rail
    <3> QED BY <3>1, <3>2
  <2> HIDE DEF a, b, row, others
  <2>3. ~Crosses(around, others)
    BY <1>7, <2>2, BestDetourFits
  <2> HIDE DEF sameRow, around
  <2>4. ~Crosses(Route(a, b, sameRow, row, others), others)
    BY <1>7, <1>13, <2>1, <2>3, ClearRoute DEF around
  <2> QED BY <1>12, <2>4 DEF others
<1>15. CASE r # t
  <2>1. ~SharesBand(a, b)
    BY <1>3, <1>6, <1>15, TwoNodes
  <2>2. ~Crosses(Elbow(a, b), others)
    <3>1. CASE t = r + 1
      <4> DEFINE from == RowEnd(d, r)
                 to == RowTop(d, t)
      <4>1. from \in Nat /\ to \in Nat /\ from + 600 <= to /\ Leaves(others, from, to)
        BY <3>1, GapIsFree
      <4>2. Bottom(a) = from /\ b.y = to
        BY <1>11 DEF RowTop, RowEnd
      <4> HIDE DEF from, to, a, b, others
      <4> QED BY <1>7, <4>1, <4>2, ElbowIsClear
    <3>2. CASE r = t + 1
      <4> DEFINE from == RowEnd(d, t)
                 to == RowTop(d, r)
      <4>1. from \in Nat /\ to \in Nat /\ from + 600 <= to /\ Leaves(others, from, to)
        BY <3>2, GapIsFree
      <4>2. Bottom(b) = from /\ a.y = to
        BY <1>11 DEF RowTop, RowEnd
      <4> HIDE DEF from, to, a, b, others
      <4> QED BY <1>7, <4>1, <4>2, ElbowIsClear
    <3> QED BY <1>10, <1>15, <3>1, <3>2
  <2>3. ~sameRow
    BY <1>9, <1>15
  <2> HIDE DEF a, b, row, others, sameRow
  <2>4. ~Crosses(Route(a, b, sameRow, row, others), others)
    BY <1>7, <1>13, <2>1, <2>2, <2>3, ClearRoute
  <2> QED BY <1>12, <2>4 DEF others
<1> QED BY <1>14, <1>15

-----------------------------------------------------------------------------
(* What is drawn, and for which edge *)

AllTall == \A d \in Topologies : Tall(d)

(* Every edge has a key of its own, older than any edit to come, and what is drawn for it carries its id. *)
KeysApart == \A i, j \in 1..Len(edges) : edges[i].key = edges[j].key => i = j
KeysKnown == (\A i \in 1..Len(edges) : edges[i].key < edits) /\ \A e \in drawn : e.key \in Nat /\ e.key < edits
DrawnByIds == \A e \in drawn, i \in 1..Len(edges) : e.key = edges[i].key => edges[i].id # Unset /\ e.of = edges[i].id

(* What a layout draws was drawn before, for no edge it routes, or is the course of an edge it routes. *)
LEMMA DrawnIs ==
  ASSUME NEW named, NEW e \in Drawn(named)
  PROVE  \/ e \in drawn /\ \A i \in DOMAIN named : Routable(named[i], Places(diagram)) => e.of # named[i].id
         \/ \E i \in DOMAIN named : /\ Routable(named[i], Places(diagram))
                                    /\ e.of = named[i].id /\ e.key = named[i].key /\ e.course = CourseOf(named[i])
<1> DEFINE routed == {i \in DOMAIN named : Routable(named[i], Places(diagram))}
           last == {i \in routed : \A j \in routed : named[j].id = named[i].id => j <= i}
           old == {f \in drawn : \A i \in routed : f.of # named[i].id}
           new == {[of |-> named[i].id, key |-> named[i].key, course |-> CourseOf(named[i])] : i \in last}
<1>1. e \in old \cup new
  BY DEF Drawn
<1>2. ASSUME e \in old
      PROVE  e \in drawn /\ \A i \in DOMAIN named : Routable(named[i], Places(diagram)) => e.of # named[i].id
  BY <1>2
<1>3. ASSUME e \in new
      PROVE  \E i \in DOMAIN named : /\ Routable(named[i], Places(diagram))
                                     /\ e.of = named[i].id /\ e.key = named[i].key /\ e.course = CourseOf(named[i])
  <2>1. PICK i \in last : e = [of |-> named[i].id, key |-> named[i].key, course |-> CourseOf(named[i])]
    BY <1>3
  <2>2. i \in DOMAIN named /\ Routable(named[i], Places(diagram))
    OBVIOUS
  <2>3. e.of = named[i].id /\ e.key = named[i].key /\ e.course = CourseOf(named[i])
    BY <2>1
  <2> QED BY <2>2, <2>3
<1> HIDE DEF old, new
<1> QED BY <1>1, <1>2, <1>3

(* A layout of a diagram nobody dragged draws the plain course of each edge. *)
LEMMA CourseIsPlain ==
  ASSUME ArchTypeOK, manual = {}, NEW edge,
         NEW from, from = CHOOSE p \in Places(diagram) : p.id = edge.from,
         NEW to, to = CHOOSE p \in Places(diagram) : p.id = edge.to
  PROVE  CourseOf(edge) = PlainRoute(diagram, from, to)
<1>1. \A p : Resolved(p) = p.box
  BY DEF Resolved, IsLocked
<1>2. {Resolved(p) : p \in Places(diagram) \ {from, to}} = Others(diagram, from, to)
  BY <1>1 DEF Others
<1> DEFINE row == RowGeometry(diagram)[from.row + 1]
           others == Others(diagram, from, to)
<1>3. CourseOf(edge) = Route(Resolved(from), Resolved(to), from.row = to.row, row, {Resolved(p) : p \in Places(diagram) \ {from, to}})
  BY DEF CourseOf
<1>4. Resolved(from) = from.box /\ Resolved(to) = to.box
  BY <1>1
<1> HIDE DEF row, others
<1>5. CourseOf(edge) = Route(from.box, to.box, from.row = to.row, row, others)
  BY <1>2, <1>3, <1>4 DEF others
<1> QED BY <1>5 DEF PlainRoute, row, others

(* What ConnectorsReach asks of a course that is drawn for an edge of a diagram. *)
RunsFor(course, edge, d) ==
  LET placed == Places(d)
      from == CHOOSE p \in placed : p.id = edge.from
      to == CHOOSE p \in placed : p.id = edge.to
      others == {p.box : p \in placed \ {from, to}}
  IN  /\ Reaches(course, from.box, to.box) \/ Crosses(course, others)
      /\ Len(d.rows) > 1 /\ (\A p \in placed : p.column = Unset) /\ Distance(from.row, to.row) <= 1
           => ~Crosses(course, others)

(* Right after a layout every connector runs as it should. *)
LEMMA LayoutConnects ==
  ASSUME ArchTypeOK, AllVisible, AllTall, KeysApart, DrawnByIds, Layout
  PROVE  ConnectorsReach'
<1>1. diagram' = diagram /\ manual' = manual /\ edges' = EdgesNamed /\ drawn' = Drawn(EdgesNamed)
  BY DEF Layout
<1>2. diagram \in Topology /\ Visible(diagram) /\ Tall(diagram)
  BY LayoutAssumption DEF ArchTypeOK, AllVisible, AllTall
<1>3. /\ EdgesNamed \in Seq(EdgeElements) /\ Len(EdgesNamed) = Len(edges)
      /\ \A i \in 1..Len(edges) :
           /\ EdgesNamed[i].key = edges[i].key
           /\ EdgesNamed[i].id # Unset /\ (edges[i].id # Unset => EdgesNamed[i].id = edges[i].id)
  BY NamedEdges DEF ArchTypeOK
<1>4. DOMAIN EdgesNamed = 1..Len(edges)
  BY <1>3, Elements
<1> DEFINE places == Places(diagram)
<1>5. ASSUME NEW i \in 1..Len(edges), NEW e \in Drawn(EdgesNamed), manual = {}, e.key = EdgesNamed[i].key,
             EdgesNamed[i].from # EdgesNamed[i].to, Routable(EdgesNamed[i], places),
             NEW from, from = CHOOSE p \in places : p.id = EdgesNamed[i].from,
             NEW to, to = CHOOSE p \in places : p.id = EdgesNamed[i].to
      PROVE  /\ Reaches(e.course, from.box, to.box) \/ Crosses(e.course, Others(diagram, from, to))
             /\ Len(diagram.rows) > 1 /\ (\A p \in places : p.column = Unset) /\ Distance(from.row, to.row) <= 1
                  => ~Crosses(e.course, Others(diagram, from, to))
  <2>1. e.course = CourseOf(EdgesNamed[i])
    <3>1. CASE e \in drawn /\ \A j \in DOMAIN EdgesNamed : Routable(EdgesNamed[j], places) => e.of # EdgesNamed[j].id
      <4>1. e.key = edges[i].key
        BY <1>3, <1>5
      <4>2. edges[i].id # Unset /\ e.of = edges[i].id
        BY <3>1, <4>1 DEF DrawnByIds
      <4>3. e.of = EdgesNamed[i].id
        BY <1>3, <4>2
      <4> QED BY <1>4, <1>5, <3>1, <4>3
    <3>2. CASE \E j \in DOMAIN EdgesNamed : /\ Routable(EdgesNamed[j], places)
                                            /\ e.of = EdgesNamed[j].id /\ e.key = EdgesNamed[j].key /\ e.course = CourseOf(EdgesNamed[j])
      <4>1. PICK j \in 1..Len(edges) : e.key = EdgesNamed[j].key /\ e.course = CourseOf(EdgesNamed[j])
        BY <1>4, <3>2
      <4>2. edges[j].key = edges[i].key
        BY <1>3, <1>5, <4>1
      <4>3. j = i
        BY <4>2 DEF KeysApart
      <4> QED BY <4>1, <4>3
    <3> QED BY <3>1, <3>2, DrawnIs
  <2>2. CourseOf(EdgesNamed[i]) = PlainRoute(diagram, from, to)
    BY <1>5, CourseIsPlain
  <2>3. from \in places /\ to \in places /\ from # to
    <3>1. (\E p \in places : p.id = EdgesNamed[i].from) /\ (\E p \in places : p.id = EdgesNamed[i].to)
      BY <1>5 DEF Routable
    <3>2. from \in places /\ from.id = EdgesNamed[i].from /\ to \in places /\ to.id = EdgesNamed[i].to
      BY <1>5, <3>1
    <3> QED BY <1>5, <3>2
  <2>4. Fits(PlainRoute(diagram, from, to), from.box, to.box, Others(diagram, from, to))
    BY <1>2, <2>3, PlainRouteFits
  <2>5. ASSUME Len(diagram.rows) > 1, \A p \in places : p.column = Unset, Distance(from.row, to.row) <= 1
        PROVE  ~Crosses(PlainRoute(diagram, from, to), Others(diagram, from, to))
    BY <1>2, <2>3, <2>5, PlainRouteIsClear
  <2> QED BY <2>1, <2>2, <2>4, <2>5 DEF Fits
<1>6. ASSUME NEW i \in 1..Len(edges), NEW e \in Drawn(EdgesNamed), manual = {}, e.key = EdgesNamed[i].key,
             EdgesNamed[i].from # EdgesNamed[i].to, Routable(EdgesNamed[i], places)
      PROVE  RunsFor(e.course, EdgesNamed[i], diagram)
  <2> DEFINE from == CHOOSE p \in places : p.id = EdgesNamed[i].from
             to == CHOOSE p \in places : p.id = EdgesNamed[i].to
  <2>1. /\ Reaches(e.course, from.box, to.box) \/ Crosses(e.course, Others(diagram, from, to))
        /\ Len(diagram.rows) > 1 /\ (\A p \in places : p.column = Unset) /\ Distance(from.row, to.row) <= 1
             => ~Crosses(e.course, Others(diagram, from, to))
    <3> HIDE DEF from, to
    <3> QED BY <1>5, <1>6 DEF from, to
  <2> QED BY <2>1 DEF RunsFor, Others
<1>7. SUFFICES ASSUME manual' = {}, NEW i \in DOMAIN edges', NEW e \in drawn', e.key = edges'[i].key,
                      edges'[i].from # edges'[i].to, Routable(edges'[i], Places(diagram'))
               PROVE  RunsFor(e.course, edges'[i], diagram')
  BY DEF ConnectorsReach, RunsFor
<1>8. edges'[i] = EdgesNamed[i] /\ i \in 1..Len(edges) /\ e \in Drawn(EdgesNamed) /\ manual = {}
  BY <1>1, <1>4, <1>7
<1>9. Routable(EdgesNamed[i], places) /\ EdgesNamed[i].from # EdgesNamed[i].to /\ e.key = EdgesNamed[i].key
  BY <1>1, <1>7, <1>8
<1> HIDE DEF places
<1>10. RunsFor(e.course, EdgesNamed[i], diagram)
  BY <1>6, <1>8, <1>9
<1> QED BY <1>1, <1>8, <1>10

KeysInv == ArchTypeOK /\ KeysApart /\ KeysKnown /\ DrawnByIds

(* The keys of edges are numbers, and a layout keeps them in place. *)
LEMMA EdgeTypes ==
  ASSUME ArchTypeOK
  PROVE  /\ edges \in Seq(EdgeElements) /\ Len(edges) \in Nat /\ edits \in Nat
         /\ \A i \in 1..Len(edges) : edges[i] \in EdgeElements /\ edges[i].key \in Nat
<1>1. edges \in Seq(EdgeElements) /\ edits \in Nat
  BY DEF ArchTypeOK
<1>2. Len(edges) \in Nat /\ \A i \in 1..Len(edges) : edges[i] \in EdgeElements
  BY <1>1, Elements
<1>3. \A edge \in EdgeElements : edge.key \in Nat
  BY DEF EdgeElements
<1> QED BY <1>1, <1>2, <1>3

(* A layout keeps edges and what is drawn for them together. *)
LEMMA LayoutKeepsKeys ==
  ASSUME KeysInv, Layout
  PROVE  KeysApart' /\ KeysKnown' /\ DrawnByIds'
<1>1. edges' = EdgesNamed /\ drawn' = Drawn(EdgesNamed) /\ edits' = edits
  BY DEF Layout
<1>2. /\ EdgesNamed \in Seq(EdgeElements) /\ Len(EdgesNamed) = Len(edges)
      /\ \A i \in 1..Len(edges) :
           /\ EdgesNamed[i].key = edges[i].key
           /\ EdgesNamed[i].id # Unset /\ (edges[i].id # Unset => EdgesNamed[i].id = edges[i].id)
  BY NamedEdges DEF KeysInv, ArchTypeOK
<1>3. DOMAIN EdgesNamed = 1..Len(edges)
  BY <1>2, Elements
<1>4. KeysApart'
  BY <1>1, <1>2 DEF KeysInv, KeysApart
<1>5. ASSUME NEW e \in Drawn(EdgesNamed)
      PROVE  /\ e.key \in Nat /\ e.key < edits
             /\ \A i \in 1..Len(edges) : e.key = EdgesNamed[i].key => e.of = EdgesNamed[i].id
  <2>1. CASE e \in drawn
    <3>1. e.key \in Nat /\ e.key < edits
      BY <2>1 DEF KeysInv, KeysKnown
    <3>2. ASSUME NEW i \in 1..Len(edges), e.key = EdgesNamed[i].key PROVE e.of = EdgesNamed[i].id
      <4>1. edges[i].id # Unset /\ e.of = edges[i].id
        BY <1>2, <2>1, <3>2 DEF KeysInv, DrawnByIds
      <4> QED BY <1>2, <4>1
    <3> QED BY <3>1, <3>2
  <2>2. CASE \E j \in DOMAIN EdgesNamed : e.of = EdgesNamed[j].id /\ e.key = EdgesNamed[j].key
    <3>1. PICK j \in 1..Len(edges) : e.of = EdgesNamed[j].id /\ e.key = EdgesNamed[j].key
      BY <1>3, <2>2
    <3>2. e.key = edges[j].key
      BY <1>2, <3>1
    <3>3. e.key \in Nat /\ e.key < edits
      <4>1. edges[j].key \in Nat /\ edges[j].key < edits
        BY EdgeTypes DEF KeysInv, KeysKnown
      <4> QED BY <3>2, <4>1
    <3>4. ASSUME NEW i \in 1..Len(edges), e.key = EdgesNamed[i].key PROVE e.of = EdgesNamed[i].id
      <4>1. i = j
        BY <1>2, <3>2, <3>4 DEF KeysInv, KeysApart
      <4> QED BY <3>1, <4>1
    <3> QED BY <3>3, <3>4
  <2> QED BY <2>1, <2>2, DrawnIs
<1>6. KeysKnown'
  <2>1. \A i \in 1..Len(edges) : EdgesNamed[i].key < edits
    BY <1>2 DEF KeysInv, KeysKnown
  <2> QED BY <1>1, <1>2, <1>5, <2>1 DEF KeysKnown
<1>7. DrawnByIds'
  BY <1>1, <1>2, <1>5 DEF DrawnByIds
<1> QED BY <1>4, <1>6, <1>7

(* So does every edit. *)
LEMMA EditsKeepKeys ==
  ASSUME KeysInv, ArchNext, ~Layout
  PROVE  KeysApart' /\ KeysKnown' /\ DrawnByIds'
<1>1. /\ edges \in Seq(EdgeElements) /\ Len(edges) \in Nat /\ edits \in Nat
      /\ \A i \in 1..Len(edges) : edges[i] \in EdgeElements /\ edges[i].key \in Nat
  BY EdgeTypes DEF KeysInv
<1>2. /\ \A i, j \in 1..Len(edges) : edges[i].key = edges[j].key => i = j
      /\ \A i \in 1..Len(edges) : edges[i].key < edits
      /\ \A e \in drawn : e.key \in Nat /\ e.key < edits
      /\ \A e \in drawn, i \in 1..Len(edges) : e.key = edges[i].key => edges[i].id # Unset /\ e.of = edges[i].id
  BY DEF KeysInv, KeysApart, KeysKnown, DrawnByIds
<1>3. drawn' = drawn /\ edits' = edits + 1
  BY DEF ArchNext, AuthorEdge, AuthorRemoves, AuthorTopology, Drag, Edited
<1>4. CASE edges' = edges
  BY <1>1, <1>2, <1>3, <1>4 DEF KeysApart, KeysKnown, DrawnByIds
<1>5. ASSUME NEW ends \in Ends, NEW at \in 1..(Len(edges) + 1), AuthorEdge(ends, at)
      PROVE  KeysApart' /\ KeysKnown' /\ DrawnByIds'
  <2> DEFINE new == [key |-> edits, from |-> ends[1], to |-> ends[2], id |-> Unset]
             n == Len(edges)
             t == edges'
  <2>1. new \in EdgeElements /\ new.key = edits
    BY <1>1 DEF EdgeElements
  <2>2. t = InsertAt(edges, at, new)
    BY <1>5 DEF AuthorEdge
  <2> HIDE DEF new, t
  <2>a. edges \in Seq(EdgeElements) /\ new \in EdgeElements /\ at \in 1..(Len(edges) + 1)
    BY <1>1, <2>1
  <2>b. /\ Len(t) = Len(edges) + 1
        /\ \A i \in 1..Len(t) : t[i] = IF i < at THEN edges[i] ELSE IF i = at THEN new ELSE edges[i - 1]
    <3> DEFINE u == InsertAt(edges, at, new)
    <3>1. /\ Len(u) = Len(edges) + 1
          /\ \A i \in 1..Len(u) : u[i] = IF i < at THEN edges[i] ELSE IF i = at THEN new ELSE edges[i - 1]
      BY <2>a, Inserted
    <3>2. t = u
      BY <2>2
    <3> HIDE DEF u
    <3> QED BY <3>1, <3>2
  <2>3. /\ Len(t) = n + 1
        /\ \A i \in 1..Len(t) : t[i] = IF i < at THEN edges[i] ELSE IF i = at THEN new ELSE edges[i - 1]
    BY <2>b
  <2>4. ASSUME NEW i \in 1..Len(t)
        PROVE  (i = at /\ t[i] = new) \/ (i < at /\ i \in 1..n /\ t[i] = edges[i]) \/ (i > at /\ i - 1 \in 1..n /\ t[i] = edges[i - 1])
    BY <1>1, <2>3
  <2>5. ASSUME NEW i \in 1..Len(t) PROVE t[i].key \in Nat /\ t[i].key <= edits /\ (t[i].key = edits => i = at)
    <3>1. CASE i = at /\ t[i] = new
      BY <1>1, <2>1, <3>1
    <3>2. CASE i < at /\ i \in 1..n /\ t[i] = edges[i]
      BY <1>1, <1>2, <3>2
    <3>3. CASE i > at /\ i - 1 \in 1..n /\ t[i] = edges[i - 1]
      BY <1>1, <1>2, <3>3
    <3> QED BY <2>4, <3>1, <3>2, <3>3
  <2>6. ASSUME NEW i \in 1..Len(t), NEW j \in 1..Len(t), t[i].key = t[j].key PROVE i = j
    <3>1. CASE i = at \/ j = at
      <4>1. t[at].key = edits
        BY <2>1, <2>4, <3>1
      <4> QED BY <2>5, <2>6, <3>1, <4>1
    <3>2. CASE i # at /\ j # at
      <4> DEFINE I == IF i < at THEN i ELSE i - 1
                 J == IF j < at THEN j ELSE j - 1
      <4>1. I \in 1..n /\ t[i] = edges[I]
        BY <2>4, <3>2
      <4>2. J \in 1..n /\ t[j] = edges[J]
        BY <2>4, <3>2
      <4>3. I = J
        <5> HIDE DEF I, J
        <5> QED BY <1>2, <2>6, <4>1, <4>2
      <4>4. i \in Int /\ j \in Int /\ at \in Int
        OBVIOUS
      <4> QED BY <3>2, <4>3, <4>4
    <3> QED BY <3>1, <3>2
  <2>7. ASSUME NEW e \in drawn, NEW i \in 1..Len(t), e.key = t[i].key PROVE t[i].id # Unset /\ e.of = t[i].id
    <3>1. CASE i = at /\ t[i] = new
      BY <1>1, <1>2, <2>1, <2>7, <3>1
    <3>2. CASE i < at /\ i \in 1..n /\ t[i] = edges[i]
      BY <1>2, <2>7, <3>2
    <3>3. CASE i > at /\ i - 1 \in 1..n /\ t[i] = edges[i - 1]
      BY <1>2, <2>7, <3>3
    <3> QED BY <2>4, <3>1, <3>2, <3>3
  <2>8. KeysApart'
    BY <2>6 DEF KeysApart, t
  <2>9. (\A i \in 1..Len(t) : t[i].key < edits + 1) /\ \A e \in drawn : e.key \in Nat /\ e.key < edits + 1
    BY <1>1, <1>2, <2>5
  <2>10. KeysKnown'
    BY <1>3, <2>9 DEF KeysKnown, t
  <2>11. DrawnByIds'
    BY <1>3, <2>7 DEF DrawnByIds, t
  <2> QED BY <2>8, <2>10, <2>11
<1>6. ASSUME NEW at \in DOMAIN edges, AuthorRemoves(at)
      PROVE  KeysApart' /\ KeysKnown' /\ DrawnByIds'
  <2> DEFINE n == Len(edges)
             t == edges'
  <2>1. t = RemoveAt(edges, at) /\ at \in 1..n
    BY <1>1, <1>6 DEF AuthorRemoves
  <2> HIDE DEF t
  <2>2. Len(t) = n - 1 /\ \A i \in 1..Len(t) : t[i] = IF i < at THEN edges[i] ELSE edges[i + 1]
    BY <1>1, <2>1, Removed
  <2>3. ASSUME NEW i \in 1..Len(t)
        PROVE  (i < at /\ i \in 1..n /\ t[i] = edges[i]) \/ (i >= at /\ i + 1 \in 1..n /\ t[i] = edges[i + 1])
    BY <1>1, <2>1, <2>2
  <2>4. ASSUME NEW i \in 1..Len(t) PROVE t[i].key \in Nat /\ t[i].key < edits
    BY <1>1, <1>2, <2>3
  <2>5. ASSUME NEW i \in 1..Len(t), NEW j \in 1..Len(t), t[i].key = t[j].key PROVE i = j
    <3> DEFINE I == IF i < at THEN i ELSE i + 1
               J == IF j < at THEN j ELSE j + 1
    <3>1. i \in Int /\ j \in Int /\ at \in Int
      BY <2>1
    <3>2. I \in 1..n /\ t[i] = edges[I]
      BY <2>3, <3>1
    <3>3. J \in 1..n /\ t[j] = edges[J]
      BY <2>3, <3>1
    <3>4. I = J
      <4> HIDE DEF I, J
      <4> QED BY <1>2, <2>5, <3>2, <3>3
    <3> QED BY <3>1, <3>4
  <2>6. ASSUME NEW e \in drawn, NEW i \in 1..Len(t), e.key = t[i].key PROVE t[i].id # Unset /\ e.of = t[i].id
    <3>1. CASE i < at /\ i \in 1..n /\ t[i] = edges[i]
      BY <1>2, <2>6, <3>1
    <3>2. CASE i >= at /\ i + 1 \in 1..n /\ t[i] = edges[i + 1]
      BY <1>2, <2>6, <3>2
    <3> QED BY <2>3, <3>1, <3>2
  <2>7. KeysApart'
    BY <2>5 DEF KeysApart, t
  <2>8. (\A i \in 1..Len(t) : t[i].key < edits + 1) /\ \A e \in drawn : e.key \in Nat /\ e.key < edits + 1
    BY <1>1, <1>2, <2>4
  <2>9. KeysKnown'
    BY <1>3, <2>8 DEF KeysKnown, t
  <2>10. DrawnByIds'
    BY <1>3, <2>6 DEF DrawnByIds, t
  <2> QED BY <2>7, <2>9, <2>10
<1>7. ASSUME NEW d \in Topologies, AuthorTopology(d) PROVE edges' = edges
  BY <1>7 DEF AuthorTopology
<1>8. ASSUME NEW id \in NodeIds, NEW box \in Drops, Drag(id, box) PROVE edges' = edges
  BY <1>8 DEF Drag
<1> QED BY <1>4, <1>5, <1>6, <1>7, <1>8 DEF ArchNext

(* ConnectorsReach, for all topologies whose nodes are more than a percent of the diagram tall, any edges     *)
(* between their nodes, and any edits and layouts: what is drawn for an edge leads from its source to its     *)
(* target, or through another node; and in rows without columns it never leads through one, unless it skips  *)
(* a row (_route_edge, _best_detour).                                                                          *)
THEOREM LayoutKeepsConnectors == AllVisible /\ AllTall => (ArchSpec => []ConnectorsReach)
<1> SUFFICES ASSUME AllVisible, AllTall PROVE ArchSpec => []ConnectorsReach
  OBVIOUS
<1>1. ArchInit => KeysInv /\ ConnectorsReach
  <2> SUFFICES ASSUME ArchInit PROVE KeysInv /\ ConnectorsReach
    OBVIOUS
  <2>1. ArchTypeOK /\ ~laid /\ edges = <<>> /\ drawn = {}
    BY ArchTypes DEF ArchInit
  <2> QED BY <2>1 DEF KeysInv, KeysApart, KeysKnown, DrawnByIds, ConnectorsReach
<1>2. ASSUME KeysInv, ConnectorsReach, [ArchNext]_archVars PROVE KeysInv' /\ ConnectorsReach'
  <2>1. ArchTypeOK'
    BY <1>2, ArchTypes DEF KeysInv
  <2>2. CASE Layout
    <3>1. KeysApart' /\ KeysKnown' /\ DrawnByIds'
      BY <1>2, <2>2, LayoutKeepsKeys
    <3>2. ConnectorsReach'
      BY <1>2, <2>2, LayoutConnects DEF KeysInv
    <3> QED BY <2>1, <3>1, <3>2 DEF KeysInv
  <2>3. CASE ArchNext /\ ~Layout
    <3>1. KeysApart' /\ KeysKnown' /\ DrawnByIds'
      BY <1>2, <2>3, EditsKeepKeys
    <3>2. ~laid'
      BY <2>3 DEF ArchNext, AuthorEdge, AuthorRemoves, AuthorTopology, Drag, Edited
    <3> QED BY <2>1, <3>1, <3>2 DEF KeysInv, ConnectorsReach
  <2>4. CASE UNCHANGED archVars
    BY <1>2, <2>1, <2>4 DEF archVars, KeysInv, KeysApart, KeysKnown, DrawnByIds, ConnectorsReach
  <2> QED BY <1>2, <2>2, <2>3, <2>4
<1> QED BY <1>1, <1>2, PTL DEF ArchSpec

=============================================================================
