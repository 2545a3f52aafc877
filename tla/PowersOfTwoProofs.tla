------------------------- MODULE PowersOfTwoProofs --------------------------
(***************************************************************************)
(* Arithmetic the other proofs rest on: functions that are defined by      *)
(* recursion over the naturals, powers of two, and division of a number    *)
(* into the digits it is made of.                                          *)
(***************************************************************************)
EXTENDS PowersOfTwo, Integers, WellFoundedInduction, TLAPS

(* Induction over the naturals, stated with a set. *)
Less == {ss \in Nat \X Nat : ss[1] < ss[2]}

LEMMA LessIsWellFounded == IsWellFoundedOn(Less, Nat)
  BY NatLessThanWellFounded DEF OpToRel, Less

LEMMA Induction ==
  ASSUME NEW S \in SUBSET Nat, 0 \in S, \A n \in S : n + 1 \in S
  PROVE  S = Nat
<1> DEFINE T == Nat \ S
<1> SUFFICES ASSUME T # {} PROVE FALSE
  OBVIOUS
<1>1. \E m \in T : \A k \in T : ~(<<k, m>> \in Less)
  BY LessIsWellFounded, WFMin
<1>2. PICK m \in T : \A k \in T : ~(<<k, m>> \in Less)
  BY <1>1
<1>3. m \in Nat /\ m # 0
  BY <1>2
<1>4. m - 1 \in Nat /\ <<m - 1, m>> \in Less
  BY <1>3 DEF Less
<1>5. m - 1 \in S
  BY <1>2, <1>4
<1> QED BY <1>2, <1>3, <1>5

-----------------------------------------------------------------------------
(* The values of a recursion that starts with b, up to the n-th. *)
Follows(f, b, step, n) ==
  /\ f[0] = b
  /\ \A i \in 1..n : f[i] = step[<<f[i - 1], i>>]

(* Two functions that follow the same recursion agree as far as both do. *)
LEMMA RecursionIsUnique ==
  ASSUME NEW b, NEW step, NEW m \in Nat, NEW f, NEW g,
         Follows(f, b, step, m), Follows(g, b, step, m)
  PROVE  \A i \in 0..m : f[i] = g[i]
<1> DEFINE S == {i \in Nat : i <= m => f[i] = g[i]}
<1>1. 0 \in S
  BY DEF Follows
<1>2. ASSUME NEW i \in S PROVE i + 1 \in S
  <2>1. CASE i + 1 <= m
    <3>1. i + 1 \in 1..m /\ (i + 1) - 1 = i /\ f[i] = g[i]
      BY <2>1
    <3>2. f[i + 1] = step[<<f[i], i + 1>>] /\ g[i + 1] = step[<<g[i], i + 1>>]
      BY <3>1 DEF Follows
    <3> QED BY <3>1, <3>2
  <2>2. CASE ~(i + 1 <= m)
    BY <2>2
  <2> QED BY <2>1, <2>2
<1> HIDE DEF S
<1>3. S \in SUBSET Nat
  BY DEF S
<1>4. S = Nat
  BY <1>1, <1>2, <1>3, Induction
<1> QED BY <1>4 DEF S

LEMMA FiniteRecursion ==
  ASSUME NEW V, NEW b \in V, NEW step \in [V \X Nat -> V]
  PROVE  \A n \in Nat : \E f \in [0..n -> V] : Follows(f, b, step, n)
<1> DEFINE S == {n \in Nat : \E f \in [0..n -> V] : Follows(f, b, step, n)}
<1>1. 0 \in S
  <2> DEFINE f == [i \in 0..0 |-> b]
  <2>1. f \in [0..0 -> V] /\ f[0] = b
    OBVIOUS
  <2>2. 1..0 = {}
    OBVIOUS
  <2> QED BY <2>1, <2>2 DEF Follows
<1>2. ASSUME NEW n \in S PROVE n + 1 \in S
  <2>1. PICK f \in [0..n -> V] : Follows(f, b, step, n)
    OBVIOUS
  <2>2. n \in Nat
    OBVIOUS
  <2> DEFINE last == step[<<f[n], n + 1>>]
             g == [i \in 0..(n + 1) |-> IF i = n + 1 THEN last ELSE f[i]]
  <2>3. f[n] \in V /\ last \in V
    <3>1. f[n] \in V /\ n + 1 \in Nat
      BY <2>2
    <3>2. <<f[n], n + 1>> \in V \X Nat
      BY <3>1
    <3> QED BY <3>1, <3>2
  <2>4. \A i \in 0..(n + 1) : i = n + 1 \/ i \in 0..n
    BY <2>2
  <2>5. g \in [0..(n + 1) -> V]
    BY <2>3, <2>4
  <2>6. g[n + 1] = last /\ \A i \in 0..n : g[i] = f[i]
    BY <2>2
  <2> HIDE DEF g
  <2>7. g[0] = b
    BY <2>1, <2>2, <2>6 DEF Follows
  <2>8. ASSUME NEW i \in 1..(n + 1) PROVE g[i] = step[<<g[i - 1], i>>]
    <3>1. CASE i = n + 1
      <4>1. g[i - 1] = f[n]
        BY <3>1, <2>2, <2>6
      <4> QED BY <3>1, <4>1, <2>6
    <3>2. CASE i # n + 1
      <4>1. i \in 1..n /\ i \in 0..n /\ i - 1 \in 0..n
        BY <3>2, <2>2
      <4> QED BY <4>1, <2>1, <2>6 DEF Follows
    <3> QED BY <3>1, <3>2
  <2>9. Follows(g, b, step, n + 1)
    BY <2>7, <2>8 DEF Follows
  <2> QED BY <2>2, <2>5, <2>9
<1> HIDE DEF S
<1>3. S \in SUBSET Nat
  BY DEF S
<1>4. S = Nat
  BY <1>1, <1>2, <1>3, Induction
<1> QED BY <1>4 DEF S

(* There is a function that follows a recursion for good. *)
LEMMA PrimitiveRecursion ==
  ASSUME NEW V, NEW b \in V, NEW step \in [V \X Nat -> V]
  PROVE  \E f \in [Nat -> V] : \A n \in Nat : Follows(f, b, step, n)
<1> DEFINE upTo(n) == CHOOSE f \in [0..n -> V] : Follows(f, b, step, n)
           f == [n \in Nat |-> upTo(n)[n]]
<1>1. \A n \in Nat : upTo(n) \in [0..n -> V] /\ Follows(upTo(n), b, step, n)
  BY FiniteRecursion
<1> HIDE DEF upTo
<1>2. \A n \in Nat : f[n] = upTo(n)[n] /\ f[n] \in V
  BY <1>1
<1>3. f \in [Nat -> V]
  BY <1>2
<1> HIDE DEF f
<1>4. f[0] = b
  BY <1>1, <1>2 DEF Follows
<1>5. ASSUME NEW n \in Nat \ {0} PROVE f[n] = step[<<f[n - 1], n>>]
  <2>1. n - 1 \in Nat /\ n \in 1..n /\ n - 1 \in 0..(n - 1)
    OBVIOUS
  <2>2. Follows(upTo(n), b, step, n - 1)
    BY <1>1, <2>1 DEF Follows
  <2>3. upTo(n)[n - 1] = upTo(n - 1)[n - 1]
    <3>1. Follows(upTo(n - 1), b, step, n - 1)
      BY <1>1, <2>1
    <3> QED BY <2>1, <2>2, <3>1, RecursionIsUnique
  <2>4. upTo(n)[n] = step[<<upTo(n)[n - 1], n>>]
    BY <1>1, <2>1 DEF Follows
  <2> QED BY <2>1, <2>3, <2>4, <1>2
<1>6. \A n \in Nat : Follows(f, b, step, n)
  BY <1>4, <1>5 DEF Follows
<1> QED BY <1>3, <1>6

-----------------------------------------------------------------------------
(* Powers of two. *)
LEMMA PowerRecursion ==
  /\ PowerOf2 = [n \in Nat |-> IF n = 0 THEN 1 ELSE 2 * PowerOf2[n - 1]]
  /\ PowerOf2 \in [Nat -> Nat \ {0}]
<1> DEFINE V == Nat \ {0}
           Is(f) == f = [n \in Nat |-> IF n = 0 THEN 1 ELSE 2 * f[n - 1]]
           step == [p \in V \X Nat |-> 2 * p[1]]
<1>1. PowerOf2 = CHOOSE f : Is(f)
  BY Zenon DEF PowerOf2
<1>2. step \in [V \X Nat -> V]
  OBVIOUS
<1>3. 1 \in V
  OBVIOUS
<1>4. \A v \in V, i \in Nat : step[<<v, i>>] = 2 * v
  OBVIOUS
<1> HIDE DEF step
<1>5. PICK f \in [Nat -> V] : \A n \in Nat : Follows(f, 1, step, n)
  BY <1>2, <1>3, PrimitiveRecursion
<1>6. ASSUME NEW n \in Nat PROVE f[n] = IF n = 0 THEN 1 ELSE 2 * f[n - 1]
  <2>1. CASE n = 0
    BY <1>5, <2>1 DEF Follows
  <2>2. CASE n # 0
    <3>1. n \in 1..n /\ n - 1 \in Nat
      BY <2>2
    <3>2. f[n] = step[<<f[n - 1], n>>]
      BY <3>1, <1>5 DEF Follows
    <3>3. f[n - 1] \in V
      BY <3>1
    <3> QED BY <2>2, <3>2, <3>3, <1>4
  <2> QED BY <2>1, <2>2
<1>7. Is(f)
  BY <1>6
<1>8. ASSUME NEW g, Is(g) PROVE g = f
  <2>1. DOMAIN g = Nat
    BY <1>8
  <2>2. \A n \in Nat : g[n] = IF n = 0 THEN 1 ELSE 2 * g[n - 1]
    BY <1>8
  <2> DEFINE S == {n \in Nat : g[n] = f[n]}
  <2>3. 0 \in S
    BY <2>2, <1>6
  <2>4. ASSUME NEW n \in S PROVE n + 1 \in S
    BY <2>2, <1>6
  <2> HIDE DEF S
  <2>5. S \in SUBSET Nat
    BY DEF S
  <2>6. S = Nat
    BY <2>3, <2>4, <2>5, Induction
  <2>7. \A n \in Nat : g[n] = f[n]
    BY <2>6 DEF S
  <2>8. g = [n \in Nat |-> g[n]]
    BY <1>8
  <2> QED BY <2>7, <2>8
<1> HIDE DEF Is
<1>9. Is(PowerOf2)
  BY <1>1, <1>7
<1>10. PowerOf2 = f
  BY <1>8, <1>9
<1> QED BY <1>9, <1>10 DEF Is

LEMMA PowerType ==
  ASSUME NEW n \in Nat
  PROVE  PowerOf2[n] \in Nat \ {0}
  BY PowerRecursion

LEMMA PowerStep ==
  /\ PowerOf2[0] = 1
  /\ \A n \in Nat : PowerOf2[n + 1] = 2 * PowerOf2[n]
<1> DEFINE f == PowerOf2
<1>1. f = [n \in Nat |-> IF n = 0 THEN 1 ELSE 2 * f[n - 1]]
  BY PowerRecursion
<1> HIDE DEF f
<1>2. \A n \in Nat : f[n] = IF n = 0 THEN 1 ELSE 2 * f[n - 1]
  BY <1>1
<1>3. \A n \in Nat : n + 1 # 0 /\ n + 1 \in Nat /\ (n + 1) - 1 = n
  OBVIOUS
<1>4. \A n \in Nat : f[n + 1] = 2 * f[n]
  BY <1>2, <1>3
<1> QED BY <1>2, <1>4 DEF f

LEMMA Associative ==
  ASSUME NEW a \in Int, NEW b \in Int, NEW c \in Int
  PROVE  /\ (a * b) * c = a * (b * c)
         /\ a * b = b * a
         /\ a * b \in Int
  OBVIOUS

(* m + n bits hold what m bits and n bits hold side by side. *)
LEMMA PowerSum ==
  ASSUME NEW m \in Nat
  PROVE  \A n \in Nat : PowerOf2[m + n] = PowerOf2[m] * PowerOf2[n]
<1> DEFINE S == {n \in Nat : PowerOf2[m + n] = PowerOf2[m] * PowerOf2[n]}
<1>1. 0 \in S
  BY PowerStep, PowerType
<1>2. ASSUME NEW n \in S PROVE n + 1 \in S
  <2> DEFINE a == PowerOf2[m]
             b == PowerOf2[n]
  <2>1. a \in Int /\ b \in Int
    BY PowerType
  <2>2. PowerOf2[m + n] = a * b /\ m + n \in Nat /\ (m + n) + 1 = m + (n + 1)
    OBVIOUS
  <2>3. PowerOf2[(m + n) + 1] = 2 * (a * b) /\ PowerOf2[n + 1] = 2 * b
    BY <2>2, PowerStep
  <2> HIDE DEF a, b
  <2>4. 2 * (a * b) = a * (2 * b)
    BY <2>1, Associative
  <2> QED BY <2>2, <2>3, <2>4 DEF a
<1> HIDE DEF S
<1>3. S \in SUBSET Nat
  BY DEF S
<1>4. S = Nat
  BY <1>1, <1>2, <1>3, Induction
<1> QED BY <1>4 DEF S

(* More bits hold no less. *)
LEMMA PowerGrows ==
  ASSUME NEW m \in Nat, NEW n \in Nat, m <= n
  PROVE  PowerOf2[m] <= PowerOf2[n]
<1>1. n - m \in Nat /\ n = m + (n - m)
  OBVIOUS
<1>2. PowerOf2[n] = PowerOf2[m] * PowerOf2[n - m]
  BY <1>1, PowerSum
<1>3. \A a \in Nat, b \in Nat \ {0} : a <= a * b
  OBVIOUS
<1> QED BY <1>1, <1>2, <1>3, PowerType

-----------------------------------------------------------------------------
(* A number made of a high and a low digit. *)
LEMMA DivModDigits ==
  ASSUME NEW u \in Nat \ {0}, NEW high \in Int, NEW low \in 0..(u - 1)
  PROVE  /\ (high * u + low) \div u = high
         /\ (high * u + low) % u = low
  OBVIOUS

LEMMA DigitsOf ==
  ASSUME NEW u \in Nat \ {0}, NEW x \in Nat
  PROVE  /\ x \div u \in Nat /\ x % u \in 0..(u - 1)
         /\ x = (x \div u) * u + (x % u)
  OBVIOUS

LEMMA ProductGrows ==
  ASSUME NEW a \in Nat, NEW b \in Nat, NEW u \in Nat, a <= b
  PROVE  a * u <= b * u
  OBVIOUS
=============================================================================
