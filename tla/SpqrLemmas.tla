------------------------------ MODULE SpqrLemmas ------------------------------
(***************************************************************************)
(* Facts about remainders, bags and sums that the proofs of the project    *)
(* use.  Slot numbers are remainders modulo the window size, datagrams in  *)
(* flight are bags; a silence is a sum of timeouts.                        *)
(***************************************************************************)
EXTENDS Integers, Bags, WellFoundedInduction, TLAPS

\* A number is its quotient and its remainder.
LEMMA DivMod ==
  ASSUME NEW a \in Nat, NEW w \in Nat \ {0}
  PROVE  a \div w \in Nat /\ a % w \in 0 .. w-1 /\ a = w * (a \div w) + (a % w)
BY SMT

\* Quotient and remainder are unique.
LEMMA ModUnique ==
  ASSUME NEW w \in Nat \ {0}, NEW q \in Nat, NEW r \in 0 .. w-1,
         NEW a \in Nat, a = w * q + r
  PROVE  a % w = r
<1>1. (w * q + r) % w = r  BY SMT
<1> QED  BY <1>1

\* A number below w is its own remainder.
LEMMA ModSmall ==
  ASSUME NEW w \in Nat \ {0}, NEW a \in 0 .. w-1
  PROVE  a % w = a
BY SMT

\* A positive multiple of w is at least w.
LEMMA MultipleAtLeast ==
  ASSUME NEW w \in Nat \ {0}, NEW x \in Int, x >= 1
  PROVE  w * x >= w
BY SMT

\* Multiples of w do not change the remainder.
LEMMA ModShift ==
  ASSUME NEW w \in Nat \ {0}, NEW a \in Nat, NEW q \in Nat
  PROVE  (a + w * q) % w = a % w
<1> DEFINE d == a \div w
<1>1. d \in Nat /\ a % w \in 0 .. w-1 /\ a = w * d + (a % w)  BY DivMod
<1>2. w * (d + q) = w * d + w * q  BY <1>1, SMT
<1>3. w * q \in Nat /\ w * d \in Nat  BY <1>1, SMT
<1>4. a + w * q \in Nat /\ d + q \in Nat  BY <1>1, <1>3
<1> DEFINE c == a + w * q
           e == d + q
           r == a % w
<1>5. c = w * e + r  BY <1>1, <1>2, <1>3
<1>6. r \in 0 .. w-1 /\ e \in Nat /\ c \in Nat  BY <1>1, <1>4
<1> HIDE DEF c, e, r
<1>7. c % w = r  BY <1>5, <1>6, ModUnique
<1> QED  BY <1>7 DEF c, r

\* Two different numbers with one remainder are at least w apart.
LEMMA ModGap ==
  ASSUME NEW w \in Nat \ {0}, NEW a \in Nat, NEW b \in Nat, a < b, a % w = b % w
  PROVE  b >= a + w
<1> DEFINE x == (b \div w) - (a \div w)
<1>1. a = w * (a \div w) + (a % w) /\ b = w * (b \div w) + (b % w)  BY DivMod
<1>2. b - a = w * x /\ x \in Int  BY <1>1, DivMod
<1>3. x >= 1  BY <1>2, SMT
<1> QED  BY <1>2, <1>3, MultipleAtLeast

\* Adding to a remainder is adding to the number.
LEMMA ModAdd ==
  ASSUME NEW w \in Nat \ {0}, NEW a \in Nat, NEW k \in Nat
  PROVE  ((a % w) + k) % w = (a + k) % w
<1> DEFINE d == a \div w
<1>1. d \in Nat /\ a % w \in 0 .. w-1 /\ a = w * d + (a % w)  BY DivMod
<1>2. (a % w) + k \in Nat  BY <1>1
<1>3. (((a % w) + k) + w * d) % w = ((a % w) + k) % w  BY <1>1, <1>2, ModShift
<1>4. ((a % w) + k) + w * d = a + k
  <2> HIDE DEF d
  <2> QED  BY <1>1, SMT
<1> QED  BY <1>3, <1>4

\* Two numbers less than w apart with one remainder are the same.
LEMMA ModSame ==
  ASSUME NEW w \in Nat \ {0}, NEW a \in Nat, NEW b \in Nat,
         a % w = b % w, a < b + w, b < a + w
  PROVE  a = b
<1>1. ASSUME a < b PROVE FALSE
  <2>1. b >= a + w  BY <1>1, ModGap
  <2> QED  BY <2>1
<1>2. ASSUME b < a PROVE FALSE
  <2>1. a >= b + w  BY <1>2, ModGap
  <2> QED  BY <2>1
<1> QED  BY <1>1, <1>2

\* The distance d of slot s from slot b around a ring of w slots leads from b to s.
LEMMA RingDistance ==
  ASSUME NEW w \in Nat \ {0}, NEW b \in 0 .. w-1, NEW s \in 0 .. w-1
  PROVE  /\ (s - b + w) % w \in 0 .. w-1
         /\ (b + ((s - b + w) % w)) % w = s
<1>1. s - b + w \in Nat /\ b \in Nat  OBVIOUS
<1>2. (s - b + w) % w \in 0 .. w-1  BY <1>1, DivMod
<1>3. (((s - b + w) % w) + b) % w = ((s - b + w) + b) % w  BY <1>1, ModAdd
<1>4. (s - b + w) + b = s + w * 1  OBVIOUS
<1>5. (s + w * 1) % w = s % w  BY ModShift
<1>6. s % w = s  BY ModSmall
<1>7. b + ((s - b + w) % w) = ((s - b + w) % w) + b  BY <1>2
<1> QED  BY <1>2, <1>3, <1>4, <1>5, <1>6, <1>7

-----------------------------------------------------------------------------
\* The bag of a set holds just its elements.
LEMMA SetBag ==
  ASSUME NEW S
  PROVE  IsABag(SetToBag(S)) /\ BagToSet(SetToBag(S)) = S
BY DEF IsABag, SetToBag, BagToSet

\* The empty bag holds nothing.
LEMMA NoBag == IsABag(EmptyBag) /\ BagToSet(EmptyBag) = {}
BY SetBag DEF EmptyBag

\* A sum of bags holds what one of them holds.
LEMMA BagSum ==
  ASSUME NEW A, NEW B, IsABag(A), IsABag(B)
  PROVE  IsABag(A (+) B) /\ BagToSet(A (+) B) = BagToSet(A) \cup BagToSet(B)
BY DEF IsABag, BagToSet, (+)

\* A difference of bags holds no more than the first.
LEMMA BagLess ==
  ASSUME NEW A, NEW m, IsABag(A)
  PROVE  /\ IsABag(A (-) SetToBag({m}))
         /\ BagToSet(A (-) SetToBag({m})) \subseteq BagToSet(A)
BY DEF IsABag, BagToSet, SetToBag, (-)

-----------------------------------------------------------------------------
\* A set of natural numbers that is not empty has a least element.
LEMMA LeastNatural ==
  ASSUME NEW S, S \subseteq Nat, S # {}
  PROVE  \E n \in S : \A m \in S : n <= m
<1> DEFINE R == OpToRel(<, Nat)
<1>1. IsWellFoundedOn(R, Nat)  BY NatLessThanWellFounded DEF OpToRel
<1>2. \A m, n \in Nat : m < n => <<m, n>> \in R  BY DEF OpToRel
<1> HIDE DEF R
<1>3. PICK n \in S : \A m \in S : <<m, n>> \notin R  BY <1>1, WFMin
<1>4. \A m \in S : ~(m < n)  BY <1>2, <1>3
<1>5. \A m \in S : n <= m  BY <1>4
<1> QED  BY <1>5

\* So a set that holds 0, and with a number the next, holds them all.
LEMMA NaturalsOf ==
  ASSUME NEW S, 0 \in S, \A n \in Nat : n \in S => n + 1 \in S
  PROVE  Nat \subseteq S
<1> SUFFICES ASSUME Nat \ S # {}  PROVE FALSE  OBVIOUS
<1>1. PICK n \in Nat \ S : \A m \in Nat \ S : n <= m  BY LeastNatural
<1>2. n # 0 /\ n - 1 \in Nat  BY <1>1
<1>3. n - 1 \in S  BY <1>1, <1>2
<1>4. (n - 1) + 1 = n  BY <1>1
<1> QED  BY <1>2, <1>3, <1>4

\* The sums of the values of x exist as a function that refers to itself.
LEMMA SumsExist ==
  ASSUME NEW x \in [Nat -> Int]
  PROVE  \E f \in [Nat -> Int] : \A e \in Nat : f[e] = IF e = 0 THEN 0 ELSE f[e-1] + x[e-1]
<1> DEFINE Upto(f, n) == \A i \in 0 .. n : f[i] = IF i = 0 THEN 0 ELSE f[i-1] + x[i-1]
           S == {n \in Nat : \E f \in [0 .. n -> Int] : Upto(f, n)}
<1>1. Nat \subseteq S
  <2>1. 0 \in S
    <3>1. [i \in 0 .. 0 |-> 0] \in [0 .. 0 -> Int] /\ Upto([i \in 0 .. 0 |-> 0], 0)  OBVIOUS
    <3> QED  BY <3>1
  <2>2. ASSUME NEW n \in Nat, n \in S  PROVE n + 1 \in S
    <3>1. PICK f \in [0 .. n -> Int] : Upto(f, n)  BY <2>2
    <3> DEFINE g == [i \in 0 .. (n + 1) |-> IF i = n + 1 THEN f[n] + x[n] ELSE f[i]]
    <3>2. g \in [0 .. (n + 1) -> Int]  OBVIOUS
    <3>3. ASSUME NEW i \in 0 .. (n + 1)  PROVE g[i] = IF i = 0 THEN 0 ELSE g[i-1] + x[i-1]
      <4>1. CASE i = n + 1
        <5>1. i # 0 /\ i - 1 = n /\ n \in 0 .. (n + 1) /\ n # n + 1  BY <4>1
        <5>2. g[i] = f[n] + x[n] /\ g[n] = f[n]  BY <4>1, <5>1
        <5> HIDE DEF g
        <5> QED  BY <5>1, <5>2
      <4>2. CASE i # n + 1
        <5>1. i \in 0 .. n  BY <4>2
        <5>2. g[i] = f[i] /\ (i # 0 => i-1 \in 0 .. n /\ g[i-1] = f[i-1])  BY <5>1, <4>2
        <5> HIDE DEF g
        <5> QED  BY <3>1, <5>1, <5>2
      <4> QED  BY <4>1, <4>2
    <3>4. Upto(g, n + 1)  BY <3>3
    <3> HIDE DEF g, Upto
    <3> QED  BY <3>2, <3>4
  <2> HIDE DEF S
  <2> QED  BY <2>1, <2>2, NaturalsOf
<1>2. ASSUME NEW m \in Nat, NEW n \in Nat, NEW f \in [0 .. m -> Int], NEW g \in [0 .. n -> Int],
             Upto(f, m), Upto(g, n)
      PROVE  \A i \in Nat : i <= m /\ i <= n => f[i] = g[i]
  <2> DEFINE E == {i \in Nat : i <= m /\ i <= n => f[i] = g[i]}
  <2>1. 0 \in E
    <3>1. 0 \in 0 .. m /\ 0 \in 0 .. n  OBVIOUS
    <3>2. f[0] = 0 /\ g[0] = 0  BY <3>1, <1>2
    <3> QED  BY <3>2
  <2>2. ASSUME NEW i \in Nat, i \in E  PROVE i + 1 \in E
    <3> SUFFICES ASSUME i + 1 <= m /\ i + 1 <= n  PROVE f[i+1] = g[i+1]  OBVIOUS
    <3>1. f[i] = g[i]  BY <2>2
    <3>2. i + 1 \in 0 .. m /\ i + 1 \in 0 .. n /\ (i + 1) - 1 = i /\ i + 1 # 0  OBVIOUS
    <3>3. f[i+1] = f[i] + x[i] /\ g[i+1] = g[i] + x[i]  BY <1>2, <3>2
    <3> QED  BY <3>1, <3>3
  <2>3. Nat \subseteq E
    <3> HIDE DEF E
    <3> QED  BY <2>1, <2>2, NaturalsOf
  <2> QED  BY <2>3
<1> DEFINE A(n) == CHOOSE f \in [0 .. n -> Int] : Upto(f, n)
           F == [e \in Nat |-> A(e)[e]]
<1>3. \A n \in Nat : A(n) \in [0 .. n -> Int] /\ Upto(A(n), n)
  <2> HIDE DEF Upto
  <2> QED  BY <1>1
<1> HIDE DEF A
<1>4. F \in [Nat -> Int]
  <2>1. \A e \in Nat : A(e)[e] \in Int  BY <1>3
  <2> QED  BY <2>1
<1>5. ASSUME NEW e \in Nat  PROVE F[e] = IF e = 0 THEN 0 ELSE F[e-1] + x[e-1]
  <2>1. F[e] = A(e)[e] /\ e \in 0 .. e  OBVIOUS
  <2>2. A(e)[e] = IF e = 0 THEN 0 ELSE A(e)[e-1] + x[e-1]  BY <1>3, <2>1
  <2>3. CASE e = 0  BY <2>1, <2>2, <2>3
  <2>4. CASE e # 0
    <3>1. e - 1 \in Nat /\ e - 1 <= e /\ e - 1 <= e - 1  BY <2>4
    <3>2. A(e)[e-1] = A(e-1)[e-1]
      <4> HIDE DEF Upto
      <4> QED  BY <1>2, <1>3, <3>1
    <3>3. F[e-1] = A(e-1)[e-1]  BY <3>1
    <3> HIDE DEF F
    <3> QED  BY <2>1, <2>2, <2>4, <3>2, <3>3
  <2> QED  BY <2>3, <2>4
<1> HIDE DEF F
<1> QED  BY <1>4, <1>5
=============================================================================
