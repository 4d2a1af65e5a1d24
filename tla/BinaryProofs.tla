---------------------------- MODULE BinaryProofs ----------------------------
(***************************************************************************)
(* Lemmas about Binary: the laws of 2 ^ n, and what the digits of a number *)
(* and the number of a set of digits have to do with each other.           *)
(*                                                                         *)
(* Induction is done on sets (Induction: a set of numbers with 0 and with  *)
(* the successor of each of its elements is Nat), from the well-founded    *)
(* order of Nat.  Recursion says that a function given by its first value  *)
(* and a step exists; Pow2 and Number are such functions.                  *)
(***************************************************************************)
EXTENDS Binary, WellFoundedInduction, TLAPS

-----------------------------------------------------------------------------
(* Induction. *)

LEMMA LeastElement ==
  ASSUME NEW S \in SUBSET Nat, S # {}
  PROVE  \E n \in S : \A m \in S : n <= m
<1>1. PICK n \in S : \A m \in S : ~ (<<m, n>> \in OpToRel(<, Nat))
  BY NatLessThanWellFounded, WFMin
<1>2. \A m \in S : ~ (m < n)
  BY <1>1 DEF OpToRel
<1> QED
  BY <1>2

LEMMA Induction ==
  ASSUME NEW S \in SUBSET Nat, 0 \in S, \A n \in S : n + 1 \in S
  PROVE  S = Nat
<1>1. SUFFICES ASSUME Nat \ S # {} PROVE FALSE
  OBVIOUS
<1>2. PICK n \in Nat \ S : \A m \in Nat \ S : n <= m
  BY <1>1, LeastElement
<1>3. n - 1 \in Nat /\ n - 1 \notin S
  BY <1>2
<1> QED
  BY <1>2, <1>3

-----------------------------------------------------------------------------
(* Recursion: the first value is a, and h makes the next one of the place
   and the value before. *)

\* f is such a function up to n.
IsRun(f, n, S, a, h) ==
  /\ f \in [0 .. n -> S]
  /\ f[0] = a
  /\ \A m \in 0 .. n - 1 : f[m + 1] = h[<<m, f[m]>>]

LEMMA RunExists ==
  ASSUME NEW S, NEW a \in S, NEW h \in [Nat \X S -> S]
  PROVE  \A n \in Nat : \E f : IsRun(f, n, S, a, h)
<1> DEFINE I == {n \in Nat : \E f : IsRun(f, n, S, a, h)}
<1>1. 0 \in I
  <2>1. IsRun([m \in 0 .. 0 |-> a], 0, S, a, h)
    BY DEF IsRun
  <2> QED
    BY <2>1
<1>2. ASSUME NEW n \in I PROVE n + 1 \in I
  <2>1. PICK f : IsRun(f, n, S, a, h)
    BY <1>2
  <2>0. n \in Nat
    OBVIOUS
  <2> DEFINE g == [m \in 0 .. n + 1 |-> IF m = n + 1 THEN h[<<n, f[n]>>] ELSE f[m]]
  <2>2. h[<<n, f[n]>>] \in S
    BY <2>1 DEF IsRun
  <2>3. g \in [0 .. n + 1 -> S] /\ g[0] = a
    BY <2>1, <2>2 DEF IsRun
  <2>4. ASSUME NEW m \in 0 .. (n + 1) - 1 PROVE g[m + 1] = h[<<m, g[m]>>]
    <3>1. CASE m = n
      <4>1. g[n + 1] = h[<<n, f[n]>>] /\ g[n] = f[n]
        BY <2>0
      <4> QED
        BY <3>1, <4>1
    <3>2. CASE m # n
      <4>1. m \in 0 .. n - 1 /\ m + 1 # n + 1 /\ m # n + 1
        BY <2>0, <3>2
      <4>2. g[m + 1] = f[m + 1] /\ g[m] = f[m]
        BY <4>1
      <4>3. f[m + 1] = h[<<m, f[m]>>]
        BY <2>1, <4>1 DEF IsRun
      <4> QED
        BY <4>2, <4>3
    <3> QED
      BY <3>1, <3>2
  <2>5. IsRun(g, n + 1, S, a, h)
    BY <2>3, <2>4 DEF IsRun
  <2> QED
    BY <2>0, <2>5
<1>3. I = Nat
  <2> HIDE DEF I
  <2>1. I \in SUBSET Nat
    BY DEF I
  <2> QED
    BY <1>1, <1>2, <2>1, Induction
<1> QED
  BY <1>3

LEMMA RunsAgree ==
  ASSUME NEW S, NEW a, NEW h, NEW f, NEW g, NEW m \in Nat, NEW n \in Nat,
         IsRun(f, m, S, a, h), IsRun(g, n, S, a, h)
  PROVE  \A j \in Nat : j <= m /\ j <= n => f[j] = g[j]
<1> DEFINE I == {j \in Nat : j <= m /\ j <= n => f[j] = g[j]}
<1>1. 0 \in I
  BY DEF IsRun
<1>2. ASSUME NEW j \in I PROVE j + 1 \in I
  <2> SUFFICES ASSUME j + 1 <= m, j + 1 <= n PROVE f[j + 1] = g[j + 1]
    OBVIOUS
  <2>1. f[j] = g[j] /\ j \in 0 .. m - 1 /\ j \in 0 .. n - 1
    OBVIOUS
  <2> QED
    BY <2>1 DEF IsRun
<1>3. I = Nat
  <2> HIDE DEF I
  <2>1. I \in SUBSET Nat
    BY DEF I
  <2> QED
    BY <1>1, <1>2, <2>1, Induction
<1> QED
  BY <1>3

IsStep(h, S) == h \in [Nat \X S -> S]

IsRecursive(f, S, a, h) ==
  /\ f \in [Nat -> S]
  /\ f[0] = a
  /\ \A n \in Nat : f[n + 1] = h[<<n, f[n]>>]

LEMMA Recursion ==
  ASSUME NEW S, NEW a, NEW h, a \in S, IsStep(h, S)
  PROVE  \E f : IsRecursive(f, S, a, h)
<1> DEFINE run == [n \in Nat |-> CHOOSE f : IsRun(f, n, S, a, h)]
           f == [n \in Nat |-> run[n][n]]
<1>1. \A n \in Nat : IsRun(run[n], n, S, a, h)
  BY RunExists DEF IsStep
<1> HIDE DEF run
<1>2. f \in [Nat -> S] /\ f[0] = a
  BY <1>1 DEF IsRun
<1>3. ASSUME NEW n \in Nat PROVE f[n + 1] = h[<<n, f[n]>>]
  <2>1. run[n + 1][n] = run[n][n]
    BY <1>1, RunsAgree
  <2>2. run[n + 1][n + 1] = h[<<n, run[n + 1][n]>>]
    BY <1>1 DEF IsRun
  <2> QED
    BY <2>1, <2>2
<1> QED
  BY <1>2, <1>3 DEF IsRecursive

-----------------------------------------------------------------------------
(* Powers of two and numbers. *)

LEMMA Pow2Laws ==
  /\ Pow2 \in [Nat -> Nat \ {0}]
  /\ Pow2[0] = 1
  /\ \A n \in Nat : Pow2[n + 1] = 2 * Pow2[n]
<1>1. PICK S : S = Nat \ {0}
  OBVIOUS
<1>2. PICK h : h = [p \in Nat \X S |-> 2 * p[2]]
  OBVIOUS
<1>3. IsStep(h, S) /\ 1 \in S
  BY <1>1, <1>2 DEF IsStep
<1>4. PICK f : IsRecursive(f, S, 1, h)
  BY <1>3, Recursion
<1> USE DEF IsRecursive
<1>5. ASSUME NEW n \in Nat \ {0} PROVE f[n] = 2 * f[n - 1]
  <2>1. PICK m \in Nat : n = m + 1 /\ m = n - 1
    BY <1>5
  <2>2. h[<<m, f[m]>>] = 2 * f[m]
    BY <1>2, <1>4
  <2> QED
    BY <1>4, <2>1, <2>2
<1>6. f = [n \in Nat |-> IF n = 0 THEN 1 ELSE 2 * f[n - 1]]
  BY <1>4, <1>5
<1>7. PICK g : g = Pow2
  OBVIOUS
<1>8. g = [n \in Nat |-> IF n = 0 THEN 1 ELSE 2 * g[n - 1]]
  BY <1>6, <1>7 DEF Pow2
<1>9. g[0] = 1
  BY <1>8
<1>10. ASSUME NEW n \in Nat PROVE g[n + 1] = 2 * g[n]
  <2>1. n + 1 \in Nat /\ n + 1 # 0 /\ (n + 1) - 1 = n
    OBVIOUS
  <2> QED
    BY <1>8, <2>1
<1>11. g \in [Nat -> Nat \ {0}]
  <2> DEFINE I == {n \in Nat : g[n] \in Nat \ {0}}
  <2>1. 0 \in I /\ \A n \in I : n + 1 \in I
    BY <1>9, <1>10
  <2>2. I = Nat
    <3> HIDE DEF I
    <3>1. I \in SUBSET Nat
      BY DEF I
    <3> QED
      BY <2>1, <3>1, Induction
  <2> QED
    BY <1>8, <2>2
<1> QED
  BY <1>7, <1>9, <1>10, <1>11

\* v[n]: the number that the n lowest digits make.
IsValue(v, digits) ==
  /\ v \in [Nat -> Nat]
  /\ v[0] = 0
  /\ \A n \in Nat : v[n + 1] = v[n] + (IF n \in digits THEN Pow2[n] ELSE 0)

LEMMA ValueExists ==
  ASSUME NEW digits
  PROVE  \E v : IsValue(v, digits) /\ \A w \in Nat : Number(digits, w) = v[w]
<1> DEFINE Weight(n) == IF n \in digits THEN Pow2[n] ELSE 0
<1>1. \A n \in Nat : Weight(n) \in Nat
  BY Pow2Laws
<1> HIDE DEF Weight
<1>2. PICK h : h = [p \in Nat \X Nat |-> p[2] + Weight(p[1])]
  OBVIOUS
<1>3. IsStep(h, Nat) /\ 0 \in Nat
  BY <1>1, <1>2 DEF IsStep
<1>4. PICK f : IsRecursive(f, Nat, 0, h)
  BY <1>3, Recursion
<1>5. f \in [Nat -> Nat] /\ f[0] = 0
  BY <1>4 DEF IsRecursive
<1>6. ASSUME NEW n \in Nat PROVE f[n + 1] = f[n] + Weight(n)
  <2>1. f[n + 1] = h[<<n, f[n]>>]
    BY <1>4 DEF IsRecursive
  <2> QED
    BY <1>2, <1>5, <2>1
<1>7. ASSUME NEW n \in Nat \ {0} PROVE f[n] = f[n - 1] + Weight(n - 1)
  <2>1. PICK m \in Nat : n = m + 1 /\ m = n - 1
    BY <1>7
  <2> QED
    BY <1>6, <2>1
<1>8. f = [n \in Nat |-> IF n = 0 THEN 0 ELSE f[n - 1] + Weight(n - 1)]
  BY <1>5, <1>7
<1> DEFINE Equation(v) ==
      v = [n \in Nat |->
            IF n = 0 THEN 0
            ELSE v[n - 1] + IF n - 1 \in digits THEN Pow2[n - 1] ELSE 0]
<1>9. Equation(f)
  BY <1>8 DEF Weight
<1>10. PICK v : v = CHOOSE u : Equation(u)
  OBVIOUS
<1>11. Equation(v)
  BY <1>9, <1>10
<1>12. \A w \in Nat : Number(digits, w) = v[w]
  BY <1>10 DEF Number
<1>13. v = [n \in Nat |-> IF n = 0 THEN 0 ELSE v[n - 1] + Weight(n - 1)]
  BY <1>11 DEF Weight
<1> HIDE DEF Equation
<1>14. v[0] = 0
  BY <1>13
<1>15. ASSUME NEW n \in Nat PROVE v[n + 1] = v[n] + Weight(n)
  <2>1. n + 1 \in Nat /\ n + 1 # 0 /\ (n + 1) - 1 = n
    OBVIOUS
  <2> QED
    BY <1>13, <2>1
<1>16. v \in [Nat -> Nat]
  <2> DEFINE I == {n \in Nat : v[n] \in Nat}
  <2>1. 0 \in I /\ \A n \in I : n + 1 \in I
    BY <1>1, <1>14, <1>15
  <2>2. I = Nat
    <3> HIDE DEF I
    <3>1. I \in SUBSET Nat
      BY DEF I
    <3> QED
      BY <2>1, <3>1, Induction
  <2> QED
    BY <1>13, <2>2
<1> QED
  BY <1>12, <1>14, <1>15, <1>16 DEF IsValue, Weight

LEMMA NumberLaws ==
  ASSUME NEW digits
  PROVE  /\ Number(digits, 0) = 0
         /\ \A n \in Nat : Number(digits, n) \in Nat
         /\ \A n \in Nat : Number(digits, n + 1) =
              Number(digits, n) + (IF n \in digits THEN Pow2[n] ELSE 0)
<1>1. PICK v : IsValue(v, digits) /\ \A w \in Nat : Number(digits, w) = v[w]
  BY ValueExists
<1>2. 0 \in Nat /\ \A n \in Nat : n + 1 \in Nat
  OBVIOUS
<1> QED
  BY <1>1, <1>2 DEF IsValue

LEMMA Pow2Grows ==
  \A m, n \in Nat : m <= n => Pow2[m] <= Pow2[n]
<1> SUFFICES ASSUME NEW m \in Nat
             PROVE  \A n \in Nat : m <= n => Pow2[m] <= Pow2[n]
  OBVIOUS
<1> DEFINE I == {n \in Nat : m <= n => Pow2[m] <= Pow2[n]}
<1>1. 0 \in I
  BY Pow2Laws
<1>2. ASSUME NEW n \in I PROVE n + 1 \in I
  <2>1. Pow2[n + 1] = 2 * Pow2[n] /\ Pow2[n] \in Nat /\ Pow2[m] \in Nat
    BY Pow2Laws
  <2>2. m <= n + 1 => m <= n \/ m = n + 1
    OBVIOUS
  <2> QED
    BY <2>1, <2>2
<1>3. I = Nat
  <2> HIDE DEF I
  <2>1. I \in SUBSET Nat
    BY DEF I
  <2> QED
    BY <1>1, <1>2, <2>1, Induction
<1> QED
  BY <1>3

\* The n lowest digits stay below 2 ^ n.
LEMMA NumberBound ==
  ASSUME NEW digits
  PROVE  \A n \in Nat : Number(digits, n) < Pow2[n]
<1> DEFINE I == {n \in Nat : Number(digits, n) < Pow2[n]}
<1>1. 0 \in I
  BY NumberLaws, Pow2Laws
<1>2. ASSUME NEW n \in I PROVE n + 1 \in I
  <2>1. Pow2[n + 1] = 2 * Pow2[n] /\ Pow2[n] \in Nat /\ Number(digits, n) \in Nat
    BY NumberLaws, Pow2Laws
  <2>2. Number(digits, n + 1) =
          Number(digits, n) + (IF n \in digits THEN Pow2[n] ELSE 0)
    BY NumberLaws
  <2> QED
    BY <2>1, <2>2
<1>3. I = Nat
  <2> HIDE DEF I
  <2>1. I \in SUBSET Nat
    BY DEF I
  <2> QED
    BY <1>1, <1>2, <2>1, Induction
<1> QED
  BY <1>3

\* More ones make no smaller number.
LEMMA NumberMonotone ==
  ASSUME NEW digits, NEW more, digits \subseteq more
  PROVE  \A n \in Nat : Number(digits, n) <= Number(more, n)
<1> DEFINE I == {n \in Nat : Number(digits, n) <= Number(more, n)}
<1>1. 0 \in I
  BY NumberLaws
<1>2. ASSUME NEW n \in I PROVE n + 1 \in I
  <2>1. /\ Pow2[n] \in Nat /\ Number(digits, n) \in Nat /\ Number(more, n) \in Nat
        /\ Number(digits, n) <= Number(more, n)
    BY NumberLaws, Pow2Laws
  <2>2. /\ Number(digits, n + 1) =
             Number(digits, n) + (IF n \in digits THEN Pow2[n] ELSE 0)
        /\ Number(more, n + 1) =
             Number(more, n) + (IF n \in more THEN Pow2[n] ELSE 0)
    BY NumberLaws
  <2> QED
    BY <2>1, <2>2
<1>3. I = Nat
  <2> HIDE DEF I
  <2>1. I \in SUBSET Nat
    BY DEF I
  <2> QED
    BY <1>1, <1>2, <2>1, Induction
<1> QED
  BY <1>3

\* Zeroes in front do not count.
LEMMA NumberStops ==
  ASSUME NEW digits, NEW m \in Nat, \A b \in digits : b \in Nat /\ b < m
  PROVE  \A n \in Nat : m <= n => Number(digits, n) = Number(digits, m)
<1> DEFINE I == {n \in Nat : m <= n => Number(digits, n) = Number(digits, m)}
<1>1. 0 \in I
  OBVIOUS
<1>2. ASSUME NEW n \in I PROVE n + 1 \in I
  <2>1. CASE n + 1 <= m
    BY <2>1
  <2>2. CASE m <= n
    <3>1. n \notin digits
      BY <2>2
    <3>2. Number(digits, n + 1) = Number(digits, n)
      <4>1. Number(digits, n + 1) =
              Number(digits, n) + (IF n \in digits THEN Pow2[n] ELSE 0)
        BY NumberLaws
      <4>2. Number(digits, n) \in Nat
        BY NumberLaws
      <4> QED
        BY <3>1, <4>1, <4>2
    <3> QED
      BY <2>2, <3>2
  <2> QED
    BY <2>1, <2>2
<1>3. I = Nat
  <2> HIDE DEF I
  <2>1. I \in SUBSET Nat
    BY DEF I
  <2> QED
    BY <1>1, <1>2, <2>1, Induction
<1> QED
  BY <1>3

\* Ones only: 2 ^ n - 1.
LEMMA NumberOfOnes ==
  ASSUME NEW digits
  PROVE  \A n \in Nat : 0 .. n - 1 \subseteq digits => Number(digits, n) = Pow2[n] - 1
<1> DEFINE I ==
      {n \in Nat : 0 .. n - 1 \subseteq digits => Number(digits, n) = Pow2[n] - 1}
<1>1. 0 \in I
  BY NumberLaws, Pow2Laws
<1>2. ASSUME NEW n \in I PROVE n + 1 \in I
  <2> SUFFICES ASSUME 0 .. (n + 1) - 1 \subseteq digits
               PROVE  Number(digits, n + 1) = Pow2[n + 1] - 1
    OBVIOUS
  <2>1. n \in digits /\ 0 .. n - 1 \subseteq digits
    OBVIOUS
  <2>2. Number(digits, n) = Pow2[n] - 1
    BY <2>1
  <2>3. Number(digits, n + 1) = Number(digits, n) + Pow2[n]
    BY <2>1, NumberLaws
  <2>4. Pow2[n + 1] = 2 * Pow2[n] /\ Pow2[n] \in Nat
    BY Pow2Laws
  <2> QED
    BY <2>2, <2>3, <2>4
<1>3. I = Nat
  <2> HIDE DEF I
  <2>1. I \in SUBSET Nat
    BY DEF I
  <2> QED
    BY <1>1, <1>2, <2>1, Induction
<1> QED
  BY <1>3

-----------------------------------------------------------------------------
(* Digits. *)

LEMMA Division ==
  ASSUME NEW p \in Nat \ {0}, NEW x \in Nat
  PROVE  /\ x \div p \in Nat
         /\ x % p \in 0 .. p - 1
         /\ x = p * (x \div p) + (x % p)
BY SMT

LEMMA DivisionIsUnique ==
  ASSUME NEW p \in Nat \ {0}, NEW x \in Nat, NEW q \in Nat, NEW r \in 0 .. p - 1,
         x = p * q + r
  PROVE  x \div p = q
BY SMT

\* Dividing by 2 * p is dividing by p and then by 2.
LEMMA HalfOfQuotient ==
  ASSUME NEW p \in Nat \ {0}, NEW x \in Nat
  PROVE  x \div (2 * p) = (x \div p) \div 2
<1>1. PICK q \in Nat, r \in 0 .. p - 1 : q = x \div p /\ r = x % p /\ x = p * q + r
  BY Division
<1>2. PICK h \in Nat, b \in 0 .. 1 : h = q \div 2 /\ q = 2 * h + b
  BY Division
<1>3. PICK s \in Nat : s = p * b + r
  BY <1>1, <1>2
<1>4. s \in 0 .. 2 * p - 1
  BY <1>2, <1>3
<1>5. x = (2 * p) * h + s
  BY <1>1, <1>2, <1>3
<1>6. 2 * p \in Nat \ {0}
  OBVIOUS
<1> QED
  BY <1>1, <1>2, <1>4, <1>5, <1>6, DivisionIsUnique, SMTT(30)

\* The ones of x below place n make what is left of x after dividing by 2 ^ n.
LEMMA DigitsAddUp ==
  ASSUME NEW x \in Nat, NEW width \in Nat
  PROVE  \A n \in 0 .. width :
           x = Number(Digits(x, width), n) + Pow2[n] * (x \div Pow2[n])
<1> DEFINE D == Digits(x, width)
           I == {n \in Nat : n <= width => x = Number(D, n) + Pow2[n] * (x \div Pow2[n])}
<1>1. 0 \in I
  <2>1. Pow2[0] = 1 /\ Number(D, 0) = 0
    BY NumberLaws, Pow2Laws
  <2>2. x \div 1 = x
    OBVIOUS
  <2>3. x = 0 + 1 * (x \div 1)
    BY <2>2
  <2> QED
    BY <2>1, <2>3
<1>2. ASSUME NEW n \in I PROVE n + 1 \in I
  <2> SUFFICES ASSUME n + 1 <= width
               PROVE  x = Number(D, n + 1) + Pow2[n + 1] * (x \div Pow2[n + 1])
    OBVIOUS
  <2>1. PICK p \in Nat \ {0} : p = Pow2[n]
    BY Pow2Laws
  <2>2. Pow2[n + 1] = 2 * p
    BY <2>1, Pow2Laws
  <2>3. PICK q \in Nat : q = x \div p
    BY Division
  <2>4. PICK v \in Nat : v = Number(D, n)
    BY NumberLaws
  <2>5. x = v + p * q
    BY <2>1, <2>3, <2>4
  <2>6. PICK h \in Nat, b \in 0 .. 1 : h = q \div 2 /\ b = q % 2 /\ q = 2 * h + b
    OBVIOUS
  <2>7. x \div (2 * p) = h
    BY <2>3, <2>6, HalfOfQuotient
  <2>8. n \in D <=> b = 1
    BY <2>1, <2>3, <2>6 DEF Digits
  <2>9. Number(D, n + 1) = v + p * b
    <3>1. Number(D, n + 1) = v + (IF n \in D THEN p ELSE 0)
      BY <2>1, <2>4, NumberLaws
    <3>2. CASE b = 1
      BY <2>8, <3>1, <3>2
    <3>3. CASE b = 0
      BY <2>8, <3>1, <3>3
    <3> QED
      BY <3>2, <3>3
  <2>10. x = (v + p * b) + (2 * p) * h
    BY <2>5, <2>6
  <2> QED
    BY <2>2, <2>7, <2>9, <2>10
<1>3. I = Nat
  <2> HIDE DEF I
  <2>1. I \in SUBSET Nat
    BY DEF I
  <2> QED
    BY <1>1, <1>2, <2>1, Induction
<1> QED
  BY <1>3

\* A number that has that many digits is made of them.
LEMMA NumberOfDigits ==
  ASSUME NEW width \in Nat, NEW x \in Nat, x < Pow2[width]
  PROVE  Number(Digits(x, width), width) = x
<1>1. PICK p \in Nat \ {0} : p = Pow2[width]
  BY Pow2Laws
<1>2. x \div p = 0
  BY <1>1, DivisionIsUnique
<1>3. x = Number(Digits(x, width), width) + p * (x \div p)
  BY <1>1, DigitsAddUp
<1>4. Number(Digits(x, width), width) \in Nat
  BY NumberLaws
<1> QED
  BY <1>2, <1>3, <1>4

\* A number below 2 ^ top has no one at top or above.
LEMMA DigitsBelow ==
  ASSUME NEW width \in Nat, NEW top \in Nat, NEW x \in Nat, x < Pow2[top]
  PROVE  \A d \in Digits(x, width) : d \in Nat /\ d < top
<1> SUFFICES ASSUME NEW d \in Digits(x, width), ~ (d < top) PROVE FALSE
  BY DEF Digits
<1>1. d \in Nat /\ (x \div Pow2[d]) % 2 = 1
  BY DEF Digits
<1>2. PICK p \in Nat \ {0} : p = Pow2[d]
  BY <1>1, Pow2Laws
<1>3. x < p
  <2>1. Pow2[top] <= Pow2[d] /\ Pow2[top] \in Nat
    BY <1>1, Pow2Grows, Pow2Laws
  <2> QED
    BY <1>2, <2>1
<1>4. x \div p = 0
  BY <1>3, DivisionIsUnique
<1> QED
  BY <1>1, <1>2, <1>4

LEMMA SmallRemainder ==
  ASSUME NEW p \in Nat, NEW x \in Nat, x < p
  PROVE  x % p = x
BY SMT

\* The highest one of a positive number.
LEMMA HighestOne ==
  ASSUME NEW width \in Nat, NEW x \in Nat \ {0}, x < Pow2[width]
  PROVE  \E d \in Digits(x, width) :
           /\ \A b \in Digits(x, width) : b <= d
           /\ Pow2[d] <= x /\ x < Pow2[d + 1]
<1> DEFINE D == Digits(x, width)
           Above == {n \in Nat : \A b \in D : b < n}
<1>0. D \subseteq Nat
  BY DEF Digits
<1>1. width \in Above
  BY DEF Digits
<1>2. PICK n \in Above : \A m \in Above : n <= m
  <2> HIDE DEF Above
  <2>1. Above \in SUBSET Nat
    BY DEF Above
  <2> QED
    BY <1>1, <2>1, LeastElement
<1>3. Number(D, n) = x
  <2>1. Number(D, width) = x
    BY NumberOfDigits
  <2>2. n \in Nat /\ n <= width /\ \A b \in D : b \in Nat /\ b < n
    BY <1>0, <1>1, <1>2
  <2> HIDE DEF D, Above
  <2> QED
    BY <2>1, <2>2, NumberStops
<1>4. n # 0
  BY <1>3, NumberLaws
<1>5. PICK d \in Nat : n = d + 1
  <2>1. n - 1 \in Nat /\ n = (n - 1) + 1
    BY <1>4
  <2> QED
    BY <2>1
<1>6. d \in D
  <2>1. d \notin Above
    BY <1>2, <1>5
  <2>2. PICK b \in D : ~ (b < d)
    BY <2>1
  <2>3. b = d
    BY <1>0, <1>2, <1>5, <2>2
  <2> QED
    BY <2>2, <2>3
<1>7. \A b \in D : b <= d
  BY <1>0, <1>2, <1>5
<1>8. Pow2[d] <= x /\ x < Pow2[d + 1]
  <2>1. x = Number(D, d) + Pow2[d]
    BY <1>3, <1>5, <1>6, NumberLaws
  <2>2. Number(D, d) \in Nat /\ Number(D, d) < Pow2[d]
    BY NumberLaws, NumberBound
  <2>3. Pow2[d] \in Nat /\ Pow2[d + 1] = 2 * Pow2[d]
    BY Pow2Laws
  <2> QED
    BY <2>1, <2>2, <2>3
<1> QED
  BY <1>6, <1>7, <1>8
=============================================================================
