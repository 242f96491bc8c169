-------------------------- MODULE LimbField_proofs --------------------------
(***************************************************************************)
(* Proof that add, sub, mul and inv of math/field.rs are exact, for limbs  *)
(* of every size and every modulus as little below a word as               *)
(* LimbAssumption says: the checks that the comments of mul have doubts    *)
(* about are the ones the proof rests on, and inv needs none.              *)
(***************************************************************************)
EXTENDS LimbField, TLAPS

(* What a word has more than the modulus. *)
Surplus == Word - Modulus

Digits == 0..(Limb - 1)
Value(n) == n[1] + Limb * (n[2] + Limb * n[3])
IsLimbs(n) == n[1] \in Digits /\ n[2] \in Digits /\ n[3] \in Digits

(* mul: z is the product of the high limb, then of all of y, up to         *)
(* multiples of the modulus.                                               *)
ProductTracked ==
  request.op = "mul" =>
    /\ x \in Elements /\ y \in Elements
    /\ pc \in {"mul", "mul low", "mul reduce", "done"}
    /\ pc = "mul low" =>
         /\ IsLimbs(z) /\ z[3] = 0
         /\ \E k \in Nat : x * Hi(y) = WordOf(z) + Modulus * k
    /\ pc = "mul reduce" =>
         /\ IsLimbs(z)
         /\ \E k \in Nat : x * y = Value(z) + Modulus * k
    /\ ProductExact
-----------------------------------------------------------------------------
(* Arithmetic *)

(* Quotient and remainder are what they are named for. *)
LEMMA DivisionIs ==
  ASSUME NEW k \in Nat \ {0}, NEW q \in Nat, NEW r \in 0..(k - 1), NEW n \in Nat, n = k * q + r
  PROVE  n % k = r /\ n \div k = q
OBVIOUS

(* Every number has them. *)
LEMMA Division ==
  ASSUME NEW k \in Nat \ {0}, NEW n \in Nat
  PROVE  \E q \in Nat : \E r \in 0..(k - 1) : n = k * q + r /\ q = n \div k /\ r = n % k
OBVIOUS

(* The sizes of limb, word and modulus. *)
LEMMA Sizes ==
  /\ Limb \in Nat /\ Limb > 1 /\ Word = Limb * Limb /\ Word \in Nat /\ Word >= 2 * Limb
  /\ Modulus \in Nat /\ Modulus > 2 /\ Modulus = Word - Surplus
  /\ Surplus \in Nat /\ Surplus >= 1
  /\ Limb * Surplus + Surplus <= Word /\ Limb * Surplus \in Nat
<1>1. /\ Limb \in Nat /\ Limb > 1 /\ Modulus < Word /\ (Limb + 1) * (Word - Modulus) <= Word
      /\ Modulus \in Nat /\ Modulus > 2
  BY LimbAssumption, FieldAssumption
<1>2. Word = Limb * Limb
  BY DEF Word
<1>3. Word \in Nat /\ Word >= 2 * Limb
  BY <1>1, <1>2
<1>4. Surplus \in Nat /\ Surplus >= 1 /\ Modulus = Word - Surplus
  BY <1>1, <1>3 DEF Surplus
<1>5. (Limb + 1) * Surplus = Limb * Surplus + Surplus
  BY <1>1, <1>4
<1>6. Limb * Surplus + Surplus <= Word
  BY <1>1, <1>5 DEF Surplus
<1> QED
  BY <1>1, <1>2, <1>3, <1>4, <1>6

(* The two parts of a number, and how large they are. *)
LEMMA Parts ==
  ASSUME NEW n \in Nat
  PROVE  /\ Lo(n) \in Digits /\ Hi(n) \in Nat /\ n = Lo(n) + Limb * Hi(n)
         /\ n < Word => Hi(n) \in Digits
<1>1. Limb \in Nat \ {0} /\ Word = Limb * Limb
  BY Sizes
<1>2. PICK q \in Nat, r \in 0..(Limb - 1) : n = Limb * q + r /\ q = n \div Limb /\ r = n % Limb
  BY <1>1, Division
<1>3. ASSUME n < Word PROVE q < Limb
  <2>1. SUFFICES ASSUME q >= Limb PROVE FALSE
    BY <1>1
  <2>2. Limb * q >= Limb * Limb
    BY <1>1, <2>1
  <2> QED
    BY <1>1, <1>2, <1>3, <2>2
<1> QED
  BY <1>1, <1>2, <1>3 DEF Lo, Hi, Digits

(* They are the only two. *)
LEMMA PartsAre ==
  ASSUME NEW low \in Digits, NEW high \in Nat
  PROVE  LET n == low + Limb * high IN Lo(n) = low /\ Hi(n) = high
<1> DEFINE n == low + Limb * high
<1>1. Limb \in Nat \ {0} /\ low \in 0..(Limb - 1) /\ n = Limb * high + low /\ n \in Nat
  BY Sizes DEF Digits
<1> HIDE DEF n
<1>2. n % Limb = low /\ n \div Limb = high
  BY <1>1, DivisionIs
<1> QED
  BY <1>2 DEF Lo, Hi, n
-----------------------------------------------------------------------------
(* Limbs *)

(* A product of two digits leaves room for a digit more. *)
LEMMA DigitProduct ==
  ASSUME NEW m \in Digits, NEW n \in Digits
  PROVE  m * n \in Nat /\ m * n + Limb <= Word
<1>1. Limb \in Nat /\ Limb > 1 /\ Word = Limb * Limb
  BY Sizes
<1>2. m \in Nat /\ n \in Nat /\ m <= Limb - 1 /\ n <= Limb - 1
  BY <1>1 DEF Digits
<1>3. m * n <= (Limb - 1) * (Limb - 1)
  <2>1. m * n <= (Limb - 1) * n
    BY <1>1, <1>2
  <2>2. (Limb - 1) * n <= (Limb - 1) * (Limb - 1)
    BY <1>1, <1>2
  <2> QED
    BY <1>1, <1>2, <2>1, <2>2
<1>4. (Limb - 1) * (Limb - 1) = Limb * Limb - 2 * Limb + 1
  BY <1>1
<1>5. m * n \in Nat
  BY <1>2
<1> QED
  BY <1>1, <1>3, <1>4, <1>5

(* mul_128x64 loses nothing. *)
LEMMA TimesLimbExact ==
  ASSUME NEW n \in Nat, n < Word, NEW m \in Digits
  PROVE  IsLimbs(TimesLimb(n, m)) /\ Value(TimesLimb(n, m)) = n * m
<1>1. Limb \in Nat /\ Limb > 1 /\ m \in Nat /\ m < Limb
  BY Sizes DEF Digits
<1> DEFINE n0 == Lo(n)
           n1 == Hi(n)
<1>2. n0 \in Digits /\ n1 \in Digits /\ n = n0 + Limb * n1
  BY Parts
<1> DEFINE low == n0 * m
           l0 == Lo(low)
           l1 == Hi(low)
<1>3. low \in Nat /\ low + Limb <= Word
  BY <1>2, DigitProduct
<1>4. l0 \in Digits /\ l1 \in Digits /\ low = l0 + Limb * l1
  BY <1>1, <1>3, Sizes, Parts
<1> DEFINE high == n1 * m + l1
           h0 == Lo(high)
           h1 == Hi(high)
<1>5. high \in Nat /\ high < Word
  <2>1. n1 * m \in Nat /\ n1 * m + Limb <= Word
    BY <1>2, DigitProduct
  <2>2. l1 \in Nat /\ l1 < Limb
    BY <1>1, <1>4 DEF Digits
  <2> HIDE DEF l1
  <2> QED
    BY <2>1, <2>2, <1>1, Sizes
<1>6. h0 \in Digits /\ h1 \in Digits /\ high = h0 + Limb * h1
  BY <1>5, Parts
<1>7. TimesLimb(n, m) = <<l0, h0, h1>>
  BY DEF TimesLimb
<1>8. n * m = l0 + Limb * (h0 + Limb * h1)
  <2>1. n0 \in Nat /\ n1 \in Nat /\ l0 \in Nat /\ l1 \in Nat
    BY <1>1, <1>2, <1>4 DEF Digits
  <2>2. n * m = n0 * m + Limb * (n1 * m)
    <3> HIDE DEF n0, n1
    <3> QED
      BY <1>1, <1>2, <2>1
  <2>3. Limb * high = Limb * (n1 * m) + Limb * l1
    <3> DEFINE p == n1 * m
    <3>1. p \in Nat
      BY <1>1, <2>1
    <3> HIDE DEF p, n1, l1
    <3> QED
      BY <1>1, <2>1, <3>1 DEF p
  <2>4. n * m = l0 + Limb * l1 + Limb * (n1 * m)
    BY <2>2, <1>4
  <2> DEFINE carried == Limb * l1
             upper == Limb * (n1 * m)
  <2>5. carried \in Nat /\ upper \in Nat
    BY <1>1, <2>1
  <2>6. n * m = l0 + carried + upper /\ Limb * high = upper + carried
    BY <2>3, <2>4
  <2> HIDE DEF carried, upper, n0, n1, l0, l1, high
  <2>7. n * m = l0 + Limb * high
    BY <2>1, <2>5, <2>6
  <2> QED
    BY <2>7, <1>6
<1> HIDE DEF l0, l1, h0, h1
<1> QED
  BY <1>4, <1>6, <1>7, <1>8 DEF IsLimbs, Value

(* The word in the two lower limbs, and the third. *)
LEMMA ValueIs ==
  ASSUME NEW n, IsLimbs(n)
  PROVE  /\ WordOf(n) \in Nat /\ WordOf(n) < Word
         /\ Value(n) = WordOf(n) + Word * n[3]
<1> DEFINE n1 == n[1]
           n2 == n[2]
           n3 == n[3]
<1>1. /\ Limb \in Nat /\ Limb > 1 /\ Word = Limb * Limb
      /\ n1 \in Nat /\ n1 < Limb /\ n2 \in Nat /\ n2 < Limb /\ n3 \in Nat
  BY Sizes DEF IsLimbs, Digits
<1>2. WordOf(n) = n1 + n2 * Limb /\ Value(n) = n1 + Limb * (n2 + Limb * n3)
  BY DEF WordOf, Value
<1> HIDE DEF n1, n2, n3
<1>3. n2 * Limb + Limb <= Limb * Limb /\ n2 * Limb \in Nat
  <2>1. (n2 + 1) * Limb <= Limb * Limb
    BY <1>1
  <2>2. (n2 + 1) * Limb = n2 * Limb + Limb
    BY <1>1
  <2> QED
    BY <1>1, <2>1, <2>2
<1>4. Limb * (n2 + Limb * n3) = n2 * Limb + (Limb * Limb) * n3
  BY <1>1
<1> QED
  BY <1>1, <1>2, <1>3, <1>4 DEF n3

(* A limb less another, or less a borrow more, and what it borrows. *)
LEMMA SubDigit ==
  ASSUME NEW m \in Digits, NEW n \in 0..Limb
  PROVE  LET w == Wrapped(m - n)
         IN /\ Lo(w) \in Digits /\ Borrow(w) \in {0, 1}
            /\ Lo(w) = m - n + Limb * Borrow(w)
<1> DEFINE w == Wrapped(m - n)
<1>1. /\ Limb \in Nat /\ Limb > 1 /\ Word = Limb * Limb /\ Word \in Nat /\ Word >= 2 * Limb
      /\ m \in Nat /\ m < Limb /\ n \in Nat /\ n <= Limb
  BY Sizes DEF Digits
<1>2. CASE m >= n
  <2>1. m - n \in 0..(Word - 1) /\ m - n \in Digits
    BY <1>1, <1>2 DEF Digits
  <2>2. w = m - n
    BY <1>1, <2>1 DEF Wrapped
  <2>3. m - n = (m - n) + Limb * 0
    BY <1>1
  <2>4. Lo(m - n) = m - n
    BY <2>1, <2>3, PartsAre
  <2>5. Word \div 2 >= Limb
    BY <1>1
  <2>6. Borrow(m - n) = 0
    BY <1>1, <2>5 DEF Borrow
  <2> QED
    BY <1>1, <2>1, <2>2, <2>4, <2>6
<1>3. CASE m < n
  <2> DEFINE low == Limb + m - n
             whole == Word + m - n
  <2>1. low \in Digits /\ low \in Nat /\ whole \in Nat /\ whole < Word /\ whole >= Word - Limb
    BY <1>1, <1>3 DEF Digits
  <2>2. w = whole
    BY <1>1, <1>3 DEF Wrapped
  <2>3. whole = low + Limb * (Limb - 1)
    BY <1>1
  <2>4. Lo(whole) = low
    <3> HIDE DEF low, whole
    <3>1. Limb - 1 \in Nat
      BY <1>1
    <3> QED
      BY <2>1, <2>3, <3>1, PartsAre
  <2>5. whole >= Word \div 2
    BY <1>1, <2>1
  <2>6. Borrow(whole) = 1
    BY <2>5 DEF Borrow
  <2> QED
    BY <1>1, <2>1, <2>2, <2>4, <2>6
<1> QED
  BY <1>1, <1>2, <1>3

(* sub_192x192 is exact unless the difference is negative. *)
LEMMA MinusExact ==
  ASSUME NEW m, IsLimbs(m), NEW n, IsLimbs(n), Value(m) >= Value(n)
  PROVE  IsLimbs(Minus(m, n)) /\ Value(Minus(m, n)) = Value(m) - Value(n)
<1> DEFINE w0 == Wrapped(m[1] - n[1])
           w1 == Wrapped(m[2] - (n[2] + Borrow(w0)))
           w2 == Wrapped(m[3] - (n[3] + Borrow(w1)))
           b0 == Borrow(w0)
           b1 == Borrow(w1)
           b2 == Borrow(w2)
           r0 == Lo(w0)
           r1 == Lo(w1)
           r2 == Lo(w2)
           m0 == m[1]
           m1 == m[2]
           m2 == m[3]
           n0 == n[1]
           n1 == n[2]
           n2 == n[3]
<1>1. Minus(m, n) = <<r0, r1, r2>>
  BY DEF Minus
<1>2. /\ m0 \in Digits /\ m1 \in Digits /\ m2 \in Digits
      /\ n0 \in Digits /\ n1 \in Digits /\ n2 \in Digits
  BY DEF IsLimbs
<1>3. Digits = 0..(Limb - 1) /\ Limb \in Nat /\ Limb > 1
  BY Sizes DEF Digits
<1>4. r0 \in Digits /\ b0 \in {0, 1} /\ r0 = m0 - n0 + Limb * b0
  <2>1. n0 \in 0..Limb
    BY <1>2, <1>3
  <2> QED
    BY <1>2, <2>1, SubDigit
<1>5. r1 \in Digits /\ b1 \in {0, 1} /\ r1 = m1 - (n1 + b0) + Limb * b1
  <2>1. n1 + b0 \in 0..Limb
    BY <1>2, <1>3, <1>4
  <2> QED
    BY <1>2, <2>1, SubDigit
<1>6. r2 \in Digits /\ b2 \in {0, 1} /\ r2 = m2 - (n2 + b1) + Limb * b2
  <2>1. n2 + b1 \in 0..Limb
    BY <1>2, <1>3, <1>5
  <2> QED
    BY <1>2, <2>1, SubDigit
<1> DEFINE low == r0 + r1 * Limb
           lowM == m0 + m1 * Limb
           lowN == n0 + n1 * Limb
<1>7. /\ IsLimbs(<<r0, r1, r2>>) /\ WordOf(<<r0, r1, r2>>) = low
      /\ Value(<<r0, r1, r2>>) = low + Word * r2 /\ low \in Nat /\ low < Word
  <2> HIDE DEF r0, r1, r2
  <2>1. IsLimbs(<<r0, r1, r2>>) /\ WordOf(<<r0, r1, r2>>) = low
    BY <1>4, <1>5, <1>6 DEF IsLimbs, WordOf
  <2> HIDE DEF low
  <2> QED
    BY <2>1, ValueIs
<1>8. /\ Value(m) = lowM + Word * m2 /\ lowM \in Nat
      /\ Value(n) = lowN + Word * n2 /\ lowN \in Nat
  BY ValueIs DEF WordOf
<1>9. low = lowM - lowN + Word * b1
  <2> HIDE DEF r0, r1, b0, b1, m0, m1, n0, n1
  <2>1. r0 = m0 - n0 + Limb * b0 /\ r1 * Limb = m1 * Limb - n1 * Limb - Limb * b0 + (Limb * Limb) * b1
    BY <1>2, <1>3, <1>4, <1>5
  <2> QED
    BY <1>2, <1>3, <1>4, <1>5, <2>1, Sizes
<1> HIDE DEF r0, r1, r2, b0, b1, b2, m0, m1, m2, n0, n1, n2, low, lowM, lowN
<1>10. Word \in Nat /\ m2 \in Nat /\ n2 \in Nat
  BY <1>2, <1>3, Sizes
<1>11. m2 >= n2 + b1
  <2>1. SUFFICES ASSUME m2 <= n2 + b1 - 1 PROVE FALSE
    BY <1>5, <1>10
  <2>2. Word * m2 <= Word * (n2 + b1 - 1)
    BY <1>5, <1>10, <2>1
  <2>3. Word * (n2 + b1 - 1) = Word * n2 + Word * b1 - Word
    BY <1>5, <1>10
  <2> DEFINE p == Word * m2
             q == Word * n2
             c == Word * b1
  <2>4. p \in Nat /\ q \in Nat /\ c \in Nat
    BY <1>5, <1>10
  <2>5. lowM + p >= lowN + q /\ p <= q + c - Word /\ low = lowM - lowN + c
    BY <1>8, <1>9, <2>2, <2>3
  <2> HIDE DEF p, q, c
  <2> QED
    BY <1>7, <1>8, <1>10, <2>4, <2>5
<1>12. r2 = m2 - n2 - b1
  <2>1. CASE b2 = 0
    BY <1>3, <1>5, <1>6, <1>10, <2>1
  <2>2. CASE b2 = 1
    BY <1>3, <1>5, <1>6, <1>10, <1>11, <2>2
  <2> QED
    BY <1>6, <2>1, <2>2
<1>13. Word * r2 = Word * m2 - Word * n2 - Word * b1
  BY <1>5, <1>10, <1>12
<1> QED
  BY <1>1, <1>5, <1>7, <1>8, <1>9, <1>10, <1>13
-----------------------------------------------------------------------------
(* Multiples of the modulus *)

(* mul_by_modulus is exact: what a word lacks to the modulus, that many    *)
(* times, never takes more than one from the third limb.                   *)
LEMMA TimesModulusExact ==
  ASSUME NEW m \in Digits
  PROVE  IsLimbs(TimesModulus(m)) /\ Value(TimesModulus(m)) = m * Modulus
<1> DEFINE less == m * Surplus
           word == Word - less
<1>1. /\ Limb \in Nat /\ Limb > 1 /\ Word \in Nat /\ Word = Limb * Limb
      /\ Surplus \in Nat /\ Surplus >= 1 /\ Modulus = Word - Surplus
      /\ Limb * Surplus + Surplus <= Word /\ Modulus \in Nat
  BY Sizes
<1>2. m \in Nat /\ m < Limb
  BY <1>1 DEF Digits
<1>3. CASE m = 0
  <2>1. m * Modulus = 0 /\ Wrapped(m * Modulus) = 0
    BY <1>1, <1>3 DEF Wrapped
  <2>2. Lo(0) = 0 /\ Hi(0) = 0 /\ 0 \in Digits
    BY <1>1 DEF Lo, Hi, Digits
  <2>3. TimesModulus(m) = <<0, 0, 0>>
    BY <1>3, <2>1, <2>2 DEF TimesModulus
  <2> QED
    BY <1>1, <2>1, <2>2, <2>3 DEF IsLimbs, Value
<1>4. CASE m # 0
  <2>1. less \in Nat /\ less >= 1 /\ less <= Limb * Surplus
    BY <1>1, <1>2, <1>4
  <2>2. word \in 0..(Word - 1)
    <3>1. Limb * Surplus \in Nat
      BY Sizes
    <3> HIDE DEF less
    <3> QED
      BY <1>1, <2>1, <3>1
  <2>3. m * Modulus = Word * (m - 1) + word
    BY <1>1, <1>2
  <2>4. Wrapped(m * Modulus) = word
    <3>1. m - 1 \in Nat /\ m * Modulus \in Nat /\ Word \in Nat \ {0}
      BY <1>1, <1>2, <1>4
    <3> DEFINE product == m * Modulus
    <3> HIDE DEF word, product
    <3> QED
      BY <2>2, <2>3, <3>1, DivisionIs DEF Wrapped, product
  <2> HIDE DEF word
  <2> DEFINE r0 == Lo(word)
             r1 == Hi(word)
  <2>5. r0 \in Digits /\ r1 \in Digits /\ word = r0 + Limb * r1
    BY <1>1, <2>2, Parts
  <2>6. TimesModulus(m) = <<r0, r1, m - 1>>
    BY <1>4, <2>4 DEF TimesModulus
  <2> HIDE DEF r0, r1
  <2>7. IsLimbs(<<r0, r1, m - 1>>) /\ WordOf(<<r0, r1, m - 1>>) = word
    BY <1>1, <1>2, <1>4, <2>5 DEF IsLimbs, WordOf, Digits
  <2>8. Value(<<r0, r1, m - 1>>) = word + Word * (m - 1)
    BY <2>7, ValueIs
  <2> QED
    BY <1>1, <1>2, <2>2, <2>3, <2>6, <2>7, <2>8
<1> QED
  BY <1>3, <1>4

(* mul_reduce takes multiples of the modulus away, and leaves at most one  *)
(* word and a few limbs.                                                   *)
LEMMA ReduceHighExact ==
  ASSUME NEW n, IsLimbs(n)
  PROVE  LET r == ReduceHigh(n)
         IN /\ IsLimbs(r)
            /\ n[3] \in Nat /\ Value(n) = Value(r) + Modulus * n[3]
            /\ r[3] \in {0, 1}
            /\ r[3] = 1 => WordOf(r) + Surplus < Limb * Surplus
<1> DEFINE r == ReduceHigh(n)
           m == n[3]
           low == WordOf(n)
<1>1. /\ Limb \in Nat /\ Limb > 1 /\ Word \in Nat /\ Word = Limb * Limb
      /\ Surplus \in Nat /\ Surplus >= 1 /\ Modulus = Word - Surplus
      /\ Limb * Surplus + Surplus <= Word /\ Limb * Surplus \in Nat /\ Modulus \in Nat
  BY Sizes
<1>2. m \in Digits /\ m \in Nat /\ m <= Limb - 1
  BY <1>1 DEF IsLimbs, Digits
<1>3. Value(n) = low + Word * m /\ low \in Nat /\ low < Word
  BY ValueIs
<1>4. IsLimbs(TimesModulus(m)) /\ Value(TimesModulus(m)) = m * Modulus
  BY <1>2, TimesModulusExact
<1> HIDE DEF m, low
<1>5. m * Modulus = Word * m - m * Surplus /\ Modulus * m = m * Modulus
  BY <1>1, <1>2
<1>6. m * Surplus \in Nat /\ m * Surplus + Surplus <= Limb * Surplus
  <2>1. (m + 1) * Surplus <= Limb * Surplus
    BY <1>1, <1>2
  <2>2. (m + 1) * Surplus = m * Surplus + Surplus
    BY <1>1, <1>2
  <2> QED
    BY <1>1, <1>2, <2>1, <2>2
<1> DEFINE p == Word * m
           q == m * Surplus
           s == Limb * Surplus
<1>7. p \in Nat /\ q \in Nat /\ s \in Nat /\ q + Surplus <= s /\ s + Surplus <= Word
  BY <1>1, <1>2, <1>6
<1>8. Value(n) = low + p /\ m * Modulus = p - q
  BY <1>3, <1>5
<1> HIDE DEF p, q, s
<1>9. Value(n) >= Value(TimesModulus(m))
  BY <1>3, <1>4, <1>7, <1>8, <1>1
<1>10. IsLimbs(r) /\ Value(r) = low + q
  <2>1. IsLimbs(r) /\ Value(r) = Value(n) - Value(TimesModulus(m))
    BY <1>4, <1>9, MinusExact DEF ReduceHigh, m
  <2> QED
    BY <2>1, <1>1, <1>3, <1>4, <1>7, <1>8
<1>11. Value(n) = Value(r) + Modulus * m
  BY <1>3, <1>5, <1>7, <1>8, <1>10, <1>1
<1> DEFINE lowR == WordOf(r)
           r3 == r[3]
<1>12. Value(r) = lowR + Word * r3 /\ lowR \in Nat /\ lowR < Word /\ r3 \in Nat
  <2>1. r3 \in Nat
    BY <1>1, <1>10 DEF IsLimbs, Digits
  <2> QED
    BY <1>10, <2>1, ValueIs
<1> HIDE DEF r, lowR, r3
<1>13. r3 \in {0, 1}
  <2>1. SUFFICES ASSUME r3 >= 2 PROVE FALSE
    BY <1>12
  <2>2. Word * r3 >= Word * 2
    BY <1>1, <1>12, <2>1
  <2> QED
    BY <1>1, <1>3, <1>7, <1>10, <1>12, <2>2
<1>14. ASSUME r3 = 1 PROVE lowR + Surplus < s
  <2>1. lowR + Word = low + q
    BY <1>1, <1>10, <1>12, <1>14
  <2> QED
    BY <1>1, <1>3, <1>7, <1>12, <2>1
<1> QED
  BY <1>2, <1>10, <1>11, <1>13, <1>14 DEF r, lowR, r3, m, s

(* sub_modulus subtracts the modulus, wrapping: from a word that stands    *)
(* for itself and one word more, or for itself.                            *)
LEMMA LessModulusIs ==
  ASSUME NEW low \in Nat, NEW high \in Nat, low + high * Limb < Word
  PROVE  LET w == low + high * Limb
         IN /\ w + Surplus < Word => LessModulus(low, high) = w + Surplus
            /\ w >= Modulus => LessModulus(low, high) = w - Modulus
<1> DEFINE w == low + high * Limb
<1>1. /\ Word \in Nat /\ Surplus \in Nat /\ Surplus >= 1 /\ Modulus = Word - Surplus
      /\ Limb \in Nat /\ Modulus \in Nat
  BY Sizes
<1>2. w \in Nat /\ w < Word
  BY <1>1
<1>3. LessModulus(low, high) = (w - Modulus) % Word
  <2>1. low + high * Limb - Modulus = w - Modulus
    BY <1>1
  <2> QED
    BY <2>1 DEF LessModulus, Wrapped
<1> HIDE DEF w
<1>4. ASSUME w + Surplus < Word PROVE (w - Modulus) % Word = w + Surplus
  BY <1>1, <1>2, <1>4
<1>5. ASSUME w >= Modulus PROVE (w - Modulus) % Word = w - Modulus
  BY <1>1, <1>2, <1>5
<1> QED
  BY <1>3, <1>4, <1>5 DEF w
-----------------------------------------------------------------------------
(* The steps of mul *)

(* The limbs of a word. *)
LEMMA LimbsExact ==
  ASSUME NEW n \in Nat, n < Word
  PROVE  IsLimbs(Limbs(n)) /\ Limbs(n)[3] = 0 /\ WordOf(Limbs(n)) = n
<1> DEFINE n0 == Lo(n)
           n1 == Hi(n)
<1>1. n0 \in Digits /\ n1 \in Digits /\ n = n0 + Limb * n1 /\ Limb \in Nat /\ Limb > 1
  BY Parts, Sizes
<1>2. n1 = n1 + Limb * 0 /\ 0 \in Nat /\ 0 \in Digits
  BY <1>1 DEF Digits
<1> HIDE DEF n0, n1
<1>3. Lo(n1) = n1
  BY <1>1, <1>2, PartsAre
<1>4. Limbs(n) = <<n0, n1, 0>>
  BY <1>3 DEF Limbs, n0, n1
<1> QED
  BY <1>1, <1>2, <1>4 DEF IsLimbs, WordOf, Digits

(* An element fits in a word, and its high limb in a limb. *)
LEMMA ElementFits ==
  ASSUME NEW e \in Elements
  PROVE  e \in Nat /\ e < Modulus /\ e < Word /\ Lo(e) \in Digits /\ Hi(e) \in Digits
         /\ e = Lo(e) + Limb * Hi(e)
<1>1. e \in Nat /\ e < Modulus /\ e < Word
  BY Sizes DEF Elements
<1> QED
  BY <1>1, Parts

(* Of the product with the high limb, one word is left. *)
LEMMA MulHighExact ==
  ASSUME NEW e \in Elements, NEW h \in Digits
  PROVE  LET n == ReduceHigh(TimesLimb(e, h))
             r == IF n[3] = 1 THEN Limbs(LessModulus(n[1], n[2])) ELSE n
         IN /\ IsLimbs(r) /\ r[3] = 0
            /\ \E k \in Nat : e * h = WordOf(r) + Modulus * k
<1> DEFINE t == TimesLimb(e, h)
           n == ReduceHigh(t)
           w == WordOf(n)
           m == t[3]
<1>1. /\ Word \in Nat /\ Surplus \in Nat /\ Surplus >= 1 /\ Modulus = Word - Surplus
      /\ Limb \in Nat /\ Modulus \in Nat /\ Limb * Surplus + Surplus <= Word
      /\ Limb * Surplus \in Nat
  BY Sizes
<1>2. IsLimbs(t) /\ Value(t) = e * h
  BY ElementFits, TimesLimbExact
<1> HIDE DEF t
<1>3. /\ IsLimbs(n) /\ m \in Nat /\ Value(t) = Value(n) + Modulus * m /\ n[3] \in {0, 1}
      /\ n[3] = 1 => w + Surplus < Limb * Surplus
  BY <1>2, ReduceHighExact
<1>4. w \in Nat /\ w < Word /\ Value(n) = w + Word * n[3]
  BY <1>3, ValueIs
<1>5. n[1] \in Nat /\ n[2] \in Nat /\ w = n[1] + n[2] * Limb
  BY <1>1, <1>3 DEF IsLimbs, Digits, WordOf
<1> HIDE DEF n, w, m
<1>6. CASE n[3] = 1
  <2> DEFINE less == LessModulus(n[1], n[2])
  <2>1. w + Surplus < Word
    BY <1>1, <1>3, <1>4, <1>6
  <2>2. less = w + Surplus
    BY <1>4, <1>5, <2>1, LessModulusIs
  <2>3. less \in Nat /\ less < Word
    BY <1>1, <1>4, <2>1, <2>2
  <2>4. Value(n) = less + Modulus
    BY <1>1, <1>4, <1>6, <2>2
  <2> HIDE DEF less
  <2>5. IsLimbs(Limbs(less)) /\ Limbs(less)[3] = 0 /\ WordOf(Limbs(less)) = less
    BY <2>3, LimbsExact
  <2>6. e * h = less + Modulus * (m + 1) /\ m + 1 \in Nat
    BY <1>1, <1>2, <1>3, <2>3, <2>4
  <2> QED
    BY <1>6, <2>5, <2>6 DEF less, n, t
<1>7. CASE n[3] # 1
  <2>1. n[3] = 0 /\ Value(n) = w
    BY <1>1, <1>3, <1>4, <1>7
  <2> QED
    BY <1>2, <1>3, <1>7, <2>1 DEF w, n, t
<1> QED
  BY <1>6, <1>7

(* Adding it a limb up, no carry out of the third limb is lost: what       *)
(* overflows is at most a word and the modulus.                            *)
LEMMA MulLowExact ==
  ASSUME NEW e \in Elements, NEW c \in Digits,
         NEW n, IsLimbs(n), n[3] = 0
  PROVE  LET low == TimesLimb(e, c)
             n1 == low[2] + n[1]
             n2 == low[3] + n[2] + Hi(n1)
             less == LessModulus(Lo(n1), Lo(n2))
             r == IF Hi(n2) = 1 THEN <<low[1], Lo(less), Hi(less)>>
                  ELSE <<low[1], Lo(n1), Lo(n2)>>
         IN /\ IsLimbs(r)
            /\ \E k \in Nat : e * c + Limb * WordOf(n) = Value(r) + Modulus * k
<1> DEFINE low == TimesLimb(e, c)
           l0 == low[1]
           l1 == low[2]
           l2 == low[3]
           z0 == n[1]
           z1 == n[2]
           n1 == l1 + z0
           n2 == l2 + z1 + Hi(n1)
           c1 == Hi(n1)
           c2 == Hi(n2)
           d1 == Lo(n1)
           d2 == Lo(n2)
           top == l1 + Limb * l2
           z2 == WordOf(n)
           w == d1 + d2 * Limb
           less == LessModulus(d1, d2)
<1>1. /\ Word \in Nat /\ Surplus \in Nat /\ Surplus >= 1 /\ Modulus = Word - Surplus
      /\ Limb \in Nat /\ Limb > 1 /\ Word = Limb * Limb /\ Modulus \in Nat
      /\ Digits = 0..(Limb - 1)
  BY Sizes DEF Digits
<1>2. e \in Nat /\ e < Modulus /\ e < Word /\ c \in Nat /\ c < Limb
  BY <1>1, ElementFits
<1>3. IsLimbs(low) /\ Value(low) = e * c
  BY <1>2, TimesLimbExact
<1>4. l0 \in Digits /\ l1 \in Digits /\ l2 \in Digits /\ Value(low) = l0 + Limb * top
  BY <1>3 DEF IsLimbs, Value
<1>5. z0 \in Digits /\ z1 \in Digits
  BY DEF IsLimbs
<1>6. z2 \in Nat /\ z2 < Word /\ z2 = z0 + z1 * Limb
  BY ValueIs DEF WordOf
<1> HIDE DEF low, l0, l1, l2, z0, z1, z2
<1>7. n1 \in Nat /\ n1 <= 2 * Limb - 2
  BY <1>1, <1>4, <1>5
<1> HIDE DEF n1
<1>8. d1 \in Digits /\ c1 \in Nat /\ n1 = d1 + Limb * c1
  BY <1>7, Parts
<1> HIDE DEF c1, d1
<1>9. c1 \in {0, 1}
  <2>1. SUFFICES ASSUME c1 >= 2 PROVE FALSE
    BY <1>8
  <2>2. Limb * c1 >= 2 * Limb
    BY <1>1, <1>8, <2>1
  <2> QED
    BY <1>1, <1>7, <1>8, <2>2
<1>10. n2 = l2 + z1 + c1
  BY DEF c1
<1>11. n2 \in Nat /\ n2 <= 2 * Limb - 1
  BY <1>1, <1>4, <1>5, <1>9, <1>10
<1> HIDE DEF n2
<1>12. d2 \in Digits /\ c2 \in Nat /\ n2 = d2 + Limb * c2
  BY <1>11, Parts
<1> HIDE DEF c2, d2
<1>13. c2 \in {0, 1}
  <2>1. SUFFICES ASSUME c2 >= 2 PROVE FALSE
    BY <1>12
  <2>2. Limb * c2 >= 2 * Limb
    BY <1>1, <1>12, <2>1
  <2> QED
    BY <1>1, <1>11, <1>12, <2>2
<1>14. d1 \in Nat /\ d2 \in Nat /\ l0 \in Nat /\ l1 \in Nat /\ l2 \in Nat /\ z0 \in Nat /\ z1 \in Nat
       /\ c1 \in Nat /\ c2 \in Nat
  BY <1>1, <1>4, <1>5, <1>8, <1>12
<1>15. top + z2 = w + Word * c2
  <2>1. l1 + z0 = d1 + Limb * c1
    BY <1>8 DEF n1
  <2>2. l2 + z1 + c1 = d2 + Limb * c2
    BY <1>10, <1>12
  <2>3. Limb * (l2 + z1 + c1) = Limb * l2 + z1 * Limb + Limb * c1
    BY <1>1, <1>14
  <2>4. Limb * (d2 + Limb * c2) = d2 * Limb + Word * c2
    BY <1>1, <1>14
  <2> DEFINE p1 == Limb * l2
             p2 == z1 * Limb
             p3 == Limb * c1
             p4 == d2 * Limb
             p5 == Word * c2
  <2>5. p1 \in Nat /\ p2 \in Nat /\ p3 \in Nat /\ p4 \in Nat /\ p5 \in Nat
    BY <1>1, <1>14
  <2>6. p1 + p2 + p3 = p4 + p5
    BY <2>2, <2>3, <2>4
  <2>7. top = l1 + p1 /\ z2 = z0 + p2 /\ w = d1 + p4 /\ l1 + z0 = d1 + p3
    BY <2>1, <1>6
  <2> HIDE DEF p1, p2, p3, p4, p5, top, w
  <2>8. top + z2 = w + p5
    BY <2>5, <2>6, <2>7, <1>14
  <2> QED
    BY <2>8 DEF p5
<1>16. w \in Nat /\ top \in Nat
  BY <1>1, <1>14
<1>17. w < Word
  <2>1. d2 * Limb + Limb <= Limb * Limb /\ d2 * Limb \in Nat
    <3>1. d2 + 1 <= Limb
      BY <1>1, <1>12
    <3>2. (d2 + 1) * Limb <= Limb * Limb
      BY <1>1, <1>14, <3>1
    <3> QED
      BY <1>1, <1>14, <3>2
  <2> QED
    BY <1>1, <1>8, <1>14, <2>1
<1>18. top < Modulus
  <2>1. SUFFICES ASSUME top >= Modulus PROVE FALSE
    BY <1>1, <1>16
  <2> HIDE DEF top
  <2>2. Limb * top >= Limb * Modulus
    BY <1>1, <1>16, <2>1
  <2>3. e * c <= e * Limb /\ e * Limb < Modulus * Limb
    BY <1>1, <1>2
  <2>4. e * c \in Nat /\ Limb * top \in Nat /\ Modulus * Limb = Limb * Modulus
        /\ Limb * Modulus \in Nat /\ e * Limb \in Nat
    BY <1>1, <1>2, <1>16
  <2>5. e * c = l0 + Limb * top
    BY <1>3, <1>4
  <2> DEFINE p == e * c
             q == Limb * top
             b == Limb * Modulus
             f == e * Limb
  <2>6. p \in Nat /\ q \in Nat /\ b \in Nat /\ f \in Nat /\ q >= b /\ p <= f /\ f < b /\ p = l0 + q
    BY <2>2, <2>3, <2>4, <2>5
  <2> HIDE DEF p, q, b, f
  <2> QED
    BY <1>14, <2>6
<1>19. e * c + Limb * z2 = l0 + Limb * (w + Word * c2)
  <2> HIDE DEF top, w
  <2>1. Limb * (top + z2) = Limb * top + Limb * z2
    BY <1>1, <1>6, <1>16
  <2>2. e * c \in Nat /\ Limb * top \in Nat /\ Limb * z2 \in Nat
    BY <1>1, <1>2, <1>6, <1>16
  <2> DEFINE p == e * c
             q == Limb * top
             f == Limb * z2
  <2>3. p = l0 + q /\ Limb * (top + z2) = q + f /\ p \in Nat /\ q \in Nat /\ f \in Nat
    BY <1>3, <1>4, <2>1, <2>2
  <2> HIDE DEF p, q, f
  <2>4. p + f = l0 + Limb * (top + z2)
    BY <1>14, <2>3
  <2> QED
    BY <2>4, <1>15 DEF p, f
<1>20. CASE c2 = 1
  <2>1. w + Surplus < Word
    <3> HIDE DEF top, w
    <3>1. top + z2 = w + Word
      BY <1>1, <1>15, <1>16, <1>20
    <3> QED
      BY <1>1, <1>6, <1>16, <1>18, <3>1
  <2>2. less = w + Surplus
    BY <1>14, <1>17, <2>1, LessModulusIs
  <2>3. less \in Nat /\ less < Word
    <3> HIDE DEF w
    <3> QED
      BY <1>1, <1>16, <2>1, <2>2
  <2> DEFINE s1 == Lo(less)
             s2 == Hi(less)
             r == <<l0, s1, s2>>
  <2> HIDE DEF less
  <2>4. s1 \in Digits /\ s2 \in Digits /\ less = s1 + Limb * s2
    BY <2>3, Parts
  <2> HIDE DEF s1, s2
  <2>5. IsLimbs(r) /\ Value(r) = l0 + Limb * less
    BY <1>4, <2>4 DEF IsLimbs, Value
  <2>6. w + Word * c2 = less + Modulus
    <3> HIDE DEF w
    <3> QED
      BY <1>1, <1>16, <1>20, <2>2
  <2>7. Limb * (less + Modulus) = Limb * less + Modulus * Limb
    BY <1>1, <2>3
  <2>8. e * c + Limb * z2 = Value(r) + Modulus * Limb
    <3> DEFINE p == Limb * less
               q == Modulus * Limb
    <3>1. p \in Nat /\ q \in Nat
      BY <1>1, <2>3
    <3>2. e * c + Limb * z2 = l0 + (p + q) /\ Value(r) = l0 + p
      BY <1>19, <2>5, <2>6, <2>7
    <3> HIDE DEF p, q, r
    <3>3. l0 + (p + q) = (l0 + p) + q
      BY <1>14, <3>1
    <3> QED
      BY <3>2, <3>3 DEF q
  <2> QED
    BY <1>1, <1>20, <2>5, <2>8 DEF r, s1, s2, less, d1, d2, c2, n2, n1, c1, l0, l1, l2, z0, z1, z2, low
<1>21. CASE c2 # 1
  <2>1. c2 = 0 /\ w + Word * c2 = w
    <3> HIDE DEF w
    <3> QED
      BY <1>1, <1>13, <1>16, <1>21
  <2> DEFINE r == <<l0, d1, d2>>
  <2>2. IsLimbs(r) /\ Value(r) = l0 + Limb * w
    <3>1. Value(r) = l0 + Limb * (d1 + Limb * d2)
      BY DEF Value
    <3>2. d1 + Limb * d2 = w
      BY <1>1, <1>14
    <3> QED
      BY <1>4, <1>8, <1>12, <3>1, <3>2 DEF IsLimbs
  <2>3. e * c + Limb * z2 = Value(r) + Modulus * 0
    <3>1. Value(r) \in Nat
      BY <1>1, <1>14, <1>16, <2>2
    <3> HIDE DEF r
    <3>2. Value(r) = Value(r) + Modulus * 0
      BY <1>1, <3>1
    <3> QED
      BY <1>19, <2>1, <2>2, <3>2
  <2> QED
    BY <1>21, <2>2, <2>3 DEF r, d1, d2, c2, n2, n1, c1, l0, l1, l2, z0, z1, z2, low
<1> QED
  BY <1>20, <1>21

(* The last reduction leaves an element: comparing with the limbs of the   *)
(* modulus is comparing with the modulus, whose high limb is the largest.  *)
LEMMA MulReduceExact ==
  ASSUME NEW t, IsLimbs(t)
  PROVE  LET n == ReduceHigh(t)
             notBelow == n[2] = Hi(Modulus) /\ n[1] >= Lo(Modulus)
             r == IF n[3] = 1 \/ notBelow THEN LessModulus(n[1], n[2]) ELSE WordOf(n)
         IN /\ r \in Elements
            /\ \E k \in Nat : Value(t) = r + Modulus * k
<1> DEFINE n == ReduceHigh(t)
           n1 == n[1]
           n2 == n[2]
           w == WordOf(n)
           m == t[3]
           m1 == Lo(Modulus)
           m2 == Hi(Modulus)
           notBelow == n2 = m2 /\ n1 >= m1
           less == LessModulus(n1, n2)
           r == IF n[3] = 1 \/ notBelow THEN less ELSE w
<1>1. /\ Word \in Nat /\ Word = Limb * Limb /\ Surplus \in Nat /\ Surplus >= 1
      /\ Modulus = Word - Surplus /\ Limb \in Nat /\ Limb > 1 /\ Modulus \in Nat
      /\ Limb * Surplus + Surplus <= Word /\ Limb * Surplus \in Nat /\ Modulus > 2
      /\ Digits = 0..(Limb - 1)
  BY Sizes DEF Digits
<1>2. Limb * Surplus >= 2 * Surplus
  BY <1>1
<1>3. /\ IsLimbs(n) /\ m \in Nat /\ Value(t) = Value(n) + Modulus * m /\ n[3] \in {0, 1}
      /\ n[3] = 1 => w + Surplus < Limb * Surplus
  BY ReduceHighExact
<1>4. w \in Nat /\ w < Word /\ Value(n) = w + Word * n[3]
  BY <1>3, ValueIs
<1>5. n1 \in Digits /\ n2 \in Digits /\ w = n1 + n2 * Limb
  BY <1>3 DEF IsLimbs, WordOf
<1> HIDE DEF n, n1, n2, w, m
<1>6. m1 \in Digits /\ m2 \in Digits /\ Modulus = m1 + Limb * m2
  <2>1. Modulus \in Nat /\ Modulus < Word
    BY <1>1
  <2> QED
    BY <2>1, Parts
<1> HIDE DEF m1, m2
<1>7. m2 = Limb - 1
  <2>1. SUFFICES ASSUME m2 <= Limb - 2 PROVE FALSE
    BY <1>1, <1>6
  <2>2. Limb * m2 <= Limb * (Limb - 2)
    BY <1>1, <1>6, <2>1
  <2>3. Limb * (Limb - 2) = Word - 2 * Limb
    BY <1>1
  <2>4. Limb * m2 \in Nat /\ m1 < Limb /\ m1 \in Nat
    BY <1>1, <1>6
  <2>5. Surplus < Limb
    <3>1. SUFFICES ASSUME Surplus >= Limb PROVE FALSE
      BY <1>1
    <3>2. Limb * Surplus >= Word
      BY <1>1, <3>1
    <3> QED
      BY <1>1, <3>2
  <2> DEFINE p == Limb * m2
  <2>6. p \in Nat /\ p <= Word - 2 * Limb /\ Modulus = m1 + p
    BY <1>6, <2>2, <2>3, <2>4
  <2> HIDE DEF p
  <2> QED
    BY <1>1, <2>4, <2>5, <2>6
<1>8. notBelow <=> w >= Modulus
  <2>1. /\ m1 \in Nat /\ n1 \in Nat /\ n1 < Limb /\ n2 \in Nat /\ n2 <= m2 /\ m2 \in Nat
    BY <1>1, <1>5, <1>6, <1>7
  <2>2. CASE n2 = m2
    <3>1. n2 * Limb = Limb * m2 /\ n2 * Limb \in Nat
      BY <1>1, <2>1, <2>2
    <3> DEFINE p == Limb * m2
    <3>2. w = n1 + p /\ Modulus = m1 + p /\ p \in Nat
      BY <1>5, <1>6, <3>1
    <3> HIDE DEF p
    <3> QED
      BY <2>1, <2>2, <3>2
  <2>3. CASE n2 # m2
    <3>1. n2 + 1 <= m2
      BY <2>1, <2>3
    <3>2. Limb * (n2 + 1) <= Limb * m2 /\ Limb * (n2 + 1) = n2 * Limb + Limb
      BY <1>1, <2>1, <3>1
    <3> DEFINE p == Limb * m2
               q == n2 * Limb
    <3>3. p \in Nat /\ q \in Nat /\ q + Limb <= p /\ w = n1 + q /\ Modulus = m1 + p
      BY <1>1, <1>5, <1>6, <2>1, <3>2
    <3> HIDE DEF p, q
    <3> QED
      BY <1>1, <2>1, <2>3, <3>3
  <2> QED
    BY <2>2, <2>3
<1>9. n1 \in Nat /\ n2 \in Nat
  BY <1>1, <1>5
<1> HIDE DEF notBelow
<1>10. CASE n[3] = 1
  <2>1. w + Surplus < Word /\ w + Surplus < Modulus
    BY <1>1, <1>3, <1>4, <1>10
  <2>2. less = w + Surplus
    BY <1>4, <1>5, <1>9, <2>1, LessModulusIs
  <2>3. Value(n) = less + Modulus /\ less \in Elements /\ less \in Nat
    BY <1>1, <1>4, <1>10, <2>1, <2>2 DEF Elements
  <2> HIDE DEF less
  <2>4. Value(t) = less + Modulus * (m + 1) /\ m + 1 \in Nat
    BY <1>1, <1>3, <2>3
  <2> QED
    BY <1>10, <2>3, <2>4 DEF less, notBelow, n1, n2, m1, m2, w, n
<1>11. CASE n[3] # 1 /\ w >= Modulus
  <2>1. less = w - Modulus
    BY <1>4, <1>5, <1>9, <1>11, LessModulusIs
  <2>2. Value(n) = w
    BY <1>1, <1>3, <1>4, <1>11
  <2>3. Value(n) = less + Modulus /\ less \in Elements /\ less \in Nat
    BY <1>1, <1>2, <1>4, <1>11, <2>1, <2>2 DEF Elements
  <2> HIDE DEF less
  <2>4. Value(t) = less + Modulus * (m + 1) /\ m + 1 \in Nat
    BY <1>1, <1>3, <2>3
  <2>5. notBelow
    BY <1>8, <1>11
  <2> QED
    BY <2>3, <2>4, <2>5 DEF less, notBelow, n1, n2, m1, m2, w, n
<1>12. CASE n[3] # 1 /\ ~ (w >= Modulus)
  <2>1. Value(n) = w /\ w \in Elements
    BY <1>1, <1>3, <1>4, <1>12 DEF Elements
  <2>2. Value(t) = w + Modulus * m /\ m \in Nat
    BY <1>3, <2>1
  <2>3. ~ notBelow
    BY <1>8, <1>12
  <2> QED
    BY <1>12, <2>1, <2>2, <2>3 DEF notBelow, n1, n2, m1, m2, w, n
<1> QED
  BY <1>10, <1>11, <1>12
-----------------------------------------------------------------------------
(* The invariant *)

(* No product is tracked at first. *)
LEMMA TrackedInit == LimbInit => ProductTracked
  BY DEF LimbInit, ProductTracked, ProductExact, x, y

(* An element that differs from a number by a multiple of the modulus is   *)
(* its remainder.                                                          *)
LEMMA RemainderIs ==
  ASSUME NEW n \in Nat, NEW r \in Elements, NEW k \in Nat, n = r + Modulus * k
  PROVE  n % Modulus = r
<1>1. Modulus \in Nat \ {0} /\ r \in 0..(Modulus - 1)
  BY Sizes DEF Elements
<1>2. n = Modulus * k + r
  BY <1>1
<1> QED
  BY <1>1, <1>2, DivisionIs

(* mul keeps ProductTracked.                                               *)
LEMMA TrackedNext == ProductTracked /\ [LimbNext]_limbVars => ProductTracked'
<1> SUFFICES ASSUME ProductTracked, [LimbNext]_limbVars, request'.op = "mul"
             PROVE  ProductTracked'
  BY DEF ProductTracked
<1>1. request' = request
  BY DEF LimbNext, limbVars, AddElements, SubElements, MulHigh, MulLow, MulReduce, InvOfZero,
         StartInv, SubtractV, HalveU, SubtractU, HalveV, ReduceA
<1>2. /\ request.op = "mul" /\ x \in Elements /\ y \in Elements /\ x' = x /\ y' = y
      /\ pc \in {"mul", "mul low", "mul reduce", "done"}
  BY <1>1 DEF ProductTracked, x, y
<1> DEFINE e == x
           f == y
           h == Hi(f)
           c == Lo(f)
<1>3. e \in Nat /\ f \in Nat /\ h \in Digits /\ c \in Digits /\ f = c + Limb * h /\ Limb \in Nat
      /\ Modulus \in Nat /\ h \in Nat /\ c \in Nat
  <2>1. Limb \in Nat /\ Modulus \in Nat
    BY Sizes
  <2>2. e \in Nat /\ f \in Nat /\ h \in Digits /\ c \in Digits /\ f = c + Limb * h
    BY <1>2, ElementFits
  <2>3. h \in Nat /\ c \in Nat
    BY <2>1, <2>2 DEF Digits
  <2> QED
    BY <2>1, <2>2, <2>3
<1>4. CASE MulHigh
  <2>1. IsLimbs(z') /\ z'[3] = 0 /\ \E k \in Nat : x * Hi(y) = WordOf(z') + Modulus * k
    BY <1>2, <1>3, <1>4, MulHighExact DEF MulHigh
  <2> QED
    BY <1>1, <1>2, <1>4, <2>1 DEF MulHigh, ProductTracked, ProductExact
<1>5. CASE MulLow
  <2>1. /\ IsLimbs(z) /\ z[3] = 0
        /\ \E k \in Nat : x * Hi(y) = WordOf(z) + Modulus * k
    BY <1>2, <1>5 DEF ProductTracked, MulLow
  <2>2. PICK k \in Nat : e * h = WordOf(z) + Modulus * k
    BY <2>1
  <2>3. IsLimbs(z') /\ \E j \in Nat : e * c + Limb * WordOf(z) = Value(z') + Modulus * j
    BY <1>2, <1>3, <1>5, <2>1, MulLowExact DEF MulLow
  <2>4. PICK j \in Nat : e * c + Limb * WordOf(z) = Value(z') + Modulus * j
    BY <2>3
  <2>5. WordOf(z) \in Nat /\ Value(z') \in Nat
    <3>1. Value(z') = WordOf(z') + Word * z'[3] /\ WordOf(z') \in Nat /\ z'[3] \in Nat
      BY <2>3, ValueIs, Sizes DEF IsLimbs, Digits
    <3> QED
      BY <2>1, <3>1, ValueIs, Sizes
  <2> DEFINE w == WordOf(z)
             n == Value(z')
  <2> HIDE DEF w, n, e, f, h, c
  <2>6. e * f = e * c + Limb * (e * h)
    BY <1>3
  <2>7. Limb * (w + Modulus * k) = Limb * w + Modulus * (Limb * k)
    BY <1>3, <2>5 DEF w
  <2>8. e * f = n + Modulus * (j + Limb * k) /\ j + Limb * k \in Nat
    <3> DEFINE p == e * c
               q == Limb * w
               s == Modulus * (Limb * k)
               b == Modulus * j
    <3>1. p \in Nat /\ q \in Nat /\ s \in Nat /\ b \in Nat /\ n \in Nat
      BY <1>3, <2>5 DEF w, n
    <3>2. e * f = p + (q + s) /\ p + q = n + b
      BY <2>2, <2>4, <2>6, <2>7 DEF w, n
    <3>3. Modulus * (j + Limb * k) = b + s /\ j + Limb * k \in Nat
      BY <1>3
    <3> HIDE DEF p, q, s, b
    <3>4. e * f = n + (b + s)
      BY <3>1, <3>2
    <3> QED
      BY <3>3, <3>4
  <2>9. \E i \in Nat : x * y = Value(z') + Modulus * i
    BY <2>8 DEF e, f, n
  <2> QED
    BY <1>1, <1>2, <1>5, <2>3, <2>9 DEF MulLow, ProductTracked, ProductExact
<1>6. CASE MulReduce
  <2>1. IsLimbs(z) /\ \E k \in Nat : x * y = Value(z) + Modulus * k
    BY <1>2, <1>6 DEF ProductTracked, MulReduce
  <2>2. PICK k \in Nat : x * y = Value(z) + Modulus * k
    BY <2>1
  <2>3. PICK r \in Elements : result' = <<r>> /\ \E j \in Nat : Value(z) = r + Modulus * j
    BY <1>6, <2>1, MulReduceExact DEF MulReduce, Return
  <2>4. PICK j \in Nat : Value(z) = r + Modulus * j
    BY <2>3
  <2>5. r \in Nat
    BY <1>3 DEF Elements
  <2>6. x * y = r + Modulus * (j + k) /\ j + k \in Nat
    <3>1. x * y = (r + Modulus * j) + Modulus * k
      BY <2>2, <2>4
    <3> QED
      BY <1>3, <2>5, <3>1
  <2>7. Mul(x, y) = r
    <3>1. x * y \in Nat
      BY <1>3
    <3> QED
      BY <2>6, <3>1, RemainderIs DEF Mul
  <2> QED
    BY <1>1, <1>2, <1>6, <2>3, <2>7 DEF MulReduce, Return, ProductTracked, ProductExact, x, y
<1>7. CASE UNCHANGED limbVars
  BY <1>7 DEF limbVars, ProductTracked, ProductExact, x, y
<1> QED
  BY <1>2, <1>4, <1>5, <1>6, <1>7
     DEF LimbNext, AddElements, SubElements, InvOfZero, StartInv, SubtractV, HalveU, SubtractU,
         HalveV, ReduceA

(***************************************************************************)
(* mul of math/field.rs returns the product modulo the field, whatever the *)
(* limbs and the modulus are that LimbAssumption admits.                   *)
(***************************************************************************)
THEOREM MulIsExact == LimbSpec => []ProductExact
<1>1. LimbInit => ProductTracked
  BY TrackedInit
<1>2. ProductTracked /\ [LimbNext]_limbVars => ProductTracked'
  BY TrackedNext
<1>3. ProductTracked => ProductExact
  BY DEF ProductTracked, ProductExact
<1> QED
  BY <1>1, <1>2, <1>3, PTL DEF LimbSpec
-----------------------------------------------------------------------------
(* The steps of inv *)

(* 2 has an inverse. *)
LEMMA OddModulus == \E h \in Nat : Modulus = 2 * h + 1
<1>1. Modulus \in Nat /\ Modulus > 2
  BY FieldAssumption
<1>2. 2 \in Elements \ {0}
  BY <1>1 DEF Elements
<1>3. PICK w \in Elements : (2 * w) % Modulus = 1
  BY <1>2, FieldAssumption
<1>4. w \in Nat /\ 2 * w \in Nat
  BY <1>1 DEF Elements
<1> DEFINE n == 2 * w
<1>5. PICK q \in Nat : \E r \in 0..(Modulus - 1) : n = Modulus * q + r /\ q = n \div Modulus /\ r = n % Modulus
  <2>1. n \in Nat /\ Modulus \in Nat \ {0}
    BY <1>1, <1>4
  <2> HIDE DEF n
  <2> QED
    BY <2>1, Division
<1>6. 2 * w = Modulus * q + 1
  BY <1>3, <1>5
<1>7. PICK h \in Nat : Modulus = 2 * h \/ Modulus = 2 * h + 1
  <2>1. 2 \in Nat \ {0}
    OBVIOUS
  <2>2. PICK h \in Nat : \E r \in 0..(2 - 1) : Modulus = 2 * h + r /\ h = Modulus \div 2 /\ r = Modulus % 2
    BY <1>1, <2>1, Division
  <2> QED
    BY <2>2
<1>8. ASSUME Modulus = 2 * h PROVE FALSE
  <2>1. Modulus * q = 2 * (h * q) /\ h * q \in Nat
    BY <1>7, <1>8
  <2> QED
    BY <1>4, <1>6, <2>1
<1> QED
  BY <1>7, <1>8

(* Half the values of a limb. *)
LEMMA HalfLimb == \E h \in Nat : Limb = 2 * h /\ Limb \div 2 = h
  BY LimbAssumption

(* The limbs of a sum of limbs. *)
LEMMA SumDigit ==
  ASSUME NEW m \in Digits, NEW n \in Digits, NEW carry \in {0, 1}
  PROVE  LET s == m + n + carry
         IN Lo(s) \in Digits /\ Hi(s) \in {0, 1} /\ s = Lo(s) + Limb * Hi(s)
<1> DEFINE s == m + n + carry
<1>1. Limb \in Nat /\ Limb > 1 /\ m \in 0..(Limb - 1) /\ n \in 0..(Limb - 1)
  BY Sizes DEF Digits
<1>2. s \in Nat /\ s < 2 * Limb
  BY <1>1
<1> HIDE DEF s
<1>3. Lo(s) \in Digits /\ Hi(s) \in Nat /\ s = Lo(s) + Limb * Hi(s)
  BY <1>2, Parts
<1>4. Lo(s) \in 0..(Limb - 1)
  BY <1>3 DEF Digits
<1> DEFINE l == Lo(s)
           h == Hi(s)
<1>5. l \in 0..(Limb - 1) /\ h \in Nat /\ s = l + Limb * h
  BY <1>3, <1>4
<1> HIDE DEF l, h
<1>6. h < 2
  <2>1. SUFFICES ASSUME h >= 2 PROVE FALSE
    BY <1>5
  <2>2. Limb * h >= Limb * 2
    BY <1>1, <1>5, <2>1
  <2> QED
    BY <1>1, <1>2, <1>5, <2>2
<1> QED
  BY <1>3, <1>5, <1>6 DEF s, h

(* add_192x192 is exact unless the sum has more than three limbs. *)
LEMMA PlusExact ==
  ASSUME NEW m, IsLimbs(m), NEW n, IsLimbs(n), Value(m) + Value(n) < Word * Limb
  PROVE  IsLimbs(Plus(m, n)) /\ Value(Plus(m, n)) = Value(m) + Value(n)
<1> DEFINE m0 == m[1]
           m1 == m[2]
           m2 == m[3]
           n0 == n[1]
           n1 == n[2]
           n2 == n[3]
           s0 == m0 + n0 + 0
           s1 == m1 + n1 + Hi(s0)
           s2 == m2 + n2 + Hi(s1)
           r0 == Lo(s0)
           r1 == Lo(s1)
           r2 == Lo(s2)
           c0 == Hi(s0)
           c1 == Hi(s1)
           c2 == Hi(s2)
<1>1. /\ m0 \in Digits /\ m1 \in Digits /\ m2 \in Digits
      /\ n0 \in Digits /\ n1 \in Digits /\ n2 \in Digits
  BY DEF IsLimbs
<1>2. Limb \in Nat /\ Limb > 1 /\ Word = Limb * Limb /\ Digits = 0..(Limb - 1)
  BY Sizes DEF Digits
<1>3. r0 \in Digits /\ c0 \in {0, 1} /\ s0 = r0 + Limb * c0
  BY <1>1, SumDigit
<1>4. r1 \in Digits /\ c1 \in {0, 1} /\ s1 = r1 + Limb * c1
  BY <1>1, <1>3, SumDigit
<1>5. r2 \in Digits /\ c2 \in {0, 1} /\ s2 = r2 + Limb * c2
  BY <1>1, <1>4, SumDigit
<1>6. Plus(m, n) = <<r0, r1, r2>>
  BY <1>1, <1>2 DEF Plus
<1>7. /\ m0 \in Nat /\ m1 \in Nat /\ m2 \in Nat /\ n0 \in Nat /\ n1 \in Nat /\ n2 \in Nat
      /\ r0 \in Nat /\ r1 \in Nat /\ r2 \in Nat
  BY <1>1, <1>2, <1>3, <1>4, <1>5
<1>8. /\ Value(m) = m0 + Limb * (m1 + Limb * m2) /\ Value(n) = n0 + Limb * (n1 + Limb * n2)
      /\ Value(<<r0, r1, r2>>) = r0 + Limb * (r1 + Limb * r2)
  BY DEF Value
<1>9. /\ m0 + n0 = r0 + Limb * c0 /\ m1 + n1 + c0 = r1 + Limb * c1
      /\ m2 + n2 + c1 = r2 + Limb * c2
  BY <1>3, <1>4, <1>5, <1>7
<1> HIDE DEF m0, m1, m2, n0, n1, n2, s0, s1, s2, r0, r1, r2, c0, c1, c2
<1>10. Value(m) + Value(n) = Value(<<r0, r1, r2>>) + (Word * Limb) * c2
  <2>1. Value(m) + Value(n) = (m0 + n0) + Limb * ((m1 + n1) + Limb * (m2 + n2))
    BY <1>2, <1>7, <1>8
  <2>2. m0 + n0 = r0 + Limb * c0 /\ m1 + n1 = r1 + Limb * c1 - c0 /\ m2 + n2 = r2 + Limb * c2 - c1
    BY <1>2, <1>3, <1>4, <1>5, <1>7, <1>9
  <2>3. Limb * (m2 + n2) = Limb * r2 + Limb * (Limb * c2) - Limb * c1
    BY <1>2, <1>4, <1>5, <1>7, <2>2
  <2>4. (m1 + n1) + Limb * (m2 + n2) = (r1 + Limb * r2) + Limb * (Limb * c2) - c0
    BY <1>2, <1>3, <1>4, <1>5, <1>7, <2>2, <2>3
  <2>5. Limb * ((m1 + n1) + Limb * (m2 + n2))
          = Limb * (r1 + Limb * r2) + Limb * (Limb * (Limb * c2)) - Limb * c0
    BY <1>2, <1>3, <1>4, <1>5, <1>7, <2>4
  <2>6. Limb * (Limb * (Limb * c2)) = (Word * Limb) * c2
    BY <1>2, <1>5
  <2> QED
    BY <1>2, <1>3, <1>4, <1>5, <1>7, <1>8, <2>1, <2>2, <2>5, <2>6
<1>11. c2 = 0
  <2>1. Value(<<r0, r1, r2>>) \in Nat /\ Word * Limb \in Nat
    BY <1>2, <1>7, <1>8
  <2> QED
    BY <1>5, <1>10, <2>1
<1> QED
  BY <1>2, <1>3, <1>4, <1>5, <1>6, <1>7, <1>8, <1>10, <1>11 DEF IsLimbs

(* What a number halves to, and what is left. *)
LEMMA Halves ==
  ASSUME NEW n \in Nat
  PROVE  \E p \in Nat : \E b \in {0, 1} : n = 2 * p + b /\ n \div 2 = p /\ n % 2 = b
<1>1. 2 \in Nat \ {0}
  OBVIOUS
<1>2. PICK p \in Nat : \E b \in 0..(2 - 1) : n = 2 * p + b /\ p = n \div 2 /\ b = n % 2
  BY <1>1, Division
<1> QED
  BY <1>2

(* Shifting three limbs to the right halves them. *)
LEMMA HalfExact ==
  ASSUME NEW n, IsLimbs(n), ~ Odd(n)
  PROVE  IsLimbs(Half(n)) /\ Value(n) = 2 * Value(Half(n))
<1> DEFINE n0 == n[1]
           n1 == n[2]
           n2 == n[3]
<1>1. /\ n0 \in Nat /\ n1 \in Nat /\ n2 \in Nat /\ n0 < Limb /\ n1 < Limb /\ n2 < Limb
      /\ Limb \in Nat /\ Limb > 1 /\ Digits = 0..(Limb - 1)
  BY Sizes DEF IsLimbs, Digits
<1>2. PICK h \in Nat : Limb = 2 * h /\ Limb \div 2 = h
  BY HalfLimb
<1>3. PICK p0 \in Nat, b0 \in {0, 1} : n0 = 2 * p0 + b0 /\ n0 \div 2 = p0 /\ n0 % 2 = b0
  BY <1>1, Halves
<1>4. PICK p1 \in Nat, b1 \in {0, 1} : n1 = 2 * p1 + b1 /\ n1 \div 2 = p1 /\ n1 % 2 = b1
  BY <1>1, Halves
<1>5. PICK p2 \in Nat, b2 \in {0, 1} : n2 = 2 * p2 + b2 /\ n2 \div 2 = p2 /\ n2 % 2 = b2
  BY <1>1, Halves
<1>6. b0 = 0
  BY <1>3 DEF Odd
<1>7. Half(n) = <<p0 + b1 * h, p1 + b2 * h, p2>>
  BY <1>2, <1>3, <1>4, <1>5 DEF Half
<1>8. Value(n) = n0 + Limb * (n1 + Limb * n2)
  BY DEF Value
<1>9. Value(Half(n)) = (p0 + b1 * h) + Limb * ((p1 + b2 * h) + Limb * p2)
  BY <1>7 DEF Value
<1> HIDE DEF n0, n1, n2
<1>10. IsLimbs(Half(n))
  <2>1. b1 * h \in {0, h} /\ b2 * h \in {0, h}
    BY <1>2, <1>4, <1>5
  <2>2. p0 < h /\ p1 < h /\ p2 < h
    BY <1>1, <1>2, <1>3, <1>4, <1>5
  <2>3. /\ p0 + b1 * h \in 0..(Limb - 1) /\ p1 + b2 * h \in 0..(Limb - 1) /\ p2 \in 0..(Limb - 1)
    BY <1>1, <1>2, <2>1, <2>2
  <2> QED
    BY <1>1, <1>7, <2>3 DEF IsLimbs
<1>11. Value(n) = 2 * Value(Half(n))
  <2> DEFINE w == (p1 + b2 * h) + Limb * p2
  <2>1. 2 * w = 2 * p1 + b2 * Limb + Limb * (2 * p2) /\ w \in Nat
    BY <1>1, <1>2, <1>4, <1>5
  <2>2. b2 * Limb + Limb * (2 * p2) = Limb * n2
    BY <1>1, <1>5
  <2>3. 2 * w = n1 - b1 + Limb * n2
    BY <1>1, <1>4, <1>5, <2>1, <2>2
  <2> HIDE DEF w
  <2>4. 2 * (Limb * w) = Limb * (n1 + Limb * n2) - Limb * b1
    <3>1. 2 * (Limb * w) = Limb * (2 * w)
      BY <1>1, <2>1
    <3>2. Limb * ((n1 + Limb * n2) - b1) = Limb * (n1 + Limb * n2) - Limb * b1
      BY <1>1, <1>4
    <3> QED
      BY <1>1, <1>4, <2>1, <2>3, <3>1, <3>2
  <2>5. 2 * (p0 + b1 * h) = n0 + Limb * b1
    BY <1>2, <1>3, <1>4, <1>6
  <2>6. Value(Half(n)) = (p0 + b1 * h) + Limb * w
    BY <1>9 DEF w
  <2> DEFINE l == p0 + b1 * h
             m == Limb * w
             t == Limb * (n1 + Limb * n2)
             c == Limb * b1
  <2>7. l \in Nat /\ m \in Nat /\ t \in Nat /\ c \in Nat /\ n0 \in Nat
    BY <1>1, <1>2, <1>3, <1>4, <2>1
  <2>8. 2 * m = t - c /\ 2 * l = n0 + c /\ Value(Half(n)) = l + m /\ Value(n) = n0 + t
    BY <1>8, <2>4, <2>5, <2>6
  <2> HIDE DEF l, m, t, c
  <2> QED
    BY <2>7, <2>8
<1> QED
  BY <1>10, <1>11

(* A number of three limbs is odd if its lowest is. *)
LEMMA OddIs ==
  ASSUME NEW n, IsLimbs(n)
  PROVE  /\ Value(n) \in Nat
         /\ \E p \in Nat : Value(n) = 2 * p + (IF Odd(n) THEN 1 ELSE 0)
<1> DEFINE n0 == n[1]
           n1 == n[2]
           n2 == n[3]
<1>1. n0 \in Nat /\ n1 \in Nat /\ n2 \in Nat /\ Limb \in Nat
  BY Sizes DEF IsLimbs, Digits
<1>2. PICK h \in Nat : Limb = 2 * h
  BY HalfLimb
<1>3. PICK p0 \in Nat, b0 \in {0, 1} : n0 = 2 * p0 + b0 /\ n0 % 2 = b0
  BY <1>1, Halves
<1>4. Odd(n) <=> b0 = 1
  BY <1>3 DEF Odd
<1>5. Value(n) = n0 + Limb * (n1 + Limb * n2)
  BY DEF Value
<1> HIDE DEF n0, n1, n2
<1> DEFINE w == n1 + Limb * n2
<1>6. w \in Nat
  BY <1>1
<1> HIDE DEF w
<1>7. Limb * w = 2 * (h * w) /\ h * w \in Nat
  BY <1>2, <1>6
<1>8. Value(n) = 2 * (p0 + h * w) + b0 /\ p0 + h * w \in Nat
  BY <1>3, <1>5, <1>7 DEF w
<1> QED
  BY <1>3, <1>4, <1>8

(* The limbs of the modulus. *)
LEMMA ModulusLimbs ==
  /\ IsLimbs(Limbs(Modulus)) /\ Value(Limbs(Modulus)) = Modulus
  /\ IsLimbs(<<Lo(Modulus) - 1, Hi(Modulus), 0>>)
  /\ Value(<<Lo(Modulus) - 1, Hi(Modulus), 0>>) = Modulus - 1
<1>1. Modulus \in Nat /\ Modulus < Word /\ Limb \in Nat /\ Limb > 1 /\ Word \in Nat
  BY Sizes
<1>2. IsLimbs(Limbs(Modulus)) /\ Value(Limbs(Modulus)) = Modulus
  BY <1>1, LimbsExact, ValueIs
<1> DEFINE l == Lo(Modulus)
           h == Hi(Modulus)
<1>3. l \in 0..(Limb - 1) /\ h \in 0..(Limb - 1) /\ Modulus = l + Limb * h
  BY <1>1, Parts DEF Digits
<1>4. PICK q \in Nat : Modulus = 2 * q + 1
  BY OddModulus
<1>5. PICK p \in Nat : Limb = 2 * p
  BY HalfLimb
<1> HIDE DEF l, h
<1>6. l # 0
  <2>1. SUFFICES ASSUME l = 0 PROVE FALSE
    OBVIOUS
  <2>2. Limb * h = 2 * (p * h) /\ p * h \in Nat
    BY <1>3, <1>5
  <2> QED
    BY <1>3, <1>4, <2>1, <2>2
<1>7. IsLimbs(<<l - 1, h, 0>>)
  BY <1>1, <1>3, <1>6 DEF IsLimbs, Digits
<1>8. Value(<<l - 1, h, 0>>) = (l - 1) + Limb * (h + Limb * 0)
  BY DEF Value
<1>9. Value(<<l - 1, h, 0>>) = Modulus - 1
  BY <1>1, <1>3, <1>8
<1> QED
  BY <1>2, <1>7, <1>9 DEF l, h

(* A number is halved modulo the field, or it and the modulus are. *)
LEMMA HalfInFieldExact ==
  ASSUME NEW n, IsLimbs(n), Value(n) + Modulus < Word * Limb
  PROVE  /\ IsLimbs(HalfInField(n))
         /\ \E j \in {0, 1} : 2 * Value(HalfInField(n)) = Value(n) + Modulus * j
<1>1. Modulus \in Nat /\ Value(n) \in Nat
  BY Sizes, OddIs
<1>2. CASE ~ Odd(n)
  <2>1. HalfInField(n) = Half(n)
    BY <1>2 DEF HalfInField
  <2>2. IsLimbs(Half(n)) /\ Value(n) = 2 * Value(Half(n))
    BY <1>2, HalfExact
  <2>3. 2 * Value(HalfInField(n)) = Value(n) + Modulus * 0
    BY <1>1, <2>1, <2>2
  <2> QED
    BY <2>1, <2>2, <2>3
<1>3. CASE Odd(n)
  <2> DEFINE s == Plus(n, Limbs(Modulus))
  <2>1. HalfInField(n) = Half(s)
    BY <1>3 DEF HalfInField
  <2>2. IsLimbs(s) /\ Value(s) = Value(n) + Modulus
    BY PlusExact, ModulusLimbs
  <2> HIDE DEF s
  <2>3. ~ Odd(s)
    <3>1. PICK p \in Nat : Value(n) = 2 * p + 1
      BY <1>3, OddIs
    <3>2. PICK q \in Nat : Modulus = 2 * q + 1
      BY OddModulus
    <3>3. PICK r \in Nat : Value(s) = 2 * r + (IF Odd(s) THEN 1 ELSE 0)
      BY <2>2, OddIs
    <3>4. Value(s) = 2 * (p + q + 1)
      BY <2>2, <3>1, <3>2
    <3> QED
      BY <3>1, <3>2, <3>3, <3>4
  <2>4. IsLimbs(Half(s)) /\ Value(s) = 2 * Value(Half(s))
    BY <2>2, <2>3, HalfExact
  <2>5. 2 * Value(HalfInField(n)) = Value(n) + Modulus * 1
    BY <1>1, <2>1, <2>2, <2>4
  <2> QED
    BY <2>1, <2>4, <2>5
<1> QED
  BY <1>2, <1>3

(* The comparison of three limbs with a word. *)
LEMMA ExceedsIs ==
  ASSUME NEW n, IsLimbs(n), NEW m \in Nat, m < Word
  PROVE  /\ Exceeds(n, m) <=> Value(n) > m
         /\ ~ Exceeds(n, m) => WordOf(n) = Value(n)
<1>1. /\ WordOf(n) \in Nat /\ WordOf(n) < Word /\ Value(n) = WordOf(n) + Word * n[3]
      /\ n[3] \in Nat /\ Word \in Nat
  BY ValueIs, Sizes DEF IsLimbs, Digits
<1>2. CASE n[3] = 0
  <2>1. Value(n) = WordOf(n)
    BY <1>1, <1>2
  <2> QED
    BY <1>1, <1>2, <2>1 DEF Exceeds
<1>3. CASE n[3] > 0
  <2>1. Word * n[3] >= Word
    BY <1>1, <1>3
  <2> DEFINE p == Word * n[3]
             q == WordOf(n)
  <2>2. p \in Nat /\ q \in Nat /\ Value(n) = q + p /\ p >= Word
    BY <1>1, <2>1
  <2> HIDE DEF p, q
  <2>3. Value(n) > m
    BY <1>1, <2>2
  <2> QED
    BY <1>3, <2>3 DEF Exceeds
<1> QED
  BY <1>1, <1>2, <1>3
-----------------------------------------------------------------------------
(* How far inv gets.  Each subtraction adds half a modulus at most to what *)
(* a and d are, and the halving behind it halves u + v; so there are only  *)
(* as many as u + v can be halved.  s halvings make of it at most the 2^s  *)
(* th part, for which a cubic is enough.                                   *)

(* six times a number that is at most 2^s *)
Growth(s) == s * s * s + 5 * s + 6

(* It at most doubles in a step. *)
LEMMA GrowthDoubles ==
  ASSUME NEW s \in Nat
  PROVE  Growth(s) \in Nat /\ Growth(s) >= 6 /\ Growth(s + 1) <= 2 * Growth(s)
<1> DEFINE q == s * s
           c == s * q
<1>1. q \in Nat /\ c \in Nat
  OBVIOUS
<1>2. Growth(s) = c + 5 * s + 6
  BY DEF Growth
<1>3. Growth(s + 1) = c + 3 * q + 8 * s + 12
  <2>1. (s + 1) * (s + 1) = q + 2 * s + 1
    OBVIOUS
  <2>2. (s + 1) * (s + 1) * (s + 1) = (s + 1) * (q + 2 * s + 1)
    BY <2>1
  <2>3. (s + 1) * (q + 2 * s + 1) = c + q + 2 * q + 2 * s + s + 1
    OBVIOUS
  <2> QED
    BY <1>1, <2>2, <2>3 DEF Growth
<1>4. c + 2 * s >= 3 * q
  <2>1. CASE s <= 1
    <3>1. s = 0 \/ s = 1
      BY <2>1
    <3> QED
      BY <3>1
  <2>2. CASE s = 2
    BY <2>2
  <2>3. CASE s >= 3
    <3>1. s * q >= 3 * q
      BY <1>1, <2>3
    <3> QED
      BY <1>1, <3>1
  <2> QED
    BY <2>1, <2>2, <2>3
<1> HIDE DEF q, c
<1> QED
  BY <1>1, <1>2, <1>3, <1>4

(* The subtractions are so few that half a modulus each fits in limbs. *)
LEMMA FewSteps ==
  ASSUME NEW s \in Nat, NEW n \in Nat, Growth(s) * n <= 18 * Modulus
  PROVE  (n >= 2 => s + 3 <= Limb) /\ (n >= 1 => s + 4 <= 2 * Limb)
<1>1. Limb \in Nat /\ Limb >= 16 /\ Modulus \in Nat /\ Modulus < Limb * Limb
  BY Sizes, LimbIsWide
<1> DEFINE w == Limb * Limb
           g == Growth(s)
<1>2. w \in Nat /\ w >= 16 * Limb /\ Modulus < w
  BY <1>1
<1>3. g = s * s * s + 5 * s + 6 /\ g \in Nat
  BY GrowthDoubles DEF Growth
<1>4. ASSUME NEW t \in Nat, s >= t PROVE g >= t * t * t
  <2>1. s * s >= t * t /\ s * s \in Nat /\ t * t \in Nat
    <3>1. s * s >= s * t /\ s * t >= t * t
      BY <1>4
    <3> QED
      BY <3>1
  <2>2. s * (s * s) >= t * (t * t)
    <3> DEFINE p == s * s
               q == t * t
    <3>1. p \in Nat /\ q \in Nat /\ p >= q
      BY <2>1
    <3> HIDE DEF p, q
    <3>2. s * p >= s * q /\ s * q >= t * q
      BY <1>4, <3>1
    <3>3. s * p >= t * q
      BY <3>1, <3>2
    <3> QED
      BY <3>3 DEF p, q
  <2> QED
    BY <1>3, <2>2
<1>5. ASSUME n >= 2 PROVE s + 3 <= Limb
  <2> SUFFICES ASSUME s + 3 > Limb PROVE FALSE
    BY <1>1
  <2> DEFINE t == Limb - 2
  <2>1. t \in Nat /\ s >= t
    BY <1>1
  <2>2. t * t * t = Limb * w - 6 * w + 12 * Limb - 8
    <3>1. t * t = w - 4 * Limb + 4
      BY <1>1
    <3>2. t * (w - 4 * Limb + 4) = Limb * w - 4 * w + 4 * Limb - 2 * w + 8 * Limb - 8
      BY <1>1, <1>2
    <3> QED
      BY <1>1, <1>2, <2>1, <3>1, <3>2
  <2>3. Limb * w >= 16 * w
    BY <1>1, <1>2
  <2>4. g >= Limb * w - 6 * w + 12 * Limb - 8
    BY <1>4, <2>1, <2>2
  <2>5. g * n >= 2 * g
    <3> HIDE DEF g
    <3> QED
      BY <1>3, <1>5
  <2> DEFINE b == Limb * w
  <2>6. b \in Nat
    BY <1>1, <1>2
  <2> HIDE DEF b, w, g, t
  <2>7. g >= 10 * w
    BY <1>1, <1>2, <1>3, <2>3, <2>4, <2>6 DEF b
  <2>8. g * n \in Nat
    BY <1>3
  <2> QED
    BY <1>1, <1>2, <1>3, <2>5, <2>7, <2>8 DEF g
<1>6. ASSUME n >= 1 PROVE s + 4 <= 2 * Limb
  <2> SUFFICES ASSUME s + 4 > 2 * Limb PROVE FALSE
    BY <1>1
  <2>1. s >= Limb + 3 /\ Limb + 3 \in Nat
    BY <1>1
  <2>2. g >= (Limb + 3) * (Limb + 3) * (Limb + 3)
    BY <1>4, <2>1
  <2>3. (Limb + 3) * (Limb + 3) = w + 6 * Limb + 9
    BY <1>1
  <2>4. (w + 6 * Limb + 9) * (Limb + 3) = w * Limb + 6 * w + 9 * Limb + 3 * w + 18 * Limb + 27
    BY <1>1, <1>2
  <2>5. w * Limb >= 16 * w
    BY <1>1, <1>2
  <2> DEFINE b == w * Limb
  <2>6. b \in Nat
    BY <1>1, <1>2
  <2>7. g >= b + 9 * w + 27 * Limb + 27
    BY <1>1, <1>2, <2>2, <2>3, <2>4
  <2> HIDE DEF b, w, g
  <2>8. g * n >= g /\ g * n \in Nat
    BY <1>3, <1>6
  <2>9. g >= 25 * w
    BY <1>1, <1>2, <1>3, <2>5, <2>6, <2>7 DEF b
  <2> QED
    BY <1>1, <1>2, <1>3, <2>8, <2>9 DEF g
<1> QED
  BY <1>5, <1>6

(* Half of a multiple of the modulus is one too, as the modulus is odd.    *)
LEMMA EvenMultiple ==
  ASSUME NEW n \in Int, NEW i \in Int, 2 * n = Modulus * i
  PROVE  \E j \in Int : n = Modulus * j
<1>1. PICK h \in Nat : Modulus = 2 * h + 1
  BY OddModulus
<1>2. 2 * n = 2 * (h * i) + i /\ h * i \in Int
  BY <1>1
<1> DEFINE j == n - h * i
<1>3. j \in Int /\ i = 2 * j
  BY <1>2
<1> HIDE DEF j
<1>4. 2 * n = Modulus * (2 * j)
  BY <1>3
<1>5. Modulus * (2 * j) = 2 * (Modulus * j) /\ Modulus * j \in Int
  BY <1>1, <1>3
<1>6. n = Modulus * j
  BY <1>4, <1>5
<1> QED
  BY <1>3, <1>6

(* c times e is -w, up to a multiple of the modulus.                       *)
Balanced(c, e, w) == \E k \in Int : c * e + w = Modulus * k

(* Halving a coefficient and what it stands for keeps them congruent.      *)
LEMMA HalvedCongruent ==
  ASSUME NEW e \in Nat, NEW c \in Nat, NEW half \in Nat, NEW j \in {0, 1},
         2 * half = c + Modulus * j,
         NEW w \in Int, Balanced(c, e, 2 * w)
  PROVE  Balanced(half, e, w)
<1>0. PICK k \in Int : c * e + 2 * w = Modulus * k
  BY DEF Balanced
<1>1. Modulus \in Nat
  BY Sizes
<1>2. 2 * (half * e + w) = Modulus * (k + j * e)
  <2>1. 2 * (half * e) = (2 * half) * e
    OBVIOUS
  <2>2. (c + Modulus * j) * e = c * e + Modulus * (j * e)
    BY <1>1
  <2>3. Modulus * (k + j * e) = Modulus * k + Modulus * (j * e)
    BY <1>1
  <2> DEFINE p == half * e
             q == c * e
             r == Modulus * (j * e)
             t == Modulus * k
  <2>4. p \in Nat /\ q \in Nat /\ r \in Int /\ t \in Int
    BY <1>1
  <2>5. 2 * p = q + r /\ q + 2 * w = t /\ Modulus * (k + j * e) = t + r
    BY <1>0, <2>1, <2>2, <2>3
  <2> HIDE DEF p, q, r, t
  <2>6. 2 * (p + w) = Modulus * (k + j * e)
    BY <2>4, <2>5
  <2> QED
    BY <2>6 DEF p
<1>3. half * e + w \in Int /\ k + j * e \in Int
  OBVIOUS
<1> QED
  BY <1>2, <1>3, EvenMultiple DEF Balanced

(* The two coefficients are at rest, or one has just been added to; sum is *)
(* what u + v are then, or will be behind the halving that follows.        *)
Settled(s, one, other, sum) ==
  /\ Growth(s) * sum <= 18 * Modulus
  /\ 2 * one <= Modulus * (s + 2) /\ 2 * other <= Modulus * (s + 2)
AddedTo(s, one, other, sum) ==
  /\ Growth(s) * sum <= 18 * Modulus
  /\ one <= Modulus * (s + 2) /\ 2 * other <= Modulus * (s + 2)

(* one coefficient is added to the other *)
LEMMA SettledAdds ==
  ASSUME NEW s \in Nat, NEW one \in Nat, NEW other \in Nat, NEW sum, Settled(s, one, other, sum)
  PROVE  AddedTo(s, one + other, other, sum)
<1>1. Modulus * (s + 2) \in Nat
  BY Sizes
<1> DEFINE b == Modulus * (s + 2)
<1>2. 2 * one <= b /\ 2 * other <= b /\ b \in Nat
  BY <1>1 DEF Settled
<1> HIDE DEF b
<1>3. one + other <= b
  BY <1>2
<1> QED
  BY <1>3 DEF Settled, AddedTo, b

(* the first halving *)
LEMMA AddedHalves ==
  ASSUME NEW s \in Nat, NEW one \in Nat, NEW other \in Nat, NEW sum \in Nat,
         AddedTo(s, one, other, 2 * sum),
         NEW half \in Nat, NEW j \in {0, 1}, 2 * half = one + Modulus * j
  PROVE  Settled(s + 1, half, other, sum)
<1>1. Modulus \in Nat
  BY Sizes
<1>2. Growth(s + 1) * sum <= 18 * Modulus
  <2> DEFINE g == Growth(s)
             f == Growth(s + 1)
  <2>1. g \in Nat /\ f \in Nat /\ f <= 2 * g
    BY GrowthDoubles
  <2>2. g * (2 * sum) <= 18 * Modulus
    BY DEF AddedTo
  <2> HIDE DEF f, g
  <2>3. f * sum <= (2 * g) * sum /\ (2 * g) * sum = g * (2 * sum)
    BY <2>1
  <2>4. f * sum \in Nat /\ g * (2 * sum) \in Nat
    BY <2>1
  <2> QED
    BY <1>1, <2>2, <2>3, <2>4 DEF f
<1>3. Modulus * ((s + 1) + 2) = Modulus * (s + 2) + Modulus /\ Modulus * (s + 2) \in Nat
  BY <1>1
<1>4. Modulus * j <= Modulus /\ Modulus * j \in Nat
  BY <1>1
<1> QED
  BY <1>1, <1>2, <1>3, <1>4 DEF Settled, AddedTo

(* the halvings behind it *)
LEMMA SettledHalves ==
  ASSUME NEW s \in Nat, NEW one \in Nat, NEW other \in Nat, NEW sum \in Nat, NEW less \in Nat,
         Settled(s, one, other, sum), less <= sum,
         NEW half \in Nat, NEW j \in {0, 1}, 2 * half = one + Modulus * j
  PROVE  Settled(s, half, other, less)
<1>1. Modulus \in Nat
  BY Sizes
<1>2. Growth(s) * less <= 18 * Modulus
  <2> DEFINE g == Growth(s)
  <2>1. g \in Nat /\ g * sum <= 18 * Modulus
    BY GrowthDoubles DEF Settled
  <2> HIDE DEF g
  <2>2. g * less <= g * sum /\ g * less \in Nat /\ g * sum \in Nat
    BY <2>1
  <2> QED
    BY <1>1, <2>1, <2>2 DEF g
<1>3. Modulus * (s + 2) >= 2 * Modulus /\ Modulus * (s + 2) \in Nat
  <2>1. Modulus * (s + 2) = Modulus * s + 2 * Modulus /\ Modulus * s \in Nat
    BY <1>1
  <2> QED
    BY <1>1, <2>1
<1>4. Modulus * j <= Modulus /\ Modulus * j \in Nat
  BY <1>1
<1> DEFINE b == Modulus * (s + 2)
           m == Modulus * j
<1>5. 2 * one <= b /\ 2 * half = one + m /\ m <= Modulus /\ b >= 2 * Modulus /\ b \in Nat /\ m \in Nat
  BY <1>3, <1>4 DEF Settled
<1> HIDE DEF b, m
<1>6. 2 * half <= b
  BY <1>1, <1>5
<1> QED
  BY <1>2, <1>6 DEF Settled, b

(* Neither sums nor numbers that are halved have more than three limbs.    *)
LEMMA SumsFit ==
  ASSUME NEW s \in Nat, NEW one \in Nat, NEW other \in Nat, NEW sum \in Nat
  PROVE  /\ Settled(s, one, other, sum) /\ sum >= 2 => one + other < Word * Limb
         /\ Settled(s, one, other, sum) /\ sum >= 1 => one + Modulus < Word * Limb
         /\ AddedTo(s, one, other, sum) /\ sum >= 2 => one + Modulus < Word * Limb
<1>1. /\ Modulus \in Nat /\ Modulus > 2 /\ Limb \in Nat /\ Word \in Nat /\ Modulus < Word /\ Limb > 1
  BY Sizes
<1>2. Modulus * Limb < Word * Limb /\ Modulus * Limb \in Nat /\ Word * Limb \in Nat
  <2>1. (Modulus + 1) * Limb <= Word * Limb
    BY <1>1
  <2>2. (Modulus + 1) * Limb = Modulus * Limb + Limb
    BY <1>1
  <2> QED
    BY <1>1, <2>1, <2>2
<1>3. Modulus * (s + 2) \in Nat /\ Modulus * (s + 3) = Modulus * (s + 2) + Modulus
      /\ Modulus * (s + 4) = Modulus * (s + 2) + 2 * Modulus
  BY <1>1
<1>4. ASSUME s + 3 <= Limb PROVE Modulus * (s + 3) <= Modulus * Limb
  BY <1>1, <1>4
<1>5. ASSUME s + 4 <= 2 * Limb PROVE Modulus * (s + 4) <= 2 * (Modulus * Limb)
  <2>1. Modulus * (s + 4) <= Modulus * (2 * Limb)
    BY <1>1, <1>5
  <2>2. Modulus * (2 * Limb) = 2 * (Modulus * Limb)
    BY <1>1
  <2> QED
    BY <2>1, <2>2
<1> DEFINE b == Modulus * (s + 2)
           m == Modulus * Limb
           w == Word * Limb
<1>6. b \in Nat /\ m \in Nat /\ w \in Nat /\ m < w
  BY <1>2, <1>3
<1>7. ASSUME s + 3 <= Limb PROVE b + Modulus <= m
  BY <1>3, <1>4, <1>7
<1>8. ASSUME s + 4 <= 2 * Limb PROVE b + 2 * Modulus <= 2 * m
  BY <1>3, <1>5, <1>8
<1>9. ASSUME Settled(s, one, other, sum), sum >= 2 PROVE one + other < w
  <2>1. s + 3 <= Limb /\ 2 * one <= b /\ 2 * other <= b
    BY <1>9, FewSteps DEF Settled
  <2> HIDE DEF b, m, w
  <2> QED
    BY <1>1, <1>6, <1>7, <2>1
<1>10. ASSUME Settled(s, one, other, sum), sum >= 1 PROVE one + Modulus < w
  <2>1. s + 4 <= 2 * Limb /\ 2 * one <= b
    BY <1>10, FewSteps DEF Settled
  <2> HIDE DEF b, m, w
  <2> QED
    BY <1>1, <1>6, <1>8, <2>1
<1>11. ASSUME AddedTo(s, one, other, sum), sum >= 2 PROVE one + Modulus < w
  <2>1. s + 3 <= Limb /\ one <= b
    BY <1>11, FewSteps DEF AddedTo
  <2> HIDE DEF b, m, w
  <2> QED
    BY <1>1, <1>6, <1>7, <2>1
<1> QED
  BY <1>9, <1>10, <1>11
-----------------------------------------------------------------------------
(* inv: a times x is v, and d times x is -u, up to multiples of the        *)
(* modulus; and neither a nor d outgrows its limbs.                        *)
Congruent ==
  /\ x # 0 /\ IsLimbs(u) /\ IsLimbs(a) /\ IsLimbs(d) /\ Value(u) >= 1 /\ v \in 0..Modulus
  /\ \E k \in Int : Value(a) * x - v = Modulus * k
  /\ \E k \in Int : Value(d) * x + Value(u) = Modulus * k

InverseTracked ==
  request.op = "inv" =>
    /\ x \in Elements
    /\ pc \in {"inv", "compare", "halve u", "halve v", "done"}
    /\ pc = "inv" => v = Modulus /\ a = <<0, 0, 0>>
    /\ pc \in {"compare", "halve u", "halve v"} => Congruent
    /\ pc = "compare" =>
         /\ Odd(u) /\ v % 2 = 1
         /\ \E s \in Nat : Settled(s, Value(d), Value(a), Value(u) + v)
    /\ pc = "halve u" =>
         /\ v % 2 = 1
         /\ \E s \in Nat : \/ Settled(s, Value(d), Value(a), Value(u) + v)
                           \/ ~ Odd(u) /\ AddedTo(s, Value(d), Value(a), Value(u) + 2 * v)
    /\ pc = "halve v" =>
         /\ Odd(u)
         /\ \E s \in Nat : \/ Settled(s, Value(a), Value(d), Value(u) + v)
                           \/ v % 2 = 0 /\ AddedTo(s, Value(a), Value(d), v + 2 * Value(u))
    /\ pc = "done" => result = <<Inv(x)>>

(* what Congruent says of the numbers *)
LEMMA CongruentParts ==
  ASSUME Congruent, x \in Elements
  PROVE  /\ Value(u) \in Nat /\ Value(a) \in Nat /\ Value(d) \in Nat /\ v \in Nat /\ v < Word
         /\ x \in Nat /\ Modulus \in Nat /\ Modulus > 2
  BY OddIs, Sizes DEF Congruent, Elements

(* An element with product 1 is the inverse.                               *)
LEMMA InverseIs ==
  ASSUME NEW e \in Elements \ {0}, NEW w \in Elements, NEW k \in Int, w * e - 1 = Modulus * k
  PROVE  Inv(e) = w
<1>1. Modulus \in Nat /\ Modulus > 2 /\ e \in Nat /\ w \in Nat /\ w * e \in Nat
  BY Sizes DEF Elements
<1>2. 1 \in Elements
  BY <1>1 DEF Elements
<1>3. k >= 0
  <2>1. SUFFICES ASSUME k <= -1 PROVE FALSE
    OBVIOUS
  <2>2. Modulus * k <= Modulus * (-1)
    BY <1>1, <2>1
  <2> QED
    BY <1>1, <2>2
<1>4. Mul(e, w) = 1
  <2>1. w * e = 1 + Modulus * k /\ k \in Nat
    BY <1>1, <1>3
  <2>2. e * w = w * e
    BY <1>1
  <2> QED
    BY <1>1, <1>2, <2>1, <2>2, RemainderIs DEF Mul
<1> DEFINE c == CHOOSE y1 \in Elements : Mul(e, y1) = 1
<1>5. c \in Elements /\ Mul(e, c) = 1
  BY <1>4
<1>6. Inv(e) = c
  BY DEF Inv
<1> HIDE DEF c
<1>7. c \in Nat /\ e * c \in Nat
  BY <1>1, <1>5 DEF Elements
<1>8. PICK q \in Nat : e * c = Modulus * q + 1
  <2> DEFINE n == e * c
  <2>1. n \in Nat /\ Modulus \in Nat \ {0} /\ n % Modulus = 1
    BY <1>1, <1>5, <1>7 DEF Mul
  <2> HIDE DEF n
  <2>2. PICK q \in Nat : \E r \in 0..(Modulus - 1) : n = Modulus * q + r /\ q = n \div Modulus /\ r = n % Modulus
    BY <2>1, Division
  <2> QED
    BY <2>1, <2>2 DEF n
<1>9. c - w = Modulus * (w * q - c * k) /\ w * q - c * k \in Int
  <2>1. w * (e * c) = w * (Modulus * q) + w /\ (w * e) * c = (Modulus * k) * c + c
    <3>1. w * (Modulus * q + 1) = w * (Modulus * q) + w
      BY <1>1
    <3>2. w * e = Modulus * k + 1
      BY <1>1
    <3>3. (Modulus * k + 1) * c = (Modulus * k) * c + c
      BY <1>1, <1>7
    <3> QED
      BY <1>8, <3>1, <3>2, <3>3
  <2>2. w * (e * c) = (w * e) * c
    BY <1>1, <1>7
  <2>3. w * (Modulus * q) = Modulus * (w * q) /\ (Modulus * k) * c = Modulus * (c * k)
    BY <1>1, <1>7
  <2>4. Modulus * (w * q - c * k) = Modulus * (w * q) - Modulus * (c * k)
    BY <1>1, <1>7
  <2> DEFINE p == Modulus * (w * q)
             t == Modulus * (c * k)
  <2>5. p \in Int /\ t \in Int /\ p + w = t + c
    BY <1>1, <1>7, <2>1, <2>2, <2>3
  <2> HIDE DEF p, t
  <2>6. c - w = p - t
    BY <1>1, <1>7, <2>5
  <2> QED
    BY <1>1, <1>7, <2>4, <2>6 DEF p, t
<1> DEFINE i == w * q - c * k
<1>10. i \in Int /\ c - w = Modulus * i /\ c < Modulus /\ w < Modulus
  BY <1>1, <1>5, <1>9 DEF Elements
<1> HIDE DEF i
<1>11. i = 0
  <2>1. CASE i >= 1
    <3>1. Modulus * i >= Modulus * 1
      BY <1>1, <1>10, <2>1
    <3> QED
      BY <1>1, <1>7, <1>10, <3>1
  <2>2. CASE i <= -1
    <3>1. Modulus * i <= Modulus * (-1)
      BY <1>1, <1>10, <2>2
    <3> QED
      BY <1>1, <1>7, <1>10, <3>1
  <2> QED
    BY <1>10, <2>1, <2>2
<1> QED
  BY <1>1, <1>6, <1>7, <1>10, <1>11

(* u = x or x + m, d = m - 1 *)
LEMMA StartInvTracks ==
  ASSUME InverseTracked, request.op = "inv", StartInv
  PROVE  InverseTracked'
<1>1. /\ request' = request /\ x' = x /\ x \in Elements /\ x # 0 /\ v' = v /\ v = Modulus
      /\ a' = a /\ a = <<0, 0, 0>> /\ pc' = "compare"
      /\ u' = IF x % 2 = 1 THEN Limbs(x) ELSE Plus(Limbs(x), Limbs(Modulus))
      /\ d' = <<Lo(Modulus) - 1, Hi(Modulus), 0>>
  BY DEF StartInv, InverseTracked, x
<1>2. /\ Modulus \in Nat /\ Modulus > 2 /\ Limb \in Nat /\ Limb > 1 /\ Word \in Nat /\ x \in Nat
      /\ x < Modulus /\ Modulus < Word
  BY <1>1, Sizes DEF Elements
<1>3. IsLimbs(d') /\ Value(d') = Modulus - 1
  BY <1>1, ModulusLimbs
<1>4. IsLimbs(a') /\ Value(a') = 0
  <2>1. Value(<<0, 0, 0>>) = 0 + Limb * (0 + Limb * 0)
    BY DEF Value
  <2>2. IsLimbs(<<0, 0, 0>>)
    BY <1>2 DEF IsLimbs, Digits
  <2> QED
    BY <1>1, <1>2, <2>1, <2>2
<1>5. IsLimbs(Limbs(x)) /\ Value(Limbs(x)) = x
  BY <1>2, LimbsExact, ValueIs
<1>6. PICK h \in Nat : Modulus = 2 * h + 1
  BY OddModulus
<1>7. PICK p \in Nat, b \in {0, 1} : x = 2 * p + b /\ x % 2 = b
  BY <1>2, Halves
<1>8. \E j \in {0, 1} : /\ IsLimbs(u') /\ Value(u') = x + Modulus * j
                        /\ \E n \in Nat : Value(u') = 2 * n + 1
  <2>1. CASE b = 1
    <3>1. u' = Limbs(x)
      BY <1>1, <1>7, <2>1
    <3>2. Value(u') = x + Modulus * 0 /\ Value(u') = 2 * p + 1
      BY <1>2, <1>5, <1>7, <2>1, <3>1
    <3> QED
      BY <1>5, <1>7, <3>1, <3>2
  <2>2. CASE b = 0
    <3>1. u' = Plus(Limbs(x), Limbs(Modulus))
      BY <1>1, <1>7, <2>2
    <3>2. x + Modulus < Word * Limb
      <4>1. Word * Limb >= Word * 2
        BY <1>2
      <4> QED
        BY <1>2, <4>1
    <3>3. IsLimbs(u') /\ Value(u') = x + Modulus
      BY <1>5, <3>1, <3>2, ModulusLimbs, PlusExact
    <3>4. Value(u') = x + Modulus * 1 /\ Value(u') = 2 * (p + h) + 1 /\ p + h \in Nat
      BY <1>2, <1>6, <1>7, <2>2, <3>3
    <3> QED
      BY <3>3, <3>4
  <2> QED
    BY <1>7, <2>1, <2>2
<1>9. PICK j \in {0, 1} : /\ IsLimbs(u') /\ Value(u') = x + Modulus * j
                          /\ \E n \in Nat : Value(u') = 2 * n + 1
  BY <1>8
<1>10. Odd(u')
  <2>1. PICK n \in Nat : Value(u') = 2 * n + 1
    BY <1>9
  <2>2. PICK m \in Nat : Value(u') = 2 * m + (IF Odd(u') THEN 1 ELSE 0)
    BY <1>9, OddIs
  <2> QED
    BY <2>1, <2>2
<1>11. v' % 2 = 1
  BY <1>1, <1>6
<1>12. Value(a') * x' - v' = Modulus * (-1)
  BY <1>1, <1>2, <1>4
<1>13. Value(d') * x' + Value(u') = Modulus * (x + j)
  <2>1. (Modulus - 1) * x = Modulus * x - x /\ Modulus * (x + j) = Modulus * x + Modulus * j
    BY <1>2
  <2> QED
    BY <1>1, <1>2, <1>3, <1>9, <2>1
<1>14. Value(u') >= 1 /\ Value(u') \in Nat /\ Value(u') + v' <= 3 * Modulus
  BY <1>1, <1>2, <1>9
<1>15. Congruent'
  <2>1. -1 \in Int /\ x + j \in Int /\ v' \in 0..Modulus
    BY <1>1, <1>2
  <2> QED
    BY <1>1, <1>3, <1>4, <1>9, <1>12, <1>13, <1>14, <2>1 DEF Congruent
<1>16. Settled(0, Value(d'), Value(a'), Value(u') + v')
  <2>1. Growth(0) = 6
    BY DEF Growth
  <2> QED
    BY <1>1, <1>2, <1>3, <1>4, <1>14, <2>1 DEF Settled
<1> QED
  BY <1>1, <1>10, <1>11, <1>15, <1>16 DEF InverseTracked

(* u = u - v, d = d + a *)
LEMMA SubtractVTracks ==
  ASSUME InverseTracked, request.op = "inv", SubtractV
  PROVE  InverseTracked'
<1>1. /\ request' = request /\ x' = x /\ x \in Elements /\ v' = v /\ a' = a /\ pc' = "halve u"
      /\ u' = Minus(u, Limbs(v)) /\ d' = Plus(d, a)
      /\ Congruent /\ Odd(u) /\ v % 2 = 1 /\ Exceeds(u, v)
  BY DEF SubtractV, InverseTracked, x
<1>2. PICK s \in Nat : Settled(s, Value(d), Value(a), Value(u) + v)
  BY DEF InverseTracked, SubtractV
<1>3. /\ Value(u) \in Nat /\ Value(a) \in Nat /\ Value(d) \in Nat /\ v \in Nat /\ v < Word
      /\ x \in Nat /\ Modulus \in Nat /\ IsLimbs(u) /\ IsLimbs(a) /\ IsLimbs(d)
      /\ x # 0 /\ v \in 0..Modulus /\ Value(u) >= 1
  BY <1>1, CongruentParts DEF Congruent
<1>4. Value(u) > v
  BY <1>1, <1>3, ExceedsIs
<1>5. IsLimbs(Limbs(v)) /\ Value(Limbs(v)) = v
  BY <1>3, LimbsExact, ValueIs, Sizes
<1>6. IsLimbs(u') /\ Value(u') = Value(u) - v
  <2>1. Value(u) >= Value(Limbs(v))
    BY <1>3, <1>4, <1>5
  <2> QED
    BY <1>1, <1>3, <1>5, <2>1, MinusExact
<1>7. PICK p \in Nat : v = 2 * p + 1
  BY <1>1, <1>3, Halves
<1>8. IsLimbs(d') /\ Value(d') = Value(d) + Value(a)
  <2>1. Value(u) + v \in Nat /\ Value(u) + v >= 2
    BY <1>3, <1>4, <1>7
  <2>2. Value(d) + Value(a) < Word * Limb
    BY <1>2, <1>3, <2>1, SumsFit
  <2> QED
    BY <1>1, <1>3, <2>2, PlusExact
<1>9. ~ Odd(u')
  <2>1. PICK n \in Nat : Value(u) = 2 * n + 1
    BY <1>1, <1>3, OddIs
  <2>2. PICK m \in Nat : Value(u') = 2 * m + (IF Odd(u') THEN 1 ELSE 0)
    BY <1>6, OddIs
  <2>3. Value(u') = 2 * (n - p)
    BY <1>6, <1>7, <2>1
  <2> QED
    BY <1>7, <2>1, <2>2, <2>3
<1>10. \E k \in Int : Value(d') * x' + Value(u') = Modulus * k
  <2>1. PICK k \in Int : Value(a) * x - v = Modulus * k
    BY <1>1 DEF Congruent
  <2>2. PICK i \in Int : Value(d) * x + Value(u) = Modulus * i
    BY <1>1 DEF Congruent
  <2>3. (Value(d) + Value(a)) * x = Value(d) * x + Value(a) * x
    BY <1>3
  <2>4. Modulus * (i + k) = Modulus * i + Modulus * k /\ i + k \in Int
    BY <1>3
  <2>5. Value(d) * x \in Nat /\ Value(a) * x \in Nat
    BY <1>3
  <2>6. Value(d') * x + Value(u') = Modulus * (i + k)
    <3> DEFINE q == Value(d) * x
               r == Value(a) * x
               t == Modulus * i
               w == Modulus * k
    <3>1. /\ q \in Nat /\ r \in Nat /\ r - v = w /\ q + Value(u) = t
          /\ Value(d') * x = q + r /\ Modulus * (i + k) = t + w
      BY <1>8, <2>1, <2>2, <2>3, <2>4, <2>5
    <3> HIDE DEF q, r, t, w
    <3> QED
      BY <1>3, <1>6, <3>1
  <2> QED
    BY <1>1, <2>4, <2>6
<1>11. Congruent'
  <2>1. Value(u') >= 1
    BY <1>3, <1>4, <1>6
  <2> QED
    BY <1>1, <1>3, <1>6, <1>8, <1>10, <2>1 DEF Congruent
<1>12. AddedTo(s, Value(d'), Value(a'), Value(u') + 2 * v')
  <2>1. Value(u') + 2 * v' = Value(u) + v
    <3>1. v' = v /\ v \in Nat /\ Value(u) \in Nat /\ Value(u') = Value(u) - v
      BY <1>1, <1>3, <1>6
    <3> QED
      BY <3>1
  <2> QED
    BY <1>1, <1>2, <1>3, <1>8, <2>1, SettledAdds
<1> QED
  BY <1>1, <1>9, <1>11, <1>12 DEF InverseTracked

(* u and d halved *)
LEMMA HalveUTracks ==
  ASSUME InverseTracked, request.op = "inv", HalveU
  PROVE  InverseTracked'
<1>1. /\ request' = request /\ x' = x /\ x \in Elements /\ v' = v /\ a' = a
      /\ Congruent /\ v % 2 = 1 /\ pc = "halve u"
  BY DEF HalveU, InverseTracked, x
<1>2. PICK s \in Nat : \/ Settled(s, Value(d), Value(a), Value(u) + v)
                       \/ ~ Odd(u) /\ AddedTo(s, Value(d), Value(a), Value(u) + 2 * v)
  BY DEF InverseTracked, HalveU
<1>3. CASE Odd(u)
  <2>1. pc' = "compare" /\ UNCHANGED <<u, d>> /\ Congruent'
    BY <1>1, <1>3 DEF HalveU, Congruent
  <2>2. Settled(s, Value(d'), Value(a'), Value(u') + v')
    BY <1>1, <1>2, <1>3, <2>1
  <2> QED
    BY <1>1, <1>3, <2>1, <2>2 DEF InverseTracked
<1>4. CASE ~ Odd(u)
  <2>1. u' = Half(u) /\ d' = HalfInField(d) /\ pc' = "halve u"
    BY <1>1, <1>4 DEF HalveU
  <2>2. /\ Value(u) \in Nat /\ Value(a) \in Nat /\ Value(d) \in Nat /\ v \in Nat /\ v < Word
        /\ x \in Nat /\ Modulus \in Nat /\ IsLimbs(u) /\ IsLimbs(a) /\ IsLimbs(d)
        /\ x # 0 /\ v \in 0..Modulus /\ Value(u) >= 1
    BY <1>1, CongruentParts DEF Congruent
  <2>3. IsLimbs(u') /\ Value(u) = 2 * Value(u')
    BY <1>4, <2>1, <2>2, HalfExact
  <2>4. Value(u') \in Nat /\ Value(u') >= 1
    BY <2>2, <2>3, OddIs
  <2>5. PICK p \in Nat : v = 2 * p + 1
    BY <1>1, <2>2, Halves
  <2>6. Value(d) + Modulus < Word * Limb
    <3>1. /\ Value(u) + v \in Nat /\ Value(u) + v >= 2
          /\ Value(u) + 2 * v \in Nat /\ Value(u) + 2 * v >= 2
      BY <2>2, <2>5
    <3> QED
      BY <1>2, <2>2, <3>1, SumsFit
  <2>7. IsLimbs(d') /\ \E j \in {0, 1} : 2 * Value(d') = Value(d) + Modulus * j
    BY <2>1, <2>2, <2>6, HalfInFieldExact
  <2>8. PICK j \in {0, 1} : 2 * Value(d') = Value(d) + Modulus * j
    BY <2>7
  <2>9. Value(d') \in Nat
    BY <2>7, OddIs
  <2>10. \E k \in Int : Value(d') * x + Value(u') = Modulus * k
    <3>1. Balanced(Value(d), x, 2 * Value(u'))
      BY <1>1, <2>3 DEF Congruent, Balanced
    <3>2. Balanced(Value(d'), x, Value(u'))
      BY <2>2, <2>4, <2>8, <2>9, <3>1, HalvedCongruent
    <3> QED
      BY <3>2 DEF Balanced
  <2>11. Congruent'
    BY <1>1, <2>2, <2>3, <2>4, <2>7, <2>10 DEF Congruent
  <2>12. \E t \in Nat : Settled(t, Value(d'), Value(a'), Value(u') + v')
    <3>1. CASE Settled(s, Value(d), Value(a), Value(u) + v)
      <4>1. Value(u') + v \in Nat /\ Value(u) + v \in Nat /\ Value(u') + v <= Value(u) + v
        BY <2>2, <2>3, <2>4
      <4>2. Settled(s, Value(d'), Value(a), Value(u') + v)
        BY <2>2, <2>8, <2>9, <3>1, <4>1, SettledHalves
      <4> QED
        BY <1>1, <4>2
    <3>2. CASE AddedTo(s, Value(d), Value(a), Value(u) + 2 * v)
      <4>1. Value(u) + 2 * v = 2 * (Value(u') + v) /\ Value(u') + v \in Nat
        BY <2>2, <2>3, <2>4
      <4>2. AddedTo(s, Value(d), Value(a), 2 * (Value(u') + v))
        BY <3>2, <4>1
      <4>3. Settled(s + 1, Value(d'), Value(a), Value(u') + v)
        BY <2>2, <2>8, <2>9, <4>1, <4>2, AddedHalves
      <4>4. Settled(s + 1, Value(d'), Value(a'), Value(u') + v')
        <5>1. a' = a /\ v' = v
          BY <1>1
        <5> QED
          BY <4>3, <5>1
      <4> QED
        BY <4>4
    <3> QED
      BY <1>2, <3>1, <3>2
  <2> QED
    BY <1>1, <2>1, <2>11, <2>12 DEF InverseTracked
<1> QED
  BY <1>3, <1>4

(* v = v - u, a = a + d *)
LEMMA SubtractUTracks ==
  ASSUME InverseTracked, request.op = "inv", SubtractU
  PROVE  InverseTracked'
<1>1. /\ request' = request /\ x' = x /\ x \in Elements /\ u' = u /\ d' = d /\ pc' = "halve v"
      /\ v' = v - WordOf(u) /\ a' = Plus(a, d)
      /\ Congruent /\ Odd(u) /\ v % 2 = 1 /\ ~ Exceeds(u, v)
  BY DEF SubtractU, InverseTracked, x
<1>2. PICK s \in Nat : Settled(s, Value(d), Value(a), Value(u) + v)
  BY DEF InverseTracked, SubtractU
<1>3. /\ Value(u) \in Nat /\ Value(a) \in Nat /\ Value(d) \in Nat /\ v \in Nat /\ v < Word
      /\ x \in Nat /\ Modulus \in Nat /\ IsLimbs(u) /\ IsLimbs(a) /\ IsLimbs(d)
      /\ x # 0 /\ v \in 0..Modulus /\ Value(u) >= 1
  BY <1>1, CongruentParts DEF Congruent
<1>4. Value(u) <= v /\ WordOf(u) = Value(u)
  <2>1. ~ Exceeds(u, v) /\ IsLimbs(u) /\ v \in Nat /\ v < Word /\ Value(u) \in Nat
    BY <1>1, <1>3
  <2>2. ~ (Value(u) > v) /\ WordOf(u) = Value(u)
    BY <2>1, ExceedsIs
  <2> QED
    BY <2>1, <2>2
<1>5. v' = v - Value(u) /\ v' \in Nat /\ v' \in 0..Modulus
  <2>1. v' = v - Value(u) /\ Value(u) \in Nat /\ v \in Nat /\ Value(u) <= v
    BY <1>1, <1>3, <1>4
  <2>2. v \in 0..Modulus /\ Modulus \in Nat
    BY <1>3
  <2> QED
    BY <2>1, <2>2
<1>6. Settled(s, Value(a), Value(d), Value(u) + v)
  BY <1>2 DEF Settled
<1>7. IsLimbs(a') /\ Value(a') = Value(a) + Value(d)
  <2>1. Value(u) + v \in Nat /\ Value(u) + v >= 2
    BY <1>3, <1>4
  <2>2. Value(a) + Value(d) < Word * Limb
    BY <1>3, <1>6, <2>1, SumsFit
  <2> QED
    BY <1>1, <1>3, <2>2, PlusExact
<1>8. v' % 2 = 0
  <2>1. PICK n \in Nat : Value(u) = 2 * n + 1
    BY <1>1, <1>3, OddIs
  <2>2. PICK p \in Nat : v = 2 * p + 1
    BY <1>1, <1>3, Halves
  <2>3. v' = 2 * (p - n) /\ p - n \in Int
    BY <1>5, <2>1, <2>2
  <2>4. PICK q \in Nat, b \in {0, 1} : v' = 2 * q + b /\ v' % 2 = b
    BY <1>5, Halves
  <2> QED
    BY <2>3, <2>4
<1>9. \E k \in Int : Value(a') * x' - v' = Modulus * k
  <2>1. PICK k \in Int : Value(a) * x - v = Modulus * k
    BY <1>1 DEF Congruent
  <2>2. PICK i \in Int : Value(d) * x + Value(u) = Modulus * i
    BY <1>1 DEF Congruent
  <2>3. (Value(a) + Value(d)) * x = Value(a) * x + Value(d) * x
    BY <1>3
  <2>4. Modulus * (k + i) = Modulus * k + Modulus * i /\ k + i \in Int
    BY <1>3
  <2>5. Value(d) * x \in Nat /\ Value(a) * x \in Nat
    BY <1>3
  <2>6. Value(a') * x - v' = Modulus * (k + i)
    <3> DEFINE q == Value(d) * x
               r == Value(a) * x
               t == Modulus * i
               w == Modulus * k
    <3>1. /\ q \in Nat /\ r \in Nat /\ r - v = w /\ q + Value(u) = t
          /\ Value(a') * x = r + q /\ Modulus * (k + i) = w + t
      BY <1>7, <2>1, <2>2, <2>3, <2>4, <2>5
    <3> HIDE DEF q, r, t, w
    <3> QED
      BY <1>3, <1>5, <3>1
  <2> QED
    BY <1>1, <2>4, <2>6
<1>10. Congruent'
  BY <1>1, <1>3, <1>5, <1>7, <1>9 DEF Congruent
<1>11. AddedTo(s, Value(a'), Value(d'), v' + 2 * Value(u'))
  <2>1. v' + 2 * Value(u') = Value(u) + v
    <3>1. u' = u /\ v' = v - Value(u) /\ v \in Nat /\ Value(u) \in Nat
      BY <1>1, <1>3, <1>5
    <3> QED
      BY <3>1
  <2> QED
    BY <1>1, <1>3, <1>6, <1>7, <2>1, SettledAdds
<1> QED
  BY <1>1, <1>8, <1>10, <1>11 DEF InverseTracked

(* v and a halved *)
LEMMA HalveVTracks ==
  ASSUME InverseTracked, request.op = "inv", HalveV
  PROVE  InverseTracked'
<1>1. /\ request' = request /\ x' = x /\ x \in Elements /\ u' = u /\ d' = d
      /\ Congruent /\ Odd(u) /\ pc = "halve v"
  BY DEF HalveV, InverseTracked, x
<1>2. PICK s \in Nat : \/ Settled(s, Value(a), Value(d), Value(u) + v)
                       \/ v % 2 = 0 /\ AddedTo(s, Value(a), Value(d), v + 2 * Value(u))
  BY DEF InverseTracked, HalveV
<1>3. CASE v % 2 = 1
  <2>1. pc' = "compare" /\ UNCHANGED <<v, a>> /\ Congruent'
    BY <1>1, <1>3 DEF HalveV, Congruent
  <2>2. Settled(s, Value(d'), Value(a'), Value(u') + v')
    <3>1. v % 2 # 0
      BY <1>3
    <3>2. Settled(s, Value(a), Value(d), Value(u) + v)
      BY <1>2, <3>1
    <3>3. Settled(s, Value(d), Value(a), Value(u) + v)
      BY <3>2 DEF Settled
    <3>4. d' = d /\ a' = a /\ u' = u /\ v' = v
      BY <1>1, <2>1
    <3> QED
      BY <3>3, <3>4
  <2> QED
    BY <1>1, <1>3, <2>1, <2>2 DEF InverseTracked
<1>4. CASE v % 2 # 1
  <2>1. v' = v \div 2 /\ a' = HalfInField(a) /\ pc' = "halve v"
    BY <1>1, <1>4 DEF HalveV
  <2>2. /\ Value(u) \in Nat /\ Value(a) \in Nat /\ Value(d) \in Nat /\ v \in Nat /\ v < Word
        /\ x \in Nat /\ Modulus \in Nat /\ IsLimbs(u) /\ IsLimbs(a) /\ IsLimbs(d)
        /\ x # 0 /\ v \in 0..Modulus /\ Value(u) >= 1
    BY <1>1, CongruentParts DEF Congruent
  <2>3. v = 2 * v' /\ v' \in Nat /\ v' \in 0..Modulus
    <3>1. PICK p \in Nat, b \in {0, 1} : v = 2 * p + b /\ v \div 2 = p /\ v % 2 = b
      BY <2>2, Halves
    <3> QED
      <4>1. v \in Nat /\ v \in 0..Modulus /\ Modulus \in Nat
        BY <2>2
      <4>2. v' = p
        BY <2>1, <3>1
      <4>3. b = 0
        BY <1>4, <3>1
      <4>4. v = 2 * p
        BY <3>1, <4>3
      <4> QED
        BY <4>1, <4>2, <4>4
  <2>4. Value(a) + Modulus < Word * Limb
    <3>1. /\ Value(u) + v \in Nat /\ Value(u) + v >= 1
          /\ v + 2 * Value(u) \in Nat /\ v + 2 * Value(u) >= 2
      BY <2>2
    <3> QED
      BY <1>2, <2>2, <3>1, SumsFit
  <2>5. IsLimbs(a') /\ \E j \in {0, 1} : 2 * Value(a') = Value(a) + Modulus * j
    BY <2>1, <2>2, <2>4, HalfInFieldExact
  <2>6. PICK j \in {0, 1} : 2 * Value(a') = Value(a) + Modulus * j
    BY <2>5
  <2>7. Value(a') \in Nat
    BY <2>5, OddIs
  <2>8. \E k \in Int : Value(a') * x - v' = Modulus * k
    <3>1. PICK k \in Int : Value(a) * x - v = Modulus * k
      BY <1>1 DEF Congruent
    <3>2. -v' \in Int /\ Value(a) * x + 2 * (-v') = Modulus * k
      BY <2>2, <2>3, <3>1
    <3>3. Balanced(Value(a), x, 2 * (-v'))
      BY <3>2 DEF Balanced
    <3>4. Balanced(Value(a'), x, -v')
      BY <2>2, <2>6, <2>7, <3>2, <3>3, HalvedCongruent
    <3>5. PICK i \in Int : Value(a') * x + (-v') = Modulus * i
      BY <3>4 DEF Balanced
    <3>6. Value(a') * x + (-v') = Value(a') * x - v'
      BY <2>2, <2>3, <2>7
    <3> QED
      BY <3>5, <3>6
  <2>9. Congruent'
    BY <1>1, <2>2, <2>3, <2>5, <2>8 DEF Congruent
  <2>10. \E t \in Nat : Settled(t, Value(a'), Value(d'), Value(u') + v')
    <3>1. CASE Settled(s, Value(a), Value(d), Value(u) + v)
      <4>1. Value(u) + v' \in Nat /\ Value(u) + v \in Nat /\ Value(u) + v' <= Value(u) + v
        BY <2>2, <2>3
      <4>2. Settled(s, Value(a'), Value(d), Value(u) + v')
        BY <2>2, <2>6, <2>7, <3>1, <4>1, SettledHalves
      <4> QED
        BY <1>1, <4>2
    <3>2. CASE AddedTo(s, Value(a), Value(d), v + 2 * Value(u))
      <4>1. v + 2 * Value(u) = 2 * (Value(u) + v') /\ Value(u) + v' \in Nat
        BY <2>2, <2>3
      <4>2. AddedTo(s, Value(a), Value(d), 2 * (Value(u) + v'))
        BY <3>2, <4>1
      <4>3. Settled(s + 1, Value(a'), Value(d), Value(u) + v')
        BY <2>2, <2>6, <2>7, <4>1, <4>2, AddedHalves
      <4>4. Settled(s + 1, Value(a'), Value(d'), Value(u') + v')
        <5>1. d' = d /\ u' = u
          BY <1>1
        <5> QED
          BY <4>3, <5>1
      <4> QED
        BY <4>4
    <3> QED
      BY <1>2, <3>1, <3>2
  <2> QED
    BY <1>1, <2>1, <2>9, <2>10 DEF InverseTracked
<1> QED
  BY <1>3, <1>4

(* a modulo the field *)
LEMMA ReduceATracks ==
  ASSUME InverseTracked, request.op = "inv", ReduceA
  PROVE  InverseTracked'
<1>1. /\ request' = request /\ x' = x /\ x \in Elements /\ v' = v /\ u' = u /\ d' = d /\ v = 1
      /\ Congruent /\ Odd(u) /\ v % 2 = 1 /\ pc = "compare"
  BY DEF ReduceA, InverseTracked, x
<1>2. /\ Value(u) \in Nat /\ Value(a) \in Nat /\ Value(d) \in Nat /\ x \in Nat
      /\ Modulus \in Nat /\ Modulus > 2 /\ Modulus < Word /\ Modulus - 1 \in Nat
      /\ IsLimbs(u) /\ IsLimbs(a) /\ IsLimbs(d) /\ x # 0
  <2>1. /\ Value(u) \in Nat /\ Value(a) \in Nat /\ Value(d) \in Nat /\ x \in Nat
        /\ IsLimbs(u) /\ IsLimbs(a) /\ IsLimbs(d) /\ x # 0
    BY <1>1, CongruentParts DEF Congruent
  <2>2. Modulus \in Nat /\ Modulus > 2 /\ Modulus < Word /\ Modulus - 1 \in Nat
    BY Sizes
  <2> QED
    BY <2>1, <2>2
<1>3. PICK k \in Int : Value(a) * x - v = Modulus * k
  BY <1>1 DEF Congruent
<1>4. CASE Exceeds(a, Modulus - 1)
  <2>1. a' = Minus(a, Limbs(Modulus)) /\ pc' = "compare"
    BY <1>1, <1>4 DEF ReduceA
  <2>2. Value(a) >= Modulus
    <3>1. Modulus - 1 < Word
      BY <1>2, Sizes
    <3>2. Value(a) > Modulus - 1
      BY <1>2, <1>4, <3>1, ExceedsIs
    <3> QED
      BY <1>2, <3>2
  <2>3. IsLimbs(a') /\ Value(a') = Value(a) - Modulus
    BY <1>2, <2>1, <2>2, MinusExact, ModulusLimbs
  <2>4. Value(a') * x - v = Modulus * (k - x) /\ k - x \in Int
    <3>1. (Value(a) - Modulus) * x = Value(a) * x - Modulus * x
      BY <1>2
    <3>2. Modulus * (k - x) = Modulus * k - Modulus * x
      BY <1>2
    <3>3. k - x \in Int
      BY <1>2
    <3> DEFINE p == Value(a) * x
               q == Modulus * x
               b == Modulus * k
    <3>4. p \in Nat /\ q \in Nat /\ v = 1
      BY <1>1, <1>2
    <3>5. p - v = b /\ Value(a') * x = p - q /\ Modulus * (k - x) = b - q
      BY <1>3, <2>3, <3>1, <3>2
    <3> HIDE DEF p, q, b
    <3>6. Value(a') * x - v = Modulus * (k - x)
      BY <3>4, <3>5
    <3> QED
      BY <3>3, <3>6
  <2>5. Congruent'
    BY <1>1, <2>3, <2>4 DEF Congruent
  <2>6. \E s \in Nat : Settled(s, Value(d'), Value(a'), Value(u') + v')
    <3>1. PICK s \in Nat : Settled(s, Value(d), Value(a), Value(u) + v)
      BY DEF InverseTracked, ReduceA
    <3>2. Modulus * (s + 2) \in Nat
      BY <1>2
    <3>3. Settled(s, Value(d), Value(a'), Value(u) + v)
      <4> DEFINE b == Modulus * (s + 2)
      <4>1. b \in Nat /\ 2 * Value(a) <= b
        BY <3>1, <3>2 DEF Settled
      <4> HIDE DEF b
      <4>2. 2 * Value(a') <= b
        BY <1>2, <2>2, <2>3, <4>1
      <4> QED
        BY <3>1, <4>2 DEF Settled, b
    <3> QED
      BY <1>1, <3>3
  <2> QED
    BY <1>1, <2>1, <2>5, <2>6 DEF InverseTracked
<1>5. CASE ~ Exceeds(a, Modulus - 1)
  <2>1. result' = <<WordOf(a)>> /\ pc' = "done"
    BY <1>1, <1>5 DEF ReduceA, Return
  <2>2. WordOf(a) = Value(a) /\ Value(a) \in Elements
    <3>1. Modulus - 1 < Word
      BY <1>2, Sizes
    <3>2. WordOf(a) = Value(a) /\ ~ (Value(a) > Modulus - 1)
      BY <1>2, <1>5, <3>1, ExceedsIs
    <3> QED
      BY <1>2, <3>2 DEF Elements
  <2>3. Inv(x) = Value(a)
    BY <1>1, <1>2, <1>3, <2>2, InverseIs
  <2> QED
    BY <1>1, <2>1, <2>2, <2>3 DEF InverseTracked
<1> QED
  BY <1>4, <1>5
-----------------------------------------------------------------------------
(* All operations *)

(* inv keeps InverseTracked.                                               *)
LEMMA InverseNext == InverseTracked /\ [LimbNext]_limbVars => InverseTracked'
<1> SUFFICES ASSUME InverseTracked, [LimbNext]_limbVars, request'.op = "inv"
             PROVE  InverseTracked'
  BY DEF InverseTracked
<1>1. request' = request
  BY DEF LimbNext, limbVars, AddElements, SubElements, MulHigh, MulLow, MulReduce, InvOfZero,
         StartInv, SubtractV, HalveU, SubtractU, HalveV, ReduceA
<1>2. /\ request.op = "inv" /\ x \in Elements /\ x' = x
      /\ pc \in {"inv", "compare", "halve u", "halve v", "done"}
  BY <1>1 DEF InverseTracked, x
<1>3. CASE InvOfZero
  <2>1. pc' = "done" /\ result' = <<0>> /\ x = 0
    BY <1>3 DEF InvOfZero, Return
  <2>2. Inv(x) = 0
    BY <2>1 DEF Inv
  <2> QED
    BY <1>2, <2>1, <2>2 DEF InverseTracked
<1>4. CASE UNCHANGED limbVars
  BY <1>1, <1>4 DEF limbVars, InverseTracked, Congruent, x
<1>5. CASE StartInv \/ SubtractV \/ HalveU \/ SubtractU \/ HalveV \/ ReduceA
  BY <1>2, <1>5, StartInvTracks, SubtractVTracks, HalveUTracks, SubtractUTracks, HalveVTracks,
     ReduceATracks
<1>6. ~ (AddElements \/ SubElements \/ MulHigh \/ MulLow \/ MulReduce)
  BY <1>2 DEF AddElements, SubElements, MulHigh, MulLow, MulReduce
<1> QED
  BY <1>3, <1>4, <1>5, <1>6 DEF LimbNext

(* add, whose sum is never more than a word.                               *)
LEMMA AddExact ==
  ASSUME NEW e \in Elements, NEW f \in Elements
  PROVE  (IF e < Modulus - f THEN Modulus - (Modulus - f) + e ELSE e - (Modulus - f)) = Add(e, f)
<1>1. Modulus \in Nat /\ Modulus > 2 /\ e \in 0..(Modulus - 1) /\ f \in 0..(Modulus - 1)
  BY Sizes DEF Elements
<1>2. CASE e < Modulus - f
  <2> DEFINE r == Modulus - (Modulus - f) + e
  <2>1. r \in Elements /\ e + f \in Nat /\ e + f = r + Modulus * 0
    BY <1>1, <1>2 DEF Elements
  <2> QED
    BY <1>2, <2>1, RemainderIs DEF Add
<1>3. CASE ~ (e < Modulus - f)
  <2> DEFINE r == e - (Modulus - f)
  <2>1. r \in Elements /\ e + f \in Nat /\ e + f = r + Modulus * 1
    BY <1>1, <1>3 DEF Elements
  <2> QED
    BY <1>3, <2>1, RemainderIs DEF Add
<1> QED
  BY <1>2, <1>3

(* sub, whose difference is never less than 0.                             *)
LEMMA SubExact ==
  ASSUME NEW e \in Elements, NEW f \in Elements
  PROVE  (IF e < f THEN Modulus - f + e ELSE e - f) = Sub(e, f)
<1>1. Modulus \in Nat /\ Modulus > 2 /\ e \in 0..(Modulus - 1) /\ f \in 0..(Modulus - 1)
  BY Sizes DEF Elements
<1>2. CASE e < f
  <2> DEFINE r == Modulus - f + e
  <2>1. r \in Elements /\ e + Modulus - f \in Nat /\ e + Modulus - f = r + Modulus * 0
    BY <1>1, <1>2 DEF Elements
  <2> QED
    BY <1>2, <2>1, RemainderIs DEF Sub
<1>3. CASE ~ (e < f)
  <2> DEFINE r == e - f
  <2>1. r \in Elements /\ e + Modulus - f \in Nat /\ e + Modulus - f = r + Modulus * 1
    BY <1>1, <1>3 DEF Elements
  <2> QED
    BY <1>3, <2>1, RemainderIs DEF Sub
<1> QED
  BY <1>2, <1>3

(* What is asked for is defined by the same arithmetic.                    *)
LEMMA ExactIs ==
  ASSUME NEW r
  PROVE  /\ r.op = "add" => FieldOperations!Exact(r) = Add(r.x, r.y)
         /\ r.op = "sub" => FieldOperations!Exact(r) = Sub(r.x, r.y)
         /\ r.op = "mul" => FieldOperations!Exact(r) = Mul(r.x, r.y)
         /\ r.op = "inv" => FieldOperations!Exact(r) = Inv(r.x)
  BY DEF FieldOperations!Exact, FieldOperations!Add, FieldOperations!Sub, FieldOperations!Mul,
         FieldOperations!Inv, FieldOperations!Elements, Add, Sub, Mul, Inv, Elements

(* An operation stays at what it was called for, and there is a result     *)
(* when it is done, the one that the field defines.                        *)
Answered ==
  /\ request \in FieldOperations!Requests
  /\ request.op = "add" => pc \in {"add", "done"}
  /\ request.op = "sub" => pc \in {"sub", "done"}
  /\ ProductTracked /\ InverseTracked
  /\ result = IF pc = "done" THEN <<FieldOperations!Exact(request)>> ELSE << >>

(* Nothing is answered at first.                                           *)
LEMMA AnsweredInit == LimbInit => Answered /\ FieldOperations!Init
<1> SUFFICES ASSUME LimbInit PROVE Answered /\ FieldOperations!Init
  OBVIOUS
<1>1. 0 \in Elements
  BY Sizes DEF Elements
<1>2. /\ request \in [op : {"add", "sub", "mul", "inv"}, x : Elements, y : Elements]
      /\ result = << >> /\ pc = request.op /\ v = Modulus /\ a = <<0, 0, 0>>
  BY <1>1 DEF LimbInit
<1>3. request \in FieldOperations!Requests
  BY <1>2 DEF FieldOperations!Requests, FieldOperations!Operations, FieldOperations!Elements, Elements
<1>4. ProductTracked
  BY TrackedInit
<1>5. InverseTracked
  BY <1>2 DEF InverseTracked, x
<1> QED
  BY <1>2, <1>3, <1>4, <1>5 DEF Answered, FieldOperations!Init

(* The step that ends an operation answers, and no other is seen.          *)
LEMMA AnsweredNext ==
  Answered /\ [LimbNext]_limbVars => Answered' /\ [FieldOperations!Answer]_<<request, result>>
<1> SUFFICES ASSUME Answered, [LimbNext]_limbVars
             PROVE  Answered' /\ [FieldOperations!Answer]_<<request, result>>
  OBVIOUS
<1>1. request' = request /\ x' = x /\ y' = y /\ ProductTracked' /\ InverseTracked'
  <2>1. request' = request
    BY DEF LimbNext, limbVars, AddElements, SubElements, MulHigh, MulLow, MulReduce, InvOfZero,
           StartInv, SubtractV, HalveU, SubtractU, HalveV, ReduceA
  <2> QED
    BY <2>1, TrackedNext, InverseNext DEF Answered, x, y
<1>2. /\ request.op \in {"add", "sub", "mul", "inv"} /\ x \in Elements /\ y \in Elements
      /\ request' \in FieldOperations!Requests
  BY <1>1 DEF Answered, FieldOperations!Requests, FieldOperations!Operations,
              FieldOperations!Elements, Elements, x, y
<1>3. /\ request'.op = "add" => pc' \in {"add", "done"}
      /\ request'.op = "sub" => pc' \in {"sub", "done"}
  BY <1>1 DEF Answered, LimbNext, limbVars, AddElements, SubElements, MulHigh, MulLow, MulReduce,
         InvOfZero, StartInv, SubtractV, HalveU, SubtractU, HalveV, ReduceA, Return
<1>4. pc' = "done" => result' = <<FieldOperations!Exact(request)>>
  <2> SUFFICES ASSUME pc' = "done" PROVE result' = <<FieldOperations!Exact(request)>>
    OBVIOUS
  <2>1. CASE request.op = "add"
    <3>1. CASE AddElements
      BY <1>2, <2>1, <3>1, AddExact, ExactIs DEF AddElements, Return, x, y
    <3>2. CASE UNCHANGED limbVars
      BY <3>2 DEF limbVars, Answered
    <3> QED
      BY <2>1, <3>1, <3>2 DEF Answered, LimbNext, SubElements, MulHigh, MulLow, MulReduce,
         InvOfZero, StartInv, SubtractV, HalveU, SubtractU, HalveV, ReduceA
  <2>2. CASE request.op = "sub"
    <3>1. CASE SubElements
      BY <1>2, <2>2, <3>1, SubExact, ExactIs DEF SubElements, Return, x, y
    <3>2. CASE UNCHANGED limbVars
      BY <3>2 DEF limbVars, Answered
    <3> QED
      BY <2>2, <3>1, <3>2 DEF Answered, LimbNext, AddElements, MulHigh, MulLow, MulReduce,
         InvOfZero, StartInv, SubtractV, HalveU, SubtractU, HalveV, ReduceA
  <2>3. CASE request.op = "mul"
    <3>1. result' = <<Mul(x, y)>>
      BY <1>1, <2>3 DEF ProductTracked, ProductExact
    <3> QED
      BY <2>3, <3>1, ExactIs DEF x, y
  <2>4. CASE request.op = "inv"
    <3>1. result' = <<Inv(x)>>
      BY <1>1, <2>4 DEF InverseTracked
    <3> QED
      BY <2>4, <3>1, ExactIs DEF x
  <2> QED
    BY <1>2, <2>1, <2>2, <2>3, <2>4
<1>5. pc' # "done" => result' = result /\ pc # "done"
  BY DEF LimbNext, limbVars, AddElements, SubElements, MulHigh, MulLow, MulReduce, InvOfZero,
         StartInv, SubtractV, HalveU, SubtractU, HalveV, ReduceA, Return
<1>6. pc # "done" => result = << >>
  BY DEF Answered
<1>7. Answered'
  BY <1>1, <1>2, <1>3, <1>4, <1>5, <1>6 DEF Answered
<1>8. [FieldOperations!Answer]_<<request, result>>
  BY <1>1, <1>4, <1>5, <1>6 DEF Answered, FieldOperations!Answer
<1> QED
  BY <1>7, <1>8

(***************************************************************************)
(* add, sub, mul and inv of math/field.rs answer nothing but what the      *)
(* field defines, once: the safety part of ImplementsField, for limbs of   *)
(* every size and every modulus that the assumptions admit.  No carry out  *)
(* of a third limb is lost, in inv neither, which has no check for one.    *)
(***************************************************************************)
THEOREM ArithmeticIsExact ==
  LimbSpec => FieldOperations!Init /\ [][FieldOperations!Answer]_<<request, result>>
<1>1. LimbInit => Answered /\ FieldOperations!Init
  BY AnsweredInit
<1>2. Answered /\ [LimbNext]_limbVars => Answered' /\ [FieldOperations!Answer]_<<request, result>>
  BY AnsweredNext
<1> QED
  BY <1>1, <1>2, PTL DEF LimbSpec
=============================================================================
