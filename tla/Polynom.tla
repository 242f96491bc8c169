------------------------------- MODULE Polynom -------------------------------
(***************************************************************************)
(* Polynomials over the field (math/polynom.rs, fft.rs, quartic.rs and the *)
(* powers and roots of unity of field.rs).  A polynomial is the function   *)
(* of its coefficients and a vector that of its elements, both from 0 as   *)
(* in the code; all sizes are powers of two.                               *)
(***************************************************************************)
EXTENDS Field, FiniteSets

CONSTANTS
  RootOrder,      \* 2^40: the largest order get_root_of_unity has a root for
  RootGenerator   \* G: a root of unity of that order

Size(v) == Cardinality(DOMAIN v)

(* by repeated squaring *)
Exp(b, p) ==
  LET power[k \in 0..p] ==
        IF k = 0 THEN 1
        ELSE LET half == power[k \div 2]
             IN Mul(Mul(half, half), IF k % 2 = 1 THEN b ELSE 1)
  IN IF b = 0 THEN 0 ELSE power[p]

ASSUME PolynomAssumption ==
  /\ IsPowerOfTwo(RootOrder) /\ RootOrder > 1
  /\ RootGenerator \in Elements
  /\ Exp(RootGenerator, RootOrder \div 2) = Modulus - 1

RootOfUnity(order) == Exp(RootGenerator, RootOrder \div order)

PowerSeries(b, n) == [i \in 0..(n - 1) |-> Exp(b, i)]

(* field::inv_many: one inverse of the product, unrolled from its end;     *)
(* zeros are passed over and stay zero                                     *)
InvMany(v) ==
  LET n == Size(v)
      before[i \in 0..n] ==
        IF i = 0 THEN 1
        ELSE IF v[i - 1] = 0 THEN before[i - 1] ELSE Mul(before[i - 1], v[i - 1])
      last[i \in 0..n] ==
        IF i = n THEN Inv(before[n])
        ELSE IF v[i] = 0 THEN last[i + 1] ELSE Mul(last[i + 1], v[i])
  IN [i \in DOMAIN v |-> IF v[i] = 0 THEN 0 ELSE Mul(last[i + 1], before[i])]

(* the value at x of the polynomial whose coefficients are those of p from *)
(* i on, a half of them at a time                                          *)
EvalFrom(p, x, i) ==
  LET n == Size(p)
      value[j \in i..n, k \in i..n] ==
        IF j >= k THEN 0
        ELSE IF k = j + 1 THEN p[j]
        ELSE LET middle == (j + k) \div 2
             IN Add(value[j, middle], Mul(Exp(x, middle - j), value[middle, k]))
  IN value[i, n]

Eval(p, x) == EvalFrom(p, x, 0)
-----------------------------------------------------------------------------
(* The Fourier transform *)

(* permute_index: the index read from its last bit to its first *)
Reversed(size, index) ==
  LET reverse[n \in 1..size, i \in 0..(size - 1)] ==
        IF n = 1 THEN 0 ELSE (i % 2) * (n \div 2) + reverse[n \div 2, i \div 2]
  IN reverse[size, index]

Permuted(v) == [i \in DOMAIN v |-> v[Reversed(Size(v), i)]]

(* fft::get_twiddles, and twiddles_from_domain of the prover *)
Twiddles(root, size) == Permuted(PowerSeries(root, size \div 2))
InvTwiddles(root, size) == Twiddles(Exp(root, size - 1), size)

(* all butterflies of one stride: each block of 2 * stride elements has a  *)
(* twiddle of its own, 1 for the first block                               *)
Butterflies(v, twiddles, stride) ==
  [k \in DOMAIN v |->
     LET i == IF k % (2 * stride) < stride THEN k ELSE k - stride
         t == Mul(v[i + stride], twiddles[k \div (2 * stride)])
     IN IF i = k THEN Add(v[i], t) ELSE Sub(v[i], t)]

(* fft_in_place: the recursion reaches the largest stride first; where it  *)
(* branches (count >= MAX_LOOP) the same butterflies run in another order  *)
Transform(v, twiddles) ==
  LET n == Size(v)
      after[stride \in 1..n] ==
        IF stride = n THEN v ELSE Butterflies(after[2 * stride], twiddles, stride)
  IN [k \in DOMAIN v |-> after[1][k]]

EvalFft(p, twiddles) == Permuted(Transform(p, twiddles))

InterpolateFft(v, invTwiddles) ==
  LET t == Transform(v, invTwiddles)
      inv == Inv(Size(v))
  IN Permuted([i \in DOMAIN t |-> Mul(t[i], inv)])

(* p with zeros behind it, up to n coefficients *)
Padded(p, n) == [i \in 0..(n - 1) |-> IF i \in DOMAIN p THEN p[i] ELSE 0]
-----------------------------------------------------------------------------
(* Division *)

(* syn_div_in_place: by (x - b), without the remainder *)
SynDiv(a, b) == [i \in DOMAIN a |-> EvalFrom(a, b, i + 1)]

(* the product cut off a term early *)
SynDivExpandedCut(a, degree, exception) ==
  LET n == Size(a)
      sum[i \in 0..(n - 1)] == IF i + degree < n THEN Add(a[i], sum[i + degree]) ELSE a[i]
  IN [i \in DOMAIN a |->
        LET k == i + degree
        IN IF k >= n THEN 0 ELSE Sub(sum[k - 1], Mul(sum[k], exception))]

(* syn_div_expanded_in_place with one exception: by (x^degree - 1) /       *)
(* (x - exception); the product keeps a term more than the quotient        *)
SynDivExpanded(a, degree, exception) ==
  LET n == Size(a)
      sum[i \in 0..(n - 1)] == IF i + degree < n THEN Add(a[i], sum[i + degree]) ELSE a[i]
  IN [i \in DOMAIN a |->
        LET k == i + degree
        IN CASE k > n -> 0
             [] k = n -> sum[n - 1]
             [] OTHER -> Sub(sum[k - 1], Mul(sum[k], exception))]

DegreeOf(p) ==
  LET terms == {i \in DOMAIN p : p[i] # 0}
  IN IF terms = {} THEN 0 ELSE CHOOSE i \in terms : \A j \in terms : j <= i

InferDegree(evaluations) ==
  LET n == Size(evaluations)
  IN DegreeOf(InterpolateFft(evaluations, InvTwiddles(RootOfUnity(n), n)))
-----------------------------------------------------------------------------
(* Lagrange interpolation *)

(* get_zero_roots: the product of all (x - xs[i]) *)
ZeroRoots(xs) ==
  LET n == Size(xs)
      product[i \in 0..n] ==
        IF i = 0 THEN [j \in 0..n |-> IF j = 0 THEN 1 ELSE 0]
        ELSE LET p == product[i - 1]
             IN [j \in 0..n |-> Sub(IF j = 0 THEN 0 ELSE p[j - 1], Mul(p[j], xs[i - 1]))]
  IN product[n]

Interpolate(xs, ys) ==
  LET n == Size(xs)
      roots == ZeroRoots(xs)
      numerator == [i \in DOMAIN xs |-> SynDiv(roots, xs[i])]
      scale == [i \in DOMAIN xs |-> Mul(ys[i], Inv(Eval(numerator[i], xs[i])))]
      sum[i \in 0..n] ==
        IF i = 0 THEN [j \in DOMAIN xs |-> 0]
        ELSE LET s == sum[i - 1]
             IN [j \in DOMAIN xs |-> Add(s[j], Mul(numerator[i - 1][j], scale[i - 1]))]
  IN sum[n]
-----------------------------------------------------------------------------
(* Rows of four (math/quartic.rs) *)

(* transpose: row i holds the elements that a quarter of the vector        *)
(* separates                                                               *)
Rows(v, stride) ==
  LET count == Size(v) \div (4 * stride)
  IN [i \in 0..(count - 1) |-> [k \in 0..3 |-> v[(i + k * count) * stride]]]

(* the product of (x - r) over the three roots *)
Cubic(r) ==
  LET m01 == Mul(r[1], r[2])  m02 == Mul(r[1], r[3])  m12 == Mul(r[2], r[3])
  IN [k \in 0..3 |->
        CASE k = 0 -> Mul(Neg(m01), r[3])
          [] k = 1 -> Add(Add(m01, m02), m12)
          [] k = 2 -> Sub(Sub(Neg(r[1]), r[2]), r[3])
          [] k = 3 -> 1]

(* interpolate_batch for one row *)
InterpolateRow(xs, ys) ==
  LET others(j) == SelectSeq(<<0, 1, 2, 3>>, LAMBDA k : k # j)
      equation == [j \in 0..3 |-> Cubic([k \in 1..3 |-> xs[others(j)[k]]])]
      inverse == InvMany([j \in 0..3 |-> Eval(equation[j], xs[j])])
      scale == <<Mul(ys[0], inverse[0]), Mul(ys[1], inverse[1]), Mul(ys[2], inverse[2]), Mul(ys[3], inverse[3])>>
      term(j, k) == Mul(scale[j + 1], equation[j][k])
  IN [k \in 0..3 |-> Add(Add(term(0, k), term(1, k)), Add(term(2, k), term(3, k)))]
=============================================================================
