------------------------- MODULE ProofSystem_proofs -------------------------
(***************************************************************************)
(* Proof that the verifier's bound keeps the rate in every layer, for      *)
(* traces of every length, every number of queries, all options whose      *)
(* extension factor is at most half the largest remainder, and whatever    *)
(* value of a proof is changed on its way.                                 *)
(***************************************************************************)
EXTENDS ProofSystem, FiniteSetTheorems, TLAPS

(* The generator draws numbers. *)
DrawsNumbers == \A seed, n : Draw(seed, n) \in Nat

(* The options under which the bound is exact. *)
Narrow == 2 * ExtensionFactor <= MaxRemainderLength

(* A layer of this many points has `rate` times the extension factor. *)
Rated(points, rate) == IsPowerOfTwo(rate) /\ points = rate * ExtensionFactor

HasLayers == stage \in {"reduce", "prover queries", "sent", "verify", "verifier queries", "layers"}
HasProof == stage \in {"sent", "verify", "verifier queries", "layers"}
Points(d) == 4 * Size(layers[d])

(* Every layer of the prover has a quarter of the points of the one before. *)
LayersShaped ==
  HasLayers =>
    /\ \E T : layers \in Seq(T)
    /\ Len(layers) >= 1
    /\ Points(1) = Domain
    /\ \A d \in 1..Len(layers) :
         Size(layers[d]) \in Nat /\ \E rate \in Nat : Rated(Points(d), rate)
    /\ \A d \in 1..(Len(layers) - 1) :
         NeedsReduction(layers[d]) /\ 4 * Points(d + 1) = Points(d)

(* The domain does not fit in a remainder, so there is a layer before it. *)
LayersFolded == HasLayers /\ stage # "reduce" => Len(layers) >= 2

(* A change on the way leaves the number of layers and rows as it was. *)
ProofShaped ==
  HasProof =>
    /\ {"domain", "degree"} \subseteq DOMAIN proof /\ "layers" \in DOMAIN proof.degree
    /\ proof.domain = Domain
    /\ DOMAIN proof.degree.layers = 1..(Len(layers) - 1)
    /\ Len(proof.degree.layers) = Len(layers) - 1
    /\ \A d \in 1..(Len(layers) - 1) :
         "rows" \in DOMAIN proof.degree.layers[d] /\ proof.degree.layers[d].rows = Size(layers[d])

(* No query is at a row of the trace. *)
QueriesAside == \A p \in queries : p \in Nat /\ p % ExtensionFactor # 0

(* What the verifier follows is aside of them too, in a layer of the prover. *)
LayerReached ==
  stage = "layers" =>
    /\ depth \in 1..Len(layers)
    /\ layerSize = Points(depth)
    /\ bound * ExtensionFactor = (MaxConstraintDegree - 1) * layerSize
    /\ bound \in Nat
    /\ \A p \in DOMAIN evaluations : p \in Nat /\ p % ExtensionFactor # 0

Invariant ==
  /\ job \in Jobs
  /\ LayersShaped /\ LayersFolded /\ ProofShaped /\ QueriesAside /\ LayerReached
-----------------------------------------------------------------------------
(* Arithmetic *)

(* Quotient and remainder are what they are named for. *)
LEMMA DivisionIs ==
  ASSUME NEW k \in Nat \ {0}, NEW q \in Nat, NEW r \in 0..(k - 1), NEW n \in Nat, n = k * q + r
  PROVE  n % k = r /\ n \div k = q
OBVIOUS

(* Every number has them. *)
LEMMA Division ==
  ASSUME NEW k \in Nat \ {0}, NEW n \in Nat
  PROVE  \E q \in Nat : \E r \in 0..(k - 1) : n = k * q + r /\ q = n \div k /\ r = n % k
OBVIOUS

(* A divisor of a half divides the whole. *)
LEMMA DividesDouble ==
  ASSUME NEW h \in Nat, NEW k \in Nat \ {0}, h % k = 0
  PROVE  (2 * h) % k = 0
<1>1. PICK q \in Nat : h = k * q
  <2>1. PICK q \in Nat, r \in 0..(k - 1) : h = k * q + r /\ r = h % k
    BY Division
  <2> QED
    BY <2>1
<1> DEFINE whole == 2 * h
           quotient == 2 * q
<1>2. whole = k * quotient + 0
  BY <1>1
<1>3. quotient \in Nat /\ whole \in Nat /\ 0 \in 0..(k - 1)
  OBVIOUS
<1> HIDE DEF whole, quotient
<1>4. whole % k = 0
  BY <1>2, <1>3, DivisionIs
<1> QED
  BY <1>4 DEF whole

(* A number without odd divisors is 1 or twice another. *)
LEMMA Halves ==
  ASSUME NEW n, IsPowerOfTwo(n), n # 1
  PROVE  \E h \in Nat : n = 2 * h /\ IsPowerOfTwo(h)
<1>1. n \in Nat \ {0}
  BY DEF IsPowerOfTwo
<1>2. n % n = 0
  <2>1. n = n * 1 + 0
    BY <1>1
  <2> QED
    BY <1>1, <2>1, DivisionIs
<1>3. n % 2 = 0
  BY <1>1, <1>2 DEF IsPowerOfTwo
<1>4. PICK h \in Nat : n = 2 * h
  BY <1>1, <1>3
<1>5. ASSUME NEW k \in 1..h, h % k = 0 PROVE k = 1 \/ k % 2 = 0
  <2>1. n % k = 0
    <3>1. k \in Nat \ {0}
      OBVIOUS
    <3> QED
      BY <1>4, <1>5, <3>1, DividesDouble
  <2>2. k \in 1..n
    BY <1>4
  <2> QED
    BY <2>1, <2>2 DEF IsPowerOfTwo
<1>6. IsPowerOfTwo(h)
  BY <1>1, <1>4, <1>5 DEF IsPowerOfTwo
<1> QED
  BY <1>4, <1>6

(* Above 2 it can be quartered. *)
LEMMA Quarters ==
  ASSUME NEW n, IsPowerOfTwo(n), n > 2
  PROVE  \E q \in Nat : n = 4 * q /\ IsPowerOfTwo(q)
<1>0. n \in Nat
  BY DEF IsPowerOfTwo
<1>1. PICK h \in Nat : n = 2 * h /\ IsPowerOfTwo(h)
  BY Halves, <1>0
<1>2. PICK q \in Nat : h = 2 * q /\ IsPowerOfTwo(q)
  BY Halves, <1>0, <1>1
<1> QED
  BY <1>0, <1>1, <1>2

(* A common factor may be left out. *)
LEMMA Cancel ==
  ASSUME NEW m \in Nat, NEW n \in Nat, NEW e \in Nat \ {0}, m * e = n * e
  PROVE  m = n
<1> DEFINE product == m * e
<1>1. product = e * m + 0 /\ product = e * n + 0 /\ product \in Nat /\ 0 \in 0..(e - 1)
  OBVIOUS
<1> HIDE DEF product
<1>2. product \div e = m
  BY <1>1, DivisionIs
<1>3. product \div e = n
  BY <1>1, DivisionIs
<1> QED
  BY <1>2, <1>3

(* What is aside of the multiples of e stays so modulo a multiple of e. *)
LEMMA StaysAside ==
  ASSUME NEW e \in Nat \ {0}, NEW m \in Nat \ {0}, NEW p \in Nat, p % e # 0
  PROVE  p % (m * e) \in Nat /\ (p % (m * e)) % e # 0
<1> DEFINE n == m * e
<1>1. n \in Nat \ {0}
  OBVIOUS
<1> HIDE DEF n
<1>2. PICK t \in Nat, r \in 0..(n - 1) : p = n * t + r /\ r = p % n
  BY <1>1, Division
<1>3. SUFFICES ASSUME r % e = 0 PROVE FALSE
  BY <1>1, <1>2 DEF n
<1>4. PICK s \in Nat, c \in 0..(e - 1) : r = e * s + c /\ c = r % e
  <2>1. r \in Nat
    BY <1>1
  <2> QED
    BY <2>1, Division
<1>5. r = e * s
  BY <1>3, <1>4
<1> DEFINE mt == m * t
<1>6. n * t = e * mt /\ mt \in Nat
  BY DEF n
<1> HIDE DEF mt
<1>7. p = e * (mt + s) + 0
  <2>1. p = n * t + r
    BY <1>2
  <2>2. p = e * mt + e * s
    BY <2>1, <1>5, <1>6, Zenon
  <2>3. e * (mt + s) = e * mt + e * s
    BY <1>6
  <2>4. e * (mt + s) \in Nat
    BY <1>6
  <2> QED
    BY <2>2, <2>3, <2>4
<1>8. mt + s \in Nat /\ 0 \in 0..(e - 1)
  BY <1>6
<1>9. p % e = 0
  BY <1>7, <1>8, DivisionIs
<1> QED
  BY <1>9
-----------------------------------------------------------------------------
(* Sizes *)

(* The elements of a vector are counted by its indexes. *)
LEMMA SizeOfVector ==
  ASSUME NEW n \in Nat, NEW f, DOMAIN f = 0..(n - 1)
  PROVE  Size(f) = n
<1>1. Cardinality(0..(n - 1)) = IF 0 > n - 1 THEN 0 ELSE (n - 1) - 0 + 1
  BY FS_Interval
<1> QED
  BY <1>1 DEF Size

(* Options and lengths are what their assumptions say. *)
LEMMA Parameters ==
  /\ ExtensionFactor \in Nat \ {0} /\ MaxRemainderLength \in Nat
  /\ MaxConstraintDegree \in Nat /\ MaxConstraintDegree > 2
  /\ \E e \in Nat : ExtensionFactor = 4 * e
<1>1. ExtensionFactor \in Nat \ {0} /\ MaxRemainderLength \in Nat
      /\ ExtensionFactor % MaxConstraintDegree = 0
  BY FriAssumption
<1>2. MaxConstraintDegree \in Nat \ {0} /\ MaxConstraintDegree > 2
      /\ IsPowerOfTwo(MaxConstraintDegree)
  BY AirAssumption DEF IsPowerOfTwo
<1>3. PICK q \in Nat : MaxConstraintDegree = 4 * q
  BY <1>2, Quarters
<1>4. PICK t \in Nat, r \in 0..(MaxConstraintDegree - 1) :
        ExtensionFactor = MaxConstraintDegree * t + r /\ r = ExtensionFactor % MaxConstraintDegree
  BY <1>1, <1>2, Division
<1>5. ExtensionFactor = MaxConstraintDegree * t
  BY <1>1, <1>2, <1>4
<1>6. ExtensionFactor = 4 * (q * t) /\ q * t \in Nat
  BY <1>3, <1>5
<1> QED
  BY <1>1, <1>2, <1>6

(* The first layer has all points of the domain. *)
LEMMA FirstLayer ==
  ASSUME job \in Jobs
  PROVE  /\ Domain \in Nat \ {0} /\ Domain = 4 * (Domain \div 4)
         /\ job.length \in Nat \ {0} /\ Rated(Domain, job.length)
<1>1. IsPowerOfTwo(job.length) /\ job.length \in Nat \ {0}
  BY ProofSystemAssumption DEF IsPowerOfTwo
<1>2. PICK e \in Nat : ExtensionFactor = 4 * e
  BY Parameters
<1>3. Domain = 4 * (job.length * e) /\ job.length * e \in Nat
  BY <1>1, <1>2 DEF Domain, DomainSize
<1>4. Domain \in Nat \ {0}
  BY <1>1, Parameters DEF Domain, DomainSize
<1>5. Domain = 4 * (Domain \div 4)
  BY <1>3, <1>4
<1> QED
  BY <1>1, <1>4, <1>5 DEF Rated, Domain, DomainSize

(* A layer too large for a remainder has a multiple of four times the      *)
(* extension factor, and its rows are a rated layer of their own.          *)
LEMMA NextLayer ==
  ASSUME Narrow, NEW size \in Nat, NEW rate, Rated(4 * size, rate), size * 4 > MaxRemainderLength
  PROVE  /\ 4 * (size \div 4) = size
         /\ \E q \in Nat \ {0} : rate = 4 * q /\ size = q * ExtensionFactor
                                /\ Rated(4 * (size \div 4), q)
<1>1. rate \in Nat /\ IsPowerOfTwo(rate) /\ 4 * size = rate * ExtensionFactor
  BY DEF Rated, IsPowerOfTwo
<1>2. rate > 2
  <2>1. SUFFICES ASSUME rate \in 0..2 PROVE FALSE
    BY <1>1
  <2>2. rate * ExtensionFactor <= 2 * ExtensionFactor
    BY <2>1, Parameters
  <2> QED
    BY <1>1, <2>2, Parameters DEF Narrow
<1>3. PICK q \in Nat : rate = 4 * q /\ IsPowerOfTwo(q)
  BY <1>1, <1>2, Quarters
<1>4. q # 0
  BY <1>2, <1>3
<1>5. PICK e \in Nat : ExtensionFactor = 4 * e
  BY Parameters
<1> DEFINE qe == q * e
<1>6. qe \in Nat /\ q * ExtensionFactor = 4 * qe /\ rate * ExtensionFactor = 4 * (4 * qe)
  BY <1>3, <1>5
<1> HIDE DEF qe
<1>7. size = 4 * qe
  BY <1>1, <1>6
<1>8. size \div 4 = qe
  BY <1>6, <1>7
<1>9. size = q * ExtensionFactor /\ 4 * (size \div 4) = size
  BY <1>6, <1>7, <1>8
<1>10. Rated(4 * (size \div 4), q)
  BY <1>3, <1>9 DEF Rated
<1> QED
  BY <1>3, <1>4, <1>9, <1>10

(* The Fourier transform is one of as many values. *)
LEMMA TransformInPlace ==
  ASSUME NEW p, NEW twiddles
  PROVE  DOMAIN EvalFft(p, twiddles) = DOMAIN p
<1>1. DOMAIN Transform(p, twiddles) = DOMAIN p
  BY DEF Transform
<1>2. DOMAIN Permuted(Transform(p, twiddles)) = DOMAIN Transform(p, twiddles)
  BY DEF Permuted
<1> QED
  BY <1>1, <1>2 DEF EvalFft

(* A vector has a quarter as many rows. *)
LEMMA RowsQuarter ==
  ASSUME NEW n \in Nat, NEW v, DOMAIN v = 0..(n - 1)
  PROVE  Size(Rows(v, 1)) = n \div 4
<1>1. Size(v) = n
  BY SizeOfVector
<1>2. n \div 4 \in Nat
  OBVIOUS
<1>3. DOMAIN Rows(v, 1) = 0..((n \div 4) - 1)
  BY <1>1 DEF Rows
<1> QED
  BY <1>2, <1>3, SizeOfVector

(* Folding a layer leaves a row for four. *)
LEMMA FoldedQuarter ==
  ASSUME NEW layer, NEW root, NEW d, Size(layer) \in Nat
  PROVE  Size(Folded(layer, root, d)) = Size(layer) \div 4
<1> DEFINE v == [i \in 0..(Size(layer) - 1) |->
                   Eval(InterpolateRow(RowPoints(root, d, Size(layer), i), layer[i]), SpecialX(Root(layer)))]
<1>1. DOMAIN v = 0..(Size(layer) - 1)
  OBVIOUS
<1>2. Folded(layer, root, d) = Rows(v, 1)
  BY DEF Folded
<1> HIDE DEF v
<1> QED
  BY <1>1, <1>2, RowsQuarter
-----------------------------------------------------------------------------
(* Steps of the prover *)

(* Nothing is committed to before the first layer. *)
LEMMA BeforeLayers ==
  ASSUME Invariant,
         \/ Extend \/ EvaluateConstraints \/ CombinePolys \/ EvaluatePoly
         \/ RefuseTrace \/ Compose
  PROVE  Invariant'
<1>1. stage' \in {"constraints", "combine", "commit", "compose", "evaluate", "no proof"}
      /\ job' = job /\ queries' = queries
  BY DEF Extend, EvaluateConstraints, CombinePolys, EvaluatePoly, RefuseTrace, Compose, queryVars
<1> QED
  BY <1>1 DEF Invariant, LayersShaped, LayersFolded, ProofShaped, QueriesAside, LayerReached, HasLayers, HasProof

(* The first layer is made of all values of the composition. *)
LEMMA LayersBegin ==
  ASSUME Invariant, EvaluateComposition
  PROVE  Invariant'
<1>1. stage' = "reduce" /\ job' = job /\ queries' = queries
  BY DEF EvaluateComposition, queryVars
<1> DEFINE v == EvalFft(Padded(composition.poly, Domain), DomainTwiddles)
           first == Rows(v, 1)
<1>2. layers' = <<first>>
  BY DEF EvaluateComposition
<1>3. DOMAIN v = 0..(Domain - 1)
  BY TransformInPlace DEF Padded
<1> HIDE DEF v
<1>4. /\ Domain \in Nat \ {0} /\ Domain = 4 * (Domain \div 4)
      /\ job.length \in Nat \ {0} /\ Rated(Domain, job.length)
  BY FirstLayer DEF Invariant
<1>5. Size(first) = Domain \div 4
  BY <1>3, <1>4, RowsQuarter
<1> HIDE DEF first
<1>6. Domain' = Domain
  BY <1>1 DEF Domain
<1>7. LayersShaped'
  <2>1. layers' \in Seq({first}) /\ Len(layers') = 1 /\ layers'[1] = first
    BY <1>2
  <2>2. Points(1)' = Domain'
    BY <2>1, <1>4, <1>5, <1>6 DEF Points
  <2>3. \A d \in 1..Len(layers') : Size(layers'[d]) \in Nat /\ \E rate \in Nat : Rated(Points(d), rate)'
    BY <2>1, <2>2, <1>4, <1>5, <1>6 DEF Rated
  <2> QED
    BY <2>1, <2>2, <2>3 DEF LayersShaped
<1> QED
  BY <1>1, <1>7 DEF Invariant, LayersFolded, ProofShaped, QueriesAside, LayerReached, HasProof

(* What every use of the layers needs of them. *)
LEMMA LayersKept ==
  ASSUME LayersShaped, HasLayers, UNCHANGED <<job, layers>>
  PROVE  LayersShaped'
<1>1. Domain' = Domain
  BY DEF Domain
<1>2. \A d : Points(d)' = Points(d)
  BY DEF Points
<1> QED
  BY <1>1, <1>2 DEF LayersShaped

(* A layer too large for a remainder gets a next one of the same rate. *)
LEMMA LayersGrow ==
  ASSUME Narrow, Invariant, Reduce
  PROVE  Invariant'
<1>1. stage = "reduce" /\ stage' = "reduce" /\ job' = job /\ queries' = queries
  BY DEF Reduce, queryVars
<1>2. /\ \E T : layers \in Seq(T)
      /\ Len(layers) >= 1
      /\ Points(1) = Domain
      /\ \A d \in 1..Len(layers) :
           Size(layers[d]) \in Nat /\ \E rate \in Nat : Rated(Points(d), rate)
      /\ \A d \in 1..(Len(layers) - 1) :
           NeedsReduction(layers[d]) /\ 4 * Points(d + 1) = Points(d)
  BY <1>1 DEF Invariant, LayersShaped, HasLayers
<1>3. PICK T : layers \in Seq(T)
  BY <1>2
<1>4. PICK n \in Nat \ {0} : n = Len(layers)
  BY <1>2, <1>3
<1> DEFINE last == layers[n]
           next == Folded(last, DomainRoot, n - 1)
<1>5. layers' = Append(layers, next) /\ NeedsReduction(last)
  BY <1>4 DEF Reduce, LastLayer
<1>6. PICK rate \in Nat : Rated(4 * Size(last), rate)
  BY <1>2, <1>4 DEF Points
<1>7. Size(last) \in Nat /\ Size(last) * 4 > MaxRemainderLength
  BY <1>2, <1>4, <1>5 DEF NeedsReduction
<1>8. Size(next) = Size(last) \div 4
  BY <1>7, FoldedQuarter
<1> HIDE DEF next
<1>9. /\ 4 * (Size(last) \div 4) = Size(last)
      /\ \E q \in Nat \ {0} : Rated(4 * (Size(last) \div 4), q)
  BY <1>6, <1>7, NextLayer
<1>10. /\ layers' \in Seq(T \cup {next})
       /\ Len(layers') = n + 1
       /\ \A d \in 1..n : layers'[d] = layers[d]
       /\ layers'[n + 1] = next
  BY <1>3, <1>4, <1>5
<1> HIDE DEF last
<1>11. \A d \in 1..n : Points(d)' = Points(d)
  BY <1>10 DEF Points
<1>12. Points(n) = 4 * Size(last)
  BY DEF Points, last
<1>13. Points(n + 1)' = 4 * Size(next)
  BY <1>10 DEF Points
<1>14. Domain' = Domain
  BY <1>1 DEF Domain
<1>15. Points(1)' = Domain'
  BY <1>2, <1>4, <1>11, <1>14
<1>16. ASSUME NEW d \in 1..Len(layers')
       PROVE  Size(layers'[d]) \in Nat /\ \E q \in Nat : Rated(Points(d)', q)
  <2>1. CASE d \in 1..n
    BY <2>1, <1>2, <1>4, <1>10, <1>11 DEF Rated
  <2>2. CASE d = n + 1
    BY <2>2, <1>7, <1>8, <1>9, <1>10, <1>13 DEF Rated
  <2> QED
    BY <2>1, <2>2, <1>4, <1>10
<1>17. ASSUME NEW d \in 1..(Len(layers') - 1)
       PROVE  NeedsReduction(layers'[d]) /\ 4 * Points(d + 1)' = Points(d)'
  <2>1. CASE d \in 1..(n - 1)
    BY <2>1, <1>2, <1>4, <1>10, <1>11
  <2>2. CASE d = n
    <3>1. NeedsReduction(layers'[d])
      BY <2>2, <1>5, <1>10 DEF last
    <3>2. 4 * Points(n + 1)' = Points(n)'
      BY <1>7, <1>8, <1>9, <1>11, <1>12, <1>13
    <3> QED
      BY <3>1, <3>2, <2>2
  <2> QED
    BY <2>1, <2>2, <1>4, <1>10
<1>18. LayersShaped'
  BY <1>4, <1>10, <1>15, <1>16, <1>17 DEF LayersShaped
<1> QED
  BY <1>1, <1>18 DEF Invariant, LayersFolded, ProofShaped, QueriesAside, LayerReached, HasProof

(* A nonce changes nothing else. *)
LEMMA LayersGround ==
  ASSUME Invariant, Grind
  PROVE  Invariant'
<1>1. /\ stage = "reduce" /\ stage' = "prover queries" /\ UNCHANGED <<job, layers, queries>>
      /\ ~ NeedsReduction(layers[Len(layers)])
  BY DEF Grind, proverVars, LastLayer
<1>2. LayersShaped'
  BY <1>1, LayersKept DEF Invariant, HasLayers
<1>3. /\ \E T : layers \in Seq(T)
      /\ Len(layers) >= 1 /\ Points(1) = Domain
      /\ \A d \in 1..Len(layers) : Size(layers[d]) \in Nat
  BY <1>1 DEF Invariant, LayersShaped, HasLayers
<1>4. Len(layers) \in Nat
  BY <1>3
<1>5. Domain > MaxRemainderLength
  BY ProofSystemAssumption DEF Invariant, Domain, DomainSize
<1>6. NeedsReduction(layers[1])
  BY <1>3, <1>4, <1>5, Parameters DEF NeedsReduction, Points
<1>7. Len(layers) >= 2
  <2>1. Len(layers) # 1
    BY <1>1, <1>6, Zenon
  <2>2. PICK n \in Nat : n = Len(layers)
    BY <1>4
  <2>3. n # 1 /\ n >= 1
    BY <1>3, <2>1, <2>2
  <2>4. n >= 2
    BY <2>3
  <2> QED
    BY <2>2, <2>4
<1> QED
  BY <1>1, <1>2, <1>7
  DEF Invariant, LayersFolded, ProofShaped, QueriesAside, LayerReached, HasProof
-----------------------------------------------------------------------------
(* Steps of both sides *)

(* A frame: a step that leaves all this alone keeps the shape of a proof. *)
LEMMA ProofKept ==
  ASSUME ProofShaped, HasProof, UNCHANGED <<job, layers, proof>>
  PROVE  ProofShaped'
<1>1. Domain' = Domain
  BY DEF Domain
<1> QED
  BY <1>1 DEF ProofShaped

(* A position is kept only if it is aside of the rows of the trace. *)
LEMMA QueryDrawn ==
  ASSUME DrawsNumbers, Invariant, DrawQuery
  PROVE  Invariant'
<1>1. /\ stage \in {"prover queries", "verifier queries"} /\ stage' = stage
      /\ UNCHANGED <<job, layers, proof>>
  BY DEF DrawQuery, proverVars
<1>2. LayersShaped' /\ ProofShaped'
  BY <1>1, LayersKept, ProofKept DEF Invariant, HasLayers, HasProof, ProofShaped
<1>3. QueryRange = Domain
  BY <1>1 DEF QueryRange, Invariant, ProofShaped, HasProof
<1> DEFINE position == Draw(pow.seed, draws) % QueryRange
<1>4. position \in Nat
  <2>1. Draw(pow.seed, draws) \in Nat
    BY DEF DrawsNumbers
  <2>2. Domain \in Nat \ {0}
    BY FirstLayer DEF Invariant
  <2> QED
    BY <2>1, <2>2, <1>3
<1>5. queries' = IF position % ExtensionFactor = 0 THEN queries ELSE queries \cup {position}
  BY DEF DrawQuery
<1> HIDE DEF position
<1>6. QueriesAside'
  BY <1>4, <1>5 DEF Invariant, QueriesAside
<1> QED
  BY <1>1, <1>2, <1>6 DEF Invariant, LayersFolded, LayerReached, HasLayers

(* Giving up ends it. *)
LEMMA QueriesGivenUp ==
  ASSUME Invariant, TooFewQueries
  PROVE  Invariant'
<1>1. stage' \in {"no proof", "panicked"} /\ UNCHANGED <<job, queries>>
  BY DEF TooFewQueries, queryVars
<1> QED
  BY <1>1 DEF Invariant, LayersShaped, LayersFolded, ProofShaped, QueriesAside, LayerReached, HasLayers, HasProof

(* The proof tells the domain and the rows of every layer but the last. *)
LEMMA ProofBuilt ==
  ASSUME Invariant, BuildProof
  PROVE  Invariant'
<1>1. stage = "prover queries" /\ stage' = "sent" /\ UNCHANGED <<job, layers, queries>>
  BY DEF BuildProof, proverVars, queryVars
<1>2. LayersShaped'
  BY <1>1, LayersKept DEF Invariant, HasLayers
<1>3. Domain' = Domain
  BY <1>1 DEF Domain
<1>4. PICK n \in Nat \ {0} : n = Len(layers)
  <2>1. (\E T : layers \in Seq(T)) /\ Len(layers) >= 1
    BY <1>1 DEF Invariant, LayersShaped, HasLayers
  <2> QED
    BY <2>1
<1> DEFINE sent == FriProof(layers, queries)
<1>5. /\ "layers" \in DOMAIN sent
      /\ DOMAIN sent.layers = 1..(n - 1) /\ Len(sent.layers) = n - 1
      /\ \A d \in 1..(n - 1) : "rows" \in DOMAIN sent.layers[d] /\ sent.layers[d].rows = Size(layers[d])
  BY <1>4 DEF FriProof
<1> HIDE DEF sent
<1>6. {"domain", "degree"} \subseteq DOMAIN proof' /\ proof'.domain = Domain /\ proof'.degree = sent
  BY DEF BuildProof, sent
<1>7. ProofShaped'
  BY <1>1, <1>3, <1>4, <1>5, <1>6 DEF ProofShaped
<1> QED
  BY <1>1, <1>2, <1>7 DEF Invariant, LayersFolded, QueriesAside, LayerReached, HasLayers
-----------------------------------------------------------------------------
(* The way *)

(* Replacing an element of a sequence leaves a sequence as long. *)
LEMMA ReplacedLength ==
  ASSUME NEW n \in Nat, NEW s, DOMAIN s = 1..n, NEW k, NEW e
  PROVE  Len([s EXCEPT ![k] = e]) = n
<1> DEFINE r == [s EXCEPT ![k] = e]
           T == {r[j] : j \in 1..n}
<1>1. r \in [1..n -> T]
  OBVIOUS
<1>2. DOMAIN r = 1..n
  OBVIOUS
<1> HIDE DEF r, T
<1>3. r \in Seq(T)
  BY <1>1
<1>4. Len(r) = n
  BY <1>2, <1>3
<1> QED
  BY <1>4 DEF r

(* Whatever is changed, the shape of the proof is not. *)
LEMMA AlteredKeepsShape ==
  ASSUME HasProof, ProofShaped, Len(layers) - 1 \in Nat, NEW part
  PROVE  /\ {"domain", "degree"} \subseteq DOMAIN Altered(part)
         /\ "layers" \in DOMAIN Altered(part).degree
         /\ Altered(part).domain = Domain
         /\ DOMAIN Altered(part).degree.layers = 1..(Len(layers) - 1)
         /\ Len(Altered(part).degree.layers) = Len(layers) - 1
         /\ \A d \in 1..(Len(layers) - 1) :
              /\ "rows" \in DOMAIN Altered(part).degree.layers[d]
              /\ Altered(part).degree.layers[d].rows = Size(layers[d])
<1>1. CASE part[1] = "trace root"
  BY <1>1 DEF Altered, ProofShaped
<1>2. CASE part[1] = "trace nodes"
  BY <1>2 DEF Altered, ProofShaped
<1>3. CASE part[1] = "constraint root"
  BY <1>3 DEF Altered, ProofShaped
<1>4. CASE part[1] = "constraint nodes"
  BY <1>4 DEF Altered, ProofShaped
<1>5. CASE part[1] = "remainder root"
  BY <1>5 DEF Altered, ProofShaped
<1>6. CASE part[1] = "nonce"
  BY <1>6 DEF Altered, ProofShaped
<1>7. CASE part[1] = "op count"
  BY <1>7 DEF Altered, ProofShaped
<1>8. CASE part[1] = "trace value"
  BY <1>8 DEF Altered, ProofShaped
<1>9. CASE part[1] = "constraint value"
  BY <1>9 DEF Altered, ProofShaped
<1>10. CASE part[1] = "z1"
  BY <1>10 DEF Altered, ProofShaped
<1>11. CASE part[1] = "z2"
  BY <1>11 DEF Altered, ProofShaped
<1>12. CASE part[1] = "layer root"
  <2> DEFINE d == part[2]
             layer == [proof.degree.layers[d] EXCEPT !.root = @ + 1]
             changed == [proof.degree.layers EXCEPT ![d] = layer]
  <2>1. Altered(part) = [proof EXCEPT !.degree = [proof.degree EXCEPT !.layers = changed]]
    BY <1>12 DEF Altered
  <2>2. d \in DOMAIN proof.degree.layers /\ "rows" \in DOMAIN proof.degree.layers[d] =>
          "rows" \in DOMAIN layer /\ layer.rows = proof.degree.layers[d].rows
    OBVIOUS
  <2> HIDE DEF layer
  <2>4. Len(changed) = Len(layers) - 1
    BY ReplacedLength DEF ProofShaped
  <2>5. /\ DOMAIN changed = 1..(Len(layers) - 1)
        /\ \A j \in 1..(Len(layers) - 1) :
             "rows" \in DOMAIN changed[j] /\ changed[j].rows = Size(layers[j])
    BY <2>2 DEF ProofShaped
  <2> HIDE DEF changed
  <2> QED
    BY <2>1, <2>4, <2>5 DEF ProofShaped
<1>13. CASE part[1] = "layer value"
  <2> DEFINE d == part[2]
             layer == [proof.degree.layers[d] EXCEPT !.opening.values[part[3]] = RowAltered(@, part[4])]
             changed == [proof.degree.layers EXCEPT ![d] = layer]
  <2>1. Altered(part) = [proof EXCEPT !.degree = [proof.degree EXCEPT !.layers = changed]]
    BY <1>13 DEF Altered
  <2>2. d \in DOMAIN proof.degree.layers /\ "rows" \in DOMAIN proof.degree.layers[d] =>
          "rows" \in DOMAIN layer /\ layer.rows = proof.degree.layers[d].rows
    OBVIOUS
  <2> HIDE DEF layer
  <2>4. Len(changed) = Len(layers) - 1
    BY ReplacedLength DEF ProofShaped
  <2>5. /\ DOMAIN changed = 1..(Len(layers) - 1)
        /\ \A j \in 1..(Len(layers) - 1) :
             "rows" \in DOMAIN changed[j] /\ changed[j].rows = Size(layers[j])
    BY <2>2 DEF ProofShaped
  <2> HIDE DEF changed
  <2> QED
    BY <2>1, <2>4, <2>5 DEF ProofShaped
<1>14. CASE part[1] \notin {"trace root", "trace nodes", "constraint root", "constraint nodes",
                           "remainder root", "nonce", "op count", "trace value", "constraint value",
                           "z1", "z2", "layer root", "layer value"}
  BY <1>14 DEF Altered, ProofShaped
<1> QED
  BY <1>1, <1>2, <1>3, <1>4, <1>5, <1>6, <1>7, <1>8, <1>9, <1>10, <1>11, <1>12, <1>13, <1>14

(* A proof arrives intact or altered, and its queries are to be drawn anew. *)
LEMMA ProofDelivered ==
  ASSUME Invariant, Deliver
  PROVE  Invariant'
<1>1. /\ stage = "sent" /\ stage' = "verify" /\ queries' = {} /\ UNCHANGED <<job, layers>>
      /\ proof' = proof \/ \E part \in Parts : proof' = Altered(part)
  BY DEF Deliver, proverVars
<1>2. LayersShaped'
  BY <1>1, LayersKept DEF Invariant, HasLayers
<1>3. HasProof /\ ProofShaped /\ Len(layers) - 1 \in Nat
  <2>1. (\E T : layers \in Seq(T)) /\ Len(layers) >= 1
    BY <1>1 DEF Invariant, LayersShaped, HasLayers
  <2> QED
    BY <1>1, <2>1 DEF HasProof, Invariant
<1>4. Domain' = Domain
  BY <1>1 DEF Domain
<1>5. ProofShaped'
  <2>1. CASE proof' = proof
    BY <2>1, <1>1, <1>3, ProofKept
  <2>2. ASSUME NEW part, proof' = Altered(part) PROVE ProofShaped'
    BY <2>2, <1>1, <1>3, <1>4, AlteredKeepsShape DEF ProofShaped
  <2> QED
    BY <1>1, <2>1, <2>2
<1> QED
  BY <1>1, <1>2, <1>5 DEF Invariant, LayersFolded, QueriesAside, LayerReached, HasLayers
-----------------------------------------------------------------------------
(* Steps of the verifier *)

(* The check of the nonce leaves the proof alone. *)
LEMMA NonceChecked ==
  ASSUME Invariant, CheckNonce
  PROVE  Invariant'
<1>1. /\ stage = "verify" /\ stage' \in {"verifier queries", "rejected"}
      /\ UNCHANGED <<job, layers, proof, queries>>
  BY DEF CheckNonce, proverVars
<1>2. LayersShaped' /\ ProofShaped'
  BY <1>1, LayersKept, ProofKept DEF Invariant, HasLayers, HasProof
<1> QED
  BY <1>1, <1>2 DEF Invariant, LayersFolded, QueriesAside, LayerReached, HasLayers

(* The walk through the layers starts with all points of the domain. *)
LEMMA LayersEntered ==
  ASSUME Invariant, CheckCommitments
  PROVE  Invariant'
<1>1. /\ stage = "verifier queries" /\ stage' \in {"layers", "rejected"}
      /\ UNCHANGED <<job, layers, proof, queries>>
  BY DEF CheckCommitments, proverVars, queryVars
<1>2. LayersShaped' /\ ProofShaped'
  BY <1>1, LayersKept, ProofKept DEF Invariant, HasLayers, HasProof
<1>3. LayerReached'
  <2>1. SUFFICES ASSUME stage' = "layers" PROVE LayerReached'
    BY DEF LayerReached
  <2>2. /\ DOMAIN evaluations' = queries /\ depth' = 1
        /\ layerSize' = 4 * proof.degree.layers[1].rows
        /\ bound' = CompositionDegree(ProofLength) + 1
    BY <2>1 DEF CheckCommitments
  <2>3. Len(layers) >= 2 /\ Len(layers) \in Nat /\ Points(1) = Domain
    <3>1. (\E T : layers \in Seq(T)) /\ Points(1) = Domain
      BY <1>1 DEF Invariant, LayersShaped, HasLayers
    <3>2. Len(layers) >= 2
      BY <1>1 DEF Invariant, LayersFolded, HasLayers
    <3> QED
      BY <3>1, <3>2
  <2>4. proof.degree.layers[1].rows = Size(layers[1]) /\ proof.domain = Domain
    <3>1. 1 \in 1..(Len(layers) - 1)
      BY <2>3
    <3> QED
      BY <1>1, <3>1 DEF Invariant, ProofShaped, HasProof
  <2>5. Domain = job.length * ExtensionFactor /\ job.length \in Nat \ {0}
    BY FirstLayer DEF Invariant, Rated
  <2>6. ProofLength = job.length
    <3> DEFINE e == ExtensionFactor
               length == job.length
    <3>1. Domain \in Nat /\ Domain = e * length + 0 /\ 0 \in 0..(e - 1) /\ e \in Nat \ {0}
          /\ length \in Nat
      BY <2>5, Parameters
    <3> HIDE DEF e, length
    <3>2. Domain \div e = length
      BY <3>1, DivisionIs
    <3> QED
      BY <2>4, <3>2 DEF ProofLength, e, length
  <2>7. bound' = (MaxConstraintDegree - 1) * job.length /\ bound' \in Nat
    BY <2>2, <2>5, <2>6, Parameters DEF CompositionDegree
  <2>8. layerSize' = Domain
    BY <2>2, <2>3, <2>4 DEF Points
  <2>9. bound' * ExtensionFactor = (MaxConstraintDegree - 1) * layerSize'
    BY <2>5, <2>7, <2>8, Parameters
  <2>10. Points(1)' = Points(1) /\ Len(layers') = Len(layers)
    BY <1>1 DEF Points
  <2>11. \A p \in DOMAIN evaluations' : p \in Nat /\ p % ExtensionFactor # 0
    BY <2>2 DEF Invariant, QueriesAside
  <2> QED
    BY <2>2, <2>3, <2>7, <2>8, <2>9, <2>10, <2>11 DEF LayerReached
<1> QED
  BY <1>1, <1>2, <1>3 DEF Invariant, LayersFolded, QueriesAside, HasLayers

(* From a layer that matches the verifier goes on to the next. *)
LEMMA LayerPassed ==
  ASSUME Narrow, Invariant, CheckLayer
  PROVE  Invariant'
<1>1. /\ stage = "layers" /\ stage' \in {"layers", "rejected"}
      /\ depth <= Len(proof.degree.layers) /\ UNCHANGED <<job, layers, proof, queries>>
  BY DEF CheckLayer, proverVars, queryVars
<1>2. LayersShaped' /\ ProofShaped'
  BY <1>1, LayersKept, ProofKept DEF Invariant, HasLayers, HasProof
<1>3. SUFFICES ASSUME stage' = "layers" PROVE LayerReached'
  BY <1>1, <1>2 DEF Invariant, LayersFolded, QueriesAside, LayerReached, HasLayers
<1> DEFINE rows == layerSize \div 4
<1>4. /\ DOMAIN evaluations' = RowsOf(DOMAIN evaluations, rows)
      /\ depth' = depth + 1 /\ layerSize' = rows /\ bound' = bound \div 4
  BY <1>1, <1>3 DEF CheckLayer, FoldedEvaluations
<1>5. PICK d \in 1..(Len(layers) - 1) : d = depth
  <2>1. Len(proof.degree.layers) = Len(layers) - 1
    BY <1>1 DEF Invariant, ProofShaped, HasProof
  <2>2. depth \in 1..Len(layers)
    BY <1>1 DEF Invariant, LayerReached
  <2>3. (\E T : layers \in Seq(T)) /\ Len(layers) >= 1
    BY <1>1 DEF Invariant, LayersShaped, HasLayers
  <2>4. Len(layers) \in Nat
    BY <2>3
  <2> QED
    BY <1>1, <2>1, <2>2, <2>4
<1>6. /\ Len(layers) \in Nat
      /\ Size(layers[d]) \in Nat /\ (\E rate \in Nat : Rated(4 * Size(layers[d]), rate))
      /\ NeedsReduction(layers[d]) /\ 4 * Points(d + 1) = Points(d)
      /\ Size(layers[d + 1]) \in Nat
  <2>1. /\ \E T : layers \in Seq(T)
        /\ \A c \in 1..Len(layers) : Size(layers[c]) \in Nat /\ \E rate \in Nat : Rated(Points(c), rate)
        /\ \A c \in 1..(Len(layers) - 1) : NeedsReduction(layers[c]) /\ 4 * Points(c + 1) = Points(c)
    BY <1>1 DEF Invariant, LayersShaped, HasLayers
  <2>2. Len(layers) \in Nat
    BY <2>1
  <2>3. d \in 1..Len(layers) /\ d + 1 \in 1..Len(layers)
    BY <2>2
  <2> QED
    BY <2>1, <2>2, <2>3 DEF Points
<1>7. PICK rate \in Nat, q \in Nat \ {0} :
        rate = 4 * q /\ Rated(4 * Size(layers[d]), rate) /\ Size(layers[d]) = q * ExtensionFactor
  <2>1. PICK rate \in Nat : Rated(4 * Size(layers[d]), rate)
    BY <1>6
  <2>2. Size(layers[d]) * 4 > MaxRemainderLength
    BY <1>6 DEF NeedsReduction
  <2> QED
    BY <1>6, <2>1, <2>2, NextLayer
<1>8. layerSize = 4 * Size(layers[d]) /\ rows = Size(layers[d])
  <2>1. layerSize = 4 * Size(layers[d])
    BY <1>1, <1>5 DEF Invariant, LayerReached, Points
  <2> QED
    BY <1>6, <2>1
<1>9. rows = q * ExtensionFactor
  BY <1>7, <1>8
<1> HIDE DEF rows
<1>10. layerSize' = Points(d + 1)
  BY <1>4, <1>6, <1>8 DEF Points
<1>11. bound' \in Nat /\ bound' * ExtensionFactor = (MaxConstraintDegree - 1) * layerSize'
  <2> DEFINE k == MaxConstraintDegree - 1
             e == ExtensionFactor
  <2>1. k \in Nat /\ e \in Nat \ {0} /\ bound \in Nat /\ bound * e = k * layerSize
    BY <1>1, Parameters DEF Invariant, LayerReached
  <2>2. layerSize = 4 * (q * e)
    BY <1>7, <1>8
  <2> HIDE DEF k, e
  <2> DEFINE kq == k * q
  <2>3. kq \in Nat /\ k * layerSize = (4 * kq) * e /\ k * (q * e) = kq * e
    BY <2>1, <2>2
  <2> HIDE DEF kq
  <2>4. bound = 4 * kq
    BY <2>1, <2>3, Cancel
  <2>5. bound' = kq
    BY <1>4, <2>3, <2>4
  <2>6. layerSize' = q * e
    BY <1>4, <1>9 DEF e
  <2> QED
    BY <2>3, <2>5, <2>6 DEF k, e
<1>12. \A p \in DOMAIN evaluations' : p \in Nat /\ p % ExtensionFactor # 0
  <2>1. \A p \in DOMAIN evaluations : p \in Nat /\ p % ExtensionFactor # 0
    BY <1>1 DEF Invariant, LayerReached
  <2>2. ASSUME NEW p \in DOMAIN evaluations
        PROVE  p % rows \in Nat /\ (p % rows) % ExtensionFactor # 0
    BY <2>1, <1>9, Parameters, StaysAside
  <2> QED
    BY <1>4, <2>2 DEF RowsOf
<1>13. Points(d + 1)' = Points(d + 1) /\ Len(layers') = Len(layers)
  BY <1>1 DEF Points
<1>14. depth' = d + 1 /\ d + 1 \in 1..Len(layers')
  BY <1>4, <1>5, <1>6, <1>13
<1> QED
  BY <1>10, <1>11, <1>12, <1>13, <1>14 DEF LayerReached

(* The remainder ends it. *)
LEMMA RemainderChecked ==
  ASSUME Invariant, CheckRemainder
  PROVE  Invariant'
<1>1. stage' \in {"accepted", "rejected"} /\ UNCHANGED <<job, queries>>
  BY DEF CheckRemainder, queryVars
<1> QED
  BY <1>1 DEF Invariant, LayersShaped, LayersFolded, ProofShaped, QueriesAside, LayerReached, HasLayers, HasProof
-----------------------------------------------------------------------------
(* A job has no layers and no proof at first. *)
LEMMA InvariantInit == ProofInit => Invariant
BY DEF ProofInit, Invariant, LayersShaped, LayersFolded, ProofShaped, QueriesAside, LayerReached,
       HasLayers, HasProof

(* Steps that change nothing change none of it. *)
LEMMA InvariantStutter ==
  ASSUME Invariant, UNCHANGED vars
  PROVE  Invariant'
<1>1. UNCHANGED <<job, stage, layers, queries, proof, evaluations, depth, layerSize, bound>>
  BY DEF vars, proverVars, queryVars, verifierVars
<1>2. Domain' = Domain /\ \A d : Points(d)' = Points(d)
  BY <1>1 DEF Domain, Points
<1> QED
  BY <1>1, <1>2 DEF Invariant, LayersShaped, LayersFolded, ProofShaped, QueriesAside, LayerReached,
                    HasLayers, HasProof

(* Every step keeps the layers of prover and verifier in step. *)
LEMMA InvariantNext ==
  ASSUME DrawsNumbers, Narrow, Invariant, [ProofNext]_vars
  PROVE  Invariant'
BY BeforeLayers, LayersBegin, LayersGrow, LayersGround, QueryDrawn, QueriesGivenUp, ProofBuilt,
   ProofDelivered, NonceChecked, LayersEntered, LayerPassed, RemainderChecked, InvariantStutter
DEF ProofNext

(* fri::verify divides its bound by four without losing a remainder, and    *)
(* follows no position at a row of the trace, as long as the extension      *)
(* factor is at most half the largest remainder.                            *)
THEOREM RateIsKept ==
  ASSUME DrawsNumbers, Narrow
  PROVE  ProofSpec => []LayersKeepRate
<1>1. ProofInit => Invariant
  BY InvariantInit
<1>2. Invariant /\ [ProofNext]_vars => Invariant'
  BY InvariantNext
<1>3. Invariant => LayersKeepRate
  BY DEF Invariant, LayerReached, LayersKeepRate
<1> QED
  BY <1>1, <1>2, <1>3, PTL DEF ProofSpec
=============================================================================
