------------------------------ MODULE LimbField ------------------------------
(***************************************************************************)
(* add, sub, mul and inv of math/field.rs as they are computed: an element *)
(* has two limbs (of 64 bits in the code), products and the values of inv  *)
(* have three, a word has two, and all of them wrap.                       *)
(***************************************************************************)
EXTENDS Field

CONSTANT Limb   \* how many values a limb has: 2^64

Word == Limb * Limb

(* The modulus is so little below a word that what a word has more than it *)
(* fits in a limb, and that many times more than a limb in a word.         *)
ASSUME LimbAssumption ==
  /\ Limb \in Nat /\ Limb > 1 /\ Limb % 2 = 0
  /\ Modulus < Word
  /\ (Limb + 1) * (Word - Modulus) <= Word

(* What inv adds up never has more than a limb times the modulus, unless   *)
(* limbs are tiny.                                                         *)
ASSUME LimbIsWide == Limb >= 16

VARIABLES
  request, result,   \* as in FieldSpec
  pc,                \* what is done next
  z,                 \* limbs of a product
  v, u, a, d         \* of inv: v is a word, the others are limbs

limbVars == <<request, result, pc, z, v, u, a, d>>

x == request.x
y == request.y
-----------------------------------------------------------------------------
(* Limbs *)

Lo(n) == n % Limb
Hi(n) == n \div Limb
Limbs(n) == <<Lo(n), Lo(Hi(n)), 0>>
WordOf(n) == n[1] + n[2] * Limb
Wrapped(n) == n % Word
Borrow(n) == IF n >= Word \div 2 THEN 1 ELSE 0

(* mul_128x64 *)
TimesLimb(n, m) ==
  LET low == Lo(n) * m
      high == Hi(n) * m + Hi(low)
  IN <<Lo(low), Lo(high), Hi(high)>>

(* sub_192x192 and add_192x192 *)
Minus(m, n) ==
  LET n0 == Wrapped(m[1] - n[1])
      n1 == Wrapped(m[2] - (n[2] + Borrow(n0)))
      n2 == Wrapped(m[3] - (n[3] + Borrow(n1)))
  IN <<Lo(n0), Lo(n1), Lo(n2)>>
Plus(m, n) ==
  LET n0 == m[1] + n[1]
      n1 == m[2] + n[2] + Hi(n0)
      n2 == m[3] + n[3] + Hi(n1)
  IN <<Lo(n0), Lo(n1), Lo(n2)>>

(* mul_by_modulus and mul_reduce *)
TimesModulus(m) ==
  LET low == Wrapped(m * Modulus)
  IN <<Lo(low), Hi(low), IF m = 0 THEN 0 ELSE m - 1>>
ReduceHigh(n) == Minus(n, TimesModulus(n[3]))

(* sub_modulus *)
LessModulus(low, high) == Wrapped(low + high * Limb - Modulus)

Half(n) ==
  <<n[1] \div 2 + (n[2] % 2) * (Limb \div 2), n[2] \div 2 + (n[3] % 2) * (Limb \div 2), n[3] \div 2>>
Odd(n) == n[1] % 2 = 1
(* half of it modulo the field *)
HalfInField(n) == Half(IF Odd(n) THEN Plus(n, Limbs(Modulus)) ELSE n)
Exceeds(n, m) == n[3] > 0 \/ WordOf(n) > m
-----------------------------------------------------------------------------
LimbInit ==
  /\ request \in [op : {"add", "sub", "mul"}, x : Elements, y : Elements]
                 \cup [op : {"inv"}, x : Elements, y : {0}]
  /\ result = << >> /\ pc = request.op
  /\ z = <<0, 0, 0>> /\ v = Modulus /\ u = <<0, 0, 0>> /\ a = <<0, 0, 0>> /\ d = <<0, 0, 0>>

Return(n) == result' = <<n>> /\ pc' = "done"

AddElements ==
  /\ pc = "add"
  /\ LET rest == Modulus - y
     IN Return(IF x < rest THEN Modulus - rest + x ELSE x - rest)
  /\ UNCHANGED <<request, z, v, u, a, d>>

SubElements ==
  /\ pc = "sub"
  /\ Return(IF x < y THEN Modulus - y + x ELSE x - y)
  /\ UNCHANGED <<request, z, v, u, a, d>>
-----------------------------------------------------------------------------
(* mul: x times the high limb of y, reduced; moved up a limb and added to  *)
(* x times its low limb; reduced again                                     *)

(* the check for a third limb left to the next step *)
MulHighUnchecked ==
  /\ pc = "mul"
  /\ z' = ReduceHigh(TimesLimb(x, Hi(y)))
  /\ pc' = "mul low"
  /\ UNCHANGED <<request, result, v, u, a, d>>

MulHigh ==
  /\ pc = "mul"
  /\ LET n == ReduceHigh(TimesLimb(x, Hi(y)))
     IN z' = IF n[3] = 1 THEN Limbs(LessModulus(n[1], n[2])) ELSE n
  /\ pc' = "mul low"
  /\ UNCHANGED <<request, result, v, u, a, d>>

MulLow ==
  /\ pc = "mul low"
  /\ LET low == TimesLimb(x, Lo(y))
         n1 == low[2] + z[1]
         n2 == low[3] + z[2] + Hi(n1)
         less == LessModulus(Lo(n1), Lo(n2))
     IN z' = IF Hi(n2) = 1 THEN <<low[1], Lo(less), Hi(less)>> ELSE <<low[1], Lo(n1), Lo(n2)>>
  /\ pc' = "mul reduce"
  /\ UNCHANGED <<request, result, v, u, a, d>>

MulReduce ==
  /\ pc = "mul reduce"
  /\ LET n == ReduceHigh(z)
         notBelow == n[2] = Hi(Modulus) /\ n[1] >= Lo(Modulus)
     IN Return(IF n[3] = 1 \/ notBelow THEN LessModulus(n[1], n[2]) ELSE WordOf(n))
  /\ UNCHANGED <<request, z, v, u, a, d>>
-----------------------------------------------------------------------------
(* inv: a binary extended Euclidean algorithm on u and v *)

InvOfZero ==
  /\ pc = "inv" /\ x = 0
  /\ Return(0)
  /\ UNCHANGED <<request, z, v, u, a, d>>

StartInv ==
  /\ pc = "inv" /\ x # 0
  /\ u' = IF x % 2 = 1 THEN Limbs(x) ELSE Plus(Limbs(x), Limbs(Modulus))
  /\ d' = <<Lo(Modulus) - 1, Hi(Modulus), 0>>
  /\ pc' = "compare"
  /\ UNCHANGED <<request, result, z, v, a>>

SubtractV ==
  /\ pc = "compare" /\ v # 1 /\ Exceeds(u, v)
  /\ u' = Minus(u, Limbs(v)) /\ d' = Plus(d, a)
  /\ pc' = "halve u"
  /\ UNCHANGED <<request, result, z, v, a>>

HalveU ==
  /\ pc = "halve u"
  /\ IF Odd(u) THEN pc' = "compare" /\ UNCHANGED <<u, d>>
     ELSE u' = Half(u) /\ d' = HalfInField(d) /\ UNCHANGED pc
  /\ UNCHANGED <<request, result, z, v, a>>

SubtractU ==
  /\ pc = "compare" /\ v # 1 /\ ~ Exceeds(u, v)
  /\ v' = v - WordOf(u) /\ a' = Plus(a, d)
  /\ pc' = "halve v"
  /\ UNCHANGED <<request, result, z, u, d>>

HalveV ==
  /\ pc = "halve v"
  /\ IF v % 2 = 1 THEN pc' = "compare" /\ UNCHANGED <<v, a>>
     ELSE v' = v \div 2 /\ a' = HalfInField(a) /\ UNCHANGED pc
  /\ UNCHANGED <<request, result, z, u, d>>

ReduceA ==
  /\ pc = "compare" /\ v = 1
  /\ IF Exceeds(a, Modulus - 1) THEN a' = Minus(a, Limbs(Modulus)) /\ UNCHANGED <<result, pc>>
     ELSE Return(WordOf(a)) /\ UNCHANGED a
  /\ UNCHANGED <<request, z, v, u, d>>
-----------------------------------------------------------------------------
LimbNext ==
  \/ AddElements \/ SubElements
  \/ MulHigh \/ MulLow \/ MulReduce
  \/ InvOfZero \/ StartInv \/ SubtractV \/ HalveU \/ SubtractU \/ HalveV \/ ReduceA

(* an operation once called runs on *)
LimbSpec == LimbInit /\ [][LimbNext]_limbVars /\ WF_limbVars(LimbNext)

(* mul never returns anything but the product. *)
ProductExact == request.op = "mul" /\ pc = "done" => result = <<Mul(x, y)>>

FieldOperations == INSTANCE FieldSpec

(***************************************************************************)
(* On limbs that wrap, every operation ends with exactly the element the   *)
(* field defines: no carry out of a third limb is lost in mul, whose       *)
(* comments leave open which of its checks are needed, and no value of inv *)
(* outgrows its limbs.                                                     *)
(***************************************************************************)
ImplementsField == FieldOperations!Spec
=============================================================================
