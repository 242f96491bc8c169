-------------------------------- MODULE Field --------------------------------
(***************************************************************************)
(* Arithmetic in the field the VM computes in (math/field.rs), for any     *)
(* prime modulus.  Elements are the integers below it, as they are in the  *)
(* code: bits are taken of the integer.                                    *)
(***************************************************************************)
EXTENDS Integers, Sequences

CONSTANT Modulus

Elements == 0..(Modulus - 1)

ASSUME FieldAssumption ==
  /\ Modulus \in Nat /\ Modulus > 2
  /\ \A x \in Elements \ {0} : \E y \in Elements : (x * y) % Modulus = 1

Add(x, y) == (x + y) % Modulus
(* the difference left unreduced *)
SubUnreduced(x, y) == x + Modulus - y
Sub(x, y) == (x + Modulus - y) % Modulus
Mul(x, y) == (x * y) % Modulus
(* the opposite left unreduced: Modulus itself for 0 *)
NegUnreduced(x) == Modulus - x
Neg(x) == Sub(0, x)
Inv(x) == IF x = 0 THEN 0 ELSE CHOOSE y \in Elements : Mul(x, y) = 1

IsBinary(x) == x \in {0, 1}

(* (x >> i) & 1 *)
Bit(x, i) == IF (x \div 2^i) % 2 = 1 THEN 1 ELSE 0

(* u128::is_power_of_two: no odd number but 1 divides x *)
IsPowerOfTwo(x) ==
  /\ x \in Nat \ {0}
  /\ \A k \in 1..x : x % k = 0 => k = 1 \/ k % 2 = 0
=============================================================================
