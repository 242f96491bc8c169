--------------------------------- MODULE Air ---------------------------------
(***************************************************************************)
(* The part of stark/constraints/evaluator.rs that does not depend on what *)
(* the constraints are: their random combination at a point, the degrees   *)
(* they are raised to, round constants between the rows and the            *)
(* coefficients of stark/utils/coefficients.rs.  The constraints of the VM *)
(* (StackConstraints and DecoderConstraints have them on the rows of a     *)
(* trace) are a parameter here; register 0 is the op counter, the others   *)
(* are the user stack.                                                     *)
(***************************************************************************)
EXTENDS Polynom, Sequences

CONSTANTS
  Registers,              \* registers of the trace
  Constraints(_, _, _),   \* transition constraints of two rows and a round constant
  Degrees,                \* the degree of each
  RoundConstants,         \* one cycle of a register of ARK
  MaxConstraintDegree,    \* MAX_CONSTRAINT_DEGREE
  MaxRegisterCount,       \* MAX_REGISTER_COUNT
  Draw(_, _)              \* external: the n-th value (from 0) of a generator with a seed

RegisterIndexes == 0..(Registers - 1)

ASSUME AirAssumption ==
  /\ Registers \in 2..MaxRegisterCount
  /\ IsPowerOfTwo(MaxConstraintDegree) /\ MaxConstraintDegree > 2
  /\ \A i \in DOMAIN Degrees : Degrees[i] \in 1..MaxConstraintDegree
  /\ IsPowerOfTwo(Size(RoundConstants))

SumOf(terms) ==
  LET sum[n \in 0..Len(terms)] == IF n = 0 THEN 0 ELSE Add(sum[n - 1], terms[n])
  IN sum[Len(terms)]
-----------------------------------------------------------------------------
(* extend_constants: a cycle of constants as a polynomial, and its values  *)
(* between the rows                                                        *)
CycleLength == Size(RoundConstants)
CyclePoly == InterpolateFft(RoundConstants, InvTwiddles(RootOfUnity(CycleLength), CycleLength))
CycleValues ==
  LET n == CycleLength * MaxConstraintDegree
  IN EvalFft(Padded(CyclePoly, n), Twiddles(RootOfUnity(n), n))

(* the constant at a step of the evaluation domain, as the prover has it,  *)
(* and at a point of the field, as the verifier computes it                *)
ConstantAtStep(step) == CycleValues[step % (CycleLength * MaxConstraintDegree)]
ConstantAt(length, x) == Eval(CyclePoly, Exp(x, length \div CycleLength))
-----------------------------------------------------------------------------
(* Degrees *)

(* get_transition_constraint_target_degree less the degree of a constraint *)
TransitionAdjustment(length, degree) ==
  (MaxConstraintDegree - 1) * length + (length - 1) - (length - 1) * degree

(* the degree of the divisor forgotten *)
BoundaryAdjustmentShort(length) == (MaxConstraintDegree - 1) * length - (length - 1)

(* get_boundary_constraint_adjustment_degree *)
BoundaryAdjustment(length) == (MaxConstraintDegree - 1) * length + 1 - (length - 1)

(* stark/utils: the degree of the composition polynomial, and what the     *)
(* trace polynomials lack of it                                            *)
CompositionDegreeOfConstraints(length) == (MaxConstraintDegree - 1) * length
CompositionDegree(length) == (MaxConstraintDegree - 1) * length - 1
IncrementalDegree(length) == CompositionDegree(length) - (length - 2)
-----------------------------------------------------------------------------
(* Coefficients.  Each part takes two for each of its constraints.  The    *)
(* second call of build_boundary_coefficients returns its end relative to  *)
(* its own start, so the transition constraints start where the final      *)
(* boundary constraints do.                                                *)
BoundarySlots == Registers
InitialCoefficient(seed, n) == Draw(seed, n)
FinalCoefficient(seed, n) == Draw(seed, 2 * BoundarySlots + n)
TransitionCoefficient(seed, n) == Draw(seed, 2 * BoundarySlots + n)

(* CompositionCoefficients: the first value was used for z *)
TraceCoefficient1(seed, register) == Draw(seed, 1 + register)
TraceCoefficient2(seed, register) == Draw(seed, 1 + 2 * MaxRegisterCount + register)
DegreeCoefficient1(seed) == Draw(seed, 1 + 4 * MaxRegisterCount)
DegreeCoefficient2(seed) == Draw(seed, 1 + 4 * MaxRegisterCount + 1)
ConstraintCoefficient(seed) == Draw(seed, 1 + 4 * MaxRegisterCount + 2)
-----------------------------------------------------------------------------
(* Evaluation.  An Evaluator is a record: the length of the trace, the     *)
(* seed of the coefficients, the inputs, the outputs and the op count.     *)

(* combine_transition_constraints: coefficients are taken in the order of  *)
(* group_transition_constraints, by degree                                 *)
PlaceInGroups(c) ==
  Cardinality({d \in DOMAIN Degrees : Degrees[d] < Degrees[c] \/ (Degrees[d] = Degrees[c] /\ d < c)})

CombinedTransition(evaluator, values, x) ==
  SumOf([c \in 1..Len(Degrees) |->
    LET place == PlaceInGroups(c)
        adjusted == Mul(TransitionCoefficient(evaluator.seed, 2 * place + 1),
                        Exp(x, TransitionAdjustment(evaluator.length, Degrees[c])))
    IN Mul(values[c], Add(TransitionCoefficient(evaluator.seed, 2 * place), adjusted))])

(* what evaluate_boundaries requires of the first and of the last row *)
InitialTerms(row, inputs) ==
  <<row[0]>> \o [i \in 1..Len(inputs) |-> Sub(row[i], inputs[i])]
(* the last output left out *)
FinalTermsButOne(row, count, outputs) ==
  <<Sub(row[0], count % Modulus)>> \o [i \in 1..(Len(outputs) - 1) |-> Sub(row[i], outputs[i])]
FinalTerms(row, count, outputs) ==
  <<Sub(row[0], count % Modulus)>> \o [i \in 1..Len(outputs) |-> Sub(row[i], outputs[i])]

InitialValue(evaluator, row, x) ==
  LET terms == InitialTerms(row, evaluator.inputs)
      xp == Exp(x, BoundaryAdjustment(evaluator.length))
      cc(n) == InitialCoefficient(evaluator.seed, n)
  IN SumOf([i \in 1..Len(terms) |-> Mul(terms[i], Add(cc(2 * i - 2), Mul(cc(2 * i - 1), xp)))])

FinalValue(evaluator, row, x) ==
  LET terms == FinalTerms(row, evaluator.count, evaluator.outputs)
      xp == Exp(x, BoundaryAdjustment(evaluator.length))
      cc(n) == FinalCoefficient(evaluator.seed, n)
  IN SumOf([i \in 1..Len(terms) |-> Mul(terms[i], Add(cc(2 * i - 2), Mul(cc(2 * i - 1), xp)))])

(* should_evaluate_to_zero_at: the rows of the trace but the last *)
OnTrace(length, step) ==
  /\ step % MaxConstraintDegree = 0
  /\ step # (length - 1) * MaxConstraintDegree

LastPoint(length) == Exp(RootOfUnity(length), length - 1)

(* evaluate_constraints of the verifier: every combination divided by what *)
(* it must vanish on                                                       *)
ConstraintsAt(evaluator, row, nextRow, z) ==
  LET length == evaluator.length
      atFirst == Sub(z, 1)
      atLast == Sub(z, LastPoint(length))
      onRows == Mul(Sub(Exp(z, length), 1), Inv(atLast))
      transition == CombinedTransition(evaluator, Constraints(row, nextRow, ConstantAt(length, z)), z)
  IN Add(Add(Mul(InitialValue(evaluator, row, z), Inv(atFirst)),
             Mul(FinalValue(evaluator, row, z), Inv(atLast))),
         Mul(transition, Inv(onRows)))
=============================================================================
