--------------------------- MODULE StackConstraints ---------------------------
(***************************************************************************)
(* The transition constraints of the user stack (stark/constraints/stack   *)
(* and the helpers in stark/constraints/utils.rs).                         *)
(*                                                                         *)
(* Each operation gives every register of the stack a value that is 0 when *)
(* the next row is what the operation makes of the current one, and two    *)
(* auxiliary values about its operands.  The code adds these up for all    *)
(* operations, multiplied by the flag of each; here only the operations    *)
(* with a flag other than 0 are added up.                                  *)
(***************************************************************************)
EXTENDS TraceState, Functions

(* are_equal of two values of which only the equality matters *)
Differ(x, y) == IF x = y THEN 0 ELSE 1

NotBinary(x) == Sub(Mul(x, x), x)
-----------------------------------------------------------------------------
(* The helpers give a value to the registers they constrain and 0 to the   *)
(* others; registers are numbered from 0.                                  *)

(* enforce_stack_copy *)
CopyTerms(old, new, from) ==
  [i \in DOMAIN old |-> IF i < from THEN 0 ELSE Differ(old[i], new[i])]

(* enforce_right_shift that begins a register too late *)
RightShiftTermsLate(old, new, n) ==
  [i \in DOMAIN old |-> IF i <= n THEN 0 ELSE Differ(old[i - n], new[i])]

(* enforce_right_shift *)
RightShiftTerms(old, new, n) ==
  [i \in DOMAIN old |-> IF i < n THEN 0 ELSE Differ(old[i - n], new[i])]

(* enforce_left_shift that expects the registers at the end to be kept *)
LeftShiftKeepingTerms(old, new, from, n, zero) ==
  [i \in DOMAIN old |->
     IF i < from - n THEN 0
     ELSE IF i + n \in DOMAIN old THEN Differ(old[i + n], new[i]) ELSE Differ(new[i], old[i])]

(* enforce_left_shift: zero is what fills the registers at the end *)
LeftShiftTerms(old, new, from, n, zero) ==
  [i \in DOMAIN old |->
     IF i < from - n THEN 0
     ELSE IF i + n \in DOMAIN old THEN Differ(old[i + n], new[i]) ELSE Differ(new[i], zero)]

(* the values for the first registers, put in front of those of a helper *)
Before(first, terms) ==
  [i \in DOMAIN terms |-> IF i < Len(first) THEN first[i + 1] ELSE terms[i]]

Terms(stack, aux) == [stack |-> stack, aux |-> aux]
NoAux == <<0, 0>>

(* the values that compare the registers from 0 on with the ones expected *)
Expect(new, values) == [i \in 1..Len(values) |-> Sub(new[i - 1], values[i])]
-----------------------------------------------------------------------------
(* input.rs *)
InputTerms(op, old, new) ==
  Terms(RightShiftTerms(old, new, IF op = "read2" THEN 2 ELSE 1), NoAux)

(* manipulation.rs *)
DupTerms(op, old, new) ==
  LET n == CASE op = "dup" -> 1 [] op \in {"dup2", "pad2"} -> 2 [] op = "dup4" -> 4
      top == [i \in 1..n |-> IF op = "pad2" THEN 0 ELSE old[i - 1]]
  IN Terms(Before(Expect(new, top), RightShiftTerms(old, new, n)), NoAux)

DropTerms(op, old, new) ==
  LET n == IF op = "drop" THEN 1 ELSE 4
  IN Terms(LeftShiftTerms(old, new, n, n, 0), NoAux)

(* Both constraints of SWAP are added up in the first register. *)
SwapTerms(old, new) ==
  LET both == Add(Sub(new[0], old[1]), Sub(new[1], old[0]))
  IN Terms(Before(<<both, 0>>, CopyTerms(old, new, 2)), NoAux)

PermuteTerms(op, old, new) ==
  LET from == CASE op = "swap2" -> <<2, 3, 0, 1>>
                [] op = "swap4" -> <<4, 5, 6, 7, 0, 1, 2, 3>>
                [] op = "roll4" -> <<3, 0, 1, 2>>
                [] op = "roll8" -> <<7, 0, 1, 2, 3, 4, 5, 6>>
      top == [i \in 1..Len(from) |-> old[from[i]]]
  IN Terms(Before(Expect(new, top), CopyTerms(old, new, Len(from))), NoAux)

(* arithmetic.rs *)
ArithmeticTerms(op, old, new) ==
  LET x == old[0]
      y == old[1]
      shifted(r) == Before(Expect(new, <<r>>), LeftShiftTerms(old, new, 2, 1, 0))
      inPlace(value) == Before(<<value>>, CopyTerms(old, new, 1))
  IN CASE op = "add" -> Terms(shifted(Add(x, y)), NoAux)
       [] op = "mul" -> Terms(shifted(Mul(x, y)), NoAux)
       [] op = "inv" -> Terms(inPlace(Sub(1, Mul(new[0], x))), NoAux)
       [] op = "neg" -> Terms(inPlace(Add(new[0], x)), NoAux)
       [] op = "not" -> Terms(inPlace(Sub(new[0], Sub(1, x))), <<NotBinary(x), 0>>)
       [] op = "and" -> Terms(shifted(Mul(x, y)), <<NotBinary(x), NotBinary(y)>>)
       [] op = "or"  -> Terms(shifted(Sub(1, Mul(Sub(1, x), Sub(1, y)))),
                              <<NotBinary(x), NotBinary(y)>>)

(* comparison.rs: ASSERT, ASSERTEQ and EQ *)
EqualityTerms(op, old, new) ==
  CASE op = "assert"   -> Terms(LeftShiftTerms(old, new, 1, 1, 0), <<Sub(1, old[0]), 0>>)
    [] op = "asserteq" -> Terms(LeftShiftTerms(old, new, 2, 2, 0), <<Sub(old[0], old[1]), 0>>)
    [] op = "eq"       ->
         LET diff == Sub(old[1], old[2])
         IN Terms(Before(Expect(new, <<Sub(1, Mul(diff, old[0]))>>),
                         LeftShiftTerms(old, new, 3, 2, 0)),
                  <<Mul(new[0], diff), 0>>)

(* enforce_cmp: the bits compared are those of the next row *)
CmpTerms(old, new) ==
  LET x == new[1]
      y == new[2]
      notSet == new[3]
      gt == Add(old[4], Mul(Mul(x, Sub(1, y)), notSet))
      lt == Add(old[5], Mul(Mul(y, Sub(1, x)), notSet))
  IN Terms(Before(<<NotBinary(x), NotBinary(y),
                    Sub(new[4], gt), Sub(new[5], lt),
                    Sub(new[6], Add(old[6], Mul(y, old[0]))),
                    Sub(new[7], Add(old[7], Mul(x, old[0]))),
                    Sub(notSet, Mul(Sub(1, old[5]), Sub(1, old[4]))),
                    Sub(Mul(new[0], 2), old[0])>>,
                  CopyTerms(old, new, 8)), NoAux)

BinAccTerms(old, new) ==
  Terms(Before(<<NotBinary(new[0]), new[1], Sub(new[2], Mul(old[2], 2)),
                 Sub(new[3], Add(old[3], Mul(new[0], old[2])))>>,
               CopyTerms(old, new, 4)), NoAux)

(* conditional.rs *)
ConditionalTerms(op, old, new) ==
  LET condition == old[IF op = "choose" THEN 2 ELSE 4]
      pick(x, y) == Add(Mul(condition, x), Mul(Sub(1, condition), y))
      top == CASE op = "choose"  -> <<pick(old[0], old[1])>>
               [] op = "choose2" -> <<pick(old[0], old[2]), pick(old[1], old[3])>>
               [] op = "cswap2"  -> <<pick(old[2], old[0]), pick(old[3], old[1]),
                                      pick(old[0], old[2]), pick(old[1], old[3])>>
      shift == CASE op = "choose"  -> LeftShiftTerms(old, new, 3, 2, 0)
                 [] op = "choose2" -> LeftShiftTerms(old, new, 6, 4, 0)
                 [] op = "cswap2"  -> LeftShiftTerms(old, new, 6, 2, 0)
  IN Terms(Before(Expect(new, top), shift), <<NotBinary(condition), 0>>)

(* hash.rs.  The halves of a round it compares are equal exactly if the    *)
(* round leads from the one state to the other.                            *)
RescueTerms(old, new, cycleStep) ==
  LET round == RescueRound([i \in 1..6 |-> old[i - 1]], cycleStep)
  IN Terms(Before([i \in 1..6 |-> Differ(new[i - 1], round[i])], CopyTerms(old, new, 6)),
           NoAux)

(* what an operation contributes to enforce_constraints *)
TermsOf(op, old, new, step) ==
  CASE op \in {"push", "read", "read2"}            -> InputTerms(op, old, new)
    [] op \in {"dup", "dup2", "dup4", "pad2"}      -> DupTerms(op, old, new)
    [] op \in {"drop", "drop4"}                    -> DropTerms(op, old, new)
    [] op = "swap"                                 -> SwapTerms(old, new)
    [] op \in {"swap2", "swap4", "roll4", "roll8"} -> PermuteTerms(op, old, new)
    [] op \in {"add", "mul", "inv", "neg", "not", "and", "or"}
                                                   -> ArithmeticTerms(op, old, new)
    [] op \in {"assert", "asserteq", "eq"}         -> EqualityTerms(op, old, new)
    [] op = "cmp"                                  -> CmpTerms(old, new)
    [] op = "binacc"                               -> BinAccTerms(old, new)
    [] op \in {"choose", "choose2", "cswap2"}      -> ConditionalTerms(op, old, new)
    [] op = "rescr"                    -> RescueTerms(old, new, step % RescueCycle)
    [] op \in {"begin", "noop"}        -> Terms(CopyTerms(old, new, 0), NoAux)

Satisfied(terms) ==
  /\ \A i \in DOMAIN terms.stack : terms.stack[i] = 0
  /\ \A i \in DOMAIN terms.aux : terms.aux[i] = 0

(* registers an operation fills with values from outside the trace: their  *)
(* constraints are elsewhere, or there are none *)
Free(op) == CASE op \in {"push", "read"} -> 1 [] op = "read2" -> 2 [] OTHER -> 0

(* the flag enforce_constraints multiplies the terms of an operation with *)
FlagOf(flags, op) ==
  CASE op = "begin"          -> flags.begin
    [] op = "noop"           -> flags.noop
    [] op \in DOMAIN HdIndex -> flags.hd[HdIndex[op]]
    [] op \in DOMAIN LdIndex -> flags.ld[LdIndex[op]]

(* enforce_constraints: the values of the auxiliary constraints and of the *)
(* first stackDepth registers                                              *)
StackEvaluation(flags, old, new, step, stackDepth) ==
  LET active == {op \in Operations : FlagOf(flags, op) # 0}
      terms == [op \in active |-> TermsOf(op, old, new, step)]
      aux(i) == [op \in active |-> FlagOf(flags, op) * terms[op].aux[i]]
      stack(i) == [op \in active |-> FlagOf(flags, op) * terms[op].stack[i]]
  IN [aux   |-> [i \in 1..2 |-> SumFunction(aux(i)) % Modulus],
      stack |-> [i \in 0..(stackDepth - 1) |-> SumFunction(stack(i)) % Modulus]]
=============================================================================
