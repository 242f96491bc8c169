-------------------------------- MODULE Stack --------------------------------
(***************************************************************************)
(* The user stack (processor/stack/mod.rs): the registers that hold it,    *)
(* the two tapes of secret inputs, and every user operation.               *)
(*                                                                         *)
(* regs is the row of the current step.  An operation writes some cells of *)
(* the next row; a cell it does not write keeps the 0 its register was     *)
(* allocated with.  A tape is the sequence of the values that are read     *)
(* next (the code keeps it reversed and pops from the end).                *)
(***************************************************************************)
EXTENDS UserOps

CONSTANTS
  MinStackDepth  \* MIN_STACK_DEPTH: registers allocated from the start

ASSUME StackAssumption ==
  /\ MinStackDepth \in Nat \ {0} /\ MaxStackDepth \in Nat
  /\ MinStackDepth <= MaxStackDepth

VARIABLES
  regs,        \* the row of user registers
  width,       \* registers.len()
  depth,
  maxDepth,    \* max_depth: registers that become part of the trace
  tapeA, tapeB,
  stackStep,   \* step
  stackLength  \* trace_length()

stackVars == <<regs, width, depth, maxDepth, tapeA, tapeB, stackStep, stackLength>>

Slots == 0..(MaxStackDepth - 1)

(* Stack::new *)
StackInit(public, secretA, secretB, length) ==
  /\ regs = [i \in Slots |-> IF i < Len(public) THEN public[i + 1] ELSE 0]
  /\ width = IF Len(public) > MinStackDepth THEN Len(public) ELSE MinStackDepth
  /\ depth = Len(public) /\ maxDepth = Len(public)
  /\ tapeA = secretA /\ tapeB = secretB
  /\ stackStep = 0 /\ stackLength = length

StackTop == regs[0]
-----------------------------------------------------------------------------
(* copy_state, shift_left and shift_right, after the top of the new row    *)
(* was written: top is what the operation puts in registers 0, 1, ...      *)

CopyState(top) ==
  /\ regs' = [i \in Slots |-> IF i < Len(top) THEN top[i + 1]
                              ELSE IF i < depth THEN regs[i] ELSE 0]
  /\ UNCHANGED <<depth, maxDepth, width>>

(* shift_left that does not clear the registers it vacates *)
ShiftLeftNoClear(top, start, n) ==
  /\ regs' = [i \in Slots |->
                IF i < Len(top) THEN top[i + 1]
                ELSE IF i + n >= start /\ i + n < depth THEN regs[i + n]
                ELSE regs[i]]
  /\ depth' = depth - n
  /\ UNCHANGED <<maxDepth, width>>

ShiftLeft(top, start, n) ==
  /\ regs' = [i \in Slots |->
                IF i < Len(top) THEN top[i + 1]
                ELSE IF i + n >= start /\ i + n < depth THEN regs[i + n] ELSE 0]
  /\ depth' = depth - n
  /\ UNCHANGED <<maxDepth, width>>

(* shift_right that adds a single register when the stack outgrows them *)
ShiftRightOneRegister(top) ==
  LET n == Len(top)
      deeper == depth + n > maxDepth
  IN /\ regs' = [i \in Slots |-> IF i < n THEN top[i + 1]
                                 ELSE IF i < depth + n THEN regs[i - n] ELSE 0]
     /\ depth' = depth + n
     /\ maxDepth' = IF deeper THEN maxDepth + 1 ELSE maxDepth
     /\ width' = IF maxDepth' > width THEN maxDepth' ELSE width

ShiftRight(top) ==
  LET n == Len(top)
      deeper == depth + n > maxDepth
  IN /\ regs' = [i \in Slots |-> IF i < n THEN top[i + 1]
                                 ELSE IF i < depth + n THEN regs[i - n] ELSE 0]
     /\ depth' = depth + n
     /\ maxDepth' = IF deeper THEN maxDepth + n ELSE maxDepth
     /\ width' = IF maxDepth' > width THEN maxDepth' ELSE width
-----------------------------------------------------------------------------
(* The assertions of the operations.                                       *)

HintedTapeA(op, hint) ==
  CASE op = "read" /\ hint.kind = "eq" -> <<EqWitness(regs[0], regs[1])>> \o tapeA
    [] op = "read2" /\ hint.kind = "pmpath" ->
         Interlaced(tapeA, regs[2], hint.arg) \o SubSeq(tapeA, hint.arg, Len(tapeA))
    [] op = "cmp" /\ hint.kind = "cmp" -> HighBitsFirst(regs[8], hint.arg) \o tapeA
    [] op = "binacc" /\ hint.kind = "rc" -> LowBitsFirst(regs[4], hint.arg) \o tapeA
    [] OTHER -> tapeA

HintedTapeB(op, hint) ==
  IF op = "cmp" /\ hint.kind = "cmp"
  THEN HighBitsFirst(regs[9], hint.arg) \o tapeB ELSE tapeB

(* The asserted length of a tape: pmpath needs a node for each bit. *)
TapeFault(op, hint) ==
  \/ /\ op = "read2" /\ hint.kind = "pmpath"
     /\ Len(tapeA) < hint.arg - 1 \/ Len(tapeB) < hint.arg - 1
  \/ ReadsA(op) /\ Len(HintedTapeA(op, hint)) = 0
  \/ ReadsB(op) /\ Len(HintedTapeB(op, hint)) = 0

(* the values an operation refuses *)
ValueFault(op, hint) ==
  CASE op = "assert"   -> regs[0] # 1
    [] op = "asserteq" -> regs[0] # regs[1]
    [] op = "choose"   -> ~ IsBinary(regs[2])
    [] op \in {"choose2", "cswap2"} -> ~ IsBinary(regs[4])
    [] op = "inv"      -> regs[0] = 0
    [] op = "not"      -> ~ IsBinary(regs[0])
    [] op \in {"and", "or"} -> ~ (IsBinary(regs[0]) /\ IsBinary(regs[1]))
    [] op = "eq"       -> /\ regs[1] # regs[2]
                          /\ regs[0] # Inv(Sub(regs[1], regs[2]))
    [] op = "cmp"      -> \/ ~ IsBinary(HintedTapeA(op, hint)[1])
                          \/ ~ IsBinary(HintedTapeB(op, hint)[1])
                          \/ ~ IsPowerOfTwo(regs[0])
    [] op = "binacc"   -> \/ ~ IsBinary(HintedTapeA(op, hint)[1])
                          \/ ~ IsPowerOfTwo(regs[2])
    [] OTHER           -> FALSE

(* the first assertion of execute(op, hint) that fails, or "none" *)
StackFault(op, hint) ==
  IF depth < Needed(op, hint) THEN "stack underflow"
  ELSE IF ~ ValidHint(op, hint) THEN "hint"
  ELSE IF TapeFault(op, hint) THEN "empty tape"
  ELSE IF depth + Added(op) > MaxStackDepth THEN "stack overflow"
  ELSE IF ValueFault(op, hint) THEN "value"
  ELSE "none"
-----------------------------------------------------------------------------
(* The operations, one for each op_* method.                               *)

OpNoop     == CopyState(<< >>)
OpAssert   == ShiftLeft(<< >>, 1, 1)
OpAssertEq == ShiftLeft(<< >>, 2, 2)

OpPush(hint) == ShiftRight(<<hint.arg>>)
OpRead(hint) == ShiftRight(<<HintedTapeA("read", hint)[1]>>)
OpRead2(hint) ==
  ShiftRight(<<HintedTapeB("read2", hint)[1], HintedTapeA("read2", hint)[1]>>)

OpDup  == ShiftRight(<<regs[0]>>)
OpDup2 == ShiftRight(<<regs[0], regs[1]>>)
OpDup4 == ShiftRight(<<regs[0], regs[1], regs[2], regs[3]>>)
OpPad2 == ShiftRight(<<0, 0>>)

OpDrop  == ShiftLeft(<< >>, 1, 1)
OpDrop4 == ShiftLeft(<< >>, 4, 4)

OpSwap  == CopyState(<<regs[1], regs[0]>>)
OpSwap2 == CopyState(<<regs[2], regs[3], regs[0], regs[1]>>)
OpSwap4 == CopyState(<<regs[4], regs[5], regs[6], regs[7],
                       regs[0], regs[1], regs[2], regs[3]>>)
OpRoll4 == CopyState(<<regs[3], regs[0], regs[1], regs[2]>>)
OpRoll8 == CopyState(<<regs[7], regs[0], regs[1], regs[2],
                       regs[3], regs[4], regs[5], regs[6]>>)

OpChoose  == ShiftLeft(<<IF regs[2] = 1 THEN regs[0] ELSE regs[1]>>, 3, 2)
OpChoose2 == ShiftLeft(IF regs[4] = 1 THEN <<regs[0], regs[1]>>
                                      ELSE <<regs[2], regs[3]>>, 6, 4)
OpCSwap2  == ShiftLeft(IF regs[4] = 1
                       THEN <<regs[2], regs[3], regs[0], regs[1]>>
                       ELSE <<regs[0], regs[1], regs[2], regs[3]>>, 6, 2)

OpAdd == ShiftLeft(<<Add(regs[0], regs[1])>>, 2, 1)
OpMul == ShiftLeft(<<Mul(regs[0], regs[1])>>, 2, 1)
OpInv == CopyState(<<Inv(regs[0])>>)
OpNeg == CopyState(<<Neg(regs[0])>>)
OpNot == CopyState(<<Sub(1, regs[0])>>)
OpAnd == ShiftLeft(<<IF regs[0] = 1 /\ regs[1] = 1 THEN 1 ELSE 0>>, 2, 1)
OpOr  == ShiftLeft(<<IF regs[0] = 1 \/ regs[1] = 1 THEN 1 ELSE 0>>, 2, 1)
OpEq  == ShiftLeft(<<IF regs[1] = regs[2] THEN 1 ELSE 0>>, 3, 2)

(* a comparison that accumulates its two operands in each other's register *)
OpCmpSwapped(hint) ==
  LET a == HintedTapeA("cmp", hint)[1]
      b == HintedTapeB("cmp", hint)[1]
      power == regs[0]
      next == IF power = 1 THEN Mul(power, Inv(2)) ELSE power \div 2
      notSet == Mul(Sub(1, regs[4]), Sub(1, regs[5]))
  IN CopyState(<<next, a, b, notSet,
                 Add(regs[4], Mul(Mul(a, Sub(1, b)), notSet)),
                 Add(regs[5], Mul(Mul(b, Sub(1, a)), notSet)),
                 Add(regs[6], Mul(a, power)),
                 Add(regs[7], Mul(b, power))>>)

(* one bit of a comparison of a and b; 4 and 5 remember its outcome *)
OpCmp(hint) ==
  LET a == HintedTapeA("cmp", hint)[1]
      b == HintedTapeB("cmp", hint)[1]
      power == regs[0]
      next == IF power = 1 THEN Mul(power, Inv(2)) ELSE power \div 2
      notSet == Mul(Sub(1, regs[4]), Sub(1, regs[5]))
  IN CopyState(<<next, a, b, notSet,
                 Add(regs[4], Mul(Mul(a, Sub(1, b)), notSet)),
                 Add(regs[5], Mul(Mul(b, Sub(1, a)), notSet)),
                 Add(regs[6], Mul(b, power)),
                 Add(regs[7], Mul(a, power))>>)

(* one bit of a binary decomposition, accumulated in register 3 *)
OpBinAcc(hint) ==
  LET bit == HintedTapeA("binacc", hint)[1]
  IN CopyState(<<bit, 0, Mul(regs[2], 2), Add(regs[3], Mul(bit, regs[2]))>>)

(* rescr with the round constants of the next step *)
OpRescRNextStep ==
  CopyState(RescueRound(<<regs[0], regs[1], regs[2], regs[3], regs[4], regs[5]>>,
                        (stackStep + 1) % RescueCycle))

OpRescR ==
  CopyState(RescueRound(<<regs[0], regs[1], regs[2], regs[3], regs[4], regs[5]>>,
                        stackStep % RescueCycle))
-----------------------------------------------------------------------------
(* The dispatch of execute. *)
Perform(op, hint) ==
  \/ op \in {"begin", "noop"} /\ OpNoop
  \/ op = "assert"   /\ OpAssert
  \/ op = "asserteq" /\ OpAssertEq
  \/ op = "push"     /\ OpPush(hint)
  \/ op = "read"     /\ OpRead(hint)
  \/ op = "read2"    /\ OpRead2(hint)
  \/ op = "dup"      /\ OpDup
  \/ op = "dup2"     /\ OpDup2
  \/ op = "dup4"     /\ OpDup4
  \/ op = "pad2"     /\ OpPad2
  \/ op = "drop"     /\ OpDrop
  \/ op = "drop4"    /\ OpDrop4
  \/ op = "swap"     /\ OpSwap
  \/ op = "swap2"    /\ OpSwap2
  \/ op = "swap4"    /\ OpSwap4
  \/ op = "roll4"    /\ OpRoll4
  \/ op = "roll8"    /\ OpRoll8
  \/ op = "choose"   /\ OpChoose
  \/ op = "choose2"  /\ OpChoose2
  \/ op = "cswap2"   /\ OpCSwap2
  \/ op = "add"      /\ OpAdd
  \/ op = "mul"      /\ OpMul
  \/ op = "inv"      /\ OpInv
  \/ op = "neg"      /\ OpNeg
  \/ op = "not"      /\ OpNot
  \/ op = "and"      /\ OpAnd
  \/ op = "or"       /\ OpOr
  \/ op = "eq"       /\ OpEq
  \/ op = "cmp"      /\ OpCmp(hint)
  \/ op = "binacc"   /\ OpBinAcc(hint)
  \/ op = "rescr"    /\ OpRescR

(* execute *)
Execute(op, hint) ==
  /\ stackStep' = stackStep + 1
  /\ stackLength' = IF stackStep + 1 >= stackLength THEN 2 * stackLength
                                                    ELSE stackLength
  /\ tapeA' = IF ReadsA(op) THEN Tail(HintedTapeA(op, hint)) ELSE tapeA
  /\ tapeB' = IF ReadsB(op) THEN Tail(HintedTapeB(op, hint)) ELSE tapeB
  /\ Perform(op, hint)

(* finalize_trace *)
FinalizeStack ==
  /\ stackStep' = stackLength - 1
  /\ UNCHANGED <<regs, width, depth, maxDepth, tapeA, tapeB, stackLength>>
-----------------------------------------------------------------------------
(***************************************************************************)
(* Registers and tapes hold field elements, so no operation leaves the     *)
(* field, not even Sub from 0 or Neg of 0; and the depth of Stack never    *)
(* exceeds MAX_STACK_DEPTH, which shift_right asserts.                     *)
(***************************************************************************)
StackTypeOK ==
  /\ regs \in [Slots -> Elements]
  /\ depth \in 0..MaxStackDepth
  /\ width \in Nat /\ maxDepth \in Nat
  /\ tapeA \in Seq(Elements) /\ tapeB \in Seq(Elements)
  /\ stackStep \in Nat /\ stackLength \in Nat \ {0}

(***************************************************************************)
(* Every register above the top of the stack holds 0.  get_stack_top of an *)
(* empty stack, the outputs taken from the last row and the constraints    *)
(* that compare shifted rows all rely on it.                               *)
(***************************************************************************)
FreeRegistersAreZero == \A i \in Slots : i >= depth => regs[i] = 0

(***************************************************************************)
(* Registers are allocated before the stack grows into them, and the ones  *)
(* into_register_traces keeps include every one that was ever in use: none *)
(* of the values on the stack is cut off from the trace.                   *)
(***************************************************************************)
RegistersSuffice == depth <= maxDepth /\ maxDepth <= width

(* The layout in lib.rs:156-160 has at most MaxStackDepth user registers.  *)
(* No trace has more of them.                                              *)
TraceFitsLayout == maxDepth <= MaxStackDepth
-----------------------------------------------------------------------------
(* the list of values the registers hold, and what operations promise of it *)
Items == [i \in 1..depth |-> regs[i - 1]]

List == INSTANCE StackSpec WITH items <- Items
=============================================================================
