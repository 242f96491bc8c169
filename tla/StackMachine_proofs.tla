------------------------- MODULE StackMachine_proofs -------------------------
(***************************************************************************)
(* The stack is well-formed whatever instructions it is asked for, in any  *)
(* order, for every field, limit on the depth and length of the trace; it  *)
(* implements the list of StackSpec; and what it does to its registers is  *)
(* what the constraints of each operation accept, and nothing else.        *)
(***************************************************************************)
EXTENDS ConstrainedStack, Stack_proofs

LEMMA MachineInvariant == MachineSpec => []StackOK
  <1>1. MachineInit => StackOK
    BY MachineAssumption, StackInitOK DEF MachineInit
  <1>2. StackOK /\ [MachineNext]_stackVars => StackOK'
    <2> SUFFICES ASSUME StackOK, [MachineNext]_stackVars
                 PROVE  StackOK'
      OBVIOUS
    <2>1. ASSUME NEW i \in Instructions, Perform1(i)
          PROVE  StackOK'
      BY <2>1, MachineAssumption, ExecuteOK DEF Perform1
    <2>2. CASE UNCHANGED stackVars
      BY <2>2 DEF stackVars, StackOK, StackTypeOK, FreeRegistersAreZero, RegistersSuffice
    <2> QED BY <2>1, <2>2 DEF MachineNext
  <1> QED BY <1>1, <1>2, PTL DEF MachineSpec

(* The registers hold field elements, at most MaxStackDepth of them. *)
THEOREM StackTypeCorrect == MachineSpec => []StackTypeOK
  <1>1. StackOK => StackTypeOK
    BY DEF StackOK
  <1> QED BY <1>1, MachineInvariant, PTL

(* Every register above the top of the stack holds 0. *)
THEOREM FreeRegistersStayZero == MachineSpec => []FreeRegistersAreZero
  <1>1. StackOK => FreeRegistersAreZero
    BY DEF StackOK
  <1> QED BY <1>1, MachineInvariant, PTL

(* No value of the stack lies outside the registers that make the trace. *)
THEOREM TraceHasEveryValue == MachineSpec => []RegistersSuffice
  <1>1. StackOK => RegistersSuffice
    BY DEF StackOK
  <1> QED BY <1>1, MachineInvariant, PTL
-----------------------------------------------------------------------------
(* The initial stack is a list of public inputs. *)
LEMMA StartIsList == MachineInit => List!Init
  <1> SUFFICES ASSUME NEW in \in Inputs, StackInit(in.public, in.a, in.b, InitLength)
               PROVE  List!Init
    BY DEF MachineInit
  <1>1. /\ in.public \in Seq(Elements) /\ Len(in.public) <= MaxStackDepth
        /\ in.a \in Seq(Elements) /\ in.b \in Seq(Elements) /\ InitLength \in Nat \ {0}
    BY MachineAssumption
  <1>2. StackOK
    BY <1>1, StackInitOK
  <1>3. RowOK
    BY <1>2 DEF StackOK, StackTypeOK, RowOK
  <1>4. Items \in Seq(Elements) /\ Len(Items) <= MaxStackDepth
    BY <1>3, ItemsList DEF RowOK
  <1> QED BY <1>1, <1>4, SameArithmetic DEF List!Init, StackInit

(* The whole stack refines the list.  It starts as the list of the public  *)
(* inputs; and at every step of every run, for every field, round          *)
(* function, limit on the depth and set of instructions, the method that   *)
(* was called has, on the values it moved between registers and on the     *)
(* tapes, the effect its operation has on a list, at the place of the      *)
(* cycle of round constants that the step of the trace gives it, and is    *)
(* executed only where the list allows it.                                 *)
THEOREM StackIsList == MachineSpec => ImplementsList
  <1> DEFINE Step == \E i \in Instructions : List!Run(i.op, i.hint, stackStep % RescueCycle)
  <1>1. StackOK /\ [MachineNext]_stackVars => [Step]_<<Items, tapeA, tapeB>>
    <2> SUFFICES ASSUME StackOK, [MachineNext]_stackVars
                 PROVE  [Step]_<<Items, tapeA, tapeB>>
      OBVIOUS
    <2>1. ASSUME NEW i \in Instructions, Perform1(i)
          PROVE  Step
      <3>1. WellFormed(i.hint) /\ StackFault(i.op, i.hint) = "none" /\ Execute(i.op, i.hint)
        BY <2>1, MachineAssumption DEF Perform1
      <3>2. List!Run(i.op, i.hint, stackStep % RescueCycle)
        BY <3>1, ExecuteIsRun
      <3> QED BY <3>2
    <2>2. CASE UNCHANGED stackVars
      BY <2>2 DEF stackVars, Items
    <2> QED BY <2>1, <2>2 DEF MachineNext
  <1>2. MachineSpec => [][Step]_<<Items, tapeA, tapeB>>
    BY <1>1, MachineInvariant, PTL DEF MachineSpec
  <1>3. MachineSpec => List!Init
    BY StartIsList DEF MachineSpec
  <1> QED BY <1>2, <1>3 DEF ImplementsList
-----------------------------------------------------------------------------
(* every instruction of a run *)
LEMMA InstructionSettles ==
  ASSUME StackOK, NEW i \in Instructions, Perform1(i)
  PROVE  Settles(i.op, regs, regs', stackStep) /\ regs' \in Rows
  <1>1. /\ WellFormed(i.hint) /\ StackFault(i.op, i.hint) = "none"
        /\ Execute(i.op, i.hint) /\ Perform(i.op, i.hint)
    BY MachineAssumption DEF Perform1, Execute
  <1>2. RowOK /\ stackStep \in Nat
    BY DEF StackOK, StackTypeOK, RowOK
  <1>3. regs' \in Rows
    <2>1. StackOK'
      BY <1>1, ExecuteOK
    <2> QED BY <2>1 DEF StackOK, StackTypeOK, Rows
  <1> QED BY <1>1, <1>2, <1>3, OperationSettles

(* Whatever an operation does to a stack, its constraints accept, for      *)
(* every field, hash round and limit on the depth: the code of the stack   *)
(* and that of the constraints agree.                                      *)
THEOREM ConstraintsAcceptResults == MachineSpec => ResultSatisfiesConstraints
  <1> DEFINE Accepted == \A i \in Instructions : Perform1(i) =>
                           Satisfied(TermsOf(i.op, regs, regs', stackStep))
  <1>1. StackOK => Accepted
    BY InstructionSettles DEF Settles
  <1> QED BY <1>1, MachineInvariant, PTL DEF MachineSpec, ResultSatisfiesConstraints

(* The constraints of an operation settle every register that it does not  *)
(* fill from outside of the trace: another value in any one of them is     *)
(* refused.  For the bits of CMP and BINACC this takes that the power they *)
(* are multiplied with is not 0, which the code checks and no constraint   *)
(* of the operation does.                                                  *)
THEOREM ConstraintsDetermineResults == MachineSpec => ResultIsDetermined
  <1> DEFINE Determined == \A i \in Instructions : Perform1(i) =>
                             \A row \in Neighbours(i.op) :
                               ~ Satisfied(TermsOf(i.op, regs, row, stackStep))
  <1>1. StackOK => Determined
    <2> SUFFICES ASSUME StackOK, NEW i \in Instructions, Perform1(i), NEW row \in Neighbours(i.op)
                 PROVE  ~ Satisfied(TermsOf(i.op, regs, row, stackStep))
      OBVIOUS
    <2>1. Settles(i.op, regs, regs', stackStep) /\ regs' \in Rows
      BY InstructionSettles
    <2>2. PICK j \in Slots, x \in Elements :
            j >= Free(i.op) /\ row = [regs' EXCEPT ![j] = x] /\ row # regs'
      BY DEF Neighbours
    <2>3. row \in Rows /\ row[j] = x /\ \A k \in Slots \ {j} : row[k] = regs'[k]
      BY <2>1, <2>2 DEF Rows
    <2>4. x # regs'[j]
      BY <2>1, <2>2, <2>3 DEF Rows
    <2> QED BY <2>1, <2>2, <2>3, <2>4 DEF Settles
  <1> QED BY <1>1, MachineInvariant, PTL DEF MachineSpec, ResultIsDetermined
=============================================================================
