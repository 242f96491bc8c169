--------------------------- MODULE ConstrainedStack ---------------------------
(***************************************************************************)
(* The operations of the stack against the constraints written for them:   *)
(* processor/stack/mod.rs and stark/constraints/stack, which share no code. *)
(*                                                                         *)
(* The constraints of an operation are taken alone, as if its flag were 1  *)
(* and all others 0.                                                       *)
(***************************************************************************)
EXTENDS StackMachine, StackConstraints

(* the rows that differ from the next one in a register that is not free *)
Neighbours(op) ==
  {[regs' EXCEPT ![i] = x] : i \in {j \in Slots : j >= Free(op)}, x \in Elements} \ {regs'}

(***************************************************************************)
(* Whatever an operation does to a stack, its own constraints accept: from *)
(* stacks of every size, shifted in from either side and cleared behind.   *)
(***************************************************************************)
ResultSatisfiesConstraints ==
  [][\A i \in Instructions : Perform1(i) =>
       Satisfied(TermsOf(i.op, regs, regs', stackStep))]_stackVars

(***************************************************************************)
(* The constraints of an operation leave no register of the next row out:  *)
(* with another value in any one of them, apart from those read from a     *)
(* tape or pushed, some constraint of the operation is not satisfied.      *)
(***************************************************************************)
ResultIsDetermined ==
  [][\A i \in Instructions : Perform1(i) =>
       \A row \in Neighbours(i.op) :
         ~ Satisfied(TermsOf(i.op, regs, row, stackStep))]_stackVars
=============================================================================
