---------------------------- MODULE StackMachine ----------------------------
(***************************************************************************)
(* The stack on its own: whoever drives it may ask for any instruction in  *)
(* any order, as a program can, until one of its assertions fails.         *)
(***************************************************************************)
EXTENDS Stack

CONSTANTS
  Instructions,    \* the instructions [op, hint] that may be asked for
  Inputs,          \* records of public inputs and the two secret tapes
  InitLength,      \* init_trace_length
  MaxInstructions  \* bound on the length of a run

ASSUME MachineAssumption ==
  /\ \A i \in Instructions : WellFormed(i.hint)
  /\ \A in \in Inputs :
       /\ in.public \in Seq(Elements) /\ Len(in.public) <= MaxStackDepth
       /\ in.a \in Seq(Elements) /\ in.b \in Seq(Elements)
  /\ InitLength \in Nat \ {0}

MachineInit ==
  \E in \in Inputs : StackInit(in.public, in.a, in.b, InitLength)

Perform1(i) ==
  /\ stackStep < MaxInstructions
  /\ StackFault(i.op, i.hint) = "none"
  /\ Execute(i.op, i.hint)

MachineNext == \E i \in Instructions : Perform1(i)

MachineSpec == MachineInit /\ [][MachineNext]_stackVars
-----------------------------------------------------------------------------
(***************************************************************************)
(* The stack starts with the public inputs, and each of its methods, which *)
(* moves values between registers one by one, has on the list of values    *)
(* and on the tapes the effect of its operation, and fails only where the  *)
(* operation is undefined.                                                 *)
(***************************************************************************)
ImplementsList ==
  /\ List!Init
  /\ [][\E i \in Instructions : List!Run(i.op, i.hint, stackStep % RescueCycle)]_<<Items, tapeA, tapeB>>
=============================================================================
