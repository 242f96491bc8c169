------------------------- MODULE ProcessorRefinement -------------------------
(***************************************************************************)
(* The processor implements ProgramSemantics: with the trace, the hashes   *)
(* and the padding hidden, what it does to the stack and the tapes is what *)
(* the control blocks mean.                                                *)
(***************************************************************************)
EXTENDS Processor, Tasks

(* The sponge and RESCR repeat their round constants together: CYCLE_LENGTH *)
(* of the hasher is BASE_CYCLE_LENGTH.                                      *)
ASSUME RoundsAssumption == CycleLength % RescueCycle = 0

(* what is left when the current block of a frame is finished: the blocks  *)
(* after it, and for a loop the loop itself                                *)
After(f) ==
  BlockTasks(Body(f), f.at + 1) \o (IF f.part = "loop" THEN <<Task(f.block)>> ELSE << >>)

(* the same of several frames, from the innermost to the outermost *)
Pending(frames) ==
  LET after[n \in 0..Len(frames)] ==
        IF n = 0 THEN << >> ELSE After(frames[n]) \o after[n - 1]
  IN after[Len(frames)]

(* What is left of the current block.  A control block that is open is     *)
(* what the frames inside it stand for, until only its end is left.        *)
Current ==
  CASE pc = "span"  -> SpanTasks(Block, k + 1)
    [] pc = "block" -> <<Task(Block)>>
    [] OTHER        -> << >>

Todo == Current \o Pending(calls)

Outcome ==
  IF pc = "done" THEN "done" ELSE IF fault # "none" THEN fault ELSE "running"

Semantics == INSTANCE ProgramSemantics
  WITH items <- Items, todo <- Todo, outcome <- Outcome

(***************************************************************************)
(* Every step of the interpreter is a step of the structured program or a  *)
(* step that the program cannot tell: blocks are executed in the order and *)
(* as often as their conditions say, every instruction acts on the stack   *)
(* as its list semantics says, with the round constant of its place in its *)
(* span, and execution fails only for the reasons the program gives or     *)
(* because blocks nest too deep.                                           *)
(***************************************************************************)
ImplementsSemantics == Semantics!SemanticsSpec
=============================================================================
