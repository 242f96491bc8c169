------------------------------- MODULE Decoder -------------------------------
(***************************************************************************)
(* The decoder (processor/decoder/mod.rs): the registers that record which *)
(* operations are executed, the running hash of the program and the two    *)
(* stacks that let blocks and loops nest.                                  *)
(*                                                                         *)
(* Each register is a column of the execution trace.  The variables hold   *)
(* the row of the current step: an operation reads the row of the previous *)
(* step and writes the next one, and a cell nothing writes keeps the 0 its *)
(* column was allocated with.  The bits of the operation are written one   *)
(* row late, so opBits is the row before the current one.                  *)
(*                                                                         *)
(* X_Fault is the assertion of X that fails first, or "none"; X itself is  *)
(* the rest of the function and assumes that none does.                    *)
(***************************************************************************)
EXTENDS Blocks

CONSTANTS
  MaxContextDepth,  \* MAX_CONTEXT_DEPTH
  MaxLoopDepth,     \* MAX_LOOP_DEPTH
  MinTraceLength    \* MIN_TRACE_LENGTH, the length the trace starts with

ASSUME DecoderAssumption ==
  /\ MaxContextDepth \in Nat \ {0}
  /\ MaxLoopDepth \in Nat
  /\ MinTraceLength \in Nat \ {0}

VARIABLES
  step,        \* index of the current row
  opCounter,   \* user operations executed so far
  sponge,      \* sponge registers
  opBits,      \* [flow, user]: the operation of the row before the current one
  ctxStack,    \* context stack registers
  ctxDepth,
  loopStack,   \* loop stack registers
  loopDepth,
  traceLength  \* rows allocated

decoderVars == <<step, opCounter, sponge, opBits, ctxStack, ctxDepth,
                 loopStack, loopDepth, traceLength>>

DecoderInit ==
  /\ step = 0
  /\ opCounter = 0
  /\ sponge = ZeroSponge
  /\ opBits = [flow |-> "none", user |-> "none"]
  /\ ctxStack = <<ZeroDigest>> /\ ctxDepth = 1
  /\ loopStack = << >> /\ loopDepth = 0
  /\ traceLength = MinTraceLength

(* Whether the current step is the given one of its cycle. *)
AtCycleStep(k) == step % CycleLength = k
-----------------------------------------------------------------------------
(* Register rows.                                                          *)

(* A register stack with one more value on top.  A register is added when  *)
(* the depth exceeds the number allocated so far.                          *)
Pushed(regs, depth, top) ==
  [i \in 1..(IF depth + 1 > Len(regs) THEN Len(regs) + 1 ELSE Len(regs)) |->
     IF i = 1 THEN top ELSE regs[i - 1]]

(* pop_context when the shift starts one register too late *)
PoppedOffByOne(regs) ==
  [i \in 1..Len(regs) |-> IF i > 1 /\ i < Len(regs) THEN regs[i + 1] ELSE regs[i]]

(* The top popped: the last register is not written. *)
Popped(regs) ==
  [i \in 1..Len(regs) |-> IF i < Len(regs) THEN regs[i + 1] ELSE ZeroDigest]

(* advance_step that doubles the trace when the last row is already taken *)
AdvanceStepTooLate(isUserOp) ==
  /\ step' = step + 1
  /\ traceLength' = IF step + 1 > traceLength THEN 2 * traceLength
                                             ELSE traceLength
  /\ opCounter' = IF isUserOp THEN opCounter + 1 ELSE opCounter

(* advance_step: the next row, doubling the trace when it is full *)
AdvanceStep(isUserOp) ==
  /\ step' = step + 1
  /\ traceLength' = IF step + 1 >= traceLength THEN 2 * traceLength
                                              ELSE traceLength
  /\ opCounter' = IF isUserOp THEN opCounter + 1 ELSE opCounter

SetOpBits(flow, user) == opBits' = [flow |-> flow, user |-> user]

CopyContextStack == UNCHANGED <<ctxStack, ctxDepth>>
CopyLoopStack == UNCHANGED <<loopStack, loopDepth>>

SaveContext ==
  /\ ctxStack' = Pushed(ctxStack, ctxDepth, Digest(sponge))
  /\ ctxDepth' = ctxDepth + 1

PopContext ==
  /\ ctxStack' = Popped(ctxStack)
  /\ ctxDepth' = ctxDepth - 1

SaveLoopImage(image) ==
  /\ loopStack' = Pushed(loopStack, loopDepth, image)
  /\ loopDepth' = loopDepth + 1

PopLoopImage ==
  /\ loopStack' = Popped(loopStack)
  /\ loopDepth' = loopDepth - 1
-----------------------------------------------------------------------------
(* the limit on the depth off by one *)
StartBlockFaultEarly ==
  CASE ~ AtCycleStep(CycleLength - 1) -> "alignment"
    [] ctxDepth + 1 >= MaxContextDepth -> "context overflow"
    [] OTHER                          -> "none"

(* start_block *)
StartBlockFault ==
  CASE ~ AtCycleStep(CycleLength - 1) -> "alignment"
    [] ctxDepth + 1 > MaxContextDepth -> "context overflow"
    [] OTHER                          -> "none"

StartBlock ==
  /\ AdvanceStep(FALSE)
  /\ SaveContext
  /\ CopyLoopStack
  /\ SetOpBits("begin", "noop")
  /\ sponge' = ZeroSponge

(* end_block *)
EndBlockFault ==
  CASE ~ AtCycleStep(0) -> "alignment"
    [] ctxDepth = 0     -> "context underflow"
    [] OTHER            -> "none"

(* end_block with the two branch hashes swapped *)
EndBlockSwapped(sibling, trueBranch) ==
  /\ AdvanceStep(FALSE)
  /\ PopContext
  /\ CopyLoopStack
  /\ SetOpBits(IF trueBranch THEN "tend" ELSE "fend", "noop")
  /\ sponge' = Load(ctxStack[1], sibling, Digest(sponge))

EndBlock(sibling, trueBranch) ==
  /\ AdvanceStep(FALSE)
  /\ PopContext
  /\ CopyLoopStack
  /\ SetOpBits(IF trueBranch THEN "tend" ELSE "fend", "noop")
  /\ sponge' = IF trueBranch
               THEN Load(ctxStack[1], Digest(sponge), sibling)
               ELSE Load(ctxStack[1], sibling, Digest(sponge))

(* start_loop *)
StartLoopFault ==
  CASE ~ AtCycleStep(CycleLength - 1) -> "alignment"
    [] ctxDepth + 1 > MaxContextDepth -> "context overflow"
    [] loopDepth + 1 > MaxLoopDepth   -> "loop overflow"
    [] OTHER                          -> "none"

StartLoop(image) ==
  /\ AdvanceStep(FALSE)
  /\ SaveContext
  /\ SaveLoopImage(image)
  /\ SetOpBits("loop", "noop")
  /\ sponge' = ZeroSponge

(* The assertions wrap_loop and break_loop share: what was hashed since    *)
(* the iteration started is the image on top of the loop stack.            *)
IterationFault ==
  CASE ~ AtCycleStep(CycleLength - 1)  -> "alignment"
    [] loopDepth = 0                   -> "loop underflow"
    [] Digest(sponge) # loopStack[1]   -> "loop image"
    [] OTHER                           -> "none"

(* wrap_loop that leaves the hash of the last iteration in the sponge *)
WrapLoopNoReset ==
  /\ AdvanceStep(FALSE)
  /\ CopyContextStack
  /\ CopyLoopStack
  /\ SetOpBits("wrap", "noop")
  /\ UNCHANGED sponge

(* wrap_loop *)
WrapLoop ==
  /\ AdvanceStep(FALSE)
  /\ CopyContextStack
  /\ CopyLoopStack
  /\ SetOpBits("wrap", "noop")
  /\ sponge' = ZeroSponge

(* break_loop that leaves the image of the loop on the loop stack *)
BreakLoopNoPop ==
  /\ AdvanceStep(FALSE)
  /\ CopyContextStack
  /\ CopyLoopStack
  /\ SetOpBits("break", "noop")
  /\ UNCHANGED sponge

(* break_loop: the sponge is kept, the skip block follows in the same hash *)
BreakLoop ==
  /\ AdvanceStep(FALSE)
  /\ CopyContextStack
  /\ PopLoopImage
  /\ SetOpBits("break", "noop")
  /\ UNCHANGED sponge

(* decode_op: value is the hint's, 0 for every operation but PUSH *)
DecodeOpFault(op, value) ==
  CASE value # 0 /\ op # "push"                               -> "op value"
    [] value # 0 /\ op = "push" /\ step % PushAlignment # 0   -> "push alignment"
    [] OTHER                                                  -> "none"

DecodeOp(op, value) ==
  /\ AdvanceStep(TRUE)
  /\ CopyContextStack
  /\ CopyLoopStack
  /\ SetOpBits("hacc", op)
  /\ sponge' = ApplyRound(sponge, op, value, step)

(* finalize_trace that fills the trace behind the current row only *)
FinalizeDecoderBehind ==
  /\ IF step = traceLength - 1 THEN UNCHANGED opBits ELSE SetOpBits("void", "noop")
  /\ step' = traceLength - 1
  /\ UNCHANGED <<opCounter, sponge, ctxStack, ctxDepth, loopStack, loopDepth,
                 traceLength>>

(* finalize_trace: the last row and all rows behind it are VOID; the other *)
(* registers are copied to the end of the trace.                           *)
FinalizeDecoder ==
  /\ SetOpBits("void", "noop")
  /\ step' = traceLength - 1
  /\ UNCHANGED <<opCounter, sponge, ctxStack, ctxDepth, loopStack, loopDepth,
                 traceLength>>

(* What the registers of a row and the counters of Decoder hold. *)
DecoderTypeOK ==
  /\ step \in Nat /\ opCounter \in Nat /\ traceLength \in Nat \ {0}
  /\ IsSponge(sponge) /\ opBits = [flow |-> opBits.flow, user |-> opBits.user]
  /\ IsSequence(ctxStack) /\ ctxDepth \in Nat
  /\ IsSequence(loopStack) /\ loopDepth \in Nat

(* max_ctx_stack_depth, and the registers into_register_traces keeps: the  *)
(* outermost context is dropped because it is always 0.                    *)
MaxCtxStackDepth == Len(ctxStack) - 1
MaxLoopStackDepth == Len(loopStack)
=============================================================================
