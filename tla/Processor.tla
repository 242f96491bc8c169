------------------------------ MODULE Processor ------------------------------
(***************************************************************************)
(* The processor (processor/mod.rs): the interpreter that walks the block  *)
(* tree of a program and drives the decoder and the stack in lockstep, one *)
(* row of the execution trace at a time.                                   *)
(*                                                                         *)
(* calls is the recursion of execute_blocks made explicit: a frame is a    *)
(* control block that is being executed, which of its block lists, and the *)
(* index of the current block in that list; the innermost is the last.  pc *)
(* is the place in the code and k a loop counter.  Each action is one call *)
(* of the decoder and the call of stack.execute that follows it.           *)
(***************************************************************************)
EXTENDS Decoder, Stack, FiniteSets

CONSTANT ProgramInputs  \* records of public inputs and the two secret tapes

(* ProgramInputs::new.  MAX_PUBLIC_INPUTS is no more than MAX_STACK_DEPTH. *)
ValidInputs(in) ==
  /\ in.public \in Seq(Elements) /\ Len(in.public) <= MaxStackDepth
  /\ in.a \in Seq(Elements) /\ in.b \in Seq(Elements)
  /\ Len(in.a) >= Len(in.b)

ASSUME InputsAssumption == \A in \in ProgramInputs : ValidInputs(in)

ASSUME HintsAssumption == HintsGiven(BlockLists)

VARIABLES
  root,   \* the body of program.root()
  calls,  \* frames [block, part, at]
  pc,
  k,      \* instructions of the span, or HACC rounds, executed so far
  fault   \* why the processor panicked

vars == <<decoderVars, stackVars, root, calls, pc, k, fault>>

Parts == {"group", "true", "false", "skip", "loop", "exit"}
Places == {"span", "block", "test", "tail", "end", "hacc", "finalize", "done"}

Faults ==
  {"none", "alignment", "push alignment", "op value", "context overflow",
   "context underflow", "loop overflow", "loop underflow", "loop image",
   "condition", "stack underflow", "stack overflow", "hint", "empty tape", "value"}

Frame(block, part) == [block |-> block, part |-> part, at |-> 1]

(* the block list a frame executes *)
Body(f) ==
  CASE f.part \in {"group", "loop"} -> f.block.body
    [] f.part = "true"              -> f.block.t_branch
    [] f.part = "false"             -> f.block.f_branch
    [] f.part \in {"skip", "exit"}  -> f.block.skip

(* the hash close_block is given for the part that was not executed last *)
SiblingHash(f) ==
  CASE f.part = "true"  -> HashSeq(f.block.f_branch)
    [] f.part = "false" -> HashSeq(f.block.t_branch)
    [] f.part = "skip"  -> LoopBodyHash(f.block)
    [] f.part = "exit"  -> HashSeq(f.block.skip)
    [] OTHER            -> ZeroDigest

ClosesTrueBranch(f) == f.part \in {"group", "true", "exit"}

Top == calls[Len(calls)]
Outer == SubSeq(calls, 1, Len(calls) - 1)
Block == Body(Top)[Top.at]

ProcessorInit ==
  /\ root \in RootLists
  /\ calls = <<Frame(Group(root), "group")>>
  /\ pc = "span" /\ k = 0 /\ fault = "none"
  /\ DecoderInit
  /\ \E in \in ProgramInputs :
       StackInit(in.public, in.a, in.b, MinTraceLength)
-----------------------------------------------------------------------------
FlowNoop == Execute("noop", NoHint)

UserNoop ==
  /\ DecodeOp("noop", 0)
  /\ Execute("noop", NoHint)

(* the end of a list noticed one block too late *)
ContinuePastEnd(f, i) ==
  IF i <= Len(Body(f)) THEN "block" ELSE IF f.part = "loop" THEN "test" ELSE "tail"

(* where a list continues when its block at index i is finished *)
Continue(f, i) ==
  IF i < Len(Body(f)) THEN "block" ELSE IF f.part = "loop" THEN "test" ELSE "tail"

Enter(part) ==
  /\ calls' = Append(calls, Frame(Block, part))
  /\ pc' = "span" /\ k' = 0

(* the assertions of the next decoder call, of the stack operation that    *)
(* goes with it, and the match on the condition around them                *)
PendingFault ==
  CASE pc = "span" ->
         LET instr == Block.code[k + 1]
             d == DecodeOpFault(instr.op, HintValue(instr.hint))
         IN IF d # "none" THEN d ELSE StackFault(instr.op, instr.hint)
    [] pc = "block" /\ Block.kind = "group" -> StartBlockFault
    [] pc = "block" /\ Block.kind = "switch" ->
         IF StartBlockFault # "none" THEN StartBlockFault
         ELSE IF IsBinary(StackTop) THEN "none" ELSE "condition"
    [] pc = "block" /\ Block.kind = "loop" ->
         IF ~ IsBinary(StackTop) THEN "condition"
         ELSE IF StackTop = 0 THEN StartBlockFault ELSE StartLoopFault
    [] pc = "test" ->
         IF IsBinary(StackTop) THEN IterationFault ELSE "condition"
    [] pc = "end" -> EndBlockFault
    [] OTHER -> "none"

(* a panic that is caught, and the call it came from made again *)
PanicRetried ==
  /\ PendingFault # "none"
  /\ UNCHANGED vars

(* A panic unwinds the interpreter: no trace is returned. *)
Panic ==
  /\ PendingFault # "none"
  /\ fault' = PendingFault
  /\ UNCHANGED <<decoderVars, stackVars, root, calls, pc, k>>

(* execute_span, the body of its loop *)
SpanOp ==
  /\ pc = "span" /\ PendingFault = "none"
  /\ LET instr == Block.code[k + 1]
     IN /\ DecodeOp(instr.op, HintValue(instr.hint))
        /\ Execute(instr.op, instr.hint)
  /\ IF k + 1 < Len(Block.code)
     THEN k' = k + 1 /\ UNCHANGED <<calls, pc>>
     ELSE /\ k' = 0
          /\ calls' = [calls EXCEPT ![Len(calls)].at = @ + 1]
          /\ pc' = Continue(Top, Top.at)
  /\ UNCHANGED <<root, fault>>

(* a span that follows another block at once *)
PadSpanWithoutNoop ==
  /\ pc = "block" /\ Block.kind = "span"
  /\ UNCHANGED <<decoderVars, stackVars>>
  /\ pc' = "span" /\ k' = 0
  /\ UNCHANGED <<root, calls, fault>>

(* execute_span, the NOOP before a span that is not the first of its list *)
PadSpan ==
  /\ pc = "block" /\ Block.kind = "span"
  /\ UserNoop
  /\ pc' = "span" /\ k' = 0
  /\ UNCHANGED <<root, calls, fault>>

StartGroup ==
  /\ pc = "block" /\ Block.kind = "group" /\ PendingFault = "none"
  /\ StartBlock /\ FlowNoop
  /\ Enter("group")
  /\ UNCHANGED <<root, fault>>

(* the branches of a switch swapped *)
StartSwitchSwapped ==
  /\ pc = "block" /\ Block.kind = "switch" /\ PendingFault = "none"
  /\ StartBlock /\ FlowNoop
  /\ Enter(IF StackTop = 1 THEN "false" ELSE "true")
  /\ UNCHANGED <<root, fault>>

StartSwitch ==
  /\ pc = "block" /\ Block.kind = "switch" /\ PendingFault = "none"
  /\ StartBlock /\ FlowNoop
  /\ Enter(IF StackTop = 1 THEN "true" ELSE "false")
  /\ UNCHANGED <<root, fault>>

SkipLoop ==
  /\ pc = "block" /\ Block.kind = "loop" /\ PendingFault = "none"
  /\ StackTop = 0
  /\ StartBlock /\ FlowNoop
  /\ Enter("skip")
  /\ UNCHANGED <<root, fault>>

(* execute_loop *)
EnterLoop ==
  /\ pc = "block" /\ Block.kind = "loop" /\ PendingFault = "none"
  /\ StackTop = 1
  /\ StartLoop(Image(Block)) /\ FlowNoop
  /\ Enter("loop")
  /\ UNCHANGED <<root, fault>>

RepeatLoop ==
  /\ pc = "test" /\ PendingFault = "none"
  /\ StackTop = 1
  /\ WrapLoop /\ FlowNoop
  /\ calls' = Append(Outer, Frame(Top.block, "loop"))
  /\ pc' = "span" /\ k' = 0
  /\ UNCHANGED <<root, fault>>

ExitLoop ==
  /\ pc = "test" /\ PendingFault = "none"
  /\ StackTop = 0
  /\ BreakLoop /\ FlowNoop
  /\ calls' = Append(Outer, Frame(Top.block, "exit"))
  /\ pc' = "span" /\ k' = 0
  /\ UNCHANGED <<root, fault>>

(* close_block, in three steps: the NOOP that completes the cycle, the     *)
(* operation that ends the block, and the rounds that merge its hash       *)
CompleteCycle ==
  /\ pc = "tail"
  /\ UserNoop
  /\ pc' = "end"
  /\ UNCHANGED <<root, calls, k, fault>>

CloseBlock ==
  /\ pc = "end" /\ PendingFault = "none"
  /\ EndBlock(SiblingHash(Top), ClosesTrueBranch(Top)) /\ FlowNoop
  /\ calls' = Outer
  /\ pc' = "hacc" /\ k' = 0
  /\ UNCHANGED <<root, fault>>

MergeRound ==
  /\ pc = "hacc"
  /\ UserNoop
  /\ IF k + 1 < HaccRounds
     THEN k' = k + 1 /\ UNCHANGED <<calls, pc>>
     ELSE /\ k' = 0
          /\ IF calls = << >>
             THEN pc' = "finalize" /\ UNCHANGED calls
             ELSE /\ calls' = [calls EXCEPT ![Len(calls)].at = @ + 1]
                  /\ pc' = Continue(Top, Top.at)
  /\ UNCHANGED <<root, fault>>

FinalizeTrace ==
  /\ pc = "finalize"
  /\ FinalizeDecoder /\ FinalizeStack
  /\ pc' = "done"
  /\ UNCHANGED <<root, calls, k, fault>>

Step ==
  \/ SpanOp \/ PadSpan
  \/ StartGroup \/ StartSwitch \/ SkipLoop
  \/ EnterLoop \/ RepeatLoop \/ ExitLoop
  \/ CompleteCycle \/ CloseBlock \/ MergeRound
  \/ FinalizeTrace \/ Panic

(* execute has returned, or has unwound with a panic *)
Ended == pc = "done" \/ fault # "none"

Next ==
  \/ fault = "none" /\ Step
  \/ Ended /\ UNCHANGED vars

Spec == ProcessorInit /\ [][Next]_vars

(* The interpreter is one thread that runs until it returns or panics. *)
FairSpec == Spec /\ WF_vars(Next)
-----------------------------------------------------------------------------
(* every block there is: the root of each program and the blocks of lists *)
BlockSet ==
  {Group(s) : s \in RootLists} \cup UNION {{s[i] : i \in 1..Len(s)} : s \in BlockLists}

Frames == [block : BlockSet, part : Parts, at : Nat \ {0}]

(***************************************************************************)
(* The interpreter only ever executes blocks of the program it was given,  *)
(* one frame per call of execute_blocks, and panics only with an assertion *)
(* of the decoder, the stack or the match on a condition.                  *)
(***************************************************************************)
TypeOK ==
  /\ root \in RootLists
  /\ calls \in Seq(Frames)
  /\ pc \in Places /\ k \in Nat /\ fault \in Faults
  /\ DecoderTypeOK
  /\ StackTypeOK

(***************************************************************************)
(* Where the interpreter is in the program, and in the cycle of round      *)
(* constants: the frames follow the nesting of the blocks, every list      *)
(* starts on the first step of a cycle, and everything else on the place   *)
(* that padding, HACC rounds and the lengths of spans were chosen for.     *)
(***************************************************************************)
Matches(f) ==
  f.block.kind = CASE f.part = "group"             -> "group"
                   [] f.part \in {"true", "false"} -> "switch"
                   [] OTHER                        -> "loop"

(* each frame executes the current block of the frame that contains it *)
CallsFollowTree ==
  /\ \A i \in 1..Len(calls) : Matches(calls[i])
  /\ calls # << >> => calls[1].block = Group(root)
  /\ \A i \in 1..(Len(calls) - 1) :
       /\ calls[i].at \in 2..Len(Body(calls[i]))
       /\ calls[i + 1].block = Body(calls[i])[calls[i].at]

(* the current block, and the indexes into it, fit the place in the code *)
AtPlace ==
  /\ calls = << >> => pc \in {"hacc", "finalize", "done"}
  /\ pc \in {"finalize", "done"} => calls = << >>
  /\ pc = "span" =>
       /\ Top.at \in 1..Len(Body(Top))
       /\ Block.kind = "span" /\ k < Len(Block.code)
  /\ pc = "block" => Top.at \in 2..Len(Body(Top))
  /\ pc \in {"test", "tail", "end"} =>
       /\ Top.at = Len(Body(Top)) + 1
       /\ pc = "test" <=> Top.part = "loop"
  /\ pc = "hacc" =>
       /\ k < HaccRounds
       /\ calls # << >> => Top.at \in 2..Len(Body(Top)) /\ Block.kind # "span"

(* the step of its cycle each place in the code is executed at *)
PlaceInCycle ==
  CASE pc = "span" -> k % CycleLength
    [] pc = "end"  -> 0
    [] pc = "hacc" -> k + 1
    [] OTHER       -> CycleLength - 1

Alignment == pc # "done" => step % CycleLength = PlaceInCycle

ControlInvariant == CallsFollowTree /\ AtPlace /\ Alignment

-----------------------------------------------------------------------------
(* What the registers must hold, as a function of where the interpreter is *)

(* the sponge a block list starts from: the skip block at the exit of a    *)
(* loop is hashed behind the last iteration of the body                    *)
Base(f) ==
  IF f.part = "exit" THEN PrefixState[f.block.body][Len(f.block.body)] ELSE ZeroSponge

(* the sponge when the first n blocks of the frame's list are finished *)
Absorbed(f, n) ==
  CASE n = 0           -> Base(f)
    [] f.part = "exit" -> AbsorbCode(Base(f), LoopSkipBlock.code, CycleLength - 1)
    [] OTHER           -> PrefixState[Body(f)][n]

(* the sponge before the first instruction of the frame's current span *)
SpanStart(f) ==
  IF f.at = 1 THEN Base(f)
  ELSE ApplyRound(Absorbed(f, f.at - 1), "noop", 0, CycleLength - 1)

(* the block whose hash is being merged, and the hash it is merged into *)
Closing == IF calls = << >> THEN Group(root) ELSE Block
Suspended(f) == Digest(Absorbed(f, f.at - 1))
MergeTarget == IF calls = << >> THEN ZeroDigest ELSE Suspended(Top)

Merging(n) ==
  [lanes  |-> <<MergeTarget, BlockHash(Closing)[1], BlockHash(Closing)[2]>>,
   rounds |-> [i \in 1..n |-> Round("noop", 0, i)]]

(***************************************************************************)
(* At every step of a span and at every boundary between blocks the sponge *)
(* holds the hash, computed from the tree, of exactly the blocks finished  *)
(* so far in the innermost block list.  However often a loop was repeated, *)
(* and whichever branch was taken, the sponge is the same.                 *)
(***************************************************************************)
SpongeTracksProgram ==
  /\ pc = "span" => sponge = AbsorbCode(SpanStart(Top), Block.code, k)
  /\ pc \in {"block", "test", "tail"} => sponge = Absorbed(Top, Top.at - 1)
  /\ pc = "end" =>
       sponge = ApplyRound(Absorbed(Top, Top.at - 1), "noop", 0, CycleLength - 1)
  /\ pc = "hacc" => sponge = Merging(k)
  /\ pc \in {"finalize", "done"} => sponge = Merging(HaccRounds)

(***************************************************************************)
(* The hash in the last row is the hash of the program: what execute in    *)
(* lib.rs asserts of every trace before it proves it.                      *)
(***************************************************************************)
ProgramHashMatches == pc = "done" => Digest(sponge) = ProgramHash(root)

(***************************************************************************)
(* The context stack holds the hashes of the suspended blocks, innermost   *)
(* first, above zeros; so the register into_register_traces drops, the     *)
(* last, is "always 0" (decoder/mod.rs:148).                               *)
(***************************************************************************)
ContextIsSuspendedHashes ==
  LET n == Len(calls)
  IN /\ ctxDepth = n /\ n <= Len(ctxStack)
     /\ \A i \in 1..(n - 1) : ctxStack[n - i] = Suspended(calls[i])
     /\ \A i \in 1..Len(ctxStack) : i >= n => ctxStack[i] = ZeroDigest

(***************************************************************************)
(* The loop stack holds the images of the loops that are being iterated,   *)
(* innermost first, whatever other blocks are open between them.           *)
(***************************************************************************)
LoopFrames(n) == {i \in 1..n : calls[i].part = "loop"}

LoopStackIsActiveImages ==
  /\ loopDepth = Cardinality(LoopFrames(Len(calls))) /\ loopDepth <= Len(loopStack)
  /\ \A i \in LoopFrames(Len(calls)) :
       loopStack[loopDepth + 1 - Cardinality(LoopFrames(i))] = Image(calls[i].block)

(***************************************************************************)
(* The alignment the decoder asserts always holds, its stacks never        *)
(* underflow, no PUSH is misplaced, no other operation has a value, and an *)
(* iteration always hashes to the image of its loop: those assertions      *)
(* never fail, whatever the program.                                       *)
(***************************************************************************)
DecoderAccepts ==
  PendingFault \notin {"alignment", "push alignment", "op value",
                       "context underflow", "loop underflow", "loop image"}

(***************************************************************************)
(* The instructions that make a branch provable, ASSERT at the head of a   *)
(* branch taken on 1 and NOT ASSERT of one taken on 0, agree with the      *)
(* condition the interpreter looked at: they never reject it.  Only on an  *)
(* empty stack, whose top register reads as 0, they underflow.             *)
(***************************************************************************)
Guards(part) ==
  CASE part \in {"true", "loop"} -> 1
    [] part = "group"            -> 0
    [] OTHER                     -> 2

GuardsAgreeWithCondition ==
  pc = "span" /\ Top.at = 1 /\ k < Guards(Top.part) =>
    \/ PendingFault = "none"
    \/ PendingFault = "stack underflow" /\ depth = 0

(***************************************************************************)
(* Decoder and stack, which grow their traces independently, stay on the   *)
(* same row of traces of the same length, and that is the least power of   *)
(* two times the minimum that holds every row.                             *)
(***************************************************************************)
TracesInLockstep ==
  /\ stackStep = step /\ stackLength = traceLength
  /\ step < traceLength
  /\ traceLength = MinTraceLength \/ traceLength <= 2 * step

(***************************************************************************)
(* The trace ends in a VOID row, whether or not rows were left to fill,    *)
(* and no row before it is VOID.                                           *)
(***************************************************************************)
VoidOnlyAtEnd == opBits.flow = "void" <=> pc = "done"

(***************************************************************************)
(* Execution ends for every program whose loops take their condition from  *)
(* a tape: tapes are finite, and reading an empty one panics.              *)
(***************************************************************************)
Termination == <>Ended
=============================================================================
