------------------------------ MODULE Evaluator ------------------------------
(***************************************************************************)
(* From the execution of a program to the evaluation of its constraints:   *)
(* execute in lib.rs, TraceTable::new, the loop over the trace in          *)
(* stark/prover.rs and stark/constraints/evaluator.rs.                     *)
(*                                                                         *)
(* The processor records a row of the trace with every step it takes; when *)
(* it is done the rows become a table, and the constraints are evaluated   *)
(* on each row and the next.  Only rows of the trace are evaluated: the    *)
(* points between them, where the code interpolates, are left out.         *)
(***************************************************************************)
EXTENDS Processor, DecoderConstraints

CONSTANTS
  MinContextDepth,   \* MIN_CONTEXT_DEPTH
  MinLoopDepth,      \* MIN_LOOP_DEPTH
  MaxRegisterCount,  \* MAX_REGISTER_COUNT
  NumOutputs         \* outputs asked for: no more than MAX_OUTPUTS

ASSUME EvaluatorAssumption ==
  /\ MinContextDepth \in Nat \ {0} /\ MinLoopDepth \in Nat \ {0}
  /\ MaxRegisterCount \in Nat
  /\ NumOutputs \in 0..MinStackDepth
  /\ MinStackDepth >= 8 \* the constraints name eight registers
  \* the shortest program, a cycle and the merging of its hash, is no less than a trace
  /\ IsPowerOfTwo(MinTraceLength) /\ MinTraceLength <= 2 * CycleLength - 2
  \* with all the registers there can be; maxDepth may exceed its limit by three
  /\ 15 + MaxContextDepth + MaxLoopDepth + MaxStackDepth + 3 < MaxRegisterCount

ASSUME BeginAssumption == BeginsOnce(BlockLists, RootLists)

VARIABLES
  public,         \* the public inputs
  trace,          \* the rows recorded so far
  stage,          \* "execute", "evaluate", "proved" or "rejected"
  rejection,      \* the assertion that failed
  at,             \* rows evaluated
  current, next   \* the two TraceStates of prove

proverVars == <<public, trace, stage, rejection, at, current, next>>

Greater(m, n) == IF m > n THEN m ELSE n

(* the row of the current step, once its operation is known *)
RowNow(op) ==
  [counter |-> opCounter, sponge |-> sponge, bits |-> OpBits(op.flow, op.user),
   ctx |-> ctxStack, loop |-> loopStack, user |-> regs]

(* a register copied too few *)
StackRegistersOneShort(row, count, minimum, zero) ==
  [i \in 0..(Greater(count, minimum) - 1) |->
     IF i + 1 < count /\ i < Len(row) THEN row[i + 1] ELSE zero]

(* the registers of a stack in a row: rows from before a register was      *)
(* added hold 0 in it, and there are never fewer than minimum              *)
StackRegisters(row, count, minimum, zero) ==
  [i \in 0..(Greater(count, minimum) - 1) |->
     IF i < count /\ i < Len(row) THEN row[i + 1] ELSE zero]

(* a row of the table: into_register_traces drops the outermost context    *)
(* and the user registers that were never in use                           *)
TableRow(row) ==
  [row EXCEPT
     !.ctx  = StackRegisters(@, MaxCtxStackDepth, MinContextDepth, ZeroDigest),
     !.loop = StackRegisters(@, MaxLoopStackDepth, MinLoopDepth, ZeroDigest),
     !.user = StackRegisters([i \in 1..MaxStackDepth |-> row.user[i - 1]], maxDepth,
                             MinStackDepth, 0)]

Row(n) == TableRow(trace[n])
LastRow == Row(Len(trace))

EvaluatorInit ==
  /\ ProcessorInit
  /\ public = [i \in 1..depth |-> regs[i - 1]]
  /\ trace = << >> /\ stage = "execute" /\ rejection = "none" /\ at = 0
  /\ current = NewState(<< >>) /\ next = NewState(<< >>)
-----------------------------------------------------------------------------
(* A step of the processor completes the row it starts from; finalize_trace *)
(* completes that row and all the rows behind it.                           *)
Record ==
  /\ stage = "execute" /\ pc # "done" /\ fault = "none"
  /\ Step
  /\ trace' = CASE fault' # "none"        -> trace
                [] pc = "finalize"       -> trace \o [i \in 1..(traceLength - step) |-> RowNow(opBits')]
                [] OTHER                 -> Append(trace, RowNow(opBits'))
  /\ UNCHANGED <<public, stage, rejection, at, current, next>>

(* the assertions of TraceTable::new *)
RegisterCount == 15 + MaxCtxStackDepth + MaxLoopStackDepth + maxDepth

TableFault ==
  CASE MaxCtxStackDepth > MaxContextDepth -> "context depth"
    [] MaxLoopStackDepth > MaxLoopDepth   -> "loop depth"
    [] maxDepth = 0                       -> "no user register"
    [] RegisterCount >= MaxRegisterCount  -> "register count"
    [] ~ IsPowerOfTwo(traceLength)        -> "trace length"
    [] stackLength # traceLength          -> "trace length"
    [] OTHER                              -> "none"

(* those execute makes of the last row *)
ExecuteFault ==
  CASE LastRow.counter < MinTraceLength               -> "operations"
    [] Digest(LastRow.sponge) # ProgramHash(root)     -> "program hash"
    [] OTHER                                          -> "none"

(* execute, between the call of the processor and the call of prove *)
BuildTable ==
  /\ stage = "execute" /\ pc = "done"
  /\ rejection' = IF TableFault # "none" THEN TableFault ELSE ExecuteFault
  /\ stage' = IF rejection' = "none" THEN "evaluate" ELSE "rejected"
  /\ UNCHANGED <<vars, public, trace, at, current, next>>
-----------------------------------------------------------------------------
IsZero(f) == \A i \in DOMAIN f : f[i] = 0

(* evaluate_transition: the decoder asks for the flags of both states, the *)
(* stack for those of the current one *)
TransitionSatisfied(cur, nxt, rowStep) ==
  LET d == DecoderEvaluation(cur.row, nxt.row, cur.flags, nxt.flags, rowStep)
      s == StackEvaluation(cur.flags, cur.row.user, nxt.row.user, rowStep, maxDepth)
  IN /\ IsZero(d.bits) /\ IsZero(d.sponge) /\ d.image = 0 /\ IsZero(d.ctx) /\ IsZero(d.loop)
     /\ IsZero(s.aux) /\ IsZero(s.stack)

(* the loop of prove at the next row; behind the last row comes the first, *)
(* and should_evaluate_to_zero_at exempts that pair                        *)
EvaluateRow ==
  /\ stage = "evaluate"
  /\ at' = at + 1
  /\ current' = WithFlags(Update(current, Row(at + 1)))
  /\ next' = WithFlags(Update(next, Row(((at + 1) % Len(trace)) + 1)))
  /\ rejection' = IF at + 1 = Len(trace) \/ TransitionSatisfied(current', next', at)
                  THEN "none" ELSE "transition"
  /\ stage' = CASE rejection' # "none"      -> "rejected"
                [] at + 1 = Len(trace)      -> "proved"
                [] OTHER                    -> "evaluate"
  /\ UNCHANGED <<vars, public, trace>>

EvaluatorNext ==
  \/ Record \/ BuildTable \/ EvaluateRow
  \/ (stage \in {"proved", "rejected"} \/ fault # "none") /\ UNCHANGED <<vars, proverVars>>

EvaluatorSpec == EvaluatorInit /\ [][EvaluatorNext]_<<vars, proverVars>>
-----------------------------------------------------------------------------
(* evaluate_boundaries *)

InitialTerms(row) ==
  <<row.counter>>
  \o [i \in 1..4 |-> Differ(Lane(row.sponge, i - 1), ZeroDigest)]
  \o row.bits.cf \o row.bits.ld \o row.bits.hd
  \o [i \in 1..Greater(MaxCtxStackDepth, MinContextDepth) |-> Differ(row.ctx[i - 1], ZeroDigest)]
  \o [i \in 1..Greater(MaxLoopStackDepth, MinLoopDepth) |-> Differ(row.loop[i - 1], ZeroDigest)]
  \o [i \in 1..Len(public) |-> Sub(row.user[i - 1], public[i])]

(* with the program hash, the count of operations and the outputs a        *)
(* verifier is given *)
FinalTerms(row, hash, count, outputs) ==
  LET ones(bits) == [i \in 1..Len(bits) |-> 1 - bits[i]]
  IN <<row.counter - count>>
     \o [i \in 1..2 |-> Differ(Lane(row.sponge, i - 1), Lane(hash, i - 1))]
     \o ones(row.bits.cf) \o ones(row.bits.ld) \o ones(row.bits.hd)
     \o [i \in 1..Greater(MaxCtxStackDepth, MinContextDepth) |-> Differ(row.ctx[i - 1], ZeroDigest)]
     \o [i \in 1..Greater(MaxLoopStackDepth, MinLoopDepth) |-> Differ(row.loop[i - 1], ZeroDigest)]
     \o [i \in 1..NumOutputs |-> Sub(row.user[i - 1], outputs[i])]

(* what execute returns as the outputs *)
Outputs == [i \in 1..NumOutputs |-> LastRow.user[i - 1]]
-----------------------------------------------------------------------------
(***************************************************************************)
(* Every trace the processor returns is accepted: the table can be built   *)
(* from its registers and every transition constraint is 0 on every row    *)
(* but the last.  The one exception is a program that never has anything   *)
(* on its stack, for which TraceTable::new finds no user register.         *)
(***************************************************************************)
EveryTraceAccepted ==
  \/ rejection = "none"
  \/ rejection = "no user register" /\ public = << >> /\ maxDepth = 0

(***************************************************************************)
(* The first and the last row satisfy the boundary constraints of the      *)
(* public inputs, of the program's hash as Program::new computes it and of *)
(* what is left on the list of values when the program ends: the outputs.  *)
(***************************************************************************)
BoundariesHold ==
  stage = "proved" =>
    /\ IsZero(InitialTerms(Row(1)))
    /\ IsZero(FinalTerms(LastRow, HashAcc(ZeroDigest, HashSeq(root), ZeroDigest),
                         opCounter, Outputs))
    /\ \A i \in 1..NumOutputs : Outputs[i] = IF i <= depth THEN regs[i - 1] ELSE 0

(***************************************************************************)
(* On every row the constraints of the row's own operation are enforced,   *)
(* as the comments of the enforce_ functions say: its flag is 1.           *)
(***************************************************************************)
OperationIsEnforced ==
  at > 0 => FlagOf(current.flags, Mnemonic(OpCode(current.row.bits))) = 1
=============================================================================
