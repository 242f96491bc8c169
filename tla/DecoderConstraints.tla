-------------------------- MODULE DecoderConstraints --------------------------
(***************************************************************************)
(* The transition constraints of the decoder                               *)
(* (stark/constraints/decoder): on the bits of the operation, on the       *)
(* operation sponge and on the context and loop stacks.                    *)
(*                                                                         *)
(* cur and next are rows: records of the operation counter, the sponge,    *)
(* the bits of the operation, and the stacks ctx, loop and user as         *)
(* functions from 0.  As in StackConstraints a value is 0 when its         *)
(* constraint is satisfied.                                                *)
(***************************************************************************)
EXTENDS Blocks, StackConstraints

(* register i of the sponge *)
Lane(s, i) ==
  CASE i = 0                                   -> Digest(s)
    [] i > 0 /\ s.rounds # << >>               -> <<i, s.lanes, s.rounds>>
    [] i \in 1..2 /\ s.rounds = << >>          -> s.lanes[i + 1]
    [] i = 3 /\ s.rounds = << >>               -> ZeroDigest

(* the operation with a given opcode *)
Mnemonic(code) == CHOOSE op \in Operations : UserCode(op) = code

(* MASKS: 0 on the steps of the cycle where an operation is allowed *)
PrefixMask(step) == IF step % CycleLength = CycleLength - 1 THEN 0 ELSE 1
CycleMask(step) == IF step % CycleLength = 0 THEN 0 ELSE 1
PushMask(step) == IF step % PushAlignment = 0 THEN 0 ELSE 1
-----------------------------------------------------------------------------
(* enforce_op_bits *)
OpBitTerms(cur, next, flags, nextFlags, step) ==
  LET bits == cur.bits.cf \o cur.bits.ld \o cur.bits.hd
      cf == [op \in DOMAIN FlowCode |-> flags.cf[FlowCode[op]]]
      cfSum == cur.bits.cf[1] + cur.bits.cf[2] + cur.bits.cf[3]
      ldProd == cur.bits.ld[1] * cur.bits.ld[2] * cur.bits.ld[3] * cur.bits.ld[4] * cur.bits.ld[5]
      hdProd == cur.bits.hd[1] * cur.bits.hd[2]
  IN [i \in 1..10 |-> bits[i] * bits[i] - bits[i]]
     \o <<(cur.counter + 1) * cf.hacc + cur.counter * (1 - cf.hacc) - next.counter,
          cur.counter * (1 - ldProd) * (1 - hdProd),
          cfSum * (1 - ldProd * hdProd),
          cf.void * (1 - nextFlags.cf[FlowCode.void]),
          (cf.begin + cf.loop + cf.wrap + cf.break) * PrefixMask(step)
            + (cf.tend + cf.fend) * CycleMask(step)
            + flags.hd[HdIndex.push] * PushMask(step)>>
-----------------------------------------------------------------------------
(* flow_ops.rs and sponge.rs.  A flow operation gives values to the four   *)
(* registers of the sponge, to the loop image, and to the registers of     *)
(* both stacks.                                                            *)

Flow(spongeTerms, image, ctx, loop) ==
  [sponge |-> spongeTerms, image |-> image, ctx |-> ctx, loop |-> loop]

(* the sponge expected of the next row *)
SpongeIs(next, lanes) == [i \in 1..4 |-> Differ(lanes[i], Lane(next.sponge, i - 1))]
SpongeKept(cur, next) == [i \in 1..4 |-> Differ(Lane(cur.sponge, i - 1), Lane(next.sponge, i - 1))]
Cleared == [i \in 1..4 |-> ZeroDigest]

ImageTerm(cur) == Differ(Digest(cur.sponge), cur.loop[0])
Kept(old, new) == CopyTerms(old, new, 0)
PushedHash(cur, next) ==
  Before(<<Differ(Digest(cur.sponge), next.ctx[0])>>, RightShiftTerms(cur.ctx, next.ctx, 1))
PoppedOff(old, new) == LeftShiftTerms(old, new, 1, 1, ZeroDigest)

BeginTerms(cur, next) ==
  Flow(SpongeIs(next, Cleared), 0, PushedHash(cur, next), Kept(cur.loop, next.loop))

(* TEND leaves the third register of the sponge free, FEND the second *)
TendTerms(cur, next) ==
  Flow(SpongeIs(next, <<cur.ctx[0], Digest(cur.sponge), Lane(next.sponge, 2), ZeroDigest>>),
       0, PoppedOff(cur.ctx, next.ctx), Kept(cur.loop, next.loop))

FendTerms(cur, next) ==
  Flow(SpongeIs(next, <<cur.ctx[0], Lane(next.sponge, 1), Digest(cur.sponge), ZeroDigest>>),
       0, PoppedOff(cur.ctx, next.ctx), Kept(cur.loop, next.loop))

LoopTerms(cur, next) ==
  Flow(SpongeIs(next, Cleared), 0, PushedHash(cur, next),
       RightShiftTerms(cur.loop, next.loop, 1))

WrapTerms(cur, next) ==
  Flow(SpongeIs(next, Cleared), ImageTerm(cur),
       Kept(cur.ctx, next.ctx), Kept(cur.loop, next.loop))

BreakTerms(cur, next) ==
  Flow(SpongeKept(cur, next), ImageTerm(cur),
       Kept(cur.ctx, next.ctx), PoppedOff(cur.loop, next.loop))

VoidTerms(cur, next) ==
  Flow(SpongeKept(cur, next), 0, Kept(cur.ctx, next.ctx), Kept(cur.loop, next.loop))

(* enforce_hacc: a round with the opcode of the row and, under PUSH, the   *)
(* value on top of the next stack.  It puts nothing on the two stacks.     *)
HaccTerms(cur, next, flags, step) ==
  LET value == Mul(next.user[0], flags.hd[HdIndex.push])
      after == ApplyRound(cur.sponge, Mnemonic(OpCode(cur.bits)), value, step)
  IN Flow([i \in 1..4 |-> Differ(Lane(after, i - 1), Lane(next.sponge, i - 1))], 0,
          [i \in DOMAIN cur.ctx |-> 0], [i \in DOMAIN cur.loop |-> 0])

FlowTerms(op, cur, next, flags, step) ==
  CASE op = "hacc"  -> HaccTerms(cur, next, flags, step)
    [] op = "begin" -> BeginTerms(cur, next)
    [] op = "tend"  -> TendTerms(cur, next)
    [] op = "fend"  -> FendTerms(cur, next)
    [] op = "loop"  -> LoopTerms(cur, next)
    [] op = "wrap"  -> WrapTerms(cur, next)
    [] op = "break" -> BreakTerms(cur, next)
    [] op = "void"  -> VoidTerms(cur, next)

(* Decoder::evaluate: the terms of each flow operation, multiplied by its  *)
(* flag and added up *)
DecoderEvaluation(cur, next, flags, nextFlags, step) ==
  LET flag(op) == flags.cf[FlowCode[op]]
      active == {op \in DOMAIN FlowCode : flag(op) # 0}
      terms == [op \in active |-> FlowTerms(op, cur, next, flags, step)]
      spongeTerm(i) == [op \in active |-> flag(op) * terms[op].sponge[i]]
      ctxTerm(i) == [op \in active |-> flag(op) * terms[op].ctx[i]]
      loopTerm(i) == [op \in active |-> flag(op) * terms[op].loop[i]]
  IN [bits   |-> OpBitTerms(cur, next, flags, nextFlags, step),
      sponge |-> [i \in 1..4 |-> SumFunction(spongeTerm(i))],
      image  |-> SumFunction([op \in active |-> flag(op) * terms[op].image]),
      ctx    |-> [i \in DOMAIN cur.ctx |-> SumFunction(ctxTerm(i))],
      loop   |-> [i \in DOMAIN cur.loop |-> SumFunction(loopTerm(i))]]
=============================================================================
