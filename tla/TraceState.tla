------------------------------ MODULE TraceState ------------------------------
(***************************************************************************)
(* A row of the execution trace as the constraints see it: the bits of its *)
(* operations (processor/opcodes.rs) and the flags computed from them      *)
(* (stark/trace/trace_state.rs).                                           *)
(*                                                                         *)
(* A TraceState is reused for one row after another; flags are computed    *)
(* when they are first asked for and kept until the row changes.           *)
(***************************************************************************)
EXTENDS UserOps

(* FlowOps *)
FlowCode == [hacc |-> 0, begin |-> 1, tend |-> 2, fend |-> 3,
             loop |-> 4, wrap |-> 5, break |-> 6, void |-> 7]

(* ld_index and hd_index of UserOps *)
LdIndex ==
  [assert |-> 0, asserteq |-> 1, eq |-> 2, drop |-> 3, drop4 |-> 4, choose |-> 5,
   choose2 |-> 6, cswap2 |-> 7, add |-> 8, mul |-> 9, and |-> 10, or |-> 11,
   inv |-> 12, neg |-> 13, not |-> 14, read |-> 16, read2 |-> 17, dup |-> 18,
   dup2 |-> 19, dup4 |-> 20, pad2 |-> 21, swap |-> 24, swap2 |-> 25, swap4 |-> 26,
   roll4 |-> 27, roll8 |-> 28, binacc |-> 29]
HdIndex == [push |-> 0, cmp |-> 1, rescr |-> 2]

(* the codes of UserOps: 11_xxxxx, xx_11111, or all bits alike *)
UserCode(op) ==
  CASE op = "begin"           -> 0
    [] op = "noop"            -> 127
    [] op \in DOMAIN HdIndex  -> 32 * HdIndex[op] + 31
    [] op \in DOMAIN LdIndex  -> 96 + LdIndex[op]

(* set_op_bits of the decoder *)
OpBits(flow, user) ==
  [cf |-> [i \in 1..3 |-> Bit(FlowCode[flow], i - 1)],
   ld |-> [i \in 1..5 |-> Bit(UserCode(user), i - 1)],
   hd |-> [i \in 1..2 |-> Bit(UserCode(user), i + 4)]]

(* op_code *)
OpCode(bits) ==
  bits.ld[1] + 2 * bits.ld[2] + 4 * bits.ld[3] + 8 * bits.ld[4] + 16 * bits.ld[5]
    + 32 * bits.hd[1] + 64 * bits.hd[2]
-----------------------------------------------------------------------------
(* set_op_flags.  A flag is a product with a factor for each bit.          *)

Factor(bit, wanted) == IF wanted = 1 THEN bit ELSE 1 - bit

CfFlag(bits, n) ==
  Factor(bits.cf[1], Bit(n, 0)) * Factor(bits.cf[2], Bit(n, 1)) * Factor(bits.cf[3], Bit(n, 2))

HdFlag(bits, n) == Factor(bits.hd[1], Bit(n, 0)) * Factor(bits.hd[2], Bit(n, 1))

(* The second bit of the indexes 2, 6, 10, ... is taken from the bits of   *)
(* the flow operation.                                                     *)
LdFlag(bits, n) ==
  LET second == IF n % 4 = 2 THEN bits.cf[2] ELSE Factor(bits.ld[2], Bit(n, 1))
  IN Factor(bits.ld[1], Bit(n, 0)) * second * Factor(bits.ld[3], Bit(n, 2))
       * Factor(bits.ld[4], Bit(n, 3)) * Factor(bits.ld[5], Bit(n, 4))

(* ASSERT and PUSH have one more factor, a bit of the other bank *)
FlagsOf(bits) ==
  [cf    |-> [n \in 0..7 |-> CfFlag(bits, n)],
   ld    |-> [n \in 0..31 |-> LdFlag(bits, n) * (IF n = 0 THEN bits.hd[1] ELSE 1)],
   hd    |-> [n \in 0..3 |-> HdFlag(bits, n) * (IF n = 0 THEN bits.ld[1] ELSE 1)],
   begin |-> LdFlag(bits, 0) * HdFlag(bits, 0),
   noop  |-> LdFlag(bits, 31) * HdFlag(bits, 3)]
-----------------------------------------------------------------------------
NoFlags == [cf |-> [n \in 0..7 |-> 0], ld |-> [n \in 0..31 |-> 0],
            hd |-> [n \in 0..3 |-> 0], begin |-> 0, noop |-> 0]

(* TraceState::new, for a row of that many registers of each stack *)
NewState(row) == [row |-> row, flags |-> NoFlags, flagsSet |-> FALSE]

(* update_from_trace that forgets to have the flags computed again *)
UpdateKeepingFlags(state, row) == [state EXCEPT !.row = row]

(* update_from_trace *)
Update(state, row) == [state EXCEPT !.row = row, !.flagsSet = FALSE]

(* What cf_op_flags, ld_op_flags and hd_op_flags do before they return     *)
(* flags.  begin_flag and noop_flag do not.                                *)
WithFlags(state) ==
  IF state.flagsSet THEN state
  ELSE [state EXCEPT !.flags = FlagsOf(state.row.bits), !.flagsSet = TRUE]
=============================================================================
