------------------------------ MODULE OpSponge ------------------------------
(***************************************************************************)
(* The operation sponge: the running hash the VM keeps of the program it   *)
(* executes, and the same hash as Program::new computes it from the tree.  *)
(*                                                                         *)
(* The sponge is symbolic.  A state is the value of the registers it was   *)
(* last loaded with and the list of rounds applied since; nothing is       *)
(* cancelled or simplified.  Two computations that give the same symbolic  *)
(* state therefore give the same field elements, whatever the round        *)
(* function is, and two that differ could only agree by a hash collision.  *)
(* A round depends on the opcode, the value of the operation and the       *)
(* position in the cycle of round constants.                               *)
(***************************************************************************)
EXTENDS Integers, Sequences

CONSTANTS
  CycleLength,   \* BASE_CYCLE_LENGTH: round constants repeat after so many steps
  HaccRounds     \* HACC_NUM_ROUNDS: rounds that merge a block into its parent

(* HACC rounds, the operation that ends a block and the one slot left      *)
(* before the next block fill one cycle.                                   *)
ASSUME CycleAssumption ==
  /\ CycleLength \in Nat /\ CycleLength > 2
  /\ HaccRounds \in Nat /\ HaccRounds = CycleLength - 2

IsSequence(x) == x \in Seq({x[i] : i \in DOMAIN x})

(* A digest is the first register of a sponge; ZeroDigest is the field's 0 *)
ZeroDigest == << >>

(* set_sponge([a, b, c, 0]) *)
Load(a, b, c) == [lanes |-> <<a, b, c>>, rounds |-> << >>]

ZeroSponge == Load(ZeroDigest, ZeroDigest, ZeroDigest)

IsSponge(s) ==
  s = [lanes |-> s.lanes, rounds |-> s.rounds] /\ IsSequence(s.rounds)

(* The first register: what was loaded there, until a round mixes it. *)
Digest(s) == IF s.rounds = << >> THEN s.lanes[1] ELSE <<s.lanes, s.rounds>>

(* A hash that forgets where in the cycle an operation is executed. *)
RoundWithoutStep(op, value, step) == <<op, value, 0>>

Round(op, value, step) == <<op, value, step % CycleLength>>

ApplyRound(s, op, value, step) ==
  [s EXCEPT !.rounds = Append(@, Round(op, value, step))]

(* hash_acc: the parent's digest and the pair of a block, then NOOP rounds *)
(* at the steps after HACC_ROUND_OFFSET = 1.                               *)
HashAcc(parent, v0, v1) ==
  [lanes  |-> <<parent, v0, v1>>,
   rounds |-> [i \in 1..HaccRounds |-> Round("noop", 0, i)]]
=============================================================================
