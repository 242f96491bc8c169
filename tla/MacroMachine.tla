---------------------------- MODULE MacroMachine ----------------------------
(***************************************************************************)
(* What the instructions of the assembler do: the operations an            *)
(* instruction expands to, executed on the stack of StackSpec from some    *)
(* place in a span, against what docs/assembly.md says of the instruction. *)
(*                                                                         *)
(* The hints are aids for the prover and no part of the program's hash, so *)
(* an instruction is also executed without them, on tapes that hold        *)
(* whatever the prover likes.                                              *)
(***************************************************************************)
EXTENDS Macros
LOCAL INSTANCE SequencesExt

CONSTANTS
  MaxStackDepth,     \* MAX_STACK_DEPTH
  RescueCycle,       \* see UserOps
  RescueRound(_, _),
  Cases              \* [token, at, items, a, b, hinted]: what is executed,
                     \* behind how many operations, on what, and whether with
                     \* its hints

VARIABLES
  start,   \* the case executed
  code,    \* the operations of its token
  pc,      \* how many have been executed
  status,  \* "running", "done", or the reason an operation failed
  items, tapeA, tapeB

vars == <<start, code, pc, status, items, tapeA, tapeB>>

Machine == INSTANCE StackSpec

(* the operations a token adds to a span that has some already *)
Expansion(case) ==
  LET before == Emit(<< >>, Times(case.at, <<"noop">>))
      after == ParseOp(before, case.token).program
  IN SubSeq(after, case.at + 1, Len(after))

(* an operation without the hint that helps it *)
Unaided(instr) == IF instr.op = "push" THEN instr ELSE Instr(instr.op)

MacroInit ==
  \E case \in Cases :
    /\ start = case
    /\ code = [i \in 1..Len(Expansion(case)) |->
                 IF case.hinted THEN Expansion(case)[i] ELSE Unaided(Expansion(case)[i])]
    /\ pc = 0 /\ status = "running"
    /\ items = case.items /\ tapeA = case.a /\ tapeB = case.b

Current == code[pc + 1]

ExecuteOp ==
  /\ status = "running" /\ pc < Len(code)
  /\ Machine!Run(Current.op, Current.hint, (start.at + pc) % RescueCycle)
  /\ pc' = pc + 1
  /\ status' = IF pc' = Len(code) THEN "done" ELSE "running"
  /\ UNCHANGED <<start, code>>

FailOp ==
  /\ status = "running" /\ pc < Len(code)
  /\ Machine!Failure(Current.op, Current.hint) # "none"
  /\ status' = Machine!Failure(Current.op, Current.hint)
  /\ UNCHANGED <<start, code, pc, items, tapeA, tapeB>>

MacroNext == ExecuteOp \/ FailOp

MacroSpec == MacroInit /\ [][MacroNext]_vars
-----------------------------------------------------------------------------
(* The reference.                                                          *)

(* hasher::digest: at most four values, hashed to two *)
HashOf(values) ==
  LET zeros == [i \in 1..(6 - Len(values)) |-> 0]
      rounds[n \in 0..10] == IF n = 0 THEN Reverse(values \o zeros)
                             ELSE RescueRound(rounds[n - 1], n - 1)
  IN SubSeq(Reverse(rounds[10]), 1, 2)

(* compute_merkle_root of examples/merkle.rs: path is the leaf, its        *)
(* sibling and the nodes next to the way up to the root                    *)
MerkleRoot(path, index) ==
  LET root[n \in 2..Len(path)] ==
        LET below == IF n = 2 THEN path[1] ELSE root[n - 1]
        IN IF Bit(index, n - 2) = 0 THEN HashOf(below \o path[n])
                                    ELSE HashOf(path[n] \o below)
  IN root[Len(path)]

Name == start.token.name
N == Param(start.token.params)
Item(i) == start.items[i]
Items(first, last) == SubSeq(start.items, first, last)
Below(n) == SubSeq(start.items, n + 1, Len(start.items))
Truth(holds) == IF holds THEN 1 ELSE 0

(* the leaf and the nodes next to its way up: on both tapes, for smpath    *)
(* behind a bit on tape B each, for an unaided pmpath with one on tape A   *)
Path ==
  <<Reverse(Items(1, 2))>> \o
    [i \in 1..(N - 1) |->
       CASE Name = "smpath" -> <<start.a[2 * i], start.b[2 * i]>>
         [] start.hinted    -> <<start.a[i], start.b[i]>>
         [] OTHER           -> <<start.a[2 * i - 1], start.b[i]>>]

IndexOnTape ==
  LET weight[i \in 0..(N - 1)] ==
        IF i = 0 THEN 0 ELSE weight[i - 1] + start.b[2 * i - 1] * 2^(i - 1)
  IN weight[N - 1]

(* docs/assembly.md, "Instructions": the stack afterwards *)
Documented ==
  CASE Name = "push"   -> <<N>> \o start.items
    [] Name = "dup"    -> Items(1, N) \o start.items
    [] Name = "pad"    -> [i \in 1..N |-> 0] \o start.items
    [] Name = "pick"   -> <<Item(N + 1)>> \o start.items
    [] Name = "drop"   -> Below(N)
    [] Name = "swap"   -> Items(N + 1, 2 * N) \o Items(1, N) \o Below(2 * N)
    [] Name = "roll"   -> <<Item(N)>> \o Items(1, N - 1) \o Below(N)
    [] Name = "sub"    -> <<Sub(Item(2), Item(1))>> \o Below(2)
    [] Name = "div"    -> <<Mul(Item(2), Inv(Item(1)))>> \o Below(2)
    [] Name = "eq"     -> <<Truth(Item(1) = Item(2))>> \o Below(2)
    [] Name = "ne"     -> <<Truth(Item(1) # Item(2))>> \o Below(2)
    [] Name = "gt"     -> <<Truth(Item(1) > Item(2))>> \o Below(2)
    [] Name = "lt"     -> <<Truth(Item(1) < Item(2))>> \o Below(2)
    [] Name = "rc"     -> <<Truth(Item(1) < 2^N)>> \o Below(1)
    [] Name = "isodd"  -> <<Item(1) % 2>> \o Below(1)
    [] Name = "hash"   -> Reverse(HashOf(Reverse(Items(1, N)))) \o Below(N)
    [] Name = "smpath" ->
         Reverse(MerkleRoot(Path, IndexOnTape)) \o Below(2)
    [] Name = "pmpath" ->
         Reverse(MerkleRoot(Path, Item(3))) \o Below(3)

(* the operands on which it fails *)
DocumentedFailure ==
  CASE Name = "div"           -> Item(1) = 0
    [] Name \in {"gt", "lt"}  -> Item(1) >= 2^N \/ Item(2) >= 2^N
    [] Name = "isodd"         -> Item(1) >= 2^N
    [] Name = "pmpath"        -> Item(3) >= 2^(N - 1)
    [] OTHER                  -> FALSE

(* values it takes from each tape *)
TakenFromTapes ==
  CASE Name = "smpath" -> 2 * (N - 1)
    [] Name = "pmpath" -> N - 1
    [] OTHER           -> 0
-----------------------------------------------------------------------------
(***************************************************************************)
(* An instruction that completes has its documented effect on the whole    *)
(* stack: the operands are gone, nothing of what the macro put there is    *)
(* left, and what was below is as it was - wherever in a span it starts.   *)
(***************************************************************************)
EffectAsDocumented == status = "done" /\ start.hinted => items = Documented

(***************************************************************************)
(* With its hints it fails for the operands the documentation names (a     *)
(* value that does not fit in n bits, a division by 0) and for no others.  *)
(***************************************************************************)
FailsOnlyAsDocumented ==
  start.hinted =>
    /\ status \notin {"running", "done"} => DocumentedFailure
    /\ status = "done" => ~ DocumentedFailure

(***************************************************************************)
(* The values hints put on the tapes are used up: the program finds its    *)
(* own inputs there next.                                                  *)
(***************************************************************************)
HintsAreConsumed ==
  status = "done" /\ start.hinted =>
    /\ tapeA = SubSeq(start.a, TakenFromTapes + 1, Len(start.a))
    /\ tapeB = SubSeq(start.b, TakenFromTapes + 1, Len(start.b))

(***************************************************************************)
(* Without hints, whatever bits and inverses the tapes hold, an            *)
(* instruction fails or has the same effect: the checks the macro ends     *)
(* with leave no choice.  rc can also answer 0, never 1, wrongly.          *)
(***************************************************************************)
TapesDoNotMatter ==
  status = "done" /\ ~ start.hinted =>
    \/ items = Documented /\ ~ DocumentedFailure
    \/ Name = "rc" /\ items = <<0>> \o Below(1)
=============================================================================
