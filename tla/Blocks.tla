------------------------------- MODULE Blocks -------------------------------
(***************************************************************************)
(* Program blocks (programs/blocks/mod.rs) and their hashes                *)
(* (programs/hashing.rs, programs/mod.rs).                                 *)
(*                                                                         *)
(* A block is a Span of instructions, a Group, a Switch or a Loop.  A      *)
(* BlockList is the body of a control block.  An instruction is a pair of  *)
(* an operation and its execution hint.                                    *)
(***************************************************************************)
EXTENDS OpSponge

CONSTANTS
  PushAlignment,  \* PUSH_OP_ALIGNMENT
  BlockLists,     \* the bodies of all blocks of the programs considered
  RootLists,      \* those that are the body of a program's root Group
  PrefixState     \* PrefixState[s][n]: the sponge after the first n blocks of s

ASSUME AlignmentAssumption ==
  PushAlignment \in Nat \ {0} /\ CycleLength % PushAlignment = 0

NoHint == [kind |-> "none", arg |-> 0]
PushValue(v) == [kind |-> "value", arg |-> v]

(* OpHint::value *)
HintValue(hint) == IF hint.kind = "value" THEN hint.arg ELSE 0

Instr(op) == [op |-> op, hint |-> NoHint]
PushInstr(v) == [op |-> "push", hint |-> PushValue(v)]
Span(code) == [kind |-> "span", code |-> code]
Group(body) == [kind |-> "group", body |-> body]
Switch(t, f) == [kind |-> "switch", t_branch |-> t, f_branch |-> f]

(* LOOP_SKIP_BLOCK fills one cycle but its last slot; LOOP_BLOCK_SUFFIX    *)
(* is the same with the slot filled.                                       *)
LoopSkipBlock ==
  Span([i \in 1..(CycleLength - 1) |->
          Instr(CASE i = 1 -> "not" [] i = 2 -> "assert" [] OTHER -> "noop")])

Loop(body) == [kind |-> "loop", body |-> body, skip |-> <<LoopSkipBlock>>]

-----------------------------------------------------------------------------
(* The assertions of the constructors.                                     *)

StartsWith(code, ops) ==
  /\ Len(code) >= Len(ops)
  /\ \A i \in 1..Len(ops) : code[i].op = ops[i]

(* Span::new *)
ValidSpan(code) ==
  /\ Len(code) % CycleLength = CycleLength - 1
  /\ \A i \in 1..Len(code) : code[i].op = "push" =>
       /\ (i - 1) % PushAlignment = 0
       /\ code[i].hint.kind = "value"

(* validate_block_list.  was_span starts TRUE and is only ever cleared, so *)
(* a Span is accepted anywhere behind the first control block.             *)
ValidBlockList(s, prefix) ==
  /\ Len(s) > 0
  /\ s[1].kind = "span" /\ StartsWith(s[1].code, prefix)
  /\ \A i \in 2..Len(s) : s[i].kind = "span" =>
       \E j \in 2..(i - 1) : s[j].kind # "span"

(* Span::new, Group::new, Switch::new and Loop::new *)
ValidBlock(b) ==
  CASE b.kind = "span"   -> ValidSpan(b.code)
    [] b.kind = "group"  -> ValidBlockList(b.body, << >>)
    [] b.kind = "switch" -> /\ ValidBlockList(b.t_branch, <<"assert">>)
                            /\ ValidBlockList(b.f_branch, <<"not", "assert">>)
    [] b.kind = "loop"   -> /\ ValidBlockList(b.body, <<"assert">>)
                            /\ b.skip = <<LoopSkipBlock>>

(* Program::new: the root starts with BEGIN *)
ValidRoot(s) == s[1].kind = "span" /\ s[1].code[1].op = "begin"

(* the block lists nested directly in a block *)
Nested(b) ==
  CASE b.kind = "span"   -> {}
    [] b.kind = "group"  -> {b.body}
    [] b.kind = "switch" -> {b.t_branch, b.f_branch}
    [] b.kind = "loop"   -> {b.body, b.skip}

(* Programs are built by the constructors alone: every block of every list *)
(* has passed them.                                                        *)
Constructed(lists, roots) ==
  /\ roots \subseteq lists
  /\ \A s \in lists :
       /\ ValidBlockList(s, << >>)
       /\ IsSequence(s)
       /\ \A i \in 1..Len(s) :
            /\ s[i].kind \in {"span", "group", "switch", "loop"}
            /\ s[i].kind = "span" => IsSequence(s[i].code)
            /\ ValidBlock(s[i])
            /\ Nested(s[i]) \subseteq lists
  /\ \A s \in roots : ValidRoot(s)

(* The assembler puts BEGIN at the head of a program, and has no token for *)
(* it elsewhere.                                                           *)
BeginsOnce(lists, roots) ==
  \A s \in lists : \A i \in 1..Len(s) :
    IF s[i].kind = "span"
    THEN \A j \in 1..Len(s[i].code) :
           s[i].code[j].op = "begin" => s \in roots /\ i = 1 /\ j = 1
    ELSE Nested(s[i]) \cap roots = {}

ASSUME BlocksAssumption == Constructed(BlockLists, RootLists)

-----------------------------------------------------------------------------
(* Hashing.                                                                *)

(* Span::hash: only PUSH brings its value into the hash. *)
OpValue(instr) == IF instr.op = "push" THEN HintValue(instr.hint) ELSE 0

(* the sponge after the first n instructions of a span *)
AbsorbCode(state, code, n) ==
  [state EXCEPT !.rounds =
     @ \o [i \in 1..n |-> Round(code[i].op, OpValue(code[i]), i - 1)]]

(* hash_seq(blocks, BLOCK_SUFFIX, BLOCK_SUFFIX_OFFSET) *)
HashSeq(s) ==
  Digest(ApplyRound(PrefixState[s][Len(s)], "noop", 0, CycleLength - 1))

(* Loop::image: hash_seq of the body with no suffix *)
Image(b) == Digest(PrefixState[b.body][Len(b.body)])

(* Loop::body_hash: the suffix is the code of the skip block and a NOOP. *)
LoopBodyHash(b) ==
  Digest(ApplyRound(AbsorbCode(PrefixState[b.body][Len(b.body)],
                               LoopSkipBlock.code, CycleLength - 1),
                    "noop", 0, CycleLength - 1))

(* get_hash of each kind of control block *)
BlockHash(b) ==
  CASE b.kind = "group"  -> <<HashSeq(b.body), ZeroDigest>>
    [] b.kind = "switch" -> <<HashSeq(b.t_branch), HashSeq(b.f_branch)>>
    [] b.kind = "loop"   -> <<LoopBodyHash(b), HashSeq(b.skip)>>

(* the loop of hash_seq: merge one more block into the state *)
AbsorbBlock(state, b) ==
  IF b.kind = "span"
  THEN AbsorbCode(ApplyRound(state, "noop", 0, CycleLength - 1),
                  b.code, Len(b.code))
  ELSE HashAcc(Digest(state), BlockHash(b)[1], BlockHash(b)[2])

(* PrefixState is the state of hash_seq at the head of its loop. *)
ASSUME HashAssumption ==
  \A s \in BlockLists :
    /\ \A n \in 1..Len(s) : IsSponge(PrefixState[s][n])
    /\ PrefixState[s][1] = AbsorbCode(ZeroSponge, s[1].code, Len(s[1].code))
    /\ \A n \in 2..Len(s) :
         PrefixState[s][n] = AbsorbBlock(PrefixState[s][n - 1], s[n])

(* Program::new: hash_acc(0, v0, v1) of the root group *)
ProgramHash(root) == Digest(HashAcc(ZeroDigest, HashSeq(root), ZeroDigest))
=============================================================================
