------------------------------ MODULE MCMerkle ------------------------------
(***************************************************************************)
(* Trees of sixteen leaves, deep enough for pairs to merge at two levels   *)
(* and shift the lists of nodes twice.                                     *)
(***************************************************************************)
EXTENDS Merkle

MCDepth == 4
MCPower == [d \in 0..5 |-> 2^d]
MCWrong == <<99>>

(* all leaves different, and leaves and subtrees equal to their neighbours *)
MCVectors == {[k \in 0..15 |-> <<k>>], [k \in 0..15 |-> <<(k \div 2) % 2>>]}

InOrder(S) == SelectSeq([k \in 1..16 |-> k - 1], LAMBDA x : x \in S)
InReverse(S) == SelectSeq([k \in 1..16 |-> 16 - k], LAMBDA x : x \in S)

(* One leaf of each pair, in every subset of the pairs; both leaves of     *)
(* some; all orders of two indexes; indexes that repeat, or lie beyond     *)
(* the leaves.                                                             *)
MCRequests ==
  {InOrder(S) : S \in SUBSET {2 * k : k \in 0..7}}
  \cup {InReverse(S) : S \in SUBSET {0, 1, 2, 3, 9, 10, 15}}
  \cup {<<a, b>> : a, b \in 0..15}
  \cup {<<1, 3, 1>>, <<16>>, <<2, 16>>, <<17, 0>>}
=============================================================================
