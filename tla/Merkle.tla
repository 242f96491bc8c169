------------------------------- MODULE Merkle -------------------------------
(***************************************************************************)
(* Merkle trees and their proofs (crypto/merkle.rs): the tree is built,    *)
(* a proof for one index or for several is made, delivered, and verified   *)
(* against the root.  The loops of prove_batch and verify_batch are run    *)
(* one iteration a step; both keep their place in the same variables, as   *)
(* one runs after the other.                                               *)
(*                                                                         *)
(* A hash is the pair that was hashed.  Lists are sequences, so the        *)
(* positions i of the code are one less than here; heap indexes and the    *)
(* indexes of leaves are those of the code.                                *)
(***************************************************************************)
EXTENDS Integers, Sequences, FiniteSets

CONSTANTS
  Depth,      \* of the tree
  Power,      \* the powers of two a depth can stand for
  Vectors,    \* of leaves, to build trees from
  Requests,   \* sequences of indexes to prove
  Wrong       \* a value no tree contains

ASSUME DepthAssumption ==
  /\ Depth \in Nat \ {0}
  /\ Power \in [0..(Depth + 1) -> Nat \ {0}]
  /\ Power[0] = 1
  /\ \A d \in 0..Depth : Power[d + 1] = 2 * Power[d]

Width == Power[Depth]

ASSUME InputAssumption ==
  /\ \A vector \in Vectors : DOMAIN vector = 0..(Width - 1)
  /\ Requests \subseteq Seq(Nat)

VARIABLES
  leaves, nodes,      \* MerkleTree: values and nodes
  request,            \* indexes to prove
  proof, received,    \* BatchMerkleProof, as made and as delivered
  path,               \* proof for a single index, as delivered
  pc,                 \* which loop runs
  pending,            \* even indexes the loop over leaves has still to visit
  indexes, next, i,   \* the nodes of a level, those of the next, the position
  level,              \* how many levels are done
  v, pointers,        \* of verify_batch
  verdict

tree == <<leaves, nodes>>
locals == <<pending, indexes, next, i, level>>
vars == <<tree, request, proof, received, path, pc, locals, v, pointers, verdict>>

Hash(a, b) == <<a, b>>
Zero == <<>>
(* memory that was never written *)
Uninit == <<Wrong>>

Sibling(k) == IF k % 2 = 0 THEN k + 1 ELSE k - 1
Asked(x) == \E j \in DOMAIN request : request[j] = x
(* index_map of both functions *)
PlaceOf(x) == CHOOSE j \in DOMAIN request : request[j] = x
Repeats(r) == \E j, k \in DOMAIN r : j # k /\ r[j] = r[k]
MapFailsExceptRepeats(r, maxValid) == \E j \in DOMAIN r : r[j] > maxValid
MapFails(r, maxValid) == Repeats(r) \/ \E j \in DOMAIN r : r[j] > maxValid
(* normalize_indexes; its order is the one the loop over pending follows *)
Normalized(r) == {r[j] - (r[j] % 2) : j \in DOMAIN r}
IsLeast(x, S) == x \in S /\ \A y \in S : x <= y

NoProof == [values |-> <<>>, nodes |-> <<>>, depth |-> 0]

(* what is left of a proof that has lost, or swapped, a member of a list *)
Drop(s) == SubSeq(s, 1, Len(s) - 1)
Exchanged(s, j, k) == [s EXCEPT ![j] = s[k], ![k] = s[j]]

(* The proof as it was made, or with one fault. *)
Deliveries(p) ==
  {p}
  \cup {[p EXCEPT !.values[j] = Wrong] : j \in DOMAIN p.values}
  \cup (UNION {{[p EXCEPT !.nodes[j][k] = Wrong] : k \in DOMAIN p.nodes[j]}
                : j \in DOMAIN p.nodes})
  \cup {[p EXCEPT !.nodes[j] = Drop(@)] : j \in {k \in DOMAIN p.nodes : p.nodes[k] # <<>>}}
  \cup {[p EXCEPT !.nodes[j] = Append(@, Wrong)] : j \in DOMAIN p.nodes}
  \cup {[p EXCEPT !.values = Exchanged(@, j, j + 1)] : j \in 1..(Len(p.values) - 1)}
  \cup {[p EXCEPT !.nodes = Exchanged(@, j, j + 1)] : j \in 1..(Len(p.nodes) - 1)}
  \cup (IF p.nodes = <<>> THEN {} ELSE {[p EXCEPT !.nodes = Drop(@)]})
  \cup (IF p.values = <<>> THEN {} ELSE {[p EXCEPT !.values = Drop(@)]})
  \cup {[p EXCEPT !.depth = d] : d \in {Depth - 1, Depth + 1}}

(* A path, or the path with one value replaced. *)
PathDeliveries(p) == {p} \cup {[p EXCEPT ![j] = Wrong] : j \in DOMAIN p}

-----------------------------------------------------------------------------
(* MerkleTree::new, build_merkle_nodes *)

Init ==
  /\ leaves \in Vectors
  /\ nodes = [k \in 0..(Width - 1) |-> Uninit]
  /\ request = <<>>
  /\ proof = NoProof /\ received = NoProof /\ path = <<>>
  /\ pc = "new"
  /\ pending = {} /\ indexes = <<>> /\ next = <<>> /\ i = 0 /\ level = 0
  /\ v = <<>> /\ pointers = <<>>
  /\ verdict = "none"

(* parents of leaves, from pairs of leaves *)
BuildParents ==
  /\ pc = "new"
  /\ nodes' = [k \in 0..(Width - 1) |->
                 IF k = 0 THEN Zero
                 ELSE IF 2 * k >= Width
                 THEN Hash(leaves[2 * k - Width], leaves[2 * k - Width + 1])
                 ELSE nodes[k]]
  /\ i' = Width \div 2 - 1
  /\ pc' = "build"
  /\ UNCHANGED <<leaves, request, proof, received, path, pending, indexes, next,
                 level, v, pointers, verdict>>

(* the same, pairing nodes from the second *)
BuildNodeBehind ==
  /\ pc = "build" /\ i >= 1
  /\ nodes' = [nodes EXCEPT ![i] = Hash(nodes[2 * i - 1], nodes[2 * i])]
  /\ i' = i - 1
  /\ UNCHANGED <<leaves, request, proof, received, path, pc, pending, indexes,
                 next, level, v, pointers, verdict>>

(* the other nodes, from the last to the first *)
BuildNode ==
  /\ pc = "build" /\ i >= 1
  /\ nodes' = [nodes EXCEPT ![i] = Hash(nodes[2 * i], nodes[2 * i + 1])]
  /\ i' = i - 1
  /\ UNCHANGED <<leaves, request, proof, received, path, pc, pending, indexes,
                 next, level, v, pointers, verdict>>

Built ==
  /\ pc = "build" /\ i < 1
  /\ pc' = "idle"
  /\ UNCHANGED <<tree, request, proof, received, path, locals, v, pointers, verdict>>

Panic ==
  /\ verdict' = "panic" /\ pc' = "done"
  /\ UNCHANGED <<tree, proof, received, path, locals, v, pointers>>

-----------------------------------------------------------------------------
(* prove_batch *)

(* map_indexes accepts the number of leaves as an index: ProveLeaf panics  *)
Ask(r) ==
  /\ pc = "idle"
  /\ request' = r
  /\ IF MapFails(r, Width)
     THEN Panic
     ELSE /\ pending' = Normalized(r)
          /\ proof' = [values |-> [j \in DOMAIN r |-> Zero], nodes |-> <<>>,
                       depth |-> Depth]
          /\ pc' = "prove_leaves" /\ level' = 1
          /\ UNCHANGED <<tree, received, path, indexes, next, i, v, pointers, verdict>>

ProveLeaf(index) ==
  /\ pc = "prove_leaves"
  /\ IsLeast(index, pending)
  /\ IF index >= Width
     THEN Panic /\ UNCHANGED request
     ELSE LET other == {x \in {index, index + 1} : ~Asked(x)} IN
          /\ proof' = [proof EXCEPT
                        !.values = [j \in DOMAIN @ |->
                          IF request[j] \in {index, index + 1}
                          THEN leaves[request[j]] ELSE @[j]],
                        !.nodes = Append(@, IF other = {} THEN <<>>
                                            ELSE <<leaves[CHOOSE x \in other : TRUE]>>)]
          /\ next' = Append(next, (index + Width) \div 2)
          /\ pending' = pending \ {index}
          /\ UNCHANGED <<tree, request, received, path, pc, indexes, i, level, v,
                         pointers, verdict>>

(* `for _ in 1..depth`: the nodes found become those of the level *)
NextLevel(depth, from, loop, end) ==
  /\ \/ pc = from /\ pending = {}
     \/ pc = loop /\ i > Len(indexes)
  /\ IF level < depth
     THEN /\ indexes' = next /\ next' = <<>> /\ i' = 1
          /\ level' = level + 1 /\ pc' = loop
     ELSE pc' = end /\ UNCHANGED <<indexes, next, i, level>>
  /\ UNCHANGED <<tree, request, proof, received, path, pending, v, pointers, verdict>>

ProveLevel == NextLevel(Depth, "prove_leaves", "prove", "deliver")

(* the sibling is on the level itself *)
PairedNever == FALSE
Paired == i < Len(indexes) /\ indexes[i + 1] = Sibling(indexes[i])

ProveNode ==
  /\ pc = "prove" /\ i <= Len(indexes)
  /\ proof' = IF Paired THEN proof
              ELSE [proof EXCEPT !.nodes[i] = Append(@, nodes[Sibling(indexes[i])])]
  /\ i' = IF Paired THEN i + 2 ELSE i + 1
  /\ next' = Append(next, indexes[i] \div 2)
  /\ UNCHANGED <<tree, request, received, path, pc, pending, indexes, level, v,
                 pointers, verdict>>

Deliver ==
  /\ pc = "deliver"
  /\ received' \in Deliveries(proof)
  /\ next' = <<>> /\ level' = 1
  /\ pc' = "verify"
  /\ UNCHANGED <<tree, request, proof, path, pending, indexes, i, v, pointers, verdict>>

-----------------------------------------------------------------------------
(* verify_batch *)

Return(answer) ==
  /\ verdict' = answer /\ pc' = "done"
  /\ UNCHANGED <<tree, request, proof, received, path, locals, v, pointers>>

GreatestButOne == Power[received.depth] - 2
Greatest == Power[received.depth] - 1

VerifyStart ==
  /\ pc = "verify"
  /\ IF MapFails(request, Greatest)
     THEN Panic /\ UNCHANGED request
     ELSE IF Cardinality(Normalized(request)) # Len(received.nodes)
     THEN Return("reject")
     ELSE /\ pending' = Normalized(request) /\ pc' = "verify_leaves"
          /\ UNCHANGED <<tree, request, proof, received, path, indexes, next, i,
                         level, v, pointers, verdict>>

(* the leaf at index x, from the values or from the k-th list of nodes *)
Missing(x, k) == IF Asked(x) THEN PlaceOf(x) \notin DOMAIN received.values
                 ELSE received.nodes[k] = <<>>
LeafOf(x, k) == IF Asked(x) THEN received.values[PlaceOf(x)]
                ELSE received.nodes[k][1]

With(f, k, d) == [x \in DOMAIN f \cup {k} |-> IF x = k THEN d ELSE f[x]]

VerifyLeaf(index) ==
  LET k == Len(next) + 1
      parent == (Power[received.depth] + index) \div 2
  IN
  /\ pc = "verify_leaves"
  /\ IsLeast(index, pending)
  /\ IF Missing(index, k) \/ Missing(index + 1, k)
     THEN Return("reject")
     ELSE /\ v' = With(v, parent, Hash(LeafOf(index, k), LeafOf(index + 1, k)))
          /\ pointers' = Append(pointers,
                           IF Asked(index) /\ Asked(index + 1) THEN 0 ELSE 1)
          /\ next' = Append(next, parent)
          /\ pending' = pending \ {index}
          /\ UNCHANGED <<tree, request, proof, received, path, pc, indexes, i,
                         level, verdict>>

VerifyLevel == NextLevel(received.depth, "verify_leaves", "verify_nodes", "conclude")

ParentUnordered(node, digest, sibling) == Hash(digest, sibling)
Parent(node, digest, sibling) ==
  IF node % 2 # 0 THEN Hash(sibling, digest) ELSE Hash(digest, sibling)

VerifyNode ==
  LET node == indexes[i]
      lists == received.nodes
  IN
  /\ pc = "verify_nodes" /\ i <= Len(indexes)
  /\ IF ~Paired /\ Len(lists[i]) <= pointers[i]
     THEN Return("reject")
     ELSE /\ v' = With(v, node \div 2,
                    Parent(node, v[node],
                           IF Paired THEN v[Sibling(node)] ELSE lists[i][pointers[i] + 1]))
          /\ pointers' = IF Paired THEN pointers
                         ELSE [pointers EXCEPT ![i] = @ + 1]
          /\ i' = IF Paired THEN i + 2 ELSE i + 1
          /\ next' = Append(next, node \div 2)
          /\ UNCHANGED <<tree, request, proof, received, path, pc, pending, indexes,
                         level, verdict>>

(* `*root == *v.get(&1).unwrap()` *)
Conclude ==
  /\ pc = "conclude"
  /\ IF 1 \notin DOMAIN v
     THEN Panic /\ UNCHANGED request
     ELSE Return(IF v[1] = nodes[1] THEN "accept" ELSE "reject")

-----------------------------------------------------------------------------
(* prove and verify: one index *)

(* The nodes beside the way up from leaf x. *)
PathTo(x) == <<leaves[x], leaves[Sibling(x)]>>
  \o [d \in 1..(Depth - 1) |-> nodes[Sibling((x + Width) \div Power[d])]]

ProvePath(x) ==
  /\ pc = "idle"
  /\ request' = <<x>>
  /\ IF x >= Width
     THEN Panic
     ELSE /\ path' \in PathDeliveries(PathTo(x))
          /\ pc' = "verify_path"
          /\ UNCHANGED <<tree, proof, received, locals, v, pointers, verdict>>

(* the digest after the first j hashes *)
Climb(p, x) ==
  LET Up[j \in 1..(Len(p) - 1)] ==
        IF j = 1 THEN Hash(p[1 + (x % 2)], p[2 - (x % 2)])
        ELSE Parent((x + Power[Len(p) - 1]) \div Power[j - 1], Up[j - 1], p[j + 1])
  IN Up[Len(p) - 1]

VerifyPath ==
  /\ pc = "verify_path"
  /\ Return(IF Climb(path, request[1]) = nodes[1] THEN "accept" ELSE "reject")

-----------------------------------------------------------------------------
Next ==
  \/ BuildParents \/ BuildNode \/ Built
  \/ \E r \in Requests : Ask(r)
  \/ \E index \in pending : ProveLeaf(index) \/ VerifyLeaf(index)
  \/ ProveLevel \/ ProveNode
  \/ Deliver
  \/ VerifyStart \/ VerifyLevel \/ VerifyNode \/ Conclude
  \/ \E x \in 0..Width : ProvePath(x)
  \/ VerifyPath

Spec == Init /\ [][Next]_vars

-----------------------------------------------------------------------------
(* What the component promises. *)

(* The indexes are those of leaves, none twice, and at least one. *)
Answerable == request # <<>> /\ ~MapFails(request, Width - 1)
ByBatch == path = <<>>

(* Once built, every inner node is the hash of its two children, down to    *)
(* the leaves: no cell of the array that build_merkle_nodes leaves          *)
(* uninitialized is read before it is written, or stays so.                 *)
Child(k) == IF k < Width THEN nodes[k] ELSE leaves[k - Width]
TreeIsHashed ==
  \A k \in 1..(Width - 1) :
    (pc # "new" /\ (pc = "build" => k > i)) => nodes[k] = Hash(Child(2 * k), Child(2 * k + 1))

(* A batch proof that verify_batch accepts has, for every index that was    *)
(* asked for, the leaf at that index, whatever happened to its values,      *)
(* its nodes or the order they are listed in.                               *)
BatchBinding ==
  (verdict = "accept" /\ ByBatch /\ received.depth = Depth) =>
    \A j \in DOMAIN request :
      j \in DOMAIN received.values /\ received.values[j] = leaves[request[j]]

(* The verifier consumes the nodes of a proof in the order the prover       *)
(* listed them, though both orders follow from where pairs happen to merge: *)
(* a proof delivered as it was made is accepted, for every set of indexes   *)
(* in every order.  A path is accepted if and only if it is the right one.  *)
IntactProofsVerify ==
  (pc = "done" /\ Answerable) =>
    IF ByBatch THEN received = proof => verdict = "accept"
               ELSE verdict = "accept" <=> path = PathTo(request[1])

(* A proof lists no node that the verifier does not use, and none that it   *)
(* computes itself.                                                         *)
NoSpareNodes ==
  (verdict = "accept" /\ ByBatch /\ received = proof) =>
    \A k \in DOMAIN proof.nodes :
      /\ pointers[k] = Len(proof.nodes[k])
      /\ \A m \in DOMAIN proof.nodes[k] :
            \A x \in DOMAIN v : v[x] = proof.nodes[k][m] =>
              \E y \in 1..(2 * Width - 1) : y \notin DOMAIN v /\ Child(y) = v[x]

(* Neither function panics on indexes of leaves, unless a proof was         *)
(* delivered whose depth is not the tree's.                                 *)
PanicOnlyOnBadRequest ==
  (verdict = "panic" /\ Answerable) => received # NoProof /\ received.depth # Depth
=============================================================================
