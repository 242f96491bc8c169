--------------------------------- MODULE Fri ---------------------------------
(***************************************************************************)
(* The steps of the low-degree proof (stark/fri) and the commitments it    *)
(* and the STARK proof are built on.  A vector is committed to by the      *)
(* digest of its leaves' digests; an opening holds the leaves at some      *)
(* positions and, for the nodes of a batch proof, the digests of all other *)
(* leaves: what Merkle has in full is here reduced to what its properties  *)
(* say of it, that a batch is accepted only with the leaves of the tree.   *)
(***************************************************************************)
EXTENDS Air

CONSTANTS
  Digest(_),            \* external: the hash function of the options
  ExtensionFactor,      \* extension_factor of the options
  MaxRemainderLength    \* MAX_REMAINDER_LENGTH

ASSUME FriAssumption ==
  /\ ExtensionFactor \in Nat \ {0} /\ MaxRemainderLength \in Nat \ {0}
  /\ ExtensionFactor % MaxConstraintDegree = 0

Root(leaves) == Digest([p \in DOMAIN leaves |-> Digest(leaves[p])])

(* MerkleTree::prove_batch and verify_batch *)
Opening(leaves, positions) ==
  [values |-> [p \in positions |-> leaves[p]],
   nodes  |-> [p \in DOMAIN leaves \ positions |-> Digest(leaves[p])]]

OpensTo(opening, positions, root) ==
  /\ DOMAIN opening.values = positions /\ DOMAIN opening.nodes \cap positions = {}
  /\ root = Digest([p \in positions \cup DOMAIN opening.nodes |->
                      IF p \in positions THEN Digest(opening.values[p]) ELSE opening.nodes[p]])

(* get_augmented_positions: the rows of a layer that hold the positions *)
RowsOf(positions, rows) == {p % rows : p \in positions}
-----------------------------------------------------------------------------
(* Prover *)

NeedsReduction(layer) == Size(layer) * 4 > MaxRemainderLength

SpecialX(root) == Draw(root, 0)

(* xs of the row i of the layer at a depth, from the domain of layer 0 *)
RowPoints(domainRoot, depth, rows, i) ==
  [k \in 0..3 |-> Exp(domainRoot, (i + k * rows) * 4^depth)]

(* the loop of reduce: each row as a cubic at one random point *)
Folded(layer, domainRoot, depth) ==
  LET rows == Size(layer)
      x == SpecialX(Root(layer))
  IN Rows([i \in 0..(rows - 1) |->
             Eval(InterpolateRow(RowPoints(domainRoot, depth, rows, i), layer[i]), x)], 1)

(* the rows opened in each layer; the last layer is sent whole *)
LayerPositions(layers, positions, depth) ==
  LET opened[d \in 0..depth] ==
        IF d = 0 THEN RowsOf(positions, Size(layers[1]))
        ELSE RowsOf(opened[d - 1], Size(layers[d + 1]))
  IN opened[depth]

Remainder(layer) ==
  LET rows == Size(layer)
  IN [i \in 0..(4 * rows - 1) |-> layer[i % rows][i \div rows]]

(* build_proof *)
FriProof(layers, positions) ==
  LET last == Len(layers)
  IN [layers |-> [d \in 1..(last - 1) |->
                    [root |-> Root(layers[d]), rows |-> Size(layers[d]),
                     opening |-> Opening(layers[d], LayerPositions(layers, positions, d - 1))]],
      remRoot |-> Root(layers[last]), remainder |-> Remainder(layers[last])]
-----------------------------------------------------------------------------
(* Verifier *)

(* get_column_values against the evaluations of the layer before *)
ColumnMatches(evaluations, rows, values) ==
  \A p \in DOMAIN evaluations : evaluations[p] = values[p % rows][p \div rows]

(* the row polynomials of a layer at its random point; the points of a row *)
(* are its first point times the powers of a fourth root of unity          *)
FoldedEvaluations(layer, positions, domainRoot, quarticRoot) ==
  LET xs(i) == [k \in 0..3 |-> Mul(Exp(quarticRoot, k), Exp(domainRoot, i))]
      x == SpecialX(layer.root)
  IN [i \in positions |-> Eval(InterpolateRow(xs(i), layer.opening.values[i]), x)]

RemainderMatches(evaluations, remainder) ==
  \A p \in DOMAIN evaluations : remainder[p] = evaluations[p]

(* the points where the trace itself may be are not looked at *)
CheckedCells(remainder) ==
  SelectSeq([i \in 1..Size(remainder) |-> i - 1], LAMBDA i : i % ExtensionFactor # 0)

(* the last cell left out *)
LowDegreeButLast(remainder, bound, domainRoot) ==
  LET cells == CheckedCells(remainder)
      xs == [i \in 0..(bound - 1) |-> Exp(domainRoot, cells[i + 1])]
      poly == Interpolate(xs, [i \in 0..(bound - 1) |-> remainder[cells[i + 1]]])
  IN /\ bound <= Size(remainder)
     /\ \A i \in (bound + 1)..(Len(cells) - 1) :
          Eval(poly, Exp(domainRoot, cells[i])) = remainder[cells[i]]

(* verify_remainder: the first cells give a polynomial, all others must    *)
(* lie on it                                                               *)
LowDegree(remainder, bound, domainRoot) ==
  LET cells == CheckedCells(remainder)
      xs == [i \in 0..(bound - 1) |-> Exp(domainRoot, cells[i + 1])]
      poly == Interpolate(xs, [i \in 0..(bound - 1) |-> remainder[cells[i + 1]]])
  IN /\ bound <= Size(remainder)
     /\ \A i \in (bound + 1)..Len(cells) :
          Eval(poly, Exp(domainRoot, cells[i])) = remainder[cells[i]]
=============================================================================
