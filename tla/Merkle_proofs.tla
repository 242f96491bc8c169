---------------------------- MODULE Merkle_proofs ----------------------------
(***************************************************************************)
(* Proofs about Merkle, for trees of every depth, all requests and every   *)
(* way a delivered proof may differ from the one that was made.            *)
(***************************************************************************)
EXTENDS Merkle, WellFoundedInduction, FiniteSetTheorems, TLAPS

(* how many nodes the level has that `next` is collecting *)
Row == Power[Depth - level]

Verifying == pc \in {"verify_leaves", "verify_nodes", "conclude"}
DepthKept == Verifying /\ received.depth = Depth

(* Every loop keeps its lists within the level it works on. *)
LoopsTyped ==
  /\ pc \in {"new", "build", "idle", "prove_leaves", "prove", "deliver", "verify",
             "verify_leaves", "verify_nodes", "conclude", "verify_path", "done"}
  /\ DOMAIN leaves = 0..(Width - 1)
  /\ DOMAIN nodes = 0..(Width - 1)
  /\ request \in Seq(Nat)
  /\ pending \subseteq Nat
  /\ i \in Nat /\ level \in Nat
  /\ pc \in {"prove", "verify_nodes"} => i >= 1

(* With a depth other than the tree's the numbers of nodes may be anything. *)
ListsTyped ==
  (pc # "done" /\ (Verifying => received.depth = Depth)) =>
    indexes \in Seq(Nat) /\ next \in Seq(Nat)

(* The array of nodes is filled from its end. *)
BuiltFromTheEnd ==
  /\ TreeIsHashed
  /\ pc = "build" => 2 * i < Width

(* What one phase leaves for the next. *)
Phases ==
  /\ verdict # "none" => pc = "done"
  /\ pc = "verify" => level = 1 /\ next = <<>>
  /\ pc = "verify_path" => path # <<>>

Ascending(s) == \A a, b \in DOMAIN s : a < b => s[a] < s[b]

(* The nodes the verifier has are those of one level, each once.           *)
NextOnLevel ==
  DepthKept =>
    /\ level \in 1..Depth /\ 2 * Row <= Width
    /\ \A a \in DOMAIN next : next[a] \in Row..(2 * Row - 1) /\ next[a] \in DOMAIN v
    /\ Ascending(next)
    /\ pc = "conclude" => level = Depth

LeavesAhead ==
  (DepthKept /\ pc = "verify_leaves") =>
    /\ level = 1 /\ 2 * Row = Width
    /\ \A x \in pending : x % 2 = 0 /\ x < Width
    /\ \A x \in pending, a \in DOMAIN next : 2 * next[a] < Width + x
    /\ \A j \in DOMAIN request : request[j] < Width
    /\ ~Repeats(request)

NodesAhead ==
  (DepthKept /\ pc = "verify_nodes") =>
    /\ 4 * Row <= Width
    /\ \A a \in DOMAIN indexes : indexes[a] \in (2 * Row)..(4 * Row - 1)
    /\ \A a \in DOMAIN indexes : a >= i => indexes[a] \in DOMAIN v
    /\ Ascending(indexes)
    /\ \A a \in DOMAIN next, b \in DOMAIN indexes :
         b >= i => next[a] < indexes[b] \div 2

(* A claimed value that is not the leaf leaves a wrong digest on the way up, *)
(* or is still to be read.                                                   *)
Differs(k) == v[k] # nodes[k]
WrongClaim(j) ==
  j \notin DOMAIN received.values \/ received.values[j] # leaves[request[j]]
WrongClaimShows ==
  (DepthKept /\ \E j \in DOMAIN request : WrongClaim(j)) =>
    \/ \E a \in DOMAIN next : Differs(next[a])
    \/ /\ pc = "verify_leaves"
       /\ \E j \in DOMAIN request :
            WrongClaim(j) /\ request[j] - (request[j] % 2) \in pending
    \/ /\ pc = "verify_nodes"
       /\ \E a \in DOMAIN indexes : a >= i /\ Differs(indexes[a])

Invariant ==
  /\ LoopsTyped /\ ListsTyped /\ BuiltFromTheEnd /\ Phases
  /\ NextOnLevel /\ LeavesAhead /\ NodesAhead
  /\ WrongClaimShows
  /\ BatchBinding

-----------------------------------------------------------------------------
(* Facts about the operators. *)

LEMMA HashIsInjective ==
  \A a, b, c, d : Hash(a, b) = Hash(c, d) => a = c /\ b = d
BY DEF Hash

LEMMA Widths ==
  /\ Depth \in Nat /\ Depth >= 1
  /\ Width \in Nat /\ Width >= 2 /\ Width % 2 = 0
  /\ \E h \in Nat : Width = 2 * h
<1>1. Depth \in Nat /\ Depth >= 1 /\ Depth - 1 \in 0..Depth /\ Depth - 1 \in 0..(Depth + 1)
  BY DepthAssumption
<1>2. Power[Depth - 1] \in Nat /\ Power[Depth - 1] >= 1
  BY <1>1, DepthAssumption
<1>3. Power[(Depth - 1) + 1] = 2 * Power[Depth - 1]
  BY <1>1, DepthAssumption
<1>4. (Depth - 1) + 1 = Depth
  BY <1>1
<1>5. Width = 2 * Power[Depth - 1]
  BY <1>3, <1>4 DEF Width
<1> QED
  BY <1>1, <1>2, <1>5

(* The row of the first level has half as many nodes as there are leaves,   *)
(* each later one half as many as the one before, and the last has one.     *)
LEMMA Rows ==
  /\ 2 * Power[Depth - 1] = Width
  /\ Power[Depth - Depth] = 1
  /\ \A l \in 1..Depth :
       /\ Power[Depth - l] \in Nat /\ Power[Depth - l] >= 1
       /\ l < Depth => Power[Depth - l] = 2 * Power[Depth - (l + 1)]
<1>1. Depth \in Nat /\ Depth >= 1 /\ Depth - 1 \in 0..Depth /\ Depth - Depth = 0
  BY DepthAssumption
<1>2. Power[(Depth - 1) + 1] = 2 * Power[Depth - 1] /\ (Depth - 1) + 1 = Depth
  BY <1>1, DepthAssumption
<1>3. ASSUME NEW l \in 1..Depth
      PROVE  /\ Power[Depth - l] \in Nat /\ Power[Depth - l] >= 1
             /\ l < Depth => Power[Depth - l] = 2 * Power[Depth - (l + 1)]
  <2>1. Depth - l \in 0..(Depth + 1)
    BY <1>1
  <2>2. Power[Depth - l] \in Nat /\ Power[Depth - l] >= 1
    BY <2>1, DepthAssumption
  <2>3. CASE l < Depth
    <3>1. Depth - (l + 1) \in 0..Depth /\ (Depth - (l + 1)) + 1 = Depth - l
      BY <1>1, <2>3
    <3> QED
      BY <2>2, <3>1, DepthAssumption
  <2> QED
    BY <2>2, <2>3
<1> QED
  BY <1>1, <1>2, <1>3, DepthAssumption DEF Width

LEMMA AppendKeepsOrder ==
  ASSUME NEW s \in Seq(Nat), NEW x \in Nat, Ascending(s),
         \A a \in DOMAIN s : s[a] < x
  PROVE  /\ Append(s, x) \in Seq(Nat) /\ Ascending(Append(s, x))
         /\ DOMAIN Append(s, x) = 1..(Len(s) + 1)
         /\ \A a \in DOMAIN s : a \in 1..(Len(s) + 1) /\ Append(s, x)[a] = s[a]
         /\ Len(s) + 1 \in 1..(Len(s) + 1) /\ Append(s, x)[Len(s) + 1] = x
BY DEF Ascending

LEMMA NormalizedAreEven ==
  ASSUME NEW r \in Seq(Nat)
  PROVE  Normalized(r) \subseteq {x \in Nat : x % 2 = 0}
<1> SUFFICES ASSUME NEW j \in DOMAIN r
             PROVE  r[j] - (r[j] % 2) \in {x \in Nat : x % 2 = 0}
  BY DEF Normalized
<1>1. r[j] \in Nat
  OBVIOUS
<1> HIDE DEF Normalized
<1>2. \A y \in Nat : y - (y % 2) \in Nat /\ (y - (y % 2)) % 2 = 0
  OBVIOUS
<1> QED
  BY <1>1, <1>2

(* The halves of two numbers, the second greater and not the sibling of the *)
(* first, are in the same order.                                            *)
LEMMA Halves ==
  ASSUME NEW x \in Nat, NEW y \in Nat, x < y, y # Sibling(x)
  PROVE  x \div 2 < y \div 2
BY DEF Sibling

LEMMA SiblingsMeet ==
  ASSUME NEW x \in Nat, x >= 2
  PROVE  /\ Sibling(x) \in Nat /\ Sibling(x) # x
         /\ Sibling(x) \div 2 = x \div 2
         /\ \A y \in Nat : Sibling(x) < y /\ x < y => x \div 2 < y \div 2
         /\ x % 2 = 0 => x = 2 * (x \div 2) /\ Sibling(x) = 2 * (x \div 2) + 1
         /\ x % 2 # 0 => x = 2 * (x \div 2) + 1 /\ Sibling(x) = 2 * (x \div 2)
BY DEF Sibling

LEMMA WithAdds ==
  ASSUME NEW f, NEW k, NEW d
  PROVE  /\ DOMAIN With(f, k, d) = DOMAIN f \cup {k}
         /\ With(f, k, d)[k] = d
         /\ \A x \in DOMAIN f : x # k => With(f, k, d)[x] = f[x]
BY DEF With

-----------------------------------------------------------------------------
(* The conjuncts of the invariant, one at a time. *)

LEMMA TypedInit == Init => LoopsTyped /\ ListsTyped
BY Widths, InputAssumption DEF Init, LoopsTyped, ListsTyped

LEMMA TypedNext == LoopsTyped /\ BuiltFromTheEnd /\ [Next]_vars => LoopsTyped'
<1> SUFFICES ASSUME LoopsTyped, BuiltFromTheEnd, [Next]_vars PROVE LoopsTyped'
  OBVIOUS
<1> USE DEF LoopsTyped, tree, locals
<1>1. CASE BuildParents
  BY <1>1, Widths DEF BuildParents
<1>2. CASE BuildNode
  BY <1>2 DEF BuildNode
<1>3. CASE Built
  BY <1>3 DEF Built
<1>4. ASSUME NEW r \in Requests, Ask(r) PROVE LoopsTyped'
  <2>1. r \in Seq(Nat)
    BY InputAssumption
  <2>2. Normalized(r) \subseteq Nat
    BY <2>1, NormalizedAreEven
  <2>3. CASE MapFails(r, Width)
    BY <1>4, <2>1, <2>3 DEF Ask, Panic
  <2>4. CASE ~MapFails(r, Width)
    <3>1. pc' = "prove_leaves" /\ request' = r /\ pending' = Normalized(r) /\ level' = 1
          /\ UNCHANGED <<leaves, nodes, i>>
      BY <1>4, <2>4 DEF Ask
    <3> QED
      BY <3>1, <2>1, <2>2
  <2> QED
    BY <2>3, <2>4
<1>5. ASSUME NEW index \in pending, ProveLeaf(index) PROVE LoopsTyped'
  BY <1>5 DEF ProveLeaf, Panic
<1>6. ASSUME NEW index \in pending, VerifyLeaf(index) PROVE LoopsTyped'
  BY <1>6 DEF VerifyLeaf, Return
<1>7. CASE ProveLevel
  BY <1>7 DEF ProveLevel, NextLevel
<1>8. CASE ProveNode
  BY <1>8 DEF ProveNode
<1>9. CASE Deliver
  BY <1>9 DEF Deliver
<1>10. CASE VerifyStart
  <2>1. Normalized(request) \subseteq Nat
    BY NormalizedAreEven
  <2> QED
    BY <1>10, <2>1 DEF VerifyStart, Panic, Return
<1>11. CASE VerifyLevel
  BY <1>11 DEF VerifyLevel, NextLevel
<1>12. CASE VerifyNode
  <2>1. CASE ~Paired /\ Len(received.nodes[i]) <= pointers[i]
    BY <1>12, <2>1 DEF VerifyNode, Return
  <2>2. CASE ~(~Paired /\ Len(received.nodes[i]) <= pointers[i])
    <3>1. UNCHANGED <<leaves, nodes, request, pending, level, pc>>
          /\ pc = "verify_nodes" /\ i' \in {i + 1, i + 2}
      BY <1>12, <2>2 DEF VerifyNode
    <3> QED
      BY <3>1
  <2> QED
    BY <2>1, <2>2
<1>13. CASE Conclude
  BY <1>13 DEF Conclude, Return, Panic
<1>14. ASSUME NEW x \in 0..Width, ProvePath(x) PROVE LoopsTyped'
  <2>1. x \in Nat /\ request' = <<x>> /\ pc' \in {"done", "verify_path"}
        /\ UNCHANGED <<leaves, nodes, pending, i, level>>
    BY <1>14, Widths DEF ProvePath, Panic
  <2>2. <<x>> \in Seq(Nat)
    BY <2>1
  <2> QED
    BY <2>1, <2>2
<1>15. CASE VerifyPath
  BY <1>15 DEF VerifyPath, Return
<1>16. CASE UNCHANGED vars
  BY <1>16 DEF vars
<1> QED
  BY <1>1, <1>2, <1>3, <1>4, <1>5, <1>6, <1>7, <1>8, <1>9, <1>10, <1>11, <1>12,
     <1>13, <1>14, <1>15, <1>16 DEF Next

LEMMA ListsNext == LoopsTyped /\ ListsTyped /\ [Next]_vars => ListsTyped'
<1> SUFFICES ASSUME LoopsTyped, ListsTyped, [Next]_vars PROVE ListsTyped'
  OBVIOUS
<1> USE DEF ListsTyped, Verifying, tree, locals
<1>1. CASE BuildParents \/ BuildNode \/ Built
  BY <1>1 DEF BuildParents, BuildNode, Built
<1>4. ASSUME NEW r \in Requests, Ask(r) PROVE ListsTyped'
  BY <1>4 DEF Ask, Panic
<1>5. ASSUME NEW index \in pending, ProveLeaf(index) PROVE ListsTyped'
  <2>1. index \in Nat /\ (index + Width) \div 2 \in Nat
    BY Widths DEF LoopsTyped
  <2> QED
    BY <1>5, <2>1 DEF ProveLeaf, Panic
<1>6. ASSUME NEW index \in pending, VerifyLeaf(index) PROVE ListsTyped'
  <2> SUFFICES ASSUME pc' = "verify_leaves", received.depth = Depth
               PROVE  indexes' \in Seq(Nat) /\ next' \in Seq(Nat)
    BY <1>6 DEF VerifyLeaf, Return
  <2> DEFINE parent == (Power[received.depth] + index) \div 2
  <2>1. parent \in Nat
    BY Widths DEF Width, LoopsTyped
  <2>2. /\ pc = "verify_leaves" /\ received' = received
        /\ indexes' = indexes /\ next' = Append(next, parent)
    BY <1>6 DEF VerifyLeaf, Return
  <2>3. indexes \in Seq(Nat) /\ next \in Seq(Nat)
    BY <2>2
  <2> HIDE DEF parent
  <2>4. Append(next, parent) \in Seq(Nat)
    BY <2>1, <2>3
  <2> QED
    BY <2>2, <2>3, <2>4
<1>7. CASE ProveLevel
  <2>1. pc \in {"prove_leaves", "prove"} /\ <<indexes', next'>> \in {<<next, <<>> >>, <<indexes, next>>}
    BY <1>7 DEF ProveLevel, NextLevel
  <2>2. <<>> \in Seq(Nat)
    OBVIOUS
  <2> QED
    BY <2>1, <2>2
<1>8. CASE ProveNode
  BY <1>8 DEF ProveNode, LoopsTyped
<1>9. CASE Deliver
  BY <1>9 DEF Deliver
<1>10. CASE VerifyStart
  BY <1>10 DEF VerifyStart, Panic, Return
<1>11. CASE VerifyLevel
  <2>1. Verifying /\ received' = received
        /\ <<indexes', next'>> \in {<<next, <<>> >>, <<indexes, next>>}
        /\ Verifying'
    BY <1>11 DEF VerifyLevel, NextLevel
  <2>2. <<>> \in Seq(Nat)
    OBVIOUS
  <2> QED
    BY <2>1, <2>2
<1>12. CASE VerifyNode
  <2>1. CASE ~Paired /\ Len(received.nodes[i]) <= pointers[i]
    BY <1>12, <2>1 DEF VerifyNode, Return
  <2>2. CASE ~(~Paired /\ Len(received.nodes[i]) <= pointers[i])
    <3> SUFFICES ASSUME received.depth = Depth
                 PROVE  indexes' \in Seq(Nat) /\ next' \in Seq(Nat)
      BY <1>12, <2>2 DEF VerifyNode
    <3>1. pc = "verify_nodes" /\ i <= Len(indexes) /\ indexes' = indexes
          /\ next' = Append(next, indexes[i] \div 2)
      BY <1>12, <2>2 DEF VerifyNode
    <3>2. i \in Nat /\ i >= 1
      BY <3>1 DEF LoopsTyped
    <3>3. indexes \in Seq(Nat) /\ next \in Seq(Nat)
      BY <3>1
    <3>4. indexes[i] \div 2 \in Nat
      BY <3>1, <3>2, <3>3
    <3> QED
      BY <3>1, <3>3, <3>4
  <2> QED
    BY <2>1, <2>2
<1>13. CASE Conclude
  BY <1>13 DEF Conclude, Return, Panic
<1>14. ASSUME NEW x \in 0..Width, ProvePath(x) PROVE ListsTyped'
  BY <1>14 DEF ProvePath, Panic
<1>15. CASE VerifyPath
  BY <1>15 DEF VerifyPath, Return
<1>16. CASE UNCHANGED vars
  BY <1>16 DEF vars
<1> QED
  BY <1>1, <1>4, <1>5, <1>6, <1>7, <1>8, <1>9, <1>10, <1>11, <1>12,
     <1>13, <1>14, <1>15, <1>16 DEF Next

-----------------------------------------------------------------------------
(* Steps that follow the building of the tree leave it alone. *)
LEMMA TreeStays ==
  ASSUME [Next]_vars, ~BuildParents, ~BuildNode, ~Built
  PROVE  /\ leaves' = leaves /\ nodes' = nodes
         /\ \/ pc \notin {"new", "build"} /\ pc' \notin {"new", "build"}
            \/ UNCHANGED vars
<1> DEFINE Stays == /\ leaves' = leaves /\ nodes' = nodes
                   /\ \/ pc \notin {"new", "build"} /\ pc' \notin {"new", "build"}
                      \/ UNCHANGED vars
<1> USE DEF tree, Panic, Return
<1>1. ASSUME NEW r \in Requests, Ask(r) PROVE Stays
  BY <1>1 DEF Ask
<1>2. ASSUME NEW index \in pending, ProveLeaf(index) \/ VerifyLeaf(index) PROVE Stays
  BY <1>2 DEF ProveLeaf, VerifyLeaf
<1>3. CASE ProveLevel \/ VerifyLevel
  BY <1>3 DEF ProveLevel, VerifyLevel, NextLevel
<1>4. CASE ProveNode
  BY <1>4 DEF ProveNode
<1>5. CASE Deliver
  BY <1>5 DEF Deliver
<1>6. CASE VerifyStart
  BY <1>6 DEF VerifyStart
<1>7. CASE VerifyNode
  BY <1>7 DEF VerifyNode
<1>8. CASE Conclude
  BY <1>8 DEF Conclude
<1>9. ASSUME NEW x \in 0..Width, ProvePath(x) PROVE Stays
  BY <1>9 DEF ProvePath
<1>10. CASE VerifyPath
  BY <1>10 DEF VerifyPath
<1>11. CASE UNCHANGED vars
  BY <1>11 DEF vars
<1> QED
  BY <1>1, <1>2, <1>3, <1>4, <1>5, <1>6, <1>7, <1>8, <1>9, <1>10, <1>11 DEF Next

LEMMA BuiltInit == Init => BuiltFromTheEnd
BY DEF Init, BuiltFromTheEnd, TreeIsHashed

LEMMA BuiltNext == LoopsTyped /\ BuiltFromTheEnd /\ [Next]_vars => BuiltFromTheEnd'
<1> SUFFICES ASSUME LoopsTyped, BuiltFromTheEnd, [Next]_vars PROVE BuiltFromTheEnd'
  OBVIOUS
<1>0. Width \in Nat /\ Width >= 2 /\ Width % 2 = 0
  BY Widths
<1>1. CASE BuildParents
  <2>1. pc' = "build" /\ i' = Width \div 2 - 1 /\ leaves' = leaves
        /\ \A k \in 1..(Width - 1) : 2 * k >= Width =>
             nodes'[k] = Hash(leaves[2 * k - Width], leaves[2 * k - Width + 1])
    BY <1>0, <1>1 DEF BuildParents
  <2>2. 2 * i' < Width
    BY <2>1, <1>0
  <2>3. ASSUME NEW k \in 1..(Width - 1), k > i'
        PROVE  nodes'[k] = Hash(Child(2 * k)', Child(2 * k + 1)')
    <3>1. 2 * k >= Width /\ ~(2 * k < Width) /\ ~(2 * k + 1 < Width)
          /\ (2 * k + 1) - Width = 2 * k - Width + 1
      BY <1>0, <2>1, <2>3
    <3> QED
      BY <2>1, <3>1 DEF Child
  <2> QED
    BY <2>1, <2>2, <2>3 DEF BuiltFromTheEnd, TreeIsHashed
<1>2. CASE BuildNode
  <2>1. pc = "build" /\ pc' = "build" /\ i \in Nat /\ i >= 1 /\ i' = i - 1 /\ 2 * i < Width
        /\ leaves' = leaves /\ i \in DOMAIN nodes
    BY <1>2, <1>0 DEF BuildNode, BuiltFromTheEnd, LoopsTyped
  <2>2. nodes'[i] = Hash(nodes[2 * i], nodes[2 * i + 1])
        /\ \A k \in 0..(Width - 1) : k # i => nodes'[k] = nodes[k]
    BY <1>2, <2>1 DEF BuildNode, LoopsTyped
  <2>3. ASSUME NEW k \in 1..(Width - 1), k > i'
        PROVE  nodes'[k] = Hash(Child(2 * k)', Child(2 * k + 1)')
    <3>1. k >= i
      BY <2>1, <2>3, <1>0
    <3>2. Child(2 * k)' = Child(2 * k) /\ Child(2 * k + 1)' = Child(2 * k + 1)
      <4>1. 2 * k # i /\ 2 * k + 1 # i /\ 2 * k \in Nat /\ 2 * k + 1 \in Nat
        BY <3>1, <2>1, <1>0
      <4> QED
        BY <2>1, <2>2, <4>1, <1>0 DEF Child
    <3>3. CASE k = i
      <4>1. 2 * i < Width /\ 2 * i + 1 < Width
        BY <2>1, <1>0
      <4> QED
        BY <3>2, <3>3, <2>2, <4>1 DEF Child
    <3>4. CASE k > i
      BY <2>1, <2>2, <3>2, <3>4 DEF BuiltFromTheEnd, TreeIsHashed
    <3> QED
      BY <3>1, <3>3, <3>4, <2>1
  <2> QED
    BY <2>1, <2>3, <1>0 DEF BuiltFromTheEnd, TreeIsHashed
<1>3. CASE Built
  <2>1. pc = "build" /\ i < 1 /\ pc' = "idle" /\ leaves' = leaves /\ nodes' = nodes /\ i \in Nat
    BY <1>3 DEF Built, LoopsTyped, tree
  <2> QED
    BY <2>1, <1>0 DEF BuiltFromTheEnd, TreeIsHashed, Child
<1>4. CASE ~BuildParents /\ ~BuildNode /\ ~Built
  <2>1. leaves' = leaves /\ nodes' = nodes
        /\ \/ pc \notin {"new", "build"} /\ pc' \notin {"new", "build"}
           \/ pc' = pc /\ i' = i
    BY <1>4, TreeStays DEF vars, locals
  <2> QED
    BY <2>1 DEF BuiltFromTheEnd, TreeIsHashed, Child
<1> QED
  BY <1>1, <1>2, <1>3, <1>4

LEMMA PhasesInit == Init => Phases
BY DEF Init, Phases

LEMMA PathsHaveNodes ==
  ASSUME NEW x \in Nat, NEW p \in PathDeliveries(PathTo(x))
  PROVE  p # <<>>
<1> DEFINE Up == [d \in 1..(Depth - 1) |-> nodes[Sibling((x + Width) \div Power[d])]]
<1> DEFINE S == {leaves[x], leaves[Sibling(x)]} \cup {Up[d] : d \in 1..(Depth - 1)}
<1>1. Depth - 1 \in Nat
  BY Widths
<1>2. Up \in Seq(S) /\ <<leaves[x], leaves[Sibling(x)]>> \in Seq(S)
  BY <1>1
<1>3. PathTo(x) = <<leaves[x], leaves[Sibling(x)]>> \o Up
  BY DEF PathTo
<1> HIDE DEF Up, S
<1>4. 1 \in DOMAIN PathTo(x)
  BY <1>2, <1>3
<1>5. 1 \in DOMAIN p
  BY <1>4 DEF PathDeliveries
<1> QED
  BY <1>5

LEMMA PhasesNext == LoopsTyped /\ Phases /\ [Next]_vars => Phases'
<1> SUFFICES ASSUME LoopsTyped, Phases, [Next]_vars PROVE Phases'
  OBVIOUS
<1> USE DEF Phases, tree, locals
<1>1. CASE BuildParents \/ BuildNode \/ Built
  BY <1>1 DEF BuildParents, BuildNode, Built
<1>2. ASSUME NEW r \in Requests, Ask(r) PROVE Phases'
  BY <1>2 DEF Ask, Panic
<1>3. ASSUME NEW index \in pending, ProveLeaf(index) \/ VerifyLeaf(index) PROVE Phases'
  BY <1>3 DEF ProveLeaf, VerifyLeaf, Panic, Return
<1>4. CASE ProveLevel \/ VerifyLevel
  BY <1>4 DEF ProveLevel, VerifyLevel, NextLevel
<1>5. CASE ProveNode
  BY <1>5 DEF ProveNode
<1>6. CASE Deliver
  BY <1>6 DEF Deliver
<1>7. CASE VerifyStart
  BY <1>7 DEF VerifyStart, Panic, Return
<1>8. CASE VerifyNode
  BY <1>8 DEF VerifyNode, Return
<1>9. CASE Conclude
  BY <1>9 DEF Conclude, Return, Panic
<1>10. ASSUME NEW x \in 0..Width, ProvePath(x) PROVE Phases'
  <2>1. x \in Nat
    BY Widths
  <2>2. \A p \in PathDeliveries(PathTo(x)) : p # <<>>
    BY <2>1, PathsHaveNodes
  <2> QED
    BY <1>10, <2>2 DEF ProvePath, Panic
<1>11. CASE VerifyPath
  BY <1>11 DEF VerifyPath, Return
<1>12. CASE UNCHANGED vars
  BY <1>12 DEF vars
<1> QED
  BY <1>1, <1>2, <1>3, <1>4, <1>5, <1>6, <1>7, <1>8, <1>9, <1>10, <1>11, <1>12 DEF Next

-----------------------------------------------------------------------------
(* The way up, one action of the verifier at a time. *)
OnTheWay == NextOnLevel /\ LeavesAhead /\ NodesAhead /\ WrongClaimShows
Before ==
  LoopsTyped /\ ListsTyped /\ BuiltFromTheEnd /\ Phases /\ OnTheWay

(* Outside the verifier nothing is said. *)
LEMMA OnlyTheVerifier ==
  ASSUME [Next]_vars, ~VerifyStart, ~VerifyLevel, ~VerifyNode,
         \A index \in pending : ~VerifyLeaf(index)
  PROVE  ~Verifying' \/ UNCHANGED vars
<1> USE DEF Verifying, Panic, Return
<1>1. CASE BuildParents \/ BuildNode \/ Built
  BY <1>1 DEF BuildParents, BuildNode, Built
<1>2. ASSUME NEW r \in Requests, Ask(r) PROVE ~Verifying'
  BY <1>2 DEF Ask
<1>3. ASSUME NEW index \in pending, ProveLeaf(index) PROVE ~Verifying'
  BY <1>3 DEF ProveLeaf
<1>4. CASE ProveLevel
  BY <1>4 DEF ProveLevel, NextLevel
<1>5. CASE ProveNode
  BY <1>5 DEF ProveNode
<1>6. CASE Deliver
  BY <1>6 DEF Deliver
<1>7. CASE Conclude
  BY <1>7 DEF Conclude
<1>8. ASSUME NEW x \in 0..Width, ProvePath(x) PROVE ~Verifying'
  BY <1>8 DEF ProvePath
<1>9. CASE VerifyPath
  BY <1>9 DEF VerifyPath
<1> QED
  BY <1>1, <1>2, <1>3, <1>4, <1>5, <1>6, <1>7, <1>8, <1>9 DEF Next

LEMMA StartsOnTheWay ==
  ASSUME Before, VerifyStart PROVE OnTheWay'
<1> SUFFICES ASSUME DepthKept' PROVE OnTheWay'
  BY DEF OnTheWay, NextOnLevel, LeavesAhead, NodesAhead, WrongClaimShows
<1>1. /\ pc = "verify" /\ pc' = "verify_leaves" /\ received.depth = Depth
      /\ ~MapFails(request, Power[Depth] - 1)
      /\ pending' = Normalized(request)
      /\ UNCHANGED <<leaves, request, received, next, level, v>>
  BY DEF VerifyStart, Panic, Return, DepthKept, Verifying, tree, Greatest
<1>2. level' = 1 /\ next' = <<>>
  BY <1>1 DEF Before, Phases
<1>3. Depth \in Nat /\ Depth >= 1 /\ Width \in Nat /\ 2 * Row' = Width /\ request \in Seq(Nat)
  BY <1>2, Widths, Rows DEF Row, Before, LoopsTyped
<1>4. NextOnLevel'
  BY <1>1, <1>2, <1>3 DEF NextOnLevel, Ascending
<1>5. /\ ~Repeats(request)
      /\ \A j \in DOMAIN request : request[j] \in Nat /\ request[j] < Width
  BY <1>1, <1>3 DEF MapFails, Width
<1>6. \A x \in pending' : x % 2 = 0 /\ x < Width
  <2> TAKE x \in pending'
  <2>1. x \in Nat /\ x % 2 = 0
    BY <1>1, <1>3, NormalizedAreEven
  <2>2. PICK j \in DOMAIN request : x = request[j] - (request[j] % 2)
    BY <1>1 DEF Normalized
  <2>3. request[j] \in Nat /\ request[j] < Width
    BY <1>5
  <2> QED
    BY <2>1, <2>2, <2>3, <1>3
<1>7. LeavesAhead'
  BY <1>1, <1>2, <1>3, <1>5, <1>6 DEF LeavesAhead, Repeats
<1>8. NodesAhead'
  BY <1>1 DEF NodesAhead
<1>9. WrongClaimShows'
  BY <1>1 DEF WrongClaimShows, Normalized, WrongClaim
<1> QED
  BY <1>4, <1>7, <1>8, <1>9 DEF OnTheWay

LEMMA LeafOnTheWay ==
  ASSUME Before, NEW index \in pending, VerifyLeaf(index) PROVE OnTheWay'
<1> SUFFICES ASSUME DepthKept' PROVE OnTheWay'
  BY DEF OnTheWay, NextOnLevel, LeavesAhead, NodesAhead, WrongClaimShows
<1> DEFINE parent == (Width + index) \div 2
<1> DEFINE k == Len(next) + 1
<1>1. /\ pc = "verify_leaves" /\ pc' = "verify_leaves" /\ received.depth = Depth
      /\ IsLeast(index, pending)
      /\ ~Missing(index, k) /\ ~Missing(index + 1, k)
      /\ v' = With(v, parent, Hash(LeafOf(index, k), LeafOf(index + 1, k)))
      /\ next' = Append(next, parent)
      /\ pending' = pending \ {index}
      /\ UNCHANGED <<leaves, nodes, request, received, level>>
  BY DEF VerifyLeaf, Return, DepthKept, Verifying, tree, Width
<1>2. DepthKept
  BY <1>1 DEF DepthKept, Verifying
<1>3. NextOnLevel /\ LeavesAhead /\ WrongClaimShows /\ LoopsTyped
  BY DEF Before, OnTheWay
<1>4. next \in Seq(Nat)
  BY <1>1, <1>2 DEF Before, ListsTyped, DepthKept
<1>5. /\ level = 1 /\ 2 * Row = Width /\ Width \in Nat /\ Width >= 2
      /\ pending \subseteq Nat /\ index \in Nat /\ index % 2 = 0 /\ index < Width
      /\ \A x \in pending, a \in DOMAIN next : 2 * next[a] < Width + x
      /\ \A x \in pending : x % 2 = 0 /\ x < Width
  BY <1>1, <1>2, <1>3, Widths DEF LeavesAhead, LoopsTyped
<1>6. Row \in Nat /\ Row' = Row
  BY <1>1, <1>5, Rows, Widths DEF Row
<1>7. parent \in Nat /\ 2 * parent = Width + index /\ parent \in Row..(2 * Row - 1)
      /\ parent \in 1..(Width - 1)
  BY <1>5, <1>6
<1>8. \A a \in DOMAIN next : next[a] \in Nat /\ next[a] < parent
  <2> TAKE a \in DOMAIN next
  <2>1. next[a] \in Nat /\ 2 * next[a] < Width + index
    BY <1>4, <1>5
  <2> QED
    BY <2>1, <1>7
<1> HIDE DEF parent
<1>9. /\ next' \in Seq(Nat) /\ Ascending(next')
      /\ DOMAIN next' = 1..(Len(next) + 1)
      /\ \A a \in DOMAIN next : a \in 1..(Len(next) + 1) /\ next'[a] = next[a]
      /\ Len(next) + 1 \in 1..(Len(next) + 1) /\ next'[Len(next) + 1] = parent
  BY <1>1, <1>2, <1>3, <1>4, <1>7, <1>8, AppendKeepsOrder DEF NextOnLevel
<1>10. \A a \in DOMAIN next' : a \in DOMAIN next \/ a = Len(next) + 1
  BY <1>4, <1>9
<1>11. /\ DOMAIN v' = DOMAIN v \cup {parent}
       /\ v'[parent] = Hash(LeafOf(index, k), LeafOf(index + 1, k))
       /\ \A x \in DOMAIN v : x # parent => v'[x] = v[x]
  <2> DEFINE digest == Hash(LeafOf(index, k), LeafOf(index + 1, k))
  <2>1. v' = With(v, parent, digest)
    BY <1>1
  <2> HIDE DEF digest
  <2>2. /\ DOMAIN v' = DOMAIN v \cup {parent} /\ v'[parent] = digest
        /\ \A x \in DOMAIN v : x # parent => v'[x] = v[x]
    BY <2>1 DEF With
  <2> QED
    BY <2>2 DEF digest
<1>12. NextOnLevel'
  <2>1. \A a \in DOMAIN next' : next'[a] \in Row..(2 * Row - 1) /\ next'[a] \in DOMAIN v'
    BY <1>2, <1>3, <1>7, <1>9, <1>10, <1>11 DEF NextOnLevel
  <2>2. level' \in 1..Depth /\ 2 * Row' <= Width
    BY <1>1, <1>2, <1>3, <1>6 DEF NextOnLevel
  <2> QED
    BY <2>1, <2>2, <1>1, <1>6, <1>9 DEF NextOnLevel
<1>13. LeavesAhead'
  <2>1. ASSUME NEW x \in pending', NEW a \in DOMAIN next' PROVE 2 * next'[a] < Width + x
    <3>1. x \in pending /\ x # index /\ x \in Nat
      BY <1>1, <1>5
    <3>2. index <= x
      BY <1>1, <3>1 DEF IsLeast
    <3>3. CASE a \in DOMAIN next
      BY <1>5, <1>9, <3>1, <3>3
    <3>4. CASE a = Len(next) + 1
      BY <1>5, <1>7, <1>9, <3>1, <3>2, <3>4
    <3> QED
      BY <1>10, <3>3, <3>4
  <2>2. (\A j \in DOMAIN request : request[j] < Width) /\ ~Repeats(request)
    BY <1>1, <1>2, <1>3 DEF LeavesAhead
  <2>3. (\A j \in DOMAIN request' : request'[j] < Width) /\ ~Repeats(request')
    BY <2>2, <1>1
  <2> QED
    BY <2>1, <2>3, <1>1, <1>5, <1>6 DEF LeavesAhead
<1>14. NodesAhead'
  BY <1>1 DEF NodesAhead
<1>15. WrongClaimShows'
  <2> SUFFICES ASSUME NEW j \in DOMAIN request, WrongClaim(j)
               PROVE \/ \E a \in DOMAIN next' : Differs(next[a])'
                     \/ \E b \in DOMAIN request :
                          WrongClaim(b) /\ request[b] - (request[b] % 2) \in pending'
    BY <1>1 DEF WrongClaimShows, WrongClaim
  <2>1. CASE \E a \in DOMAIN next : Differs(next[a])
    <3>1. PICK a \in DOMAIN next : Differs(next[a])
      BY <2>1
    <3>2. next[a] \in DOMAIN v /\ next[a] # parent
      BY <1>2, <1>3, <1>7, <1>8 DEF NextOnLevel
    <3>3. a \in DOMAIN next' /\ next'[a] = next[a] /\ v'[next[a]] = v[next[a]]
      BY <3>2, <1>9, <1>11
    <3> QED
      BY <3>1, <3>3, <1>1 DEF Differs
  <2>2. CASE \E b \in DOMAIN request :
               WrongClaim(b) /\ request[b] - (request[b] % 2) \in pending
    <3>1. PICK b \in DOMAIN request :
                 WrongClaim(b) /\ request[b] - (request[b] % 2) \in pending
      BY <2>2
    <3>2. CASE request[b] - (request[b] % 2) # index
      BY <3>1, <3>2, <1>1
    <3>3. CASE request[b] - (request[b] % 2) = index
      <4>1. request[b] \in Nat /\ request[b] \in {index, index + 1}
        <5>1. request[b] \in Nat /\ index \in Nat
          BY <1>3, <1>5 DEF LoopsTyped
        <5>2. request[b] % 2 \in {0, 1}
          BY <5>1
        <5> QED
          BY <5>1, <5>2, <3>3
      <4>2. Asked(request[b]) /\ PlaceOf(request[b]) = b
        BY <1>1, <1>2, <1>3 DEF Asked, PlaceOf, LeavesAhead, Repeats
      <4>3. LeafOf(request[b], k) # leaves[request[b]]
        BY <4>1, <4>2, <3>1, <1>1, <1>5 DEF Missing, LeafOf, WrongClaim
      <4>4. nodes[parent] = Hash(leaves[index], leaves[index + 1])
        <5>1. nodes[parent] = Hash(Child(2 * parent), Child(2 * parent + 1))
          BY <1>1, <1>7 DEF Before, BuiltFromTheEnd, TreeIsHashed
        <5>2. /\ ~(2 * parent < Width) /\ ~(2 * parent + 1 < Width)
              /\ 2 * parent - Width = index /\ (2 * parent + 1) - Width = index + 1
          BY <1>5, <1>7
        <5> QED
          BY <5>1, <5>2 DEF Child
      <4>5. v'[parent] # nodes[parent]
        <5>1. SUFFICES ASSUME v'[parent] = nodes[parent] PROVE FALSE
          OBVIOUS
        <5>2. LeafOf(index, k) = leaves[index] /\ LeafOf(index + 1, k) = leaves[index + 1]
          BY <5>1, <4>4, <1>11, HashIsInjective
        <5> QED
          BY <5>2, <4>1, <4>3
      <4>6. Len(next) + 1 \in DOMAIN next' /\ next'[Len(next) + 1] = parent
        BY <1>9
      <4> QED
        BY <4>5, <4>6, <1>1 DEF Differs
    <3> QED
      BY <3>2, <3>3
  <2> QED
    BY <2>1, <2>2, <1>1, <1>2, <1>3 DEF WrongClaimShows
<1> QED
  BY <1>12, <1>13, <1>14, <1>15 DEF OnTheWay

LEMMA LevelOnTheWay ==
  ASSUME Before, VerifyLevel PROVE OnTheWay'
<1> SUFFICES ASSUME DepthKept' PROVE OnTheWay'
  BY DEF OnTheWay, NextOnLevel, LeavesAhead, NodesAhead, WrongClaimShows
<1>1. /\ \/ pc = "verify_leaves" /\ pending = {}
         \/ pc = "verify_nodes" /\ i > Len(indexes)
      /\ received.depth = Depth
      /\ UNCHANGED <<leaves, nodes, request, received, v>>
  BY DEF VerifyLevel, NextLevel, DepthKept, Verifying, tree
<1>2. DepthKept /\ LoopsTyped
  BY <1>1 DEF DepthKept, Verifying, Before
<1>3. indexes \in Seq(Nat) /\ next \in Seq(Nat) /\ i \in Nat /\ Depth \in Nat /\ Width \in Nat
  BY <1>1, <1>2, Widths DEF Before, ListsTyped, DepthKept, LoopsTyped
<1>4. /\ level \in 1..Depth /\ 2 * Row <= Width
      /\ \A a \in DOMAIN next : next[a] \in Row..(2 * Row - 1) /\ next[a] \in DOMAIN v
      /\ Ascending(next)
  BY <1>2 DEF Before, OnTheWay, NextOnLevel
<1>5. (\E j \in DOMAIN request : WrongClaim(j)) => \E a \in DOMAIN next : Differs(next[a])
  BY <1>1, <1>2, <1>3 DEF Before, OnTheWay, WrongClaimShows
<1>6. CASE level < Depth
  <2>1. /\ indexes' = next /\ next' = <<>> /\ i' = 1 /\ level' = level + 1
        /\ pc' = "verify_nodes"
    BY <1>1, <1>6 DEF VerifyLevel, NextLevel
  <2>2. level + 1 \in 1..Depth /\ Row' \in Nat /\ Row = 2 * Row'
    <3>1. level \in Nat /\ level + 1 \in 1..Depth
      BY <1>3, <1>4, <1>6
    <3>2. Power[Depth - level] = 2 * Power[Depth - (level + 1)]
      BY <1>4, <1>6, Rows
    <3>3. Power[Depth - (level + 1)] \in Nat
      BY <3>1, Rows
    <3>4. Row' = Power[Depth - (level + 1)] /\ Row = Power[Depth - level]
      BY <2>1 DEF Row
    <3> QED
      BY <3>1, <3>2, <3>3, <3>4
  <2>3. NextOnLevel'
    <3>1. DOMAIN next' = {}
      BY <2>1
    <3>2. level' \in 1..Depth /\ 2 * Row' <= Width
      <4> DEFINE r == Row'
      <4>1. r \in Nat /\ Row = 2 * r /\ 2 * Row <= Width
        BY <2>2, <1>4
      <4> HIDE DEF r
      <4>2. 2 * r <= Width
        BY <4>1, <1>3
      <4> QED
        BY <4>2, <2>1, <2>2 DEF r
    <3> QED
      BY <2>1, <3>1, <3>2 DEF NextOnLevel, Ascending
  <2>4. NodesAhead'
    <3>1. 4 * Row' <= Width
      <4> DEFINE r == Row'
      <4>1. r \in Nat /\ Row = 2 * r /\ 2 * Row <= Width
        BY <2>2, <1>4
      <4> HIDE DEF r
      <4>2. 4 * r <= Width
        BY <4>1, <1>3
      <4> QED
        BY <4>2 DEF r
    <3>2. \A a \in DOMAIN indexes' : indexes'[a] \in (2 * Row')..(4 * Row' - 1)
                                     /\ indexes'[a] \in DOMAIN v'
      BY <2>1, <2>2, <1>1, <1>3, <1>4
    <3>3. Ascending(indexes')
      BY <2>1, <1>4 DEF Ascending
    <3>4. DOMAIN next' = {}
      BY <2>1
    <3> QED
      BY <3>1, <3>2, <3>3, <3>4 DEF NodesAhead
  <2>5. LeavesAhead'
    BY <2>1 DEF LeavesAhead
  <2>6. WrongClaimShows'
    <3>1. \A a \in DOMAIN next : a >= 1
      BY <1>3
    <3> QED
      BY <2>1, <3>1, <1>1, <1>5 DEF WrongClaimShows, WrongClaim, Differs
  <2> QED
    BY <2>3, <2>4, <2>5, <2>6 DEF OnTheWay
<1>7. CASE ~(level < Depth)
  <2>1. pc' = "conclude" /\ UNCHANGED <<indexes, next, i, level>>
    BY <1>1, <1>7 DEF VerifyLevel, NextLevel
  <2>2. level' = Depth /\ Row' = Row
    BY <2>1, <1>3, <1>4, <1>7 DEF Row
  <2>3. NextOnLevel'
    BY <2>1, <2>2, <1>4, <1>1 DEF NextOnLevel
  <2>4. LeavesAhead' /\ NodesAhead'
    BY <2>1 DEF LeavesAhead, NodesAhead
  <2>5. WrongClaimShows'
    BY <2>1, <1>1, <1>5 DEF WrongClaimShows, WrongClaim, Differs
  <2> QED
    BY <2>3, <2>4, <2>5 DEF OnTheWay
<1> QED
  BY <1>6, <1>7

LEMMA NodeOnTheWay ==
  ASSUME Before, VerifyNode PROVE OnTheWay'
<1> SUFFICES ASSUME DepthKept' PROVE OnTheWay'
  BY DEF OnTheWay, NextOnLevel, LeavesAhead, NodesAhead, WrongClaimShows
<1> DEFINE node == indexes[i]
<1> DEFINE parent == node \div 2
<1> DEFINE sibling == IF Paired THEN v[Sibling(node)] ELSE received.nodes[i][pointers[i] + 1]
<1> DEFINE digest == Parent(node, v[node], sibling)
<1>1. /\ pc = "verify_nodes" /\ pc' = "verify_nodes" /\ received.depth = Depth
      /\ i <= Len(indexes)
      /\ v' = With(v, parent, digest)
      /\ i' = (IF Paired THEN i + 2 ELSE i + 1)
      /\ next' = Append(next, parent)
      /\ UNCHANGED <<leaves, nodes, request, received, indexes, level>>
  BY DEF VerifyNode, Return, DepthKept, Verifying, tree
<1>2. DepthKept /\ LoopsTyped
  BY <1>1 DEF DepthKept, Verifying, Before
<1>3. indexes \in Seq(Nat) /\ next \in Seq(Nat) /\ i \in Nat /\ i >= 1
      /\ Depth \in Nat /\ Width \in Nat /\ i \in DOMAIN indexes
  BY <1>1, <1>2, Widths DEF Before, ListsTyped, DepthKept, LoopsTyped
<1>4. /\ level \in 1..Depth /\ 2 * Row <= Width
      /\ \A a \in DOMAIN next : next[a] \in Row..(2 * Row - 1) /\ next[a] \in DOMAIN v
      /\ Ascending(next)
  BY <1>2 DEF Before, OnTheWay, NextOnLevel
<1>5. /\ 4 * Row <= Width
      /\ \A a \in DOMAIN indexes : indexes[a] \in (2 * Row)..(4 * Row - 1)
      /\ \A a \in DOMAIN indexes : a >= i => indexes[a] \in DOMAIN v
      /\ Ascending(indexes)
      /\ \A a \in DOMAIN next, b \in DOMAIN indexes :
           b >= i => next[a] < indexes[b] \div 2
  BY <1>1, <1>2 DEF Before, OnTheWay, NodesAhead
<1>6. Row \in Nat /\ Row >= 1 /\ Row' = Row
  BY <1>1, <1>4, Rows DEF Row
<1>7. /\ node \in Nat /\ node >= 2 /\ node \in (2 * Row)..(4 * Row - 1)
      /\ parent \in Nat /\ parent \in Row..(2 * Row - 1) /\ parent \in 1..(Width - 1)
      /\ \A a \in DOMAIN next : next[a] \in Nat /\ next[a] < parent
      /\ \A a \in DOMAIN indexes : indexes[a] \in Nat /\ indexes[a] # parent
  <2>1. node \in Nat /\ node \in (2 * Row)..(4 * Row - 1)
    BY <1>3, <1>5
  <2>2. parent \in Nat /\ parent \in Row..(2 * Row - 1) /\ node >= 2
    BY <2>1, <1>6
  <2>3. \A a \in DOMAIN next : next[a] \in Nat /\ next[a] < parent
    BY <1>3, <1>5
  <2> HIDE DEF parent
  <2>4. \A a \in DOMAIN indexes : indexes[a] \in Nat /\ indexes[a] # parent
    BY <2>2, <1>3, <1>5, <1>6
  <2> QED
    BY <2>1, <2>2, <2>3, <2>4, <1>3, <1>4, <1>6
<1>8. /\ DOMAIN v' = DOMAIN v \cup {parent} /\ v'[parent] = digest
      /\ \A x \in DOMAIN v : x # parent => v'[x] = v[x]
  <2> HIDE DEF parent, digest
  <2> QED
    BY <1>1 DEF With
<1>9. /\ next' \in Seq(Nat) /\ Ascending(next')
      /\ DOMAIN next' = 1..(Len(next) + 1)
      /\ \A a \in DOMAIN next : a \in 1..(Len(next) + 1) /\ next'[a] = next[a]
      /\ Len(next) + 1 \in 1..(Len(next) + 1) /\ next'[Len(next) + 1] = parent
      /\ \A a \in DOMAIN next' : a \in DOMAIN next \/ a = Len(next) + 1
  <2> HIDE DEF parent
  <2>1. /\ next' \in Seq(Nat) /\ Ascending(next')
        /\ DOMAIN next' = 1..(Len(next) + 1)
        /\ \A a \in DOMAIN next : a \in 1..(Len(next) + 1) /\ next'[a] = next[a]
        /\ Len(next) + 1 \in 1..(Len(next) + 1) /\ next'[Len(next) + 1] = parent
    BY <1>1, <1>3, <1>4, <1>7, AppendKeepsOrder
  <2> QED
    BY <2>1, <1>3
(* the nodes the loop has still to visit lie beyond the pair of this one *)
<1>10. \A b \in DOMAIN indexes : b >= i' => parent < indexes[b] \div 2
  <2> SUFFICES ASSUME NEW b \in DOMAIN indexes, b >= i' PROVE parent < indexes[b] \div 2
    OBVIOUS
  <2>1. b > i /\ b \in Nat /\ indexes[b] \in Nat /\ node < indexes[b]
    BY <1>1, <1>3, <1>5 DEF Ascending
  <2>2. CASE Paired
    <3>1. indexes[i + 1] = Sibling(node) /\ i + 1 < b /\ i + 1 \in DOMAIN indexes
      BY <2>2, <1>1, <1>3, <2>1 DEF Paired
    <3>2. Sibling(node) < indexes[b]
      BY <3>1, <2>1, <1>5 DEF Ascending
    <3> HIDE DEF node
    <3> QED
      BY <3>2, <2>1, <1>7, SiblingsMeet
  <2>3. CASE ~Paired
    <3>1. indexes[b] # Sibling(node)
      <4>1. CASE b = i + 1
        BY <4>1, <2>3, <1>3 DEF Paired
      <4>2. CASE b > i + 1
        <5>1. i + 1 \in DOMAIN indexes /\ indexes[i + 1] \in Nat
              /\ node < indexes[i + 1] /\ indexes[i + 1] < indexes[b]
          BY <4>2, <1>3, <1>5 DEF Ascending
        <5> QED
          BY <5>1, <2>1, <1>7 DEF Sibling
      <4> QED
        BY <4>1, <4>2, <2>1, <1>3
    <3> HIDE DEF node
    <3> QED
      BY <3>1, <2>1, <1>7, Halves
  <2> QED
    BY <2>2, <2>3
<1>11. nodes[parent] = Hash(nodes[2 * parent], nodes[2 * parent + 1])
  <2>1. nodes[parent] = Hash(Child(2 * parent), Child(2 * parent + 1))
    BY <1>1, <1>7 DEF Before, BuiltFromTheEnd, TreeIsHashed
  <2>2. 2 * parent < Width /\ 2 * parent + 1 < Width
    BY <1>5, <1>6, <1>7, <1>3
  <2> QED
    BY <2>1, <2>2 DEF Child
(* a wrong digest of the pair makes the digest of the parent wrong *)
<1>12. (v[node] # nodes[node] \/ (Paired /\ v[Sibling(node)] # nodes[Sibling(node)]))
         => v'[parent] # nodes[parent]
  <2> SUFFICES ASSUME v'[parent] = nodes[parent]
               PROVE  v[node] = nodes[node] /\ sibling = nodes[Sibling(node)]
    OBVIOUS
  <2>1. digest = Hash(nodes[2 * parent], nodes[2 * parent + 1])
    BY <1>8, <1>11
  <2>2. /\ node % 2 = 0 => node = 2 * parent /\ Sibling(node) = 2 * parent + 1
        /\ node % 2 # 0 => node = 2 * parent + 1 /\ Sibling(node) = 2 * parent
    BY <1>7, SiblingsMeet
  <2> HIDE DEF node, parent, sibling
  <2>3. CASE node % 2 # 0
    BY <2>1, <2>2, <2>3, HashIsInjective DEF Parent
  <2>4. CASE ~(node % 2 # 0)
    BY <2>1, <2>2, <2>4, HashIsInjective DEF Parent
  <2> QED
    BY <2>3, <2>4
<1> HIDE DEF node, parent, sibling, digest
<1>13. NextOnLevel'
  <2>1. \A a \in DOMAIN next' : next'[a] \in Row..(2 * Row - 1) /\ next'[a] \in DOMAIN v'
    BY <1>4, <1>7, <1>8, <1>9
  <2> QED
    BY <2>1, <1>1, <1>4, <1>6, <1>9 DEF NextOnLevel
<1>14. NodesAhead'
  <2>1. i' > i /\ i' \in Nat
    BY <1>1, <1>3
  <2>2. ASSUME NEW a \in DOMAIN next', NEW b \in DOMAIN indexes, b >= i'
        PROVE  next'[a] < indexes[b] \div 2
    <3>1. b >= i
      BY <2>1, <2>2, <1>3
    <3>2. CASE a \in DOMAIN next
      BY <3>1, <3>2, <1>5, <1>9
    <3>3. CASE a = Len(next) + 1
      BY <2>2, <3>3, <1>9, <1>10
    <3> QED
      BY <3>2, <3>3, <1>9
  <2>3. \A a \in DOMAIN indexes : a >= i' => indexes[a] \in DOMAIN v'
    BY <2>1, <1>3, <1>5, <1>8
  <2> QED
    BY <2>2, <2>3, <1>1, <1>5, <1>6 DEF NodesAhead
<1>15. LeavesAhead'
  BY <1>1 DEF LeavesAhead
<1>16. WrongClaimShows'
  <2> SUFFICES ASSUME \E j \in DOMAIN request : WrongClaim(j)
               PROVE \/ \E a \in DOMAIN next' : Differs(next[a])'
                     \/ \E a \in DOMAIN indexes : a >= i' /\ Differs(indexes[a])'
    BY <1>1 DEF WrongClaimShows, WrongClaim
  <2>1. CASE \E a \in DOMAIN next : Differs(next[a])
    <3>1. PICK a \in DOMAIN next : Differs(next[a])
      BY <2>1
    <3>2. next[a] \in DOMAIN v /\ next[a] # parent
      BY <1>4, <1>7
    <3>3. a \in DOMAIN next' /\ next'[a] = next[a] /\ v'[next[a]] = v[next[a]]
      BY <3>2, <1>8, <1>9
    <3> QED
      BY <3>1, <3>3, <1>1 DEF Differs
  <2>2. CASE \E a \in DOMAIN indexes : a >= i /\ Differs(indexes[a])
    <3>1. PICK a \in DOMAIN indexes : a >= i /\ Differs(indexes[a])
      BY <2>2
    <3>2. CASE a >= i'
      <4>1. v'[indexes[a]] = v[indexes[a]]
        BY <3>1, <1>5, <1>7, <1>8
      <4> QED
        BY <4>1, <3>1, <3>2, <1>1 DEF Differs
    <3>3. CASE ~(a >= i')
      <4>1. a = i \/ (Paired /\ a = i + 1)
        BY <3>1, <3>3, <1>1, <1>3
      <4>2. v[node] # nodes[node] \/ (Paired /\ v[Sibling(node)] # nodes[Sibling(node)])
        BY <4>1, <3>1 DEF node, Differs, Paired
      <4>3. Len(next) + 1 \in DOMAIN next' /\ next'[Len(next) + 1] = parent
        BY <1>9
      <4> QED
        BY <4>2, <4>3, <1>12, <1>1 DEF Differs
    <3> QED
      BY <3>2, <3>3
  <2> QED
    BY <2>1, <2>2, <1>1, <1>2 DEF Before, OnTheWay, WrongClaimShows
<1> QED
  BY <1>13, <1>14, <1>15, <1>16 DEF OnTheWay

(* Every step keeps to the way. *)
LEMMA OnTheWayNext == Before /\ [Next]_vars => OnTheWay'
<1> SUFFICES ASSUME Before, [Next]_vars PROVE OnTheWay'
  OBVIOUS
<1>1. CASE VerifyStart
  BY <1>1, StartsOnTheWay
<1>2. ASSUME NEW index \in pending, VerifyLeaf(index) PROVE OnTheWay'
  BY <1>2, LeafOnTheWay
<1>3. CASE VerifyLevel
  BY <1>3, LevelOnTheWay
<1>4. CASE VerifyNode
  BY <1>4, NodeOnTheWay
<1>5. CASE ~Verifying'
  BY <1>5 DEF OnTheWay, NextOnLevel, LeavesAhead, NodesAhead, WrongClaimShows, DepthKept
<1>6. CASE UNCHANGED vars
  BY <1>6 DEF Before, OnTheWay, NextOnLevel, LeavesAhead, NodesAhead, WrongClaimShows,
     DepthKept, Verifying, Row, Ascending, Repeats, WrongClaim, Differs,
     vars, tree, locals
<1> QED
  BY <1>1, <1>2, <1>3, <1>4, <1>5, <1>6, OnlyTheVerifier

-----------------------------------------------------------------------------
(* Nothing but the last step of a verifier accepts. *)
LEMMA OnlyTheEndAccepts ==
  ASSUME Phases, [Next]_vars, ~Conclude, ~VerifyPath, ~UNCHANGED vars
  PROVE  verdict' # "accept"
<1> USE DEF tree, Panic, Return
<1>1. verdict # "accept"
  <2> SUFFICES ASSUME pc = "done" PROVE FALSE
    BY DEF Phases
  <2> QED
    BY DEF Next, BuildParents, BuildNode, Built, Ask, ProveLeaf, VerifyLeaf, ProveLevel,
       VerifyLevel, NextLevel, ProveNode, Deliver, VerifyStart, VerifyNode, ProvePath
<1>2. verdict' # "accept"
  <2>1. CASE BuildParents \/ BuildNode \/ Built
    BY <1>1, <2>1 DEF BuildParents, BuildNode, Built
  <2>2. ASSUME NEW r \in Requests, Ask(r) PROVE verdict' # "accept"
    BY <1>1, <2>2 DEF Ask
  <2>3. ASSUME NEW index \in pending, ProveLeaf(index) \/ VerifyLeaf(index)
        PROVE  verdict' # "accept"
    BY <1>1, <2>3 DEF ProveLeaf, VerifyLeaf
  <2>4. CASE ProveLevel \/ VerifyLevel
    BY <1>1, <2>4 DEF ProveLevel, VerifyLevel, NextLevel
  <2>5. CASE ProveNode \/ Deliver
    BY <1>1, <2>5 DEF ProveNode, Deliver
  <2>6. CASE VerifyStart
    BY <1>1, <2>6 DEF VerifyStart
  <2>7. CASE VerifyNode
    BY <1>1, <2>7 DEF VerifyNode
  <2>8. ASSUME NEW x \in 0..Width, ProvePath(x) PROVE verdict' # "accept"
    BY <1>1, <2>8 DEF ProvePath
  <2> QED
    BY <2>1, <2>2, <2>3, <2>4, <2>5, <2>6, <2>7, <2>8 DEF Next
<1> QED
  BY <1>2

(* At the root the row is one node, and a wrong digest is a wrong root. *)
LEMMA BindingNext == Before /\ BatchBinding /\ [Next]_vars => BatchBinding'
<1> SUFFICES ASSUME Before, BatchBinding, [Next]_vars,
                    verdict' = "accept", ByBatch', received'.depth = Depth,
                    NEW j \in DOMAIN request'
             PROVE  j \in DOMAIN received'.values /\ received'.values[j] = leaves'[request'[j]]
  BY DEF BatchBinding, ByBatch
<1> USE DEF tree, Panic, Return
<1>1. CASE Conclude
  <2>1. /\ pc = "conclude" /\ v[1] = nodes[1]
        /\ UNCHANGED <<leaves, nodes, request, received>>
    BY <1>1 DEF Conclude
  <2>2. DepthKept
    BY <2>1 DEF DepthKept, Verifying
  <2>3. level = Depth /\ Row = 1
    BY <2>1, <2>2, Rows DEF Before, OnTheWay, NextOnLevel, Row
  <2>4. \A a \in DOMAIN next : next[a] = 1
    BY <2>2, <2>3 DEF Before, OnTheWay, NextOnLevel
  <2>5. ~WrongClaim(j)
    BY <2>1, <2>2, <2>4 DEF Before, OnTheWay, WrongClaimShows, Differs
  <2>6. request \in Seq(Nat) /\ j \in Nat
    BY <2>1 DEF Before, LoopsTyped
  <2> QED
    BY <2>1, <2>5 DEF WrongClaim
<1>2. CASE VerifyPath
  <2>1. path # <<>> /\ path' = path
    BY <1>2 DEF VerifyPath, Before, Phases
  <2> QED
    BY <2>1 DEF ByBatch
<1>3. CASE UNCHANGED vars
  BY <1>3 DEF BatchBinding, ByBatch, vars
<1>4. CASE ~Conclude /\ ~VerifyPath /\ ~UNCHANGED vars
  BY <1>4, OnlyTheEndAccepts DEF Before
<1> QED
  BY <1>1, <1>2, <1>3, <1>4

LEMMA InvariantInit == Init => Invariant
<1> SUFFICES ASSUME Init PROVE Invariant
  OBVIOUS
<1>1. pc = "new" /\ verdict = "none"
  BY DEF Init
<1> QED
  BY <1>1, TypedInit, BuiltInit, PhasesInit
  DEF Invariant, NextOnLevel, LeavesAhead, NodesAhead, WrongClaimShows, BatchBinding,
      DepthKept, Verifying

LEMMA InvariantNext == Invariant /\ [Next]_vars => Invariant'
BY TypedNext, ListsNext, BuiltNext, PhasesNext, OnTheWayNext, BindingNext
DEF Invariant, Before, OnTheWay

LEMMA InvariantHolds == Spec => []Invariant
BY InvariantInit, InvariantNext, PTL DEF Spec

(* build_merkle_nodes leaves no inner node unwritten or wrongly paired, for  *)
(* trees of any depth.                                                       *)
THEOREM TreesAreHashed == Spec => []TreeIsHashed
<1>1. Invariant => TreeIsHashed
  BY DEF Invariant, BuiltFromTheEnd
<1> QED
  BY <1>1, InvariantHolds, PTL

(* What verify_batch accepts are the leaves of the tree, for trees of any    *)
(* depth, all requests, and every fault a delivery may have.                 *)
THEOREM BatchesBind == Spec => []BatchBinding
<1>1. Invariant => BatchBinding
  BY DEF Invariant
<1> QED
  BY <1>1, InvariantHolds, PTL

-----------------------------------------------------------------------------
(* Induction over the naturals, and the one path that climbs to the root. *)

(* A set of naturals that is not empty has a least member. *)
LEMMA Least ==
  ASSUME NEW S, S \subseteq Nat, S # {}
  PROVE  \E x \in S : \A y \in S : x <= y
<1> DEFINE R == {p \in Nat \X Nat : p[1] < p[2]}
<1>1. IsWellFoundedOn(R, Nat)
  BY NatLessThanWellFounded DEF OpToRel
<1> HIDE DEF R
<1>2. PICK x \in S : \A y \in S : ~ (<<y, x>> \in R)
  BY <1>1, WFMin
<1>3. ASSUME NEW y \in S PROVE x <= y
  <2>1. x \in Nat /\ y \in Nat /\ <<y, x>> \notin R
    BY <1>2
  <2> QED
    BY <2>1 DEF R
<1> QED
  BY <1>3

(* Dividing by a power and then by two is dividing by the next power. *)
LEMMA DivTwice ==
  ASSUME NEW a \in Nat, NEW p \in Nat, p >= 1
  PROVE  a \div (2 * p) = (a \div p) \div 2
OBVIOUS

(* the hashes of Climb: f[j] is the digest after the first j of them *)
Climbs(f, n, p, x) ==
  /\ f = [j \in 1..n |-> f[j]]
  /\ \A j \in 1..n : f[j] =
       IF j = 1 THEN Hash(p[1 + (x % 2)], p[2 - (x % 2)])
       ELSE Parent((x + Power[Len(p) - 1]) \div Power[j - 1], f[j - 1], p[j + 1])

(* The hashes of Climb exist, up to any number of them. *)
LEMMA ClimbsExist ==
  ASSUME NEW p, NEW x
  PROVE  \A n \in Nat : \E f : Climbs(f, n, p, x)
<1> DEFINE S == {n \in Nat : ~\E f : Climbs(f, n, p, x)}
<1> SUFFICES ASSUME S # {} PROVE FALSE
  OBVIOUS
<1>1. PICK n \in S : \A m \in S : n <= m
  <2> HIDE DEF S
  <2>1. S \subseteq Nat
    BY DEF S
  <2> QED
    BY <2>1, Least
<1>2. n \in Nat /\ ~\E f : Climbs(f, n, p, x)
  OBVIOUS
<1>3. CASE n = 0
  <2>1. Climbs([j \in 1..0 |-> j], 0, p, x)
    BY DEF Climbs
  <2> QED
    BY <1>2, <1>3, <2>1
<1>4. CASE n # 0
  <2>1. n - 1 \in Nat /\ n - 1 \notin S
    BY <1>1, <1>2, <1>4
  <2>2. PICK f : Climbs(f, n - 1, p, x)
    BY <2>1
  <2> DEFINE top == IF n = 1 THEN Hash(p[1 + (x % 2)], p[2 - (x % 2)])
                    ELSE Parent((x + Power[Len(p) - 1]) \div Power[n - 1], f[n - 1], p[n + 1])
  <2> DEFINE g == [j \in 1..n |-> IF j = n THEN top ELSE f[j]]
  <2> HIDE DEF top
  <2>3. ASSUME NEW j \in 1..n
        PROVE g[j] = IF j = 1 THEN Hash(p[1 + (x % 2)], p[2 - (x % 2)])
                     ELSE Parent((x + Power[Len(p) - 1]) \div Power[j - 1], g[j - 1], p[j + 1])
    <3>1. CASE j = n
      <4>1. n # 1 => g[n - 1] = f[n - 1]
        BY <1>2, <1>4
      <4> QED
        BY <3>1, <4>1, <1>2 DEF top
    <3>2. CASE j # n
      <4>1. j \in 1..(n - 1) /\ (j # 1 => j - 1 \in 1..n /\ j - 1 # n)
        BY <3>2, <1>2
      <4> QED
        BY <3>2, <4>1, <2>2 DEF Climbs
    <3> QED
      BY <3>1, <3>2
  <2>4. Climbs(g, n, p, x)
    <3> HIDE DEF g
    <3>1. g = [j \in 1..n |-> g[j]]
      BY DEF g
    <3> QED
      BY <2>3, <3>1 DEF Climbs
  <2> QED
    BY <1>2, <2>4
<1> QED
  BY <1>3, <1>4

(* Climb is the last of its hashes. *)
LEMMA ClimbStops ==
  ASSUME NEW p, NEW x, Len(p) - 1 \in Nat
  PROVE  \E f : Climbs(f, Len(p) - 1, p, x) /\ Climb(p, x) = f[Len(p) - 1]
<1> DEFINE N == Len(p) - 1
<1> DEFINE Is(f) == f = [j \in 1..N |->
        IF j = 1 THEN Hash(p[1 + (x % 2)], p[2 - (x % 2)])
        ELSE Parent((x + Power[Len(p) - 1]) \div Power[j - 1], f[j - 1], p[j + 1])]
<1>1. PICK f : Climbs(f, N, p, x)
  BY ClimbsExist
<1>2. Is(f)
  <2> HIDE DEF N
  <2> QED
  BY <1>1 DEF Climbs
<1> DEFINE Up == CHOOSE g : Is(g)
<1>3. Is(Up)
  BY <1>2
<1>4. Climbs(Up, N, p, x)
  <2> HIDE DEF Up
  <2> QED
  BY <1>3 DEF Climbs
<1>5. Climb(p, x) = Up[N]
  BY DEF Climb
<1> QED
  BY <1>4, <1>5

(* Induction over the naturals, for a set. *)
LEMMA Induction ==
  ASSUME NEW S, 0 \in S, \A n \in Nat : n \in S => n + 1 \in S
  PROVE  \A n \in Nat : n \in S
<1> DEFINE C == {n \in Nat : n \notin S}
<1> SUFFICES ASSUME C # {} PROVE FALSE
  OBVIOUS
<1> HIDE DEF C
<1>1. PICK n \in C : \A m \in C : n <= m
  BY Least DEF C
<1>2. n \in Nat /\ n # 0 /\ n - 1 \in Nat /\ n - 1 \notin C
  <2>1. n \in Nat /\ n # 0
    BY DEF C
  <2> QED
    BY <2>1, <1>1
<1>3. (n - 1) + 1 \in S
  BY <1>2 DEF C
<1> QED
  BY <1>2, <1>3 DEF C

(* The ancestor of a leaf in every row lies in that row, and each is half   *)
(* of the one below.                                                        *)
Ancestor(x, m) == (x + Width) \div Power[m]
LEMMA Ancestors ==
  ASSUME NEW x \in 0..(Width - 1)
  PROVE  /\ Ancestor(x, 0) = x + Width /\ Ancestor(x, Depth) = 1
         /\ \A m \in 0..Depth : Ancestor(x, m) \in Power[Depth - m]..(2 * Power[Depth - m] - 1)
         /\ \A m \in 0..(Depth - 1) : Ancestor(x, m + 1) = Ancestor(x, m) \div 2
<1>1. Depth \in Nat /\ Depth >= 1 /\ Width \in Nat /\ x \in Nat /\ x + Width \in Nat
  BY Widths
<1>2. \A m \in 0..(Depth + 1) : Power[m] \in Nat /\ Power[m] >= 1
  BY DepthAssumption
<1>3. ASSUME NEW m \in 0..(Depth - 1) PROVE Ancestor(x, m + 1) = Ancestor(x, m) \div 2
  <2>1. Power[m + 1] = 2 * Power[m] /\ Power[m] \in Nat /\ Power[m] >= 1
    BY <1>1, <1>2, DepthAssumption
  <2> QED
    BY <2>1, <1>1, DivTwice DEF Ancestor
<1>4. Ancestor(x, 0) = x + Width
  BY <1>1, DepthAssumption DEF Ancestor
<1> DEFINE S == {m \in Nat : m <= Depth =>
                   Ancestor(x, m) \in Power[Depth - m]..(2 * Power[Depth - m] - 1)}
<1>5. 0 \in S
  BY <1>1, <1>2, <1>4 DEF Width
<1>6. ASSUME NEW m \in Nat, m \in S PROVE m + 1 \in S
  <2> SUFFICES ASSUME m + 1 <= Depth
               PROVE  Ancestor(x, m + 1) \in Power[Depth - (m + 1)]..(2 * Power[Depth - (m + 1)] - 1)
    OBVIOUS
  <2>1. m \in 0..(Depth - 1) /\ m <= Depth /\ Depth - (m + 1) \in 0..Depth
        /\ (Depth - (m + 1)) + 1 = Depth - m
    BY <1>1
  <2>2. Power[Depth - m] = 2 * Power[Depth - (m + 1)] /\ Power[Depth - (m + 1)] \in Nat
    BY <2>1, <1>2, <1>1, DepthAssumption
  <2>3. Ancestor(x, m) \in Power[Depth - m]..(2 * Power[Depth - m] - 1)
    BY <1>6, <2>1
  <2>4. Ancestor(x, m + 1) = Ancestor(x, m) \div 2
    BY <1>3, <2>1
  <2> DEFINE p == Power[Depth - (m + 1)]
  <2> DEFINE a == Ancestor(x, m)
  <2>5. p \in Nat /\ a \in (2 * p)..(2 * (2 * p) - 1)
    BY <2>2, <2>3
  <2> HIDE DEF p, a
  <2>6. a \div 2 \in p..(2 * p - 1)
    BY <2>5
  <2> QED
    BY <2>4, <2>6 DEF p, a
<1>7. \A m \in Nat : m \in S
  <2> HIDE DEF S
  <2> QED
    BY <1>5, <1>6, Induction
<1>8. \A m \in 0..Depth : Ancestor(x, m) \in Power[Depth - m]..(2 * Power[Depth - m] - 1)
  BY <1>1, <1>7
<1>9. Ancestor(x, Depth) = 1
  <2>1. Power[Depth - Depth] = 1
    BY Rows
  <2>2. Ancestor(x, Depth) \in 1..(2 * 1 - 1)
    BY <1>1, <1>8, <2>1
  <2> QED
    BY <2>2
<1> QED
  BY <1>3, <1>4, <1>8, <1>9

(* A single path leads to the root if and only if it is the right one. *)
LEMMA OnePath ==
  ASSUME TreeIsHashed, pc \notin {"new", "build"}, NEW x \in 0..(Width - 1),
         NEW p, Len(p) = Depth + 1
  PROVE  Climb(p, x) = nodes[1] <=>
           /\ p[1] = leaves[x] /\ p[2] = leaves[Sibling(x)]
           /\ \A m \in 1..(Depth - 1) : p[m + 2] = nodes[Sibling(Ancestor(x, m))]
<1> DEFINE Right(j) ==
      /\ p[1] = leaves[x] /\ p[2] = leaves[Sibling(x)]
      /\ \A m \in 1..(j - 1) : p[m + 2] = nodes[Sibling(Ancestor(x, m))]
<1>1. Depth \in Nat /\ Depth >= 1 /\ Width \in Nat /\ Width >= 2 /\ x \in Nat
      /\ Len(p) - 1 = Depth
  BY Widths
<1>2. PICK Up : Climbs(Up, Len(p) - 1, p, x) /\ Climb(p, x) = Up[Len(p) - 1]
  BY <1>1, ClimbStops
<1>3. \A j \in 1..Depth : Up[j] =
       IF j = 1 THEN Hash(p[1 + (x % 2)], p[2 - (x % 2)])
       ELSE Parent(Ancestor(x, j - 1), Up[j - 1], p[j + 1])
  BY <1>1, <1>2 DEF Climbs, Ancestor, Width
<1>4. ASSUME NEW j \in 1..Depth
      PROVE  /\ Ancestor(x, j) \in 1..(Width - 1) /\ Ancestor(x, j - 1) \in Nat
             /\ Ancestor(x, j) = Ancestor(x, j - 1) \div 2
             /\ nodes[Ancestor(x, j)] = Hash(Child(2 * Ancestor(x, j)), Child(2 * Ancestor(x, j) + 1))
  <2>1. j - 1 \in 0..(Depth - 1) /\ (j - 1) + 1 = j /\ j - 1 \in 0..Depth /\ j \in 0..Depth
    BY <1>1
  <2>2. Ancestor(x, j) = Ancestor(x, j - 1) \div 2
    BY <2>1, Ancestors
  <2>3. Power[Depth - j] \in Nat /\ Power[Depth - j] >= 1 /\ Power[Depth - (j - 1)] \in Nat
    <3>1. Depth - j \in 0..(Depth + 1) /\ Depth - (j - 1) \in 0..(Depth + 1)
      BY <1>1
    <3> QED
      BY <3>1, DepthAssumption
  <2>4. Ancestor(x, j) \in Power[Depth - j]..(2 * Power[Depth - j] - 1)
    BY <2>1, Ancestors
  <2>5. Ancestor(x, j - 1) \in Power[Depth - (j - 1)]..(2 * Power[Depth - (j - 1)] - 1)
    BY <2>1, Ancestors
  <2>6. Ancestor(x, j) < Width
    <3>1. Ancestor(x, j) <= Ancestor(x, 0) \div 2
      <4> DEFINE S == {n \in Nat : n + 1 <= Depth => Ancestor(x, n + 1) <= Ancestor(x, 0) \div 2}
      <4>1. 0 \in S
        BY <1>1, Ancestors
      <4>2. ASSUME NEW n \in Nat, n \in S PROVE n + 1 \in S
        <5> SUFFICES ASSUME (n + 1) + 1 <= Depth
                     PROVE Ancestor(x, (n + 1) + 1) <= Ancestor(x, 0) \div 2
          OBVIOUS
        <5>1. n + 1 \in 0..(Depth - 1) /\ n + 1 <= Depth /\ n + 1 \in 0..Depth
          BY <1>1
        <5>2. Ancestor(x, (n + 1) + 1) = Ancestor(x, n + 1) \div 2
          BY <5>1, Ancestors
        <5>3. Ancestor(x, n + 1) <= Ancestor(x, 0) \div 2
          BY <4>2, <5>1
        <5>4. Ancestor(x, n + 1) \in Nat
          <6>1. Depth - (n + 1) \in 0..(Depth + 1)
            BY <1>1
          <6>2. Power[Depth - (n + 1)] \in Nat
            BY <6>1, DepthAssumption
          <6> QED
            BY <6>2, <5>1, Ancestors
        <5>5. Ancestor(x, 0) \in Nat
          <6>1. Ancestor(x, 0) = x + Width
            BY Ancestors
          <6> QED
            BY <6>1, <1>1
        <5> QED
          BY <5>2, <5>3, <5>4, <5>5
      <4>3. \A n \in Nat : n \in S
        <5> HIDE DEF S
        <5> QED
          BY <4>1, <4>2, Induction
      <4>4. j - 1 \in Nat /\ (j - 1) + 1 = j /\ j <= Depth
        BY <1>1
      <4>5. j - 1 \in S
        BY <4>3, <4>4
      <4> QED
        BY <4>4, <4>5
    <3>2. Ancestor(x, 0) = x + Width /\ x < Width
      BY <1>1, Ancestors
    <3> QED
      BY <3>1, <3>2, <1>1, <2>3, <2>4
  <2>7. Ancestor(x, j) \in 1..(Width - 1) /\ Ancestor(x, j - 1) \in Nat
    BY <2>3, <2>4, <2>5, <2>6, <1>1
  <2> QED
    BY <2>2, <2>7 DEF TreeIsHashed
<1> DEFINE S == {n \in Nat : n + 1 <= Depth =>
                   (Up[n + 1] = nodes[Ancestor(x, n + 1)] <=> Right(n + 1))}
<1>5. 0 \in S
  <2>1. 1 \in 1..Depth /\ Ancestor(x, 0) = x + Width /\ 1 - 1 = 0
    BY <1>1, Ancestors
  <2>2. /\ Ancestor(x, 1) \in Nat /\ Ancestor(x, 1) = (x + Width) \div 2
        /\ nodes[Ancestor(x, 1)] = Hash(Child(2 * Ancestor(x, 1)), Child(2 * Ancestor(x, 1) + 1))
    BY <2>1, <1>4
  <2>3. Up[1] = Hash(p[1 + (x % 2)], p[2 - (x % 2)])
    BY <1>3, <2>1
  <2>4. Right(1) <=> p[1] = leaves[x] /\ p[2] = leaves[Sibling(x)]
    OBVIOUS
  <2> DEFINE h == Ancestor(x, 1)
  <2>5. PICK w \in Nat : Width = 2 * w
    BY Widths
  <2>6. h \in Nat /\ h = (x + 2 * w) \div 2
    BY <2>2, <2>5
  <2> HIDE DEF h, Right
  <2>7. CASE x % 2 = 0
    <3>1. 2 * h = x + Width /\ Sibling(x) = x + 1
      BY <2>6, <2>5, <2>7, <1>1 DEF Sibling
    <3>2. Child(2 * h) = leaves[x] /\ Child(2 * h + 1) = leaves[Sibling(x)]
      <4>1. ~(2 * h < Width) /\ ~(2 * h + 1 < Width) /\ 2 * h - Width = x /\ (2 * h + 1) - Width = x + 1
        BY <3>1, <1>1
      <4> QED
        BY <4>1, <3>1 DEF Child
    <3>3. Up[1] = Hash(p[1], p[2])
      BY <2>3, <2>7
    <3>4. nodes[h] = Hash(leaves[x], leaves[Sibling(x)])
      BY <2>2, <3>2 DEF h
    <3>5. Up[1] = nodes[h] <=> Right(1)
      BY <3>3, <3>4, <2>4, HashIsInjective
    <3> QED
      BY <3>5, <1>1 DEF h
  <2>8. CASE x % 2 # 0
    <3>1. 2 * h + 1 = x + Width /\ Sibling(x) = x - 1 /\ x % 2 = 1
      BY <2>6, <2>5, <2>8, <1>1 DEF Sibling
    <3>2. Child(2 * h + 1) = leaves[x] /\ Child(2 * h) = leaves[Sibling(x)]
      <4>1. ~(2 * h < Width) /\ ~(2 * h + 1 < Width) /\ 2 * h - Width = x - 1 /\ (2 * h + 1) - Width = x
        BY <3>1, <2>5, <2>6, <2>8, <1>1
      <4> QED
        BY <4>1, <3>1 DEF Child
    <3>3. Up[1] = Hash(p[2], p[1])
      BY <2>3, <3>1
    <3>4. nodes[h] = Hash(leaves[Sibling(x)], leaves[x])
      BY <2>2, <3>2 DEF h
    <3>5. Up[1] = nodes[h] <=> Right(1)
      BY <3>3, <3>4, <2>4, HashIsInjective
    <3> QED
      BY <3>5, <1>1 DEF h
  <2> QED
    BY <2>7, <2>8
<1>6. ASSUME NEW n \in Nat, n \in S PROVE n + 1 \in S
  <2> DEFINE j == n + 2
  <2> SUFFICES ASSUME j <= Depth
               PROVE  Up[j] = nodes[Ancestor(x, j)] <=> Right(j)
    <3>1. (n + 1) + 1 = n + 2
      OBVIOUS
    <3> QED
      BY <3>1
  <2>1. j \in 1..Depth /\ j - 1 \in 1..Depth /\ j # 1 /\ j - 1 = n + 1 /\ n + 1 <= Depth
    BY <1>1
  <2> DEFINE a == Ancestor(x, j - 1)
  <2> DEFINE h == Ancestor(x, j)
  <2>2. /\ h \in 1..(Width - 1) /\ a \in 1..(Width - 1) /\ h = a \div 2
        /\ nodes[h] = Hash(Child(2 * h), Child(2 * h + 1))
    BY <2>1, <1>4
  <2>3. Up[j] = Parent(a, Up[j - 1], p[j + 1])
    BY <2>1, <1>3
  <2>4. Up[j - 1] = nodes[a] <=> Right(j - 1)
    BY <1>6, <2>1
  <2>5. Right(j) <=> Right(j - 1) /\ p[j + 1] = nodes[Sibling(a)]
    <3>1. \A m : m \in 1..(j - 1) <=> m \in 1..((j - 1) - 1) \/ m = j - 1
      BY <2>1, <1>1
    <3>2. (j - 1) + 2 = j + 1
      OBVIOUS
    <3> QED
      BY <3>1, <3>2
  <2> HIDE DEF j, a, h, Right
  <2>6. CASE a % 2 = 0
    <3>1. 2 * h = a /\ Sibling(a) = 2 * h + 1 /\ 2 * h < Width /\ 2 * h + 1 < Width
      <4>1. PICK w \in Nat : Width = 2 * w
        BY Widths
      <4> QED
        BY <2>2, <2>6, <4>1 DEF Sibling
    <3>2. nodes[h] = Hash(nodes[a], nodes[Sibling(a)])
      BY <2>2, <3>1 DEF Child
    <3>3. Up[j] = Hash(Up[j - 1], p[j + 1])
      BY <2>3, <2>6 DEF Parent
    <3> QED
      BY <2>4, <2>5, <3>2, <3>3, HashIsInjective DEF h
  <2>7. CASE a % 2 # 0
    <3>1. 2 * h + 1 = a /\ Sibling(a) = 2 * h /\ 2 * h < Width /\ 2 * h + 1 < Width
      BY <2>2, <2>7, <1>1 DEF Sibling
    <3>2. nodes[h] = Hash(nodes[Sibling(a)], nodes[a])
      BY <2>2, <3>1 DEF Child
    <3>3. Up[j] = Hash(p[j + 1], Up[j - 1])
      BY <2>3, <2>7 DEF Parent
    <3> QED
      BY <2>4, <2>5, <3>2, <3>3, HashIsInjective DEF h
  <2> QED
    BY <2>6, <2>7
<1>7. \A n \in Nat : n \in S
  <2> HIDE DEF S
  <2> QED
    BY <1>5, <1>6, Induction
<1>8. Up[Depth] = nodes[Ancestor(x, Depth)] <=> Right(Depth)
  <2>1. Depth - 1 \in Nat /\ (Depth - 1) + 1 = Depth /\ Depth <= Depth
    BY <1>1
  <2>2. Depth - 1 \in S
    BY <2>1, <1>7
  <2> HIDE DEF Right
  <2> QED
    BY <2>1, <2>2
<1>9. Ancestor(x, Depth) = 1
  BY Ancestors
<1> QED
  BY <1>1, <1>2, <1>8, <1>9

-----------------------------------------------------------------------------
(* Lists in ascending order, and the rows of a request. *)

(* A list in ascending order that has the least members of another is how   *)
(* the other begins.                                                        *)
LEMMA AscendingPrefix ==
  ASSUME NEW s \in Seq(Nat), NEW t \in Seq(Nat), Ascending(s), Ascending(t),
         \A a \in DOMAIN s : \E b \in DOMAIN t : s[a] = t[b],
         \A b \in DOMAIN t, a \in DOMAIN s : t[b] < s[a] => \E c \in DOMAIN s : s[c] = t[b]
  PROVE  \A a \in DOMAIN s : a \in DOMAIN t /\ s[a] = t[a]
<1> DEFINE Bad == {a \in DOMAIN s : ~(a \in DOMAIN t /\ s[a] = t[a])}
<1> SUFFICES ASSUME Bad # {} PROVE FALSE
  OBVIOUS
<1>1. PICK a \in Bad : \A b \in Bad : a <= b
  <2> HIDE DEF Bad
  <2>1. Bad \subseteq Nat
    BY DEF Bad
  <2> QED
    BY <2>1, Least
<1>2. a \in DOMAIN s /\ ~(a \in DOMAIN t /\ s[a] = t[a]) /\ a \in Nat /\ a >= 1
      /\ \A c \in DOMAIN s : c < a => c \in DOMAIN t /\ s[c] = t[c]
  BY <1>1
<1> HIDE DEF Bad
<1>3. PICK b \in DOMAIN t : s[a] = t[b]
  BY <1>2
<1>4. b >= a
  <2> SUFFICES ASSUME b < a PROVE FALSE
    BY <1>2
  <2>1. b \in DOMAIN s
    BY <1>2
  <2>2. s[b] = t[b] /\ s[b] < s[a] /\ s[b] \in Nat /\ s[a] \in Nat
    BY <2>1, <1>2 DEF Ascending
  <2> QED
    BY <2>2, <1>3
<1>5. b > a /\ a \in DOMAIN t
  BY <1>2, <1>3, <1>4
<1>6. t[a] \in Nat /\ t[a] < s[a]
  BY <1>3, <1>5 DEF Ascending
<1>7. PICK c \in DOMAIN s : s[c] = t[a]
  BY <1>2, <1>5, <1>6
<1>8. c < a
  <2> SUFFICES ASSUME a <= c PROVE FALSE
    BY <1>2
  <2>1. s[a] \in Nat /\ s[c] \in Nat /\ c \in Nat /\ a \in DOMAIN s
    BY <1>2
  <2>2. a < c => s[a] < s[c]
    BY <2>1 DEF Ascending
  <2>3. CASE a < c
    BY <2>1, <2>2, <2>3, <1>6, <1>7
  <2>4. CASE a = c
    <3>1. s[a] = t[a]
      BY <2>4, <1>7
    <3> QED
      BY <3>1, <1>2, <1>5
  <2> QED
    BY <2>1, <2>3, <2>4
<1>9. c \in DOMAIN t /\ t[c] = t[a] /\ t[c] < t[a]
  BY <1>2, <1>5, <1>7, <1>8 DEF Ascending
<1> QED
  BY <1>6, <1>9

(* The members of a set in ascending order. *)
Enumerates(s, S) == s \in Seq(Nat) /\ Ascending(s) /\ S = {s[a] : a \in DOMAIN s}

(* There is one list of the members of a set in ascending order. *)
LEMMA OneEnumeration ==
  ASSUME NEW S, NEW s, NEW t, Enumerates(s, S), Enumerates(t, S)
  PROVE  s = t
<1>1. s \in Seq(Nat) /\ t \in Seq(Nat) /\ Ascending(s) /\ Ascending(t)
  BY DEF Enumerates
<1>2. /\ \A a \in DOMAIN s : s[a] \in S
      /\ \A a \in DOMAIN t : t[a] \in S
      /\ \A y \in S : \E a \in DOMAIN s : s[a] = y
      /\ \A y \in S : \E a \in DOMAIN t : t[a] = y
  BY DEF Enumerates
<1>3. \A a \in DOMAIN s : a \in DOMAIN t /\ s[a] = t[a]
  <2>1. \A a \in DOMAIN s : \E b \in DOMAIN t : s[a] = t[b]
    BY <1>2
  <2>2. \A b \in DOMAIN t, a \in DOMAIN s : t[b] < s[a] => \E c \in DOMAIN s : s[c] = t[b]
    BY <1>2
  <2> QED
    BY <1>1, <2>1, <2>2, AscendingPrefix
<1>4. \A a \in DOMAIN t : a \in DOMAIN s
  <2>1. \A a \in DOMAIN t : \E b \in DOMAIN s : t[a] = s[b]
    BY <1>2
  <2>2. \A b \in DOMAIN s, a \in DOMAIN t : s[b] < t[a] => \E c \in DOMAIN t : t[c] = s[b]
    BY <1>2
  <2> QED
    BY <1>1, <2>1, <2>2, AscendingPrefix
<1>5. Len(s) = Len(t)
  <2>1. Len(s) \in Nat /\ Len(t) \in Nat
    BY <1>1
  <2>2. CASE Len(s) < Len(t)
    <3>1. Len(t) \in DOMAIN t /\ Len(t) \notin DOMAIN s
      BY <1>1, <2>1, <2>2
    <3> QED
      BY <3>1, <1>4
  <2>3. CASE Len(t) < Len(s)
    <3>1. Len(s) \in DOMAIN s /\ Len(s) \notin DOMAIN t
      BY <1>1, <2>1, <2>3
    <3> QED
      BY <3>1, <1>3
  <2> QED
    BY <2>1, <2>2, <2>3
<1> QED
  BY <1>1, <1>3, <1>5

(* There is such a list for every finite set of naturals. *)
LEMMA EnumerationExists ==
  ASSUME NEW n \in Nat, NEW S, S \subseteq 0..n
  PROVE  \E s : Enumerates(s, S)
<1> DEFINE Part(m) == {y \in S : y < m}
<1> DEFINE D == {m \in Nat : \E s : Enumerates(s, Part(m))}
<1>0. \A y \in S : y \in Nat /\ y <= n
  OBVIOUS
<1>1. 0 \in D
  <2>1. \A y \in S : ~(y < 0)
    BY <1>0
  <2>3. Part(0) = {}
    BY <2>1
  <2>2. Enumerates(<<>>, {})
    BY DEF Enumerates, Ascending
  <2> QED
    BY <2>2, <2>3
<1>2. ASSUME NEW m \in Nat, m \in D PROVE m + 1 \in D
  <2>1. PICK s : Enumerates(s, Part(m))
    BY <1>2
  <2> SUFFICES \E t : Enumerates(t, Part(m + 1))
    OBVIOUS
  <2>2. CASE m \notin S
    <3>1. \A y \in S : y < m + 1 <=> y < m
      BY <1>0, <2>2
    <3>2. Part(m + 1) = Part(m)
      BY <3>1
    <3> QED
      BY <3>2, <2>1
  <2>3. CASE m \in S
    <3>1. Part(m + 1) = Part(m) \cup {m}
      <4>1. \A y \in S : y < m + 1 <=> y < m \/ y = m
        BY <1>0
      <4> QED
        BY <4>1, <2>3
    <3>2. \A y \in Part(m) : y < m
      OBVIOUS
    <3> HIDE DEF Part
    <3>3. s \in Seq(Nat) /\ Ascending(s) /\ Part(m) = {s[a] : a \in DOMAIN s}
      BY <2>1 DEF Enumerates
    <3>4. \A a \in DOMAIN s : s[a] < m
      BY <3>2, <3>3
    <3>5. /\ Append(s, m) \in Seq(Nat) /\ Ascending(Append(s, m))
          /\ DOMAIN Append(s, m) = 1..(Len(s) + 1)
          /\ \A a \in DOMAIN s : a \in 1..(Len(s) + 1) /\ Append(s, m)[a] = s[a]
          /\ Len(s) + 1 \in 1..(Len(s) + 1) /\ Append(s, m)[Len(s) + 1] = m
      BY <3>3, <3>4, AppendKeepsOrder
    <3>6. \A a \in 1..(Len(s) + 1) : a \in DOMAIN s \/ a = Len(s) + 1
      BY <3>3
    <3>7. Part(m + 1) = {Append(s, m)[a] : a \in DOMAIN Append(s, m)}
      <4>1. ASSUME NEW y \in Part(m + 1) PROVE \E a \in DOMAIN Append(s, m) : y = Append(s, m)[a]
        BY <3>1, <3>3, <3>5
      <4>2. ASSUME NEW a \in DOMAIN Append(s, m) PROVE Append(s, m)[a] \in Part(m + 1)
        BY <3>1, <3>3, <3>5, <3>6
      <4> QED
        BY <4>1, <4>2
    <3>8. Enumerates(Append(s, m), Part(m + 1))
      BY <3>5, <3>7 DEF Enumerates
    <3> QED
      BY <3>8
  <2> QED
    BY <2>2, <2>3
<1>3. n + 1 \in D
  <2>1. \A m \in Nat : m \in D
    <3> HIDE DEF D
    <3> QED
      BY <1>1, <1>2, Induction
  <2> QED
    BY <2>1
<1>4. Part(n + 1) = S
  <2>1. \A y \in S : y < n + 1
    BY <1>0
  <2> QED
    BY <2>1
<1> QED
  BY <1>3, <1>4

-----------------------------------------------------------------------------
(* The rows of a request: the ancestors of the leaves asked for, in the     *)
(* order in which both loops visit them.                                    *)
RowSet(r, m) == {Ancestor(r[j], m) : j \in DOMAIN r}
RowList(r, m) == CHOOSE s : Enumerates(s, RowSet(r, m))

Valid(r) == r \in Seq(Nat) /\ r # <<>> /\ ~MapFails(r, Width - 1)

(* The indexes of a valid request are those of leaves, none twice. *)
LEMMA ValidIndexes ==
  ASSUME NEW r, Valid(r)
  PROVE  /\ r \in Seq(Nat) /\ 1 \in DOMAIN r /\ ~Repeats(r)
         /\ \A j \in DOMAIN r : r[j] \in Nat /\ r[j] < Width /\ r[j] \in 0..(Width - 1)
<1>1. r \in Seq(Nat) /\ r # <<>> /\ ~MapFails(r, Width - 1)
  BY DEF Valid
<1>2. \A j \in DOMAIN r : r[j] \in Nat /\ ~(r[j] > Width - 1)
  BY <1>1 DEF MapFails
<1> QED
  BY <1>1, <1>2, Widths DEF MapFails

(* Each row of a request has the parents of the row below, up to the root. *)
LEMMA RowSets ==
  ASSUME NEW r, Valid(r)
  PROVE  /\ \A m \in 0..Depth : RowSet(r, m) \subseteq Power[Depth - m]..(2 * Power[Depth - m] - 1)
         /\ \A m \in 0..(Depth - 1) : RowSet(r, m + 1) = {y \div 2 : y \in RowSet(r, m)}
         /\ RowSet(r, Depth) = {1}
         /\ RowSet(r, 1) = {(x + Width) \div 2 : x \in Normalized(r)}
<1>0. Depth \in Nat /\ Depth >= 1 /\ Width \in Nat
  BY Widths
<1>1. \A j \in DOMAIN r :
        /\ r[j] \in Nat /\ Ancestor(r[j], 0) = r[j] + Width /\ Ancestor(r[j], Depth) = 1
        /\ \A m \in 0..Depth : Ancestor(r[j], m) \in Power[Depth - m]..(2 * Power[Depth - m] - 1)
        /\ \A m \in 0..(Depth - 1) : Ancestor(r[j], m + 1) = Ancestor(r[j], m) \div 2
  BY ValidIndexes, Ancestors
<1>2. \A m \in 0..(Depth - 1) : RowSet(r, m + 1) = {y \div 2 : y \in RowSet(r, m)}
  <2> TAKE m \in 0..(Depth - 1)
  <2>1. ASSUME NEW j \in DOMAIN r PROVE Ancestor(r[j], m + 1) = Ancestor(r[j], m) \div 2
    BY <1>1
  <2> QED
    BY <2>1 DEF RowSet
<1>3. RowSet(r, Depth) = {1}
  BY <1>1, ValidIndexes DEF RowSet
<1>4. RowSet(r, 1) = {(x + Width) \div 2 : x \in Normalized(r)}
  <2>1. \A j \in DOMAIN r : Ancestor(r[j], 1) = (r[j] - (r[j] % 2) + Width) \div 2
    <3> TAKE j \in DOMAIN r
    <3>1. PICK w \in Nat : Width = 2 * w
      BY Widths
    <3>2. Ancestor(r[j], 1) = (r[j] + Width) \div 2
      <4>1. 0 \in 0..(Depth - 1) /\ 0 + 1 = 1
        BY <1>0
      <4>2. Ancestor(r[j], 0 + 1) = Ancestor(r[j], 0) \div 2
        BY <1>1, <4>1
      <4> QED
        BY <4>1, <4>2, <1>1
    <3>3. r[j] \in Nat
      BY <1>1
    <3>4. \A x \in Nat : (x + 2 * w) \div 2 = (x - (x % 2) + 2 * w) \div 2
      OBVIOUS
    <3>5. (r[j] + 2 * w) \div 2 = (r[j] - (r[j] % 2) + 2 * w) \div 2
      BY <3>3, <3>4
    <3> QED
      BY <3>1, <3>2, <3>5
  <2> QED
    BY <2>1 DEF RowSet, Normalized
<1>5. \A m \in 0..Depth : RowSet(r, m) \subseteq Power[Depth - m]..(2 * Power[Depth - m] - 1)
  BY <1>1 DEF RowSet
<1> QED
  BY <1>2, <1>3, <1>4, <1>5

(* The list of a row has the members of the row. *)
LEMMA RowLists ==
  ASSUME NEW r, Valid(r), NEW m \in 0..Depth
  PROVE  Enumerates(RowList(r, m), RowSet(r, m))
<1> DEFINE p == Power[Depth - m]
<1>1. p \in Nat /\ p >= 1 /\ RowSet(r, m) \subseteq p..(2 * p - 1)
  <2>1. Depth - m \in 0..(Depth + 1)
    BY Widths
  <2> QED
    BY <2>1, RowSets, DepthAssumption
<1> HIDE DEF p
<1>2. RowSet(r, m) \subseteq 0..(2 * p) /\ 2 * p \in Nat
  BY <1>1
<1>3. \E s : Enumerates(s, RowSet(r, m))
  BY <1>2, EnumerationExists
<1> QED
  BY <1>3 DEF RowList

-----------------------------------------------------------------------------
(* Where the loops are in the rows. *)

(* The first loop, halfway: the pairs not in rest have their parents in t.  *)
LeafWalk(r, rest, t) ==
  /\ rest \subseteq Normalized(r) /\ t \in Seq(Nat) /\ Ascending(t)
  /\ {t[a] : a \in DOMAIN t} = {(x + Width) \div 2 : x \in Normalized(r) \ rest}
  /\ \A x \in rest, a \in DOMAIN t : 2 * t[a] < Width + x
  /\ IsFiniteSet(rest)
  /\ Cardinality(rest) + Len(t) = Cardinality(Normalized(r))

(* The loop over row l - 1, halfway: s is the row, t the parents of the     *)
(* nodes before position n.                                                 *)
NodeWalk(r, l, s, t, n) ==
  /\ l \in 2..Depth /\ s = RowList(r, l - 1) /\ Len(s) <= Len(RowList(r, 1))
  /\ n \in 1..(Len(s) + 1)
  /\ t \in Seq(Nat) /\ Ascending(t) /\ Len(t) < n
  /\ {t[a] : a \in DOMAIN t} = {s[b] \div 2 : b \in 1..(n - 1)}
  /\ \A a \in DOMAIN t, b \in DOMAIN s : b >= n => t[a] < s[b] \div 2

(* Normalized indexes are even and those of the left leaves of pairs. *)
LEMMA NormalizedBounds ==
  ASSUME NEW r, Valid(r)
  PROVE  /\ \A x \in Normalized(r) : /\ x \in Nat /\ x % 2 = 0 /\ x + 1 < Width
                                     /\ (x + Width) \div 2 \in 1..(Width - 1)
                                     /\ 2 * ((x + Width) \div 2) = x + Width
         /\ IsFiniteSet(Normalized(r)) /\ Normalized(r) # {}
<1>1. r \in Seq(Nat) /\ 1 \in DOMAIN r /\ \A j \in DOMAIN r : r[j] \in Nat /\ r[j] < Width
  BY ValidIndexes
<1>2. PICK w \in Nat : Width = 2 * w
  BY Widths
<1>3. Width >= 2
  BY Widths
<1>4. ASSUME NEW y \in Nat, y < 2 * w
      PROVE  LET x == y - (y % 2) IN
             /\ x \in Nat /\ x % 2 = 0 /\ x + 1 < 2 * w
             /\ (x + 2 * w) \div 2 \in 1..(2 * w - 1)
             /\ 2 * ((x + 2 * w) \div 2) = x + 2 * w
  <2>1. PICK h \in Nat : y - (y % 2) = 2 * h
    <3>1. y - (y % 2) = 2 * (y \div 2) /\ y \div 2 \in Nat
      OBVIOUS
    <3> QED
      BY <3>1
  <2>2. h < w
    BY <2>1, <1>4
  <2>3. (2 * h + 2 * w) \div 2 = h + w
    OBVIOUS
  <2> QED
    BY <2>1, <2>2, <2>3
<1>5. \A x \in Normalized(r) : /\ x \in Nat /\ x % 2 = 0 /\ x + 1 < Width
                               /\ (x + Width) \div 2 \in 1..(Width - 1)
                               /\ 2 * ((x + Width) \div 2) = x + Width
  <2> TAKE x \in Normalized(r)
  <2>1. PICK j \in DOMAIN r : x = r[j] - (r[j] % 2)
    BY DEF Normalized
  <2>2. r[j] \in Nat /\ r[j] < 2 * w
    BY <1>1, <1>2
  <2> HIDE DEF Normalized
  <2> QED
    BY <2>1, <2>2, <1>2, <1>4
<1>6. IsFiniteSet(Normalized(r))
  <2>1. IsFiniteSet(DOMAIN r)
    BY <1>1, FS_Interval
  <2> DEFINE F == [j \in DOMAIN r |-> r[j] - (r[j] % 2)]
  <2>2. F \in Surjection(DOMAIN r, Normalized(r))
    BY DEF Surjection, Normalized
  <2> QED
    BY <2>1, <2>2, FS_Surjection
<1>7. Normalized(r) # {}
  BY <1>1 DEF Normalized
<1> QED
  BY <1>5, <1>6, <1>7

(* The first loop starts with nothing listed. *)
LEMMA LeafWalkStarts ==
  ASSUME NEW r, Valid(r)
  PROVE  LeafWalk(r, Normalized(r), <<>>)
<1>1. IsFiniteSet(Normalized(r)) /\ Cardinality(Normalized(r)) \in Nat
  BY NormalizedBounds, FS_CardinalityType
<1>2. {<<>>[a] : a \in DOMAIN <<>>} = {(x + Width) \div 2 : x \in Normalized(r) \ Normalized(r)}
  OBVIOUS
<1> QED
  BY <1>1, <1>2 DEF LeafWalk, Ascending

(* Where the loops over leaves put a parent is where it stands in its row.  *)
LEMMA LeafWalkListsRow ==
  ASSUME NEW r, Valid(r), NEW rest, NEW t, LeafWalk(r, rest, t)
  PROVE  \A a \in DOMAIN t : a \in DOMAIN RowList(r, 1) /\ t[a] = RowList(r, 1)[a]
<1> DEFINE s == RowList(r, 1)
<1>0. 1 \in 0..Depth
  BY Widths
<1>1. s \in Seq(Nat) /\ Ascending(s) /\ RowSet(r, 1) = {s[a] : a \in DOMAIN s}
  BY <1>0, RowLists DEF Enumerates
<1>2. RowSet(r, 1) = {(x + Width) \div 2 : x \in Normalized(r)}
  BY RowSets
<1>3. t \in Seq(Nat) /\ Ascending(t) /\ rest \subseteq Normalized(r)
      /\ {t[a] : a \in DOMAIN t} = {(x + Width) \div 2 : x \in Normalized(r) \ rest}
      /\ \A x \in rest, a \in DOMAIN t : 2 * t[a] < Width + x
  BY DEF LeafWalk
<1> HIDE DEF s
<1>4. \A a \in DOMAIN t : \E b \in DOMAIN s : t[a] = s[b]
  BY <1>1, <1>2, <1>3
<1>5. ASSUME NEW b \in DOMAIN s, NEW a \in DOMAIN t, s[b] < t[a]
      PROVE  \E c \in DOMAIN t : t[c] = s[b]
  <2>1. PICK x \in Normalized(r) : s[b] = (x + Width) \div 2
    BY <1>1, <1>2
  <2>2. x \notin rest
    <3> SUFFICES ASSUME x \in rest PROVE FALSE
      OBVIOUS
    <3>1. 2 * t[a] < Width + x /\ t[a] \in Nat
      BY <1>3
    <3>2. 2 * s[b] = x + Width /\ s[b] \in Nat /\ x \in Nat /\ Width \in Nat
      BY <2>1, <1>1, NormalizedBounds, Widths
    <3> QED
      BY <3>1, <3>2, <1>5
  <2> QED
    BY <2>1, <2>2, <1>3
<1>6. \A a \in DOMAIN t : a \in DOMAIN s /\ t[a] = s[a]
  BY <1>1, <1>3, <1>4, <1>5, AscendingPrefix
<1> QED
  BY <1>6 DEF s

(* One pair of leaves more, and its parent where it stands in its row. *)
LEMMA LeafStep ==
  ASSUME NEW r, Valid(r), NEW rest, NEW t, LeafWalk(r, rest, t), NEW x, IsLeast(x, rest)
  PROVE  LET p == (x + Width) \div 2
             k == Len(t) + 1 IN
         /\ LeafWalk(r, rest \ {x}, Append(t, p))
         /\ x \in Nat /\ x % 2 = 0 /\ x + 1 < Width /\ p \in 1..(Width - 1) /\ 2 * p = x + Width
         /\ DOMAIN t = 1..Len(t) /\ k \in Nat
         /\ DOMAIN Append(t, p) = 1..k
         /\ k \in DOMAIN RowList(r, 1) /\ RowList(r, 1)[k] = p
<1> DEFINE p == (x + Width) \div 2
<1> DEFINE k == Len(t) + 1
<1>1. x \in rest /\ \A y \in rest : x <= y
  BY DEF IsLeast
<1>2. t \in Seq(Nat) /\ Ascending(t) /\ rest \subseteq Normalized(r)
      /\ {t[a] : a \in DOMAIN t} = {(y + Width) \div 2 : y \in Normalized(r) \ rest}
      /\ (\A y \in rest, a \in DOMAIN t : 2 * t[a] < Width + y)
      /\ IsFiniteSet(rest)
      /\ Cardinality(rest) + Len(t) = Cardinality(Normalized(r))
  BY DEF LeafWalk
<1>3. x \in Nat /\ x % 2 = 0 /\ x + 1 < Width /\ p \in 1..(Width - 1) /\ 2 * p = x + Width
      /\ Width \in Nat /\ p \in Nat
  BY <1>1, <1>2, NormalizedBounds, Widths
<1> HIDE DEF p
<1>4. \A a \in DOMAIN t : t[a] < p
  <2> TAKE a \in DOMAIN t
  <2>1. 2 * t[a] < Width + x /\ t[a] \in Nat
    BY <1>1, <1>2
  <2> QED
    BY <2>1, <1>3
<1>5. /\ Append(t, p) \in Seq(Nat) /\ Ascending(Append(t, p))
      /\ DOMAIN Append(t, p) = 1..(Len(t) + 1)
      /\ \A a \in DOMAIN t : a \in 1..(Len(t) + 1) /\ Append(t, p)[a] = t[a]
      /\ Len(t) + 1 \in 1..(Len(t) + 1) /\ Append(t, p)[Len(t) + 1] = p
  BY <1>2, <1>3, <1>4, AppendKeepsOrder
<1>6. \A a \in 1..(Len(t) + 1) : a \in DOMAIN t \/ a = Len(t) + 1
  BY <1>2
<1>7. {Append(t, p)[a] : a \in DOMAIN Append(t, p)}
        = {(y + Width) \div 2 : y \in Normalized(r) \ (rest \ {x})}
  <2>1. ASSUME NEW a \in DOMAIN Append(t, p)
        PROVE  \E y \in Normalized(r) \ (rest \ {x}) : Append(t, p)[a] = (y + Width) \div 2
    <3>1. CASE a \in DOMAIN t
      BY <3>1, <1>2, <1>5
    <3>2. CASE a = Len(t) + 1
      BY <3>2, <1>1, <1>2, <1>5 DEF p
    <3> QED
      BY <3>1, <3>2, <1>5, <1>6
  <2>2. ASSUME NEW y \in Normalized(r) \ (rest \ {x})
        PROVE  \E a \in DOMAIN Append(t, p) : Append(t, p)[a] = (y + Width) \div 2
    <3>1. CASE y = x
      BY <3>1, <1>5 DEF p
    <3>2. CASE y \in Normalized(r) \ rest
      BY <3>2, <1>2, <1>5
    <3> QED
      BY <3>1, <3>2
  <2> QED
    BY <2>1, <2>2
<1>8. ASSUME NEW y \in rest \ {x}, NEW a \in DOMAIN Append(t, p)
      PROVE  2 * Append(t, p)[a] < Width + y
  <2>1. y \in Nat /\ x < y
    <3>1. y \in Nat /\ x <= y /\ x # y
      BY <1>1, <1>2, NormalizedBounds
    <3> QED
      BY <3>1, <1>3
  <2>2. CASE a \in DOMAIN t
    BY <2>2, <1>2, <1>5
  <2>3. CASE a = Len(t) + 1
    BY <2>1, <2>3, <1>3, <1>5
  <2> QED
    BY <2>2, <2>3, <1>5, <1>6
<1>9. IsFiniteSet(rest \ {x}) /\ Cardinality(rest \ {x}) = Cardinality(rest) - 1
      /\ Cardinality(rest) \in Nat
  BY <1>1, <1>2, FS_RemoveElement, FS_CardinalityType
<1>10. Len(Append(t, p)) = Len(t) + 1 /\ Len(t) \in Nat
  BY <1>2, <1>5
<1>11. Cardinality(rest \ {x}) + Len(Append(t, p)) = Cardinality(Normalized(r))
  BY <1>2, <1>9, <1>10
<1>12. LeafWalk(r, rest \ {x}, Append(t, p))
  BY <1>2, <1>5, <1>7, <1>8, <1>9, <1>11 DEF LeafWalk
<1>13. k \in DOMAIN RowList(r, 1) /\ RowList(r, 1)[k] = p
  BY <1>5, <1>12, LeafWalkListsRow
<1> QED
  BY <1>2, <1>3, <1>5, <1>10, <1>12, <1>13 DEF p

(* At the end of the first loop the first row is listed. *)
LEMMA LeafWalkEnds ==
  ASSUME NEW r, Valid(r), NEW t, LeafWalk(r, {}, t)
  PROVE  t = RowList(r, 1) /\ Len(t) = Cardinality(Normalized(r))
<1>1. t \in Seq(Nat) /\ Ascending(t)
      /\ {t[a] : a \in DOMAIN t} = {(y + Width) \div 2 : y \in Normalized(r) \ {}}
      /\ Cardinality({}) + Len(t) = Cardinality(Normalized(r))
  BY DEF LeafWalk
<1>2. RowSet(r, 1) = {(x + Width) \div 2 : x \in Normalized(r)} /\ 1 \in 0..Depth
  BY RowSets, Widths
<1>3. Enumerates(t, RowSet(r, 1))
  BY <1>1, <1>2 DEF Enumerates
<1>4. t = RowList(r, 1)
  BY <1>2, <1>3, RowLists, OneEnumeration
<1>5. Cardinality({}) = 0 /\ Len(t) \in Nat
  BY <1>1, FS_EmptySet
<1> QED
  BY <1>1, <1>4, <1>5

(* A row that is complete is the one the next loop visits. *)
LEMMA NodeWalkStarts ==
  ASSUME NEW r, Valid(r), NEW l \in 1..(Depth - 1), Len(RowList(r, l)) <= Len(RowList(r, 1))
  PROVE  NodeWalk(r, l + 1, RowList(r, l), <<>>, 1)
<1>1. l \in 0..Depth /\ l + 1 \in 2..Depth /\ (l + 1) - 1 = l
  BY Widths
<1>2. RowList(r, l) \in Seq(Nat)
  BY <1>1, RowLists DEF Enumerates
<1> DEFINE s == RowList(r, l)
<1>3. s \in Seq(Nat)
  BY <1>2
<1> HIDE DEF s
<1>4. 1 \in 1..(Len(s) + 1) /\ Len(<<>>) < 1 /\ 1..(1 - 1) = {}
  BY <1>3
<1>5. {<<>>[a] : a \in DOMAIN <<>>} = {s[b] \div 2 : b \in 1..(1 - 1)}
  BY <1>4
<1> QED
  BY <1>1, <1>4, <1>5 DEF NodeWalk, Ascending, s

(* At the end of the loop over a row the next one is listed. *)
LEMMA NodeWalkEnds ==
  ASSUME NEW r, Valid(r), NEW l, NEW s, NEW t, NEW n, NodeWalk(r, l, s, t, n), n > Len(s)
  PROVE  t = RowList(r, l) /\ Len(t) <= Len(RowList(r, 1)) /\ l \in 2..Depth
<1>1. /\ l \in 2..Depth /\ s = RowList(r, l - 1) /\ Len(s) <= Len(RowList(r, 1))
      /\ n \in 1..(Len(s) + 1)
      /\ t \in Seq(Nat) /\ Ascending(t) /\ Len(t) < n
      /\ {t[a] : a \in DOMAIN t} = {s[b] \div 2 : b \in 1..(n - 1)}
  BY DEF NodeWalk
<1>2. l - 1 \in 0..(Depth - 1) /\ l - 1 \in 0..Depth /\ (l - 1) + 1 = l /\ l \in 0..Depth /\ 1 \in 0..Depth
  BY <1>1, Widths
<1>3. s \in Seq(Nat) /\ RowSet(r, l - 1) = {s[a] : a \in DOMAIN s}
      /\ RowList(r, 1) \in Seq(Nat)
  BY <1>1, <1>2, RowLists DEF Enumerates
<1>4. RowSet(r, l) = {y \div 2 : y \in RowSet(r, l - 1)}
  BY <1>2, RowSets
<1>5. n - 1 = Len(s) /\ DOMAIN s = 1..(n - 1)
  BY <1>1, <1>3
<1>6. Enumerates(t, RowSet(r, l))
  <2>1. RowSet(r, l) = {s[b] \div 2 : b \in DOMAIN s}
    BY <1>3, <1>4
  <2>2. RowSet(r, l) = {t[a] : a \in DOMAIN t}
    BY <2>1, <1>1, <1>5
  <2> QED
    BY <2>2, <1>1 DEF Enumerates
<1>7. t = RowList(r, l)
  BY <1>2, <1>6, RowLists, OneEnumeration
<1>8. Len(RowList(r, 1)) \in Nat
  BY <1>3
<1>9. Len(t) <= Len(RowList(r, 1))
  BY <1>1, <1>3, <1>5, <1>8
<1> QED
  BY <1>1, <1>7, <1>9

-----------------------------------------------------------------------------
(* What a request takes from each row. *)

(* What a request takes from the tree.  Row 0 is that of the leaves, whose  *)
(* pairs are visited at the positions of their parents.                     *)
Visited(r, q, k) ==
  IF q # 0 THEN RowList(r, q)[k]
  ELSE IF 2 * RowList(r, 1)[k] \in RowSet(r, 0) THEN 2 * RowList(r, 1)[k]
  ELSE 2 * RowList(r, 1)[k] + 1
Beside(r, q, k) == Sibling(Visited(r, q, k))
Uses(r, q, k) ==
  /\ k \in DOMAIN RowList(r, IF q = 0 THEN 1 ELSE q)
  /\ Beside(r, q, k) \notin RowSet(r, q)
(* how many of rows 0 to m add to list k *)
Count(r, k, m) == Cardinality({q \in 0..m : Uses(r, q, k)})

(* A row adds one digest to a list, or none. *)
LEMMA Counts ==
  ASSUME NEW r, NEW k
  PROVE  /\ Count(r, k, 0) = IF Uses(r, 0, k) THEN 1 ELSE 0
         /\ \A m \in Nat : Count(r, k, m) \in Nat
         /\ \A m \in Nat : Count(r, k, m + 1) =
              IF Uses(r, m + 1, k) THEN Count(r, k, m) + 1 ELSE Count(r, k, m)
         /\ \A m \in Nat : \A q \in 0..m : Count(r, k, q) <= Count(r, k, m)
         /\ \A q \in Nat : Uses(r, q, k) => Count(r, k, q) >= 1
<1> DEFINE U(m) == {q \in 0..m : Uses(r, q, k)}
<1>1. ASSUME NEW m \in Nat PROVE IsFiniteSet(U(m)) /\ Cardinality(U(m)) \in Nat
  <2>1. IsFiniteSet(0..m)
    BY FS_Interval
  <2>2. U(m) \subseteq 0..m
    OBVIOUS
  <2> HIDE DEF U
  <2> QED
    BY <2>1, <2>2, FS_Subset, FS_CardinalityType
<1>2. U(0) = IF Uses(r, 0, k) THEN {0} ELSE {}
  OBVIOUS
<1>3. ASSUME NEW m \in Nat
      PROVE  U(m + 1) = IF Uses(r, m + 1, k) THEN U(m) \cup {m + 1} ELSE U(m)
  <2>1. \A q : q \in 0..(m + 1) <=> q \in 0..m \/ q = m + 1
    OBVIOUS
  <2> QED
    BY <2>1
<1>4. \A m \in Nat : m + 1 \notin U(m)
  OBVIOUS
<1>5. ASSUME NEW m \in Nat, NEW q \in 0..m PROVE U(q) \subseteq U(m)
  OBVIOUS
<1>6. \A q \in Nat : Uses(r, q, k) => q \in U(q)
  OBVIOUS
<1>7. \A m : Count(r, k, m) = Cardinality(U(m))
  BY DEF Count
<1> HIDE DEF U
<1>8. Count(r, k, 0) = IF Uses(r, 0, k) THEN 1 ELSE 0
  <2>1. Cardinality({}) = 0 /\ Cardinality({0}) = 1
    BY FS_EmptySet, FS_Singleton
  <2>2. CASE Uses(r, 0, k)
    BY <1>2, <1>7, <2>1, <2>2
  <2>3. CASE ~Uses(r, 0, k)
    BY <1>2, <1>7, <2>1, <2>3
  <2> QED
    BY <2>2, <2>3
<1>9. ASSUME NEW m \in Nat
      PROVE  Count(r, k, m + 1) = IF Uses(r, m + 1, k) THEN Count(r, k, m) + 1 ELSE Count(r, k, m)
  <2>1. CASE Uses(r, m + 1, k)
    <3>1. Cardinality(U(m) \cup {m + 1}) = Cardinality(U(m)) + 1
      BY <1>1, <1>4, FS_AddElement
    <3> QED
      BY <2>1, <3>1, <1>3, <1>7
  <2>2. CASE ~Uses(r, m + 1, k)
    BY <2>2, <1>3, <1>7
  <2> QED
    BY <2>1, <2>2
<1>10. ASSUME NEW m \in Nat, NEW q \in 0..m PROVE Count(r, k, q) <= Count(r, k, m)
  BY <1>1, <1>5, <1>7, FS_Subset
<1>11. ASSUME NEW q \in Nat, Uses(r, q, k) PROVE Count(r, k, q) >= 1
  <2>1. U(q) # {} /\ IsFiniteSet(U(q)) /\ Cardinality(U(q)) \in Nat
    BY <1>1, <1>6, <1>11
  <2>2. Cardinality(U(q)) # 0
    BY <2>1, FS_EmptySet
  <2> QED
    BY <1>7, <2>1, <2>2
<1> QED
  BY <1>1, <1>7, <1>8, <1>9, <1>10, <1>11

AskedIn(r, x) == \E j \in DOMAIN r : r[j] = x

(* The pair of leaves at position k of the first row. *)
LEMMA LeafUses ==
  ASSUME NEW r, Valid(r), NEW x \in Nat, x % 2 = 0, x + 1 < Width,
         NEW k \in DOMAIN RowList(r, 1), 2 * RowList(r, 1)[k] = x + Width
  PROVE  /\ AskedIn(r, x) \/ AskedIn(r, x + 1)
         /\ Uses(r, 0, k) <=> ~(AskedIn(r, x) /\ AskedIn(r, x + 1))
         /\ ~AskedIn(r, x) => Beside(r, 0, k) = x + Width
         /\ ~AskedIn(r, x + 1) => Beside(r, 0, k) = (x + 1) + Width
<1> DEFINE p == RowList(r, 1)[k]
<1>0. Width \in Nat /\ 0 \in 0..(Depth - 1) /\ 1 \in 0..Depth /\ 0 + 1 = 1
  BY Widths
<1>1. \A y \in Nat : y + Width \in RowSet(r, 0) <=> AskedIn(r, y)
  <2>1. \A j \in DOMAIN r : r[j] \in Nat /\ Ancestor(r[j], 0) = r[j] + Width
    BY ValidIndexes, Ancestors
  <2> TAKE y \in Nat
  <2>2. \A j \in DOMAIN r : r[j] + Width = y + Width <=> r[j] = y
    BY <2>1, <1>0
  <2> QED
    BY <2>1, <2>2 DEF RowSet, AskedIn
<1>2. 2 * p = x + Width /\ 2 * p + 1 = (x + 1) + Width
  BY <1>0
<1>3. AskedIn(r, x) \/ AskedIn(r, x + 1)
  <2>1. p \in RowSet(r, 0 + 1)
    BY <1>0, RowLists DEF Enumerates
  <2>2. PICK y \in RowSet(r, 0) : p = y \div 2
    BY <2>1, <1>0, RowSets
  <2>3. PICK j \in DOMAIN r : y = r[j] + Width /\ r[j] \in Nat
    BY <2>2, ValidIndexes, Ancestors DEF RowSet
  <2>4. y \in {2 * p, 2 * p + 1}
    <3>1. y \in Nat
      BY <2>3, <1>0
    <3> HIDE DEF p
    <3> QED
      BY <3>1, <2>2
  <2>5. r[j] = x \/ r[j] = x + 1
    BY <2>3, <2>4, <1>2, <1>0
  <2> QED
    BY <2>5 DEF AskedIn
<1>4. Visited(r, 0, k) = IF AskedIn(r, x) THEN x + Width ELSE (x + 1) + Width
  <2>1. 2 * p \in RowSet(r, 0) <=> AskedIn(r, x)
    BY <1>1, <1>2
  <2> QED
    BY <2>1, <1>2 DEF Visited
<1>5. PICK h \in Nat : x + Width = 2 * h
  <2>1. PICK w \in Nat : Width = 2 * w
    BY Widths
  <2>2. x = 2 * (x \div 2) /\ x \div 2 \in Nat
    OBVIOUS
  <2> QED
    BY <2>1, <2>2
<1>6. Sibling(x + Width) = (x + 1) + Width /\ Sibling((x + 1) + Width) = x + Width
  <2>1. (x + Width) % 2 = 0 /\ ((x + 1) + Width) % 2 = 1
    BY <1>0, <1>5
  <2> QED
    BY <2>1, <1>0 DEF Sibling
<1>7. /\ AskedIn(r, x) => Beside(r, 0, k) = (x + 1) + Width
      /\ ~AskedIn(r, x) => Beside(r, 0, k) = x + Width
  BY <1>4, <1>6 DEF Beside
<1>8. Uses(r, 0, k) <=> ~(AskedIn(r, x) /\ AskedIn(r, x + 1))
  <2>1. Uses(r, 0, k) <=> Beside(r, 0, k) \notin RowSet(r, 0)
    BY DEF Uses
  <2>2. x + 1 \in Nat
    OBVIOUS
  <2> QED
    BY <2>1, <2>2, <1>1, <1>3, <1>7
<1> QED
  BY <1>3, <1>7, <1>8

(* One node of the loop over a row. *)
LEMMA NodeStep ==
  ASSUME NEW r, Valid(r), NEW l, NEW s, NEW t, NEW n, NodeWalk(r, l, s, t, n), n <= Len(s)
  PROVE  LET paired == n < Len(s) /\ s[n + 1] = Sibling(s[n])
             n2 == IF paired THEN n + 2 ELSE n + 1
             p == s[n] \div 2
         IN
         /\ NodeWalk(r, l, s, Append(t, p), n2)
         /\ s \in Seq(Nat) /\ n \in DOMAIN s /\ s[n] \in Nat /\ s[n] >= 2 /\ s[n] < Width
         /\ n \in DOMAIN RowList(r, 1)
         /\ s[n] \in RowSet(r, l - 1) /\ p \in RowSet(r, l) /\ p \in 1..(Width - 1)
         /\ Beside(r, l - 1, n) = Sibling(s[n])
         /\ Uses(r, l - 1, n) <=> ~paired
         /\ paired => ~Uses(r, l - 1, n + 1)
<1> DEFINE paired == n < Len(s) /\ s[n + 1] = Sibling(s[n])
<1> DEFINE n2 == IF paired THEN n + 2 ELSE n + 1
<1> DEFINE p == s[n] \div 2
<1>0. Depth \in Nat /\ Width \in Nat /\ Depth >= 1
  BY Widths
<1>1. /\ l \in 2..Depth /\ s = RowList(r, l - 1) /\ Len(s) <= Len(RowList(r, 1))
      /\ n \in 1..(Len(s) + 1)
      /\ t \in Seq(Nat) /\ Ascending(t) /\ Len(t) < n
      /\ {t[a] : a \in DOMAIN t} = {s[b] \div 2 : b \in 1..(n - 1)}
      /\ \A a \in DOMAIN t, b \in DOMAIN s : b >= n => t[a] < s[b] \div 2
  BY DEF NodeWalk
<1>2. l - 1 \in 1..(Depth - 1) /\ l - 1 \in 0..(Depth - 1) /\ l - 1 \in 0..Depth
      /\ (l - 1) + 1 = l /\ l \in 0..Depth /\ 1 \in 0..Depth /\ l - 1 # 0
  BY <1>0, <1>1
<1>3. /\ s \in Seq(Nat) /\ Ascending(s) /\ RowSet(r, l - 1) = {s[a] : a \in DOMAIN s}
      /\ RowList(r, 1) \in Seq(Nat)
  BY <1>1, <1>2, RowLists DEF Enumerates
<1>4. RowSet(r, l) = {y \div 2 : y \in RowSet(r, l - 1)}
  BY <1>2, RowSets
<1> DEFINE low == Power[Depth - (l - 1)]
<1>5. low \in Nat /\ low >= 2 /\ 2 * low <= Width /\ RowSet(r, l - 1) \subseteq low..(2 * low - 1)
  <2>1. RowSet(r, l - 1) \subseteq low..(2 * low - 1)
    BY <1>2, RowSets
  <2>2. Power[Depth - (l - 1)] = 2 * Power[Depth - l] /\ Power[Depth - l] \in Nat /\ Power[Depth - l] >= 1
    <3>1. l - 1 \in 1..Depth /\ l - 1 < Depth /\ l \in 1..Depth
      BY <1>0, <1>1
    <3> QED
      BY <3>1, <1>2, Rows
  <2>3. \A m \in 1..Depth : 2 * Power[Depth - m] <= Width
    <3> DEFINE S == {m \in Nat : m + 1 <= Depth => 2 * Power[Depth - (m + 1)] <= Width}
    <3>1. 0 \in S
      BY <1>0, Rows
    <3>2. ASSUME NEW m \in Nat, m \in S PROVE m + 1 \in S
      <4> SUFFICES ASSUME (m + 1) + 1 <= Depth
                   PROVE  2 * Power[Depth - ((m + 1) + 1)] <= Width
        OBVIOUS
      <4>1. m + 1 \in 1..Depth /\ m + 1 < Depth /\ (m + 1) + 1 \in 1..Depth /\ m + 1 <= Depth
        BY <1>0
      <4> DEFINE a == Power[Depth - (m + 1)]
      <4> DEFINE b == Power[Depth - ((m + 1) + 1)]
      <4>2. a = 2 * b /\ b \in Nat /\ 2 * a <= Width
        BY <4>1, <3>2, Rows
      <4> HIDE DEF a, b
      <4>3. 2 * b <= Width
        BY <4>2, <1>0
      <4> QED
        BY <4>3 DEF b
    <3>3. \A m \in Nat : m \in S
      <4> HIDE DEF S
      <4> QED
        BY <3>1, <3>2, Induction
    <3> TAKE m \in 1..Depth
    <3>4. m - 1 \in Nat /\ m - 1 \in S /\ (m - 1) + 1 = m /\ m <= Depth
      BY <3>3, <1>0
    <3> QED
      BY <3>4
  <2>4. l - 1 \in 1..Depth
    BY <1>0, <1>1
  <2> QED
    BY <2>1, <2>2, <2>3, <2>4
<1>6. n \in DOMAIN s /\ n \in Nat /\ n >= 1 /\ s[n] \in RowSet(r, l - 1)
  BY <1>1, <1>3
<1>7. s[n] \in Nat /\ s[n] >= 2 /\ s[n] < Width
  <2> HIDE DEF low
  <2> QED
    BY <1>5, <1>6, <1>0
<1>8. p \in Nat /\ p \in RowSet(r, l) /\ p \in 1..(Width - 1)
  BY <1>4, <1>6, <1>7, <1>0
<1>9. n \in DOMAIN RowList(r, 1)
  BY <1>1, <1>3, <1>6
<1>10. Beside(r, l - 1, n) = Sibling(s[n])
  BY <1>1, <1>2 DEF Beside, Visited
<1>11. \A b \in DOMAIN s : b > n => s[b] \in Nat /\ s[n] < s[b]
  BY <1>3, <1>6 DEF Ascending
(* a sibling on the row stands next to this node *)
<1>12. Sibling(s[n]) \in RowSet(r, l - 1) <=> paired
  <2>1. ASSUME paired PROVE Sibling(s[n]) \in RowSet(r, l - 1)
    <3>1. n + 1 \in DOMAIN s
      BY <2>1, <1>3, <1>6
    <3> QED
      BY <3>1, <2>1, <1>3
  <2>2. ASSUME Sibling(s[n]) \in RowSet(r, l - 1) PROVE paired
    <3>1. PICK b \in DOMAIN s : s[b] = Sibling(s[n])
      BY <2>2, <1>3
    <3>2. Sibling(s[n]) # s[n] /\ Sibling(s[n]) \div 2 = s[n] \div 2
      BY <1>7, SiblingsMeet
    <3>3. b # n /\ b \in Nat /\ b >= 1
      BY <3>1, <3>2, <1>3
    <3>4. ~(b < n)
      <4> SUFFICES ASSUME b < n PROVE FALSE
        OBVIOUS
      <4>1. b \in 1..(n - 1)
        BY <3>3, <1>6
      <4>2. PICK a \in DOMAIN t : t[a] = s[b] \div 2
        BY <4>1, <1>1
      <4>3. t[a] < s[n] \div 2 /\ t[a] \in Nat
        BY <1>1, <1>6
      <4> QED
        BY <4>2, <4>3, <3>1, <3>2, <1>8
    <3>5. b > n
      BY <3>3, <3>4, <1>6
    <3>6. n + 1 \in DOMAIN s /\ n < Len(s)
      BY <3>5, <1>3, <1>6
    <3>7. s[n + 1] \in Nat /\ s[n] < s[n + 1]
      BY <3>6, <1>11, <1>6
    <3>8. CASE b = n + 1
      BY <3>1, <3>6, <3>8
    <3>9. CASE b > n + 1
      <4>1. s[n + 1] < s[b]
        BY <3>6, <3>9, <1>3 DEF Ascending
      <4>2. s[b] \in Nat /\ s[b] <= s[n] + 1
        BY <3>1, <1>3, <1>7 DEF Sibling
      <4> QED
        BY <4>1, <4>2, <3>7, <1>7
    <3> QED
      BY <3>3, <3>5, <3>8, <3>9, <1>6
  <2> QED
    BY <2>1, <2>2
<1>13. Uses(r, l - 1, n) <=> ~paired
  <2>1. Uses(r, l - 1, n) <=> Sibling(s[n]) \notin RowSet(r, l - 1)
    BY <1>1, <1>2, <1>6, <1>10 DEF Uses
  <2> QED
    BY <2>1, <1>12
<1>14. paired => ~Uses(r, l - 1, n + 1)
  <2> SUFFICES ASSUME paired PROVE ~Uses(r, l - 1, n + 1)
    OBVIOUS
  <2>1. n + 1 # 0 /\ Beside(r, l - 1, n + 1) = Sibling(s[n + 1])
    BY <1>1, <1>2, <1>6 DEF Beside, Visited
  <2>2. Sibling(Sibling(s[n])) = s[n]
    BY <1>7 DEF Sibling
  <2> QED
    BY <2>1, <2>2, <1>6 DEF Uses
<1>15. n2 \in 1..(Len(s) + 1) /\ n < n2 /\ n2 \in Nat
  BY <1>3, <1>6
<1>16. \A b \in DOMAIN s : b >= n2 => p < s[b] \div 2
  <2> SUFFICES ASSUME NEW b \in DOMAIN s, b >= n2 PROVE p < s[b] \div 2
    OBVIOUS
  <2>1. b \in Nat /\ b > n /\ s[b] \in Nat /\ s[n] < s[b]
    BY <1>3, <1>6, <1>11, <1>15
  <2>2. s[b] # Sibling(s[n])
    <3> SUFFICES ASSUME s[b] = Sibling(s[n]) PROVE FALSE
      OBVIOUS
    <3>1. paired
      BY <1>3, <1>12
    <3>2. n + 1 \in DOMAIN s /\ n + 1 < b /\ s[n + 1] = s[b]
      BY <3>1, <2>1, <1>3, <1>6
    <3>3. s[n + 1] < s[b]
      BY <3>2, <1>3 DEF Ascending
    <3> QED
      BY <3>2, <3>3, <2>1
  <2> DEFINE a == s[n]
  <2> DEFINE c == s[b]
  <2>3. a \in Nat /\ c \in Nat /\ a < c /\ c # Sibling(a)
    BY <2>1, <2>2, <1>7
  <2> HIDE DEF a, c
  <2>4. a \div 2 < c \div 2
    BY <2>3, Halves
  <2> QED
    BY <2>4 DEF a, c
<1>17. \A a \in DOMAIN t : t[a] < p
  BY <1>1, <1>6
<1> HIDE DEF n2, p
<1>18. /\ Append(t, p) \in Seq(Nat) /\ Ascending(Append(t, p))
       /\ DOMAIN Append(t, p) = 1..(Len(t) + 1)
       /\ \A a \in DOMAIN t : a \in 1..(Len(t) + 1) /\ Append(t, p)[a] = t[a]
       /\ Len(t) + 1 \in 1..(Len(t) + 1) /\ Append(t, p)[Len(t) + 1] = p
  BY <1>1, <1>8, <1>17, AppendKeepsOrder
<1>19. \A a \in 1..(Len(t) + 1) : a \in DOMAIN t \/ a = Len(t) + 1
  BY <1>1
<1>20. Len(Append(t, p)) < n2
  BY <1>1, <1>6, <1>15, <1>18
<1>21. {Append(t, p)[a] : a \in DOMAIN Append(t, p)} = {s[b] \div 2 : b \in 1..(n2 - 1)}
  <2>1. ASSUME NEW a \in DOMAIN Append(t, p)
        PROVE  \E b \in 1..(n2 - 1) : Append(t, p)[a] = s[b] \div 2
    <3>1. CASE a \in DOMAIN t
      <4>1. PICK b \in 1..(n - 1) : t[a] = s[b] \div 2
        BY <3>1, <1>1
      <4>2. b \in 1..(n2 - 1)
        BY <1>6, <1>15
      <4> QED
        BY <3>1, <4>1, <4>2, <1>18
    <3>2. CASE a = Len(t) + 1
      <4>1. n \in 1..(n2 - 1)
        BY <1>6, <1>15
      <4> QED
        BY <3>2, <4>1, <1>18 DEF p
    <3> QED
      BY <3>1, <3>2, <1>18, <1>19
  <2>2. ASSUME NEW b \in 1..(n2 - 1)
        PROVE  \E a \in DOMAIN Append(t, p) : Append(t, p)[a] = s[b] \div 2
    <3>1. CASE b \in 1..(n - 1)
      <4>1. PICK a \in DOMAIN t : t[a] = s[b] \div 2
        BY <3>1, <1>1
      <4> QED
        BY <4>1, <1>18
    <3>2. CASE b = n
      BY <3>2, <1>18 DEF p
    <3>3. CASE b = n + 1 /\ paired
      <4>1. s[b] \div 2 = p
        BY <3>3, <1>7, SiblingsMeet DEF p
      <4> QED
        BY <4>1, <1>18
    <3>4. b \in 1..(n - 1) \/ b = n \/ (b = n + 1 /\ paired)
      BY <1>6 DEF n2
    <3> QED
      BY <3>1, <3>2, <3>3, <3>4
  <2> QED
    BY <2>1, <2>2
<1>22. ASSUME NEW a \in DOMAIN Append(t, p), NEW b \in DOMAIN s, b >= n2
       PROVE  Append(t, p)[a] < s[b] \div 2
  <2>1. b >= n
    BY <1>15, <1>22, <1>6, <1>3
  <2>2. CASE a \in DOMAIN t
    BY <2>1, <2>2, <1>1, <1>18
  <2>3. CASE a = Len(t) + 1
    BY <2>3, <1>16, <1>18, <1>22
  <2> QED
    BY <2>2, <2>3, <1>18, <1>19
<1>23. NodeWalk(r, l, s, Append(t, p), n2)
  BY <1>1, <1>15, <1>18, <1>20, <1>21, <1>22 DEF NodeWalk
<1> QED
  BY <1>3, <1>6, <1>7, <1>8, <1>9, <1>10, <1>13, <1>14, <1>23 DEF n2, p

-----------------------------------------------------------------------------
(* The walks through the rows, as invariants. *)

(* A path is there only while it is verified, or after. *)
Paths ==
  /\ path # <<>> => pc \in {"verify_path", "done"}
  /\ pc = "verify_path" =>
       \E x \in 0..(Width - 1) : request = <<x>> /\ path \in PathDeliveries(PathTo(x))

(* Where the loops of the prover and of the verifier are in the rows.       *)
Batching == Answerable /\ (Verifying => received.depth = Depth)
Walks ==
  Batching =>
    /\ pc \in {"prove_leaves", "verify_leaves"} => level = 1 /\ LeafWalk(request, pending, next)
    /\ pc \in {"prove", "verify_nodes"} => NodeWalk(request, level, indexes, next, i)
    /\ pc \in {"deliver", "conclude"} => next = RowList(request, Depth)
    /\ pc = "idle" => next = <<>>

(* What the prover hands over is a proof for the depth of the tree.         *)
Shaped ==
  /\ pc \in {"prove_leaves", "prove", "deliver"} =>
       /\ proof = [values |-> proof.values, nodes |-> proof.nodes, depth |-> Depth]
       /\ DOMAIN proof.values = DOMAIN request
       /\ received = NoProof
  /\ (pc = "verify" \/ Verifying) =>
       /\ proof.depth = Depth
       /\ Answerable => received # NoProof

(* Nothing is left over from before. *)
Fresh == pc \in {"new", "build", "idle"} =>
           request = <<>> /\ next = <<>> /\ proof = NoProof /\ received = NoProof

(* A request that has an answer is a valid one. *)
LEMMA AnswerableIsValid == LoopsTyped /\ Answerable => Valid(request)
BY DEF LoopsTyped, Answerable, Valid

(* Nothing is left over until a request is made. *)
LEMMA FreshNext == Fresh /\ [Next]_vars => Fresh'
<1> SUFFICES ASSUME Fresh, [Next]_vars PROVE Fresh'
  OBVIOUS
<1> USE DEF Fresh, tree, locals
<1>1. CASE BuildParents \/ BuildNode \/ Built
  BY <1>1 DEF BuildParents, BuildNode, Built
<1>2. CASE ~BuildParents /\ ~BuildNode /\ ~Built
  <2>1. pc' \notin {"new", "build", "idle"} \/ UNCHANGED vars
    <3>1. ASSUME NEW r \in Requests, Ask(r) PROVE pc' \notin {"new", "build", "idle"}
      BY <3>1 DEF Ask, Panic
    <3>2. ASSUME NEW index \in pending, ProveLeaf(index) \/ VerifyLeaf(index)
          PROVE  pc' \notin {"new", "build", "idle"}
      BY <3>2 DEF ProveLeaf, VerifyLeaf, Panic, Return
    <3>3. CASE ProveLevel \/ VerifyLevel
      BY <3>3 DEF ProveLevel, VerifyLevel, NextLevel
    <3>4. CASE ProveNode \/ Deliver
      BY <3>4 DEF ProveNode, Deliver
    <3>5. CASE VerifyStart \/ VerifyNode \/ Conclude \/ VerifyPath
      BY <3>5 DEF VerifyStart, VerifyNode, Conclude, VerifyPath, Panic, Return
    <3>6. ASSUME NEW x \in 0..Width, ProvePath(x) PROVE pc' \notin {"new", "build", "idle"}
      BY <3>6 DEF ProvePath, Panic
    <3> QED
      BY <1>2, <3>1, <3>2, <3>3, <3>4, <3>5, <3>6 DEF Next
  <2> QED
    BY <2>1 DEF vars
<1> QED
  BY <1>1, <1>2

(* Only ProvePath delivers a path, and only VerifyPath reads it. *)
LEMMA PathsNext == LoopsTyped /\ Paths /\ [Next]_vars => Paths'
<1> SUFFICES ASSUME LoopsTyped, Paths, [Next]_vars PROVE Paths'
  OBVIOUS
<1> USE DEF Paths, tree, locals
<1>1. CASE BuildParents \/ BuildNode \/ Built
  BY <1>1 DEF BuildParents, BuildNode, Built
<1>2. ASSUME NEW r \in Requests, Ask(r) PROVE Paths'
  BY <1>2 DEF Ask, Panic
<1>3. ASSUME NEW index \in pending, ProveLeaf(index) \/ VerifyLeaf(index) PROVE Paths'
  BY <1>3 DEF ProveLeaf, VerifyLeaf, Panic, Return
<1>4. CASE ProveLevel \/ VerifyLevel
  BY <1>4 DEF ProveLevel, VerifyLevel, NextLevel
<1>5. CASE ProveNode \/ Deliver
  BY <1>5 DEF ProveNode, Deliver
<1>6. CASE VerifyStart \/ VerifyNode \/ Conclude \/ VerifyPath
  BY <1>6 DEF VerifyStart, VerifyNode, Conclude, VerifyPath, Panic, Return
<1>7. ASSUME NEW x \in 0..Width, ProvePath(x) PROVE Paths'
  <2>1. CASE x >= Width
    BY <1>7, <2>1 DEF ProvePath, Panic
  <2>2. CASE ~(x >= Width)
    <3>1. x \in 0..(Width - 1)
      BY <2>2, Widths
    <3>2. /\ request' = <<x>> /\ pc' = "verify_path" /\ path' \in PathDeliveries(PathTo(x))
          /\ leaves' = leaves /\ nodes' = nodes
      BY <1>7, <2>2 DEF ProvePath
    <3>3. PathDeliveries(PathTo(x))' = PathDeliveries(PathTo(x))
      BY <3>2 DEF PathDeliveries, PathTo
    <3> QED
      BY <3>1, <3>2, <3>3
  <2> QED
    BY <2>1, <2>2
<1>8. CASE UNCHANGED vars
  <2>2. \A x \in 0..(Width - 1) : PathDeliveries(PathTo(x))' = PathDeliveries(PathTo(x))
    BY <1>8 DEF vars, PathDeliveries, PathTo
  <2>3. UNCHANGED <<path, pc, request>>
    BY <1>8 DEF vars
  <2> QED
    BY <2>2, <2>3
<1> QED
  BY <1>1, <1>2, <1>3, <1>4, <1>5, <1>6, <1>7, <1>8 DEF Next

-----------------------------------------------------------------------------
(* The delivered proofs *)
LEMMA OneFault ==
  ASSUME NEW q, NEW p \in Deliveries(q)
  PROVE  \/ p = q
         \/ \E x : p = [q EXCEPT !.values = x]
         \/ \E x : p = [q EXCEPT !.nodes = x]
         \/ \E x : p = [q EXCEPT !.depth = x]
BY DEF Deliveries

(* No fault makes a proof of something the absence of a proof. *)
LEMMA DeliveredProofs ==
  ASSUME NEW q, q = [values |-> q.values, nodes |-> q.nodes, depth |-> Depth],
         q.values # <<>>, NEW p \in Deliveries(q)
  PROVE  p # NoProof
<1>1. Depth # 0
  BY Widths
<1>2. q.depth = Depth /\ DOMAIN q = {"values", "nodes", "depth"}
  <2>1. \A x, y : DOMAIN [values |-> x, nodes |-> y, depth |-> Depth] = {"values", "nodes", "depth"}
    OBVIOUS
  <2>2. \A x, y : [values |-> x, nodes |-> y, depth |-> Depth].depth = Depth
    OBVIOUS
  <2> QED
    BY <2>1, <2>2
<1>3. p.depth = Depth \/ p.values = q.values
  BY <1>2, OneFault
<1>4. NoProof.depth = 0 /\ NoProof.values = <<>>
  BY DEF NoProof
<1> QED
  BY <1>1, <1>3, <1>4

(* Requests that make map_indexes fail have no answer. *)
LEMMA FailuresHaveNoAnswer ==
  ASSUME NEW r \in Seq(Nat)
  PROVE  MapFails(r, Width) => MapFails(r, Width - 1)
<1>1. ASSUME NEW j \in DOMAIN r, r[j] > Width PROVE r[j] > Width - 1
  BY <1>1, Widths
<1> QED
  BY <1>1 DEF MapFails

(* Every step of the prover and of the verifier goes on with its walk. *)
LEMMA WalksNext ==
  LoopsTyped /\ Phases /\ Fresh /\ Walks /\ [Next]_vars => Walks'
<1> SUFFICES ASSUME LoopsTyped, Phases, Fresh, Walks, [Next]_vars, Batching' PROVE Walks'
  BY DEF Walks
<1> USE DEF Batching, Answerable, Verifying, tree, locals
<1>0. Depth \in Nat /\ Depth >= 1 /\ Width \in Nat
  BY Widths
<1>1. CASE BuildParents \/ BuildNode \/ Built
  BY <1>1 DEF BuildParents, BuildNode, Built, Walks, Fresh
<1>2. ASSUME NEW r \in Requests, Ask(r) PROVE Walks'
  <2>1. CASE MapFails(r, Width)
    BY <1>2, <2>1 DEF Ask, Panic, Walks
  <2>2. CASE ~MapFails(r, Width)
    <3>1. /\ pc = "idle" /\ request' = r /\ pending' = Normalized(r) /\ pc' = "prove_leaves"
          /\ level' = 1 /\ next' = next
      BY <1>2, <2>2 DEF Ask
    <3>2. next' = <<>>
      BY <3>1 DEF Fresh
    <3>3. Valid(r)
      BY <3>1, InputAssumption DEF Valid
    <3>4. LeafWalk(request', pending', next')
      BY <3>1, <3>2, <3>3, LeafWalkStarts
    <3> QED
      BY <3>1, <3>4 DEF Walks
  <2> QED
    BY <2>1, <2>2
<1>3. ASSUME NEW index \in pending, ProveLeaf(index) \/ VerifyLeaf(index) PROVE Walks'
  <2>1. CASE pc' = "done"
    BY <2>1 DEF Walks
  <2>2. CASE pc' # "done"
    <3>1. /\ pc \in {"prove_leaves", "verify_leaves"} /\ pc' = pc /\ IsLeast(index, pending)
          /\ next' = Append(next, (index + Width) \div 2) /\ pending' = pending \ {index}
          /\ request' = request /\ received' = received /\ level' = level
      <4>1. CASE ProveLeaf(index)
        BY <4>1, <2>2 DEF ProveLeaf, Panic
      <4>2. CASE VerifyLeaf(index)
        <5>1. pc = "verify_leaves" /\ pc' = pc /\ IsLeast(index, pending)
              /\ next' = Append(next, (Power[received.depth] + index) \div 2)
              /\ pending' = pending \ {index}
              /\ request' = request /\ received' = received /\ level' = level
          BY <4>2, <2>2 DEF VerifyLeaf, Return
        <5>2. Power[received.depth] = Width /\ index \in Nat
          BY <5>1 DEF Width, LoopsTyped
        <5>3. Power[received.depth] + index = index + Width
          BY <5>2, <1>0
        <5> QED
          BY <5>1, <5>3
      <4> QED
        BY <1>3, <4>1, <4>2
    <3>2. Batching
      BY <3>1
    <3>3. level = 1 /\ LeafWalk(request, pending, next) /\ Valid(request)
      BY <3>1, <3>2, AnswerableIsValid DEF Walks
    <3>4. LeafWalk(request, pending \ {index}, Append(next, (index + Width) \div 2))
      BY <3>1, <3>3, LeafStep
    <3> QED
      BY <3>1, <3>3, <3>4 DEF Walks
  <2> QED
    BY <2>1, <2>2
<1>4. CASE ProveLevel \/ VerifyLevel
  <2>1. /\ \/ pc \in {"prove_leaves", "verify_leaves"} /\ pending = {}
           \/ pc \in {"prove", "verify_nodes"} /\ i > Len(indexes)
        /\ IF level < Depth
           THEN /\ indexes' = next /\ next' = <<>> /\ i' = 1
                /\ level' = level + 1 /\ pc' \in {"prove", "verify_nodes"}
           ELSE pc' \in {"deliver", "conclude"} /\ UNCHANGED <<indexes, next, i, level>>
        /\ UNCHANGED <<request, received>>
    <3>1. CASE ProveLevel
      BY <3>1 DEF ProveLevel, NextLevel
    <3>2. CASE VerifyLevel
      <4>1. received.depth = Depth
        BY <3>2 DEF VerifyLevel, NextLevel
      <4> QED
        BY <3>2, <4>1 DEF VerifyLevel, NextLevel
    <3> QED
      BY <1>4, <3>1, <3>2
  <2>2. Batching
    BY <1>4, <2>1 DEF VerifyLevel, ProveLevel, NextLevel
  <2>3. Valid(request)
    BY <2>2, AnswerableIsValid
  <2>4. next = RowList(request, level) /\ level \in 1..Depth
        /\ Len(next) <= Len(RowList(request, 1))
    <3>1. CASE pc \in {"prove_leaves", "verify_leaves"} /\ pending = {}
      <4>1. level = 1 /\ LeafWalk(request, {}, next)
        BY <3>1, <2>2 DEF Walks
      <4>2. next = RowList(request, 1) /\ next \in Seq(Nat)
        BY <4>1, <2>3, LeafWalkEnds DEF LeafWalk
      <4> QED
        BY <4>1, <4>2, <1>0
    <3>2. CASE pc \in {"prove", "verify_nodes"} /\ i > Len(indexes)
      <4>1. NodeWalk(request, level, indexes, next, i)
        BY <3>2, <2>2 DEF Walks
      <4>2. next = RowList(request, level) /\ Len(next) <= Len(RowList(request, 1)) /\ level \in 2..Depth
        BY <3>2, <4>1, <2>3, NodeWalkEnds
      <4> QED
        BY <4>2, <1>0
    <3> QED
      BY <2>1, <3>1, <3>2
  <2>5. CASE level < Depth
    <3>1. level \in 1..(Depth - 1)
      BY <2>4, <2>5, <1>0
    <3>2. NodeWalk(request, level + 1, next, <<>>, 1)
      BY <3>1, <2>3, <2>4, NodeWalkStarts
    <3> QED
      BY <2>1, <2>5, <3>2 DEF Walks
  <2>6. CASE ~(level < Depth)
    <3>1. level = Depth
      BY <2>4, <2>6, <1>0
    <3> QED
      BY <2>1, <2>4, <2>6, <3>1 DEF Walks
  <2> QED
    BY <2>5, <2>6
<1>5. CASE ProveNode \/ VerifyNode
  <2>1. CASE pc' = "done"
    BY <2>1 DEF Walks
  <2>2. CASE pc' # "done"
    <3>1. /\ pc \in {"prove", "verify_nodes"} /\ pc' = pc /\ i <= Len(indexes)
          /\ i' = (IF Paired THEN i + 2 ELSE i + 1)
          /\ next' = Append(next, indexes[i] \div 2)
          /\ UNCHANGED <<request, received, level, indexes>>
      <4>1. CASE ProveNode
        BY <4>1, <2>2 DEF ProveNode
      <4>2. CASE VerifyNode
        BY <4>2, <2>2 DEF VerifyNode, Return
      <4> QED
        BY <1>5, <4>1, <4>2
    <3>2. Batching
      BY <3>1
    <3>3. NodeWalk(request, level, indexes, next, i) /\ Valid(request)
      BY <3>1, <3>2, AnswerableIsValid DEF Walks
    <3>4. NodeWalk(request, level, indexes, next', i')
      BY <3>1, <3>3, NodeStep DEF Paired
    <3> QED
      BY <3>1, <3>4 DEF Walks
  <2> QED
    BY <2>1, <2>2
<1>6. CASE Deliver
  BY <1>6 DEF Deliver, Walks
<1>7. CASE VerifyStart
  <2>1. CASE pc' = "done"
    BY <2>1 DEF Walks
  <2>2. CASE pc' # "done"
    <3>1. /\ pc = "verify" /\ pc' = "verify_leaves" /\ pending' = Normalized(request)
          /\ UNCHANGED <<request, received, level, next>>
      BY <1>7, <2>2 DEF VerifyStart, Panic, Return
    <3>2. level = 1 /\ next = <<>>
      BY <3>1 DEF Phases
    <3>3. Valid(request)
      BY <3>1, AnswerableIsValid
    <3>4. LeafWalk(request, Normalized(request), <<>>)
      BY <3>3, LeafWalkStarts
    <3> QED
      BY <3>1, <3>2, <3>4 DEF Walks
  <2> QED
    BY <2>1, <2>2
<1>8. CASE Conclude \/ VerifyPath
  BY <1>8 DEF Conclude, VerifyPath, Panic, Return, Walks
<1>9. ASSUME NEW x \in 0..Width, ProvePath(x) PROVE Walks'
  BY <1>9 DEF ProvePath, Panic, Walks
<1>10. CASE UNCHANGED vars
  BY <1>10 DEF vars, Walks
<1> QED
  BY <1>1, <1>2, <1>3, <1>4, <1>5, <1>6, <1>7, <1>8, <1>9, <1>10 DEF Next

(* The depth of a proof that was made with it. *)
LEMMA ProofDepth ==
  ASSUME NEW q, NEW d, q = [values |-> q.values, nodes |-> q.nodes, depth |-> d]
  PROVE  q.depth = d
<1>1. \A x, y : [values |-> x, nodes |-> y, depth |-> d].depth = d
  OBVIOUS
<1> QED
  BY <1>1

(* Every step keeps the shape of the proof. *)
LEMMA ShapedNext == LoopsTyped /\ Fresh /\ Shaped /\ [Next]_vars => Shaped'
<1> SUFFICES ASSUME LoopsTyped, Fresh, Shaped, [Next]_vars PROVE Shaped'
  OBVIOUS
<1> USE DEF Answerable, Verifying, tree, locals
<1>1. CASE BuildParents \/ BuildNode \/ Built
  BY <1>1 DEF BuildParents, BuildNode, Built, Shaped
<1>2. ASSUME NEW r \in Requests, Ask(r) PROVE Shaped'
  <2>1. CASE MapFails(r, Width)
    BY <1>2, <2>1 DEF Ask, Panic, Shaped
  <2>2. CASE ~MapFails(r, Width)
    <3>1. /\ pc = "idle" /\ request' = r /\ received' = received /\ pc' = "prove_leaves"
          /\ proof' = [values |-> [j \in DOMAIN r |-> Zero], nodes |-> <<>>, depth |-> Depth]
      BY <1>2, <2>2 DEF Ask
    <3>2. received' = NoProof
      BY <3>1 DEF Fresh
    <3>3. DOMAIN proof'.values = DOMAIN request'
      BY <3>1
    <3>4. proof' = [values |-> proof'.values, nodes |-> proof'.nodes, depth |-> Depth]
      BY <3>1
    <3> QED
      BY <3>1, <3>2, <3>3, <3>4 DEF Shaped
  <2> QED
    BY <2>1, <2>2
<1>3. ASSUME NEW index \in pending, ProveLeaf(index) PROVE Shaped'
  <2>1. CASE index >= Width
    BY <1>3, <2>1 DEF ProveLeaf, Panic, Shaped
  <2>2. CASE ~(index >= Width)
    <3>1. /\ pc = "prove_leaves" /\ pc' = pc /\ request' = request /\ received' = received
          /\ \E x, y : /\ proof' = [proof EXCEPT !.values = [j \in DOMAIN @ |-> x[j]], !.nodes = y]
      <4> DEFINE other == {x \in {index, index + 1} : ~Asked(x)}
      <4> DEFINE y == Append(proof.nodes, IF other = {} THEN <<>>
                                            ELSE <<leaves[CHOOSE x \in other : TRUE]>>)
      <4> DEFINE x == [j \in DOMAIN proof.values |->
                         IF request[j] \in {index, index + 1} THEN leaves[request[j]]
                         ELSE proof.values[j]]
      <4>1. /\ pc = "prove_leaves" /\ pc' = pc /\ request' = request /\ received' = received
            /\ proof' = [proof EXCEPT !.values = x, !.nodes = y]
        BY <1>3, <2>2 DEF ProveLeaf
      <4>2. x = [j \in DOMAIN proof.values |-> x[j]]
        OBVIOUS
      <4> HIDE DEF x, y
      <4> QED
        BY <4>1, <4>2
    <3>2. PICK x, y : proof' = [proof EXCEPT !.values = [j \in DOMAIN @ |-> x[j]], !.nodes = y]
      BY <3>1
    <3>3. /\ proof = [values |-> proof.values, nodes |-> proof.nodes, depth |-> Depth]
          /\ DOMAIN proof.values = DOMAIN request /\ received = NoProof
      BY <3>1 DEF Shaped
    <3> DEFINE values == [j \in DOMAIN proof.values |-> x[j]]
    <3>4. proof' = [values |-> values, nodes |-> y, depth |-> Depth]
      <4>1. proof' = [proof EXCEPT !.values = values, !.nodes = y]
        BY <3>2
      <4> HIDE DEF values
      <4> DEFINE g == [proof EXCEPT !.values = values]
      <4>2. g = [values |-> values, nodes |-> proof.nodes, depth |-> Depth]
        BY <3>3
      <4>3. proof' = [g EXCEPT !.nodes = y]
        BY <4>1
      <4> HIDE DEF g
      <4> QED
        BY <4>2, <4>3
    <3>5. DOMAIN values = DOMAIN proof.values
      OBVIOUS
    <3> HIDE DEF values
    <3> QED
      BY <3>1, <3>3, <3>4, <3>5 DEF Shaped
  <2> QED
    BY <2>1, <2>2
<1>4. CASE ProveLevel
  BY <1>4 DEF ProveLevel, NextLevel, Shaped
<1>5. CASE ProveNode
  <2>1. /\ pc = "prove" /\ pc' = pc /\ request' = request /\ received' = received
        /\ proof' = proof \/ \E y : proof' = [proof EXCEPT !.nodes = y]
    BY <1>5 DEF ProveNode
  <2>2. /\ proof = [values |-> proof.values, nodes |-> proof.nodes, depth |-> Depth]
        /\ DOMAIN proof.values = DOMAIN request /\ received = NoProof
    BY <2>1 DEF Shaped
  <2>3. \E y : proof' = [values |-> proof.values, nodes |-> y, depth |-> Depth]
    BY <2>1, <2>2
  <2>4. /\ proof' = [values |-> proof'.values, nodes |-> proof'.nodes, depth |-> Depth]
        /\ proof'.values = proof.values
    BY <2>3
  <2> QED
    BY <2>1, <2>2, <2>4 DEF Shaped
<1>6. CASE Deliver
  <2>1. /\ pc = "deliver" /\ pc' = "verify" /\ request' = request /\ received' \in Deliveries(proof)
    BY <1>6 DEF Deliver
  <2>2. /\ proof = [values |-> proof.values, nodes |-> proof.nodes, depth |-> Depth]
        /\ DOMAIN proof.values = DOMAIN request
    BY <2>1 DEF Shaped
  <2>3. Answerable' => proof.values # <<>>
    <3>1. Answerable' => 1 \in DOMAIN request
      BY <2>1 DEF LoopsTyped
    <3> QED
      BY <3>1, <2>2
  <2>4. Answerable' => received' # NoProof
    BY <2>1, <2>2, <2>3, DeliveredProofs
  <2>5. proof' = proof /\ proof.depth = Depth
    <3>1. proof.depth = Depth
      BY <2>2, ProofDepth
    <3> QED
      BY <3>1, <1>6 DEF Deliver
  <2> QED
    BY <2>1, <2>4, <2>5 DEF Shaped
<1>7. CASE VerifyStart
  BY <1>7 DEF VerifyStart, Panic, Return, Shaped
<1>8. ASSUME NEW index \in pending, VerifyLeaf(index) PROVE Shaped'
  BY <1>8 DEF VerifyLeaf, Return, Shaped
<1>9. CASE VerifyLevel
  BY <1>9 DEF VerifyLevel, NextLevel, Shaped
<1>10. CASE VerifyNode
  BY <1>10 DEF VerifyNode, Return, Shaped
<1>11. CASE Conclude \/ VerifyPath
  BY <1>11 DEF Conclude, VerifyPath, Panic, Return, Shaped
<1>12. ASSUME NEW x \in 0..Width, ProvePath(x) PROVE Shaped'
  BY <1>12 DEF ProvePath, Panic, Shaped
<1>13. CASE UNCHANGED vars
  BY <1>13 DEF vars, Shaped
<1> QED
  BY <1>1, <1>2, <1>3, <1>4, <1>5, <1>6, <1>7, <1>8, <1>9, <1>10, <1>11, <1>12, <1>13 DEF Next

(* Each way to panic takes a request without an answer or a depth that is   *)
(* not the tree's.                                                          *)
LEMMA PanicNext ==
  LoopsTyped /\ OnTheWay /\ Walks /\ Shaped /\ PanicOnlyOnBadRequest /\ Phases /\ [Next]_vars
    => PanicOnlyOnBadRequest'
<1> SUFFICES ASSUME LoopsTyped, OnTheWay, Walks, Shaped, PanicOnlyOnBadRequest, Phases,
                    [Next]_vars, Answerable', verdict' = "panic"
             PROVE  received' # NoProof /\ received'.depth # Depth
  BY DEF PanicOnlyOnBadRequest
<1> USE DEF Answerable, tree, locals, Return
<1>0. Depth \in Nat /\ Depth >= 1 /\ Width \in Nat
  BY Widths
<1>1. CASE UNCHANGED vars
  BY <1>1 DEF vars, PanicOnlyOnBadRequest
<1>2. ASSUME verdict = "panic", ~UNCHANGED vars PROVE FALSE
  <2>1. pc = "done"
    BY <1>2 DEF Phases
  <2> QED
    BY <1>2, <2>1 DEF Next, BuildParents, BuildNode, Built, Ask, ProveLeaf, VerifyLeaf, ProveLevel,
       VerifyLevel, NextLevel, ProveNode, Deliver, VerifyStart, VerifyNode, Conclude,
       ProvePath, VerifyPath
<1> SUFFICES ASSUME verdict # "panic", ~UNCHANGED vars
             PROVE  received' # NoProof /\ received'.depth # Depth
  BY <1>1, <1>2
<1>3. CASE BuildParents \/ BuildNode \/ Built \/ ProveLevel \/ VerifyLevel \/ ProveNode \/ Deliver
           \/ VerifyNode \/ VerifyPath \/ \E index \in pending : VerifyLeaf(index)
  BY <1>3 DEF BuildParents, BuildNode, Built, ProveLevel, VerifyLevel, NextLevel, ProveNode,
     Deliver, VerifyNode, VerifyPath, VerifyLeaf
<1>4. ASSUME NEW r \in Requests, Ask(r) PROVE FALSE
  <2>1. request' = r /\ MapFails(r, Width)
    BY <1>4 DEF Ask
  <2> QED
    BY <2>1, InputAssumption, FailuresHaveNoAnswer
<1>5. ASSUME NEW index \in pending, ProveLeaf(index) PROVE FALSE
  <2>1. pc = "prove_leaves" /\ index >= Width /\ request' = request
    BY <1>5 DEF ProveLeaf
  <2>2. Valid(request) /\ pending \subseteq Normalized(request)
    BY <2>1, AnswerableIsValid DEF Walks, Batching, Verifying, LeafWalk
  <2>3. index \in Nat /\ index + 1 < Width
    BY <2>2, NormalizedBounds
  <2> QED
    BY <2>1, <2>3, <1>0
<1>6. CASE VerifyStart
  <2>1. /\ pc = "verify" /\ MapFails(request, Power[received.depth] - 1)
        /\ request' = request /\ received' = received
    BY <1>6 DEF VerifyStart, Panic, Greatest
  <2>2. received # NoProof
    BY <2>1 DEF Shaped
  <2>3. received.depth # Depth
    BY <2>1 DEF Width
  <2> QED
    BY <2>1, <2>2, <2>3
<1>7. CASE Conclude
  <2>1. pc = "conclude" /\ 1 \notin DOMAIN v /\ request' = request /\ received' = received
    BY <1>7 DEF Conclude, Panic
  <2>2. received # NoProof
    BY <2>1 DEF Shaped, Verifying
  <2>3. ASSUME received.depth = Depth PROVE FALSE
    <3>1. next = RowList(request, Depth) /\ Valid(request)
      BY <2>1, <2>3, AnswerableIsValid DEF Walks, Batching, Verifying
    <3>2. next \in Seq(Nat) /\ {next[a] : a \in DOMAIN next} = {1}
      <4>1. Enumerates(next, RowSet(request, Depth)) /\ RowSet(request, Depth) = {1}
        BY <3>1, <1>0, RowLists, RowSets
      <4> QED
        BY <4>1 DEF Enumerates
    <3>3. PICK a \in DOMAIN next : next[a] = 1
      BY <3>2
    <3>4. next[a] \in DOMAIN v
      BY <2>1, <2>3 DEF OnTheWay, NextOnLevel, DepthKept, Verifying
    <3> QED
      BY <2>1, <3>3, <3>4
  <2> QED
    BY <2>1, <2>2, <2>3
<1>8. ASSUME NEW x \in 0..Width, ProvePath(x) PROVE FALSE
  <2>1. request' = <<x>> /\ x >= Width
    BY <1>8 DEF ProvePath
  <2>2. MapFails(<<x>>, Width - 1)
    BY <2>1, <1>0 DEF MapFails
  <2> QED
    BY <2>1, <2>2
<1> QED
  BY <1>3, <1>4, <1>5, <1>6, <1>7, <1>8 DEF Next

-----------------------------------------------------------------------------
(* What the prover has listed. *)

(* The digests at all places of the tree, those of the leaves included.     *)
Contents == [y \in 1..(2 * Width - 1) |-> Child(y)]
ListsOf(T) == Seq({T[y] : y \in DOMAIN T})

(* List k of a proof when rows 0 to m have been visited. *)
Filled(T, list, r, k, m) ==
  /\ list \in ListsOf(T) /\ Len(list) = Count(r, k, m)
  /\ \A q \in 0..m : Uses(r, q, k) => list[Count(r, k, q)] = T[Beside(r, q, k)]
  /\ \A n \in DOMAIN list : \E q \in 0..m : Uses(r, q, k) /\ n = Count(r, k, q)

RowsDone(k) == IF k < i THEN level - 1 ELSE level - 2

Finished(lists, m) ==
  /\ lists \in Seq(ListsOf(Contents)) /\ Len(lists) = Cardinality(Normalized(request))
  /\ Len(lists) = Len(RowList(request, 1))
  /\ \A k \in DOMAIN lists : Filled(Contents, lists[k], request, k, m)

ProofSoFar ==
  Answerable =>
    /\ pc = "prove_leaves" =>
         /\ proof.nodes \in Seq(ListsOf(Contents)) /\ Len(proof.nodes) = Len(next)
         /\ \A k \in DOMAIN proof.nodes : Filled(Contents, proof.nodes[k], request, k, 0)
         /\ \A j \in DOMAIN request :
              request[j] - (request[j] % 2) \in pending \/ proof.values[j] = leaves[request[j]]
    /\ pc = "prove" =>
         /\ proof.nodes \in Seq(ListsOf(Contents))
         /\ Len(proof.nodes) = Cardinality(Normalized(request))
         /\ Len(proof.nodes) = Len(RowList(request, 1))
         /\ \A k \in DOMAIN proof.nodes : Filled(Contents, proof.nodes[k], request, k, RowsDone(k))
    /\ (pc \in {"deliver", "verify"} \/ Verifying) => Finished(proof.nodes, Depth - 1)
    /\ (pc \in {"prove", "deliver", "verify"} \/ Verifying) =>
         /\ DOMAIN proof.values = DOMAIN request
         /\ \A j \in DOMAIN request : proof.values[j] = leaves[request[j]]

(* The leaf beside a pair, if it was not asked for, begins its list. *)
LEMMA FillFirst ==
  ASSUME NEW T, NEW r, NEW k, NEW list, Uses(r, 0, k) => Beside(r, 0, k) \in DOMAIN T,
         list = IF Uses(r, 0, k) THEN <<T[Beside(r, 0, k)]>> ELSE <<>>
  PROVE  Filled(T, list, r, k, 0)
<1> DEFINE D == {T[y] : y \in DOMAIN T}
<1>1. Count(r, k, 0) = IF Uses(r, 0, k) THEN 1 ELSE 0
  BY Counts
<1>2. \A q \in 0..0 : q = 0
  OBVIOUS
<1>3. 0 \in 0..0
  OBVIOUS
<1>4. CASE Uses(r, 0, k)
  <2>1. list = <<T[Beside(r, 0, k)]>> /\ T[Beside(r, 0, k)] \in D
    BY <1>4
  <2> HIDE DEF D
  <2>2. list \in Seq(D) /\ Len(list) = 1 /\ DOMAIN list = {1} /\ list[1] = T[Beside(r, 0, k)]
    BY <2>1
  <2> QED
    BY <1>1, <1>2, <1>3, <1>4, <2>2 DEF Filled, ListsOf, D
<1>5. CASE ~Uses(r, 0, k)
  <2>1. list = <<>>
    BY <1>5
  <2>2. list \in Seq(D) /\ Len(list) = 0 /\ DOMAIN list = {}
    BY <2>1
  <2> QED
    BY <1>1, <1>2, <1>5, <2>2 DEF Filled, ListsOf
<1> QED
  BY <1>4, <1>5

(* A row that needs nothing adds nothing to a list. *)
LEMMA FillNothing ==
  ASSUME NEW T, NEW r, NEW k, NEW list, NEW m \in Nat, Filled(T, list, r, k, m),
         ~Uses(r, m + 1, k)
  PROVE  Filled(T, list, r, k, m + 1)
<1>1. Count(r, k, m + 1) = Count(r, k, m)
  BY Counts
<1>2. \A q \in 0..(m + 1) : q \in 0..m \/ q = m + 1
  OBVIOUS
<1>3. \A q \in 0..m : q \in 0..(m + 1)
  OBVIOUS
<1> QED
  BY <1>1, <1>2, <1>3 DEF Filled

(* A row that needs a node adds the one beside. *)
LEMMA FillMore ==
  ASSUME NEW T, NEW r, NEW k, NEW list, NEW m \in Nat, Filled(T, list, r, k, m),
         Uses(r, m + 1, k), Beside(r, m + 1, k) \in DOMAIN T
  PROVE  Filled(T, Append(list, T[Beside(r, m + 1, k)]), r, k, m + 1)
<1> DEFINE D == {T[y] : y \in DOMAIN T}
<1> DEFINE d == T[Beside(r, m + 1, k)]
<1>1. Count(r, k, m + 1) = Count(r, k, m) + 1 /\ Count(r, k, m) \in Nat
  BY Counts
<1>2. \A q \in 0..(m + 1) : q \in 0..m \/ q = m + 1
  OBVIOUS
<1>3. m + 1 \in 0..(m + 1) /\ \A q \in 0..m : q \in 0..(m + 1)
  OBVIOUS
<1>4. /\ list \in Seq(D) /\ Len(list) = Count(r, k, m)
      /\ \A q \in 0..m : Uses(r, q, k) => list[Count(r, k, q)] = T[Beside(r, q, k)]
      /\ \A n \in DOMAIN list : \E q \in 0..m : Uses(r, q, k) /\ n = Count(r, k, q)
  BY DEF Filled, ListsOf
<1>5. d \in D
  OBVIOUS
<1> HIDE DEF d, D
<1>6. /\ Append(list, d) \in Seq(D) /\ Len(Append(list, d)) = Count(r, k, m + 1)
      /\ Append(list, d)[Count(r, k, m + 1)] = d
      /\ \A n \in DOMAIN list : Append(list, d)[n] = list[n]
      /\ \A n \in DOMAIN Append(list, d) : n \in DOMAIN list \/ n = Count(r, k, m + 1)
  BY <1>1, <1>4, <1>5
<1>7. ASSUME NEW q \in 0..(m + 1), Uses(r, q, k)
      PROVE  Append(list, d)[Count(r, k, q)] = T[Beside(r, q, k)]
  <2>1. CASE q \in 0..m
    <3>1. Count(r, k, q) >= 1 /\ Count(r, k, q) <= Count(r, k, m) /\ Count(r, k, q) \in Nat
      <4>1. q \in Nat
        BY <2>1
      <4> QED
        BY <2>1, <4>1, <1>7, Counts
    <3>2. Count(r, k, q) \in DOMAIN list
      BY <3>1, <1>4
    <3> QED
      BY <2>1, <3>2, <1>4, <1>6, <1>7
  <2>2. CASE q = m + 1
    BY <2>2, <1>6 DEF d
  <2> QED
    BY <2>1, <2>2, <1>2
<1>8. ASSUME NEW n \in DOMAIN Append(list, d)
      PROVE  \E q \in 0..(m + 1) : Uses(r, q, k) /\ n = Count(r, k, q)
  <2>1. CASE n \in DOMAIN list
    BY <2>1, <1>3, <1>4
  <2>2. CASE n = Count(r, k, m + 1)
    BY <2>2, <1>3
  <2> QED
    BY <2>1, <2>2, <1>6
<1> QED
  BY <1>6, <1>7, <1>8 DEF Filled, ListsOf, d, D

(* The digests stay while the tree does. *)
LEMMA ContentsStay ==
  ASSUME leaves' = leaves, nodes' = nodes
  PROVE  Contents' = Contents
BY DEF Contents, Child

(* Heap indexes up to Width are those of nodes, then come the leaves. *)
LEMMA ContentsAre ==
  /\ DOMAIN Contents = 1..(2 * Width - 1)
  /\ \A y \in 1..(Width - 1) : y \in DOMAIN Contents /\ Contents[y] = nodes[y]
  /\ \A x \in 0..(Width - 1) : x + Width \in DOMAIN Contents /\ Contents[x + Width] = leaves[x]
<1>1. Width \in Nat
  BY Widths
<1>2. ASSUME NEW x \in 0..(Width - 1)
      PROVE  x + Width \in 1..(2 * Width - 1) /\ Child(x + Width) = leaves[x]
  <2>1. x + Width \in 1..(2 * Width - 1) /\ ~(x + Width < Width) /\ (x + Width) - Width = x
    BY <1>1
  <2> QED
    BY <2>1 DEF Child
<1>3. ASSUME NEW y \in 1..(Width - 1)
      PROVE  y \in 1..(2 * Width - 1) /\ Child(y) = nodes[y]
  BY <1>1 DEF Child
<1> QED
  BY <1>2, <1>3 DEF Contents

(* The prover's first loop, one pair of leaves. *)
LEMMA ProveLeafFills ==
  ASSUME LoopsTyped, Answerable, Walks, Shaped, ProofSoFar,
         NEW index \in pending, ProveLeaf(index), Answerable'
  PROVE  ProofSoFar'
<1> DEFINE k == Len(next) + 1
<1> DEFINE p == (index + Width) \div 2
<1> DEFINE other == {x \in {index, index + 1} : ~Asked(x)}
<1> DEFINE list == IF other = {} THEN <<>> ELSE <<leaves[CHOOSE x \in other : TRUE]>>
<1> DEFINE values == [j \in DOMAIN proof.values |->
                         IF request[j] \in {index, index + 1} THEN leaves[request[j]]
                         ELSE proof.values[j]]
<1>0. Width \in Nat /\ Width >= 2
  BY Widths
<1>1. pc = "prove_leaves" /\ IsLeast(index, pending) /\ Batching /\ Valid(request)
  BY AnswerableIsValid DEF ProveLeaf, Batching, Verifying
<1>2. LeafWalk(request, pending, next)
  BY <1>1 DEF Walks
<1>3. /\ index \in Nat /\ index % 2 = 0 /\ index + 1 < Width /\ 2 * p = index + Width
      /\ k \in Nat /\ k \in DOMAIN RowList(request, 1) /\ RowList(request, 1)[k] = p
      /\ Len(next') = k
  <2>1. /\ index \in Nat /\ index % 2 = 0 /\ index + 1 < Width /\ 2 * p = index + Width
        /\ k \in Nat /\ k \in DOMAIN RowList(request, 1) /\ RowList(request, 1)[k] = p
    BY <1>1, <1>2, LeafStep
  <2>2. next \in Seq(Nat) /\ p \in Nat
    BY <1>2, <2>1, <1>0 DEF LeafWalk
  <2>3. next' = Append(next, p)
    BY <2>1, <1>0 DEF ProveLeaf
  <2> HIDE DEF p
  <2>4. Len(Append(next, p)) = Len(next) + 1
    BY <2>2
  <2> QED
    BY <2>1, <2>3, <2>4
<1>4. /\ proof' = [proof EXCEPT !.values = values, !.nodes = Append(proof.nodes, list)]
      /\ pc' = "prove_leaves" /\ request' = request /\ leaves' = leaves /\ nodes' = nodes
      /\ pending' = pending \ {index}
  BY <1>3, <1>0 DEF ProveLeaf, tree
<1>5. /\ proof = [values |-> proof.values, nodes |-> proof.nodes, depth |-> Depth]
      /\ DOMAIN proof.values = DOMAIN request
  BY <1>1 DEF Shaped
<1>6. proof'.values = values /\ proof'.nodes = Append(proof.nodes, list)
  <2> HIDE DEF values, list
  <2>1. DOMAIN proof = {"values", "nodes", "depth"}
    BY <1>5
  <2> QED
    BY <1>4, <2>1
<1>7. /\ AskedIn(request, index) \/ AskedIn(request, index + 1)
      /\ Uses(request, 0, k) <=> ~(AskedIn(request, index) /\ AskedIn(request, index + 1))
      /\ ~AskedIn(request, index) => Beside(request, 0, k) = index + Width
      /\ ~AskedIn(request, index + 1) => Beside(request, 0, k) = (index + 1) + Width
  <2> HIDE DEF p, k
  <2> QED
    BY <1>1, <1>3, LeafUses
<1>8. \A x : Asked(x) <=> AskedIn(request, x)
  BY DEF Asked, AskedIn
<1>9. /\ Contents[index + Width] = leaves[index] /\ index + Width \in DOMAIN Contents
      /\ Contents[(index + 1) + Width] = leaves[index + 1]
      /\ (index + 1) + Width \in DOMAIN Contents
  <2>1. index \in 0..(Width - 1) /\ index + 1 \in 0..(Width - 1)
    BY <1>0, <1>3
  <2> QED
    BY <2>1, ContentsAre
<1>10. /\ list = IF Uses(request, 0, k) THEN <<Contents[Beside(request, 0, k)]>> ELSE <<>>
       /\ Uses(request, 0, k) => Beside(request, 0, k) \in DOMAIN Contents
  <2> HIDE DEF k, list
  <2>1. CASE AskedIn(request, index) /\ AskedIn(request, index + 1)
    <3>1. other = {}
      BY <2>1, <1>8
    <3> QED
      BY <2>1, <3>1, <1>7 DEF list
  <2>2. CASE AskedIn(request, index) /\ ~AskedIn(request, index + 1)
    <3>1. other = {index + 1} /\ other # {}
      BY <2>2, <1>8
    <3>2. (CHOOSE x \in other : TRUE) = index + 1
      BY <3>1
    <3>3. list = <<leaves[index + 1]>>
      <4> HIDE DEF other
      <4> QED
        BY <3>1, <3>2 DEF list
    <3> QED
      BY <2>2, <3>3, <1>7, <1>9
  <2>3. CASE ~AskedIn(request, index) /\ AskedIn(request, index + 1)
    <3>1. other = {index} /\ other # {}
      BY <2>3, <1>8
    <3>2. (CHOOSE x \in other : TRUE) = index
      BY <3>1
    <3>3. list = <<leaves[index]>>
      <4> HIDE DEF other
      <4> QED
        BY <3>1, <3>2 DEF list
    <3> QED
      BY <2>3, <3>3, <1>7, <1>9
  <2> QED
    BY <2>1, <2>2, <2>3, <1>7
<1> HIDE DEF list
<1>11. Filled(Contents, list, request, k, 0)
  BY <1>10, FillFirst
<1>12. /\ proof.nodes \in Seq(ListsOf(Contents)) /\ Len(proof.nodes) = Len(next)
       /\ \A n \in DOMAIN proof.nodes : Filled(Contents, proof.nodes[n], request, n, 0)
       /\ \A j \in DOMAIN request :
            request[j] - (request[j] % 2) \in pending \/ proof.values[j] = leaves[request[j]]
  BY <1>1 DEF ProofSoFar
<1>13. Contents' = Contents
  BY <1>4, ContentsStay
<1>14. /\ proof'.nodes \in Seq(ListsOf(Contents)) /\ Len(proof'.nodes) = Len(next')
       /\ \A n \in DOMAIN proof'.nodes : Filled(Contents, proof'.nodes[n], request, n, 0)
  <2>1. list \in ListsOf(Contents)
    BY <1>11 DEF Filled
  <2> DEFINE longer == Append(proof.nodes, list)
  <2>2. /\ longer \in Seq(ListsOf(Contents)) /\ Len(longer) = k
        /\ \A n \in DOMAIN longer : n = k \/ n \in DOMAIN proof.nodes
        /\ \A n \in DOMAIN proof.nodes : longer[n] = proof.nodes[n]
        /\ longer[k] = list
    BY <2>1, <1>12
  <2> HIDE DEF longer, k
  <2>3. ASSUME NEW n \in DOMAIN longer PROVE Filled(Contents, longer[n], request, n, 0)
    <3>1. CASE n = k
      BY <3>1, <2>2, <1>11
    <3>2. CASE n \in DOMAIN proof.nodes
      BY <3>2, <2>2, <1>12
    <3> QED
      BY <3>1, <3>2, <2>2
  <2>4. proof'.nodes = longer
    BY <1>6 DEF longer
  <2> QED
    BY <2>2, <2>3, <2>4, <1>3
<1>15. ASSUME NEW j \in DOMAIN request, request[j] - (request[j] % 2) \notin pending'
       PROVE  proof'.values[j] = leaves[request[j]]
  <2>1. proof'.values[j] = IF request[j] \in {index, index + 1} THEN leaves[request[j]]
                           ELSE proof.values[j]
    BY <1>5, <1>6
  <2>2. CASE request[j] - (request[j] % 2) \in pending
    <3>1. request[j] - (request[j] % 2) = index
      BY <1>4, <1>15, <2>2
    <3>2. request[j] \in Nat
      BY DEF LoopsTyped
    <3>3. request[j] % 2 \in {0, 1}
      BY <3>2
    <3>4. request[j] \in {index, index + 1}
      BY <1>3, <3>1, <3>2, <3>3
    <3> QED
      BY <2>1, <3>4
  <2>3. CASE request[j] - (request[j] % 2) \notin pending
    <3>1. proof.values[j] = leaves[request[j]]
      BY <1>12, <2>3
    <3> QED
      BY <2>1, <3>1
  <2> QED
    BY <2>2, <2>3
<1> QED
  BY <1>4, <1>13, <1>14, <1>15 DEF ProofSoFar, Verifying

(* A row more: what the rows have added up to it.                           *)
LEMMA RowEnds ==
  ASSUME NEW T, NEW r, Valid(r), NEW l \in 2..Depth, NEW lists,
         NEW n \in Nat, n > Len(RowList(r, l - 1)),
         \A k \in DOMAIN lists : k \in Nat /\ k >= 1,
         \A k \in DOMAIN lists : Filled(T, lists[k], r, k, IF k < n THEN l - 1 ELSE l - 2)
  PROVE  \A k \in DOMAIN lists : Filled(T, lists[k], r, k, l - 1)
<1> TAKE k \in DOMAIN lists
<1>1. l - 2 \in Nat /\ (l - 2) + 1 = l - 1 /\ l - 1 # 0 /\ l - 1 \in 0..Depth
  BY Widths
<1>2. CASE k < n
  BY <1>2
<1>3. CASE ~(k < n)
  <2>1. RowList(r, l - 1) \in Seq(Nat)
    BY <1>1, RowLists DEF Enumerates
  <2>2. k \notin DOMAIN RowList(r, l - 1)
    <3> DEFINE s == RowList(r, l - 1)
    <3>1. s \in Seq(Nat) /\ n > Len(s) /\ ~(k < n)
      BY <2>1, <1>3
    <3> HIDE DEF s
    <3>2. k \notin DOMAIN s
      BY <3>1
    <3> QED
      BY <3>2 DEF s
  <2>3. ~Uses(r, l - 1, k)
    BY <1>1, <2>2 DEF Uses
  <2>4. Filled(T, lists[k], r, k, l - 2)
    BY <1>3
  <2> QED
    BY <1>1, <2>3, <2>4, FillNothing
<1> QED
  BY <1>2, <1>3

(* The prover's loop over a row, one node. *)
LEMMA ProveNodeFills ==
  ASSUME LoopsTyped, Answerable, Walks, Shaped, ProofSoFar, ProveNode, Answerable'
  PROVE  ProofSoFar'
<1> DEFINE place == Sibling(indexes[i])
<1>0. Width \in Nat /\ Width >= 2 /\ Depth \in Nat
  BY Widths
<1>1. pc = "prove" /\ i <= Len(indexes) /\ Batching /\ Valid(request)
  BY AnswerableIsValid DEF ProveNode, Batching, Verifying
<1>2. NodeWalk(request, level, indexes, next, i)
  BY <1>1 DEF Walks
<1>3. /\ indexes[i] \in Nat /\ indexes[i] >= 2 /\ indexes[i] < Width
      /\ i \in DOMAIN RowList(request, 1)
      /\ Beside(request, level - 1, i) = place
      /\ Uses(request, level - 1, i) <=> ~Paired
      /\ Paired => ~Uses(request, level - 1, i + 1)
  BY <1>1, <1>2, NodeStep DEF Paired
<1>4. /\ level \in 2..Depth /\ level - 2 \in Nat /\ (level - 2) + 1 = level - 1
      /\ i \in Nat /\ i >= 1
  BY <1>2, <1>0 DEF NodeWalk, LoopsTyped
<1>5. /\ proof' = IF Paired THEN proof
                  ELSE [proof EXCEPT !.nodes[i] = Append(@, nodes[place])]
      /\ i' = (IF Paired THEN i + 2 ELSE i + 1)
      /\ pc' = "prove" /\ request' = request /\ leaves' = leaves /\ nodes' = nodes
      /\ level' = level
  BY <1>1 DEF ProveNode, tree
<1>6. /\ proof.nodes \in Seq(ListsOf(Contents))
      /\ Len(proof.nodes) = Cardinality(Normalized(request))
      /\ Len(proof.nodes) = Len(RowList(request, 1))
      /\ \A k \in DOMAIN proof.nodes : Filled(Contents, proof.nodes[k], request, k, RowsDone(k))
      /\ DOMAIN proof.values = DOMAIN request
      /\ \A j \in DOMAIN request : proof.values[j] = leaves[request[j]]
  BY <1>1 DEF ProofSoFar
<1>7. /\ proof = [values |-> proof.values, nodes |-> proof.nodes, depth |-> Depth]
  BY <1>1 DEF Shaped
<1>8. place \in DOMAIN Contents /\ Contents[place] = nodes[place]
  <2>1. PICK w \in Nat : Width = 2 * w
    BY Widths
  <2>2. place \in 1..(Width - 1)
    BY <1>3, <2>1 DEF Sibling
  <2> HIDE DEF place
  <2> QED
    BY <2>2, ContentsAre
<1>9. i \in DOMAIN proof.nodes
  <2>1. 1 \in 0..Depth
    BY <1>0, <1>4
  <2>2. RowList(request, 1) \in Seq(Nat)
    BY <1>1, <2>1, RowLists DEF Enumerates
  <2> QED
    BY <2>2, <1>3, <1>6
<1> HIDE DEF place
<1> DEFINE longer == [proof.nodes EXCEPT ![i] = Append(proof.nodes[i], nodes[place])]
<1>10. proof'.values = proof.values /\ proof'.nodes = IF Paired THEN proof.nodes ELSE longer
  <2>1. CASE Paired
    BY <2>1, <1>5
  <2>2. CASE ~Paired
    <3>1. proof' = [proof EXCEPT !.nodes = longer]
      BY <2>2, <1>5
    <3>2. DOMAIN proof = {"values", "nodes", "depth"}
      BY <1>7
    <3> HIDE DEF longer
    <3> QED
      BY <2>2, <3>1, <3>2
  <2> QED
    BY <2>1, <2>2
<1>11. Contents' = Contents
  BY <1>5, ContentsStay
<1>12. ~Paired => Filled(Contents, longer[i], request, i, level - 1)
  <2> SUFFICES ASSUME ~Paired PROVE Filled(Contents, longer[i], request, i, level - 1)
    OBVIOUS
  <2>1. Filled(Contents, proof.nodes[i], request, i, level - 2)
    BY <1>4, <1>6, <1>9 DEF RowsDone
  <2>2. Filled(Contents, Append(proof.nodes[i], Contents[Beside(request, (level - 2) + 1, i)]),
               request, i, (level - 2) + 1)
    BY <1>3, <1>4, <1>8, <2>1, FillMore
  <2>3. longer[i] = Append(proof.nodes[i], nodes[place])
    BY <1>9
  <2> QED
    BY <1>3, <1>4, <1>8, <2>2, <2>3
<1>13. longer \in Seq(ListsOf(Contents)) /\ DOMAIN longer = DOMAIN proof.nodes
       /\ Len(longer) = Len(proof.nodes) /\ (\A k \in DOMAIN proof.nodes : k # i => longer[k] = proof.nodes[k])
  <2>1. Filled(Contents, proof.nodes[i], request, i, RowsDone(i))
    BY <1>6, <1>9
  <2>2. proof.nodes[i] \in ListsOf(Contents)
    BY <2>1 DEF Filled
  <2>3. nodes[place] \in {Contents[y] : y \in DOMAIN Contents}
    BY <1>8
  <2> DEFINE D == {Contents[y] : y \in DOMAIN Contents}
  <2>4. Append(proof.nodes[i], nodes[place]) \in Seq(D)
    <3>1. proof.nodes[i] \in Seq(D) /\ nodes[place] \in D
      BY <2>2, <2>3 DEF ListsOf
    <3> HIDE DEF D
    <3> QED
      BY <3>1
  <2>5. Append(proof.nodes[i], nodes[place]) \in ListsOf(Contents)
    BY <2>4 DEF ListsOf
  <2> QED
    BY <2>5, <1>6, <1>9
<1>14. ASSUME NEW k \in DOMAIN proof.nodes
       PROVE  Filled(Contents, proof'.nodes[k], request, k, RowsDone(k)')
  <2>0. k \in Nat
    BY <1>6
  <2>1. CASE k = i
    <3>1. RowsDone(k)' = level - 1
      BY <2>1, <1>4, <1>5 DEF RowsDone
    <3>2. CASE Paired
      <4>1. Filled(Contents, proof.nodes[i], request, i, level - 2)
        BY <1>4, <1>6, <1>9 DEF RowsDone
      <4>2. Filled(Contents, proof.nodes[i], request, i, (level - 2) + 1)
        BY <4>1, <3>2, <1>3, <1>4, FillNothing
      <4> QED
        BY <4>2, <3>1, <3>2, <2>1, <1>4, <1>10
    <3>3. CASE ~Paired
      BY <3>1, <3>3, <2>1, <1>10, <1>12
    <3> QED
      BY <3>2, <3>3
  <2>2. CASE k = i + 1 /\ Paired
    <3>1. RowsDone(k)' = level - 1
      BY <2>2, <1>4, <1>5 DEF RowsDone
    <3>2. Filled(Contents, proof.nodes[k], request, k, level - 2)
      BY <2>2, <1>4, <1>6 DEF RowsDone
    <3>3. Filled(Contents, proof.nodes[k], request, k, (level - 2) + 1)
      BY <3>2, <2>2, <1>3, <1>4, FillNothing
    <3> QED
      BY <3>1, <3>3, <2>2, <1>4, <1>10
  <2>3. CASE k # i /\ ~(k = i + 1 /\ Paired)
    <3>1. RowsDone(k)' = RowsDone(k)
      BY <2>0, <2>3, <1>4, <1>5 DEF RowsDone
    <3>2. proof'.nodes[k] = proof.nodes[k]
      BY <2>3, <1>10, <1>13
    <3> QED
      BY <3>1, <3>2, <1>6
  <2> QED
    BY <2>1, <2>2, <2>3
<1> HIDE DEF longer
<1>15. /\ proof'.nodes \in Seq(ListsOf(Contents)) /\ Len(proof'.nodes) = Len(proof.nodes)
       /\ DOMAIN proof'.nodes = DOMAIN proof.nodes
  BY <1>6, <1>10, <1>13
<1> QED
  BY <1>5, <1>6, <1>10, <1>11, <1>14, <1>15 DEF ProofSoFar, Verifying

(* Every step lists what its row needs and nothing else. *)
LEMMA ProofNext ==
  LoopsTyped /\ Fresh /\ Phases /\ Walks /\ Shaped /\ ProofSoFar /\ [Next]_vars => ProofSoFar'
<1> SUFFICES ASSUME LoopsTyped, Fresh, Phases, Walks, Shaped, ProofSoFar, [Next]_vars, Answerable'
             PROVE  ProofSoFar'
  BY DEF ProofSoFar
<1> USE DEF Verifying, tree, locals
<1>0. Depth \in Nat /\ Depth >= 1
  BY Widths
<1>1. CASE BuildParents \/ BuildNode \/ Built
  BY <1>1 DEF BuildParents, BuildNode, Built, ProofSoFar
<1>2. ASSUME NEW r \in Requests, Ask(r) PROVE ProofSoFar'
  <2>1. CASE MapFails(r, Width)
    BY <1>2, <2>1 DEF Ask, Panic, ProofSoFar
  <2>2. CASE ~MapFails(r, Width)
    <3>1. /\ pc = "idle" /\ request' = r /\ pc' = "prove_leaves" /\ pending' = Normalized(r)
          /\ proof' = [values |-> [j \in DOMAIN r |-> Zero], nodes |-> <<>>, depth |-> Depth]
          /\ next' = next
      BY <1>2, <2>2 DEF Ask
    <3>2. next' = <<>>
      BY <3>1 DEF Fresh
    <3>3. proof'.nodes = <<>>
      BY <3>1
    <3>4. \A j \in DOMAIN request' : request'[j] - (request'[j] % 2) \in pending'
      BY <3>1 DEF Normalized
    <3>5. proof'.nodes \in Seq(ListsOf(Contents)') /\ Len(proof'.nodes) = Len(next')
          /\ DOMAIN proof'.nodes = {}
      BY <3>2, <3>3
    <3> QED
      BY <3>1, <3>4, <3>5 DEF ProofSoFar
  <2> QED
    BY <2>1, <2>2
<1>3. ASSUME NEW index \in pending, ProveLeaf(index) PROVE ProofSoFar'
  <2>1. CASE index >= Width
    BY <1>3, <2>1 DEF ProveLeaf, Panic, ProofSoFar
  <2>2. CASE ~(index >= Width)
    <3>1. request' = request
      BY <1>3, <2>2 DEF ProveLeaf
    <3>2. Answerable
      BY <3>1 DEF Answerable
    <3> QED
      BY <3>2, <1>3, ProveLeafFills
  <2> QED
    BY <2>1, <2>2
<1>4. CASE ProveLevel
  <2>1. /\ \/ pc = "prove_leaves" /\ pending = {}
           \/ pc = "prove" /\ i > Len(indexes)
        /\ IF level < Depth
           THEN i' = 1 /\ level' = level + 1 /\ pc' = "prove"
           ELSE pc' = "deliver" /\ UNCHANGED <<i, level>>
        /\ UNCHANGED <<request, received, proof, leaves, nodes>>
    BY <1>4 DEF ProveLevel, NextLevel
  <2>2. Answerable /\ Batching /\ Valid(request)
    BY <2>1, AnswerableIsValid DEF Answerable, Batching
  <2>3. /\ DOMAIN proof.values = DOMAIN request
        /\ \A j \in DOMAIN request : proof.values[j] = leaves[request[j]]
    BY <2>1, <2>2 DEF ProofSoFar, Shaped
  <2>4. level \in 1..Depth /\ Finished(proof.nodes, level - 1)
    <3>1. CASE pc = "prove_leaves" /\ pending = {}
      <4>1. level = 1 /\ LeafWalk(request, {}, next)
        BY <3>1, <2>2 DEF Walks
      <4>2. next = RowList(request, 1) /\ Len(next) = Cardinality(Normalized(request))
        BY <4>1, <2>2, LeafWalkEnds
      <4> QED
        BY <3>1, <4>1, <4>2, <2>2, <1>0 DEF ProofSoFar, Finished
    <3>2. CASE pc = "prove" /\ i > Len(indexes)
      <4>1. NodeWalk(request, level, indexes, next, i)
        BY <3>2, <2>2 DEF Walks
      <4>2. level \in 2..Depth /\ indexes = RowList(request, level - 1)
        BY <4>1 DEF NodeWalk
      <4>3. /\ proof.nodes \in Seq(ListsOf(Contents))
            /\ Len(proof.nodes) = Cardinality(Normalized(request))
            /\ Len(proof.nodes) = Len(RowList(request, 1))
            /\ \A k \in DOMAIN proof.nodes : Filled(Contents, proof.nodes[k], request, k, RowsDone(k))
        BY <3>2, <2>2 DEF ProofSoFar
      <4>4. \A k \in DOMAIN proof.nodes : k \in Nat /\ k >= 1
        BY <4>3
      <4>5. \A k \in DOMAIN proof.nodes : Filled(Contents, proof.nodes[k], request, k, level - 1)
        <5>1. i \in Nat /\ i > Len(RowList(request, level - 1))
          BY <3>2, <4>2 DEF LoopsTyped
        <5> QED
          BY <4>2, <4>3, <4>4, <5>1, <2>2, RowEnds DEF RowsDone
      <4> QED
        BY <4>2, <4>3, <4>5, <1>0 DEF Finished
    <3> QED
      BY <2>1, <3>1, <3>2
  <2>5. Contents' = Contents
    BY <2>1, ContentsStay
  <2>6. CASE level < Depth
    <3>1. i' = 1 /\ level' = level + 1 /\ pc' = "prove"
      BY <2>1, <2>6
    <3>2. \A k \in DOMAIN proof.nodes : RowsDone(k)' = level - 1
      <4>1. \A k \in DOMAIN proof.nodes : k \in Nat /\ ~(k < 1)
        BY <2>4 DEF Finished
      <4>2. (level + 1) - 2 = level - 1
        BY <2>4
      <4> QED
        BY <4>1, <4>2, <3>1 DEF RowsDone
    <3>3. /\ proof'.nodes \in Seq(ListsOf(Contents'))
          /\ Len(proof'.nodes) = Cardinality(Normalized(request'))
          /\ Len(proof'.nodes) = Len(RowList(request', 1))
          /\ \A k \in DOMAIN proof'.nodes : Filled(Contents', proof'.nodes[k], request', k, RowsDone(k)')
      BY <2>1, <2>4, <2>5, <3>2 DEF Finished
    <3> QED
      BY <2>1, <2>3, <3>1, <3>3 DEF ProofSoFar
  <2>7. CASE ~(level < Depth)
    <3>1. level = Depth /\ pc' = "deliver"
      BY <2>1, <2>4, <2>7, <1>0
    <3>2. Finished(proof.nodes, Depth - 1)'
      BY <2>1, <2>4, <2>5, <3>1 DEF Finished
    <3> QED
      BY <2>1, <2>3, <3>1, <3>2 DEF ProofSoFar
  <2> QED
    BY <2>6, <2>7
<1>5. CASE ProveNode
  <2>1. Answerable
    BY <1>5 DEF ProveNode, Answerable
  <2> QED
    BY <2>1, <1>5, ProveNodeFills
<1>6. ASSUME /\ pc \in {"deliver", "verify"} \/ Verifying
             /\ pc' \in {"verify", "done"} \/ Verifying'
             /\ UNCHANGED <<request, proof, leaves, nodes>>
      PROVE  ProofSoFar'
  <2>1. Answerable
    BY <1>6 DEF Answerable
  <2>2. Contents' = Contents
    BY <1>6, ContentsStay
  <2>3. Finished(proof.nodes, Depth - 1)' <=> Finished(proof.nodes, Depth - 1)
    BY <1>6, <2>2 DEF Finished
  <2> QED
    BY <1>6, <2>1, <2>3 DEF ProofSoFar
<1>7. CASE Deliver
  BY <1>7, <1>6 DEF Deliver
<1>8. CASE VerifyStart
  BY <1>8, <1>6 DEF VerifyStart, Panic, Return
<1>9. ASSUME NEW index \in pending, VerifyLeaf(index) PROVE ProofSoFar'
  BY <1>9, <1>6 DEF VerifyLeaf, Return
<1>10. CASE VerifyLevel
  BY <1>10, <1>6 DEF VerifyLevel, NextLevel
<1>11. CASE VerifyNode
  BY <1>11, <1>6 DEF VerifyNode, Return
<1>12. CASE Conclude
  BY <1>12, <1>6 DEF Conclude, Panic, Return
<1>13. ASSUME NEW x \in 0..Width, ProvePath(x) PROVE ProofSoFar'
  BY <1>13 DEF ProvePath, Panic, ProofSoFar
<1>14. CASE VerifyPath
  BY <1>14 DEF VerifyPath, Return, ProofSoFar
<1>15. CASE UNCHANGED vars
  BY <1>15 DEF vars, ProofSoFar, Finished, Contents, Child, Answerable, RowsDone
<1> QED
  BY <1>1, <1>2, <1>3, <1>4, <1>5, <1>7, <1>8, <1>9, <1>10, <1>11, <1>12, <1>13, <1>14, <1>15
  DEF Next

-----------------------------------------------------------------------------
(* The verifier reads what the prover listed. *)

(* A proof on its way through the verifier, delivered as it was made. *)
Intact == Answerable /\ received = proof /\ (pc = "verify" \/ Verifying)

(* The verifier's lists are empty until it starts. *)
Unread ==
  pc \in {"new", "build", "idle", "prove_leaves", "prove", "deliver", "verify"} =>
    v = <<>> /\ pointers = <<>>

(* What the verifier has computed are the nodes of the rows done so far. *)
Agrees ==
  \A y \in DOMAIN v : /\ v[y] = nodes[y] /\ y \in 1..(Width - 1)
                       /\ \E m \in 1..level : y \in RowSet(request, m)

(* Its pointers are where the prover was when it had visited the same rows. *)
Replays ==
  Intact =>
    /\ Verifying => Agrees /\ pointers \in Seq(Nat)
    /\ pc = "verify_leaves" =>
         /\ Len(pointers) = Len(next)
         /\ \A k \in DOMAIN pointers : pointers[k] = Count(request, k, 0)
    /\ pc = "verify_nodes" =>
         /\ Len(pointers) = Len(RowList(request, 1))
         /\ \A k \in DOMAIN pointers : pointers[k] = Count(request, k, RowsDone(k))
    /\ pc = "conclude" =>
         /\ Len(pointers) = Len(RowList(request, 1))
         /\ \A k \in DOMAIN pointers : pointers[k] = Count(request, k, Depth - 1)

(* The lists of the verifier are empty until it starts. *)
LEMMA UnreadNext == Unread /\ [Next]_vars => Unread'
<1> SUFFICES ASSUME Unread, [Next]_vars PROVE Unread'
  OBVIOUS
<1> USE DEF Unread, tree, locals
<1>1. CASE BuildParents \/ BuildNode \/ Built
  BY <1>1 DEF BuildParents, BuildNode, Built
<1>2. ASSUME NEW r \in Requests, Ask(r) PROVE Unread'
  BY <1>2 DEF Ask, Panic
<1>3. ASSUME NEW index \in pending, ProveLeaf(index) \/ VerifyLeaf(index) PROVE Unread'
  BY <1>3 DEF ProveLeaf, VerifyLeaf, Panic, Return
<1>4. CASE ProveLevel \/ VerifyLevel
  BY <1>4 DEF ProveLevel, VerifyLevel, NextLevel
<1>5. CASE ProveNode \/ Deliver
  BY <1>5 DEF ProveNode, Deliver
<1>6. CASE VerifyStart \/ VerifyNode \/ Conclude \/ VerifyPath
  BY <1>6 DEF VerifyStart, VerifyNode, Conclude, VerifyPath, Panic, Return
<1>7. ASSUME NEW x \in 0..Width, ProvePath(x) PROVE Unread'
  BY <1>7 DEF ProvePath, Panic
<1>8. CASE UNCHANGED vars
  BY <1>8 DEF vars
<1> QED
  BY <1>1, <1>2, <1>3, <1>4, <1>5, <1>6, <1>7, <1>8 DEF Next

(* What a proof that arrived as it was made contains. *)
LEMMA IntactProof ==
  ASSUME LoopsTyped, Shaped, ProofSoFar, Intact
  PROVE  /\ received.depth = Depth /\ Power[received.depth] = Width
         /\ Batching /\ Valid(request)
         /\ Finished(received.nodes, Depth - 1)
         /\ DOMAIN received.values = DOMAIN request
         /\ \A j \in DOMAIN request : received.values[j] = leaves[request[j]]
BY AnswerableIsValid DEF Intact, Shaped, ProofSoFar, Batching, Width

(* A leaf the verifier reads is that of the tree. *)
LEMMA LeafRead ==
  ASSUME LoopsTyped, Shaped, ProofSoFar, Intact, NEW k, NEW x \in Nat, x < Width,
         ~Asked(x) => k \in DOMAIN received.nodes /\ Uses(request, 0, k)
                        /\ Beside(request, 0, k) = x + Width
  PROVE  ~Missing(x, k) /\ LeafOf(x, k) = leaves[x]
<1>1. /\ Finished(received.nodes, Depth - 1)
      /\ DOMAIN received.values = DOMAIN request
      /\ \A j \in DOMAIN request : received.values[j] = leaves[request[j]]
  BY IntactProof
<1>2. CASE Asked(x)
  <2>1. PlaceOf(x) \in DOMAIN request /\ request[PlaceOf(x)] = x
    BY <1>2 DEF Asked, PlaceOf
  <2> QED
    BY <1>1, <1>2, <2>1 DEF Missing, LeafOf
<1>3. CASE ~Asked(x)
  <2> DEFINE list == received.nodes[k]
  <2>1. Filled(Contents, list, request, k, Depth - 1) /\ list \in ListsOf(Contents)
    BY <1>1, <1>3 DEF Finished, Filled
  <2>2. Depth - 1 \in Nat /\ 0 \in 0..(Depth - 1)
    BY Widths
  <2>3. Count(request, k, 0) = 1 /\ Count(request, k, 0) <= Count(request, k, Depth - 1)
        /\ Count(request, k, Depth - 1) \in Nat
    BY <1>3, <2>2, Counts
  <2>4. list[1] = Contents[x + Width] /\ Len(list) >= 1
    BY <1>3, <2>1, <2>2, <2>3 DEF Filled
  <2>5. Contents[x + Width] = leaves[x]
    <3>1. x \in 0..(Width - 1)
      BY Widths
    <3> QED
      BY <3>1, ContentsAre
  <2>6. list # <<>>
    <3> HIDE DEF list
    <3>1. Len(<<>>) = 0
      OBVIOUS
    <3> QED
      BY <2>4, <3>1
  <2> QED
    BY <1>3, <2>4, <2>5, <2>6 DEF Missing, LeafOf
<1> QED
  BY <1>2, <1>3

(* One pair of leaves of the verifier's first loop. *)
LEMMA ReplayLeaf ==
  ASSUME LoopsTyped, BuiltFromTheEnd, Walks, Shaped, ProofSoFar, Replays, Intact,
         NEW index \in pending, VerifyLeaf(index)
  PROVE  pc' = pc /\ Replays'
<1> DEFINE k == Len(next) + 1
<1> DEFINE p == (index + Width) \div 2
<1> DEFINE d == Hash(leaves[index], leaves[index + 1])
<1> DEFINE skip == IF Asked(index) /\ Asked(index + 1) THEN 0 ELSE 1
<1>0. Width \in Nat /\ Width >= 2 /\ Depth \in Nat /\ Depth >= 1
  BY Widths
<1>1. /\ pc = "verify_leaves" /\ IsLeast(index, pending) /\ Verifying
      /\ Batching /\ Valid(request) /\ Power[received.depth] = Width
      /\ Finished(received.nodes, Depth - 1)
  BY IntactProof DEF VerifyLeaf, Verifying
<1>2. level = 1 /\ LeafWalk(request, pending, next)
  BY <1>1 DEF Walks
<1>3. /\ index \in Nat /\ index % 2 = 0 /\ index + 1 < Width /\ 2 * p = index + Width
      /\ k \in Nat /\ k \in DOMAIN RowList(request, 1) /\ RowList(request, 1)[k] = p
      /\ p \in 1..(Width - 1)
      /\ next \in Seq(Nat)
  <2>1. next \in Seq(Nat)
    BY <1>2 DEF LeafWalk
  <2>2. Valid(request) /\ IsLeast(index, pending)
    BY <1>1
  <2>3. LeafWalk(request, pending, next)
    BY <1>2
  <2>4. /\ index \in Nat /\ index % 2 = 0 /\ index + 1 < Width /\ 2 * p = index + Width
        /\ k \in Nat /\ k \in DOMAIN RowList(request, 1) /\ RowList(request, 1)[k] = p
    BY <2>2, <2>3, LeafStep
  <2>5. p \in 1..(Width - 1)
    BY <2>2, <2>3, LeafStep
  <2> HIDE DEF k, p
  <2> QED
    BY <2>1, <2>4, <2>5
<1>4. /\ \A x : Asked(x) <=> AskedIn(request, x)
      /\ AskedIn(request, index) \/ AskedIn(request, index + 1)
      /\ Uses(request, 0, k) <=> ~(AskedIn(request, index) /\ AskedIn(request, index + 1))
      /\ ~AskedIn(request, index) => Beside(request, 0, k) = index + Width
      /\ ~AskedIn(request, index + 1) => Beside(request, 0, k) = (index + 1) + Width
  <2>1. \A x : Asked(x) <=> AskedIn(request, x)
    BY DEF Asked, AskedIn
  <2>2. Valid(request)
    BY <1>1
  <2> HIDE DEF p, k
  <2>3. 2 * RowList(request, 1)[k] = index + Width
    BY <1>3
  <2> QED
    BY <1>3, <2>1, <2>2, <2>3, LeafUses
<1>5. k \in DOMAIN received.nodes
  <2>1. received.nodes \in Seq(ListsOf(Contents)) /\ Len(received.nodes) = Len(RowList(request, 1))
    BY <1>1 DEF Finished
  <2>2. RowList(request, 1) \in Seq(Nat)
    <3>1. 1 \in 0..Depth
      BY <1>0
    <3> QED
      BY <1>1, <3>1, RowLists DEF Enumerates
  <2> HIDE DEF k
  <2> QED
    BY <1>3, <2>1, <2>2
<1>6. /\ ~Missing(index, k) /\ LeafOf(index, k) = leaves[index]
      /\ ~Missing(index + 1, k) /\ LeafOf(index + 1, k) = leaves[index + 1]
  <2>1. index + 1 \in Nat /\ index < Width
    BY <1>0, <1>3
  <2> HIDE DEF k
  <2> QED
    BY <1>3, <1>4, <1>5, <2>1, LeafRead
<1>7. /\ v' = With(v, p, d) /\ pointers' = Append(pointers, skip)
      /\ next' = Append(next, p) /\ pc' = pc /\ level' = level
      /\ request' = request /\ received' = received /\ proof' = proof
      /\ leaves' = leaves /\ nodes' = nodes
  <2>1. (Power[received.depth] + index) \div 2 = p
    BY <1>0, <1>1, <1>3
  <2> HIDE DEF p
  <2> QED
    BY <1>1, <1>6, <2>1 DEF VerifyLeaf, tree
<1>8. skip = Count(request, k, 0) /\ skip \in Nat
  <2> HIDE DEF k
  <2> QED
    BY <1>4, Counts
<1>9. d = nodes[p]
  <2>1. nodes[p] = Hash(Child(2 * p), Child(2 * p + 1))
    BY <1>1, <1>3 DEF BuiltFromTheEnd, TreeIsHashed
  <2>2. Child(2 * p) = leaves[index] /\ Child(2 * p + 1) = leaves[index + 1]
    <3>1. 2 * p = index + Width /\ 2 * p + 1 = (index + 1) + Width
          /\ ~(index + Width < Width) /\ ~((index + 1) + Width < Width)
          /\ (index + Width) - Width = index /\ ((index + 1) + Width) - Width = index + 1
      BY <1>0, <1>3
    <3> HIDE DEF p
    <3> QED
      BY <3>1 DEF Child
  <2> QED
    BY <2>1, <2>2
<1>10. p \in RowSet(request, 1)
  <2>1. 1 \in 0..Depth
    BY <1>0
  <2> QED
    BY <1>1, <1>3, <2>1, RowLists DEF Enumerates
<1>11. /\ Agrees /\ pointers \in Seq(Nat) /\ Len(pointers) = Len(next)
       /\ \A a \in DOMAIN pointers : pointers[a] = Count(request, a, 0)
  BY <1>1 DEF Replays
<1> HIDE DEF p, d, k, skip
<1>12. Agrees'
  <2>1. DOMAIN v' = DOMAIN v \cup {p} /\ v'[p] = d
        /\ \A y \in DOMAIN v : y # p => v'[y] = v[y]
    <3>1. v' = With(v, p, d)
      BY <1>7
    <3> QED
      BY <3>1 DEF With
  <2>2. 1 \in 1..level /\ level' = level
    BY <1>2, <1>7
  <2> QED
    BY <2>1, <2>2, <1>3, <1>7, <1>9, <1>10, <1>11 DEF Agrees
<1>13. /\ pointers' \in Seq(Nat) /\ Len(pointers') = Len(next')
       /\ \A a \in DOMAIN pointers' : pointers'[a] = Count(request, a, 0)
  <2>1. Len(next') = k /\ Len(next) + 1 = k
    <3>1. p \in Nat
      BY <1>3, <1>0
    <3> QED
      BY <3>1, <1>3, <1>7 DEF k
  <2>2. /\ pointers' \in Seq(Nat) /\ Len(pointers') = k /\ pointers'[k] = skip
        /\ \A a \in DOMAIN pointers' : a = k \/ a \in DOMAIN pointers
        /\ \A a \in DOMAIN pointers : pointers'[a] = pointers[a]
    BY <1>7, <1>8, <1>11, <2>1
  <2> QED
    BY <1>8, <1>11, <2>1, <2>2
<1> QED
  BY <1>1, <1>7, <1>12, <1>13 DEF Replays

(* One node of the verifier's loop over a row. *)
LEMMA ReplayNode ==
  ASSUME LoopsTyped, BuiltFromTheEnd, NextOnLevel, NodesAhead, Walks, Shaped, ProofSoFar,
         Replays, Intact, VerifyNode
  PROVE  pc' = pc /\ Replays'
<1> DEFINE node == indexes[i]
<1> DEFINE place == Sibling(node)
<1> DEFINE p == node \div 2
<1> DEFINE list == received.nodes[i]
<1> DEFINE beside == IF Paired THEN v[place] ELSE list[pointers[i] + 1]
<1> DEFINE d == Parent(node, v[node], beside)
<1>0. Width \in Nat /\ Width >= 2 /\ Depth \in Nat /\ Depth >= 1
  BY Widths
<1>1. /\ pc = "verify_nodes" /\ i <= Len(indexes) /\ Verifying /\ DepthKept
      /\ Batching /\ Valid(request) /\ Finished(received.nodes, Depth - 1)
  BY IntactProof DEF VerifyNode, Verifying, DepthKept
<1>2. NodeWalk(request, level, indexes, next, i)
  BY <1>1 DEF Walks
<1>3. /\ indexes \in Seq(Nat) /\ i \in DOMAIN indexes
      /\ node \in Nat /\ node >= 2 /\ node < Width
      /\ i \in DOMAIN RowList(request, 1)
      /\ p \in RowSet(request, level) /\ p \in 1..(Width - 1)
      /\ Beside(request, level - 1, i) = place
      /\ Uses(request, level - 1, i) <=> ~Paired
      /\ Paired => ~Uses(request, level - 1, i + 1)
  BY <1>1, <1>2, NodeStep DEF Paired
<1>4. /\ level \in 2..Depth /\ level - 2 \in Nat /\ (level - 2) + 1 = level - 1
      /\ level - 1 \in 0..(Depth - 1) /\ level - 1 \in Nat /\ Depth - 1 \in Nat
      /\ i \in Nat /\ i >= 1
  BY <1>2, <1>0 DEF NodeWalk, LoopsTyped
<1>5. /\ Agrees /\ pointers \in Seq(Nat) /\ Len(pointers) = Len(RowList(request, 1))
      /\ \A k \in DOMAIN pointers : pointers[k] = Count(request, k, RowsDone(k))
  BY <1>1 DEF Replays
<1>6. RowList(request, 1) \in Seq(Nat)
  <2>1. 1 \in 0..Depth
    BY <1>0
  <2> QED
    BY <1>1, <2>1, RowLists DEF Enumerates
<1>7. i \in DOMAIN pointers /\ pointers[i] = Count(request, i, level - 2)
  <2>1. i \in DOMAIN pointers
    BY <1>3, <1>5, <1>6
  <2> QED
    BY <2>1, <1>4, <1>5 DEF RowsDone
<1>8. node \in DOMAIN v /\ v[node] = nodes[node]
      /\ (Paired => place \in DOMAIN v /\ v[place] = nodes[place])
  <2>1. \A a \in DOMAIN indexes : a >= i => indexes[a] \in DOMAIN v
    BY <1>1 DEF NodesAhead
  <2>2. node \in DOMAIN v
    BY <2>1, <1>3, <1>4
  <2>3. Paired => place \in DOMAIN v
    <3>1. Paired => i + 1 \in DOMAIN indexes /\ i + 1 >= i /\ indexes[i + 1] = place
      BY <1>3, <1>4 DEF Paired
    <3> QED
      BY <2>1, <3>1
  <2> QED
    BY <2>2, <2>3, <1>5 DEF Agrees
(* the list has not ended, and goes on with the node the verifier needs *)
<1>9. ~Paired => Len(list) > pointers[i] /\ list[pointers[i] + 1] = nodes[place]
  <2> SUFFICES ASSUME ~Paired
               PROVE  Len(list) > pointers[i] /\ list[pointers[i] + 1] = nodes[place]
    OBVIOUS
  <2>1. i \in DOMAIN received.nodes
    BY <1>1, <1>3, <1>6 DEF Finished
  <2>2. Filled(Contents, list, request, i, Depth - 1)
    BY <2>1, <1>1 DEF Finished
  <2>3. Uses(request, level - 1, i)
    BY <1>3
  <2>4. Count(request, i, level - 1) = pointers[i] + 1
    <3>1. Count(request, i, (level - 2) + 1) = Count(request, i, level - 2) + 1
      BY <1>4, <2>3, Counts
    <3> QED
      BY <3>1, <1>4, <1>7
  <2>5. list[pointers[i] + 1] = Contents[place]
    <3> HIDE DEF list, place
    <3> QED
      BY <2>2, <2>3, <2>4, <1>3, <1>4 DEF Filled
  <2>6. Count(request, i, level - 1) <= Count(request, i, Depth - 1)
        /\ Count(request, i, Depth - 1) \in Nat
    BY <1>4, Counts
  <2>7. Len(list) = Count(request, i, Depth - 1) /\ pointers[i] \in Nat
    BY <2>2, <1>5, <1>7 DEF Filled
  <2>8. place \in 1..(Width - 1)
    <3>1. PICK w \in Nat : Width = 2 * w
      BY Widths
    <3> HIDE DEF node
    <3> QED
      BY <3>1, <1>3 DEF Sibling
  <2>9. Contents[place] = nodes[place]
    BY <2>8, ContentsAre
  <2> HIDE DEF list, place
  <2> QED
    BY <2>4, <2>5, <2>6, <2>7, <2>9
<1>10. /\ v' = With(v, p, d)
       /\ pointers' = IF Paired THEN pointers ELSE [pointers EXCEPT ![i] = pointers[i] + 1]
       /\ i' = (IF Paired THEN i + 2 ELSE i + 1)
       /\ pc' = pc /\ level' = level /\ indexes' = indexes
       /\ request' = request /\ received' = received /\ proof' = proof
       /\ leaves' = leaves /\ nodes' = nodes
  <2>1. ~(~Paired /\ Len(received.nodes[i]) <= pointers[i])
    <3>1. pointers[i] \in Nat
      BY <1>5, <1>7
    <3>2. ~Paired => Len(list) \in Nat
      <4> SUFFICES ASSUME ~Paired PROVE Len(list) \in Nat
        OBVIOUS
      <4>1. i \in DOMAIN received.nodes
        BY <1>1, <1>3, <1>6 DEF Finished
      <4>2. list \in ListsOf(Contents)
        BY <4>1, <1>1 DEF Finished
      <4> QED
        BY <4>2 DEF ListsOf
    <3> HIDE DEF beside, d
    <3> QED
      BY <3>1, <3>2, <1>9
  <2> QED
    BY <2>1 DEF VerifyNode, tree
<1>11. d = nodes[p]
  <2>1. nodes[p] = Hash(Child(2 * p), Child(2 * p + 1))
    BY <1>1, <1>3 DEF BuiltFromTheEnd, TreeIsHashed
  <2>2. beside = nodes[place]
    BY <1>8, <1>9
  <2> HIDE DEF beside
  <2>3. PICK w \in Nat : Width = 2 * w
    BY Widths
  <2>4. CASE node % 2 = 0
    <3>1. 2 * p = node /\ place = 2 * p + 1 /\ 2 * p < Width /\ 2 * p + 1 < Width
      BY <2>3, <2>4, <1>3 DEF Sibling
    <3>2. d = Hash(nodes[node], nodes[place])
      BY <2>2, <2>4, <1>8 DEF Parent
    <3> HIDE DEF p, node, place, d
    <3> QED
      BY <2>1, <3>1, <3>2 DEF Child
  <2>5. CASE node % 2 # 0
    <3>1. 2 * p + 1 = node /\ place = 2 * p /\ 2 * p < Width /\ 2 * p + 1 < Width
      <4>1. node \in Nat /\ node < Width /\ Width \in Nat
        BY <1>0, <1>3
      <4> HIDE DEF node
      <4> QED
        BY <4>1, <2>5 DEF Sibling
    <3>2. d = Hash(nodes[place], nodes[node])
      BY <2>2, <2>5, <1>8 DEF Parent
    <3> HIDE DEF p, node, place, d
    <3> QED
      BY <2>1, <3>1, <3>2 DEF Child
  <2> QED
    BY <2>4, <2>5
<1> HIDE DEF node, place, p, list, beside, d
<1>12. Agrees'
  <2>1. DOMAIN v' = DOMAIN v \cup {p} /\ v'[p] = d
        /\ \A y \in DOMAIN v : y # p => v'[y] = v[y]
    BY <1>10 DEF With
  <2>2. level \in 1..level /\ level' = level
    BY <1>4, <1>10
  <2> QED
    BY <2>1, <2>2, <1>3, <1>5, <1>10, <1>11 DEF Agrees
<1>13. /\ pointers' \in Seq(Nat) /\ Len(pointers') = Len(pointers)
       /\ DOMAIN pointers' = DOMAIN pointers
       /\ pointers'[i] = IF Paired THEN pointers[i] ELSE pointers[i] + 1
       /\ \A k \in DOMAIN pointers : k # i => pointers'[k] = pointers[k]
  BY <1>5, <1>7, <1>10
<1>14. ASSUME NEW k \in DOMAIN pointers
       PROVE  pointers'[k] = Count(request, k, RowsDone(k)')
  <2>0. k \in Nat
    BY <1>5
  <2>1. CASE k = i
    <3>1. RowsDone(k)' = level - 1
      BY <2>1, <1>4, <1>10 DEF RowsDone
    <3>2. Count(request, i, (level - 2) + 1) = IF Uses(request, (level - 2) + 1, i)
                                               THEN Count(request, i, level - 2) + 1
                                               ELSE Count(request, i, level - 2)
      BY <1>4, Counts
    <3>3. Count(request, i, level - 1) = IF Paired THEN pointers[i] ELSE pointers[i] + 1
      BY <3>2, <1>3, <1>4, <1>7
    <3> QED
      BY <2>1, <3>1, <3>3, <1>13
  <2>2. CASE k = i + 1 /\ Paired
    <3>1. RowsDone(k)' = level - 1 /\ RowsDone(k) = level - 2
      BY <2>2, <1>4, <1>10 DEF RowsDone
    <3>2. Count(request, k, (level - 2) + 1) = Count(request, k, level - 2)
      BY <2>2, <1>3, <1>4, Counts
    <3>3. pointers'[k] = pointers[k] /\ pointers[k] = Count(request, k, level - 2)
      BY <2>0, <2>2, <3>1, <1>4, <1>5, <1>13
    <3> QED
      BY <3>1, <3>2, <3>3, <1>4
  <2>3. CASE k # i /\ ~(k = i + 1 /\ Paired)
    <3>1. RowsDone(k)' = RowsDone(k)
      BY <2>0, <2>3, <1>4, <1>10 DEF RowsDone
    <3> QED
      BY <2>3, <3>1, <1>5, <1>13
  <2> QED
    BY <2>1, <2>2, <2>3
<1> QED
  BY <1>1, <1>5, <1>10, <1>12, <1>13, <1>14 DEF Replays

(* Every step of the verifier is where the prover was. *)
LEMMA ReplaysNext ==
  LoopsTyped /\ BuiltFromTheEnd /\ Phases /\ NextOnLevel /\ NodesAhead /\ Walks /\ Shaped
    /\ ProofSoFar /\ Unread /\ Replays /\ [Next]_vars => Replays'
<1> SUFFICES ASSUME LoopsTyped, BuiltFromTheEnd, Phases, NextOnLevel, NodesAhead, Walks, Shaped,
                    ProofSoFar, Unread, Replays, [Next]_vars, Intact'
             PROVE  Replays'
  BY DEF Replays
<1>0. Depth \in Nat /\ Depth >= 1
  BY Widths
<1>1. CASE VerifyStart
  <2>1. /\ pc = "verify" /\ pc' = "verify_leaves" /\ UNCHANGED <<next, v, pointers>>
    BY <1>1 DEF VerifyStart, Panic, Return, Intact, Verifying
  <2>2. next' = <<>> /\ v' = <<>> /\ pointers' = <<>>
    BY <2>1 DEF Phases, Unread
  <2>3. DOMAIN v' = {} /\ DOMAIN pointers' = {} /\ Len(pointers') = Len(next')
        /\ pointers' \in Seq(Nat)
    BY <2>2
  <2> QED
    BY <2>1, <2>3 DEF Replays, Agrees
<1>2. ASSUME NEW index \in pending, VerifyLeaf(index) PROVE Replays'
  <2>1. Intact
    BY <1>2 DEF VerifyLeaf, Return, Intact, Answerable, Verifying, tree
  <2> QED
    BY <1>2, <2>1, ReplayLeaf
<1>3. CASE VerifyNode
  <2>1. Intact
    BY <1>3 DEF VerifyNode, Return, Intact, Answerable, Verifying, tree
  <2> QED
    BY <1>3, <2>1, ReplayNode
<1>4. CASE VerifyLevel
  <2>1. /\ \/ pc = "verify_leaves" /\ pending = {}
           \/ pc = "verify_nodes" /\ i > Len(indexes)
        /\ IF level < received.depth
           THEN i' = 1 /\ level' = level + 1 /\ pc' = "verify_nodes"
           ELSE pc' = "conclude" /\ UNCHANGED <<i, level>>
        /\ UNCHANGED <<request, received, proof, nodes, v, pointers>>
    BY <1>4 DEF VerifyLevel, NextLevel, tree
  <2>2. Intact /\ Verifying
    BY <2>1 DEF Intact, Answerable, Verifying
  <2>3. Batching /\ Valid(request) /\ received.depth = Depth
    BY <2>2, IntactProof
  <2>4. Agrees /\ pointers \in Seq(Nat)
    BY <2>2 DEF Replays
  <2>5. /\ level \in 1..Depth /\ Len(pointers) = Len(RowList(request, 1))
        /\ \A k \in DOMAIN pointers : pointers[k] = Count(request, k, level - 1)
    <3>1. CASE pc = "verify_leaves" /\ pending = {}
      <4>1. level = 1 /\ LeafWalk(request, {}, next)
        BY <3>1, <2>3 DEF Walks
      <4>2. next = RowList(request, 1)
        BY <4>1, <2>3, LeafWalkEnds
      <4> QED
        BY <3>1, <4>1, <4>2, <2>2, <1>0 DEF Replays
    <3>2. CASE pc = "verify_nodes" /\ i > Len(indexes)
      <4>1. NodeWalk(request, level, indexes, next, i)
        BY <3>2, <2>3 DEF Walks
      <4>2. level \in 2..Depth /\ indexes = RowList(request, level - 1)
        BY <4>1 DEF NodeWalk
      <4>3. /\ Len(pointers) = Len(RowList(request, 1))
            /\ \A k \in DOMAIN pointers : pointers[k] = Count(request, k, RowsDone(k))
        BY <3>2, <2>2 DEF Replays
      <4>4. ASSUME NEW k \in DOMAIN pointers PROVE pointers[k] = Count(request, k, level - 1)
        <5>1. level - 2 \in Nat /\ (level - 2) + 1 = level - 1 /\ level - 1 # 0
              /\ level - 1 \in 0..Depth
          BY <4>2, <1>0
        <5>2. CASE k < i
          BY <5>2, <4>3 DEF RowsDone
        <5>3. CASE ~(k < i)
          <6>1. k \notin DOMAIN RowList(request, level - 1)
            <7>1. indexes \in Seq(Nat)
              BY <4>2, <5>1, <2>3, RowLists DEF Enumerates
            <7>2. i \in Nat /\ k \in Nat
              BY <2>4 DEF LoopsTyped
            <7> QED
              BY <7>1, <7>2, <5>3, <3>2, <4>2
          <6>2. ~Uses(request, (level - 2) + 1, k)
            BY <5>1, <6>1 DEF Uses
          <6>3. pointers[k] = Count(request, k, level - 2)
            BY <5>3, <4>3 DEF RowsDone
          <6> QED
            BY <5>1, <6>2, <6>3, Counts
        <5> QED
          BY <5>2, <5>3
      <4> QED
        BY <4>2, <4>3, <4>4, <1>0
    <3> QED
      BY <2>1, <3>1, <3>2
  <2>6. CASE level < Depth
    <3>1. i' = 1 /\ level' = level + 1 /\ pc' = "verify_nodes"
      BY <2>1, <2>3, <2>6
    <3>2. \A k \in DOMAIN pointers : RowsDone(k)' = level - 1
      <4>1. \A k \in DOMAIN pointers : k \in Nat /\ ~(k < 1)
        BY <2>4
      <4>2. (level + 1) - 2 = level - 1
        BY <2>5
      <4> QED
        BY <4>1, <4>2, <3>1 DEF RowsDone
    <3>3. Agrees'
      <4>1. \A m \in 1..level : m \in 1..(level + 1)
        BY <2>5
      <4> QED
        BY <4>1, <3>1, <2>1, <2>4 DEF Agrees
    <3> QED
      BY <2>1, <2>4, <2>5, <3>1, <3>2, <3>3 DEF Replays
  <2>7. CASE ~(level < Depth)
    <3>1. level = Depth /\ pc' = "conclude" /\ level' = level
      BY <2>1, <2>3, <2>5, <2>7, <1>0
    <3>2. Agrees'
      BY <3>1, <2>1, <2>4 DEF Agrees
    <3> QED
      BY <2>1, <2>4, <2>5, <3>1, <3>2 DEF Replays
  <2> QED
    BY <2>6, <2>7
<1>5. CASE ~Verifying'
  BY <1>5 DEF Replays, Verifying
<1>6. CASE UNCHANGED vars
  BY <1>6 DEF vars, tree, locals, Replays, Intact, Answerable, Verifying, Agrees, RowsDone
<1> QED
  BY <1>1, <1>2, <1>3, <1>4, <1>5, <1>6, OnlyTheVerifier

-----------------------------------------------------------------------------
(* A proof that arrives as it was made is accepted. *)

(* The values of a path, one by one. *)
LEMMA PathsAre ==
  ASSUME NEW x
  PROVE  /\ PathTo(x) = [j \in 1..(Depth + 1) |-> PathTo(x)[j]] /\ Len(PathTo(x)) = Depth + 1
         /\ PathTo(x)[1] = leaves[x] /\ PathTo(x)[2] = leaves[Sibling(x)]
         /\ \A m \in 1..(Depth - 1) : PathTo(x)[m + 2] = nodes[Sibling(Ancestor(x, m))]
<1> DEFINE f == [d \in 1..(Depth - 1) |-> nodes[Sibling((x + Width) \div Power[d])]]
<1> DEFINE D == {f[d] : d \in 1..(Depth - 1)} \cup {leaves[x], leaves[Sibling(x)]}
<1>0. Depth \in Nat /\ Depth >= 1
  BY Widths
<1>1. f \in Seq(D) /\ Len(f) = Depth - 1
  <2>1. f \in [1..(Depth - 1) -> D] /\ Depth - 1 \in Nat
    BY <1>0
  <2> HIDE DEF f, D
  <2> QED
    BY <2>1
<1>2. leaves[x] \in D /\ leaves[Sibling(x)] \in D
  OBVIOUS
<1>3. PathTo(x) = <<leaves[x], leaves[Sibling(x)]>> \o f
  BY DEF PathTo
<1>4. \A m \in 1..(Depth - 1) : f[m] = nodes[Sibling(Ancestor(x, m))]
  BY DEF Ancestor
<1> HIDE DEF f, D
<1>5. /\ PathTo(x) \in Seq(D) /\ Len(PathTo(x)) = Depth + 1
      /\ PathTo(x)[1] = leaves[x] /\ PathTo(x)[2] = leaves[Sibling(x)]
      /\ \A m \in 1..(Depth - 1) : PathTo(x)[m + 2] = f[m]
  BY <1>0, <1>1, <1>2, <1>3
<1>6. PathTo(x) = [j \in 1..(Depth + 1) |-> PathTo(x)[j]]
  BY <1>5
<1> QED
  BY <1>4, <1>5, <1>6

(* Of the paths that may be delivered only the right one climbs to the root. *)
LEMMA OnlyThePath ==
  ASSUME TreeIsHashed, pc \notin {"new", "build"}, NEW x \in 0..(Width - 1),
         NEW p \in PathDeliveries(PathTo(x))
  PROVE  Climb(p, x) = nodes[1] <=> p = PathTo(x)
<1> DEFINE q == PathTo(x)
<1>0. Depth \in Nat /\ Depth >= 1
  BY Widths
<1>1. /\ q = [j \in 1..(Depth + 1) |-> q[j]] /\ Len(q) = Depth + 1
      /\ q[1] = leaves[x] /\ q[2] = leaves[Sibling(x)]
      /\ \A m \in 1..(Depth - 1) : q[m + 2] = nodes[Sibling(Ancestor(x, m))]
  BY PathsAre
<1>2. p = q \/ \E j \in DOMAIN q : p = [q EXCEPT ![j] = Wrong]
  BY DEF PathDeliveries
<1> HIDE DEF q
<1>3. p = [j \in 1..(Depth + 1) |-> p[j]]
  BY <1>1, <1>2
<1>4. Len(p) = Depth + 1
  <2> DEFINE D == {p[j] : j \in 1..(Depth + 1)}
  <2>1. p \in [1..(Depth + 1) -> D] /\ Depth + 1 \in Nat
    BY <1>0, <1>3
  <2> HIDE DEF D
  <2> QED
    BY <2>1
<1>5. Climb(p, x) = nodes[1] <=>
        /\ p[1] = leaves[x] /\ p[2] = leaves[Sibling(x)]
        /\ \A m \in 1..(Depth - 1) : p[m + 2] = nodes[Sibling(Ancestor(x, m))]
  BY <1>4, OnePath
<1>6. (\A j \in 1..(Depth + 1) : p[j] = q[j]) <=>
        /\ p[1] = q[1] /\ p[2] = q[2]
        /\ \A m \in 1..(Depth - 1) : p[m + 2] = q[m + 2]
  <2>1. /\ 1 \in 1..(Depth + 1) /\ 2 \in 1..(Depth + 1)
        /\ \A m \in 1..(Depth - 1) : m + 2 \in 1..(Depth + 1)
    BY <1>0
  <2>2. \A j \in 1..(Depth + 1) : j = 1 \/ j = 2 \/ (j - 2 \in 1..(Depth - 1) /\ (j - 2) + 2 = j)
    BY <1>0
  <2>3. ASSUME p[1] = q[1], p[2] = q[2], \A m \in 1..(Depth - 1) : p[m + 2] = q[m + 2],
               NEW j \in 1..(Depth + 1)
        PROVE  p[j] = q[j]
    <3>1. CASE j = 1 \/ j = 2
      BY <2>3, <3>1
    <3>2. CASE j - 2 \in 1..(Depth - 1) /\ (j - 2) + 2 = j
      BY <2>3, <3>2
    <3> QED
      BY <2>2, <3>1, <3>2
  <2> QED
    BY <2>1, <2>3
<1>7. p = q <=> \A j \in 1..(Depth + 1) : p[j] = q[j]
  <2>1. ASSUME \A j \in 1..(Depth + 1) : p[j] = q[j] PROVE p = q
    <3>1. [j \in 1..(Depth + 1) |-> p[j]] = [j \in 1..(Depth + 1) |-> q[j]]
      BY <2>1
    <3> QED
      BY <3>1, <1>1, <1>3
  <2> QED
    BY <2>1
<1> QED
  BY <1>1, <1>5, <1>6, <1>7 DEF q

(* At the end of the verifier's loops the root is computed. *)
LEMMA RootReached ==
  ASSUME LoopsTyped, NextOnLevel, Walks, Shaped, ProofSoFar, Replays, Intact, pc = "conclude"
  PROVE  1 \in DOMAIN v /\ v[1] = nodes[1]
<1>0. Depth \in 0..Depth
  BY Widths
<1>1. Verifying /\ DepthKept /\ Batching /\ Valid(request) /\ received.depth = Depth
  BY IntactProof DEF Verifying, DepthKept
<1>2. next = RowList(request, Depth)
  BY <1>1 DEF Walks
<1>3. Enumerates(next, RowSet(request, Depth)) /\ RowSet(request, Depth) = {1}
  BY <1>0, <1>1, <1>2, RowLists, RowSets
<1>4. PICK a \in DOMAIN next : next[a] = 1
  BY <1>3 DEF Enumerates
<1>5. next[a] \in DOMAIN v
  BY <1>1 DEF NextOnLevel
<1>6. Agrees
  BY <1>1 DEF Replays
<1> QED
  BY <1>4, <1>5, <1>6 DEF Agrees

(* No step rejects a proof that arrived as it was made. *)
LEMMA IntactNext ==
  LoopsTyped /\ BuiltFromTheEnd /\ NextOnLevel /\ NodesAhead /\ Paths /\ Walks /\ Shaped
    /\ ProofSoFar /\ Replays /\ IntactProofsVerify /\ [Next]_vars => IntactProofsVerify'
<1> SUFFICES ASSUME LoopsTyped, BuiltFromTheEnd, NextOnLevel, NodesAhead, Paths, Walks, Shaped,
                    ProofSoFar, Replays, IntactProofsVerify, [Next]_vars,
                    pc' = "done", Answerable'
             PROVE  IF ByBatch' THEN received' = proof' => verdict' = "accept"
                    ELSE verdict' = "accept" <=> path' = PathTo(request[1])'
  BY DEF IntactProofsVerify
<1> USE DEF tree, locals, Return
<1>0. Depth \in Nat /\ Depth >= 1 /\ Width \in Nat
  BY Widths
<1>1. CASE UNCHANGED vars
  <2>1. PathTo(request[1])' = PathTo(request[1])
    BY <1>1 DEF vars, PathTo
  <2> QED
    BY <1>1, <2>1 DEF vars, IntactProofsVerify, Answerable, ByBatch
<1>2. CASE BuildParents \/ BuildNode \/ Built \/ ProveLevel \/ VerifyLevel \/ ProveNode \/ Deliver
  BY <1>2 DEF BuildParents, BuildNode, Built, ProveLevel, VerifyLevel, NextLevel, ProveNode, Deliver
<1>3. ASSUME NEW r \in Requests, Ask(r) PROVE FALSE
  <2>1. request' = r /\ MapFails(r, Width)
    BY <1>3 DEF Ask
  <2> QED
    BY <2>1, InputAssumption, FailuresHaveNoAnswer DEF Answerable
<1>4. ASSUME NEW index \in pending, ProveLeaf(index) PROVE FALSE
  <2>1. pc = "prove_leaves" /\ index >= Width /\ request' = request
    BY <1>4 DEF ProveLeaf
  <2>2. Valid(request) /\ pending \subseteq Normalized(request)
    BY <2>1, AnswerableIsValid DEF Walks, Batching, Verifying, LeafWalk, Answerable
  <2>3. index \in Nat /\ index + 1 < Width
    BY <2>2, NormalizedBounds
  <2> QED
    BY <2>1, <2>3, <1>0
<1>5. ASSUME NEW x \in 0..Width, ProvePath(x) PROVE FALSE
  <2>1. request' = <<x>> /\ x >= Width
    BY <1>5 DEF ProvePath
  <2>2. MapFails(<<x>>, Width - 1)
    BY <2>1, <1>0 DEF MapFails
  <2> QED
    BY <2>1, <2>2 DEF Answerable
<1>6. ASSUME pc = "verify" \/ Verifying,
             UNCHANGED <<path, request, received, proof>>,
             Intact => verdict' = "accept"
      PROVE  IF ByBatch' THEN received' = proof' => verdict' = "accept"
             ELSE verdict' = "accept" <=> path' = PathTo(request[1])'
  <2>1. path = <<>>
    BY <1>6 DEF Paths, Verifying
  <2> QED
    BY <1>6, <2>1 DEF Intact, Answerable, ByBatch
<1>7. CASE VerifyStart
  <2>1. pc = "verify" /\ UNCHANGED <<path, request, received, proof>>
    BY <1>7 DEF VerifyStart, Panic
  <2>2. ASSUME Intact PROVE FALSE
    <3>1. Power[received.depth] = Width /\ Finished(received.nodes, Depth - 1)
      BY <2>2, IntactProof
    <3>2. ~MapFails(request, Greatest) /\ Cardinality(Normalized(request)) = Len(received.nodes)
      BY <3>1, <2>2 DEF Intact, Answerable, Greatest, Finished
    <3> QED
      BY <3>2, <1>7 DEF VerifyStart
  <2> QED
    BY <1>6, <2>1, <2>2
<1>8. ASSUME NEW index \in pending, VerifyLeaf(index)
      PROVE  IF ByBatch' THEN received' = proof' => verdict' = "accept"
             ELSE verdict' = "accept" <=> path' = PathTo(request[1])'
  <2>1. pc = "verify_leaves" /\ UNCHANGED <<path, request, received, proof>>
    BY <1>8 DEF VerifyLeaf
  <2>2. ~Intact
    BY <1>8, <2>1, ReplayLeaf
  <2> QED
    BY <1>6, <2>1, <2>2 DEF Verifying
<1>9. CASE VerifyNode
  <2>1. pc = "verify_nodes" /\ UNCHANGED <<path, request, received, proof>>
    BY <1>9 DEF VerifyNode
  <2>2. ~Intact
    BY <1>9, <2>1, ReplayNode
  <2> QED
    BY <1>6, <2>1, <2>2 DEF Verifying
<1>10. CASE Conclude
  <2>1. pc = "conclude" /\ UNCHANGED <<path, request, received, proof>>
    BY <1>10 DEF Conclude, Panic
  <2>2. ASSUME Intact PROVE verdict' = "accept"
    <3>1. 1 \in DOMAIN v /\ v[1] = nodes[1]
      BY <2>1, <2>2, RootReached
    <3> QED
      BY <3>1, <1>10 DEF Conclude
  <2> QED
    BY <1>6, <2>1, <2>2 DEF Verifying
<1>11. CASE VerifyPath
  <2>1. /\ pc = "verify_path" /\ UNCHANGED <<path, request, leaves, nodes>>
        /\ verdict' = IF Climb(path, request[1]) = nodes[1] THEN "accept" ELSE "reject"
    BY <1>11 DEF VerifyPath
  <2>2. PICK x \in 0..(Width - 1) : request = <<x>> /\ path \in PathDeliveries(PathTo(x))
    BY <2>1 DEF Paths
  <2>3. path # <<>>
    <3>1. PathTo(x) = [j \in 1..(Depth + 1) |-> PathTo(x)[j]]
      BY PathsAre
    <3>2. DOMAIN path = DOMAIN PathTo(x)
      BY <2>2 DEF PathDeliveries
    <3>3. 1 \in DOMAIN path /\ DOMAIN <<>> = {}
      BY <3>1, <3>2, <1>0
    <3> QED
      BY <3>3
  <2>4. request[1] = x
    BY <2>2
  <2>5. Climb(path, x) = nodes[1] <=> path = PathTo(x)
    BY <2>1, <2>2, OnlyThePath DEF BuiltFromTheEnd
  <2>6. PathTo(request[1])' = PathTo(x)
    BY <2>1, <2>4 DEF PathTo
  <2> QED
    BY <2>1, <2>3, <2>4, <2>5, <2>6 DEF ByBatch
<1> QED
  BY <1>1, <1>2, <1>3, <1>4, <1>5, <1>7, <1>8, <1>9, <1>10, <1>11 DEF Next

-----------------------------------------------------------------------------
(* No node to spare. *)

(* Rows lie apart. *)
LEMMA PowersGrow ==
  \A a, b \in 0..Depth : a < b => 2 * Power[a] <= Power[b]
<1> DEFINE S == {n \in Nat : \A a \in 0..Depth : a + (n + 1) <= Depth => 2 * Power[a] <= Power[a + (n + 1)]}
<1>0. Depth \in Nat
  BY Widths
<1>1. \A a \in 0..Depth : a < Depth => a + 1 \in 0..Depth /\ Power[a + 1] = 2 * Power[a]
                                       /\ Power[a] \in Nat /\ Power[a] >= 1
  <2> TAKE a \in 0..Depth
  <2>1. a \in 0..(Depth + 1)
    BY <1>0
  <2> QED
    BY <2>1, <1>0, DepthAssumption
<1>2. 0 \in S
  BY <1>0, <1>1
<1>3. ASSUME NEW n \in Nat, n \in S PROVE n + 1 \in S
  <2> SUFFICES ASSUME NEW a \in 0..Depth, a + ((n + 1) + 1) <= Depth
               PROVE  2 * Power[a] <= Power[a + ((n + 1) + 1)]
    OBVIOUS
  <2> DEFINE b == a + (n + 1)
  <2>1. b \in 0..Depth /\ b < Depth /\ b + 1 = a + ((n + 1) + 1) /\ a < Depth
    BY <1>0
  <2>2. 2 * Power[a] <= Power[b]
    BY <1>3, <2>1
  <2>3. Power[b + 1] = 2 * Power[b] /\ Power[b] \in Nat /\ Power[a] \in Nat
    BY <2>1, <1>1
  <2> HIDE DEF b
  <2>4. 2 * Power[a] <= Power[b + 1]
    BY <2>2, <2>3
  <2> QED
    BY <2>1, <2>4
<1>4. \A n \in Nat : n \in S
  <2> HIDE DEF S
  <2> QED
    BY <1>2, <1>3, Induction
<1> SUFFICES ASSUME NEW a \in 0..Depth, NEW b \in 0..Depth, a < b
             PROVE  2 * Power[a] <= Power[b]
  OBVIOUS
<1>5. (b - a) - 1 \in Nat /\ a + (((b - a) - 1) + 1) = b /\ b <= Depth
  BY <1>0
<1>6. (b - a) - 1 \in S
  BY <1>4, <1>5
<1> QED
  BY <1>5, <1>6

(* What stands beside a row of a request is on no row of it. *)
LEMMA BesideNoRow ==
  ASSUME NEW r, Valid(r), NEW k, NEW q \in 0..(Depth - 1), Uses(r, q, k)
  PROVE  /\ Beside(r, q, k) \in 1..(2 * Width - 1)
         /\ \A m \in 0..Depth : Beside(r, q, k) \notin RowSet(r, m)
<1> DEFINE y == Beside(r, q, k)
<1> DEFINE z == Visited(r, q, k)
<1> DEFINE low == Power[Depth - q]
<1>0. Depth \in Nat /\ Depth >= 1 /\ Width \in Nat /\ q \in 0..Depth /\ q + 1 \in 0..Depth /\ 1 \in 0..Depth
  BY Widths
<1>1. z \in RowSet(r, q)
  <2>1. CASE q = 0
    <3> DEFINE p == RowList(r, 1)[k]
    <3>1. k \in DOMAIN RowList(r, 1) /\ p \in RowSet(r, 1)
      BY <2>1, <1>0, RowLists DEF Uses, Enumerates
    <3>2. PICK x \in Normalized(r) : p = (x + Width) \div 2
      BY <3>1, RowSets
    <3>3. x \in Nat /\ x % 2 = 0 /\ x + 1 < Width /\ 2 * p = x + Width
      BY <3>2, NormalizedBounds
    <3>4. AskedIn(r, x) \/ AskedIn(r, x + 1)
      BY <3>1, <3>3, LeafUses
    <3>5. PICK j \in DOMAIN r : r[j] = x \/ r[j] = x + 1
      BY <3>4 DEF AskedIn
    <3>6. Ancestor(r[j], 0) = r[j] + Width
      BY ValidIndexes, Ancestors
    <3>7. Ancestor(r[j], 0) = 2 * p \/ Ancestor(r[j], 0) = 2 * p + 1
      BY <3>3, <3>5, <3>6, <1>0
    <3>8. 2 * p \in RowSet(r, 0) \/ 2 * p + 1 \in RowSet(r, 0)
      BY <3>7 DEF RowSet
    <3> QED
      BY <2>1, <3>8 DEF Visited
  <2>2. CASE q # 0
    BY <2>2, <1>0, RowLists DEF Uses, Visited, Enumerates
  <2> QED
    BY <2>1, <2>2
<1>2. low \in Nat /\ low >= 1 /\ z \in low..(2 * low - 1)
  <2>1. Depth - q \in 0..(Depth + 1)
    BY <1>0
  <2>2. Power[Depth - q] \in Nat \ {0}
    BY <2>1, DepthAssumption
  <2>3. RowSet(r, q) \subseteq low..(2 * low - 1)
    BY <1>0, RowSets
  <2>4. low \in Nat /\ low >= 1
    BY <2>2
  <2> HIDE DEF low, z
  <2> QED
    BY <1>1, <2>3, <2>4
<1>3. \E h \in Nat : low = 2 * h
  <2>1. (Depth - q) - 1 \in 0..Depth /\ ((Depth - q) - 1) + 1 = Depth - q
        /\ (Depth - q) - 1 \in 0..(Depth + 1)
    BY <1>0
  <2> QED
    BY <2>1, DepthAssumption
<1>4. y \in low..(2 * low - 1)
  <2>1. y = Sibling(z)
    BY DEF Beside
  <2> HIDE DEF y, z, low
  <2>2. PICK h \in Nat : low = 2 * h
    BY <1>3
  <2> QED
    BY <2>1, <2>2, <1>2 DEF Sibling
<1>5. low <= Width
  <2>1. CASE q = 0
    BY <2>1, <1>0 DEF Width
  <2>2. CASE q # 0
    <3>1. Depth - q \in 0..Depth /\ Depth \in 0..Depth /\ Depth - q < Depth
      BY <2>2, <1>0
    <3>2. 2 * low <= Width
      BY <3>1, PowersGrow DEF Width
    <3> HIDE DEF low
    <3> QED
      BY <3>2, <1>0, <1>2
  <2> QED
    BY <2>1, <2>2
<1>6. y \notin RowSet(r, q)
  BY DEF Uses
<1>7. ASSUME NEW m \in 0..Depth, y \in RowSet(r, m) PROVE FALSE
  <2> DEFINE other == Power[Depth - m]
  <2>1. y \in other..(2 * other - 1) /\ other \in Nat
    <3>1. Depth - m \in 0..(Depth + 1)
      BY <1>0
    <3> QED
      BY <3>1, <1>7, RowSets, DepthAssumption
  <2>2. Depth - m \in 0..Depth /\ Depth - q \in 0..Depth
    BY <1>0
  <2>3. CASE m = q
    BY <2>3, <1>6, <1>7
  <2>4. CASE m < q
    <3>1. Depth - q < Depth - m
      BY <2>4, <1>0
    <3>2. 2 * low <= other
      BY <2>2, <3>1, PowersGrow
    <3> HIDE DEF other, low, y
    <3> QED
      BY <3>2, <2>1, <1>2, <1>4
  <2>5. CASE m > q
    <3>1. Depth - m < Depth - q
      BY <2>5, <1>0
    <3>2. 2 * other <= low
      BY <2>2, <3>1, PowersGrow
    <3> HIDE DEF other, low, y
    <3> QED
      BY <3>2, <2>1, <1>2, <1>4
  <2> QED
    BY <2>3, <2>4, <2>5, <1>0
<1>8. y \in 1..(2 * Width - 1)
  <2> HIDE DEF y, low
  <2> QED
    BY <1>0, <1>2, <1>4, <1>5
<1> QED
  BY <1>7, <1>8

(* What the verifier found before it started, and what it has not done for  *)
(* a request of nothing.                                                     *)
Checked ==
  /\ DepthKept => ~MapFails(request, Width - 1)
  /\ (Verifying /\ request = <<>>) =>
       /\ v = <<>> /\ next = <<>>
       /\ pc = "verify_leaves" => pending = {}
       /\ pc = "verify_nodes" => indexes = <<>>

(* Every step keeps what the verifier checked. *)
LEMMA CheckedNext ==
  LoopsTyped /\ Phases /\ Unread /\ Checked /\ [Next]_vars => Checked'
<1> SUFFICES ASSUME LoopsTyped, Phases, Unread, Checked, [Next]_vars PROVE Checked'
  OBVIOUS
<1> USE DEF DepthKept, Verifying, tree, locals
<1>1. CASE VerifyStart
  <2>1. CASE pc' = "done"
    BY <2>1 DEF Checked
  <2>2. CASE pc' # "done"
    <3>1. /\ pc = "verify" /\ ~MapFails(request, Greatest) /\ pending' = Normalized(request)
          /\ pc' = "verify_leaves" /\ UNCHANGED <<request, received, v, next>>
      BY <1>1, <2>2 DEF VerifyStart, Panic, Return
    <3>2. v = <<>> /\ next = <<>>
      BY <3>1 DEF Unread, Phases
    <3>3. request = <<>> => Normalized(request) = {}
      BY DEF Normalized
    <3>4. received.depth = Depth => Greatest = Width - 1
      BY DEF Greatest, Width
    <3>5. \A m : MapFails(request, m)' <=> MapFails(request, m)
      BY <3>1 DEF MapFails, Repeats
    <3> QED
      BY <3>1, <3>2, <3>3, <3>4, <3>5 DEF Checked
  <2> QED
    BY <2>1, <2>2
<1>2. ASSUME NEW index \in pending, VerifyLeaf(index) PROVE Checked'
  BY <1>2 DEF VerifyLeaf, Return, Checked, MapFails, Repeats
<1>3. CASE VerifyLevel
  BY <1>3 DEF VerifyLevel, NextLevel, Checked, MapFails, Repeats
<1>4. CASE VerifyNode
  <2>1. request # <<>>
    <3>1. pc = "verify_nodes" /\ i <= Len(indexes) /\ i \in Nat /\ i >= 1
      BY <1>4 DEF VerifyNode, LoopsTyped
    <3>2. Len(<<>>) = 0
      OBVIOUS
    <3>3. indexes # <<>>
      BY <3>1, <3>2
    <3> QED
      BY <3>1, <3>3 DEF Checked
  <2>2. pc = "verify_nodes" /\ request' = request /\ received' = received
    BY <1>4 DEF VerifyNode, Return
  <2> QED
    BY <2>1, <2>2 DEF Checked, MapFails, Repeats
<1>5. CASE ~Verifying'
  BY <1>5 DEF Checked
<1>6. CASE UNCHANGED vars
  BY <1>6 DEF vars, Checked, MapFails, Repeats
<1> QED
  BY <1>1, <1>2, <1>3, <1>4, <1>5, <1>6, OnlyTheVerifier

(* A proof that is accepted has been read to the end of its lists. *)
LEMMA SpareNext ==
  LoopsTyped /\ Phases /\ NextOnLevel /\ Paths /\ Walks /\ Shaped /\ ProofSoFar /\ Replays /\ Checked
    /\ NoSpareNodes /\ [Next]_vars => NoSpareNodes'
<1> SUFFICES ASSUME LoopsTyped, Phases, NextOnLevel, Paths, Walks, Shaped, ProofSoFar, Replays,
                    Checked, NoSpareNodes, [Next]_vars,
                    verdict' = "accept", ByBatch', received' = proof',
                    NEW k \in DOMAIN proof'.nodes
             PROVE  /\ pointers'[k] = Len(proof'.nodes[k])
                    /\ \A m \in DOMAIN proof'.nodes[k] :
                          \A x \in DOMAIN v' : v'[x] = proof'.nodes[k][m] =>
                            \E y \in 1..(2 * Width - 1) : y \notin DOMAIN v' /\ Child(y)' = v'[x]
  BY DEF NoSpareNodes
<1> USE DEF tree, Panic, Return
<1>1. CASE Conclude
  <2>1. /\ pc = "conclude" /\ 1 \in DOMAIN v
        /\ UNCHANGED <<leaves, nodes, request, received, proof, v, pointers>>
    BY <1>1 DEF Conclude
  <2>2. received.depth = Depth /\ DepthKept /\ Verifying
    BY <2>1 DEF Shaped, DepthKept, Verifying
  <2>3. Answerable
    <3>1. request # <<>>
      BY <2>1, <2>2 DEF Checked
    <3> QED
      BY <2>2, <3>1 DEF Checked, Answerable
  <2>4. Intact
    BY <2>1, <2>2, <2>3 DEF Intact
  <2>5. Valid(request) /\ Finished(proof.nodes, Depth - 1)
    BY <2>1, <2>4, IntactProof
  <2>6. /\ Len(pointers) = Len(RowList(request, 1)) /\ pointers \in Seq(Nat) /\ Agrees
        /\ \A n \in DOMAIN pointers : pointers[n] = Count(request, n, Depth - 1)
    BY <2>1, <2>2, <2>4 DEF Replays
  <2> DEFINE list == proof.nodes[k]
  <2>7. k \in DOMAIN proof.nodes /\ Filled(Contents, list, request, k, Depth - 1)
    BY <2>1, <2>5 DEF Finished
  <2>8. pointers[k] = Len(list)
    <3>1. k \in DOMAIN pointers
      BY <2>5, <2>6, <2>7 DEF Finished
    <3> QED
      BY <3>1, <2>6, <2>7 DEF Filled
  <2>9. ASSUME NEW m \in DOMAIN list
        PROVE  \E y \in 1..(2 * Width - 1) : y \notin DOMAIN v /\ Child(y) = list[m]
    <3>1. PICK q \in 0..(Depth - 1) : Uses(request, q, k) /\ m = Count(request, k, q)
      BY <2>7 DEF Filled
    <3> DEFINE y == Beside(request, q, k)
    <3>2. list[m] = Contents[y]
      BY <2>7, <3>1 DEF Filled
    <3>3. y \in 1..(2 * Width - 1) /\ \A n \in 0..Depth : y \notin RowSet(request, n)
      BY <2>5, <3>1, BesideNoRow
    <3>4. Contents[y] = Child(y)
      <4> HIDE DEF y
      <4> QED
        BY <3>3 DEF Contents
    <3>5. y \notin DOMAIN v
      <4>1. ASSUME y \in DOMAIN v PROVE FALSE
        <5>1. PICK n \in 1..level : y \in RowSet(request, n)
          BY <4>1, <2>6 DEF Agrees
        <5>2. n \in 0..Depth
          <6>1. Depth \in Nat /\ level \in 1..Depth
            BY <2>2, Widths DEF NextOnLevel
          <6> QED
            BY <6>1
        <5> QED
          BY <5>1, <5>2, <3>3
      <4> QED
        BY <4>1
    <3> QED
      BY <3>2, <3>3, <3>4, <3>5
  <2>10. \A y : Child(y)' = Child(y)
    BY <2>1 DEF Child
  <2> QED
    BY <2>1, <2>7, <2>8, <2>9, <2>10
<1>2. CASE VerifyPath
  <2>1. path # <<>> /\ path' = path
    BY <1>2 DEF VerifyPath, Phases
  <2> QED
    BY <2>1 DEF ByBatch
<1>3. CASE UNCHANGED vars
  <2>1. \A y : Child(y)' = Child(y)
    BY <1>3 DEF vars, Child
  <2>2. UNCHANGED <<verdict, received, proof, v, pointers, path>>
    BY <1>3 DEF vars
  <2> QED
    BY <2>1, <2>2 DEF NoSpareNodes, ByBatch
<1> QED
  BY <1>1, <1>2, <1>3, OnlyTheEndAccepts

-----------------------------------------------------------------------------
(* What both loops keep, together with the invariant above. *)
Journey ==
  /\ Invariant
  /\ Fresh /\ Unread /\ Paths /\ Walks /\ Shaped /\ ProofSoFar /\ Replays /\ Checked
  /\ PanicOnlyOnBadRequest /\ IntactProofsVerify /\ NoSpareNodes

(* The journey starts. *)
LEMMA JourneyInit == Init => Journey
<1> SUFFICES ASSUME Init PROVE Journey
  OBVIOUS
<1>1. /\ pc = "new" /\ verdict = "none" /\ request = <<>> /\ path = <<>>
      /\ next = <<>> /\ proof = NoProof /\ received = NoProof /\ v = <<>> /\ pointers = <<>>
  BY DEF Init
<1>2. ~Answerable /\ ~Verifying
  BY <1>1 DEF Answerable, Verifying
<1>3. Invariant
  BY InvariantInit
<1>4. Fresh /\ Unread /\ Paths /\ Checked
  BY <1>1, <1>2 DEF Fresh, Unread, Paths, Checked, DepthKept
<1>5. Walks /\ Shaped /\ ProofSoFar /\ Replays
  BY <1>1, <1>2 DEF Walks, Batching, Shaped, ProofSoFar, Replays, Intact
<1>6. PanicOnlyOnBadRequest /\ IntactProofsVerify /\ NoSpareNodes
  BY <1>1 DEF PanicOnlyOnBadRequest, IntactProofsVerify, NoSpareNodes
<1> QED
  BY <1>3, <1>4, <1>5, <1>6 DEF Journey

(* Every step keeps it. *)
LEMMA JourneyNext == Journey /\ [Next]_vars => Journey'
<1> SUFFICES ASSUME Journey, [Next]_vars PROVE Journey'
  OBVIOUS
<1>1. Invariant /\ Invariant'
  BY InvariantNext DEF Journey
<1>2. LoopsTyped /\ BuiltFromTheEnd /\ Phases /\ NextOnLevel /\ NodesAhead /\ OnTheWay
  BY <1>1 DEF Invariant, OnTheWay
<1>3. /\ Fresh /\ Unread /\ Paths /\ Walks /\ Shaped /\ ProofSoFar /\ Replays /\ Checked
      /\ PanicOnlyOnBadRequest /\ IntactProofsVerify /\ NoSpareNodes
  BY DEF Journey
<1>4. Fresh' /\ Unread' /\ Paths' /\ Checked'
  BY <1>2, <1>3, FreshNext, UnreadNext, PathsNext, CheckedNext
<1>5. Walks' /\ Shaped'
  BY <1>2, <1>3, WalksNext, ShapedNext
<1>6. ProofSoFar' /\ Replays'
  BY <1>2, <1>3, ProofNext, ReplaysNext
<1>7. PanicOnlyOnBadRequest'
  BY <1>2, <1>3, PanicNext
<1>8. IntactProofsVerify'
  BY <1>2, <1>3, IntactNext
<1>9. NoSpareNodes'
  BY <1>2, <1>3, SpareNext
<1> QED
  BY <1>1, <1>4, <1>5, <1>6, <1>7, <1>8, <1>9 DEF Journey

(* It holds throughout. *)
LEMMA JourneyHolds == Spec => []Journey
BY JourneyInit, JourneyNext, PTL DEF Spec

(* prove_batch and verify_batch do not panic on the indexes of leaves,      *)
(* unless the proof that was delivered names another depth.                 *)
THEOREM PanicsAreDeserved == Spec => []PanicOnlyOnBadRequest
<1>1. Journey => PanicOnlyOnBadRequest
  BY DEF Journey
<1> QED
  BY <1>1, JourneyHolds, PTL

(* verify_batch accepts every proof of prove_batch that arrives as it was   *)
(* made, and verify one path only, for trees of any depth and all requests. *)
THEOREM IntactProofsAreAccepted == Spec => []IntactProofsVerify
<1>1. Journey => IntactProofsVerify
  BY DEF Journey
<1> QED
  BY <1>1, JourneyHolds, PTL

(* A batch proof lists no node that verify_batch does not read, and none    *)
(* that it computes itself.                                                 *)
THEOREM NoNodeIsSpare == Spec => []NoSpareNodes
<1>1. Journey => NoSpareNodes
  BY DEF Journey
<1> QED
  BY <1>1, JourneyHolds, PTL
=============================================================================
