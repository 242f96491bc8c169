---------------------------- MODULE Stack_proofs ----------------------------
(***************************************************************************)
(* Every operation of the stack keeps its registers: the values are field  *)
(* elements, the registers above the top hold 0, and no value lies beyond  *)
(* the registers allocated.                                                *)
(***************************************************************************)
EXTENDS Stack, StackConstraints, SequenceTheorems, TLAPS

(* the row of registers and its bounds, without the tapes and the steps *)
RowOK ==
  /\ regs \in [Slots -> Elements]
  /\ depth \in 0..MaxStackDepth
  /\ width \in Nat /\ maxDepth \in Nat
  /\ FreeRegistersAreZero
  /\ RegistersSuffice

TapesOK == tapeA \in Seq(Elements) /\ tapeB \in Seq(Elements)
-----------------------------------------------------------------------------
(* Remainders. *)
LEMMA ModUnique ==
  ASSUME NEW m \in Nat \ {0}, NEW q \in Int, NEW r \in 0..(m - 1)
  PROVE  (q * m + r) % m = r
  OBVIOUS

LEMMA DivMod ==
  ASSUME NEW m \in Nat \ {0}, NEW x \in Nat
  PROVE  \E q \in Nat : x = q * m + (x % m) /\ x % m \in 0..(m - 1)
  <1>1. x = (x \div m) * m + (x % m)
    OBVIOUS
  <1>2. x \div m \in Nat /\ x % m \in 0..(m - 1)
    OBVIOUS
  <1> QED BY <1>1, <1>2

(* Arithmetic stays in the field. *)
LEMMA ModRange ==
  ASSUME NEW m \in Nat \ {0}, NEW x \in Int
  PROVE  x % m \in 0..(m - 1)
  OBVIOUS

LEMMA FieldClosed ==
  ASSUME NEW x \in Elements, NEW y \in Elements
  PROVE  /\ {0, 1} \subseteq Elements /\ 2 \in Elements
         /\ Add(x, y) \in Elements /\ Sub(x, y) \in Elements
         /\ Mul(x, y) \in Elements /\ Neg(x) \in Elements
         /\ Inv(x) \in Elements /\ x \div 2 \in Elements
  <1>1. Modulus \in Nat \ {0} /\ Modulus > 2
    BY FieldAssumption
  <1>2. {0, 1} \subseteq Elements /\ 2 \in Elements
    BY <1>1 DEF Elements
  <1>3. \A z \in Int : z % Modulus \in Elements
    BY <1>1, ModRange DEF Elements
  <1>4. x \in Int /\ y \in Int /\ x + y \in Int /\ x + Modulus - y \in Int
    BY <1>1 DEF Elements
  <1>5. x * y \in Int
    BY <1>4
  <1>6. 0 + Modulus - x \in Int
    BY <1>1, <1>4
  <1>7. Inv(x) \in Elements
    BY <1>2, FieldAssumption DEF Inv, Mul
  <1>8. x \div 2 \in Elements
    BY <1>1 DEF Elements
  <1> QED BY <1>2, <1>3, <1>4, <1>5, <1>6, <1>7, <1>8 DEF Add, Sub, Mul, Neg
-----------------------------------------------------------------------------
(* The three ways a row is built from the previous one. *)
LEMMA CopyStateRow ==
  ASSUME RowOK, NEW top \in Seq(Elements), Len(top) <= depth, CopyState(top)
  PROVE  RowOK'
  <1>1. Len(top) \in Nat /\ \A i \in 1..Len(top) : top[i] \in Elements
    BY LenProperties, ElementOfSeq
  <1>2. 0 \in Elements /\ MaxStackDepth \in Nat
    BY FieldAssumption, StackAssumption DEF Elements
  <1>3. regs' \in [Slots -> Elements]
    BY <1>1, <1>2 DEF CopyState, RowOK, Slots
  <1>4. FreeRegistersAreZero'
    BY <1>1, <1>2 DEF CopyState, RowOK, FreeRegistersAreZero, Slots
  <1>5. UNCHANGED <<depth, maxDepth, width>>
    BY DEF CopyState
  <1> QED BY <1>3, <1>4, <1>5 DEF RowOK, RegistersSuffice

LEMMA ShiftLeftRow ==
  ASSUME RowOK, NEW top \in Seq(Elements), NEW start \in Nat, NEW n \in Nat,
         Len(top) + n <= depth, ShiftLeft(top, start, n)
  PROVE  RowOK'
  <1>1. Len(top) \in Nat /\ \A i \in 1..Len(top) : top[i] \in Elements
    BY LenProperties, ElementOfSeq
  <1>2. 0 \in Elements /\ MaxStackDepth \in Nat
    BY FieldAssumption, StackAssumption DEF Elements
  <1>3. regs' \in [Slots -> Elements]
    BY <1>1, <1>2 DEF ShiftLeft, RowOK, Slots
  <1>4. FreeRegistersAreZero'
    BY <1>1, <1>2 DEF ShiftLeft, RowOK, FreeRegistersAreZero, Slots
  <1>5. depth' = depth - n /\ UNCHANGED <<maxDepth, width>>
    BY DEF ShiftLeft
  <1> QED BY <1>1, <1>2, <1>3, <1>4, <1>5 DEF RowOK, RegistersSuffice

LEMMA ShiftRightRow ==
  ASSUME RowOK, NEW top \in Seq(Elements), depth + Len(top) <= MaxStackDepth,
         ShiftRight(top)
  PROVE  RowOK'
  <1>1. Len(top) \in Nat /\ \A i \in 1..Len(top) : top[i] \in Elements
    BY LenProperties, ElementOfSeq
  <1>2. 0 \in Elements /\ MaxStackDepth \in Nat
    BY FieldAssumption, StackAssumption DEF Elements
  <1>3. regs' \in [Slots -> Elements]
    BY <1>1, <1>2 DEF ShiftRight, RowOK, Slots
  <1>4. FreeRegistersAreZero'
    BY <1>1, <1>2 DEF ShiftRight, RowOK, FreeRegistersAreZero, Slots
  <1>5. /\ depth' = depth + Len(top)
        /\ maxDepth' = IF depth' > maxDepth THEN maxDepth + Len(top) ELSE maxDepth
        /\ width' = IF maxDepth' > width THEN maxDepth' ELSE width
    BY DEF ShiftRight
  <1> QED BY <1>1, <1>2, <1>3, <1>4, <1>5 DEF RowOK, RegistersSuffice
-----------------------------------------------------------------------------
(* What a hint puts on the tapes are field elements, and so is a value an  *)
(* operation reads from them.                                              *)
LEMMA BitsAreElements ==
  ASSUME NEW x, NEW n \in Nat
  PROVE  /\ LowBitsFirst(x, n) \in Seq(Elements)
         /\ HighBitsFirst(x, n) \in Seq(Elements)
  <1>1. \A i : Bit(x, i) \in Elements
    BY FieldAssumption DEF Bit, Elements
  <1>2. [i \in 1..n |-> Bit(x, i - 1)] \in [1..n -> Elements]
    BY <1>1
  <1>3. [i \in 1..n |-> Bit(x, n - i)] \in [1..n -> Elements]
    BY <1>1
  <1> QED BY <1>2, <1>3, SeqDef DEF LowBitsFirst, HighBitsFirst

LEMMA InterlacedIsElements ==
  ASSUME NEW nodes \in Seq(Elements), NEW idx, NEW n \in Nat \ {0}, Len(nodes) >= n - 1
  PROVE  Interlaced(nodes, idx, n) \in Seq(Elements)
  <1>1. \A i : Bit(idx, i) \in Elements
    BY FieldAssumption DEF Bit, Elements
  <1>2. \A i \in 1..(2 * (n - 1)) : i % 2 = 1 => (i + 1) \div 2 \in 1..(n - 1)
    OBVIOUS
  <1>3. \A i \in 1..(n - 1) : nodes[i] \in Elements
    BY LenProperties, ElementOfSeq
  <1>4. Interlaced(nodes, idx, n) \in [1..(2 * (n - 1)) -> Elements]
    BY <1>1, <1>2, <1>3 DEF Interlaced
  <1>5. 2 * (n - 1) \in Nat
    OBVIOUS
  <1> QED BY <1>4, <1>5, SeqDef

LEMMA HintedTapes ==
  ASSUME RowOK, TapesOK, NEW op, NEW hint, WellFormed(hint), depth >= Needed(op, hint),
         op = "read2" /\ hint.kind = "pmpath" => ~ (Len(tapeA) < hint.arg - 1)
  PROVE  /\ HintedTapeA(op, hint) \in Seq(Elements)
         /\ HintedTapeB(op, hint) \in Seq(Elements)
  <1>1. HintedTapeA(op, hint) \in Seq(Elements)
    <2>1. CASE op = "read" /\ hint.kind = "eq"
      <3>1. 0 \in Slots /\ 1 \in Slots
        <4>1. Needed(op, hint) = 2
          BY <2>1 DEF Needed
        <4> QED BY <4>1, StackAssumption DEF RowOK, Slots
      <3>2. regs[0] \in Elements /\ regs[1] \in Elements
        BY <3>1 DEF RowOK
      <3>3. EqWitness(regs[0], regs[1]) \in Elements
        <4>1. Sub(regs[0], regs[1]) \in Elements
          BY <3>2, FieldClosed
        <4>2. Inv(Sub(regs[0], regs[1])) \in Elements /\ 1 \in Elements
          BY <4>1, FieldClosed
        <4> QED BY <4>2 DEF EqWitness
      <3>4. <<EqWitness(regs[0], regs[1])>> \in Seq(Elements)
        BY <3>3
      <3>5. <<EqWitness(regs[0], regs[1])>> \o tapeA \in Seq(Elements)
        BY <3>4, ConcatProperties DEF TapesOK
      <3> QED BY <2>1, <3>5 DEF HintedTapeA
    <2>2. CASE op = "read2" /\ hint.kind = "pmpath"
      <3>1. hint.arg \in Nat \ {0} /\ Len(tapeA) \in Nat
        BY <2>2, LenProperties DEF WellFormed, TapesOK
      <3>2. Len(tapeA) >= hint.arg - 1
        BY <2>2, <3>1
      <3>3. Interlaced(tapeA, regs[2], hint.arg) \in Seq(Elements)
        BY <3>1, <3>2, InterlacedIsElements DEF TapesOK
      <3>4. \A i \in hint.arg..Len(tapeA) : tapeA[i] \in Elements
        BY <3>1, ElementOfSeq DEF TapesOK
      <3>5. SubSeq(tapeA, hint.arg, Len(tapeA)) \in Seq(Elements)
        BY <3>1, <3>4, SubSeqProperties
      <3>6. Interlaced(tapeA, regs[2], hint.arg) \o SubSeq(tapeA, hint.arg, Len(tapeA))
              \in Seq(Elements)
        BY <3>3, <3>5, ConcatProperties
      <3> QED BY <2>2, <3>6 DEF HintedTapeA
    <2>3. CASE op = "cmp" /\ hint.kind = "cmp"
      <3>1. HighBitsFirst(regs[8], hint.arg) \in Seq(Elements)
        BY <2>3, BitsAreElements DEF WellFormed
      <3>2. HighBitsFirst(regs[8], hint.arg) \o tapeA \in Seq(Elements)
        BY <3>1, ConcatProperties DEF TapesOK
      <3> QED BY <2>3, <3>2 DEF HintedTapeA
    <2>4. CASE op = "binacc" /\ hint.kind = "rc"
      <3>1. LowBitsFirst(regs[4], hint.arg) \in Seq(Elements)
        BY <2>4, BitsAreElements DEF WellFormed
      <3>2. LowBitsFirst(regs[4], hint.arg) \o tapeA \in Seq(Elements)
        BY <3>1, ConcatProperties DEF TapesOK
      <3> QED BY <2>4, <3>2 DEF HintedTapeA
    <2> QED BY <2>1, <2>2, <2>3, <2>4 DEF HintedTapeA, TapesOK
  <1>2. HintedTapeB(op, hint) \in Seq(Elements)
    <2>1. CASE op = "cmp" /\ hint.kind = "cmp"
      <3>1. HighBitsFirst(regs[9], hint.arg) \in Seq(Elements)
        BY <2>1, BitsAreElements DEF WellFormed
      <3>2. HighBitsFirst(regs[9], hint.arg) \o tapeB \in Seq(Elements)
        BY <3>1, ConcatProperties DEF TapesOK
      <3> QED BY <2>1, <3>2 DEF HintedTapeB
    <2> QED BY <2>1 DEF HintedTapeB, TapesOK
  <1> QED BY <1>1, <1>2

(* What an operation reads is there, and an element. *)
LEMMA ReadTapes ==
  ASSUME RowOK, TapesOK, NEW op, NEW hint, WellFormed(hint),
         depth >= Needed(op, hint), ~ TapeFault(op, hint)
  PROVE  /\ HintedTapeA(op, hint) \in Seq(Elements)
         /\ HintedTapeB(op, hint) \in Seq(Elements)
         /\ ReadsA(op) => /\ HintedTapeA(op, hint)[1] \in Elements
                          /\ Tail(HintedTapeA(op, hint)) \in Seq(Elements)
         /\ ReadsB(op) => /\ HintedTapeB(op, hint)[1] \in Elements
                          /\ Tail(HintedTapeB(op, hint)) \in Seq(Elements)
  <1>1. HintedTapeA(op, hint) \in Seq(Elements) /\ HintedTapeB(op, hint) \in Seq(Elements)
    <2>1. op = "read2" /\ hint.kind = "pmpath" => ~ (Len(tapeA) < hint.arg - 1)
      BY DEF TapeFault
    <2> QED BY <2>1, HintedTapes
  <1>2. \A s \in Seq(Elements) : Len(s) # 0 => s[1] \in Elements /\ Tail(s) \in Seq(Elements)
    BY LenProperties, ElementOfSeq, EmptySeq, HeadTailProperties
  <1> QED BY <1>1, <1>2 DEF TapeFault
-----------------------------------------------------------------------------
LEMMA NoFault ==
  ASSUME NEW op, NEW hint, StackFault(op, hint) = "none"
  PROVE  /\ ~ (depth < Needed(op, hint)) /\ ValidHint(op, hint)
         /\ ~ TapeFault(op, hint) /\ ~ (depth + Added(op) > MaxStackDepth)
  BY DEF StackFault

LEMMA TupleIsSeq ==
  ASSUME NEW S, NEW n \in Nat, NEW f \in [1..n -> S]
  PROVE  f \in Seq(S) /\ Len(f) = n
  <1>1. f \in Seq(S)
    BY SeqDef
  <1> QED BY <1>1, LenProperties

(* the registers that hold the items of the stack *)
LEMMA ItemsAreElements ==
  ASSUME RowOK
  PROVE  \A i \in 0..31 : i < depth => regs[i] \in Elements
  BY StackAssumption DEF RowOK, Slots

(* operations that permute the top of the stack *)
LEMMA PermutingOps ==
  ASSUME RowOK, TapesOK, NEW op, NEW hint, WellFormed(hint),
         StackFault(op, hint) = "none", Perform(op, hint),
         op \in {"swap", "swap2", "swap4", "roll4", "roll8"}
  PROVE  RowOK'
  <1>1. /\ depth \in Nat /\ depth >= Needed(op, hint)
        /\ \A i \in 0..31 : i < depth => regs[i] \in Elements
    BY NoFault, ItemsAreElements, StackAssumption DEF RowOK, Needed
  <1>2. CASE op = "swap"
    <2>1. depth >= 2
      BY <1>1, <1>2 DEF Needed
    <2>2. <<regs[1], regs[0]>> \in Seq(Elements)
      BY <1>1, <2>1
    <2>3. CopyState(<<regs[1], regs[0]>>)
      BY <1>2 DEF Perform, OpSwap
    <2> QED BY <1>1, <2>1, <2>2, <2>3, CopyStateRow
  <1>3. CASE op = "swap2"
    <2>1. depth >= 4
      BY <1>1, <1>3 DEF Needed
    <2>2. <<regs[2], regs[3], regs[0], regs[1]>> \in Seq(Elements)
      BY <1>1, <2>1
    <2>3. CopyState(<<regs[2], regs[3], regs[0], regs[1]>>)
      BY <1>3 DEF Perform, OpSwap2
    <2> QED BY <1>1, <2>1, <2>2, <2>3, CopyStateRow
  <1>4. CASE op = "swap4"
    <2>1. depth >= 8
      BY <1>1, <1>4 DEF Needed
    <2>2. <<regs[4], regs[5], regs[6], regs[7], regs[0], regs[1], regs[2], regs[3]>> \in Seq(Elements)
      BY <1>1, <2>1
    <2>3. CopyState(<<regs[4], regs[5], regs[6], regs[7], regs[0], regs[1], regs[2], regs[3]>>)
      BY <1>4 DEF Perform, OpSwap4
    <2> QED BY <1>1, <2>1, <2>2, <2>3, CopyStateRow
  <1>5. CASE op = "roll4"
    <2>1. depth >= 4
      BY <1>1, <1>5 DEF Needed
    <2>2. <<regs[3], regs[0], regs[1], regs[2]>> \in Seq(Elements)
      BY <1>1, <2>1
    <2>3. CopyState(<<regs[3], regs[0], regs[1], regs[2]>>)
      BY <1>5 DEF Perform, OpRoll4
    <2> QED BY <1>1, <2>1, <2>2, <2>3, CopyStateRow
  <1>6. CASE op = "roll8"
    <2>1. depth >= 8
      BY <1>1, <1>6 DEF Needed
    <2>2. <<regs[7], regs[0], regs[1], regs[2], regs[3], regs[4], regs[5], regs[6]>> \in Seq(Elements)
      BY <1>1, <2>1
    <2>3. CopyState(<<regs[7], regs[0], regs[1], regs[2], regs[3], regs[4], regs[5], regs[6]>>)
      BY <1>6 DEF Perform, OpRoll8
    <2> QED BY <1>1, <2>1, <2>2, <2>3, CopyStateRow
  <1> QED BY <1>2, <1>3, <1>4, <1>5, <1>6

(* operations that only drop items *)
LEMMA DroppingOps ==
  ASSUME RowOK, TapesOK, NEW op, NEW hint, WellFormed(hint),
         StackFault(op, hint) = "none", Perform(op, hint),
         op \in {"assert", "asserteq", "drop", "drop4"}
  PROVE  RowOK'
  <1>1. /\ depth \in Nat /\ depth >= Needed(op, hint)
        /\ \A i \in 0..31 : i < depth => regs[i] \in Elements
    BY NoFault, ItemsAreElements, StackAssumption DEF RowOK, Needed
  <1>2. CASE op = "assert"
    <2>1. depth >= 1
      BY <1>1, <1>2 DEF Needed
    <2>2. << >> \in Seq(Elements) /\ Len(<< >>) = 0
      BY EmptySeq
    <2>3. ShiftLeft(<< >>, 1, 1)
      BY <1>2 DEF Perform, OpAssert
    <2>4. 1 \in Nat /\ 1 \in Nat /\ Len(<< >>) + 1 <= depth
      BY <1>1, <2>1, <2>2
    <2> QED BY <2>2, <2>3, <2>4, ShiftLeftRow
  <1>3. CASE op = "asserteq"
    <2>1. depth >= 2
      BY <1>1, <1>3 DEF Needed
    <2>2. << >> \in Seq(Elements) /\ Len(<< >>) = 0
      BY EmptySeq
    <2>3. ShiftLeft(<< >>, 2, 2)
      BY <1>3 DEF Perform, OpAssertEq
    <2>4. 2 \in Nat /\ 2 \in Nat /\ Len(<< >>) + 2 <= depth
      BY <1>1, <2>1, <2>2
    <2> QED BY <2>2, <2>3, <2>4, ShiftLeftRow
  <1>4. CASE op = "drop"
    <2>1. depth >= 1
      BY <1>1, <1>4 DEF Needed
    <2>2. << >> \in Seq(Elements) /\ Len(<< >>) = 0
      BY EmptySeq
    <2>3. ShiftLeft(<< >>, 1, 1)
      BY <1>4 DEF Perform, OpDrop
    <2>4. 1 \in Nat /\ 1 \in Nat /\ Len(<< >>) + 1 <= depth
      BY <1>1, <2>1, <2>2
    <2> QED BY <2>2, <2>3, <2>4, ShiftLeftRow
  <1>5. CASE op = "drop4"
    <2>1. depth >= 4
      BY <1>1, <1>5 DEF Needed
    <2>2. << >> \in Seq(Elements) /\ Len(<< >>) = 0
      BY EmptySeq
    <2>3. ShiftLeft(<< >>, 4, 4)
      BY <1>5 DEF Perform, OpDrop4
    <2>4. 4 \in Nat /\ 4 \in Nat /\ Len(<< >>) + 4 <= depth
      BY <1>1, <2>1, <2>2
    <2> QED BY <2>2, <2>3, <2>4, ShiftLeftRow
  <1> QED BY <1>2, <1>3, <1>4, <1>5

(* operations on the top item *)
LEMMA UnaryOps ==
  ASSUME RowOK, TapesOK, NEW op, NEW hint, WellFormed(hint),
         StackFault(op, hint) = "none", Perform(op, hint),
         op \in {"inv", "neg", "not"}
  PROVE  RowOK'
  <1>1. /\ depth \in Nat /\ depth >= Needed(op, hint)
        /\ \A i \in 0..31 : i < depth => regs[i] \in Elements
    BY NoFault, ItemsAreElements, StackAssumption DEF RowOK, Needed
  <1>2. CASE op = "inv"
    <2>1. depth >= 1
      BY <1>1, <1>2 DEF Needed
    <2>2. <<Inv(regs[0])>> \in Seq(Elements)
      <3>1. regs[0] \in Elements /\ 1 \in Elements
        BY <1>1, <2>1, FieldClosed
      <3> QED BY <3>1, FieldClosed
    <2>3. CopyState(<<Inv(regs[0])>>)
      BY <1>2 DEF Perform, OpInv
    <2> QED BY <1>1, <2>1, <2>2, <2>3, CopyStateRow
  <1>3. CASE op = "neg"
    <2>1. depth >= 1
      BY <1>1, <1>3 DEF Needed
    <2>2. <<Neg(regs[0])>> \in Seq(Elements)
      <3>1. regs[0] \in Elements /\ 1 \in Elements
        BY <1>1, <2>1, FieldClosed
      <3> QED BY <3>1, FieldClosed
    <2>3. CopyState(<<Neg(regs[0])>>)
      BY <1>3 DEF Perform, OpNeg
    <2> QED BY <1>1, <2>1, <2>2, <2>3, CopyStateRow
  <1>4. CASE op = "not"
    <2>1. depth >= 1
      BY <1>1, <1>4 DEF Needed
    <2>2. <<Sub(1, regs[0])>> \in Seq(Elements)
      <3>1. regs[0] \in Elements /\ 1 \in Elements
        BY <1>1, <2>1, FieldClosed
      <3> QED BY <3>1, FieldClosed
    <2>3. CopyState(<<Sub(1, regs[0])>>)
      BY <1>4 DEF Perform, OpNot
    <2> QED BY <1>1, <2>1, <2>2, <2>3, CopyStateRow
  <1> QED BY <1>2, <1>3, <1>4

(* operations that put one item in the place of two or three *)
LEMMA BinaryOps ==
  ASSUME RowOK, TapesOK, NEW op, NEW hint, WellFormed(hint),
         StackFault(op, hint) = "none", Perform(op, hint),
         op \in {"add", "mul", "and", "or", "eq"}
  PROVE  RowOK'
  <1>1. /\ depth \in Nat /\ depth >= Needed(op, hint)
        /\ \A i \in 0..31 : i < depth => regs[i] \in Elements
    BY NoFault, ItemsAreElements, StackAssumption DEF RowOK, Needed
  <1>2. CASE op = "add"
    <2>1. depth >= 2
      BY <1>1, <1>2 DEF Needed
    <2>2. <<Add(regs[0], regs[1])>> \in Seq(Elements)
      <3>1. regs[0] \in Elements /\ regs[1] \in Elements
        BY <1>1, <2>1
      <3>2. Add(regs[0], regs[1]) \in Elements
        BY <3>1, FieldClosed
      <3> QED BY <3>2
    <2>3. ShiftLeft(<<Add(regs[0], regs[1])>>, 2, 1)
      BY <1>2 DEF Perform, OpAdd
    <2>4. 2 \in Nat /\ 1 \in Nat /\ Len(<<Add(regs[0], regs[1])>>) + 1 <= depth
      BY <1>1, <2>1, <2>2
    <2> QED BY <2>2, <2>3, <2>4, ShiftLeftRow
  <1>3. CASE op = "mul"
    <2>1. depth >= 2
      BY <1>1, <1>3 DEF Needed
    <2>2. <<Mul(regs[0], regs[1])>> \in Seq(Elements)
      <3>1. regs[0] \in Elements /\ regs[1] \in Elements
        BY <1>1, <2>1
      <3>2. Mul(regs[0], regs[1]) \in Elements
        BY <3>1, FieldClosed
      <3> QED BY <3>2
    <2>3. ShiftLeft(<<Mul(regs[0], regs[1])>>, 2, 1)
      BY <1>3 DEF Perform, OpMul
    <2>4. 2 \in Nat /\ 1 \in Nat /\ Len(<<Mul(regs[0], regs[1])>>) + 1 <= depth
      BY <1>1, <2>1, <2>2
    <2> QED BY <2>2, <2>3, <2>4, ShiftLeftRow
  <1>4. CASE op = "and"
    <2> DEFINE bit == IF regs[0] = 1 /\ regs[1] = 1 THEN 1 ELSE 0
    <2>1. depth >= 2
      BY <1>1, <1>4 DEF Needed
    <2>2. bit \in Elements
      BY FieldAssumption DEF Elements
    <2>3. ShiftLeft(<<bit>>, 2, 1)
      BY <1>4 DEF Perform, OpAnd
    <2> HIDE DEF bit
    <2>4. <<bit>> \in Seq(Elements)
      BY <2>2
    <2>5. 2 \in Nat /\ 1 \in Nat /\ Len(<<bit>>) + 1 <= depth
      BY <1>1, <2>1
    <2> QED BY <2>3, <2>4, <2>5, ShiftLeftRow
  <1>5. CASE op = "or"
    <2> DEFINE bit == IF regs[0] = 1 \/ regs[1] = 1 THEN 1 ELSE 0
    <2>1. depth >= 2
      BY <1>1, <1>5 DEF Needed
    <2>2. bit \in Elements
      BY FieldAssumption DEF Elements
    <2>3. ShiftLeft(<<bit>>, 2, 1)
      BY <1>5 DEF Perform, OpOr
    <2> HIDE DEF bit
    <2>4. <<bit>> \in Seq(Elements)
      BY <2>2
    <2>5. 2 \in Nat /\ 1 \in Nat /\ Len(<<bit>>) + 1 <= depth
      BY <1>1, <2>1
    <2> QED BY <2>3, <2>4, <2>5, ShiftLeftRow
  <1>6. CASE op = "eq"
    <2> DEFINE bit == IF regs[1] = regs[2] THEN 1 ELSE 0
    <2>1. depth >= 3
      BY <1>1, <1>6 DEF Needed
    <2>2. bit \in Elements
      BY FieldAssumption DEF Elements
    <2>3. ShiftLeft(<<bit>>, 3, 2)
      BY <1>6 DEF Perform, OpEq
    <2> HIDE DEF bit
    <2>4. <<bit>> \in Seq(Elements)
      BY <2>2
    <2>5. 3 \in Nat /\ 2 \in Nat /\ Len(<<bit>>) + 2 <= depth
      BY <1>1, <2>1
    <2> QED BY <2>3, <2>4, <2>5, ShiftLeftRow
  <1> QED BY <1>2, <1>3, <1>4, <1>5, <1>6

(* operations that choose by an item *)
LEMMA ChoosingOps ==
  ASSUME RowOK, TapesOK, NEW op, NEW hint, WellFormed(hint),
         StackFault(op, hint) = "none", Perform(op, hint),
         op \in {"choose", "choose2", "cswap2"}
  PROVE  RowOK'
  <1>1. /\ depth \in Nat /\ depth >= Needed(op, hint)
        /\ \A i \in 0..31 : i < depth => regs[i] \in Elements
    BY NoFault, ItemsAreElements, StackAssumption DEF RowOK, Needed
  <1>2. CASE op = "choose"
    <2> DEFINE top == <<IF regs[2] = 1 THEN regs[0] ELSE regs[1]>>
    <2>1. depth >= 3
      BY <1>1, <1>2 DEF Needed
    <2>2. top \in Seq(Elements) /\ Len(top) = 1
      BY <1>1, <2>1
    <2>3. ShiftLeft(top, 3, 2)
      BY <1>2 DEF Perform, OpChoose
    <2> HIDE DEF top
    <2>4. 3 \in Nat /\ 2 \in Nat /\ Len(top) + 2 <= depth
      BY <1>1, <2>1, <2>2
    <2> QED BY <2>2, <2>3, <2>4, ShiftLeftRow
  <1>3. CASE op = "choose2"
    <2> DEFINE top == IF regs[4] = 1 THEN <<regs[0], regs[1]>> ELSE <<regs[2], regs[3]>>
    <2>1. depth >= 6
      BY <1>1, <1>3 DEF Needed
    <2>2. top \in Seq(Elements) /\ Len(top) = 2
      BY <1>1, <2>1
    <2>3. ShiftLeft(top, 6, 4)
      BY <1>3 DEF Perform, OpChoose2
    <2> HIDE DEF top
    <2>4. 6 \in Nat /\ 4 \in Nat /\ Len(top) + 4 <= depth
      BY <1>1, <2>1, <2>2
    <2> QED BY <2>2, <2>3, <2>4, ShiftLeftRow
  <1>4. CASE op = "cswap2"
    <2> DEFINE top == IF regs[4] = 1 THEN <<regs[2], regs[3], regs[0], regs[1]>>
                    ELSE <<regs[0], regs[1], regs[2], regs[3]>>
    <2>1. depth >= 6
      BY <1>1, <1>4 DEF Needed
    <2>2. top \in Seq(Elements) /\ Len(top) = 4
      BY <1>1, <2>1
    <2>3. ShiftLeft(top, 6, 2)
      BY <1>4 DEF Perform, OpCSwap2
    <2> HIDE DEF top
    <2>4. 6 \in Nat /\ 2 \in Nat /\ Len(top) + 2 <= depth
      BY <1>1, <2>1, <2>2
    <2> QED BY <2>2, <2>3, <2>4, ShiftLeftRow
  <1> QED BY <1>2, <1>3, <1>4

(* operations that duplicate items or add zeros *)
LEMMA DuplicatingOps ==
  ASSUME RowOK, TapesOK, NEW op, NEW hint, WellFormed(hint),
         StackFault(op, hint) = "none", Perform(op, hint),
         op \in {"dup", "dup2", "dup4", "pad2"}
  PROVE  RowOK'
  <1>1. /\ depth \in Nat /\ depth >= Needed(op, hint)
        /\ \A i \in 0..31 : i < depth => regs[i] \in Elements
    BY NoFault, ItemsAreElements, StackAssumption DEF RowOK, Needed
  <1>2. CASE op = "dup"
    <2>1. depth >= 1
      BY <1>1, <1>2 DEF Needed
    <2>2. <<regs[0]>> \in Seq(Elements)
      BY <1>1, <2>1
    <2>3. ShiftRight(<<regs[0]>>)
      BY <1>2 DEF Perform, OpDup
    <2>4. depth + 1 <= MaxStackDepth
      BY <1>1, <1>2, NoFault, StackAssumption DEF Added
    <2> QED BY <1>1, <2>2, <2>3, <2>4, ShiftRightRow
  <1>3. CASE op = "dup2"
    <2>1. depth >= 2
      BY <1>1, <1>3 DEF Needed
    <2>2. <<regs[0], regs[1]>> \in Seq(Elements)
      BY <1>1, <2>1
    <2>3. ShiftRight(<<regs[0], regs[1]>>)
      BY <1>3 DEF Perform, OpDup2
    <2>4. depth + 2 <= MaxStackDepth
      BY <1>1, <1>3, NoFault, StackAssumption DEF Added
    <2> QED BY <1>1, <2>2, <2>3, <2>4, ShiftRightRow
  <1>4. CASE op = "dup4"
    <2>1. depth >= 4
      BY <1>1, <1>4 DEF Needed
    <2>2. <<regs[0], regs[1], regs[2], regs[3]>> \in Seq(Elements)
      BY <1>1, <2>1
    <2>3. ShiftRight(<<regs[0], regs[1], regs[2], regs[3]>>)
      BY <1>4 DEF Perform, OpDup4
    <2>4. depth + 4 <= MaxStackDepth
      BY <1>1, <1>4, NoFault, StackAssumption DEF Added
    <2> QED BY <1>1, <2>2, <2>3, <2>4, ShiftRightRow
  <1>5. CASE op = "pad2"
    <2>2. <<0, 0>> \in Seq(Elements)
      BY FieldAssumption DEF Elements
    <2>3. ShiftRight(<<0, 0>>)
      BY <1>5 DEF Perform, OpPad2
    <2>4. depth + 2 <= MaxStackDepth
      BY <1>1, <1>5, NoFault, StackAssumption DEF Added
    <2> QED BY <1>1, <2>2, <2>3, <2>4, ShiftRightRow
  <1> QED BY <1>2, <1>3, <1>4, <1>5

(* operations that push a constant or a value of the tapes *)
LEMMA ReadingOps ==
  ASSUME RowOK, TapesOK, NEW op, NEW hint, WellFormed(hint),
         StackFault(op, hint) = "none", Perform(op, hint),
         op \in {"push", "read", "read2"}
  PROVE  RowOK'
  <1>1. /\ depth \in Nat /\ depth >= Needed(op, hint)
        /\ \A i \in 0..31 : i < depth => regs[i] \in Elements
    BY NoFault, ItemsAreElements, StackAssumption DEF RowOK, Needed
  <1>2. CASE op = "push"
    <2> DEFINE top == <<hint.arg>>
    <2>1. top \in Seq(Elements) /\ Len(top) = 1
      BY <1>2, NoFault DEF ValidHint, WellFormed
    <2>2. ShiftRight(top)
      BY <1>2 DEF Perform, OpPush
    <2>3. depth + 1 <= MaxStackDepth
      BY <1>1, <1>2, NoFault, StackAssumption DEF Added
    <2> HIDE DEF top
    <2> QED BY <1>1, <2>1, <2>2, <2>3, ShiftRightRow
  <1>3. CASE op = "read"
    <2> DEFINE top == <<HintedTapeA("read", hint)[1]>>
    <2>1. top \in Seq(Elements) /\ Len(top) = 1
      BY <1>1, <1>3, NoFault, ReadTapes DEF ReadsA
    <2>2. ShiftRight(top)
      BY <1>3 DEF Perform, OpRead
    <2>3. depth + 1 <= MaxStackDepth
      BY <1>1, <1>3, NoFault, StackAssumption DEF Added
    <2> HIDE DEF top
    <2> QED BY <1>1, <2>1, <2>2, <2>3, ShiftRightRow
  <1>4. CASE op = "read2"
    <2> DEFINE top == <<HintedTapeB("read2", hint)[1], HintedTapeA("read2", hint)[1]>>
    <2>1. top \in Seq(Elements) /\ Len(top) = 2
      BY <1>1, <1>4, NoFault, ReadTapes DEF ReadsA, ReadsB
    <2>2. ShiftRight(top)
      BY <1>4 DEF Perform, OpRead2
    <2>3. depth + 2 <= MaxStackDepth
      BY <1>1, <1>4, NoFault, StackAssumption DEF Added
    <2> HIDE DEF top
    <2> QED BY <1>1, <2>1, <2>2, <2>3, ShiftRightRow
  <1> QED BY <1>2, <1>3, <1>4

(* one bit of a comparison or a decomposition, and one round of Rescue *)
LEMMA AccumulatingOps ==
  ASSUME RowOK, TapesOK, stackStep \in Nat, NEW op, NEW hint, WellFormed(hint),
         StackFault(op, hint) = "none", Perform(op, hint),
         op \in {"cmp", "binacc", "rescr"}
  PROVE  RowOK'
  <1>1. /\ depth \in Nat /\ depth >= Needed(op, hint)
        /\ \A i \in 0..31 : i < depth => regs[i] \in Elements
    BY NoFault, ItemsAreElements, StackAssumption DEF RowOK, Needed
  <1>2. CASE op = "cmp"
    <2> DEFINE a == HintedTapeA("cmp", hint)[1]
    <2> DEFINE b == HintedTapeB("cmp", hint)[1]
    <2> DEFINE power == regs[0]
    <2> DEFINE next == IF power = 1 THEN Mul(power, Inv(2)) ELSE power \div 2
    <2> DEFINE notSet == Mul(Sub(1, regs[4]), Sub(1, regs[5]))
    <2> DEFINE gt == Add(regs[4], Mul(Mul(a, Sub(1, b)), notSet))
    <2> DEFINE lt == Add(regs[5], Mul(Mul(b, Sub(1, a)), notSet))
    <2> DEFINE accB == Add(regs[6], Mul(b, power))
    <2> DEFINE accA == Add(regs[7], Mul(a, power))
    <2>1. /\ depth >= 8 /\ regs[0] \in Elements
          /\ regs[4] \in Elements /\ regs[5] \in Elements
          /\ regs[6] \in Elements /\ regs[7] \in Elements
      BY <1>1, <1>2 DEF Needed
    <2>2. a \in Elements /\ b \in Elements /\ 1 \in Elements /\ 2 \in Elements
      <3>1. ReadsA(op) /\ ReadsB(op)
        BY <1>2 DEF ReadsA, ReadsB
      <3> QED BY <1>1, <1>2, <3>1, NoFault, ReadTapes, FieldClosed
    <2>3. next \in Elements
      BY <2>1, <2>2, FieldClosed
    <2>4. Sub(1, regs[4]) \in Elements /\ Sub(1, regs[5]) \in Elements
      BY <2>1, <2>2, FieldClosed
    <2>5. notSet \in Elements
      BY <2>4, FieldClosed
    <2>6. Mul(a, Sub(1, b)) \in Elements /\ Mul(b, Sub(1, a)) \in Elements
      BY <2>2, FieldClosed
    <2>7. gt \in Elements /\ lt \in Elements
      <3> HIDE DEF notSet
      <3> QED BY <2>1, <2>5, <2>6, FieldClosed
    <2>8. accB \in Elements /\ accA \in Elements
      BY <2>1, <2>2, FieldClosed
    <2>9. CopyState(<<next, a, b, notSet, gt, lt, accB, accA>>)
      BY <1>2 DEF Perform, OpCmp
    <2> HIDE DEF a, b, next, notSet, gt, lt, accB, accA
    <2>10. <<next, a, b, notSet, gt, lt, accB, accA>> \in Seq(Elements)
      BY <2>2, <2>3, <2>5, <2>7, <2>8
    <2> QED BY <1>1, <2>1, <2>9, <2>10, CopyStateRow
  <1>3. CASE op = "binacc"
    <2> DEFINE bit == HintedTapeA("binacc", hint)[1]
    <2> DEFINE next == Mul(regs[2], 2)
    <2> DEFINE acc == Add(regs[3], Mul(bit, regs[2]))
    <2>1. depth >= 4 /\ regs[2] \in Elements /\ regs[3] \in Elements
      BY <1>1, <1>3 DEF Needed
    <2>2. bit \in Elements /\ 0 \in Elements /\ 2 \in Elements
      <3>1. ReadsA(op)
        BY <1>3 DEF ReadsA
      <3> QED BY <1>1, <1>3, <3>1, NoFault, ReadTapes, FieldClosed
    <2>3. next \in Elements /\ acc \in Elements
      BY <2>1, <2>2, FieldClosed
    <2>4. CopyState(<<bit, 0, next, acc>>)
      BY <1>3 DEF Perform, OpBinAcc
    <2> HIDE DEF bit, next, acc
    <2>5. <<bit, 0, next, acc>> \in Seq(Elements)
      BY <2>2, <2>3
    <2> QED BY <1>1, <2>1, <2>4, <2>5, CopyStateRow
  <1>4. CASE op = "rescr"
    <2> DEFINE six == <<regs[0], regs[1], regs[2], regs[3], regs[4], regs[5]>>
    <2> DEFINE top == RescueRound(six, stackStep % RescueCycle)
    <2>1. depth >= 6
      BY <1>1, <1>4 DEF Needed
    <2>2. six \in [1..6 -> Elements]
      BY <1>1, <2>1
    <2>3. stackStep % RescueCycle \in 0..(RescueCycle - 1)
      BY ModRange, RescueAssumption
    <2>4. top \in [1..6 -> Elements]
      BY <2>2, <2>3, RescueAssumption
    <2>5. CopyState(top)
      BY <1>4 DEF Perform, OpRescR
    <2> HIDE DEF top
    <2>6. 6 \in Nat
      OBVIOUS
    <2>7. top \in Seq(Elements) /\ Len(top) = 6
      BY <2>4, <2>6, TupleIsSeq
    <2> QED BY <1>1, <2>1, <2>5, <2>6, <2>7, CopyStateRow
  <1> QED BY <1>2, <1>3, <1>4

(* Each operation the stack accepts keeps its row well-formed. *)
LEMMA PerformRow ==
  ASSUME RowOK, TapesOK, stackStep \in Nat, NEW op, NEW hint, WellFormed(hint),
         StackFault(op, hint) = "none", Perform(op, hint)
  PROVE  RowOK'
  <1>1. CASE op \in {"begin", "noop"}
    <2>1. CopyState(<< >>)
      BY <1>1 DEF Perform, OpNoop
    <2>2. << >> \in Seq(Elements) /\ Len(<< >>) <= depth
      BY EmptySeq, StackAssumption DEF RowOK
    <2> QED BY <2>1, <2>2, CopyStateRow
  <1>2. CASE op \in {"swap", "swap2", "swap4", "roll4", "roll8"}
    BY <1>2, PermutingOps
  <1>3. CASE op \in {"assert", "asserteq", "drop", "drop4"}
    BY <1>3, DroppingOps
  <1>4. CASE op \in {"inv", "neg", "not"}
    BY <1>4, UnaryOps
  <1>5. CASE op \in {"add", "mul", "and", "or", "eq"}
    BY <1>5, BinaryOps
  <1>6. CASE op \in {"choose", "choose2", "cswap2"}
    BY <1>6, ChoosingOps
  <1>7. CASE op \in {"dup", "dup2", "dup4", "pad2"}
    BY <1>7, DuplicatingOps
  <1>8. CASE op \in {"push", "read", "read2"}
    BY <1>8, ReadingOps
  <1>9. CASE op \in {"cmp", "binacc", "rescr"}
    BY <1>9, AccumulatingOps
  <1> QED
    BY <1>1, <1>2, <1>3, <1>4, <1>5, <1>6, <1>7, <1>8, <1>9 DEF Perform
-----------------------------------------------------------------------------
(* everything the stack keeps, of its registers, tapes and steps *)
StackOK == StackTypeOK /\ FreeRegistersAreZero /\ RegistersSuffice

LEMMA StackInitOK ==
  ASSUME NEW public \in Seq(Elements), Len(public) <= MaxStackDepth,
         NEW a \in Seq(Elements), NEW b \in Seq(Elements), NEW length \in Nat \ {0},
         StackInit(public, a, b, length)
  PROVE  StackOK
  <1>1. Len(public) \in Nat /\ \A i \in 1..Len(public) : public[i] \in Elements
    BY LenProperties, ElementOfSeq
  <1>2. 0 \in Elements
    BY FieldAssumption DEF Elements
  <1> QED
    BY <1>1, <1>2, StackAssumption
    DEF StackInit, StackOK, StackTypeOK, FreeRegistersAreZero, RegistersSuffice, Slots

LEMMA ExecuteOK ==
  ASSUME StackOK, NEW op, NEW hint, WellFormed(hint),
         StackFault(op, hint) = "none", Execute(op, hint)
  PROVE  StackOK'
  <1>1. RowOK /\ TapesOK /\ stackStep \in Nat /\ stackLength \in Nat \ {0}
    BY DEF StackOK, StackTypeOK, RowOK, TapesOK
  <1>2. RowOK'
    BY <1>1, PerformRow DEF Execute
  <1>3. TapesOK'
    <2>1. depth >= Needed(op, hint) /\ ~ TapeFault(op, hint)
      BY <1>1, NoFault, StackAssumption DEF RowOK, Needed
    <2>2. /\ ReadsA(op) => Tail(HintedTapeA(op, hint)) \in Seq(Elements)
          /\ ReadsB(op) => Tail(HintedTapeB(op, hint)) \in Seq(Elements)
      BY <1>1, <2>1, ReadTapes
    <2> QED BY <1>1, <2>2 DEF Execute, TapesOK
  <1>4. stackStep' \in Nat /\ stackLength' \in Nat \ {0}
    BY <1>1 DEF Execute
  <1> QED BY <1>2, <1>3, <1>4 DEF StackOK, StackTypeOK, RowOK, TapesOK
-----------------------------------------------------------------------------
(* The list in the first registers of a row. *)
LEMMA ListOfRow ==
  ASSUME NEW row \in [Slots -> Elements], NEW d \in 0..MaxStackDepth
  PROVE  /\ [j \in 1..d |-> row[j - 1]] \in Seq(Elements)
         /\ Len([j \in 1..d |-> row[j - 1]]) = d
         /\ \A j \in 1..d : row[j - 1] \in Elements
  <1>1. d \in Nat /\ \A j \in 1..d : j - 1 \in Slots
    BY StackAssumption DEF Slots
  <1>2. [j \in 1..d |-> row[j - 1]] \in [1..d -> Elements]
    BY <1>1
  <1> QED BY <1>1, <1>2, TupleIsSeq

(* The list of the stack: its length is the depth, its items are elements. *)
LEMMA ItemsList ==
  ASSUME RowOK
  PROVE  /\ depth \in Nat /\ Items \in Seq(Elements) /\ Len(Items) = depth
         /\ \A j \in 1..depth : Items[j] = regs[j - 1] /\ Items[j] \in Elements
  <1>1. regs \in [Slots -> Elements] /\ depth \in 0..MaxStackDepth /\ depth \in Nat
    BY DEF RowOK
  <1> QED BY <1>1, ListOfRow DEF Items

(* The same of the next state. *)
LEMMA ItemsListNext ==
  ASSUME RowOK'
  PROVE  /\ depth' \in Nat /\ Items' \in Seq(Elements) /\ Len(Items') = depth'
         /\ \A j \in 1..depth' : Items'[j] = regs'[j - 1]
  <1>1. regs' \in [Slots -> Elements] /\ depth' \in 0..MaxStackDepth /\ depth' \in Nat
    BY DEF RowOK
  <1> QED BY <1>1, ListOfRow DEF Items

(* A sequence made of the elements of two. *)
LEMMA BuiltList ==
  ASSUME NEW S, NEW s \in Seq(S), NEW t \in Seq(S), NEW u \in Seq(S),
         Len(u) = Len(s) + Len(t),
         \A j \in 1..Len(u) : u[j] = IF j <= Len(s) THEN s[j] ELSE t[j - Len(s)]
  PROVE  u = s \o t
  <1>1. /\ s \o t \in Seq(S) /\ Len(s \o t) = Len(u)
        /\ \A j \in 1..Len(u) : (s \o t)[j] = u[j]
    BY ConcatProperties
  <1> QED BY <1>1, SeqEqual

(* what lies below the first n items *)
LEMMA RestOfList ==
  ASSUME RowOK, NEW n \in Nat, n <= depth
  PROVE  /\ SubSeq(Items, n + 1, Len(Items)) \in Seq(Elements)
         /\ Len(SubSeq(Items, n + 1, Len(Items))) = depth - n
         /\ \A j \in 1..(depth - n) : SubSeq(Items, n + 1, Len(Items))[j] = regs[n + j - 1]
  <1>1. /\ depth \in Nat /\ Len(Items) = depth
        /\ \A j \in 1..depth : Items[j] = regs[j - 1] /\ Items[j] \in Elements
    BY ItemsList
  <1>2. n + 1 \in Int /\ Len(Items) \in Int /\ \A j \in (n + 1)..Len(Items) : Items[j] \in Elements
    BY <1>1
  <1>3. Len(Items) - (n + 1) + 1 = depth - n /\ (n + 1 <= Len(Items) \/ depth - n = 0)
    BY <1>1
  <1>4. /\ SubSeq(Items, n + 1, Len(Items)) \in Seq(Elements)
        /\ Len(SubSeq(Items, n + 1, Len(Items))) = depth - n
        /\ \A j \in 1..(depth - n) : SubSeq(Items, n + 1, Len(Items))[j] = Items[n + 1 + j - 1]
    BY <1>2, <1>3, SubSeqProperties
  <1>5. \A j \in 1..(depth - n) : n + 1 + j - 1 \in 1..depth /\ (n + 1 + j - 1) - 1 = n + j - 1
    BY <1>1
  <1> QED BY <1>1, <1>4, <1>5

(* copy_state leaves what lies below the registers it was given. *)
LEMMA CopyStateList ==
  ASSUME RowOK, NEW top \in Seq(Elements), Len(top) <= depth, CopyState(top)
  PROVE  Items' = top \o SubSeq(Items, Len(top) + 1, Len(Items))
  <1> DEFINE below == SubSeq(Items, Len(top) + 1, Len(Items))
  <1>1. Len(top) \in Nat
    BY LenProperties
  <1>2. /\ below \in Seq(Elements) /\ Len(below) = depth - Len(top)
        /\ \A j \in 1..(depth - Len(top)) : below[j] = regs[Len(top) + j - 1]
    BY <1>1, RestOfList
  <1>3. RowOK'
    BY CopyStateRow
  <1>4. Items' \in Seq(Elements) /\ Len(Items') = depth' /\ \A j \in 1..depth' : Items'[j] = regs'[j - 1]
    BY <1>3, ItemsListNext
  <1>5. depth' = depth /\ depth \in 0..MaxStackDepth /\ MaxStackDepth \in Nat
    BY StackAssumption DEF CopyState, RowOK
  <1> HIDE DEF below
  <1>6. \A j \in 1..depth' : Items'[j] = IF j <= Len(top) THEN top[j] ELSE below[j - Len(top)]
    <2> SUFFICES ASSUME NEW j \in 1..depth'
                 PROVE  Items'[j] = IF j <= Len(top) THEN top[j] ELSE below[j - Len(top)]
      OBVIOUS
    <2>1. j - 1 \in Slots /\ j - 1 < depth
      BY <1>5 DEF Slots
    <2>0. (j - 1) + 1 = j /\ (j - 1 < Len(top) <=> j <= Len(top))
      BY <1>1, <1>5
    <2>2. regs'[j - 1] = IF j <= Len(top) THEN top[j] ELSE regs[j - 1]
      BY <2>0, <2>1 DEF CopyState
    <2>3. j > Len(top) => j - Len(top) \in 1..(depth - Len(top)) /\ Len(top) + (j - Len(top)) - 1 = j - 1
      BY <1>1, <1>5
    <2>4. j > Len(top) => below[j - Len(top)] = regs[j - 1]
      BY <1>2, <2>3
    <2> QED BY <2>4,  <1>1, <1>2, <1>4, <1>5, <2>2, <2>3
  <1>7. Len(Items') = Len(top) + Len(below)
    BY <1>1, <1>2, <1>4, <1>5
  <1>8. Items' = top \o below
    BY <1>2, <1>4, <1>5, <1>6, <1>7, BuiltList
  <1> QED BY <1>8 DEF below

(* shift_left drops the items between the new top and register start. *)
LEMMA ShiftLeftList ==
  ASSUME RowOK, NEW top \in Seq(Elements), NEW n \in Nat, NEW start \in Nat,
         start = Len(top) + n, start <= depth, ShiftLeft(top, start, n)
  PROVE  Items' = top \o SubSeq(Items, start + 1, Len(Items))
  <1> DEFINE below == SubSeq(Items, start + 1, Len(Items))
  <1>1. Len(top) \in Nat
    BY LenProperties
  <1>2. /\ below \in Seq(Elements) /\ Len(below) = depth - start
        /\ \A j \in 1..(depth - start) : below[j] = regs[start + j - 1]
    BY <1>1, RestOfList
  <1>3. RowOK'
    BY <1>1, ShiftLeftRow
  <1>4. Items' \in Seq(Elements) /\ Len(Items') = depth' /\ \A j \in 1..depth' : Items'[j] = regs'[j - 1]
    BY <1>3, ItemsListNext
  <1>5. depth' = depth - n /\ depth \in 0..MaxStackDepth /\ MaxStackDepth \in Nat
    BY StackAssumption DEF ShiftLeft, RowOK
  <1> HIDE DEF below
  <1>6. \A j \in 1..depth' : Items'[j] = IF j <= Len(top) THEN top[j] ELSE below[j - Len(top)]
    <2> SUFFICES ASSUME NEW j \in 1..depth'
                 PROVE  Items'[j] = IF j <= Len(top) THEN top[j] ELSE below[j - Len(top)]
      OBVIOUS
    <2>1. j - 1 \in Slots /\ (j - 1) + n < depth
      BY <1>5 DEF Slots
    <2>2. j > Len(top) => (j - 1) + n >= start
      BY <1>1, <1>5
    <2>3. regs'[j - 1] = IF j - 1 < Len(top) THEN top[(j - 1) + 1]
                         ELSE IF (j - 1) + n >= start THEN regs[(j - 1) + n] ELSE 0
      BY <2>1 DEF ShiftLeft
    <2>4. j > Len(top) => /\ j - Len(top) \in 1..(depth - start)
                          /\ start + (j - Len(top)) - 1 = (j - 1) + n
      BY <1>1, <1>5
    <2> QED BY <1>1, <1>2, <1>4, <1>5, <2>2, <2>3, <2>4
  <1>7. Len(Items') = Len(top) + Len(below)
    BY <1>1, <1>2, <1>4, <1>5
  <1>8. Items' = top \o below
    BY <1>2, <1>4, <1>5, <1>6, <1>7, BuiltList
  <1> QED BY <1>8 DEF below

(* shift_right puts the new top on everything that was there. *)
LEMMA ShiftRightList ==
  ASSUME RowOK, NEW top \in Seq(Elements), depth + Len(top) <= MaxStackDepth, ShiftRight(top)
  PROVE  Items' = top \o Items
  <1>1. Len(top) \in Nat
    BY LenProperties
  <1>2. Items \in Seq(Elements) /\ Len(Items) = depth /\ \A j \in 1..depth : Items[j] = regs[j - 1]
    BY ItemsList
  <1>3. RowOK'
    BY ShiftRightRow
  <1>4. Items' \in Seq(Elements) /\ Len(Items') = depth' /\ \A j \in 1..depth' : Items'[j] = regs'[j - 1]
    BY <1>3, ItemsListNext
  <1>5. depth' = depth + Len(top) /\ depth \in 0..MaxStackDepth /\ MaxStackDepth \in Nat
    BY StackAssumption DEF ShiftRight, RowOK
  <1>6. \A j \in 1..depth' : Items'[j] = IF j <= Len(top) THEN top[j] ELSE Items[j - Len(top)]
    <2> SUFFICES ASSUME NEW j \in 1..depth'
                 PROVE  Items'[j] = IF j <= Len(top) THEN top[j] ELSE Items[j - Len(top)]
      OBVIOUS
    <2>1. j - 1 \in Slots /\ j - 1 < depth + Len(top)
      BY <1>1, <1>5 DEF Slots
    <2>2. regs'[j - 1] = IF j - 1 < Len(top) THEN top[(j - 1) + 1] ELSE regs[(j - 1) - Len(top)]
      BY <2>1 DEF ShiftRight
    <2>3. j > Len(top) => j - Len(top) \in 1..depth /\ (j - Len(top)) - 1 = (j - 1) - Len(top)
      BY <1>1, <1>5
    <2> QED BY <1>1, <1>2, <1>4, <1>5, <2>2, <2>3
  <1>7. Len(Items') = Len(top) + Len(Items)
    BY <1>1, <1>2, <1>4, <1>5
  <1> QED BY <1>2, <1>4, <1>5, <1>6, <1>7, BuiltList

-----------------------------------------------------------------------------
(* What the list calls by the same names is the same. *)
LEMMA SameArithmetic ==
  /\ List!Elements = Elements
  /\ \A p, q : /\ List!Add(p, q) = Add(p, q) /\ List!Mul(p, q) = Mul(p, q)
               /\ List!Sub(p, q) = Sub(p, q)
  /\ \A p : List!Neg(p) = Neg(p) /\ List!Inv(p) = Inv(p) /\ List!IsBinary(p) = IsBinary(p)
  <1>1. \A p, q : /\ List!Add(p, q) = Add(p, q) /\ List!Mul(p, q) = Mul(p, q)
                  /\ List!Sub(p, q) = Sub(p, q)
    BY DEF List!Add, Add, List!Mul, Mul, List!Sub, Sub
  <1>2. List!Elements = Elements
    BY DEF List!Elements, Elements
  <1>3. \A p : List!Neg(p) = Neg(p) /\ List!IsBinary(p) = IsBinary(p)
    BY <1>1 DEF List!Neg, Neg, List!IsBinary, IsBinary
  <1>4. \A p : List!Inv(p) = Inv(p)
    BY DEF List!Inv, Inv, List!Mul, Mul, List!Elements, Elements
  <1> QED BY <1>1, <1>2, <1>3, <1>4

(* Operations ask for the same. *)
LEMMA SameDemands ==
  ASSUME NEW op, NEW hint
  PROVE  /\ List!Needed(op, hint) = Needed(op, hint) /\ List!Added(op) = Added(op)
         /\ List!ValidHint(op, hint) = ValidHint(op, hint)
         /\ List!ReadsA(op) = ReadsA(op) /\ List!ReadsB(op) = ReadsB(op)
         /\ \A p : List!IsPowerOfTwo(p) = IsPowerOfTwo(p)
  <1>1. List!Needed(op, hint) = Needed(op, hint) /\ List!Added(op) = Added(op)
    BY DEF List!Needed, Needed, List!Added, Added
  <1>2. List!ValidHint(op, hint) = ValidHint(op, hint)
    BY DEF List!ValidHint, ValidHint
  <1>3. /\ List!ReadsA(op) = ReadsA(op) /\ List!ReadsB(op) = ReadsB(op)
        /\ \A p : List!IsPowerOfTwo(p) = IsPowerOfTwo(p)
    BY DEF List!ReadsA, ReadsA, List!ReadsB, ReadsB, List!IsPowerOfTwo, IsPowerOfTwo
  <1> QED BY <1>1, <1>2, <1>3

(* Hints stand for the same values. *)
LEMMA SameWitnesses ==
  ASSUME NEW p, NEW q, NEW n
  PROVE  /\ List!LowBitsFirst(p, n) = LowBitsFirst(p, n)
         /\ List!HighBitsFirst(p, n) = HighBitsFirst(p, n)
         /\ List!EqWitness(p, q) = EqWitness(p, q)
         /\ List!Interlaced(p, q, n) = Interlaced(p, q, n)
  <1>1. \A r, m : List!Bit(r, m) = Bit(r, m)
    BY DEF List!Bit, Bit
  <1>2. /\ List!LowBitsFirst(p, n) = LowBitsFirst(p, n)
        /\ List!HighBitsFirst(p, n) = HighBitsFirst(p, n)
    BY <1>1 DEF List!LowBitsFirst, LowBitsFirst, List!HighBitsFirst, HighBitsFirst
  <1>3. List!EqWitness(p, q) = EqWitness(p, q)
    BY SameArithmetic DEF List!EqWitness, EqWitness
  <1>4. List!Interlaced(p, q, n) = Interlaced(p, q, n)
    BY <1>1 DEF List!Interlaced, Interlaced
  <1> QED BY <1>2, <1>3, <1>4

(* A hint puts on the tapes what the list says. *)
LEMMA SameTapes ==
  ASSUME RowOK, NEW op, NEW hint, depth >= Needed(op, hint)
  PROVE  /\ List!PreparedA(op, hint) = HintedTapeA(op, hint)
         /\ List!PreparedB(op, hint) = HintedTapeB(op, hint)
  <1>1. depth \in Nat /\ \A j \in 1..depth : Items[j] = regs[j - 1]
    BY ItemsList
  <1>2. CASE op = "read" /\ hint.kind = "eq"
    <2>1. Needed(op, hint) = 2
      BY <1>2 DEF Needed
    <2>2. Items[1] = regs[0] /\ Items[2] = regs[1]
      BY <1>1, <2>1
    <2> QED BY <1>2, <2>2, SameWitnesses
        DEF List!PreparedA, HintedTapeA, List!PreparedB, HintedTapeB
  <1>3. CASE op = "read2" /\ hint.kind = "pmpath"
    <2>1. Needed(op, hint) = 3
      BY <1>3 DEF Needed
    <2>2. Items[3] = regs[2]
      BY <1>1, <2>1
    <2>3. List!Interlaced(tapeA, Items[3], hint.arg) = Interlaced(tapeA, regs[2], hint.arg)
      BY <2>2, SameWitnesses
    <2> QED BY <1>3, <2>3
        DEF List!PreparedA, HintedTapeA, List!PreparedB, HintedTapeB
  <1>4. CASE op = "cmp" /\ hint.kind = "cmp"
    <2>1. Needed(op, hint) = 10
      BY <1>4 DEF Needed
    <2>2. Items[9] = regs[8] /\ Items[10] = regs[9]
      BY <1>1, <2>1
    <2> QED BY <1>4, <2>2, SameWitnesses
        DEF List!PreparedA, HintedTapeA, List!PreparedB, HintedTapeB
  <1>5. CASE op = "binacc" /\ hint.kind = "rc"
    <2>1. Needed(op, hint) = 5
      BY <1>5 DEF Needed
    <2>2. Items[5] = regs[4]
      BY <1>1, <2>1
    <2> QED BY <1>5, <2>2, SameWitnesses
        DEF List!PreparedA, HintedTapeA, List!PreparedB, HintedTapeB
  <1> QED BY <1>2, <1>3, <1>4, <1>5
      DEF List!PreparedA, HintedTapeA, List!PreparedB, HintedTapeB
-----------------------------------------------------------------------------
(* the constants that occur in operations *)
LEMMA SmallElements == 0 \in Elements /\ 1 \in Elements /\ 2 \in Elements
  BY FieldAssumption DEF Elements

(* Bits multiply, and are taken from 1, as the integers they are. *)
LEMMA BitArithmetic ==
  ASSUME NEW p \in Elements, NEW q \in Elements
  PROVE  /\ Mul(p, q) = Mul(q, p)
         /\ Mul(1, p) = p /\ Mul(p, 1) = p /\ Mul(0, p) = 0 /\ Mul(p, 0) = 0
         /\ Add(p, 0) = p
         /\ Sub(1, 1) = 0 /\ Sub(1, 0) = 1
         /\ p # q => Sub(p, q) # 0
  <1>1. Modulus \in Nat /\ Modulus > 2 /\ p \in Nat /\ q \in Nat /\ p < Modulus /\ q < Modulus
    BY FieldAssumption DEF Elements
  <1>2. /\ Mul(1, p) = p /\ Mul(p, 1) = p /\ Mul(0, p) = 0 /\ Mul(p, 0) = 0 /\ Add(p, 0) = p
    BY <1>1 DEF Mul, Add
  <1>3. Sub(1, 1) = 0 /\ Sub(1, 0) = 1
    BY <1>1 DEF Sub
  <1>4. p * q = q * p
    BY <1>1
  <1>5. p # q => Sub(p, q) # 0
    <2>1. CASE p < q
      <3>1. p + Modulus - q \in 1..(Modulus - 1)
        BY <1>1, <2>1
      <3>2. (p + Modulus - q) % Modulus = p + Modulus - q
        BY <1>1, <3>1
      <3> QED BY <3>1, <3>2 DEF Sub
    <2>2. CASE p > q
      <3>1. p - q \in 1..(Modulus - 1)
        BY <1>1, <2>2
      <3>2. (p + Modulus - q) % Modulus = p - q
        BY <1>1, <3>1
      <3> QED BY <3>1, <3>2 DEF Sub
    <2> QED BY <1>1, <2>1, <2>2
  <1> QED BY <1>2, <1>3, <1>4, <1>5 DEF Mul

(* inv is the inverse of everything but 0. *)
LEMMA InverseOf ==
  ASSUME NEW p \in Elements, p # 0
  PROVE  Mul(p, Inv(p)) = 1
  <1>1. \E q \in Elements : Mul(p, q) = 1
    BY FieldAssumption DEF Mul
  <1> QED BY <1>1 DEF Inv

(* Nothing else is an inverse. *)
LEMMA OneInverse ==
  ASSUME NEW p \in Elements, NEW q \in Elements, p # 0, Mul(q, p) = 1
  PROVE  q = Inv(p)
  <1> DEFINE r == Inv(p)
             all == q * p * r
  <1>1. Modulus \in Nat \ {0} /\ p \in Nat /\ q \in 0..(Modulus - 1)
    BY FieldAssumption DEF Elements
  <1>2. r \in 0..(Modulus - 1) /\ Mul(p, r) = 1
    BY FieldClosed, InverseOf DEF Elements
  <1> HIDE DEF r
  <1>3. q * p \in Nat /\ p * r \in Nat /\ r \in Nat /\ q \in Nat
    BY <1>1, <1>2
  <1>4. PICK m \in Nat : q * p = m * Modulus + ((q * p) % Modulus)
    BY <1>1, <1>3, DivMod
  <1>5. PICK n \in Nat : p * r = n * Modulus + ((p * r) % Modulus)
    BY <1>1, <1>3, DivMod
  <1>6. q * p = m * Modulus + 1 /\ p * r = n * Modulus + 1
    BY <1>2, <1>4, <1>5 DEF Mul
  <1>7. (q * p) * r = (r * m) * Modulus + r
    BY <1>1, <1>3, <1>6
  <1>8. q * (p * r) = (q * n) * Modulus + q
    BY <1>1, <1>3, <1>6
  <1>9. (q * p) * r = q * (p * r)
    BY <1>1, <1>3
  <1>10. r * m \in Int /\ q * n \in Int
    BY <1>3
  <1>11. ((r * m) * Modulus + r) % Modulus = r
    BY <1>1, <1>2, <1>10, ModUnique
  <1>12. ((q * n) * Modulus + q) % Modulus = q
    BY <1>1, <1>10, ModUnique
  <1> QED BY <1>7, <1>8, <1>9, <1>11, <1>12 DEF r

(* The values an operation refuses are those it is not defined for. *)
LEMMA RefusedIsUndefined ==
  ASSUME RowOK, TapesOK, NEW op, NEW hint, WellFormed(hint),
         depth >= Needed(op, hint), ~ TapeFault(op, hint)
  PROVE  List!Defined(op, hint) <=> ~ ValueFault(op, hint)
  <1>0. /\ depth \in Nat /\ Needed(op, hint) \in Nat
        /\ \A j \in 1..depth : Items[j] = regs[j - 1] /\ Items[j] \in Elements
    BY ItemsList DEF Needed
  <1>2. CASE op \in {"assert", "asserteq", "choose", "choose2", "cswap2", "inv", "not", "and", "or"}
    <2>1. /\ op \in {"assert", "inv", "not"} => depth >= 1
          /\ op \in {"asserteq", "and", "or"} => depth >= 2
          /\ op = "choose" => depth >= 3
          /\ op \in {"choose2", "cswap2"} => depth >= 6
      BY DEF Needed
    <2>2. /\ op \in {"assert", "inv", "not"} => Items[1] = regs[0]
          /\ op \in {"asserteq", "and", "or"} => Items[1] = regs[0] /\ Items[2] = regs[1]
          /\ op = "choose" => Items[3] = regs[2]
          /\ op \in {"choose2", "cswap2"} => Items[5] = regs[4]
      BY <1>0, <2>1
    <2> QED BY <1>2, <2>2, SameArithmetic DEF List!Defined, ValueFault
  <1>3. CASE op = "eq"
    <2>1. depth >= 3
      BY <1>3 DEF Needed
    <2>2. /\ Items[1] = regs[0] /\ Items[2] = regs[1] /\ Items[3] = regs[2]
          /\ regs[0] \in Elements /\ regs[1] \in Elements /\ regs[2] \in Elements
      BY <1>0, <2>1
    <2>3. ASSUME regs[1] # regs[2]
          PROVE  Mul(regs[0], Sub(regs[1], regs[2])) = 1 <=> regs[0] = Inv(Sub(regs[1], regs[2]))
      <3>1. Sub(regs[1], regs[2]) \in Elements /\ Sub(regs[1], regs[2]) # 0
        BY <2>2, <2>3, FieldClosed, BitArithmetic
      <3>2. ASSUME regs[0] = Inv(Sub(regs[1], regs[2]))
            PROVE  Mul(regs[0], Sub(regs[1], regs[2])) = 1
        <4>1. Mul(Sub(regs[1], regs[2]), regs[0]) = 1
          BY <3>1, <3>2, InverseOf
        <4> QED BY <2>2, <3>1, <4>1, BitArithmetic
      <3>3. ASSUME Mul(regs[0], Sub(regs[1], regs[2])) = 1
            PROVE  regs[0] = Inv(Sub(regs[1], regs[2]))
        BY <2>2, <3>1, <3>3, OneInverse
      <3> QED BY <3>2, <3>3
    <2>4. List!Defined(op, hint) <=> (regs[1] # regs[2] => Mul(regs[0], Sub(regs[1], regs[2])) = 1)
      BY <1>3, <2>2, SameArithmetic DEF List!Defined
    <2>5. ValueFault(op, hint) <=> regs[1] # regs[2] /\ regs[0] # Inv(Sub(regs[1], regs[2]))
      BY <1>3 DEF ValueFault
    <2> QED BY <2>3, <2>4, <2>5
  <1>4. CASE op \in {"cmp", "binacc"}
    <2>1. /\ op = "cmp" => depth >= 8
          /\ op = "binacc" => depth >= 4
      BY <1>0, <1>4 DEF Needed
    <2>2. (op = "cmp" => Items[1] = regs[0]) /\ (op = "binacc" => Items[3] = regs[2])
      BY <1>0, <2>1
    <2>3. /\ List!PreparedA(op, hint) = HintedTapeA(op, hint)
          /\ List!PreparedB(op, hint) = HintedTapeB(op, hint)
      BY SameTapes
    <2>4. \A s \in Seq(Elements) : Head(s) = s[1]
      OBVIOUS
    <2>5. HintedTapeA(op, hint) \in Seq(Elements) /\ HintedTapeB(op, hint) \in Seq(Elements)
      BY ReadTapes
    <2>6. /\ Head(HintedTapeA(op, hint)) = HintedTapeA(op, hint)[1]
          /\ Head(HintedTapeB(op, hint)) = HintedTapeB(op, hint)[1]
      BY <2>4, <2>5
    <2>7. CASE op = "cmp"
      BY <2>2, <2>3, <2>6, <2>7, SameArithmetic, SameDemands DEF List!Defined, ValueFault
    <2>8. CASE op = "binacc"
      BY <2>2, <2>3, <2>6, <2>8, SameArithmetic, SameDemands DEF List!Defined, ValueFault
    <2> QED BY <1>4, <2>7, <2>8
  <1> QED BY <1>2, <1>3, <1>4 DEF List!Defined, ValueFault

(* An operation that is accepted is defined. *)
LEMMA AcceptedIsDefined ==
  ASSUME RowOK, TapesOK, NEW op, NEW hint, WellFormed(hint), StackFault(op, hint) = "none"
  PROVE  List!Defined(op, hint)
  <1>1. /\ depth >= Needed(op, hint) /\ ~ TapeFault(op, hint) /\ ~ ValueFault(op, hint)
    <2>1. ~ (depth < Needed(op, hint)) /\ depth \in Nat /\ Needed(op, hint) \in Nat
      BY NoFault, ItemsList DEF Needed
    <2> QED BY <2>1 DEF StackFault
  <1> QED BY <1>1, RefusedIsUndefined

(* The stack fails whenever the list does, and for the same reason. *)
LEMMA FaultIsFailure ==
  ASSUME RowOK, TapesOK, NEW op, NEW hint, WellFormed(hint)
  PROVE  List!Failure(op, hint) = StackFault(op, hint)
  <1>1. /\ depth \in Nat /\ Needed(op, hint) \in Nat /\ Added(op) \in Nat /\ Len(Items) = depth
    BY ItemsList DEF Needed, Added
  <1>2. CASE depth < Needed(op, hint)
    BY <1>1, <1>2, SameDemands DEF List!Failure, StackFault
  <1>3. CASE depth >= Needed(op, hint)
    <2>1. /\ List!PreparedA(op, hint) = HintedTapeA(op, hint)
          /\ List!PreparedB(op, hint) = HintedTapeB(op, hint)
      BY <1>3, SameTapes
    <2>2. List!EmptyTape(op, hint) <=> TapeFault(op, hint)
      <3>1. CASE op = "read2" /\ hint.kind = "pmpath"
                 /\ (Len(tapeA) < hint.arg - 1 \/ Len(tapeB) < hint.arg - 1)
        BY <3>1 DEF List!EmptyTape, TapeFault
      <3>2. CASE ~ (op = "read2" /\ hint.kind = "pmpath"
                    /\ (Len(tapeA) < hint.arg - 1 \/ Len(tapeB) < hint.arg - 1))
        <4>1. HintedTapeA(op, hint) \in Seq(Elements) /\ HintedTapeB(op, hint) \in Seq(Elements)
          BY <1>3, <3>2, HintedTapes
        <4>2. \A s \in Seq(Elements) : Len(s) = 0 <=> s = << >>
          BY EmptySeq
        <4>3. /\ Len(HintedTapeA(op, hint)) = 0 <=> HintedTapeA(op, hint) = << >>
              /\ Len(HintedTapeB(op, hint)) = 0 <=> HintedTapeB(op, hint) = << >>
          BY <4>1, <4>2
        <4> QED BY <2>1, <3>2, <4>3, SameDemands DEF List!EmptyTape, TapeFault
      <3> QED BY <3>1, <3>2
    <2>3. ~ TapeFault(op, hint) => (List!Defined(op, hint) <=> ~ ValueFault(op, hint))
      BY <1>3, RefusedIsUndefined
    <2> HIDE DEF List!Defined, List!EmptyTape, TapeFault, ValueFault
    <2>4. /\ List!Needed(op, hint) = Needed(op, hint) /\ List!Added(op) = Added(op)
          /\ List!ValidHint(op, hint) = ValidHint(op, hint)
      BY SameDemands
    <2> QED BY <1>1, <1>3, <2>2, <2>3, <2>4 DEF List!Failure, StackFault
  <1> QED BY <1>1, <1>2, <1>3
-----------------------------------------------------------------------------
(* A sequence of one value, written out. *)
LEMMA SeqOfOne ==
  ASSUME NEW S, NEW s \in Seq(S), Len(s) = 1
  PROVE  s = <<s[1]>>
  <1> DEFINE t == <<s[1]>>
  <1>1. \A j \in 1..1 : s[j] \in S
    BY ElementOfSeq
  <1>2. t \in Seq(S) /\ Len(t) = 1 /\ \A j \in 1..1 : t[j] = s[j]
    BY <1>1
  <1> HIDE DEF t
  <1>3. s = t
    BY <1>2, SeqEqual
  <1> QED BY <1>3 DEF t

(* A sequence of two values, written out. *)
LEMMA SeqOfTwo ==
  ASSUME NEW S, NEW s \in Seq(S), Len(s) = 2
  PROVE  s = <<s[1], s[2]>>
  <1> DEFINE t == <<s[1], s[2]>>
  <1>1. \A j \in 1..2 : s[j] \in S
    BY ElementOfSeq
  <1>2. t \in Seq(S) /\ Len(t) = 2 /\ \A j \in 1..2 : t[j] = s[j]
    BY <1>1
  <1> HIDE DEF t
  <1>3. s = t
    BY <1>2, SeqEqual
  <1> QED BY <1>3 DEF t

(* A sequence of three values, written out. *)
LEMMA SeqOfThree ==
  ASSUME NEW S, NEW s \in Seq(S), Len(s) = 3
  PROVE  s = <<s[1], s[2], s[3]>>
  <1> DEFINE t == <<s[1], s[2], s[3]>>
  <1>1. \A j \in 1..3 : s[j] \in S
    BY ElementOfSeq
  <1>2. t \in Seq(S) /\ Len(t) = 3 /\ \A j \in 1..3 : t[j] = s[j]
    BY <1>1
  <1> HIDE DEF t
  <1>3. s = t
    BY <1>2, SeqEqual
  <1> QED BY <1>3 DEF t

(* A sequence of four values, written out. *)
LEMMA SeqOfFour ==
  ASSUME NEW S, NEW s \in Seq(S), Len(s) = 4
  PROVE  s = <<s[1], s[2], s[3], s[4]>>
  <1> DEFINE t == <<s[1], s[2], s[3], s[4]>>
  <1>1. \A j \in 1..4 : s[j] \in S
    BY ElementOfSeq
  <1>2. t \in Seq(S) /\ Len(t) = 4 /\ \A j \in 1..4 : t[j] = s[j]
    BY <1>1
  <1> HIDE DEF t
  <1>3. s = t
    BY <1>2, SeqEqual
  <1> QED BY <1>3 DEF t

(* A sequence of six values, written out. *)
LEMMA SeqOfSix ==
  ASSUME NEW S, NEW s \in Seq(S), Len(s) = 6
  PROVE  s = <<s[1], s[2], s[3], s[4], s[5], s[6]>>
  <1> DEFINE t == <<s[1], s[2], s[3], s[4], s[5], s[6]>>
  <1>1. \A j \in 1..6 : s[j] \in S
    BY ElementOfSeq
  <1>2. t \in Seq(S) /\ Len(t) = 6 /\ \A j \in 1..6 : t[j] = s[j]
    BY <1>1
  <1> HIDE DEF t
  <1>3. s = t
    BY <1>2, SeqEqual
  <1> QED BY <1>3 DEF t

(* A sequence of seven values, written out. *)
LEMMA SeqOfSeven ==
  ASSUME NEW S, NEW s \in Seq(S), Len(s) = 7
  PROVE  s = <<s[1], s[2], s[3], s[4], s[5], s[6], s[7]>>
  <1> DEFINE t == <<s[1], s[2], s[3], s[4], s[5], s[6], s[7]>>
  <1>1. \A j \in 1..7 : s[j] \in S
    BY ElementOfSeq
  <1>2. t \in Seq(S) /\ Len(t) = 7 /\ \A j \in 1..7 : t[j] = s[j]
    BY <1>1
  <1> HIDE DEF t
  <1>3. s = t
    BY <1>2, SeqEqual
  <1> QED BY <1>3 DEF t

(* Registers as items of the list, and as a part of it. *)
LEMMA ItemsFrom ==
  ASSUME RowOK, NEW m \in Nat \ {0}, NEW n \in Nat, m <= n, n <= depth,
         NEW l \in Nat, l = n - m + 1
  PROVE  /\ SubSeq(Items, m, n) \in Seq(Elements)
         /\ Len(SubSeq(Items, m, n)) = l
         /\ \A j \in 1..l : SubSeq(Items, m, n)[j] = regs[m + j - 2]
  <1>1. depth \in Nat /\ \A j \in 1..depth : Items[j] = regs[j - 1] /\ Items[j] \in Elements
    BY ItemsList
  <1>2. \A j \in m..n : Items[j] \in Elements
    BY <1>1
  <1>3. /\ SubSeq(Items, m, n) \in Seq(Elements)
        /\ Len(SubSeq(Items, m, n)) = n - m + 1
        /\ \A j \in 1..(n - m + 1) : SubSeq(Items, m, n)[j] = Items[m + j - 1]
    BY <1>2, SubSeqProperties
  <1>4. \A j \in 1..(n - m + 1) : m + j - 1 \in 1..depth /\ (m + j - 1) - 1 = m + j - 2
    BY <1>1
  <1> QED BY <1>1, <1>3, <1>4

(* the parts of the list that operations move *)
LEMMA PartsOfList ==
  ASSUME RowOK
  PROVE  /\ depth >= 1 => SubSeq(Items, 1, 1) = <<regs[0]>>
         /\ depth >= 2 => SubSeq(Items, 1, 2) = <<regs[0], regs[1]>>
         /\ depth >= 3 => SubSeq(Items, 1, 3) = <<regs[0], regs[1], regs[2]>>
         /\ depth >= 4 => SubSeq(Items, 1, 4) = <<regs[0], regs[1], regs[2], regs[3]>>
         /\ depth >= 6 => SubSeq(Items, 1, 6) = <<regs[0], regs[1], regs[2], regs[3], regs[4], regs[5]>>
         /\ depth >= 7 => SubSeq(Items, 1, 7) = <<regs[0], regs[1], regs[2], regs[3], regs[4], regs[5], regs[6]>>
         /\ depth >= 4 => SubSeq(Items, 3, 4) = <<regs[2], regs[3]>>
         /\ depth >= 8 => SubSeq(Items, 5, 8) = <<regs[4], regs[5], regs[6], regs[7]>>
  <1>1. ASSUME depth >= 1 PROVE SubSeq(Items, 1, 1) = <<regs[0]>>
    <2> DEFINE part == SubSeq(Items, 1, 1)
    <2>1. part \in Seq(Elements) /\ Len(part) = 1 /\ \A j \in 1..1 : part[j] = regs[1 + j - 2]
      <3>1. 1 \in Nat \ {0} /\ 1 \in Nat /\ 1 \in Nat /\ 1 <= 1 /\ 1 = 1 - 1 + 1
        OBVIOUS
      <3> QED BY <1>1, <3>1, ItemsFrom
    <2>2. part[1] = regs[0]
      BY <2>1
    <2> HIDE DEF part
    <2>3. part = <<part[1]>>
      BY <2>1, SeqOfOne
    <2>4. part = <<regs[0]>>
      BY <2>2, <2>3
    <2> QED BY <2>4 DEF part
  <1>2. ASSUME depth >= 2 PROVE SubSeq(Items, 1, 2) = <<regs[0], regs[1]>>
    <2> DEFINE part == SubSeq(Items, 1, 2)
    <2>1. part \in Seq(Elements) /\ Len(part) = 2 /\ \A j \in 1..2 : part[j] = regs[1 + j - 2]
      <3>1. 1 \in Nat \ {0} /\ 2 \in Nat /\ 2 \in Nat /\ 1 <= 2 /\ 2 = 2 - 1 + 1
        OBVIOUS
      <3> QED BY <1>2, <3>1, ItemsFrom
    <2>2. part[1] = regs[0] /\ part[2] = regs[1]
      BY <2>1
    <2> HIDE DEF part
    <2>3. part = <<part[1], part[2]>>
      BY <2>1, SeqOfTwo
    <2>4. part = <<regs[0], regs[1]>>
      BY <2>2, <2>3
    <2> QED BY <2>4 DEF part
  <1>3. ASSUME depth >= 3 PROVE SubSeq(Items, 1, 3) = <<regs[0], regs[1], regs[2]>>
    <2> DEFINE part == SubSeq(Items, 1, 3)
    <2>1. part \in Seq(Elements) /\ Len(part) = 3 /\ \A j \in 1..3 : part[j] = regs[1 + j - 2]
      <3>1. 1 \in Nat \ {0} /\ 3 \in Nat /\ 3 \in Nat /\ 1 <= 3 /\ 3 = 3 - 1 + 1
        OBVIOUS
      <3> QED BY <1>3, <3>1, ItemsFrom
    <2>2. part[1] = regs[0] /\ part[2] = regs[1] /\ part[3] = regs[2]
      BY <2>1
    <2> HIDE DEF part
    <2>3. part = <<part[1], part[2], part[3]>>
      BY <2>1, SeqOfThree
    <2>4. part = <<regs[0], regs[1], regs[2]>>
      BY <2>2, <2>3
    <2> QED BY <2>4 DEF part
  <1>4. ASSUME depth >= 4 PROVE SubSeq(Items, 1, 4) = <<regs[0], regs[1], regs[2], regs[3]>>
    <2> DEFINE part == SubSeq(Items, 1, 4)
    <2>1. part \in Seq(Elements) /\ Len(part) = 4 /\ \A j \in 1..4 : part[j] = regs[1 + j - 2]
      <3>1. 1 \in Nat \ {0} /\ 4 \in Nat /\ 4 \in Nat /\ 1 <= 4 /\ 4 = 4 - 1 + 1
        OBVIOUS
      <3> QED BY <1>4, <3>1, ItemsFrom
    <2>2. part[1] = regs[0] /\ part[2] = regs[1] /\ part[3] = regs[2] /\ part[4] = regs[3]
      BY <2>1
    <2> HIDE DEF part
    <2>3. part = <<part[1], part[2], part[3], part[4]>>
      BY <2>1, SeqOfFour
    <2>4. part = <<regs[0], regs[1], regs[2], regs[3]>>
      BY <2>2, <2>3
    <2> QED BY <2>4 DEF part
  <1>5. ASSUME depth >= 6 PROVE SubSeq(Items, 1, 6) = <<regs[0], regs[1], regs[2], regs[3], regs[4], regs[5]>>
    <2> DEFINE part == SubSeq(Items, 1, 6)
    <2>1. part \in Seq(Elements) /\ Len(part) = 6 /\ \A j \in 1..6 : part[j] = regs[1 + j - 2]
      <3>1. 1 \in Nat \ {0} /\ 6 \in Nat /\ 6 \in Nat /\ 1 <= 6 /\ 6 = 6 - 1 + 1
        OBVIOUS
      <3> QED BY <1>5, <3>1, ItemsFrom
    <2>2. part[1] = regs[0] /\ part[2] = regs[1] /\ part[3] = regs[2] /\ part[4] = regs[3] /\ part[5] = regs[4] /\ part[6] = regs[5]
      BY <2>1
    <2> HIDE DEF part
    <2>3. part = <<part[1], part[2], part[3], part[4], part[5], part[6]>>
      BY <2>1, SeqOfSix
    <2>4. part = <<regs[0], regs[1], regs[2], regs[3], regs[4], regs[5]>>
      BY <2>2, <2>3
    <2> QED BY <2>4 DEF part
  <1>6. ASSUME depth >= 7 PROVE SubSeq(Items, 1, 7) = <<regs[0], regs[1], regs[2], regs[3], regs[4], regs[5], regs[6]>>
    <2> DEFINE part == SubSeq(Items, 1, 7)
    <2>1. part \in Seq(Elements) /\ Len(part) = 7 /\ \A j \in 1..7 : part[j] = regs[1 + j - 2]
      <3>1. 1 \in Nat \ {0} /\ 7 \in Nat /\ 7 \in Nat /\ 1 <= 7 /\ 7 = 7 - 1 + 1
        OBVIOUS
      <3> QED BY <1>6, <3>1, ItemsFrom
    <2>2. part[1] = regs[0] /\ part[2] = regs[1] /\ part[3] = regs[2] /\ part[4] = regs[3] /\ part[5] = regs[4] /\ part[6] = regs[5] /\ part[7] = regs[6]
      BY <2>1
    <2> HIDE DEF part
    <2>3. part = <<part[1], part[2], part[3], part[4], part[5], part[6], part[7]>>
      BY <2>1, SeqOfSeven
    <2>4. part = <<regs[0], regs[1], regs[2], regs[3], regs[4], regs[5], regs[6]>>
      BY <2>2, <2>3
    <2> QED BY <2>4 DEF part
  <1>7. ASSUME depth >= 4 PROVE SubSeq(Items, 3, 4) = <<regs[2], regs[3]>>
    <2> DEFINE part == SubSeq(Items, 3, 4)
    <2>1. part \in Seq(Elements) /\ Len(part) = 2 /\ \A j \in 1..2 : part[j] = regs[3 + j - 2]
      <3>1. 3 \in Nat \ {0} /\ 4 \in Nat /\ 2 \in Nat /\ 3 <= 4 /\ 2 = 4 - 3 + 1
        OBVIOUS
      <3> QED BY <1>7, <3>1, ItemsFrom
    <2>2. part[1] = regs[2] /\ part[2] = regs[3]
      BY <2>1
    <2> HIDE DEF part
    <2>3. part = <<part[1], part[2]>>
      BY <2>1, SeqOfTwo
    <2>4. part = <<regs[2], regs[3]>>
      BY <2>2, <2>3
    <2> QED BY <2>4 DEF part
  <1>8. ASSUME depth >= 8 PROVE SubSeq(Items, 5, 8) = <<regs[4], regs[5], regs[6], regs[7]>>
    <2> DEFINE part == SubSeq(Items, 5, 8)
    <2>1. part \in Seq(Elements) /\ Len(part) = 4 /\ \A j \in 1..4 : part[j] = regs[5 + j - 2]
      <3>1. 5 \in Nat \ {0} /\ 8 \in Nat /\ 4 \in Nat /\ 5 <= 8 /\ 4 = 8 - 5 + 1
        OBVIOUS
      <3> QED BY <1>8, <3>1, ItemsFrom
    <2>2. part[1] = regs[4] /\ part[2] = regs[5] /\ part[3] = regs[6] /\ part[4] = regs[7]
      BY <2>1
    <2> HIDE DEF part
    <2>3. part = <<part[1], part[2], part[3], part[4]>>
      BY <2>1, SeqOfFour
    <2>4. part = <<regs[4], regs[5], regs[6], regs[7]>>
      BY <2>2, <2>3
    <2> QED BY <2>4 DEF part
  <1> QED BY <1>1, <1>2, <1>3, <1>4, <1>5, <1>6, <1>7, <1>8

(* Short sequences put together. *)
LEMMA TwoAndTwo ==
  ASSUME NEW S, NEW s \in Seq(S), NEW t \in Seq(S), Len(s) = 2, Len(t) = 2
  PROVE  s \o t = <<s[1], s[2], t[1], t[2]>>
  <1> DEFINE u == <<s[1], s[2], t[1], t[2]>>
  <1>1. (\A j \in 1..2 : s[j] \in S) /\ (\A j \in 1..2 : t[j] \in S)
    BY ElementOfSeq
  <1>2. u \in Seq(S) /\ Len(u) = 4
    BY <1>1
  <1>3. \A j \in 1..4 : u[j] = IF j <= 2 THEN s[j] ELSE t[j - 2]
    OBVIOUS
  <1> HIDE DEF u
  <1>4. /\ Len(u) = Len(s) + Len(t)
        /\ \A j \in 1..Len(u) : u[j] = IF j <= Len(s) THEN s[j] ELSE t[j - Len(s)]
    BY <1>2, <1>3
  <1>5. u = s \o t
    BY <1>2, <1>4, BuiltList
  <1> QED BY <1>5 DEF u

(* The same for four values and four others. *)
LEMMA FourAndFour ==
  ASSUME NEW S, NEW s \in Seq(S), NEW t \in Seq(S), Len(s) = 4, Len(t) = 4
  PROVE  s \o t = <<s[1], s[2], s[3], s[4], t[1], t[2], t[3], t[4]>>
  <1> DEFINE u == <<s[1], s[2], s[3], s[4], t[1], t[2], t[3], t[4]>>
  <1>1. (\A j \in 1..4 : s[j] \in S) /\ (\A j \in 1..4 : t[j] \in S)
    BY ElementOfSeq
  <1>2. u \in Seq(S) /\ Len(u) = 8
    BY <1>1
  <1>3. \A j \in 1..8 : u[j] = IF j <= 4 THEN s[j] ELSE t[j - 4]
    OBVIOUS
  <1> HIDE DEF u
  <1>4. /\ Len(u) = Len(s) + Len(t)
        /\ \A j \in 1..Len(u) : u[j] = IF j <= Len(s) THEN s[j] ELSE t[j - Len(s)]
    BY <1>2, <1>3
  <1>5. u = s \o t
    BY <1>2, <1>4, BuiltList
  <1> QED BY <1>5 DEF u

(* The same for a value and the three it is put on. *)
LEMMA OneAndThree ==
  ASSUME NEW S, NEW s \in Seq(S), NEW t \in Seq(S), Len(s) = 1, Len(t) = 3
  PROVE  s \o t = <<s[1], t[1], t[2], t[3]>>
  <1> DEFINE u == <<s[1], t[1], t[2], t[3]>>
  <1>1. (\A j \in 1..1 : s[j] \in S) /\ (\A j \in 1..3 : t[j] \in S)
    BY ElementOfSeq
  <1>2. u \in Seq(S) /\ Len(u) = 4
    BY <1>1
  <1>3. \A j \in 1..4 : u[j] = IF j <= 1 THEN s[j] ELSE t[j - 1]
    OBVIOUS
  <1> HIDE DEF u
  <1>4. /\ Len(u) = Len(s) + Len(t)
        /\ \A j \in 1..Len(u) : u[j] = IF j <= Len(s) THEN s[j] ELSE t[j - Len(s)]
    BY <1>2, <1>3
  <1>5. u = s \o t
    BY <1>2, <1>4, BuiltList
  <1> QED BY <1>5 DEF u

(* The same for a value and the seven it is put on. *)
LEMMA OneAndSeven ==
  ASSUME NEW S, NEW s \in Seq(S), NEW t \in Seq(S), Len(s) = 1, Len(t) = 7
  PROVE  s \o t = <<s[1], t[1], t[2], t[3], t[4], t[5], t[6], t[7]>>
  <1> DEFINE u == <<s[1], t[1], t[2], t[3], t[4], t[5], t[6], t[7]>>
  <1>1. (\A j \in 1..1 : s[j] \in S) /\ (\A j \in 1..7 : t[j] \in S)
    BY ElementOfSeq
  <1>2. u \in Seq(S) /\ Len(u) = 8
    BY <1>1
  <1>3. \A j \in 1..8 : u[j] = IF j <= 1 THEN s[j] ELSE t[j - 1]
    OBVIOUS
  <1> HIDE DEF u
  <1>4. /\ Len(u) = Len(s) + Len(t)
        /\ \A j \in 1..Len(u) : u[j] = IF j <= Len(s) THEN s[j] ELSE t[j - Len(s)]
    BY <1>2, <1>3
  <1>5. u = s \o t
    BY <1>2, <1>4, BuiltList
  <1> QED BY <1>5 DEF u

-----------------------------------------------------------------------------
(* The operations, one group at a time: the list afterwards is the result. *)

(* operations that permute the top of the stack *)
LEMMA PermutingResults ==
  ASSUME RowOK, TapesOK, stackStep \in Nat, NEW op, NEW hint, WellFormed(hint),
         StackFault(op, hint) = "none", Perform(op, hint),
         op \in {"swap", "swap2", "swap4", "roll4", "roll8"}
  PROVE  Items' = List!Result(op, hint, stackStep % RescueCycle)
  <1> DEFINE pos == stackStep % RescueCycle
  <1> HIDE DEF pos
  <1>1. /\ depth \in Nat /\ Needed(op, hint) \in Nat /\ depth >= Needed(op, hint)
        /\ Items \in Seq(Elements) /\ Len(Items) = depth
        /\ \A j \in 1..depth : Items[j] = regs[j - 1] /\ regs[j - 1] \in Elements
    BY NoFault, ItemsList DEF Needed
  <1>2. CASE op = "swap"
    <2>1. depth \in Nat /\ depth >= 2
      BY <1>1, <1>2 DEF Needed
    <2>2. /\ Items[1] = regs[0] /\ Items[2] = regs[1]
          /\ regs[0] \in Elements /\ regs[1] \in Elements
      BY <1>1, <2>1
    <2> DEFINE top == <<regs[1], regs[0]>>
    <2>3. top \in Seq(Elements) /\ Len(top) = 2
      BY <2>2
    <2>4. CopyState(top)
      BY <1>2 DEF Perform, OpSwap
    <2>5. List!Result(op, hint, pos) = top \o SubSeq(Items, 2 + 1, Len(Items))
      BY <1>2, <2>2 DEF List!Result, List!Rest
    <2> HIDE DEF top
    <2>6. Items' = top \o SubSeq(Items, 2 + 1, Len(Items))
      BY <1>1, <2>1, <2>3, <2>4, CopyStateList
    <2> QED BY <2>5, <2>6 DEF pos
  <1>3. CASE op = "swap2"
    <2>1. depth \in Nat /\ depth >= 4
      BY <1>1, <1>3 DEF Needed
    <2>2. /\ Items[1] = regs[0] /\ Items[2] = regs[1] /\ Items[3] = regs[2] /\ Items[4] = regs[3]
          /\ regs[0] \in Elements /\ regs[1] \in Elements /\ regs[2] \in Elements /\ regs[3] \in Elements
      BY <1>1, <2>1
    <2> DEFINE top == <<regs[2], regs[3], regs[0], regs[1]>>
    <2>3. top \in Seq(Elements) /\ Len(top) = 4
      BY <2>2
    <2>4. CopyState(top)
      BY <1>3 DEF Perform, OpSwap2
    <2> DEFINE s == SubSeq(Items, 3, 4)
    <2> DEFINE t == SubSeq(Items, 1, 2)
    <2>5. List!Result(op, hint, pos) = top \o SubSeq(Items, 4 + 1, Len(Items))
      <3>1. SubSeq(Items, 3, 4) = <<regs[2], regs[3]>> /\ SubSeq(Items, 1, 2) = <<regs[0], regs[1]>>
        BY <2>1, PartsOfList
      <3>2. /\ s \in Seq(Elements) /\ Len(s) = 2
            /\ s[1] = regs[2] /\ s[2] = regs[3]
        /\ t \in Seq(Elements) /\ Len(t) = 2
            /\ t[1] = regs[0] /\ t[2] = regs[1]
        BY <2>2, <3>1
      <3>3. List!Result(op, hint, pos) = s \o t \o SubSeq(Items, 4 + 1, Len(Items))
        BY <1>3 DEF List!Result, List!Rest
      <3> HIDE DEF s, t
      <3>4. s \o t = <<s[1], s[2], t[1], t[2]>>
        BY <3>2, TwoAndTwo
      <3>5. s \o t = top
        BY <3>2, <3>4
      <3> QED BY <3>3, <3>5
    <2> HIDE DEF top
    <2>6. Items' = top \o SubSeq(Items, 4 + 1, Len(Items))
      BY <1>1, <2>1, <2>3, <2>4, CopyStateList
    <2> QED BY <2>5, <2>6 DEF pos
  <1>4. CASE op = "swap4"
    <2>1. depth \in Nat /\ depth >= 8
      BY <1>1, <1>4 DEF Needed
    <2>2. /\ Items[1] = regs[0] /\ Items[2] = regs[1] /\ Items[3] = regs[2] /\ Items[4] = regs[3] /\ Items[5] = regs[4] /\ Items[6] = regs[5] /\ Items[7] = regs[6] /\ Items[8] = regs[7]
          /\ regs[0] \in Elements /\ regs[1] \in Elements /\ regs[2] \in Elements /\ regs[3] \in Elements /\ regs[4] \in Elements /\ regs[5] \in Elements /\ regs[6] \in Elements /\ regs[7] \in Elements
      BY <1>1, <2>1
    <2> DEFINE top == <<regs[4], regs[5], regs[6], regs[7], regs[0], regs[1], regs[2], regs[3]>>
    <2>3. top \in Seq(Elements) /\ Len(top) = 8
      BY <2>2
    <2>4. CopyState(top)
      BY <1>4 DEF Perform, OpSwap4
    <2> DEFINE s == SubSeq(Items, 5, 8)
    <2> DEFINE t == SubSeq(Items, 1, 4)
    <2>5. List!Result(op, hint, pos) = top \o SubSeq(Items, 8 + 1, Len(Items))
      <3>1. SubSeq(Items, 5, 8) = <<regs[4], regs[5], regs[6], regs[7]>> /\ SubSeq(Items, 1, 4) = <<regs[0], regs[1], regs[2], regs[3]>>
        BY <2>1, PartsOfList
      <3>2. /\ s \in Seq(Elements) /\ Len(s) = 4
            /\ s[1] = regs[4] /\ s[2] = regs[5] /\ s[3] = regs[6] /\ s[4] = regs[7]
        /\ t \in Seq(Elements) /\ Len(t) = 4
            /\ t[1] = regs[0] /\ t[2] = regs[1] /\ t[3] = regs[2] /\ t[4] = regs[3]
        BY <2>2, <3>1
      <3>3. List!Result(op, hint, pos) = s \o t \o SubSeq(Items, 8 + 1, Len(Items))
        BY <1>4 DEF List!Result, List!Rest
      <3> HIDE DEF s, t
      <3>4. s \o t = <<s[1], s[2], s[3], s[4], t[1], t[2], t[3], t[4]>>
        BY <3>2, FourAndFour
      <3>5. s \o t = top
        BY <3>2, <3>4
      <3> QED BY <3>3, <3>5
    <2> HIDE DEF top
    <2>6. Items' = top \o SubSeq(Items, 8 + 1, Len(Items))
      BY <1>1, <2>1, <2>3, <2>4, CopyStateList
    <2> QED BY <2>5, <2>6 DEF pos
  <1>5. CASE op = "roll4"
    <2>1. depth \in Nat /\ depth >= 4
      BY <1>1, <1>5 DEF Needed
    <2>2. /\ Items[1] = regs[0] /\ Items[2] = regs[1] /\ Items[3] = regs[2] /\ Items[4] = regs[3]
          /\ regs[0] \in Elements /\ regs[1] \in Elements /\ regs[2] \in Elements /\ regs[3] \in Elements
      BY <1>1, <2>1
    <2> DEFINE top == <<regs[3], regs[0], regs[1], regs[2]>>
    <2>3. top \in Seq(Elements) /\ Len(top) = 4
      BY <2>2
    <2>4. CopyState(top)
      BY <1>5 DEF Perform, OpRoll4
    <2> DEFINE s == <<Items[4]>>
    <2> DEFINE t == SubSeq(Items, 1, 3)
    <2>5. List!Result(op, hint, pos) = top \o SubSeq(Items, 4 + 1, Len(Items))
      <3>1. SubSeq(Items, 1, 3) = <<regs[0], regs[1], regs[2]>>
        BY <2>1, PartsOfList
      <3>2. /\ s \in Seq(Elements) /\ Len(s) = 1
            /\ s[1] = regs[3]
        /\ t \in Seq(Elements) /\ Len(t) = 3
            /\ t[1] = regs[0] /\ t[2] = regs[1] /\ t[3] = regs[2]
        BY <2>2, <3>1
      <3>3. List!Result(op, hint, pos) = s \o t \o SubSeq(Items, 4 + 1, Len(Items))
        BY <1>5 DEF List!Result, List!Rest
      <3> HIDE DEF s, t
      <3>4. s \o t = <<s[1], t[1], t[2], t[3]>>
        BY <3>2, OneAndThree
      <3>5. s \o t = top
        BY <3>2, <3>4
      <3> QED BY <3>3, <3>5
    <2> HIDE DEF top
    <2>6. Items' = top \o SubSeq(Items, 4 + 1, Len(Items))
      BY <1>1, <2>1, <2>3, <2>4, CopyStateList
    <2> QED BY <2>5, <2>6 DEF pos
  <1>6. CASE op = "roll8"
    <2>1. depth \in Nat /\ depth >= 8
      BY <1>1, <1>6 DEF Needed
    <2>2. /\ Items[1] = regs[0] /\ Items[2] = regs[1] /\ Items[3] = regs[2] /\ Items[4] = regs[3] /\ Items[5] = regs[4] /\ Items[6] = regs[5] /\ Items[7] = regs[6] /\ Items[8] = regs[7]
          /\ regs[0] \in Elements /\ regs[1] \in Elements /\ regs[2] \in Elements /\ regs[3] \in Elements /\ regs[4] \in Elements /\ regs[5] \in Elements /\ regs[6] \in Elements /\ regs[7] \in Elements
      BY <1>1, <2>1
    <2> DEFINE top == <<regs[7], regs[0], regs[1], regs[2], regs[3], regs[4], regs[5], regs[6]>>
    <2>3. top \in Seq(Elements) /\ Len(top) = 8
      BY <2>2
    <2>4. CopyState(top)
      BY <1>6 DEF Perform, OpRoll8
    <2> DEFINE s == <<Items[8]>>
    <2> DEFINE t == SubSeq(Items, 1, 7)
    <2>5. List!Result(op, hint, pos) = top \o SubSeq(Items, 8 + 1, Len(Items))
      <3>1. SubSeq(Items, 1, 7) = <<regs[0], regs[1], regs[2], regs[3], regs[4], regs[5], regs[6]>>
        BY <2>1, PartsOfList
      <3>2. /\ s \in Seq(Elements) /\ Len(s) = 1
            /\ s[1] = regs[7]
        /\ t \in Seq(Elements) /\ Len(t) = 7
            /\ t[1] = regs[0] /\ t[2] = regs[1] /\ t[3] = regs[2] /\ t[4] = regs[3] /\ t[5] = regs[4] /\ t[6] = regs[5] /\ t[7] = regs[6]
        BY <2>2, <3>1
      <3>3. List!Result(op, hint, pos) = s \o t \o SubSeq(Items, 8 + 1, Len(Items))
        BY <1>6 DEF List!Result, List!Rest
      <3> HIDE DEF s, t
      <3>4. s \o t = <<s[1], t[1], t[2], t[3], t[4], t[5], t[6], t[7]>>
        BY <3>2, OneAndSeven
      <3>5. s \o t = top
        BY <3>2, <3>4
      <3> QED BY <3>3, <3>5
    <2> HIDE DEF top
    <2>6. Items' = top \o SubSeq(Items, 8 + 1, Len(Items))
      BY <1>1, <2>1, <2>3, <2>4, CopyStateList
    <2> QED BY <2>5, <2>6 DEF pos
  <1> QED BY <1>2, <1>3, <1>4, <1>5, <1>6 DEF pos

(* operations that drop items, or do nothing *)
LEMMA DroppingResults ==
  ASSUME RowOK, TapesOK, stackStep \in Nat, NEW op, NEW hint, WellFormed(hint),
         StackFault(op, hint) = "none", Perform(op, hint),
         op \in {"begin", "noop", "assert", "asserteq", "drop", "drop4"}
  PROVE  Items' = List!Result(op, hint, stackStep % RescueCycle)
  <1> DEFINE pos == stackStep % RescueCycle
  <1> HIDE DEF pos
  <1>1. /\ depth \in Nat /\ Needed(op, hint) \in Nat /\ depth >= Needed(op, hint)
        /\ Items \in Seq(Elements) /\ Len(Items) = depth
        /\ \A j \in 1..depth : Items[j] = regs[j - 1] /\ regs[j - 1] \in Elements
    BY NoFault, ItemsList DEF Needed
  <1>2. CASE op \in {"begin", "noop"}
    <2>1. CopyState(<< >>)
      BY <1>2 DEF Perform, OpNoop
    <2>2. << >> \in Seq(Elements) /\ Len(<< >>) = 0 /\ Len(<< >>) <= depth
      BY <1>1, EmptySeq
    <2>3. Items' = << >> \o SubSeq(Items, 0 + 1, Len(Items))
      <3> DEFINE top == << >>
      <3>1. top \in Seq(Elements) /\ Len(top) = 0 /\ Len(top) <= depth /\ CopyState(top)
        BY <2>1, <2>2
      <3> HIDE DEF top
      <3>2. Items' = top \o SubSeq(Items, 0 + 1, Len(Items))
        BY <3>1, CopyStateList
      <3> QED BY <3>2 DEF top
    <2>4. SubSeq(Items, 0 + 1, Len(Items)) = Items
      BY <1>1, SubSeqFull
    <2>5. List!Result(op, hint, pos) = Items
      BY <1>2 DEF List!Result
    <2> QED BY <1>1, <2>3, <2>4, <2>5, ConcatEmptySeq DEF pos
  <1>3. CASE op = "assert"
    <2>1. depth >= 1 /\ 1 \in Nat /\ 1 = 0 + 1
      BY <1>1, <1>3 DEF Needed
    <2>2. << >> \in Seq(Elements) /\ Len(<< >>) = 0
      BY EmptySeq
    <2>3. ShiftLeft(<< >>, 1, 1)
      BY <1>3 DEF Perform, OpAssert
    <2>4. Items' = << >> \o SubSeq(Items, 1 + 1, Len(Items))
      BY <1>1, <2>1, <2>2, <2>3, ShiftLeftList
    <2>5. SubSeq(Items, 1 + 1, Len(Items)) \in Seq(Elements)
      BY <1>1, <2>1, RestOfList
    <2>6. List!Result(op, hint, pos) = SubSeq(Items, 1 + 1, Len(Items))
      BY <1>3 DEF List!Result, List!Rest
    <2> QED BY <2>4, <2>5, <2>6, ConcatEmptySeq DEF pos
  <1>4. CASE op = "asserteq"
    <2>1. depth >= 2 /\ 2 \in Nat /\ 2 = 0 + 2
      BY <1>1, <1>4 DEF Needed
    <2>2. << >> \in Seq(Elements) /\ Len(<< >>) = 0
      BY EmptySeq
    <2>3. ShiftLeft(<< >>, 2, 2)
      BY <1>4 DEF Perform, OpAssertEq
    <2>4. Items' = << >> \o SubSeq(Items, 2 + 1, Len(Items))
      BY <1>1, <2>1, <2>2, <2>3, ShiftLeftList
    <2>5. SubSeq(Items, 2 + 1, Len(Items)) \in Seq(Elements)
      BY <1>1, <2>1, RestOfList
    <2>6. List!Result(op, hint, pos) = SubSeq(Items, 2 + 1, Len(Items))
      BY <1>4 DEF List!Result, List!Rest
    <2> QED BY <2>4, <2>5, <2>6, ConcatEmptySeq DEF pos
  <1>5. CASE op = "drop"
    <2>1. depth >= 1 /\ 1 \in Nat /\ 1 = 0 + 1
      BY <1>1, <1>5 DEF Needed
    <2>2. << >> \in Seq(Elements) /\ Len(<< >>) = 0
      BY EmptySeq
    <2>3. ShiftLeft(<< >>, 1, 1)
      BY <1>5 DEF Perform, OpDrop
    <2>4. Items' = << >> \o SubSeq(Items, 1 + 1, Len(Items))
      BY <1>1, <2>1, <2>2, <2>3, ShiftLeftList
    <2>5. SubSeq(Items, 1 + 1, Len(Items)) \in Seq(Elements)
      BY <1>1, <2>1, RestOfList
    <2>6. List!Result(op, hint, pos) = SubSeq(Items, 1 + 1, Len(Items))
      BY <1>5 DEF List!Result, List!Rest
    <2> QED BY <2>4, <2>5, <2>6, ConcatEmptySeq DEF pos
  <1>6. CASE op = "drop4"
    <2>1. depth >= 4 /\ 4 \in Nat /\ 4 = 0 + 4
      BY <1>1, <1>6 DEF Needed
    <2>2. << >> \in Seq(Elements) /\ Len(<< >>) = 0
      BY EmptySeq
    <2>3. ShiftLeft(<< >>, 4, 4)
      BY <1>6 DEF Perform, OpDrop4
    <2>4. Items' = << >> \o SubSeq(Items, 4 + 1, Len(Items))
      BY <1>1, <2>1, <2>2, <2>3, ShiftLeftList
    <2>5. SubSeq(Items, 4 + 1, Len(Items)) \in Seq(Elements)
      BY <1>1, <2>1, RestOfList
    <2>6. List!Result(op, hint, pos) = SubSeq(Items, 4 + 1, Len(Items))
      BY <1>6 DEF List!Result, List!Rest
    <2> QED BY <2>4, <2>5, <2>6, ConcatEmptySeq DEF pos
  <1> QED BY <1>2, <1>3, <1>4, <1>5, <1>6 DEF pos

(* operations on the top item *)
LEMMA UnaryResults ==
  ASSUME RowOK, TapesOK, stackStep \in Nat, NEW op, NEW hint, WellFormed(hint),
         StackFault(op, hint) = "none", Perform(op, hint),
         op \in {"inv", "neg", "not"}
  PROVE  Items' = List!Result(op, hint, stackStep % RescueCycle)
  <1> DEFINE pos == stackStep % RescueCycle
  <1> HIDE DEF pos
  <1>1. /\ depth \in Nat /\ Needed(op, hint) \in Nat /\ depth >= Needed(op, hint)
        /\ Items \in Seq(Elements) /\ Len(Items) = depth
        /\ \A j \in 1..depth : Items[j] = regs[j - 1] /\ regs[j - 1] \in Elements
    BY NoFault, ItemsList DEF Needed
  <1>2. CASE op = "inv"
    <2>1. depth \in Nat /\ depth >= 1
      BY <1>1, <1>2 DEF Needed
    <2>2. /\ Items[1] = regs[0]
          /\ regs[0] \in Elements
      BY <1>1, <2>1
    <2> DEFINE top == <<Inv(regs[0])>>
    <2>3. top \in Seq(Elements) /\ Len(top) = 1
      BY <2>2, FieldClosed
    <2>4. CopyState(top)
      BY <1>2 DEF Perform, OpInv
    <2>5. List!Result(op, hint, pos) = top \o SubSeq(Items, 1 + 1, Len(Items))
      BY <1>2, <2>2, SameArithmetic DEF List!Result, List!Rest
    <2> HIDE DEF top
    <2>6. Items' = top \o SubSeq(Items, 1 + 1, Len(Items))
      BY <1>1, <2>1, <2>3, <2>4, CopyStateList
    <2> QED BY <2>5, <2>6 DEF pos
  <1>3. CASE op = "neg"
    <2>1. depth \in Nat /\ depth >= 1
      BY <1>1, <1>3 DEF Needed
    <2>2. /\ Items[1] = regs[0]
          /\ regs[0] \in Elements
      BY <1>1, <2>1
    <2> DEFINE top == <<Neg(regs[0])>>
    <2>3. top \in Seq(Elements) /\ Len(top) = 1
      BY <2>2, FieldClosed
    <2>4. CopyState(top)
      BY <1>3 DEF Perform, OpNeg
    <2>5. List!Result(op, hint, pos) = top \o SubSeq(Items, 1 + 1, Len(Items))
      BY <1>3, <2>2, SameArithmetic DEF List!Result, List!Rest
    <2> HIDE DEF top
    <2>6. Items' = top \o SubSeq(Items, 1 + 1, Len(Items))
      BY <1>1, <2>1, <2>3, <2>4, CopyStateList
    <2> QED BY <2>5, <2>6 DEF pos
  <1>4. CASE op = "not"
    <2>1. depth \in Nat /\ depth >= 1
      BY <1>1, <1>4 DEF Needed
    <2>2. /\ Items[1] = regs[0]
          /\ regs[0] \in Elements
      BY <1>1, <2>1
    <2> DEFINE top == <<Sub(1, regs[0])>>
    <2>0. Sub(1, regs[0]) \in Elements /\ Sub(1, regs[0]) = 1 - Items[1]
      <3>1. regs[0] \in {0, 1}
        BY <1>4, <2>2, AcceptedIsDefined, SameArithmetic DEF List!Defined, IsBinary
      <3> QED BY <2>2, <3>1, SmallElements, BitArithmetic
    <2>3. top \in Seq(Elements) /\ Len(top) = 1
      BY <2>0
    <2>4. CopyState(top)
      BY <1>4 DEF Perform, OpNot
    <2>5. List!Result(op, hint, pos) = top \o SubSeq(Items, 1 + 1, Len(Items))
      BY <1>4, <2>2, <2>0 DEF List!Result, List!Rest
    <2> HIDE DEF top
    <2>6. Items' = top \o SubSeq(Items, 1 + 1, Len(Items))
      BY <1>1, <2>1, <2>3, <2>4, CopyStateList
    <2> QED BY <2>5, <2>6 DEF pos
  <1> QED BY <1>2, <1>3, <1>4 DEF pos

(* operations that combine two items *)
LEMMA BinaryResults ==
  ASSUME RowOK, TapesOK, stackStep \in Nat, NEW op, NEW hint, WellFormed(hint),
         StackFault(op, hint) = "none", Perform(op, hint),
         op \in {"add", "mul", "and", "or", "eq"}
  PROVE  Items' = List!Result(op, hint, stackStep % RescueCycle)
  <1> DEFINE pos == stackStep % RescueCycle
  <1> HIDE DEF pos
  <1>1. /\ depth \in Nat /\ Needed(op, hint) \in Nat /\ depth >= Needed(op, hint)
        /\ Items \in Seq(Elements) /\ Len(Items) = depth
        /\ \A j \in 1..depth : Items[j] = regs[j - 1] /\ regs[j - 1] \in Elements
    BY NoFault, ItemsList DEF Needed
  <1>2. CASE op = "add"
    <2>1. depth \in Nat /\ depth >= 2
      BY <1>1, <1>2 DEF Needed
    <2>2. /\ Items[1] = regs[0] /\ Items[2] = regs[1]
          /\ regs[0] \in Elements /\ regs[1] \in Elements
      BY <1>1, <2>1
    <2> DEFINE top == <<Add(regs[0], regs[1])>>
    <2>3. top \in Seq(Elements) /\ Len(top) = 1
      BY <2>2, FieldClosed
    <2>4. ShiftLeft(top, 2, 1)
      BY <1>2 DEF Perform, OpAdd
    <2>5. List!Result(op, hint, pos) = top \o SubSeq(Items, 2 + 1, Len(Items))
      BY <1>2, <2>2, SameArithmetic DEF List!Result, List!Rest
    <2> HIDE DEF top
    <2>6. 2 \in Nat /\ 1 \in Nat /\ 2 = 1 + 1
      OBVIOUS
    <2>7. Items' = top \o SubSeq(Items, 2 + 1, Len(Items))
      BY <1>1, <2>1, <2>3, <2>4, <2>6, ShiftLeftList
    <2> QED BY <2>5, <2>7 DEF pos
  <1>3. CASE op = "mul"
    <2>1. depth \in Nat /\ depth >= 2
      BY <1>1, <1>3 DEF Needed
    <2>2. /\ Items[1] = regs[0] /\ Items[2] = regs[1]
          /\ regs[0] \in Elements /\ regs[1] \in Elements
      BY <1>1, <2>1
    <2> DEFINE top == <<Mul(regs[0], regs[1])>>
    <2>3. top \in Seq(Elements) /\ Len(top) = 1
      BY <2>2, FieldClosed
    <2>4. ShiftLeft(top, 2, 1)
      BY <1>3 DEF Perform, OpMul
    <2>5. List!Result(op, hint, pos) = top \o SubSeq(Items, 2 + 1, Len(Items))
      BY <1>3, <2>2, SameArithmetic DEF List!Result, List!Rest
    <2> HIDE DEF top
    <2>6. 2 \in Nat /\ 1 \in Nat /\ 2 = 1 + 1
      OBVIOUS
    <2>7. Items' = top \o SubSeq(Items, 2 + 1, Len(Items))
      BY <1>1, <2>1, <2>3, <2>4, <2>6, ShiftLeftList
    <2> QED BY <2>5, <2>7 DEF pos
  <1>4. CASE op = "and"
    <2>1. depth \in Nat /\ depth >= 2
      BY <1>1, <1>4 DEF Needed
    <2>2. /\ Items[1] = regs[0] /\ Items[2] = regs[1]
          /\ regs[0] \in Elements /\ regs[1] \in Elements
      BY <1>1, <2>1
    <2> DEFINE top == <<IF regs[0] = 1 /\ regs[1] = 1 THEN 1 ELSE 0>>
    <2>0. (IF regs[0] = 1 /\ regs[1] = 1 THEN 1 ELSE 0) = Items[1] * Items[2]
      <3>1. regs[0] \in {0, 1} /\ regs[1] \in {0, 1}
        BY <1>4, <2>2, AcceptedIsDefined, SameArithmetic DEF List!Defined, IsBinary
      <3> QED BY <2>2, <3>1
    <2>3. top \in Seq(Elements) /\ Len(top) = 1
      BY SmallElements
    <2>4. ShiftLeft(top, 2, 1)
      BY <1>4 DEF Perform, OpAnd
    <2>5. List!Result(op, hint, pos) = top \o SubSeq(Items, 2 + 1, Len(Items))
      BY <1>4, <2>2, <2>0 DEF List!Result, List!Rest
    <2> HIDE DEF top
    <2>6. 2 \in Nat /\ 1 \in Nat /\ 2 = 1 + 1
      OBVIOUS
    <2>7. Items' = top \o SubSeq(Items, 2 + 1, Len(Items))
      BY <1>1, <2>1, <2>3, <2>4, <2>6, ShiftLeftList
    <2> QED BY <2>5, <2>7 DEF pos
  <1>5. CASE op = "or"
    <2>1. depth \in Nat /\ depth >= 2
      BY <1>1, <1>5 DEF Needed
    <2>2. /\ Items[1] = regs[0] /\ Items[2] = regs[1]
          /\ regs[0] \in Elements /\ regs[1] \in Elements
      BY <1>1, <2>1
    <2> DEFINE top == <<IF regs[0] = 1 \/ regs[1] = 1 THEN 1 ELSE 0>>
    <2>0. (IF regs[0] = 1 \/ regs[1] = 1 THEN 1 ELSE 0) = Items[1] + Items[2] - Items[1] * Items[2]
      <3>1. regs[0] \in {0, 1} /\ regs[1] \in {0, 1}
        BY <1>5, <2>2, AcceptedIsDefined, SameArithmetic DEF List!Defined, IsBinary
      <3> QED BY <2>2, <3>1
    <2>3. top \in Seq(Elements) /\ Len(top) = 1
      BY SmallElements
    <2>4. ShiftLeft(top, 2, 1)
      BY <1>5 DEF Perform, OpOr
    <2>5. List!Result(op, hint, pos) = top \o SubSeq(Items, 2 + 1, Len(Items))
      BY <1>5, <2>2, <2>0 DEF List!Result, List!Rest
    <2> HIDE DEF top
    <2>6. 2 \in Nat /\ 1 \in Nat /\ 2 = 1 + 1
      OBVIOUS
    <2>7. Items' = top \o SubSeq(Items, 2 + 1, Len(Items))
      BY <1>1, <2>1, <2>3, <2>4, <2>6, ShiftLeftList
    <2> QED BY <2>5, <2>7 DEF pos
  <1>6. CASE op = "eq"
    <2>1. depth \in Nat /\ depth >= 3
      BY <1>1, <1>6 DEF Needed
    <2>2. /\ Items[1] = regs[0] /\ Items[2] = regs[1] /\ Items[3] = regs[2]
          /\ regs[0] \in Elements /\ regs[1] \in Elements /\ regs[2] \in Elements
      BY <1>1, <2>1
    <2> DEFINE top == <<IF regs[1] = regs[2] THEN 1 ELSE 0>>
    <2>3. top \in Seq(Elements) /\ Len(top) = 1
      BY SmallElements
    <2>4. ShiftLeft(top, 3, 2)
      BY <1>6 DEF Perform, OpEq
    <2>5. List!Result(op, hint, pos) = top \o SubSeq(Items, 3 + 1, Len(Items))
      BY <1>6, <2>2 DEF List!Result, List!Rest
    <2> HIDE DEF top
    <2>6. 3 \in Nat /\ 2 \in Nat /\ 3 = 1 + 2
      OBVIOUS
    <2>7. Items' = top \o SubSeq(Items, 3 + 1, Len(Items))
      BY <1>1, <2>1, <2>3, <2>4, <2>6, ShiftLeftList
    <2> QED BY <2>5, <2>7 DEF pos
  <1> QED BY <1>2, <1>3, <1>4, <1>5, <1>6 DEF pos

(* operations that choose by an item *)
LEMMA ChoosingResults ==
  ASSUME RowOK, TapesOK, stackStep \in Nat, NEW op, NEW hint, WellFormed(hint),
         StackFault(op, hint) = "none", Perform(op, hint),
         op \in {"choose", "choose2", "cswap2"}
  PROVE  Items' = List!Result(op, hint, stackStep % RescueCycle)
  <1> DEFINE pos == stackStep % RescueCycle
  <1> HIDE DEF pos
  <1>1. /\ depth \in Nat /\ Needed(op, hint) \in Nat /\ depth >= Needed(op, hint)
        /\ Items \in Seq(Elements) /\ Len(Items) = depth
        /\ \A j \in 1..depth : Items[j] = regs[j - 1] /\ regs[j - 1] \in Elements
    BY NoFault, ItemsList DEF Needed
  <1>2. CASE op = "choose"
    <2>1. depth \in Nat /\ depth >= 3
      BY <1>1, <1>2 DEF Needed
    <2>2. /\ Items[1] = regs[0] /\ Items[2] = regs[1] /\ Items[3] = regs[2]
          /\ regs[0] \in Elements /\ regs[1] \in Elements /\ regs[2] \in Elements
      BY <1>1, <2>1
    <2> DEFINE top == <<IF regs[2] = 1 THEN regs[0] ELSE regs[1]>>
    <2>3. top \in Seq(Elements) /\ Len(top) = 1
      BY <2>2
    <2>4. ShiftLeft(top, 3, 2)
      BY <1>2 DEF Perform, OpChoose
    <2>5. List!Result(op, hint, pos) = top \o SubSeq(Items, 3 + 1, Len(Items))
      BY <1>2, <2>2 DEF List!Result, List!Rest
    <2> HIDE DEF top
    <2>6. 3 \in Nat /\ 2 \in Nat /\ 3 = 1 + 2
      OBVIOUS
    <2>7. Items' = top \o SubSeq(Items, 3 + 1, Len(Items))
      BY <1>1, <2>1, <2>3, <2>4, <2>6, ShiftLeftList
    <2> QED BY <2>5, <2>7 DEF pos
  <1>3. CASE op = "choose2"
    <2>1. depth \in Nat /\ depth >= 6
      BY <1>1, <1>3 DEF Needed
    <2>2. /\ Items[1] = regs[0] /\ Items[2] = regs[1] /\ Items[3] = regs[2] /\ Items[4] = regs[3] /\ Items[5] = regs[4]
          /\ regs[0] \in Elements /\ regs[1] \in Elements /\ regs[2] \in Elements /\ regs[3] \in Elements /\ regs[4] \in Elements
      BY <1>1, <2>1
    <2> DEFINE top == IF regs[4] = 1 THEN <<regs[0], regs[1]>> ELSE <<regs[2], regs[3]>>
    <2>0. SubSeq(Items, 1, 2) = <<regs[0], regs[1]>> /\ SubSeq(Items, 3, 4) = <<regs[2], regs[3]>>
      BY <2>1, PartsOfList
    <2>3. top \in Seq(Elements) /\ Len(top) = 2
      BY <2>2
    <2>4. ShiftLeft(top, 6, 4)
      BY <1>3 DEF Perform, OpChoose2
    <2>5. List!Result(op, hint, pos) = top \o SubSeq(Items, 6 + 1, Len(Items))
      BY <1>3, <2>2, <2>0 DEF List!Result, List!Rest
    <2> HIDE DEF top
    <2>6. 6 \in Nat /\ 4 \in Nat /\ 6 = 2 + 4
      OBVIOUS
    <2>7. Items' = top \o SubSeq(Items, 6 + 1, Len(Items))
      BY <1>1, <2>1, <2>3, <2>4, <2>6, ShiftLeftList
    <2> QED BY <2>5, <2>7 DEF pos
  <1>4. CASE op = "cswap2"
    <2>1. depth \in Nat /\ depth >= 6
      BY <1>1, <1>4 DEF Needed
    <2>2. /\ Items[1] = regs[0] /\ Items[2] = regs[1] /\ Items[3] = regs[2] /\ Items[4] = regs[3] /\ Items[5] = regs[4]
          /\ regs[0] \in Elements /\ regs[1] \in Elements /\ regs[2] \in Elements /\ regs[3] \in Elements /\ regs[4] \in Elements
      BY <1>1, <2>1
    <2> DEFINE top == IF regs[4] = 1 THEN <<regs[2], regs[3], regs[0], regs[1]>> ELSE <<regs[0], regs[1], regs[2], regs[3]>>
    <2>0. /\ SubSeq(Items, 3, 4) \o SubSeq(Items, 1, 2) = <<regs[2], regs[3], regs[0], regs[1]>>
          /\ SubSeq(Items, 1, 4) = <<regs[0], regs[1], regs[2], regs[3]>>
      <3> DEFINE s == SubSeq(Items, 3, 4)
      <3> DEFINE t == SubSeq(Items, 1, 2)
      <3>1. s = <<regs[2], regs[3]>> /\ t = <<regs[0], regs[1]>> /\ SubSeq(Items, 1, 4) = <<regs[0], regs[1], regs[2], regs[3]>>
        BY <2>1, PartsOfList
      <3>2. /\ s \in Seq(Elements) /\ Len(s) = 2 /\ s[1] = regs[2] /\ s[2] = regs[3]
            /\ t \in Seq(Elements) /\ Len(t) = 2 /\ t[1] = regs[0] /\ t[2] = regs[1]
        BY <2>2, <3>1
      <3> HIDE DEF s, t
      <3>3. s \o t = <<s[1], s[2], t[1], t[2]>>
        BY <3>2, TwoAndTwo
      <3>4. s \o t = <<regs[2], regs[3], regs[0], regs[1]>>
        BY <3>2, <3>3
      <3> QED BY <3>1, <3>4 DEF s, t
    <2>3. top \in Seq(Elements) /\ Len(top) = 4
      BY <2>2
    <2>4. ShiftLeft(top, 6, 2)
      BY <1>4 DEF Perform, OpCSwap2
    <2>5. List!Result(op, hint, pos) = top \o SubSeq(Items, 6 + 1, Len(Items))
      BY <1>4, <2>2, <2>0 DEF List!Result, List!Rest
    <2> HIDE DEF top
    <2>6. 6 \in Nat /\ 2 \in Nat /\ 6 = 4 + 2
      OBVIOUS
    <2>7. Items' = top \o SubSeq(Items, 6 + 1, Len(Items))
      BY <1>1, <2>1, <2>3, <2>4, <2>6, ShiftLeftList
    <2> QED BY <2>5, <2>7 DEF pos
  <1> QED BY <1>2, <1>3, <1>4 DEF pos

(* operations that duplicate items or add zeros *)
LEMMA DuplicatingResults ==
  ASSUME RowOK, TapesOK, stackStep \in Nat, NEW op, NEW hint, WellFormed(hint),
         StackFault(op, hint) = "none", Perform(op, hint),
         op \in {"dup", "dup2", "dup4", "pad2"}
  PROVE  Items' = List!Result(op, hint, stackStep % RescueCycle)
  <1> DEFINE pos == stackStep % RescueCycle
  <1> HIDE DEF pos
  <1>1. /\ depth \in Nat /\ Needed(op, hint) \in Nat /\ depth >= Needed(op, hint)
        /\ Items \in Seq(Elements) /\ Len(Items) = depth
        /\ \A j \in 1..depth : Items[j] = regs[j - 1] /\ regs[j - 1] \in Elements
    BY NoFault, ItemsList DEF Needed
  <1>2. CASE op = "dup"
    <2>1. depth \in Nat /\ depth >= 1 /\ depth + 1 <= MaxStackDepth
      BY <1>1, <1>2, NoFault, StackAssumption DEF Needed, Added
    <2>2. /\ Items[1] = regs[0]
          /\ regs[0] \in Elements
      BY <1>1, <2>1
    <2> DEFINE top == <<regs[0]>>
    <2>0. SubSeq(Items, 1, 1) = top
      BY <2>1, PartsOfList
    <2>3. top \in Seq(Elements) /\ Len(top) = 1
      BY <2>2
    <2>4. ShiftRight(top)
      BY <1>2 DEF Perform, OpDup
    <2>5. List!Result(op, hint, pos) = top \o Items
      BY <1>2, <2>0 DEF List!Result
    <2> HIDE DEF top
    <2>6. Items' = top \o Items
      BY <2>1, <2>3, <2>4, ShiftRightList
    <2> QED BY <2>5, <2>6 DEF pos
  <1>3. CASE op = "dup2"
    <2>1. depth \in Nat /\ depth >= 2 /\ depth + 2 <= MaxStackDepth
      BY <1>1, <1>3, NoFault, StackAssumption DEF Needed, Added
    <2>2. /\ Items[1] = regs[0] /\ Items[2] = regs[1]
          /\ regs[0] \in Elements /\ regs[1] \in Elements
      BY <1>1, <2>1
    <2> DEFINE top == <<regs[0], regs[1]>>
    <2>0. SubSeq(Items, 1, 2) = top
      BY <2>1, PartsOfList
    <2>3. top \in Seq(Elements) /\ Len(top) = 2
      BY <2>2
    <2>4. ShiftRight(top)
      BY <1>3 DEF Perform, OpDup2
    <2>5. List!Result(op, hint, pos) = top \o Items
      BY <1>3, <2>0 DEF List!Result
    <2> HIDE DEF top
    <2>6. Items' = top \o Items
      BY <2>1, <2>3, <2>4, ShiftRightList
    <2> QED BY <2>5, <2>6 DEF pos
  <1>4. CASE op = "dup4"
    <2>1. depth \in Nat /\ depth >= 4 /\ depth + 4 <= MaxStackDepth
      BY <1>1, <1>4, NoFault, StackAssumption DEF Needed, Added
    <2>2. /\ Items[1] = regs[0] /\ Items[2] = regs[1] /\ Items[3] = regs[2] /\ Items[4] = regs[3]
          /\ regs[0] \in Elements /\ regs[1] \in Elements /\ regs[2] \in Elements /\ regs[3] \in Elements
      BY <1>1, <2>1
    <2> DEFINE top == <<regs[0], regs[1], regs[2], regs[3]>>
    <2>0. SubSeq(Items, 1, 4) = top
      BY <2>1, PartsOfList
    <2>3. top \in Seq(Elements) /\ Len(top) = 4
      BY <2>2
    <2>4. ShiftRight(top)
      BY <1>4 DEF Perform, OpDup4
    <2>5. List!Result(op, hint, pos) = top \o Items
      BY <1>4, <2>0 DEF List!Result
    <2> HIDE DEF top
    <2>6. Items' = top \o Items
      BY <2>1, <2>3, <2>4, ShiftRightList
    <2> QED BY <2>5, <2>6 DEF pos
  <1>5. CASE op = "pad2"
    <2>1. depth \in Nat /\ depth >= 0 /\ depth + 2 <= MaxStackDepth
      BY <1>1, <1>5, NoFault, StackAssumption DEF Needed, Added
    <2> DEFINE top == <<0, 0>>
    <2>3. top \in Seq(Elements) /\ Len(top) = 2
      BY SmallElements
    <2>4. ShiftRight(top)
      BY <1>5 DEF Perform, OpPad2
    <2>5. List!Result(op, hint, pos) = top \o Items
      BY <1>5 DEF List!Result
    <2> HIDE DEF top
    <2>6. Items' = top \o Items
      BY <2>1, <2>3, <2>4, ShiftRightList
    <2> QED BY <2>5, <2>6 DEF pos
  <1> QED BY <1>2, <1>3, <1>4, <1>5 DEF pos

(* operations that push a constant or a value of the tapes *)
LEMMA ReadingResults ==
  ASSUME RowOK, TapesOK, stackStep \in Nat, NEW op, NEW hint, WellFormed(hint),
         StackFault(op, hint) = "none", Perform(op, hint),
         op \in {"push", "read", "read2"}
  PROVE  Items' = List!Result(op, hint, stackStep % RescueCycle)
  <1> DEFINE pos == stackStep % RescueCycle
  <1> HIDE DEF pos
  <1>1. /\ depth \in Nat /\ Needed(op, hint) \in Nat /\ depth >= Needed(op, hint)
        /\ Items \in Seq(Elements) /\ Len(Items) = depth
        /\ \A j \in 1..depth : Items[j] = regs[j - 1] /\ regs[j - 1] \in Elements
    BY NoFault, ItemsList DEF Needed
  <1>2. CASE op = "push"
    <2>1. depth \in Nat /\ depth >= 0 /\ depth + 1 <= MaxStackDepth
      BY <1>1, <1>2, NoFault, StackAssumption DEF Needed, Added
    <2> DEFINE top == <<hint.arg>>
    <2>3. top \in Seq(Elements) /\ Len(top) = 1
      BY <1>2, NoFault DEF ValidHint, WellFormed
    <2>4. ShiftRight(top)
      BY <1>2 DEF Perform, OpPush
    <2>5. List!Result(op, hint, pos) = top \o Items
      BY <1>2 DEF List!Result
    <2> HIDE DEF top
    <2>6. Items' = top \o Items
      BY <2>1, <2>3, <2>4, ShiftRightList
    <2> QED BY <2>5, <2>6 DEF pos
  <1>3. CASE op = "read"
    <2>1. depth \in Nat /\ depth >= 0 /\ depth + 1 <= MaxStackDepth
      BY <1>1, <1>3, NoFault, StackAssumption DEF Needed, Added
    <2> DEFINE top == <<HintedTapeA("read", hint)[1]>>
    <2>0. /\ Head(List!PreparedA(op, hint)) = HintedTapeA("read", hint)[1]
          /\ HintedTapeA("read", hint)[1] \in Elements
      <3>1. \A s \in Seq(Elements) : Head(s) = s[1]
        OBVIOUS
      <3>2. ~ TapeFault(op, hint) /\ depth >= Needed(op, hint)
        BY <1>1, NoFault
      <3> QED BY <1>1, <1>3, <3>1, <3>2, ReadTapes, SameTapes DEF ReadsA, ReadsB
    <2>3. top \in Seq(Elements) /\ Len(top) = 1
      BY <2>0
    <2>4. ShiftRight(top)
      BY <1>3 DEF Perform, OpRead
    <2>5. List!Result(op, hint, pos) = top \o Items
      BY <1>3, <2>0 DEF List!Result
    <2> HIDE DEF top
    <2>6. Items' = top \o Items
      BY <2>1, <2>3, <2>4, ShiftRightList
    <2> QED BY <2>5, <2>6 DEF pos
  <1>4. CASE op = "read2"
    <2>1. depth \in Nat /\ depth >= 0 /\ depth + 2 <= MaxStackDepth
      BY <1>1, <1>4, NoFault, StackAssumption DEF Needed, Added
    <2> DEFINE top == <<HintedTapeB("read2", hint)[1], HintedTapeA("read2", hint)[1]>>
    <2>0. /\ Head(List!PreparedA(op, hint)) = HintedTapeA("read2", hint)[1]
          /\ HintedTapeA("read2", hint)[1] \in Elements
          /\ Head(List!PreparedB(op, hint)) = HintedTapeB("read2", hint)[1]
          /\ HintedTapeB("read2", hint)[1] \in Elements
      <3>1. \A s \in Seq(Elements) : Head(s) = s[1]
        OBVIOUS
      <3>2. ~ TapeFault(op, hint) /\ depth >= Needed(op, hint)
        BY <1>1, NoFault
      <3> QED BY <1>1, <1>4, <3>1, <3>2, ReadTapes, SameTapes DEF ReadsA, ReadsB
    <2>3. top \in Seq(Elements) /\ Len(top) = 2
      BY <2>0
    <2>4. ShiftRight(top)
      BY <1>4 DEF Perform, OpRead2
    <2>5. List!Result(op, hint, pos) = top \o Items
      BY <1>4, <2>0 DEF List!Result
    <2> HIDE DEF top
    <2>6. Items' = top \o Items
      BY <2>1, <2>3, <2>4, ShiftRightList
    <2> QED BY <2>5, <2>6 DEF pos
  <1> QED BY <1>2, <1>3, <1>4 DEF pos

(* one bit of a comparison or a decomposition, and one round of Rescue *)
LEMMA AccumulatingResults ==
  ASSUME RowOK, TapesOK, stackStep \in Nat, NEW op, NEW hint, WellFormed(hint),
         StackFault(op, hint) = "none", Perform(op, hint),
         op \in {"cmp", "binacc", "rescr"}
  PROVE  Items' = List!Result(op, hint, stackStep % RescueCycle)
  <1> DEFINE pos == stackStep % RescueCycle
  <1> HIDE DEF pos
  <1>1. /\ depth \in Nat /\ Needed(op, hint) \in Nat /\ depth >= Needed(op, hint)
        /\ Items \in Seq(Elements) /\ Len(Items) = depth
        /\ \A j \in 1..depth : Items[j] = regs[j - 1] /\ regs[j - 1] \in Elements
    BY NoFault, ItemsList DEF Needed
  <1>2. CASE op = "cmp"
    <2> DEFINE a == HintedTapeA("cmp", hint)[1]
    <2> DEFINE b == HintedTapeB("cmp", hint)[1]
    <2> DEFINE power == regs[0]
    <2> DEFINE half == IF power = 1 THEN Mul(power, Inv(2)) ELSE power \div 2
    <2> DEFINE notSet == Mul(Sub(1, regs[4]), Sub(1, regs[5]))
    <2> DEFINE gt == Add(regs[4], Mul(Mul(a, Sub(1, b)), notSet))
    <2> DEFINE lt == Add(regs[5], Mul(Mul(b, Sub(1, a)), notSet))
    <2> DEFINE accB == Add(regs[6], Mul(b, power))
    <2> DEFINE accA == Add(regs[7], Mul(a, power))
    <2> DEFINE top == <<half, a, b, notSet, gt, lt, accB, accA>>
    <2>1. depth \in Nat /\ depth >= 8
      BY <1>1, <1>2 DEF Needed
    <2>2. /\ Items[1] = regs[0] /\ Items[5] = regs[4] /\ Items[6] = regs[5]
          /\ Items[7] = regs[6] /\ Items[8] = regs[7]
          /\ regs[0] \in Elements /\ regs[4] \in Elements /\ regs[5] \in Elements
          /\ regs[6] \in Elements /\ regs[7] \in Elements
      BY <1>1, <2>1
    <2>3. /\ Head(List!PreparedA(op, hint)) = a /\ a \in Elements
          /\ Head(List!PreparedB(op, hint)) = b /\ b \in Elements
      <3>1. \A s \in Seq(Elements) : Head(s) = s[1]
        OBVIOUS
      <3>2. ~ TapeFault(op, hint) /\ depth >= Needed(op, hint)
        BY <1>1, NoFault
      <3> QED BY <1>1, <1>2, <3>1, <3>2, ReadTapes, SameTapes DEF ReadsA, ReadsB
    <2>4. a \in {0, 1} /\ b \in {0, 1}
      BY <1>2, <2>3, AcceptedIsDefined, SameArithmetic DEF List!Defined, IsBinary
    <2>5. CopyState(top)
      BY <1>2 DEF Perform, OpCmp
    <2> HIDE DEF a, b
    <2>6. 1 \in Elements /\ 0 \in Elements /\ Inv(2) \in Elements
      BY SmallElements, FieldClosed
    <2>7. half \in Elements /\ half = IF power = 1 THEN Inv(2) ELSE power \div 2
      BY <2>2, <2>6, FieldClosed, BitArithmetic
    <2>8. notSet \in Elements
      <3>1. Sub(1, regs[4]) \in Elements /\ Sub(1, regs[5]) \in Elements
        BY <2>2, <2>6, FieldClosed
      <3> QED BY <3>1, FieldClosed
    <2>9. /\ gt = IF a = 1 /\ b = 0 THEN Add(regs[4], notSet) ELSE regs[4]
          /\ lt = IF b = 1 /\ a = 0 THEN Add(regs[5], notSet) ELSE regs[5]
      <3> HIDE DEF notSet
      <3>1. /\ Mul(a, Sub(1, b)) = IF a = 1 /\ b = 0 THEN 1 ELSE 0
            /\ Mul(b, Sub(1, a)) = IF b = 1 /\ a = 0 THEN 1 ELSE 0
        BY <2>4, <2>6, BitArithmetic
      <3>2. /\ Mul(Mul(a, Sub(1, b)), notSet) = IF a = 1 /\ b = 0 THEN notSet ELSE 0
            /\ Mul(Mul(b, Sub(1, a)), notSet) = IF b = 1 /\ a = 0 THEN notSet ELSE 0
        BY <2>8, <3>1, BitArithmetic
      <3>3. Add(regs[4], 0) = regs[4] /\ Add(regs[5], 0) = regs[5]
        BY <2>2, BitArithmetic
      <3> QED BY <3>2, <3>3
    <2>10. /\ accB = IF b = 1 THEN Add(regs[6], power) ELSE regs[6]
           /\ accA = IF a = 1 THEN Add(regs[7], power) ELSE regs[7]
      <3>1. /\ Mul(b, power) = IF b = 1 THEN power ELSE 0
            /\ Mul(a, power) = IF a = 1 THEN power ELSE 0
        BY <2>2, <2>4, BitArithmetic
      <3>2. Add(regs[6], 0) = regs[6] /\ Add(regs[7], 0) = regs[7]
        BY <2>2, BitArithmetic
      <3> QED BY <3>1, <3>2
    <2>11. /\ gt \in Elements /\ lt \in Elements
           /\ accB \in Elements /\ accA \in Elements
      BY <2>2, <2>8, <2>9, <2>10, FieldClosed
    <2>12. List!Compared(a, b) = top
      BY <2>2, <2>7, <2>9, <2>10, SameArithmetic DEF List!Compared
    <2>13. top \in Seq(Elements) /\ Len(top) = 8
      <3> HIDE DEF half, notSet, gt, lt, accB, accA
      <3> QED BY <2>3, <2>7, <2>8, <2>11
    <2>14. List!Result(op, hint, pos) = top \o SubSeq(Items, 8 + 1, Len(Items))
      BY <1>2, <2>3, <2>12 DEF List!Result, List!Rest
    <2> HIDE DEF top
    <2>15. Items' = top \o SubSeq(Items, 8 + 1, Len(Items))
      BY <2>1, <2>5, <2>13, CopyStateList
    <2> QED BY <2>14, <2>15 DEF pos
  <1>3. CASE op = "binacc"
    <2> DEFINE bit == HintedTapeA("binacc", hint)[1]
    <2> DEFINE double == Mul(regs[2], 2)
    <2> DEFINE acc == Add(regs[3], Mul(bit, regs[2]))
    <2> DEFINE top == <<bit, 0, double, acc>>
    <2>1. depth \in Nat /\ depth >= 4
      BY <1>1, <1>3 DEF Needed
    <2>2. /\ Items[3] = regs[2] /\ Items[4] = regs[3]
          /\ regs[2] \in Elements /\ regs[3] \in Elements
      BY <1>1, <2>1
    <2>3. /\ Head(List!PreparedA(op, hint)) = bit /\ bit \in Elements
      <3>1. \A s \in Seq(Elements) : Head(s) = s[1]
        OBVIOUS
      <3>2. ~ TapeFault(op, hint) /\ depth >= Needed(op, hint)
        BY <1>1, NoFault
      <3> QED BY <1>1, <1>3, <3>1, <3>2, ReadTapes, SameTapes DEF ReadsA, ReadsB
    <2>4. bit \in {0, 1}
      BY <1>3, <2>3, AcceptedIsDefined, SameArithmetic DEF List!Defined, IsBinary
    <2>5. CopyState(top)
      BY <1>3 DEF Perform, OpBinAcc
    <2> HIDE DEF bit
    <2>6. double \in Elements /\ double = Mul(2, regs[2])
      BY <2>2, FieldClosed, BitArithmetic
    <2>7. Mul(bit, regs[2]) = bit * regs[2]
      <3>1. regs[2] \in Int
        BY <2>2, FieldAssumption DEF Elements
      <3> QED BY <2>2, <2>4, <3>1, BitArithmetic
    <2>8. acc \in Elements /\ acc = Add(regs[3], bit * regs[2])
      BY <2>2, <2>3, <2>7, FieldClosed
    <2>9. List!Result(op, hint, pos) = top \o SubSeq(Items, 4 + 1, Len(Items))
      <3> HIDE DEF double, acc
      <3>1. /\ List!Mul(2, Items[3]) = double
            /\ List!Add(Items[4], bit * Items[3]) = acc
        BY <2>2, <2>6, <2>8, SameArithmetic
      <3> QED BY <1>3, <2>3, <3>1 DEF List!Result, List!Rest
    <2>10. top \in Seq(Elements) /\ Len(top) = 4
      <3> HIDE DEF double, acc
      <3>1. 0 \in Elements
        BY SmallElements
      <3> QED BY <2>3, <2>6, <2>8, <3>1
    <2> HIDE DEF top
    <2>11. Items' = top \o SubSeq(Items, 4 + 1, Len(Items))
      BY <2>1, <2>5, <2>10, CopyStateList
    <2> QED BY <2>9, <2>11 DEF pos
  <1>4. CASE op = "rescr"
    <2> DEFINE six == <<regs[0], regs[1], regs[2], regs[3], regs[4], regs[5]>>
    <2> DEFINE top == RescueRound(six, pos)
    <2>1. depth \in Nat /\ depth >= 6
      BY <1>1, <1>4 DEF Needed
    <2>2. six \in [1..6 -> Elements]
      BY <1>1, <2>1
    <2>3. pos \in 0..(RescueCycle - 1)
      BY ModRange, RescueAssumption DEF pos
    <2>4. top \in [1..6 -> Elements]
      BY <2>2, <2>3, RescueAssumption
    <2>5. CopyState(top)
      BY <1>4 DEF Perform, OpRescR, pos
    <2>6. SubSeq(Items, 1, 6) = six
      BY <2>1, PartsOfList
    <2>7. List!Result(op, hint, pos) = top \o SubSeq(Items, 6 + 1, Len(Items))
      BY <1>4, <2>6 DEF List!Result, List!Rest
    <2> HIDE DEF top
    <2>8. top \in Seq(Elements) /\ Len(top) = 6
      <3>1. 6 \in Nat
        OBVIOUS
      <3> QED BY <2>4, <3>1, TupleIsSeq
    <2>9. Items' = top \o SubSeq(Items, 6 + 1, Len(Items))
      BY <2>1, <2>5, <2>8, CopyStateList
    <2> QED BY <2>7, <2>9 DEF pos
  <1> QED BY <1>2, <1>3, <1>4 DEF pos

(* Each operation leaves the list its specification gives. *)
LEMMA PerformResult ==
  ASSUME RowOK, TapesOK, stackStep \in Nat, NEW op, NEW hint, WellFormed(hint),
         StackFault(op, hint) = "none", Perform(op, hint)
  PROVE  Items' = List!Result(op, hint, stackStep % RescueCycle)
  <1>1. CASE op \in {"begin", "noop", "assert", "asserteq", "drop", "drop4"}
    BY <1>1, DroppingResults
  <1>2. CASE op \in {"swap", "swap2", "swap4", "roll4", "roll8"}
    BY <1>2, PermutingResults
  <1>3. CASE op \in {"inv", "neg", "not"}
    BY <1>3, UnaryResults
  <1>4. CASE op \in {"add", "mul", "and", "or", "eq"}
    BY <1>4, BinaryResults
  <1>5. CASE op \in {"choose", "choose2", "cswap2"}
    BY <1>5, ChoosingResults
  <1>6. CASE op \in {"dup", "dup2", "dup4", "pad2"}
    BY <1>6, DuplicatingResults
  <1>7. CASE op \in {"push", "read", "read2"}
    BY <1>7, ReadingResults
  <1>8. CASE op \in {"cmp", "binacc", "rescr"}
    BY <1>8, AccumulatingResults
  <1> QED
    BY <1>1, <1>2, <1>3, <1>4, <1>5, <1>6, <1>7, <1>8 DEF Perform

(* Execute is a run of the list at the place of the cycle that the step has. *)
LEMMA ExecuteIsRun ==
  ASSUME StackOK, NEW op, NEW hint, WellFormed(hint),
         StackFault(op, hint) = "none", Execute(op, hint)
  PROVE  List!Run(op, hint, stackStep % RescueCycle)
  <1>1. RowOK /\ TapesOK /\ stackStep \in Nat
    BY DEF StackOK, StackTypeOK, RowOK, TapesOK
  <1>2. Items' = List!Result(op, hint, stackStep % RescueCycle)
    BY <1>1, PerformResult DEF Execute
  <1>3. List!Failure(op, hint) = "none"
    BY <1>1, FaultIsFailure
  <1>4. /\ List!PreparedA(op, hint) = HintedTapeA(op, hint)
        /\ List!PreparedB(op, hint) = HintedTapeB(op, hint)
    <2>1. depth \in Nat /\ Needed(op, hint) \in Nat /\ depth >= Needed(op, hint)
      BY <1>1, NoFault, ItemsList DEF Needed
    <2> QED BY <1>1, <2>1, SameTapes
  <1> QED BY <1>2, <1>3, <1>4, SameDemands DEF List!Run, Execute
-----------------------------------------------------------------------------
(* rows of registers, whatever the depth of the stack *)
Rows == [Slots -> Elements]

(* row starts with the values of top *)
Starts(row, top) == \A i \in Slots : i < Len(top) => row[i] = top[i + 1]

(* what a register holds after a shift to the left by n *)
Lifted(old, i, n) == IF i + n \in Slots THEN old[i + n] ELSE 0

(* Behind top, a row has the registers of the row before, in their place,  *)
(* n places further up, or moved down by what top has.                     *)
Copies(old, row, top) ==
  Starts(row, top) /\ \A i \in Slots : i >= Len(top) => row[i] = old[i]
Lifts(old, row, top, n) ==
  /\ Starts(row, top)
  /\ \A i \in Slots : i >= Len(top) => row[i] = Lifted(old, i, n)
Pushes(old, row, top) ==
  Starts(row, top) /\ \A i \in Slots : i >= Len(top) => row[i] = old[i - Len(top)]
-----------------------------------------------------------------------------
(* The rows the stack makes are of these forms, whatever its depth: the    *)
(* registers that are not in use hold 0 on both sides.                     *)
LEMMA CopyStateCopies ==
  ASSUME RowOK, NEW top, Len(top) \in Nat, CopyState(top)
  PROVE  Copies(regs, regs', top)
  BY StackAssumption DEF CopyState, Copies, Starts, RowOK, FreeRegistersAreZero, Slots

(* shift_left *)
LEMMA ShiftLeftLifts ==
  ASSUME RowOK, NEW top, Len(top) \in Nat, NEW start \in Nat, NEW n \in Nat,
         start <= Len(top) + n, ShiftLeft(top, start, n)
  PROVE  Lifts(regs, regs', top, n)
  BY StackAssumption DEF ShiftLeft, Lifts, Lifted, Starts, RowOK, FreeRegistersAreZero, Slots

(* shift_right *)
LEMMA ShiftRightPushes ==
  ASSUME RowOK, NEW top, Len(top) \in Nat, ShiftRight(top)
  PROVE  Pushes(regs, regs', top)
  BY StackAssumption DEF ShiftRight, Pushes, Starts, RowOK, FreeRegistersAreZero, Slots

(* The form of a row determines it. *)
LEMMA OneRow ==
  ASSUME NEW old, NEW top, NEW n, NEW u \in Rows, NEW w \in Rows, Len(top) \in Nat,
         \/ Copies(old, u, top) /\ Copies(old, w, top)
         \/ Lifts(old, u, top, n) /\ Lifts(old, w, top, n)
         \/ Pushes(old, u, top) /\ Pushes(old, w, top)
  PROVE  u = w
  <1>1. \A i \in Slots : u[i] = w[i]
    <2> SUFFICES ASSUME NEW i \in Slots PROVE u[i] = w[i]
      OBVIOUS
    <2>1. i \in Nat
      BY StackAssumption DEF Slots
    <2>2. CASE i < Len(top)
      BY <2>2 DEF Copies, Lifts, Pushes, Starts
    <2>3. CASE i >= Len(top)
      BY <2>3 DEF Copies, Lifts, Pushes
    <2> QED BY <2>1, <2>2, <2>3
  <1> QED BY <1>1 DEF Rows
-----------------------------------------------------------------------------
(* Constraints that are satisfied. *)
LEMMA DifferZero == ASSUME NEW x, NEW y PROVE Differ(x, y) = 0 <=> x = y
  BY DEF Differ

(* what it takes to satisfy constraints with two auxiliary ones *)
LEMMA SatisfiedPlain ==
  ASSUME NEW T, DOMAIN T = Slots, NEW a, NEW b
  PROVE  Satisfied(Terms(T, <<a, b>>)) <=> (\A i \in Slots : T[i] = 0) /\ a = 0 /\ b = 0
  <1>1. Terms(T, <<a, b>>).stack = T /\ Terms(T, <<a, b>>).aux = <<a, b>>
    BY DEF Terms
  <1>2. DOMAIN <<a, b>> = 1..2 /\ <<a, b>>[1] = a /\ <<a, b>>[2] = b
    OBVIOUS
  <1> QED BY <1>1, <1>2 DEF Satisfied

(* the same with values in front of those of a helper *)
LEMMA SatisfiedBefore ==
  ASSUME NEW first, Len(first) \in Nat, Len(first) <= MaxStackDepth,
         NEW T, DOMAIN T = Slots, NEW a, NEW b
  PROVE  Satisfied(Terms(Before(first, T), <<a, b>>)) <=>
           /\ \A i \in Slots : i < Len(first) => first[i + 1] = 0
           /\ \A i \in Slots : i >= Len(first) => T[i] = 0
           /\ a = 0 /\ b = 0
  <1>1. /\ DOMAIN Before(first, T) = Slots
        /\ \A i \in Slots : Before(first, T)[i] = IF i < Len(first) THEN first[i + 1] ELSE T[i]
    BY DEF Before
  <1>2. \A i \in Slots : i \in Nat /\ (i < Len(first) <=> ~ (i >= Len(first)))
    BY StackAssumption DEF Slots
  <1> QED BY <1>1, <1>2, SatisfiedPlain

(* What the helpers ask of a row. *)
LEMMA CopyZero ==
  ASSUME NEW old \in Rows, NEW row \in Rows, NEW m \in Nat
  PROVE  /\ DOMAIN CopyTerms(old, row, m) = Slots
         /\ \A i \in Slots : i >= m => (CopyTerms(old, row, m)[i] = 0 <=> row[i] = old[i])
         /\ \A i \in Slots : i < m => CopyTerms(old, row, m)[i] = 0
  <1>1. DOMAIN old = Slots
    BY DEF Rows
  <1>2. \A i \in Slots : i \in Nat /\ (i < m <=> ~ (i >= m))
    BY StackAssumption DEF Slots
  <1>3. /\ DOMAIN CopyTerms(old, row, m) = Slots
        /\ \A i \in Slots : CopyTerms(old, row, m)[i] = IF i < m THEN 0 ELSE Differ(old[i], row[i])
    BY <1>1 DEF CopyTerms
  <1> QED BY <1>2, <1>3, DifferZero

(* the registers of T from m on are 0 for a row shifted to the left by n *)
AsksToLift(T, old, row, m, n) ==
  /\ DOMAIN T = Slots
  /\ \A i \in Slots : i >= m => (T[i] = 0 <=> row[i] = Lifted(old, i, n))
  /\ \A i \in Slots : i < m => T[i] = 0

(* enforce_left_shift, called with the number of the first one to move *)
LEMMA LeftShiftZero ==
  ASSUME NEW old \in Rows, NEW row \in Rows, NEW m \in Nat, NEW n \in Nat, NEW from,
         from = m + n
  PROVE  AsksToLift(LeftShiftTerms(old, row, from, n, 0), old, row, m, n)
  <1>1. DOMAIN old = Slots
    BY DEF Rows
  <1>2. \A i \in Slots : i \in Nat /\ (i < m <=> ~ (i >= m))
    BY StackAssumption DEF Slots
  <1>3. from - n = m
    OBVIOUS
  <1>4. /\ DOMAIN LeftShiftTerms(old, row, from, n, 0) = Slots
        /\ \A i \in Slots :
             LeftShiftTerms(old, row, from, n, 0)[i] =
               IF i < m THEN 0
               ELSE IF i + n \in Slots THEN Differ(old[i + n], row[i]) ELSE Differ(row[i], 0)
    BY <1>1, <1>3 DEF LeftShiftTerms
  <1> QED BY <1>2, <1>4, DifferZero DEF Lifted, AsksToLift

(* enforce_right_shift asks for the registers n places before. *)
LEMMA RightShiftZero ==
  ASSUME NEW old \in Rows, NEW row \in Rows, NEW n \in Nat
  PROVE  /\ DOMAIN RightShiftTerms(old, row, n) = Slots
         /\ \A i \in Slots : i >= n => (RightShiftTerms(old, row, n)[i] = 0 <=> row[i] = old[i - n])
         /\ \A i \in Slots : i < n => RightShiftTerms(old, row, n)[i] = 0
  <1>1. DOMAIN old = Slots
    BY DEF Rows
  <1>2. \A i \in Slots : i \in Nat /\ (i < n <=> ~ (i >= n))
    BY StackAssumption DEF Slots
  <1>3. /\ DOMAIN RightShiftTerms(old, row, n) = Slots
        /\ \A i \in Slots : RightShiftTerms(old, row, n)[i] = IF i < n THEN 0 ELSE Differ(old[i - n], row[i])
    BY <1>1 DEF RightShiftTerms
  <1> QED BY <1>2, <1>3, DifferZero
-----------------------------------------------------------------------------
(* A difference is 0 for equal elements only, a sum for opposite ones. *)
LEMMA SubZero ==
  ASSUME NEW p \in Elements, NEW q \in Elements
  PROVE  /\ Sub(p, q) = 0 <=> p = q
         /\ Add(p, q) = 0 <=> p = Neg(q)
  <1>1. Modulus \in Nat /\ Modulus > 2 /\ p \in Nat /\ q \in Nat /\ p < Modulus /\ q < Modulus
    BY FieldAssumption DEF Elements
  <1>2. Sub(p, p) = 0
    BY <1>1 DEF Sub
  <1>3. Neg(q) = IF q = 0 THEN 0 ELSE Modulus - q
    <2>1. CASE q = 0
      BY <1>1, <2>1 DEF Neg, Sub
    <2>2. CASE q # 0
      <3>1. 0 + Modulus - q \in 1..(Modulus - 1)
        BY <1>1, <2>2
      <3>2. (0 + Modulus - q) % Modulus = Modulus - q
        BY <1>1, <3>1
      <3> QED BY <2>2, <3>2 DEF Neg, Sub
    <2> QED BY <2>1, <2>2
  <1>4. Add(p, q) = IF p + q < Modulus THEN p + q ELSE p + q - Modulus
    <2>1. CASE p + q < Modulus
      BY <1>1, <2>1 DEF Add
    <2>2. CASE p + q >= Modulus
      <3>1. p + q - Modulus \in 0..(Modulus - 1)
        BY <1>1, <2>2
      <3>2. (p + q) % Modulus = p + q - Modulus
        BY <1>1, <3>1
      <3> QED BY <1>1, <2>2, <3>2 DEF Add
    <2> QED BY <1>1, <2>1, <2>2
  <1> QED BY <1>1, <1>2, <1>3, <1>4, BitArithmetic

(* A bit satisfies its constraint. *)
LEMMA BitsAreBinary ==
  ASSUME NEW p \in Elements, IsBinary(p)
  PROVE  NotBinary(p) = 0
  <1>1. Mul(0, 0) = 0 /\ Mul(1, 1) = 1 /\ Sub(1, 1) = 0 /\ Sub(0, 0) = 0
    BY SmallElements, BitArithmetic, SubZero
  <1> QED BY <1>1 DEF IsBinary, NotBinary

(* Sums determine their terms, products their factors. *)
LEMMA AddCancels ==
  ASSUME NEW c \in Elements, NEW p \in Elements, NEW q \in Elements, Add(c, p) = Add(c, q)
  PROVE  p = q
  <1>1. Modulus \in Nat /\ Modulus > 2 /\ c \in 0..(Modulus - 1) /\ p \in 0..(Modulus - 1) /\ q \in 0..(Modulus - 1)
    BY FieldAssumption DEF Elements
  <1>2. \A x \in 0..(Modulus - 1) :
          (c + x) % Modulus = IF c + x < Modulus THEN c + x ELSE c + x - Modulus
    <2> SUFFICES ASSUME NEW x \in 0..(Modulus - 1)
                 PROVE  (c + x) % Modulus = IF c + x < Modulus THEN c + x ELSE c + x - Modulus
      OBVIOUS
    <2>1. CASE c + x < Modulus
      BY <1>1, <2>1
    <2>2. CASE c + x >= Modulus
      <3>1. c + x - Modulus \in 0..(Modulus - 1)
        BY <1>1, <2>2
      <3>2. (c + x) % Modulus = c + x - Modulus
        BY <1>1, <3>1
      <3> QED BY <1>1, <2>2, <3>2
    <2> QED BY <1>1, <2>1, <2>2
  <1>3. (c + p) % Modulus = (c + q) % Modulus
    BY DEF Add
  <1> QED BY <1>1, <1>2, <1>3

(* A factor may be reduced before or after. *)
LEMMA ReducedFactor ==
  ASSUME NEW m \in Nat \ {0}, NEW x \in Nat, NEW y \in Nat
  PROVE  ((x % m) * y) % m = (x * y) % m
  <1>1. PICK q \in Nat : x = q * m + (x % m)
    BY DivMod
  <1> DEFINE r == x % m
  <1>2. r \in Nat
    BY DivMod
  <1>3. x = q * m + r
    BY <1>1
  <1> HIDE DEF r
  <1>4. r * y \in Nat
    BY <1>2
  <1>5. PICK s \in Nat : r * y = s * m + ((r * y) % m) /\ (r * y) % m \in 0..(m - 1)
    BY <1>4, DivMod
  <1> DEFINE t == (r * y) % m
  <1>6. r * y = s * m + t /\ t \in 0..(m - 1)
    BY <1>5
  <1> HIDE DEF t
  <1>7. x * y = (q * y + s) * m + t
    BY <1>2, <1>3, <1>6
  <1>8. q * y + s \in Int
    OBVIOUS
  <1>9. (x * y) % m = t
    BY <1>6, <1>7, <1>8, ModUnique
  <1> QED BY <1>9 DEF t, r

(* Multiplying with anything but 0 can be undone. *)
LEMMA MulCancels ==
  ASSUME NEW c \in Elements, c # 0, NEW p \in Elements, NEW q \in Elements,
         Mul(p, c) = Mul(q, c)
  PROVE  p = q
  <1> DEFINE d == Inv(c)
  <1>1. /\ Modulus \in Nat \ {0} /\ c \in Nat /\ d \in Nat /\ p \in Nat /\ q \in Nat
        /\ c * d \in Nat /\ p * c \in Nat /\ q * c \in Nat
        /\ p \in Elements /\ q \in Elements
    <2>1. d \in Elements
      BY FieldClosed
    <2> QED BY <2>1, FieldAssumption DEF Elements
  <1>2. (c * d) % Modulus = 1
    BY InverseOf DEF Mul
  <1> HIDE DEF d
  <1>3. ASSUME NEW x \in Elements PROVE (((x * c) % Modulus) * d) % Modulus = x
    <2>1. x \in Nat /\ x * c \in Nat
      BY <1>1 DEF Elements
    <2>2. (((x * c) % Modulus) * d) % Modulus = ((x * c) * d) % Modulus
      BY <1>1, <2>1, ReducedFactor
    <2>3. (x * c) * d = (c * d) * x
      BY <1>1, <2>1
    <2>4. ((c * d) * x) % Modulus = (((c * d) % Modulus) * x) % Modulus
      BY <1>1, <2>1, ReducedFactor
    <2>5. (1 * x) % Modulus = x
      BY <1>1 DEF Elements
    <2> QED BY <1>2, <2>2, <2>3, <2>4, <2>5
  <1> QED BY <1>1, <1>3 DEF Mul
-----------------------------------------------------------------------------
(* Comparing a row with values. *)
LEMMA ExpectZero ==
  ASSUME NEW values \in Seq(Elements), NEW row \in Rows, Len(values) <= MaxStackDepth
  PROVE  /\ Len(Expect(row, values)) = Len(values)
         /\ (\A i \in Slots : i < Len(values) => Expect(row, values)[i + 1] = 0) <=> Starts(row, values)
  <1>1. Len(values) \in Nat /\ \A j \in 1..Len(values) : values[j] \in Elements
    BY LenProperties, ElementOfSeq
  <1>2. \A j \in 1..Len(values) : j - 1 \in Slots
    BY <1>1, StackAssumption DEF Slots
  <1>3. Expect(row, values) \in [1..Len(values) -> Elements]
    <2>1. \A j \in 1..Len(values) : row[j - 1] \in Elements
      BY <1>2 DEF Rows
    <2>2. \A j \in 1..Len(values) : Sub(row[j - 1], values[j]) \in Elements
      BY <1>1, <2>1, FieldClosed
    <2> QED BY <2>2 DEF Expect
  <1>4. Len(Expect(row, values)) = Len(values)
    BY <1>1, <1>3, TupleIsSeq
  <1>5. \A i \in Slots : i < Len(values) =>
          (Expect(row, values)[i + 1] = 0 <=> row[i] = values[i + 1])
    <2> SUFFICES ASSUME NEW i \in Slots, i < Len(values)
                 PROVE  Expect(row, values)[i + 1] = 0 <=> row[i] = values[i + 1]
      OBVIOUS
    <2>1. i \in Nat /\ i + 1 \in 1..Len(values) /\ i + 1 - 1 = i
      BY <1>1, StackAssumption DEF Slots
    <2>2. Expect(row, values)[i + 1] = Sub(row[i], values[i + 1])
      BY <2>1 DEF Expect
    <2>3. row[i] \in Elements /\ values[i + 1] \in Elements
      BY <1>1, <2>1 DEF Rows
    <2> QED BY <2>2, <2>3, SubZero
  <1> QED BY <1>4, <1>5 DEF Starts

(* The three forms of constraints that compare with values. *)
LEMMA ExpectedCopies ==
  ASSUME NEW values \in Seq(Elements), NEW old \in Rows, NEW row \in Rows,
         Len(values) <= MaxStackDepth, NEW a, NEW b
  PROVE  Satisfied(Terms(Before(Expect(row, values), CopyTerms(old, row, Len(values))), <<a, b>>))
           <=> Copies(old, row, values) /\ a = 0 /\ b = 0
  <1> DEFINE k == Len(values)
             first == Expect(row, values)
             T == CopyTerms(old, row, k)
  <1>1. k \in Nat /\ k <= MaxStackDepth /\ Len(first) = k
    BY LenProperties, ExpectZero
  <1>2. (\A i \in Slots : i < k => first[i + 1] = 0) <=> Starts(row, values)
    BY ExpectZero
  <1> HIDE DEF first, k
  <1>3. DOMAIN T = Slots
    BY <1>1, CopyZero
  <1>4. \A i \in Slots : i >= k => (T[i] = 0 <=> row[i] = old[i])
    BY <1>1, CopyZero
  <1> HIDE DEF T
  <1>5. Satisfied(Terms(Before(first, T), <<a, b>>)) <=>
          /\ \A i \in Slots : i < k => first[i + 1] = 0
          /\ \A i \in Slots : i >= k => T[i] = 0
          /\ a = 0 /\ b = 0
    BY ONLY <1>1, <1>3, SatisfiedBefore
  <1>6. (\A i \in Slots : i >= k => T[i] = 0) <=> (\A i \in Slots : i >= k => row[i] = old[i])
    BY <1>4
  <1>7. Satisfied(Terms(Before(first, T), <<a, b>>)) <=> Copies(old, row, values) /\ a = 0 /\ b = 0
    BY <1>2, <1>5, <1>6 DEF Copies, k
  <1> QED BY <1>7 DEF first, T, k

(* values in front of a shift to the left *)
LEMMA ExpectedLifts ==
  ASSUME NEW values \in Seq(Elements), NEW old \in Rows, NEW row \in Rows, NEW n \in Nat,
         Len(values) <= MaxStackDepth, NEW from, from = Len(values) + n, NEW a, NEW b
  PROVE  Satisfied(Terms(Before(Expect(row, values), LeftShiftTerms(old, row, from, n, 0)), <<a, b>>))
           <=> Lifts(old, row, values, n) /\ a = 0 /\ b = 0
  <1> DEFINE k == Len(values)
             first == Expect(row, values)
             T == LeftShiftTerms(old, row, from, n, 0)
  <1>1. k \in Nat /\ k <= MaxStackDepth /\ Len(first) = k
    BY LenProperties, ExpectZero
  <1>2. (\A i \in Slots : i < k => first[i + 1] = 0) <=> Starts(row, values)
    BY ExpectZero
  <1>0. from = k + n
    OBVIOUS
  <1> HIDE DEF first, k
  <1> HIDE DEF T
  <1>3. AsksToLift(T, old, row, k, n)
    BY <1>0, <1>1, LeftShiftZero DEF T
  <1>4. /\ DOMAIN T = Slots
        /\ \A i \in Slots : i >= k => (T[i] = 0 <=> row[i] = Lifted(old, i, n))
    BY <1>3 DEF AsksToLift
  <1>5. Satisfied(Terms(Before(first, T), <<a, b>>)) <=>
          /\ \A i \in Slots : i < k => first[i + 1] = 0
          /\ \A i \in Slots : i >= k => T[i] = 0
          /\ a = 0 /\ b = 0
    BY ONLY <1>1, <1>4, SatisfiedBefore
  <1>6. (\A i \in Slots : i >= k => T[i] = 0) <=>
          (\A i \in Slots : i >= k => row[i] = Lifted(old, i, n))
    BY <1>4
  <1>7. Satisfied(Terms(Before(first, T), <<a, b>>)) <=> Lifts(old, row, values, n) /\ a = 0 /\ b = 0
    BY <1>2, <1>5, <1>6 DEF Lifts, k
  <1> QED BY <1>7 DEF first, T, k

(* values in front of a shift to the right *)
LEMMA ExpectedPushes ==
  ASSUME NEW values \in Seq(Elements), NEW old \in Rows, NEW row \in Rows,
         Len(values) <= MaxStackDepth, NEW a, NEW b
  PROVE  Satisfied(Terms(Before(Expect(row, values), RightShiftTerms(old, row, Len(values))), <<a, b>>))
           <=> Pushes(old, row, values) /\ a = 0 /\ b = 0
  <1> DEFINE k == Len(values)
             first == Expect(row, values)
             T == RightShiftTerms(old, row, k)
  <1>1. k \in Nat /\ k <= MaxStackDepth /\ Len(first) = k
    BY LenProperties, ExpectZero
  <1>2. (\A i \in Slots : i < k => first[i + 1] = 0) <=> Starts(row, values)
    BY ExpectZero
  <1> HIDE DEF first, k
  <1>3. DOMAIN T = Slots
    BY <1>1, RightShiftZero
  <1>4. \A i \in Slots : i >= k => (T[i] = 0 <=> row[i] = old[i - k])
    BY <1>1, RightShiftZero
  <1> HIDE DEF T
  <1>5. Satisfied(Terms(Before(first, T), <<a, b>>)) <=>
          /\ \A i \in Slots : i < k => first[i + 1] = 0
          /\ \A i \in Slots : i >= k => T[i] = 0
          /\ a = 0 /\ b = 0
    BY ONLY <1>1, <1>3, SatisfiedBefore
  <1>6. (\A i \in Slots : i >= k => T[i] = 0) <=> (\A i \in Slots : i >= k => row[i] = old[i - k])
    BY <1>4
  <1>7. Satisfied(Terms(Before(first, T), <<a, b>>)) <=> Pushes(old, row, values) /\ a = 0 /\ b = 0
    BY <1>2, <1>5, <1>6 DEF Pushes, k
  <1> QED BY <1>7 DEF first, T, k
-----------------------------------------------------------------------------
(* The constraints of an operation accept one row, and no other.           *)
Fixes(op, old, new, step) ==
  /\ Satisfied(TermsOf(op, old, new, step))
  /\ \A row \in Rows : Satisfied(TermsOf(op, old, row, step)) => row = new

(* The constraints of op compare a row with values, and behind them with   *)
(* the row before.                                                         *)
ComparesCopy(op, old, step, values, a, b) ==
  \A row \in Rows : TermsOf(op, old, row, step) =
    Terms(Before(Expect(row, values), CopyTerms(old, row, Len(values))), <<a, b>>)
ComparesLift(op, old, step, values, n, a, b) ==
  \A row \in Rows : TermsOf(op, old, row, step) =
    Terms(Before(Expect(row, values), LeftShiftTerms(old, row, Len(values) + n, n, 0)), <<a, b>>)
ComparesPush(op, old, step, values, a, b) ==
  \A row \in Rows : TermsOf(op, old, row, step) =
    Terms(Before(Expect(row, values), RightShiftTerms(old, row, Len(values))), <<a, b>>)

(* With values computed from the old row only, there is one next row. *)
LEMMA CopyFixes ==
  ASSUME NEW op, NEW step, NEW old \in Rows, NEW new \in Rows,
         NEW values \in Seq(Elements), Len(values) <= MaxStackDepth, Copies(old, new, values),
         NEW a, NEW b, a = 0, b = 0, ComparesCopy(op, old, step, values, a, b)
  PROVE  Fixes(op, old, new, step)
  <1>1. \A row \in Rows : Satisfied(TermsOf(op, old, row, step)) <=> Copies(old, row, values)
    <2> SUFFICES ASSUME NEW row \in Rows
                 PROVE  Satisfied(TermsOf(op, old, row, step)) <=> Copies(old, row, values)
      OBVIOUS
    <2> QED BY ExpectedCopies DEF ComparesCopy
  <1>2. \A row \in Rows : Copies(old, row, values) => row = new
    <2> SUFFICES ASSUME NEW row \in Rows, Copies(old, row, values) PROVE row = new
      OBVIOUS
    <2>1. Len(values) \in Nat
      BY LenProperties
    <2> QED BY <2>1, OneRow
  <1> QED BY <1>1, <1>2 DEF Fixes

(* the same in front of a shift to the left *)
LEMMA LiftFixes ==
  ASSUME NEW op, NEW step, NEW old \in Rows, NEW new \in Rows, NEW n \in Nat,
         NEW values \in Seq(Elements), Len(values) <= MaxStackDepth, Lifts(old, new, values, n),
         NEW a, NEW b, a = 0, b = 0, ComparesLift(op, old, step, values, n, a, b)
  PROVE  Fixes(op, old, new, step)
  <1>1. \A row \in Rows : Satisfied(TermsOf(op, old, row, step)) <=> Lifts(old, row, values, n)
    <2> SUFFICES ASSUME NEW row \in Rows
                 PROVE  Satisfied(TermsOf(op, old, row, step)) <=> Lifts(old, row, values, n)
      OBVIOUS
    <2> QED BY ExpectedLifts DEF ComparesLift
  <1>2. \A row \in Rows : Lifts(old, row, values, n) => row = new
    <2> SUFFICES ASSUME NEW row \in Rows, Lifts(old, row, values, n) PROVE row = new
      OBVIOUS
    <2>1. Len(values) \in Nat
      BY LenProperties
    <2> QED BY <2>1, OneRow
  <1> QED BY <1>1, <1>2 DEF Fixes

(* and in front of a shift to the right *)
LEMMA PushFixes ==
  ASSUME NEW op, NEW step, NEW old \in Rows, NEW new \in Rows,
         NEW values \in Seq(Elements), Len(values) <= MaxStackDepth, Pushes(old, new, values),
         NEW a, NEW b, a = 0, b = 0, ComparesPush(op, old, step, values, a, b)
  PROVE  Fixes(op, old, new, step)
  <1>1. \A row \in Rows : Satisfied(TermsOf(op, old, row, step)) <=> Pushes(old, row, values)
    <2> SUFFICES ASSUME NEW row \in Rows
                 PROVE  Satisfied(TermsOf(op, old, row, step)) <=> Pushes(old, row, values)
      OBVIOUS
    <2> QED BY ExpectedPushes DEF ComparesPush
  <1>2. \A row \in Rows : Pushes(old, row, values) => row = new
    <2> SUFFICES ASSUME NEW row \in Rows, Pushes(old, row, values) PROVE row = new
      OBVIOUS
    <2>1. Len(values) \in Nat
      BY LenProperties
    <2> QED BY <2>1, OneRow
  <1> QED BY <1>1, <1>2 DEF Fixes
-----------------------------------------------------------------------------
(* operations that permute the top of the stack *)
LEMMA PermutingFixes ==
  ASSUME RowOK, regs' \in Rows, NEW op, NEW hint, StackFault(op, hint) = "none",
         Perform(op, hint), op \in {"swap2", "swap4", "roll4", "roll8"}
  PROVE  Fixes(op, regs, regs', stackStep)
  <1>1. /\ depth \in Nat /\ depth >= Needed(op, hint) /\ regs \in Rows
        /\ depth <= MaxStackDepth /\ MaxStackDepth \in Nat
        /\ \A i \in 0..31 : i < depth => regs[i] \in Elements
    BY NoFault, ItemsAreElements, StackAssumption DEF RowOK, Needed, Rows
  <1>2. CASE op = "swap2"
    <2> DEFINE top == <<regs[2], regs[3], regs[0], regs[1]>>
    <2>1. depth >= 4
      BY <1>1, <1>2 DEF Needed
    <2>2. top \in Seq(Elements) /\ Len(top) = 4
      BY <1>1, <2>1
    <2>3. CopyState(top)
      BY <1>2 DEF Perform, OpSwap2
    <2>4. Copies(regs, regs', top)
      BY <2>2, <2>3, CopyStateCopies
    <2>5. ComparesCopy(op, regs, stackStep, top, 0, 0)
      <3> DEFINE from == <<2, 3, 0, 1>>
                 seq == [i \in 1..4 |-> regs[from[i]]]
      <3>1. seq = top
        OBVIOUS
      <3>2. \A row \in Rows : TermsOf(op, regs, row, stackStep) =
              Terms(Before(Expect(row, seq), CopyTerms(regs, row, 4)), <<0, 0>>)
        BY <1>2 DEF TermsOf, PermuteTerms, NoAux
      <3> QED BY <2>2, <3>1, <3>2 DEF ComparesCopy
    <2> HIDE DEF top
    <2>6. Len(top) <= MaxStackDepth /\ regs \in Rows
      BY <1>1, <2>1, <2>2
    <2> QED BY <2>2, <2>4, <2>5, <2>6, CopyFixes
  <1>3. CASE op = "swap4"
    <2> DEFINE top == <<regs[4], regs[5], regs[6], regs[7], regs[0], regs[1], regs[2], regs[3]>>
    <2>1. depth >= 8
      BY <1>1, <1>3 DEF Needed
    <2>2. top \in Seq(Elements) /\ Len(top) = 8
      BY <1>1, <2>1
    <2>3. CopyState(top)
      BY <1>3 DEF Perform, OpSwap4
    <2>4. Copies(regs, regs', top)
      BY <2>2, <2>3, CopyStateCopies
    <2>5. ComparesCopy(op, regs, stackStep, top, 0, 0)
      <3> DEFINE from == <<4, 5, 6, 7, 0, 1, 2, 3>>
                 seq == [i \in 1..8 |-> regs[from[i]]]
      <3>1. seq = top
        OBVIOUS
      <3>2. \A row \in Rows : TermsOf(op, regs, row, stackStep) =
              Terms(Before(Expect(row, seq), CopyTerms(regs, row, 8)), <<0, 0>>)
        BY <1>3 DEF TermsOf, PermuteTerms, NoAux
      <3> QED BY <2>2, <3>1, <3>2 DEF ComparesCopy
    <2> HIDE DEF top
    <2>6. Len(top) <= MaxStackDepth /\ regs \in Rows
      BY <1>1, <2>1, <2>2
    <2> QED BY <2>2, <2>4, <2>5, <2>6, CopyFixes
  <1>4. CASE op = "roll4"
    <2> DEFINE top == <<regs[3], regs[0], regs[1], regs[2]>>
    <2>1. depth >= 4
      BY <1>1, <1>4 DEF Needed
    <2>2. top \in Seq(Elements) /\ Len(top) = 4
      BY <1>1, <2>1
    <2>3. CopyState(top)
      BY <1>4 DEF Perform, OpRoll4
    <2>4. Copies(regs, regs', top)
      BY <2>2, <2>3, CopyStateCopies
    <2>5. ComparesCopy(op, regs, stackStep, top, 0, 0)
      <3> DEFINE from == <<3, 0, 1, 2>>
                 seq == [i \in 1..4 |-> regs[from[i]]]
      <3>1. seq = top
        OBVIOUS
      <3>2. \A row \in Rows : TermsOf(op, regs, row, stackStep) =
              Terms(Before(Expect(row, seq), CopyTerms(regs, row, 4)), <<0, 0>>)
        BY <1>4 DEF TermsOf, PermuteTerms, NoAux
      <3> QED BY <2>2, <3>1, <3>2 DEF ComparesCopy
    <2> HIDE DEF top
    <2>6. Len(top) <= MaxStackDepth /\ regs \in Rows
      BY <1>1, <2>1, <2>2
    <2> QED BY <2>2, <2>4, <2>5, <2>6, CopyFixes
  <1>5. CASE op = "roll8"
    <2> DEFINE top == <<regs[7], regs[0], regs[1], regs[2], regs[3], regs[4], regs[5], regs[6]>>
    <2>1. depth >= 8
      BY <1>1, <1>5 DEF Needed
    <2>2. top \in Seq(Elements) /\ Len(top) = 8
      BY <1>1, <2>1
    <2>3. CopyState(top)
      BY <1>5 DEF Perform, OpRoll8
    <2>4. Copies(regs, regs', top)
      BY <2>2, <2>3, CopyStateCopies
    <2>5. ComparesCopy(op, regs, stackStep, top, 0, 0)
      <3> DEFINE from == <<7, 0, 1, 2, 3, 4, 5, 6>>
                 seq == [i \in 1..8 |-> regs[from[i]]]
      <3>1. seq = top
        OBVIOUS
      <3>2. \A row \in Rows : TermsOf(op, regs, row, stackStep) =
              Terms(Before(Expect(row, seq), CopyTerms(regs, row, 8)), <<0, 0>>)
        BY <1>5 DEF TermsOf, PermuteTerms, NoAux
      <3> QED BY <2>2, <3>1, <3>2 DEF ComparesCopy
    <2> HIDE DEF top
    <2>6. Len(top) <= MaxStackDepth /\ regs \in Rows
      BY <1>1, <2>1, <2>2
    <2> QED BY <2>2, <2>4, <2>5, <2>6, CopyFixes
  <1> QED BY <1>2, <1>3, <1>4, <1>5
-----------------------------------------------------------------------------
(* Without values in front, all registers are copied or shifted. *)
LEMMA NothingInFront ==
  ASSUME NEW old \in Rows, NEW row \in Rows, NEW n \in Nat, NEW a, NEW b
  PROVE  /\ Satisfied(Terms(CopyTerms(old, row, 0), <<a, b>>))
              <=> Copies(old, row, << >>) /\ a = 0 /\ b = 0
         /\ Satisfied(Terms(LeftShiftTerms(old, row, n, n, 0), <<a, b>>))
              <=> Lifts(old, row, << >>, n) /\ a = 0 /\ b = 0
  <1> DEFINE C == CopyTerms(old, row, 0)
             L == LeftShiftTerms(old, row, n, n, 0)
  <1>1. Len(<< >>) = 0 /\ (\A i \in Slots : i \in Nat) /\ n = 0 + n
    BY StackAssumption DEF Slots
  <1>2. DOMAIN C = Slots /\ \A i \in Slots : i >= 0 => (C[i] = 0 <=> row[i] = old[i])
    BY CopyZero
  <1>3. AsksToLift(L, old, row, 0, n)
    BY <1>1, LeftShiftZero
  <1> HIDE DEF C, L
  <1>4. Satisfied(Terms(C, <<a, b>>)) <=> Copies(old, row, << >>) /\ a = 0 /\ b = 0
    <2>1. (\A i \in Slots : C[i] = 0) <=> Copies(old, row, << >>)
      BY <1>1, <1>2 DEF Copies, Starts
    <2> QED BY <1>2, <2>1, SatisfiedPlain
  <1>5. Satisfied(Terms(L, <<a, b>>)) <=> Lifts(old, row, << >>, n) /\ a = 0 /\ b = 0
    <2>1. (\A i \in Slots : L[i] = 0) <=> Lifts(old, row, << >>, n)
      BY <1>1, <1>3 DEF AsksToLift, Lifts, Starts
    <2>2. DOMAIN L = Slots
      BY <1>3 DEF AsksToLift
    <2> QED BY <2>1, <2>2, SatisfiedPlain
  <1> QED BY <1>4, <1>5 DEF C, L

(* operations that only drop items, or change nothing *)
LEMMA DroppingFixes ==
  ASSUME RowOK, regs' \in Rows, NEW op, NEW hint, StackFault(op, hint) = "none",
         Perform(op, hint), op \in {"begin", "noop", "assert", "asserteq", "drop", "drop4"}
  PROVE  Fixes(op, regs, regs', stackStep)
  <1>1. /\ depth \in Nat /\ depth >= Needed(op, hint) /\ regs \in Rows
        /\ depth <= MaxStackDepth /\ MaxStackDepth \in Nat
        /\ \A i \in 0..31 : i < depth => regs[i] \in Elements
    BY NoFault, ItemsAreElements, StackAssumption DEF RowOK, Needed, Rows
  <1>2. Len(<< >>) = 0
    OBVIOUS
  <1>3. ASSUME NEW n \in Nat, NEW a, NEW b, a = 0, b = 0, Lifts(regs, regs', << >>, n),
               \A row \in Rows : TermsOf(op, regs, row, stackStep) =
                 Terms(LeftShiftTerms(regs, row, n, n, 0), <<a, b>>)
        PROVE  Fixes(op, regs, regs', stackStep)
    <2>1. \A row \in Rows : Satisfied(TermsOf(op, regs, row, stackStep)) <=> Lifts(regs, row, << >>, n)
      <3> SUFFICES ASSUME NEW row \in Rows
                   PROVE  Satisfied(TermsOf(op, regs, row, stackStep)) <=> Lifts(regs, row, << >>, n)
        OBVIOUS
      <3>1. TermsOf(op, regs, row, stackStep) = Terms(LeftShiftTerms(regs, row, n, n, 0), <<a, b>>)
        BY <1>3
      <3>2. Satisfied(Terms(LeftShiftTerms(regs, row, n, n, 0), <<a, b>>)) <=> Lifts(regs, row, << >>, n)
        BY <1>1, <1>3, NothingInFront
      <3> QED BY <3>1, <3>2
    <2>2. \A row \in Rows : Lifts(regs, row, << >>, n) => row = regs'
      BY <1>2, <1>3, OneRow
    <2> QED BY <1>3, <2>1, <2>2 DEF Fixes
  <1>4. CASE op \in {"begin", "noop"}
    <2>1. CopyState(<< >>)
      BY <1>4 DEF Perform, OpNoop
    <2>2. Copies(regs, regs', << >>)
      BY <1>2, <2>1, CopyStateCopies
    <2>3. \A row \in Rows : TermsOf(op, regs, row, stackStep) = Terms(CopyTerms(regs, row, 0), <<0, 0>>)
      BY <1>4 DEF TermsOf, NoAux
    <2>4. \A row \in Rows : Satisfied(TermsOf(op, regs, row, stackStep)) <=> Copies(regs, row, << >>)
      BY <1>1, <2>3, NothingInFront
    <2>5. \A row \in Rows : Copies(regs, row, << >>) => row = regs'
      BY <1>2, <2>2, OneRow
    <2> QED BY <2>2, <2>4, <2>5 DEF Fixes
  <1>5. CASE op = "assert"
    <2>1. depth >= 1
      BY <1>1, <1>5 DEF Needed
    <2>2. ShiftLeft(<< >>, 1, 1)
      BY <1>5 DEF Perform, OpAssert
    <2>3. 1 \in Nat /\ 1 <= Len(<< >>) + 1
      BY <1>2
    <2>4. Lifts(regs, regs', << >>, 1)
      BY <1>2, <2>2, <2>3, ShiftLeftLifts
    <2>5. \A row \in Rows : TermsOf(op, regs, row, stackStep) =
            Terms(LeftShiftTerms(regs, row, 1, 1, 0), <<Sub(1, regs[0]), 0>>)
      BY <1>5 DEF TermsOf, EqualityTerms
    <2>6. regs[0] = 1
      BY <1>5 DEF StackFault, ValueFault
    <2>7. Sub(1, regs[0]) = 0
      BY <1>1, <2>1, <2>6, SubZero, SmallElements
    <2> QED BY <2>3, <2>4, <2>5, <2>7, <1>3
  <1>6. CASE op = "asserteq"
    <2>1. depth >= 2
      BY <1>1, <1>6 DEF Needed
    <2>2. ShiftLeft(<< >>, 2, 2)
      BY <1>6 DEF Perform, OpAssertEq
    <2>3. 2 \in Nat /\ 2 <= Len(<< >>) + 2
      BY <1>2
    <2>4. Lifts(regs, regs', << >>, 2)
      BY <1>2, <2>2, <2>3, ShiftLeftLifts
    <2>5. \A row \in Rows : TermsOf(op, regs, row, stackStep) =
            Terms(LeftShiftTerms(regs, row, 2, 2, 0), <<Sub(regs[0], regs[1]), 0>>)
      BY <1>6 DEF TermsOf, EqualityTerms
    <2>6. regs[0] = regs[1]
      BY <1>6 DEF StackFault, ValueFault
    <2>7. Sub(regs[0], regs[1]) = 0
      BY <1>1, <2>1, <2>6, SubZero
    <2> QED BY <2>3, <2>4, <2>5, <2>7, <1>3
  <1>7. CASE op = "drop"
    <2>1. depth >= 1
      BY <1>1, <1>7 DEF Needed
    <2>2. ShiftLeft(<< >>, 1, 1)
      BY <1>7 DEF Perform, OpDrop
    <2>3. 1 \in Nat /\ 1 <= Len(<< >>) + 1
      BY <1>2
    <2>4. Lifts(regs, regs', << >>, 1)
      BY <1>2, <2>2, <2>3, ShiftLeftLifts
    <2>5. \A row \in Rows : TermsOf(op, regs, row, stackStep) =
            Terms(LeftShiftTerms(regs, row, 1, 1, 0), <<0, 0>>)
      BY <1>7 DEF TermsOf, DropTerms, NoAux
    <2> QED BY <2>3, <2>4, <2>5, <1>3
  <1>8. CASE op = "drop4"
    <2>1. depth >= 4
      BY <1>1, <1>8 DEF Needed
    <2>2. ShiftLeft(<< >>, 4, 4)
      BY <1>8 DEF Perform, OpDrop4
    <2>3. 4 \in Nat /\ 4 <= Len(<< >>) + 4
      BY <1>2
    <2>4. Lifts(regs, regs', << >>, 4)
      BY <1>2, <2>2, <2>3, ShiftLeftLifts
    <2>5. \A row \in Rows : TermsOf(op, regs, row, stackStep) =
            Terms(LeftShiftTerms(regs, row, 4, 4, 0), <<0, 0>>)
      BY <1>8 DEF TermsOf, DropTerms, NoAux
    <2> QED BY <2>3, <2>4, <2>5, <1>3
  <1> QED BY <1>4, <1>5, <1>6, <1>7, <1>8
-----------------------------------------------------------------------------
(* operations that duplicate items or add zeros *)
LEMMA DuplicatingFixes ==
  ASSUME RowOK, regs' \in Rows, NEW op, NEW hint, StackFault(op, hint) = "none",
         Perform(op, hint), op \in {"dup", "dup2", "dup4", "pad2"}
  PROVE  Fixes(op, regs, regs', stackStep)
  <1>1. /\ depth \in Nat /\ depth >= Needed(op, hint) /\ regs \in Rows
        /\ depth <= MaxStackDepth /\ MaxStackDepth \in Nat
        /\ \A i \in 0..31 : i < depth => regs[i] \in Elements
    BY NoFault, ItemsAreElements, StackAssumption DEF RowOK, Needed, Rows
  <1>2. CASE op = "dup"
    <2> DEFINE top == <<regs[0]>>
    <2>1. depth >= 1 /\ depth + 1 <= MaxStackDepth
      BY <1>1, <1>2, NoFault DEF Needed, Added
    <2>2. top \in Seq(Elements) /\ Len(top) = 1
      BY <1>1, <2>1, SmallElements
    <2>3. ShiftRight(top)
      BY <1>2 DEF Perform, OpDup
    <2>4. Pushes(regs, regs', top)
      BY <2>2, <2>3, ShiftRightPushes
    <2>5. ComparesPush(op, regs, stackStep, top, 0, 0)
      <3> DEFINE seq == [i \in 1..1 |-> IF op = "pad2" THEN 0 ELSE regs[i - 1]]
      <3>1. seq = top
        BY <1>2
      <3>2. \A row \in Rows : TermsOf(op, regs, row, stackStep) =
              Terms(Before(Expect(row, seq), RightShiftTerms(regs, row, 1)), <<0, 0>>)
        BY <1>2 DEF TermsOf, DupTerms, NoAux
      <3> QED BY <2>2, <3>1, <3>2 DEF ComparesPush
    <2> HIDE DEF top
    <2>6. Len(top) <= MaxStackDepth /\ regs \in Rows
      BY <1>1, <2>1, <2>2
    <2> QED BY <2>2, <2>4, <2>5, <2>6, PushFixes
  <1>3. CASE op = "dup2"
    <2> DEFINE top == <<regs[0], regs[1]>>
    <2>1. depth >= 2 /\ depth + 2 <= MaxStackDepth
      BY <1>1, <1>3, NoFault DEF Needed, Added
    <2>2. top \in Seq(Elements) /\ Len(top) = 2
      BY <1>1, <2>1, SmallElements
    <2>3. ShiftRight(top)
      BY <1>3 DEF Perform, OpDup2
    <2>4. Pushes(regs, regs', top)
      BY <2>2, <2>3, ShiftRightPushes
    <2>5. ComparesPush(op, regs, stackStep, top, 0, 0)
      <3> DEFINE seq == [i \in 1..2 |-> IF op = "pad2" THEN 0 ELSE regs[i - 1]]
      <3>1. seq = top
        BY <1>3
      <3>2. \A row \in Rows : TermsOf(op, regs, row, stackStep) =
              Terms(Before(Expect(row, seq), RightShiftTerms(regs, row, 2)), <<0, 0>>)
        BY <1>3 DEF TermsOf, DupTerms, NoAux
      <3> QED BY <2>2, <3>1, <3>2 DEF ComparesPush
    <2> HIDE DEF top
    <2>6. Len(top) <= MaxStackDepth /\ regs \in Rows
      BY <1>1, <2>1, <2>2
    <2> QED BY <2>2, <2>4, <2>5, <2>6, PushFixes
  <1>4. CASE op = "dup4"
    <2> DEFINE top == <<regs[0], regs[1], regs[2], regs[3]>>
    <2>1. depth >= 4 /\ depth + 4 <= MaxStackDepth
      BY <1>1, <1>4, NoFault DEF Needed, Added
    <2>2. top \in Seq(Elements) /\ Len(top) = 4
      BY <1>1, <2>1, SmallElements
    <2>3. ShiftRight(top)
      BY <1>4 DEF Perform, OpDup4
    <2>4. Pushes(regs, regs', top)
      BY <2>2, <2>3, ShiftRightPushes
    <2>5. ComparesPush(op, regs, stackStep, top, 0, 0)
      <3> DEFINE seq == [i \in 1..4 |-> IF op = "pad2" THEN 0 ELSE regs[i - 1]]
      <3>1. seq = top
        BY <1>4
      <3>2. \A row \in Rows : TermsOf(op, regs, row, stackStep) =
              Terms(Before(Expect(row, seq), RightShiftTerms(regs, row, 4)), <<0, 0>>)
        BY <1>4 DEF TermsOf, DupTerms, NoAux
      <3> QED BY <2>2, <3>1, <3>2 DEF ComparesPush
    <2> HIDE DEF top
    <2>6. Len(top) <= MaxStackDepth /\ regs \in Rows
      BY <1>1, <2>1, <2>2
    <2> QED BY <2>2, <2>4, <2>5, <2>6, PushFixes
  <1>5. CASE op = "pad2"
    <2> DEFINE top == <<0, 0>>
    <2>1. depth >= 0 /\ depth + 2 <= MaxStackDepth
      BY <1>1, <1>5, NoFault DEF Needed, Added
    <2>2. top \in Seq(Elements) /\ Len(top) = 2
      BY <1>1, <2>1, SmallElements
    <2>3. ShiftRight(top)
      BY <1>5 DEF Perform, OpPad2
    <2>4. Pushes(regs, regs', top)
      BY <2>2, <2>3, ShiftRightPushes
    <2>5. ComparesPush(op, regs, stackStep, top, 0, 0)
      <3> DEFINE seq == [i \in 1..2 |-> IF op = "pad2" THEN 0 ELSE regs[i - 1]]
      <3>1. seq = top
        BY <1>5
      <3>2. \A row \in Rows : TermsOf(op, regs, row, stackStep) =
              Terms(Before(Expect(row, seq), RightShiftTerms(regs, row, 2)), <<0, 0>>)
        BY <1>5 DEF TermsOf, DupTerms, NoAux
      <3> QED BY <2>2, <3>1, <3>2 DEF ComparesPush
    <2> HIDE DEF top
    <2>6. Len(top) <= MaxStackDepth /\ regs \in Rows
      BY <1>1, <2>1, <2>2
    <2> QED BY <2>2, <2>4, <2>5, <2>6, PushFixes
  <1> QED BY <1>2, <1>3, <1>4, <1>5

(* The products that the constraints of AND and OR compute are the operations on bits. *)
LEMMA BitTerms ==
  ASSUME NEW p \in Elements, NEW q \in Elements, IsBinary(p), IsBinary(q)
  PROVE  /\ Mul(p, q) = IF p = 1 /\ q = 1 THEN 1 ELSE 0
         /\ Sub(1, Mul(Sub(1, p), Sub(1, q))) = IF p = 1 \/ q = 1 THEN 1 ELSE 0
  <1>1. /\ Mul(0, 0) = 0 /\ Mul(0, 1) = 0 /\ Mul(1, 0) = 0 /\ Mul(1, 1) = 1
        /\ Sub(1, 0) = 1 /\ Sub(1, 1) = 0
    BY SmallElements, BitArithmetic
  <1> QED BY <1>1 DEF IsBinary

(* operations that put one item in the place of two *)
LEMMA BinaryFixes ==
  ASSUME RowOK, regs' \in Rows, NEW op, NEW hint, StackFault(op, hint) = "none",
         Perform(op, hint), op \in {"add", "mul", "and", "or"}
  PROVE  Fixes(op, regs, regs', stackStep)
  <1>1. /\ depth \in Nat /\ depth >= Needed(op, hint) /\ regs \in Rows
        /\ depth <= MaxStackDepth /\ MaxStackDepth \in Nat
        /\ \A i \in 0..31 : i < depth => regs[i] \in Elements
    BY NoFault, ItemsAreElements, StackAssumption DEF RowOK, Needed, Rows
  <1>2. CASE op = "add"
    <2> DEFINE value == Add(regs[0], regs[1])
               top == <<value>>
    <2>1. depth >= 2 /\ regs[0] \in Elements /\ regs[1] \in Elements
      BY <1>1, <1>2 DEF Needed
    <2>2. value \in Elements
      BY <2>1, FieldClosed, SmallElements
    <2>3. ShiftLeft(top, 2, 1)
      BY <1>2 DEF Perform, OpAdd
    <2>7. \A row \in Rows : TermsOf(op, regs, row, stackStep) =
            Terms(Before(Expect(row, <<Add(regs[0], regs[1])>>), LeftShiftTerms(regs, row, 2, 1, 0)), <<0, 0>>)
      BY <1>2 DEF TermsOf, ArithmeticTerms, NoAux
    <2> HIDE DEF value
    <2>8. top \in Seq(Elements) /\ Len(top) = 1
      BY <2>2
    <2>9. ComparesLift(op, regs, stackStep, top, 1, 0, 0)
      BY <2>7, <2>8 DEF ComparesLift, value
    <2> HIDE DEF top
    <2>10. 2 \in Nat /\ 1 \in Nat /\ 2 <= Len(top) + 1 /\ Len(top) \in Nat
      BY <2>8
    <2>11. Lifts(regs, regs', top, 1)
      BY <2>3, <2>10, ShiftLeftLifts
    <2>12. Len(top) <= MaxStackDepth /\ regs \in Rows
      BY <1>1, <2>1, <2>8
    <2> QED BY <2>8, <2>9, <2>10, <2>11, <2>12, LiftFixes
  <1>3. CASE op = "mul"
    <2> DEFINE value == Mul(regs[0], regs[1])
               top == <<value>>
    <2>1. depth >= 2 /\ regs[0] \in Elements /\ regs[1] \in Elements
      BY <1>1, <1>3 DEF Needed
    <2>2. value \in Elements
      BY <2>1, FieldClosed, SmallElements
    <2>3. ShiftLeft(top, 2, 1)
      BY <1>3 DEF Perform, OpMul
    <2>7. \A row \in Rows : TermsOf(op, regs, row, stackStep) =
            Terms(Before(Expect(row, <<Mul(regs[0], regs[1])>>), LeftShiftTerms(regs, row, 2, 1, 0)), <<0, 0>>)
      BY <1>3 DEF TermsOf, ArithmeticTerms, NoAux
    <2> HIDE DEF value
    <2>8. top \in Seq(Elements) /\ Len(top) = 1
      BY <2>2
    <2>9. ComparesLift(op, regs, stackStep, top, 1, 0, 0)
      BY <2>7, <2>8 DEF ComparesLift, value
    <2> HIDE DEF top
    <2>10. 2 \in Nat /\ 1 \in Nat /\ 2 <= Len(top) + 1 /\ Len(top) \in Nat
      BY <2>8
    <2>11. Lifts(regs, regs', top, 1)
      BY <2>3, <2>10, ShiftLeftLifts
    <2>12. Len(top) <= MaxStackDepth /\ regs \in Rows
      BY <1>1, <2>1, <2>8
    <2> QED BY <2>8, <2>9, <2>10, <2>11, <2>12, LiftFixes
  <1>4. CASE op = "and"
    <2> DEFINE value == IF regs[0] = 1 /\ regs[1] = 1 THEN 1 ELSE 0
               top == <<value>>
    <2>1. depth >= 2 /\ regs[0] \in Elements /\ regs[1] \in Elements
      BY <1>1, <1>4 DEF Needed
    <2>2. value \in Elements
      BY <2>1, FieldClosed, SmallElements
    <2>3. ShiftLeft(top, 2, 1)
      BY <1>4 DEF Perform, OpAnd
    <2>4. IsBinary(regs[0]) /\ IsBinary(regs[1])
      BY <1>4 DEF StackFault, ValueFault
    <2>5. NotBinary(regs[0]) = 0 /\ NotBinary(regs[1]) = 0
      BY <2>1, <2>4, BitsAreBinary
    <2>6. Mul(regs[0], regs[1]) = value
      BY <2>1, <2>4, BitTerms
    <2>7. \A row \in Rows : TermsOf(op, regs, row, stackStep) =
            Terms(Before(Expect(row, <<Mul(regs[0], regs[1])>>), LeftShiftTerms(regs, row, 2, 1, 0)), <<NotBinary(regs[0]), NotBinary(regs[1])>>)
      BY <1>4 DEF TermsOf, ArithmeticTerms, NoAux
    <2> HIDE DEF value
    <2>8. top \in Seq(Elements) /\ Len(top) = 1
      BY <2>2
    <2>9. ComparesLift(op, regs, stackStep, top, 1, NotBinary(regs[0]), NotBinary(regs[1]))
      BY <2>6, <2>7, <2>8 DEF ComparesLift
    <2> HIDE DEF top
    <2>10. 2 \in Nat /\ 1 \in Nat /\ 2 <= Len(top) + 1 /\ Len(top) \in Nat
      BY <2>8
    <2>11. Lifts(regs, regs', top, 1)
      BY <2>3, <2>10, ShiftLeftLifts
    <2>12. Len(top) <= MaxStackDepth /\ regs \in Rows
      BY <1>1, <2>1, <2>8
    <2> QED BY <2>5, <2>8, <2>9, <2>10, <2>11, <2>12, LiftFixes
  <1>5. CASE op = "or"
    <2> DEFINE value == IF regs[0] = 1 \/ regs[1] = 1 THEN 1 ELSE 0
               top == <<value>>
    <2>1. depth >= 2 /\ regs[0] \in Elements /\ regs[1] \in Elements
      BY <1>1, <1>5 DEF Needed
    <2>2. value \in Elements
      BY <2>1, FieldClosed, SmallElements
    <2>3. ShiftLeft(top, 2, 1)
      BY <1>5 DEF Perform, OpOr
    <2>4. IsBinary(regs[0]) /\ IsBinary(regs[1])
      BY <1>5 DEF StackFault, ValueFault
    <2>5. NotBinary(regs[0]) = 0 /\ NotBinary(regs[1]) = 0
      BY <2>1, <2>4, BitsAreBinary
    <2>6. Sub(1, Mul(Sub(1, regs[0]), Sub(1, regs[1]))) = value
      BY <2>1, <2>4, BitTerms
    <2>7. \A row \in Rows : TermsOf(op, regs, row, stackStep) =
            Terms(Before(Expect(row, <<Sub(1, Mul(Sub(1, regs[0]), Sub(1, regs[1])))>>), LeftShiftTerms(regs, row, 2, 1, 0)), <<NotBinary(regs[0]), NotBinary(regs[1])>>)
      BY <1>5 DEF TermsOf, ArithmeticTerms, NoAux
    <2> HIDE DEF value
    <2>8. top \in Seq(Elements) /\ Len(top) = 1
      BY <2>2
    <2>9. ComparesLift(op, regs, stackStep, top, 1, NotBinary(regs[0]), NotBinary(regs[1]))
      BY <2>6, <2>7, <2>8 DEF ComparesLift
    <2> HIDE DEF top
    <2>10. 2 \in Nat /\ 1 \in Nat /\ 2 <= Len(top) + 1 /\ Len(top) \in Nat
      BY <2>8
    <2>11. Lifts(regs, regs', top, 1)
      BY <2>3, <2>10, ShiftLeftLifts
    <2>12. Len(top) <= MaxStackDepth /\ regs \in Rows
      BY <1>1, <2>1, <2>8
    <2> QED BY <2>5, <2>8, <2>9, <2>10, <2>11, <2>12, LiftFixes
  <1> QED BY <1>2, <1>3, <1>4, <1>5

(* What the constraints of a choice add up is what was chosen. *)
Pick(c, p, q) == Add(Mul(c, p), Mul(Sub(1, c), q))

(* Its value is the one of the two. *)
LEMMA PickOne ==
  ASSUME NEW c, IsBinary(c), NEW p \in Elements, NEW q \in Elements
  PROVE  Pick(c, p, q) = IF c = 1 THEN p ELSE q
  <1>1. Mul(1, p) = p /\ Mul(0, p) = 0 /\ Mul(1, q) = q /\ Mul(0, q) = 0
    BY SmallElements, BitArithmetic
  <1>2. Sub(1, 1) = 0 /\ Sub(1, 0) = 1 /\ Add(p, 0) = p
    BY BitArithmetic
  <1>3. Add(0, q) = q
    BY FieldAssumption DEF Add, Elements
  <1> QED BY <1>1, <1>2, <1>3 DEF IsBinary, Pick

(* operations that choose by an item *)
LEMMA ChoosingFixes ==
  ASSUME RowOK, regs' \in Rows, NEW op, NEW hint, StackFault(op, hint) = "none",
         Perform(op, hint), op \in {"choose", "choose2", "cswap2"}
  PROVE  Fixes(op, regs, regs', stackStep)
  <1>1. /\ depth \in Nat /\ depth >= Needed(op, hint) /\ regs \in Rows
        /\ depth <= MaxStackDepth /\ MaxStackDepth \in Nat
        /\ \A i \in 0..31 : i < depth => regs[i] \in Elements
    BY NoFault, ItemsAreElements, StackAssumption DEF RowOK, Needed, Rows
  <1>2. CASE op = "choose"
    <2> DEFINE top == <<IF regs[2] = 1 THEN regs[0] ELSE regs[1]>>
               picked == <<Pick(regs[2], regs[0], regs[1])>>
    <2>1. /\ depth >= 3
          /\ regs[0] \in Elements /\ regs[1] \in Elements /\ regs[2] \in Elements
      BY <1>1, <1>2 DEF Needed
    <2>2. IsBinary(regs[2])
      BY <1>2 DEF StackFault, ValueFault
    <2>3. ShiftLeft(top, 3, 2)
      BY <1>2 DEF Perform, OpChoose
    <2>4. /\ Pick(regs[2], regs[0], regs[1]) = (IF regs[2] = 1 THEN regs[0] ELSE regs[1])
      BY <2>1, <2>2, PickOne
    <2>5. picked = top
      BY <2>4
    <2>6. NotBinary(regs[2]) = 0
      BY <2>1, <2>2, BitsAreBinary
    <2>7. \A row \in Rows : TermsOf(op, regs, row, stackStep) =
            Terms(Before(Expect(row, picked), LeftShiftTerms(regs, row, 3, 2, 0)),
                  <<NotBinary(regs[2]), 0>>)
      BY <1>2 DEF TermsOf, ConditionalTerms, Pick
    <2> HIDE DEF picked
    <2>8. top \in Seq(Elements) /\ Len(top) = 1
      BY <2>1
    <2> HIDE DEF top
    <2>9. ComparesLift(op, regs, stackStep, top, 2, NotBinary(regs[2]), 0)
      BY <2>5, <2>7, <2>8 DEF ComparesLift
    <2>10. 3 \in Nat /\ 2 \in Nat /\ 3 <= Len(top) + 2 /\ Len(top) \in Nat
      BY <2>8
    <2>11. Lifts(regs, regs', top, 2)
      BY <2>3, <2>10, ShiftLeftLifts
    <2>12. Len(top) <= MaxStackDepth /\ regs \in Rows
      BY <1>1, <2>1, <2>8
    <2> QED BY <2>6, <2>8, <2>9, <2>10, <2>11, <2>12, LiftFixes
  <1>3. CASE op = "choose2"
    <2> DEFINE top == IF regs[4] = 1 THEN <<regs[0], regs[1]>> ELSE <<regs[2], regs[3]>>
               picked == <<Pick(regs[4], regs[0], regs[2]),
                           Pick(regs[4], regs[1], regs[3])>>
    <2>1. /\ depth >= 6
          /\ regs[0] \in Elements /\ regs[1] \in Elements /\ regs[2] \in Elements /\ regs[3] \in Elements /\ regs[4] \in Elements
      BY <1>1, <1>3 DEF Needed
    <2>2. IsBinary(regs[4])
      BY <1>3 DEF StackFault, ValueFault
    <2>3. ShiftLeft(top, 6, 4)
      BY <1>3 DEF Perform, OpChoose2
    <2>4. /\ Pick(regs[4], regs[0], regs[2]) = (IF regs[4] = 1 THEN regs[0] ELSE regs[2])
          /\ Pick(regs[4], regs[1], regs[3]) = (IF regs[4] = 1 THEN regs[1] ELSE regs[3])
      BY <2>1, <2>2, PickOne
    <2>5. picked = top
      BY <2>4
    <2>6. NotBinary(regs[4]) = 0
      BY <2>1, <2>2, BitsAreBinary
    <2>7. \A row \in Rows : TermsOf(op, regs, row, stackStep) =
            Terms(Before(Expect(row, picked), LeftShiftTerms(regs, row, 6, 4, 0)),
                  <<NotBinary(regs[4]), 0>>)
      BY <1>3 DEF TermsOf, ConditionalTerms, Pick
    <2> HIDE DEF picked
    <2>8. top \in Seq(Elements) /\ Len(top) = 2
      BY <2>1
    <2> HIDE DEF top
    <2>9. ComparesLift(op, regs, stackStep, top, 4, NotBinary(regs[4]), 0)
      BY <2>5, <2>7, <2>8 DEF ComparesLift
    <2>10. 6 \in Nat /\ 4 \in Nat /\ 6 <= Len(top) + 4 /\ Len(top) \in Nat
      BY <2>8
    <2>11. Lifts(regs, regs', top, 4)
      BY <2>3, <2>10, ShiftLeftLifts
    <2>12. Len(top) <= MaxStackDepth /\ regs \in Rows
      BY <1>1, <2>1, <2>8
    <2> QED BY <2>6, <2>8, <2>9, <2>10, <2>11, <2>12, LiftFixes
  <1>4. CASE op = "cswap2"
    <2> DEFINE top == IF regs[4] = 1 THEN <<regs[2], regs[3], regs[0], regs[1]>> ELSE <<regs[0], regs[1], regs[2], regs[3]>>
               picked == <<Pick(regs[4], regs[2], regs[0]),
                           Pick(regs[4], regs[3], regs[1]),
                           Pick(regs[4], regs[0], regs[2]),
                           Pick(regs[4], regs[1], regs[3])>>
    <2>1. /\ depth >= 6
          /\ regs[0] \in Elements /\ regs[1] \in Elements /\ regs[2] \in Elements /\ regs[3] \in Elements /\ regs[4] \in Elements
      BY <1>1, <1>4 DEF Needed
    <2>2. IsBinary(regs[4])
      BY <1>4 DEF StackFault, ValueFault
    <2>3. ShiftLeft(top, 6, 2)
      BY <1>4 DEF Perform, OpCSwap2
    <2>4. /\ Pick(regs[4], regs[2], regs[0]) = (IF regs[4] = 1 THEN regs[2] ELSE regs[0])
          /\ Pick(regs[4], regs[3], regs[1]) = (IF regs[4] = 1 THEN regs[3] ELSE regs[1])
          /\ Pick(regs[4], regs[0], regs[2]) = (IF regs[4] = 1 THEN regs[0] ELSE regs[2])
          /\ Pick(regs[4], regs[1], regs[3]) = (IF regs[4] = 1 THEN regs[1] ELSE regs[3])
      BY <2>1, <2>2, PickOne
    <2>5. picked = top
      BY <2>4
    <2>6. NotBinary(regs[4]) = 0
      BY <2>1, <2>2, BitsAreBinary
    <2>7. \A row \in Rows : TermsOf(op, regs, row, stackStep) =
            Terms(Before(Expect(row, picked), LeftShiftTerms(regs, row, 6, 2, 0)),
                  <<NotBinary(regs[4]), 0>>)
      BY <1>4 DEF TermsOf, ConditionalTerms, Pick
    <2> HIDE DEF picked
    <2>8. top \in Seq(Elements) /\ Len(top) = 4
      BY <2>1
    <2> HIDE DEF top
    <2>9. ComparesLift(op, regs, stackStep, top, 2, NotBinary(regs[4]), 0)
      BY <2>5, <2>7, <2>8 DEF ComparesLift
    <2>10. 6 \in Nat /\ 2 \in Nat /\ 6 <= Len(top) + 2 /\ Len(top) \in Nat
      BY <2>8
    <2>11. Lifts(regs, regs', top, 2)
      BY <2>3, <2>10, ShiftLeftLifts
    <2>12. Len(top) <= MaxStackDepth /\ regs \in Rows
      BY <1>1, <2>1, <2>8
    <2> QED BY <2>6, <2>8, <2>9, <2>10, <2>11, <2>12, LiftFixes
  <1> QED BY <1>2, <1>3, <1>4

(* One value in place of another: the constraint on it need only have one  *)
(* solution.                                                               *)
LEMMA InPlaceZero ==
  ASSUME NEW old \in Rows, NEW row \in Rows, NEW v, NEW a, NEW b, MaxStackDepth >= 1
  PROVE  Satisfied(Terms(Before(<<v>>, CopyTerms(old, row, 1)), <<a, b>>)) <=>
           /\ v = 0 /\ a = 0 /\ b = 0
           /\ \A i \in Slots : i >= 1 => row[i] = old[i]
  <1> DEFINE first == <<v>>
             T == CopyTerms(old, row, 1)
  <1>1. Len(first) = 1 /\ first[1] = v /\ Len(first) \in Nat /\ Len(first) <= MaxStackDepth
    BY StackAssumption
  <1>2. /\ DOMAIN T = Slots
        /\ \A i \in Slots : i >= 1 => (T[i] = 0 <=> row[i] = old[i])
    BY CopyZero
  <1>3. 0 \in Slots /\ \A i \in Slots : i \in Nat /\ (i < 1 <=> i = 0)
    BY StackAssumption DEF Slots
  <1> HIDE DEF first, T
  <1>4. (\A i \in Slots : i < Len(first) => first[i + 1] = 0) <=> v = 0
    BY <1>1, <1>3
  <1>5. Satisfied(Terms(Before(first, T), <<a, b>>)) <=>
          /\ \A i \in Slots : i < Len(first) => first[i + 1] = 0
          /\ \A i \in Slots : i >= Len(first) => T[i] = 0
          /\ a = 0 /\ b = 0
    BY <1>1, <1>2, SatisfiedBefore
  <1>6. Satisfied(Terms(Before(first, T), <<a, b>>)) <=>
          /\ v = 0 /\ a = 0 /\ b = 0
          /\ \A i \in Slots : i >= 1 => row[i] = old[i]
    BY <1>1, <1>2, <1>4, <1>5
  <1> QED BY <1>6 DEF first, T

(* If it has one, the row is settled. *)
LEMMA InPlaceFixes ==
  ASSUME NEW op, NEW step, NEW old \in Rows, NEW new \in Rows, NEW value, MaxStackDepth >= 1,
         Copies(old, new, <<value>>),
         \A row \in Rows : Satisfied(TermsOf(op, old, row, step)) <=>
           row[0] = value /\ \A i \in Slots : i >= 1 => row[i] = old[i]
  PROVE  Fixes(op, old, new, step)
  <1>1. 0 \in Slots /\ \A i \in Slots : i \in Nat /\ (i < 1 <=> i = 0)
    BY StackAssumption DEF Slots
  <1>2. Len(<<value>>) = 1 /\ <<value>>[1] = value
    OBVIOUS
  <1>3. new[0] = value /\ \A i \in Slots : i >= 1 => new[i] = old[i]
    BY <1>1, <1>2 DEF Copies, Starts
  <1>4. \A row \in Rows :
          row[0] = value /\ (\A i \in Slots : i >= 1 => row[i] = old[i]) => row = new
    <2> SUFFICES ASSUME NEW row \in Rows, row[0] = value, \A i \in Slots : i >= 1 => row[i] = old[i]
                 PROVE  row = new
      OBVIOUS
    <2>1. \A i \in Slots : row[i] = new[i]
      BY <1>1, <1>3
    <2> QED BY <2>1 DEF Rows
  <1> QED BY <1>3, <1>4 DEF Fixes

(* operations on the top item *)
LEMMA UnaryFixes ==
  ASSUME RowOK, regs' \in Rows, NEW op, NEW hint, StackFault(op, hint) = "none",
         Perform(op, hint), op \in {"inv", "neg", "not"}
  PROVE  Fixes(op, regs, regs', stackStep)
  <1>1. /\ depth \in Nat /\ depth >= Needed(op, hint) /\ regs \in Rows
        /\ depth <= MaxStackDepth /\ MaxStackDepth \in Nat
        /\ \A i \in 0..31 : i < depth => regs[i] \in Elements
    BY NoFault, ItemsAreElements, StackAssumption DEF RowOK, Needed, Rows
  <1>2. /\ depth >= 1 /\ regs[0] \in Elements /\ MaxStackDepth >= 1 /\ regs \in Rows
        /\ \A row \in Rows : row[0] \in Elements
    <2>1. depth >= 1
      BY <1>1 DEF Needed
    <2>2. 0 \in Slots
      BY <1>1, <2>1 DEF Slots
    <2> QED BY <1>1, <2>1, <2>2 DEF Rows
  <1>3. CASE op = "inv"
    <2> DEFINE value == Inv(regs[0])
    <2>1. CopyState(<<value>>)
      BY <1>3 DEF Perform, OpInv
    <2>2. \A row \in Rows : TermsOf(op, regs, row, stackStep) =
            Terms(Before(<<Sub(1, Mul(row[0], regs[0]))>>, CopyTerms(regs, row, 1)), <<0, 0>>)
      BY <1>3 DEF TermsOf, ArithmeticTerms, NoAux
    <2>3. \A row \in Rows : Sub(1, Mul(row[0], regs[0])) = 0 <=> row[0] = value
      <3> SUFFICES ASSUME NEW row \in Rows
                   PROVE  Sub(1, Mul(row[0], regs[0])) = 0 <=> row[0] = value
        OBVIOUS
      <3>1. regs[0] # 0
        BY <1>3 DEF StackFault, ValueFault
      <3>2. row[0] \in Elements
        BY <1>2
      <3>3. Mul(row[0], regs[0]) \in Elements
        BY <1>2, <3>2, FieldClosed
      <3>4. Sub(1, Mul(row[0], regs[0])) = 0 <=> Mul(row[0], regs[0]) = 1
        BY <3>3, SubZero, SmallElements
      <3>5. Mul(row[0], regs[0]) = 1 => row[0] = value
        BY <1>2, <3>1, <3>2, OneInverse
      <3>6. Mul(value, regs[0]) = 1
        <4>1. value \in Elements
          BY <1>2, FieldClosed
        <4>2. Mul(regs[0], value) = 1
          BY <1>2, <3>1, InverseOf
        <4> HIDE DEF value
        <4> QED BY <1>2, <4>1, <4>2, BitArithmetic
      <3> HIDE DEF value
      <3> QED BY <3>4, <3>5, <3>6
    <2> HIDE DEF value
    <2>4. Copies(regs, regs', <<value>>)
      <3>1. Len(<<value>>) \in Nat
        OBVIOUS
      <3> QED BY <2>1, <3>1, CopyStateCopies
    <2>6. \A row \in Rows : Satisfied(TermsOf(op, regs, row, stackStep)) <=>
            row[0] = value /\ \A i \in Slots : i >= 1 => row[i] = regs[i]
      <3> SUFFICES ASSUME NEW row \in Rows
                   PROVE  Satisfied(TermsOf(op, regs, row, stackStep)) <=>
                            row[0] = value /\ \A i \in Slots : i >= 1 => row[i] = regs[i]
        OBVIOUS
      <3>1. Satisfied(Terms(Before(<<Sub(1, Mul(row[0], regs[0]))>>, CopyTerms(regs, row, 1)), <<0, 0>>)) <=>
              /\ Sub(1, Mul(row[0], regs[0])) = 0 /\ 0 = 0 /\ 0 = 0
              /\ \A i \in Slots : i >= 1 => row[i] = regs[i]
        BY <1>2, InPlaceZero
      <3> QED BY <2>2, <2>3, <3>1
    <2> QED BY <1>2, <2>4, <2>6, InPlaceFixes
  <1>4. CASE op = "neg"
    <2> DEFINE value == Neg(regs[0])
    <2>1. CopyState(<<value>>)
      BY <1>4 DEF Perform, OpNeg
    <2>2. \A row \in Rows : TermsOf(op, regs, row, stackStep) =
            Terms(Before(<<Add(row[0], regs[0])>>, CopyTerms(regs, row, 1)), <<0, 0>>)
      BY <1>4 DEF TermsOf, ArithmeticTerms, NoAux
    <2>3. \A row \in Rows : Add(row[0], regs[0]) = 0 <=> row[0] = value
      BY <1>2, SubZero
    <2> HIDE DEF value
    <2>4. Copies(regs, regs', <<value>>)
      <3>1. Len(<<value>>) \in Nat
        OBVIOUS
      <3> QED BY <2>1, <3>1, CopyStateCopies
    <2>6. \A row \in Rows : Satisfied(TermsOf(op, regs, row, stackStep)) <=>
            row[0] = value /\ \A i \in Slots : i >= 1 => row[i] = regs[i]
      <3> SUFFICES ASSUME NEW row \in Rows
                   PROVE  Satisfied(TermsOf(op, regs, row, stackStep)) <=>
                            row[0] = value /\ \A i \in Slots : i >= 1 => row[i] = regs[i]
        OBVIOUS
      <3>1. Satisfied(Terms(Before(<<Add(row[0], regs[0])>>, CopyTerms(regs, row, 1)), <<0, 0>>)) <=>
              /\ Add(row[0], regs[0]) = 0 /\ 0 = 0 /\ 0 = 0
              /\ \A i \in Slots : i >= 1 => row[i] = regs[i]
        BY <1>2, InPlaceZero
      <3> QED BY <2>2, <2>3, <3>1
    <2> QED BY <1>2, <2>4, <2>6, InPlaceFixes
  <1>5. CASE op = "not"
    <2> DEFINE value == Sub(1, regs[0])
    <2>1. CopyState(<<value>>)
      BY <1>5 DEF Perform, OpNot
    <2>2. \A row \in Rows : TermsOf(op, regs, row, stackStep) =
            Terms(Before(<<Sub(row[0], Sub(1, regs[0]))>>, CopyTerms(regs, row, 1)), <<NotBinary(regs[0]), 0>>)
      BY <1>5 DEF TermsOf, ArithmeticTerms, NoAux
    <2>3. \A row \in Rows : Sub(row[0], Sub(1, regs[0])) = 0 <=> row[0] = value
      <3>1. Sub(1, regs[0]) \in Elements
        BY <1>2, FieldClosed, SmallElements
      <3> QED BY <1>2, <3>1, SubZero
    <2>5. NotBinary(regs[0]) = 0
      <3>1. IsBinary(regs[0])
        BY <1>5 DEF StackFault, ValueFault
      <3> QED BY <1>2, <3>1, BitsAreBinary
    <2> HIDE DEF value
    <2>4. Copies(regs, regs', <<value>>)
      <3>1. Len(<<value>>) \in Nat
        OBVIOUS
      <3> QED BY <2>1, <3>1, CopyStateCopies
    <2>6. \A row \in Rows : Satisfied(TermsOf(op, regs, row, stackStep)) <=>
            row[0] = value /\ \A i \in Slots : i >= 1 => row[i] = regs[i]
      <3> SUFFICES ASSUME NEW row \in Rows
                   PROVE  Satisfied(TermsOf(op, regs, row, stackStep)) <=>
                            row[0] = value /\ \A i \in Slots : i >= 1 => row[i] = regs[i]
        OBVIOUS
      <3>1. Satisfied(Terms(Before(<<Sub(row[0], Sub(1, regs[0]))>>, CopyTerms(regs, row, 1)), <<NotBinary(regs[0]), 0>>)) <=>
              /\ Sub(row[0], Sub(1, regs[0])) = 0 /\ NotBinary(regs[0]) = 0 /\ 0 = 0
              /\ \A i \in Slots : i >= 1 => row[i] = regs[i]
        BY <1>2, InPlaceZero
      <3> QED BY <2>2, <2>3, <2>5, <3>1
    <2> QED BY <1>2, <2>4, <2>6, InPlaceFixes
  <1> QED BY <1>3, <1>4, <1>5

(* The comparison, whose second constraint is on the result: 1 - d * w, for *)
(* the difference d and the value w that was read for its inverse.          *)
LEMMA EqualityFixes ==
  ASSUME RowOK, regs' \in Rows, NEW op, NEW hint, StackFault(op, hint) = "none",
         Perform(op, hint), op = "eq"
  PROVE  Fixes(op, regs, regs', stackStep)
  <1>1. /\ depth \in Nat /\ depth >= Needed(op, hint) /\ regs \in Rows
        /\ depth <= MaxStackDepth /\ MaxStackDepth \in Nat
        /\ \A i \in 0..31 : i < depth => regs[i] \in Elements
    BY NoFault, ItemsAreElements, StackAssumption DEF RowOK, Needed, Rows
  <1> DEFINE d == Sub(regs[1], regs[2])
             value == IF regs[1] = regs[2] THEN 1 ELSE 0
             told == Sub(1, Mul(d, regs[0]))
             top == <<value>>
  <1>2. /\ depth >= 3 /\ regs[0] \in Elements /\ regs[1] \in Elements /\ regs[2] \in Elements
        /\ 0 \in Slots /\ regs \in Rows /\ MaxStackDepth >= 1
    <2>1. depth >= 3
      BY <1>1 DEF Needed
    <2> QED BY <1>1, <2>1 DEF Slots
  <1>3. d \in Elements /\ value \in Elements
    BY <1>2, FieldClosed, SmallElements
  <1>4. regs[1] = regs[2] \/ regs[0] = Inv(d)
    BY DEF StackFault, ValueFault
  <1>5. told = value /\ Mul(value, d) = 0
    <2>1. CASE regs[1] = regs[2]
      <3>1. d = 0
        BY <1>2, <2>1, SubZero
      <3>2. Mul(0, regs[0]) = 0 /\ Sub(1, 0) = 1 /\ Mul(1, 0) = 0
        BY <1>2, BitArithmetic, SmallElements
      <3> HIDE DEF d
      <3> QED BY <2>1, <3>1, <3>2
    <2>2. CASE regs[1] # regs[2]
      <3>1. d # 0
        BY <1>2, <2>2, SubZero
      <3> HIDE DEF d
      <3>2. Mul(d, regs[0]) = 1 /\ Mul(0, d) = 0 /\ Sub(1, 1) = 0
        BY <1>3, <1>4, <2>2, <3>1, InverseOf, BitArithmetic, SmallElements
      <3> QED BY <2>2, <3>2
    <2> QED BY <2>1, <2>2
  <1>6. ShiftLeft(top, 3, 2)
    BY DEF Perform, OpEq
  <1>7. \A row \in Rows : TermsOf(op, regs, row, stackStep) =
          Terms(Before(Expect(row, <<told>>), LeftShiftTerms(regs, row, 3, 2, 0)),
                <<Mul(row[0], d), 0>>)
    BY DEF TermsOf, EqualityTerms
  <1> HIDE DEF told, value, d
  <1>8. top \in Seq(Elements) /\ Len(top) = 1 /\ top[1] = value /\ top = <<told>>
    BY <1>3, <1>5
  <1> HIDE DEF top
  <1>9. 3 \in Nat /\ 2 \in Nat /\ 3 <= Len(top) + 2 /\ Len(top) \in Nat /\ 3 = Len(top) + 2
        /\ Len(top) <= MaxStackDepth
    BY <1>1, <1>2, <1>8
  <1>10. Lifts(regs, regs', top, 2)
    BY <1>6, <1>9, ShiftLeftLifts
  <1>11. \A row \in Rows : Satisfied(TermsOf(op, regs, row, stackStep)) <=>
           Lifts(regs, row, top, 2) /\ Mul(row[0], d) = 0
    <2> SUFFICES ASSUME NEW row \in Rows
                 PROVE  Satisfied(TermsOf(op, regs, row, stackStep)) <=>
                          Lifts(regs, row, top, 2) /\ Mul(row[0], d) = 0
      OBVIOUS
    <2>1. TermsOf(op, regs, row, stackStep) =
            Terms(Before(Expect(row, top), LeftShiftTerms(regs, row, 3, 2, 0)), <<Mul(row[0], d), 0>>)
      BY <1>7, <1>8
    <2>2. Satisfied(Terms(Before(Expect(row, top), LeftShiftTerms(regs, row, 3, 2, 0)),
                          <<Mul(row[0], d), 0>>))
            <=> Lifts(regs, row, top, 2) /\ Mul(row[0], d) = 0 /\ 0 = 0
      <3> DEFINE aux == Mul(row[0], d)
      <3> HIDE DEF aux
      <3>1. top \in Seq(Elements) /\ Len(top) <= MaxStackDepth /\ regs \in Rows
            /\ 3 = Len(top) + 2 /\ 2 \in Nat
        BY <1>2, <1>8, <1>9
      <3>2. Satisfied(Terms(Before(Expect(row, top), LeftShiftTerms(regs, row, 3, 2, 0)), <<aux, 0>>))
              <=> Lifts(regs, row, top, 2) /\ aux = 0 /\ 0 = 0
        BY <3>1, ExpectedLifts
      <3> QED BY <3>2 DEF aux
    <2> QED BY <2>1, <2>2
  <1>12. Mul(regs'[0], d) = 0
    <2>1. regs'[0] = value
      BY <1>2, <1>8, <1>10 DEF Lifts, Starts
    <2> QED BY <1>5, <2>1
  <1>13. \A row \in Rows : Lifts(regs, row, top, 2) => row = regs'
    BY <1>9, <1>10, OneRow
  <1> QED BY <1>10, <1>11, <1>12, <1>13 DEF Fixes

(* one round of the hash function *)
LEMMA RoundFixes ==
  ASSUME RowOK, regs' \in Rows, stackStep \in Nat, NEW op, NEW hint,
         StackFault(op, hint) = "none", Perform(op, hint), op = "rescr"
  PROVE  Fixes(op, regs, regs', stackStep)
  <1>1. /\ depth \in Nat /\ depth >= Needed(op, hint) /\ regs \in Rows
        /\ depth <= MaxStackDepth /\ MaxStackDepth \in Nat
        /\ \A i \in 0..31 : i < depth => regs[i] \in Elements
    BY NoFault, ItemsAreElements, StackAssumption DEF RowOK, Needed, Rows
  <1> DEFINE six == <<regs[0], regs[1], regs[2], regs[3], regs[4], regs[5]>>
             seq == [i \in 1..6 |-> regs[i - 1]]
             top == RescueRound(six, stackStep % RescueCycle)
  <1>2. depth >= 6 /\ regs \in Rows
    BY <1>1 DEF Needed
  <1>3. six \in [1..6 -> Elements] /\ seq = six
    BY <1>1, <1>2
  <1>4. stackStep % RescueCycle \in 0..(RescueCycle - 1)
    BY ModRange, RescueAssumption
  <1>5. top \in [1..6 -> Elements]
    BY <1>3, <1>4, RescueAssumption
  <1>6. CopyState(top)
    BY DEF Perform, OpRescR
  <1>7. \A row \in Rows : TermsOf(op, regs, row, stackStep) =
          Terms(Before([i \in 1..6 |-> Differ(row[i - 1], top[i])], CopyTerms(regs, row, 6)), <<0, 0>>)
    <2>1. \A row \in Rows : TermsOf(op, regs, row, stackStep) =
            Terms(Before([i \in 1..6 |-> Differ(row[i - 1], RescueRound(seq, stackStep % RescueCycle)[i])],
                         CopyTerms(regs, row, 6)), <<0, 0>>)
      BY DEF TermsOf, RescueTerms, NoAux
    <2> HIDE DEF seq, six
    <2> QED BY <1>3, <2>1
  <1> HIDE DEF top
  <1>8. Len(top) = 6 /\ 6 \in Nat
    <2>1. 6 \in Nat
      OBVIOUS
    <2> QED BY <1>5, <2>1, TupleIsSeq
  <1>9. Copies(regs, regs', top)
    BY <1>6, <1>8, CopyStateCopies
  <1>10. \A row \in Rows : Satisfied(TermsOf(op, regs, row, stackStep)) <=> Copies(regs, row, top)
    <2> SUFFICES ASSUME NEW row \in Rows
                 PROVE  Satisfied(TermsOf(op, regs, row, stackStep)) <=> Copies(regs, row, top)
      OBVIOUS
    <2> DEFINE first == [i \in 1..6 |-> Differ(row[i - 1], top[i])]
               T == CopyTerms(regs, row, 6)
    <2>1. Len(first) = 6
      <3>1. first \in [1..6 -> {0, 1}]
        BY DEF Differ
      <3> QED BY <1>8, <3>1, TupleIsSeq
    <2>2. \A i \in Slots : i < 6 => (first[i + 1] = 0 <=> row[i] = top[i + 1])
      <3> SUFFICES ASSUME NEW i \in Slots, i < 6 PROVE first[i + 1] = 0 <=> row[i] = top[i + 1]
        OBVIOUS
      <3>1. i \in Nat /\ i + 1 \in 1..6
        BY StackAssumption DEF Slots
      <3>2. \A j \in 1..6 : first[j] = Differ(row[j - 1], top[j])
        OBVIOUS
      <3> HIDE DEF first
      <3>3. first[i + 1] = Differ(row[i], top[i + 1])
        BY <3>1, <3>2
      <3> QED BY <3>3, DifferZero
    <2>3. DOMAIN T = Slots
      BY <1>2, <1>8, CopyZero
    <2>4. \A i \in Slots : i >= 6 => (T[i] = 0 <=> row[i] = regs[i])
      BY <1>2, <1>8, CopyZero
    <2>5. TermsOf(op, regs, row, stackStep) = Terms(Before(first, T), <<0, 0>>)
      BY <1>7
    <2> HIDE DEF first, T
    <2>6. Len(first) \in Nat /\ Len(first) <= MaxStackDepth
      BY <1>1, <1>2, <2>1
    <2>7. Satisfied(Terms(Before(first, T), <<0, 0>>)) <=>
            /\ \A i \in Slots : i < Len(first) => first[i + 1] = 0
            /\ \A i \in Slots : i >= Len(first) => T[i] = 0
      BY <2>3, <2>6, SatisfiedBefore
    <2>8. Satisfied(Terms(Before(first, T), <<0, 0>>)) <=> Copies(regs, row, top)
      BY <1>8, <2>1, <2>2, <2>4, <2>7 DEF Copies, Starts
    <2> QED BY <2>5, <2>8
  <1>11. \A row \in Rows : Copies(regs, row, top) => row = regs'
    BY <1>8, <1>9, OneRow
  <1> QED BY <1>9, <1>10, <1>11 DEF Fixes
-----------------------------------------------------------------------------
(* The constraints of an operation accept a row, and none that differs     *)
(* from it in a single register, unless that register is free.             *)
Settles(op, old, new, step) ==
  /\ Satisfied(TermsOf(op, old, new, step))
  /\ \A row \in Rows, j \in Slots :
       /\ j >= Free(op) /\ Satisfied(TermsOf(op, old, row, step))
       /\ \A i \in Slots \ {j} : row[i] = new[i]
       => row[j] = new[j]

(* Accepting a single row is more than enough. *)
LEMMA FixesSettles ==
  ASSUME NEW op, NEW old, NEW new, NEW step, Fixes(op, old, new, step)
  PROVE  Settles(op, old, new, step)
  BY DEF Fixes, Settles

(* operations that push a constant or a value of the tapes: the registers  *)
(* they fill are free                                                      *)
LEMMA ReadingSettles ==
  ASSUME RowOK, regs' \in Rows, NEW op, NEW hint, StackFault(op, hint) = "none",
         Perform(op, hint), op \in {"push", "read", "read2"}
  PROVE  Settles(op, regs, regs', stackStep)
  <1>1. /\ depth \in Nat /\ depth >= Needed(op, hint) /\ regs \in Rows
        /\ depth <= MaxStackDepth /\ MaxStackDepth \in Nat
        /\ \A i \in 0..31 : i < depth => regs[i] \in Elements
    BY NoFault, ItemsAreElements, StackAssumption DEF RowOK, Needed, Rows
  <1> DEFINE n == IF op = "read2" THEN 2 ELSE 1
  <1>2. n = Free(op) /\ n \in Nat
    BY DEF Free
  <1>3. \A row \in Rows : TermsOf(op, regs, row, stackStep) =
          Terms(RightShiftTerms(regs, row, n), <<0, 0>>)
    BY DEF TermsOf, InputTerms, NoAux
  <1>4. \E top : Len(top) = n /\ Pushes(regs, regs', top)
    <2>1. CASE op = "push"
      <3>1. ShiftRight(<<hint.arg>>) /\ Len(<<hint.arg>>) = 1
        BY <2>1 DEF Perform, OpPush
      <3>2. Len(<<hint.arg>>) \in Nat
        OBVIOUS
      <3>3. Pushes(regs, regs', <<hint.arg>>)
        BY <3>1, <3>2, ShiftRightPushes
      <3> QED BY <2>1, <3>1, <3>3
    <2>2. CASE op = "read"
      <3> DEFINE top == <<HintedTapeA("read", hint)[1]>>
      <3>1. ShiftRight(top) /\ Len(top) = 1
        BY <2>2 DEF Perform, OpRead
      <3> HIDE DEF top
      <3>2. Pushes(regs, regs', top)
        BY <3>1, ShiftRightPushes
      <3> QED BY <2>2, <3>1, <3>2
    <2>3. CASE op = "read2"
      <3> DEFINE top == <<HintedTapeB("read2", hint)[1], HintedTapeA("read2", hint)[1]>>
      <3>1. ShiftRight(top) /\ Len(top) = 2
        BY <2>3 DEF Perform, OpRead2
      <3> HIDE DEF top
      <3>2. Pushes(regs, regs', top)
        BY <3>1, ShiftRightPushes
      <3> QED BY <2>3, <3>1, <3>2
    <2> QED BY <2>1, <2>2, <2>3
  <1> HIDE DEF n
  <1>5. \A i \in Slots : i >= n => regs'[i] = regs[i - n]
    BY <1>4 DEF Pushes
  <1>6. \A row \in Rows : Satisfied(TermsOf(op, regs, row, stackStep)) <=>
          \A i \in Slots : i >= n => row[i] = regs[i - n]
    <2> SUFFICES ASSUME NEW row \in Rows
                 PROVE  Satisfied(TermsOf(op, regs, row, stackStep)) <=>
                          \A i \in Slots : i >= n => row[i] = regs[i - n]
      OBVIOUS
    <2> DEFINE T == RightShiftTerms(regs, row, n)
    <2>1. /\ DOMAIN T = Slots
          /\ \A i \in Slots : i >= n => (T[i] = 0 <=> row[i] = regs[i - n])
          /\ \A i \in Slots : i < n => T[i] = 0
      BY <1>1, <1>2, RightShiftZero
    <2>2. TermsOf(op, regs, row, stackStep) = Terms(T, <<0, 0>>)
      BY <1>3
    <2> HIDE DEF T
    <2>3. Satisfied(Terms(T, <<0, 0>>)) <=> \A i \in Slots : T[i] = 0
      BY <2>1, SatisfiedPlain
    <2>4. \A i \in Slots : i < n \/ i >= n
      BY <1>2, StackAssumption DEF Slots
    <2>5. (\A i \in Slots : T[i] = 0) <=> \A i \in Slots : i >= n => row[i] = regs[i - n]
      BY <2>1, <2>4
    <2> QED BY <2>2, <2>3, <2>5
  <1> QED BY <1>2, <1>5, <1>6 DEF Settles

(* The constraints of the values in front, and the rest copied. *)
LEMMA FrontAndCopies ==
  ASSUME NEW old \in Rows, NEW row \in Rows, NEW first, NEW k \in Nat, Len(first) = k,
         k <= MaxStackDepth, MaxStackDepth \in Nat
  PROVE  Satisfied(Terms(Before(first, CopyTerms(old, row, k)), <<0, 0>>)) <=>
           /\ \A i \in 0..(k - 1) : first[i + 1] = 0
           /\ \A i \in Slots : i >= k => row[i] = old[i]
  <1> DEFINE T == CopyTerms(old, row, k)
  <1>1. DOMAIN T = Slots
    BY CopyZero
  <1>2. \A i \in Slots : i >= k => (T[i] = 0 <=> row[i] = old[i])
    BY CopyZero
  <1>3. Len(first) \in Nat /\ Len(first) <= MaxStackDepth
    OBVIOUS
  <1> HIDE DEF T
  <1>4. Satisfied(Terms(Before(first, T), <<0, 0>>)) <=>
          /\ \A i \in Slots : i < Len(first) => first[i + 1] = 0
          /\ \A i \in Slots : i >= Len(first) => T[i] = 0
    BY <1>1, <1>3, SatisfiedBefore
  <1>5. \A i : i \in 0..(k - 1) <=> i \in Slots /\ i < k
    BY StackAssumption DEF Slots
  <1>6. Satisfied(Terms(Before(first, T), <<0, 0>>)) <=>
          /\ \A i \in 0..(k - 1) : first[i + 1] = 0
          /\ \A i \in Slots : i >= k => row[i] = old[i]
    BY <1>2, <1>4, <1>5
  <1> QED BY <1>6 DEF T

(* SWAP adds up both of its constraints, but one register cannot make up   *)
(* for the other if the other is right.                                    *)
LEMMA SwapSettles ==
  ASSUME RowOK, regs' \in Rows, NEW op, NEW hint, StackFault(op, hint) = "none",
         Perform(op, hint), op = "swap"
  PROVE  Settles(op, regs, regs', stackStep)
  <1>1. /\ depth \in Nat /\ depth >= Needed(op, hint) /\ regs \in Rows
        /\ depth <= MaxStackDepth /\ MaxStackDepth \in Nat
        /\ \A i \in 0..31 : i < depth => regs[i] \in Elements
    BY NoFault, ItemsAreElements, StackAssumption DEF RowOK, Needed, Rows
  <1>2. depth >= 2 /\ 0 \in Slots /\ 1 \in Slots /\ 2 \in Nat /\ 2 <= MaxStackDepth
    BY <1>1 DEF Needed, Slots
  <1> DEFINE both(row) == Add(Sub(row[0], regs[1]), Sub(row[1], regs[0]))
  <1>3. \A row \in Rows : TermsOf(op, regs, row, stackStep) =
          Terms(Before(<<both(row), 0>>, CopyTerms(regs, row, 2)), <<0, 0>>)
    BY DEF TermsOf, SwapTerms, NoAux
  <1> HIDE DEF both
  <1>4. \A row \in Rows : Satisfied(TermsOf(op, regs, row, stackStep)) <=>
          both(row) = 0 /\ \A i \in Slots : i >= 2 => row[i] = regs[i]
    <2> SUFFICES ASSUME NEW row \in Rows
                 PROVE  Satisfied(TermsOf(op, regs, row, stackStep)) <=>
                          both(row) = 0 /\ \A i \in Slots : i >= 2 => row[i] = regs[i]
      OBVIOUS
    <2> DEFINE first == <<both(row), 0>>
    <2>1. Len(first) = 2 /\ first[1] = both(row) /\ first[2] = 0
      OBVIOUS
    <2>2. TermsOf(op, regs, row, stackStep) = Terms(Before(first, CopyTerms(regs, row, 2)), <<0, 0>>)
      BY <1>3
    <2> HIDE DEF first
    <2>3. Satisfied(Terms(Before(first, CopyTerms(regs, row, 2)), <<0, 0>>)) <=>
            /\ \A i \in 0..(2 - 1) : first[i + 1] = 0
            /\ \A i \in Slots : i >= 2 => row[i] = regs[i]
      BY <1>1, <1>2, <2>1, FrontAndCopies
    <2>4. (\A i \in 0..(2 - 1) : first[i + 1] = 0) <=> both(row) = 0
      BY <2>1
    <2> QED BY <2>2, <2>3, <2>4
  <1> DEFINE top == <<regs[1], regs[0]>>
  <1>5. CopyState(top) /\ Len(top) = 2 /\ top[1] = regs[1] /\ top[2] = regs[0]
    BY DEF Perform, OpSwap
  <1> HIDE DEF top
  <1>6. Copies(regs, regs', top)
    BY <1>2, <1>5, CopyStateCopies
  <1>7. /\ regs'[0] = regs[1] /\ regs'[1] = regs[0]
        /\ \A i \in Slots : i >= 2 => regs'[i] = regs[i]
    BY <1>2, <1>5, <1>6 DEF Copies, Starts
  <1>8. \A row \in Rows : row[0] \in Elements /\ row[1] \in Elements
    BY <1>2 DEF Rows
  <1>9. Sub(regs[0], regs[0]) = 0 /\ Sub(regs[1], regs[1]) = 0
    BY <1>1, <1>8, SubZero
  <1>10. \A row \in Rows :
           /\ Sub(row[0], regs[1]) \in Elements /\ Sub(row[1], regs[0]) \in Elements
           /\ (Sub(row[0], regs[1]) = 0 <=> row[0] = regs[1])
           /\ (Sub(row[1], regs[0]) = 0 <=> row[1] = regs[0])
    BY <1>1, <1>8, SubZero, FieldClosed
  <1>11. \A x \in Elements : Add(x, 0) = x /\ Add(0, x) = x
    BY FieldAssumption DEF Add, Elements
  <1>12. both(regs') = 0
    BY <1>7, <1>9, <1>11, SmallElements DEF both
  <1>13. ASSUME NEW row \in Rows, NEW j \in Slots, both(row) = 0,
                \A i \in Slots : i >= 2 => row[i] = regs[i],
                \A i \in Slots \ {j} : row[i] = regs'[i]
         PROVE  row[j] = regs'[j]
    <2>1. CASE j = 0
      <3>1. row[1] = regs[0]
        BY <1>2, <1>7, <1>13, <2>1
      <3>2. Sub(row[0], regs[1]) = 0
        BY <1>10, <1>11, <1>13, <3>1 DEF both
      <3> QED BY <1>7, <1>10, <2>1, <3>2
    <2>2. CASE j = 1
      <3>1. row[0] = regs[1]
        BY <1>2, <1>7, <1>13, <2>2
      <3>2. Sub(row[1], regs[0]) = 0
        BY <1>10, <1>11, <1>13, <3>1 DEF both
      <3> QED BY <1>7, <1>10, <2>2, <3>2
    <2>3. CASE j >= 2
      BY <1>7, <1>13, <2>3
    <2> QED BY <2>1, <2>2, <2>3, StackAssumption DEF Slots
  <1> QED BY <1>4, <1>7, <1>12, <1>13 DEF Settles

(* A power of two is doubled without overflow when it is halved before, and *)
(* 1 is halved in the field.                                               *)
LEMMA Halved ==
  ASSUME NEW p \in Elements, IsPowerOfTwo(p)
  PROVE  LET half == IF p = 1 THEN Mul(p, Inv(2)) ELSE p \div 2
         IN  p # 0 /\ half \in Elements /\ Mul(half, 2) = p
  <1>1. p \in Nat /\ p # 0 /\ p < Modulus /\ Modulus \in Nat /\ 2 \in Elements /\ 2 # 0
    BY FieldAssumption, SmallElements DEF Elements, IsPowerOfTwo
  <1>2. CASE p = 1
    <2>1. Inv(2) \in Elements /\ Mul(2, Inv(2)) = 1
      BY <1>1, InverseOf, FieldClosed
    <2>2. Mul(1, Inv(2)) = Inv(2) /\ Mul(Inv(2), 2) = Mul(2, Inv(2))
      BY <1>1, <2>1, BitArithmetic
    <2> QED BY <1>1, <1>2, <2>1, <2>2
  <1>3. CASE p # 1
    <2>1. p \in 1..p /\ p % p = 0
      BY <1>1
    <2>2. p % 2 = 0
      BY <1>3, <2>1 DEF IsPowerOfTwo
    <2>3. p \div 2 \in Elements /\ (p \div 2) * 2 = p
      BY <1>1, <2>2 DEF Elements
    <2>4. p % Modulus = p
      BY <1>1
    <2>5. Mul(p \div 2, 2) = p
      BY <2>3, <2>4 DEF Mul
    <2> QED BY <1>1, <1>3, <2>3, <2>5
  <1> QED BY <1>2, <1>3

(* what the constraints of BINACC ask of a row *)
BinAccAsked(old, row) ==
  /\ NotBinary(row[0]) = 0 /\ row[1] = 0
  /\ row[2] = Mul(old[2], 2)
  /\ row[3] = Add(old[3], Mul(row[0], old[2]))
  /\ \A i \in Slots : i >= 4 => row[i] = old[i]

(* BINACC asks for no less. *)
LEMMA BinAccAsks ==
  ASSUME NEW old \in Rows, NEW row \in Rows, NEW step, MaxStackDepth >= 4
  PROVE  Satisfied(TermsOf("binacc", old, row, step)) <=> BinAccAsked(old, row)
  <1>1. /\ 0 \in Slots /\ 2 \in Slots /\ 3 \in Slots /\ 4 \in Nat /\ 4 <= MaxStackDepth
        /\ MaxStackDepth \in Nat /\ 2 \in Elements
    BY StackAssumption, SmallElements DEF Slots
  <1>2. /\ row[0] \in Elements /\ row[2] \in Elements /\ row[3] \in Elements
        /\ old[2] \in Elements /\ old[3] \in Elements
    BY <1>1 DEF Rows
  <1>3. Mul(old[2], 2) \in Elements /\ Mul(row[0], old[2]) \in Elements
    BY <1>1, <1>2, FieldClosed
  <1>4. Add(old[3], Mul(row[0], old[2])) \in Elements
    BY <1>2, <1>3, FieldClosed
  <1>5. /\ Sub(row[2], Mul(old[2], 2)) = 0 <=> row[2] = Mul(old[2], 2)
        /\ Sub(row[3], Add(old[3], Mul(row[0], old[2]))) = 0 <=>
             row[3] = Add(old[3], Mul(row[0], old[2]))
    BY <1>2, <1>3, <1>4, SubZero
  <1> DEFINE c1 == NotBinary(row[0])
             c3 == Sub(row[2], Mul(old[2], 2))
             c4 == Sub(row[3], Add(old[3], Mul(row[0], old[2])))
             first == <<c1, row[1], c3, c4>>
  <1>6. TermsOf("binacc", old, row, step) = Terms(Before(first, CopyTerms(old, row, 4)), <<0, 0>>)
    BY DEF TermsOf, BinAccTerms, NoAux
  <1> HIDE DEF c1, c3, c4
  <1>7. Len(first) = 4 /\ first[1] = c1 /\ first[2] = row[1] /\ first[3] = c3 /\ first[4] = c4
    OBVIOUS
  <1> HIDE DEF first
  <1>8. Satisfied(Terms(Before(first, CopyTerms(old, row, 4)), <<0, 0>>)) <=>
          /\ \A i \in 0..(4 - 1) : first[i + 1] = 0
          /\ \A i \in Slots : i >= 4 => row[i] = old[i]
    BY <1>1, <1>7, FrontAndCopies
  <1>9. (\A i \in 0..(4 - 1) : first[i + 1] = 0) <=> c1 = 0 /\ row[1] = 0 /\ c3 = 0 /\ c4 = 0
    <2>1. \A i : i \in 0..(4 - 1) <=> i = 0 \/ i = 1 \/ i = 2 \/ i = 3
      OBVIOUS
    <2> QED BY <1>7, <2>1
  <1> QED BY <1>5, <1>6, <1>8, <1>9 DEF BinAccAsked, c1, c3, c4

(* The bit of BINACC is settled by the sum it is added to. *)
LEMMA BinAccSettles ==
  ASSUME RowOK, regs' \in Rows, NEW op, NEW hint, StackFault(op, hint) = "none",
         Perform(op, hint), op = "binacc"
  PROVE  Settles(op, regs, regs', stackStep)
  <1>1. /\ depth \in Nat /\ depth >= Needed(op, hint) /\ regs \in Rows
        /\ depth <= MaxStackDepth /\ MaxStackDepth \in Nat
        /\ \A i \in 0..31 : i < depth => regs[i] \in Elements
    BY NoFault, ItemsAreElements, StackAssumption DEF RowOK, Needed, Rows
  <1>2. /\ depth >= 4 /\ MaxStackDepth >= 4 /\ regs \in Rows
        /\ 0 \in Slots /\ 1 \in Slots /\ 2 \in Slots /\ 3 \in Slots
    BY <1>1 DEF Needed, Slots
  <1> DEFINE bit == HintedTapeA("binacc", hint)[1]
             top == <<bit, 0, Mul(regs[2], 2), Add(regs[3], Mul(bit, regs[2]))>>
  <1>3. IsBinary(bit) /\ IsPowerOfTwo(regs[2])
    BY DEF StackFault, ValueFault
  <1>4. regs[2] \in Elements /\ regs[3] \in Elements /\ regs[2] # 0
    BY <1>1, <1>2, <1>3 DEF IsPowerOfTwo
  <1>5. CopyState(top)
    BY DEF Perform, OpBinAcc
  <1> HIDE DEF bit
  <1>6. /\ Len(top) = 4 /\ top[1] = bit /\ top[2] = 0 /\ top[3] = Mul(regs[2], 2)
        /\ top[4] = Add(regs[3], Mul(bit, regs[2]))
    OBVIOUS
  <1> HIDE DEF top
  <1>7. Copies(regs, regs', top)
    BY <1>5, <1>6, CopyStateCopies
  <1>8. /\ regs'[0] = bit /\ regs'[1] = 0 /\ regs'[2] = Mul(regs[2], 2)
        /\ regs'[3] = Add(regs[3], Mul(bit, regs[2]))
        /\ \A i \in Slots : i >= 4 => regs'[i] = regs[i]
    BY <1>2, <1>6, <1>7 DEF Copies, Starts
  <1>9. NotBinary(bit) = 0 /\ bit \in Elements
    BY <1>3, BitsAreBinary, SmallElements DEF IsBinary
  <1>10. BinAccAsked(regs, regs')
    BY <1>8, <1>9 DEF BinAccAsked
  <1>11. ASSUME NEW row \in Rows, NEW j \in Slots, BinAccAsked(regs, row),
                \A i \in Slots \ {j} : row[i] = regs'[i]
         PROVE  row[j] = regs'[j]
    <2>1. CASE j = 0
      <3>1. row[3] = regs'[3]
        BY <1>2, <1>11, <2>1
      <3>2. row[0] \in Elements
        BY <1>2 DEF Rows
      <3>3. Add(regs[3], Mul(row[0], regs[2])) = Add(regs[3], Mul(bit, regs[2]))
        BY <1>8, <1>11, <3>1 DEF BinAccAsked
      <3>4. Mul(row[0], regs[2]) \in Elements /\ Mul(bit, regs[2]) \in Elements
        BY <1>4, <1>9, <3>2, FieldClosed
      <3>5. Mul(row[0], regs[2]) = Mul(bit, regs[2])
        BY <1>4, <3>3, <3>4, AddCancels
      <3>6. row[0] = bit
        BY <1>4, <1>9, <3>2, <3>5, MulCancels
      <3> QED BY <1>8, <2>1, <3>6
    <2>2. CASE j \in {1, 2}
      BY <1>8, <1>11, <2>2 DEF BinAccAsked
    <2>3. CASE j = 3
      <3>1. row[0] = bit
        BY <1>2, <1>8, <1>11, <2>3
      <3> QED BY <1>8, <1>11, <2>3, <3>1 DEF BinAccAsked
    <2>4. CASE j >= 4
      BY <1>8, <1>11, <2>4 DEF BinAccAsked
    <2> QED BY <2>1, <2>2, <2>3, <2>4, StackAssumption DEF Slots
  <1>12. \A row \in Rows : Satisfied(TermsOf("binacc", regs, row, stackStep)) <=> BinAccAsked(regs, row)
    BY <1>2, BinAccAsks
  <1> QED BY <1>10, <1>11, <1>12 DEF Settles

(* what the constraints of CMP ask of a row *)
CmpAsked(old, row) ==
  /\ NotBinary(row[1]) = 0 /\ NotBinary(row[2]) = 0
  /\ row[4] = Add(old[4], Mul(Mul(row[1], Sub(1, row[2])), row[3]))
  /\ row[5] = Add(old[5], Mul(Mul(row[2], Sub(1, row[1])), row[3]))
  /\ row[6] = Add(old[6], Mul(row[2], old[0]))
  /\ row[7] = Add(old[7], Mul(row[1], old[0]))
  /\ row[3] = Mul(Sub(1, old[5]), Sub(1, old[4]))
  /\ Mul(row[0], 2) = old[0]
  /\ \A i \in Slots : i >= 8 => row[i] = old[i]

(* CMP asks for no less. *)
LEMMA CmpAsks ==
  ASSUME NEW old \in Rows, NEW row \in Rows, NEW step, MaxStackDepth >= 8
  PROVE  Satisfied(TermsOf("cmp", old, row, step)) <=> CmpAsked(old, row)
  <1>1. (\A i \in 0..7 : i \in Slots) /\ 8 \in Nat /\ 8 <= MaxStackDepth /\ MaxStackDepth \in Nat
    BY StackAssumption DEF Slots
  <1>2. \A i \in 0..7 : row[i] \in Elements /\ old[i] \in Elements
    BY <1>1 DEF Rows
  <1> DEFINE c1 == NotBinary(row[1])
             c2 == NotBinary(row[2])
             e3 == Add(old[4], Mul(Mul(row[1], Sub(1, row[2])), row[3]))
             e4 == Add(old[5], Mul(Mul(row[2], Sub(1, row[1])), row[3]))
             e5 == Add(old[6], Mul(row[2], old[0]))
             e6 == Add(old[7], Mul(row[1], old[0]))
             e7 == Mul(Sub(1, old[5]), Sub(1, old[4]))
             e8 == Mul(row[0], 2)
  <1>3. \A x, y \in Elements : /\ Sub(x, y) \in Elements /\ Mul(x, y) \in Elements
                               /\ Add(x, y) \in Elements
    BY FieldClosed
  <1>4. /\ Sub(1, row[1]) \in Elements /\ Sub(1, row[2]) \in Elements
        /\ Sub(1, old[4]) \in Elements /\ Sub(1, old[5]) \in Elements
    BY <1>2, <1>3, SmallElements
  <1>5. Mul(row[1], Sub(1, row[2])) \in Elements /\ Mul(row[2], Sub(1, row[1])) \in Elements
    BY <1>2, <1>3, <1>4
  <1>6. /\ Mul(Mul(row[1], Sub(1, row[2])), row[3]) \in Elements
        /\ Mul(Mul(row[2], Sub(1, row[1])), row[3]) \in Elements
    BY <1>2, <1>3, <1>5
  <1>7. Mul(row[2], old[0]) \in Elements /\ Mul(row[1], old[0]) \in Elements
    BY <1>2, <1>3
  <1>8. e3 \in Elements /\ e4 \in Elements
    BY <1>2, <1>3, <1>6
  <1>9. e5 \in Elements /\ e6 \in Elements
    BY <1>2, <1>3, <1>7
  <1>10. e7 \in Elements /\ e8 \in Elements
    BY <1>2, <1>3, <1>4, SmallElements
  <1> DEFINE c3 == Sub(row[4], e3)
             c4 == Sub(row[5], e4)
             c5 == Sub(row[6], e5)
             c6 == Sub(row[7], e6)
             c7 == Sub(row[3], e7)
             c8 == Sub(e8, old[0])
             first == <<c1, c2, c3, c4, c5, c6, c7, c8>>
  <1>11. TermsOf("cmp", old, row, step) = Terms(Before(first, CopyTerms(old, row, 8)), <<0, 0>>)
    BY DEF TermsOf, CmpTerms, NoAux
  <1> HIDE DEF e3, e4, e5, e6, e7, e8, c1, c2
  <1>12. /\ c3 = 0 <=> row[4] = e3
         /\ c4 = 0 <=> row[5] = e4
         /\ c5 = 0 <=> row[6] = e5
         /\ c6 = 0 <=> row[7] = e6
         /\ c7 = 0 <=> row[3] = e7
         /\ c8 = 0 <=> e8 = old[0]
    BY <1>2, <1>8, <1>9, <1>10, SubZero
  <1> HIDE DEF c3, c4, c5, c6, c7, c8
  <1>13. /\ Len(first) = 8
         /\ first[1] = c1 /\ first[2] = c2 /\ first[3] = c3 /\ first[4] = c4
         /\ first[5] = c5 /\ first[6] = c6 /\ first[7] = c7 /\ first[8] = c8
    OBVIOUS
  <1> HIDE DEF first
  <1>14. Satisfied(Terms(Before(first, CopyTerms(old, row, 8)), <<0, 0>>)) <=>
           /\ \A i \in 0..(8 - 1) : first[i + 1] = 0
           /\ \A i \in Slots : i >= 8 => row[i] = old[i]
    BY <1>1, <1>13, FrontAndCopies
  <1>15. (\A i \in 0..(8 - 1) : first[i + 1] = 0) <=>
           c1 = 0 /\ c2 = 0 /\ c3 = 0 /\ c4 = 0 /\ c5 = 0 /\ c6 = 0 /\ c7 = 0 /\ c8 = 0
    <2>1. \A i : i \in 0..(8 - 1) <=>
            i = 0 \/ i = 1 \/ i = 2 \/ i = 3 \/ i = 4 \/ i = 5 \/ i = 6 \/ i = 7
      OBVIOUS
    <2> QED BY <1>13, <2>1
  <1>16. Satisfied(TermsOf("cmp", old, row, step)) <=>
           /\ c1 = 0 /\ c2 = 0
           /\ row[4] = e3 /\ row[5] = e4 /\ row[6] = e5 /\ row[7] = e6 /\ row[3] = e7 /\ e8 = old[0]
           /\ \A i \in Slots : i >= 8 => row[i] = old[i]
    BY <1>11, <1>12, <1>14, <1>15
  <1> QED BY <1>16 DEF CmpAsked, c1, c2, e3, e4, e5, e6, e7, e8

(* The bits of a comparison are not compared with those that were read: it *)
(* is the sums they are added to that settle them.                         *)
LEMMA CmpSettles ==
  ASSUME RowOK, regs' \in Rows, NEW op, NEW hint, StackFault(op, hint) = "none",
         Perform(op, hint), op = "cmp"
  PROVE  Settles(op, regs, regs', stackStep)
  <1>1. /\ depth \in Nat /\ depth >= Needed(op, hint) /\ regs \in Rows
        /\ depth <= MaxStackDepth /\ MaxStackDepth \in Nat
        /\ \A i \in 0..31 : i < depth => regs[i] \in Elements
    BY NoFault, ItemsAreElements, StackAssumption DEF RowOK, Needed, Rows
  <1>2. /\ depth >= 8 /\ MaxStackDepth >= 8 /\ regs \in Rows
        /\ \A i \in 0..7 : i \in Slots
    BY <1>1 DEF Needed, Slots
  <1> DEFINE a == HintedTapeA("cmp", hint)[1]
             b == HintedTapeB("cmp", hint)[1]
             power == regs[0]
             next == IF power = 1 THEN Mul(power, Inv(2)) ELSE power \div 2
             notSet == Mul(Sub(1, regs[4]), Sub(1, regs[5]))
             gt == Add(regs[4], Mul(Mul(a, Sub(1, b)), notSet))
             lt == Add(regs[5], Mul(Mul(b, Sub(1, a)), notSet))
             accB == Add(regs[6], Mul(b, power))
             accA == Add(regs[7], Mul(a, power))
             top == <<next, a, b, notSet, gt, lt, accB, accA>>
  <1>3. IsBinary(a) /\ IsBinary(b) /\ IsPowerOfTwo(power)
    BY DEF StackFault, ValueFault
  <1>4. /\ regs[0] \in Elements /\ regs[4] \in Elements /\ regs[5] \in Elements
        /\ regs[6] \in Elements /\ regs[7] \in Elements
    BY <1>1, <1>2
  <1>5. power # 0 /\ next \in Elements /\ Mul(next, 2) = power
    BY <1>3, <1>4, Halved
  <1>6. CopyState(top)
    BY DEF Perform, OpCmp
  <1>7. notSet = Mul(Sub(1, regs[5]), Sub(1, regs[4]))
    <2>1. Sub(1, regs[4]) \in Elements /\ Sub(1, regs[5]) \in Elements
      BY <1>4, FieldClosed, SmallElements
    <2> QED BY <2>1, BitArithmetic
  <1>8. NotBinary(a) = 0 /\ NotBinary(b) = 0 /\ a \in Elements /\ b \in Elements
    BY <1>3, BitsAreBinary, SmallElements DEF IsBinary
  <1> HIDE DEF a, b, next, notSet, gt, lt, accB, accA
  <1>9. /\ Len(top) = 8 /\ top[1] = next /\ top[2] = a /\ top[3] = b /\ top[4] = notSet
        /\ top[5] = gt /\ top[6] = lt /\ top[7] = accB /\ top[8] = accA
    OBVIOUS
  <1> HIDE DEF top
  <1>10. Copies(regs, regs', top)
    BY <1>6, <1>9, CopyStateCopies
  <1>11. /\ regs'[0] = next /\ regs'[1] = a /\ regs'[2] = b /\ regs'[3] = notSet
         /\ regs'[4] = gt /\ regs'[5] = lt /\ regs'[6] = accB /\ regs'[7] = accA
         /\ \A i \in Slots : i >= 8 => regs'[i] = regs[i]
    BY <1>2, <1>9, <1>10 DEF Copies, Starts
  <1>12. CmpAsked(regs, regs')
    BY <1>5, <1>7, <1>8, <1>11 DEF CmpAsked, gt, lt, accB, accA
  <1>13. ASSUME NEW row \in Rows, NEW j \in Slots, CmpAsked(regs, row),
                \A i \in Slots \ {j} : row[i] = regs'[i]
         PROVE  row[j] = regs'[j]
    <2>1. row[0] \in Elements /\ row[1] \in Elements /\ row[2] \in Elements
      BY <1>2, <1>13 DEF Rows
    <2>2. CASE j = 0
      <3>1. Mul(row[0], 2) = Mul(next, 2)
        BY <1>5, <1>13 DEF CmpAsked
      <3>2. 2 # 0
        OBVIOUS
      <3>3. row[0] = next
        BY <1>5, <2>1, <3>1, <3>2, MulCancels, SmallElements
      <3> QED BY <1>11, <2>2, <3>3
    <2>3. CASE j = 1
      <3>1. row[7] = regs'[7]
        BY <1>2, <1>13, <2>3
      <3>2. Add(regs[7], Mul(row[1], power)) = Add(regs[7], Mul(a, power))
        BY <1>11, <1>13, <3>1 DEF CmpAsked, accA
      <3>3. Mul(row[1], power) \in Elements /\ Mul(a, power) \in Elements
        BY <1>4, <1>8, <2>1, FieldClosed
      <3>4. Mul(row[1], power) = Mul(a, power)
        BY <1>4, <3>2, <3>3, AddCancels
      <3>5. row[1] = a
        BY <1>4, <1>5, <1>8, <2>1, <3>4, MulCancels
      <3> QED BY <1>11, <2>3, <3>5
    <2>4. CASE j = 2
      <3>1. row[6] = regs'[6]
        BY <1>2, <1>13, <2>4
      <3>2. Add(regs[6], Mul(row[2], power)) = Add(regs[6], Mul(b, power))
        BY <1>11, <1>13, <3>1 DEF CmpAsked, accB
      <3>3. Mul(row[2], power) \in Elements /\ Mul(b, power) \in Elements
        BY <1>4, <1>8, <2>1, FieldClosed
      <3>4. Mul(row[2], power) = Mul(b, power)
        BY <1>4, <3>2, <3>3, AddCancels
      <3>5. row[2] = b
        BY <1>4, <1>5, <1>8, <2>1, <3>4, MulCancels
      <3> QED BY <1>11, <2>4, <3>5
    <2>5. CASE j \in {3, 4, 5, 6, 7}
      <3>1. row[1] = regs'[1] /\ row[2] = regs'[2] /\ (j # 3 => row[3] = regs'[3])
        BY <1>2, <1>13, <2>5
      <3> QED BY <1>12, <1>13, <2>5, <3>1 DEF CmpAsked
    <2>6. CASE j >= 8
      BY <1>11, <1>13, <2>6 DEF CmpAsked
    <2> QED BY <2>2, <2>3, <2>4, <2>5, <2>6, StackAssumption DEF Slots
  <1>14. \A row \in Rows : Satisfied(TermsOf("cmp", regs, row, stackStep)) <=> CmpAsked(regs, row)
    BY <1>2, CmpAsks
  <1> QED BY <1>12, <1>13, <1>14 DEF Settles
-----------------------------------------------------------------------------
(* every operation the stack accepts *)
LEMMA OperationSettles ==
  ASSUME RowOK, regs' \in Rows, stackStep \in Nat, NEW op, NEW hint,
         StackFault(op, hint) = "none", Perform(op, hint)
  PROVE  Settles(op, regs, regs', stackStep)
  <1>1. CASE op \in {"begin", "noop", "assert", "asserteq", "drop", "drop4"}
    BY <1>1, DroppingFixes, FixesSettles
  <1>2. CASE op \in {"swap2", "swap4", "roll4", "roll8"}
    BY <1>2, PermutingFixes, FixesSettles
  <1>3. CASE op \in {"dup", "dup2", "dup4", "pad2"}
    BY <1>3, DuplicatingFixes, FixesSettles
  <1>4. CASE op \in {"add", "mul", "and", "or"}
    BY <1>4, BinaryFixes, FixesSettles
  <1>5. CASE op \in {"choose", "choose2", "cswap2"}
    BY <1>5, ChoosingFixes, FixesSettles
  <1>6. CASE op \in {"inv", "neg", "not"}
    BY <1>6, UnaryFixes, FixesSettles
  <1>7. CASE op = "eq"
    BY <1>7, EqualityFixes, FixesSettles
  <1>8. CASE op = "rescr"
    BY <1>8, RoundFixes, FixesSettles
  <1>9. CASE op \in {"push", "read", "read2"}
    BY <1>9, ReadingSettles
  <1>10. CASE op = "swap"
    BY <1>10, SwapSettles
  <1>11. CASE op = "binacc"
    BY <1>11, BinAccSettles
  <1>12. CASE op = "cmp"
    BY <1>12, CmpSettles
  <1> QED
    BY <1>1, <1>2, <1>3, <1>4, <1>5, <1>6, <1>7, <1>8, <1>9, <1>10, <1>11, <1>12 DEF Perform
=============================================================================
