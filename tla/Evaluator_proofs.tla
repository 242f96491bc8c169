--------------------------- MODULE Evaluator_proofs ---------------------------
(***************************************************************************)
(* Every trace the processor returns satisfies the constraints, for all    *)
(* programs, inputs and constants.  The parts of the proof, in order:      *)
(*   - of the flags computed from the bits of a row, none but that of its  *)
(*     operation is other than 0;                                          *)
(*   - what the constraints say of two rows of any table that fits them,   *)
(*     for the stack (from Stack_proofs) and for the decoder;              *)
(*   - each step of the processor links its row to the next (Linked), and  *)
(*     so the rows recorded in a trace are linked, the first and the last  *)
(*     of them being those the boundary constraints ask for;               *)
(*   - the evaluation of linked rows in the table of the trace is 0.       *)
(***************************************************************************)
EXTENDS Evaluator, Processor_proofs
-----------------------------------------------------------------------------
(* The bits of an operation and the flags computed from them.              *)

(* the powers of two the bits of an operation are taken with *)
LEMMA Powers == 2^0 = 1 /\ 2^1 = 2 /\ 2^2 = 4 /\ 2^3 = 8 /\ 2^4 = 16 /\ 2^5 = 32 /\ 2^6 = 64
  BY SMT

(* a bit is 0 or 1 *)
LEMMA BitIsBit == \A x, i : Bit(x, i) \in {0, 1}
  BY DEF Bit

(* the bits of a number below 128, by its lower five and its upper two *)
LEMMA BitsOfParts ==
  ASSUME NEW lo \in 0..31, NEW hi \in 0..3, NEW x, x = 32 * hi + lo
  PROVE  /\ Bit(x, 0) = Bit(lo, 0) /\ Bit(x, 1) = Bit(lo, 1) /\ Bit(x, 2) = Bit(lo, 2)
         /\ Bit(x, 3) = Bit(lo, 3) /\ Bit(x, 4) = Bit(lo, 4)
         /\ Bit(x, 5) = Bit(hi, 0) /\ Bit(x, 6) = Bit(hi, 1)
  BY Powers DEF Bit

(* a number below 32 is given by its five bits, one below 4 by its two *)
LEMMA LowDigits ==
  ASSUME NEW lo \in 0..31
  PROVE  lo = Bit(lo, 0) + 2 * Bit(lo, 1) + 4 * Bit(lo, 2) + 8 * Bit(lo, 3) + 16 * Bit(lo, 4)
  BY Powers DEF Bit

LEMMA HighDigits ==
  ASSUME NEW hi \in 0..3
  PROVE  hi = Bit(hi, 0) + 2 * Bit(hi, 1)
  BY Powers DEF Bit

(* the lower five bits of the code of an operation, and the upper two *)
Low(op) ==
  CASE op = "begin" -> 0
    [] op \in DOMAIN LdIndex -> LdIndex[op]
    [] OTHER -> 31
High(op) ==
  CASE op = "begin" -> 0
    [] op \in DOMAIN HdIndex -> HdIndex[op]
    [] OTHER -> 3

(* The two tables of codes have no operation in common, and no code twice. *)
LEMMA HdIndexes ==
  ASSUME NEW op \in DOMAIN HdIndex
  PROVE  /\ op \notin {"begin", "noop"} /\ op \notin DOMAIN LdIndex /\ HdIndex[op] \in 0..2
         /\ (op = "push" <=> HdIndex[op] = 0)
         /\ \A v \in DOMAIN HdIndex : HdIndex[v] = HdIndex[op] => v = op
  BY DEF HdIndex, LdIndex

LEMMA LdIndexes ==
  ASSUME NEW op \in DOMAIN LdIndex
  PROVE  /\ op \notin {"begin", "noop"} /\ op \notin DOMAIN HdIndex /\ LdIndex[op] \in 0..30
         /\ (op = "assert" <=> LdIndex[op] = 0)
         /\ \A v \in DOMAIN LdIndex : LdIndex[v] = LdIndex[op] => v = op
  BY DEF HdIndex, LdIndex

(* Every operation is in one of the tables but BEGIN and NOOP. *)
LEMMA OperationKinds ==
  \A op \in Operations : op \in {"begin", "noop"} \/ op \in DOMAIN HdIndex \/ op \in DOMAIN LdIndex
  BY DEF Operations, HdIndex, LdIndex

(* the code of an operation, from its lower and its upper bits *)
LEMMA CodeParts ==
  ASSUME NEW op \in Operations
  PROVE  /\ Low(op) \in 0..31 /\ High(op) \in 0..3 /\ UserCode(op) = 32 * High(op) + Low(op)
         /\ op # "begin" => Low(op) = 31 \/ High(op) = 3
  <1>1. CASE op = "begin"
    <2>1. op \notin DOMAIN HdIndex /\ op \notin DOMAIN LdIndex /\ op # "noop"
      BY <1>1, HdIndexes, LdIndexes
    <2> QED BY <1>1, <2>1 DEF Low, High, UserCode
  <1>2. CASE op = "noop"
    <2>1. op \notin DOMAIN HdIndex /\ op \notin DOMAIN LdIndex /\ op # "begin"
      BY <1>2, HdIndexes, LdIndexes
    <2> QED BY <1>2, <2>1 DEF Low, High, UserCode
  <1>3. CASE op \in DOMAIN HdIndex
    <2>1. op \notin {"begin", "noop"} /\ op \notin DOMAIN LdIndex /\ HdIndex[op] \in 0..2
      BY <1>3, HdIndexes
    <2> QED BY <1>3, <2>1 DEF Low, High, UserCode
  <1>4. CASE op \in DOMAIN LdIndex
    <2>1. op \notin {"begin", "noop"} /\ op \notin DOMAIN HdIndex /\ LdIndex[op] \in 0..30
      BY <1>4, LdIndexes
    <2> QED BY <1>4, <2>1 DEF Low, High, UserCode
  <1> QED BY <1>1, <1>2, <1>3, <1>4, OperationKinds

(* no two operations have a code in common *)
LEMMA CodesDiffer ==
  ASSUME NEW op \in Operations, NEW v \in Operations, Low(op) = Low(v), High(op) = High(v)
  PROVE  op = v
  <1> DEFINE Kind(x) == /\ x = "begin" => Low(x) = 0 /\ High(x) = 0
                        /\ x = "noop" => Low(x) = 31 /\ High(x) = 3
                        /\ x \in DOMAIN HdIndex => Low(x) = 31 /\ High(x) = HdIndex[x] /\ HdIndex[x] \in 0..2
                        /\ x \in DOMAIN LdIndex => Low(x) = LdIndex[x] /\ High(x) = 3 /\ LdIndex[x] \in 0..30
  <1>1. ASSUME NEW x \in Operations PROVE Kind(x)
    <2>1. x \in DOMAIN HdIndex => x \notin {"begin", "noop"} /\ x \notin DOMAIN LdIndex /\ HdIndex[x] \in 0..2
      BY HdIndexes
    <2>2. x \in DOMAIN LdIndex => x \notin {"begin", "noop"} /\ x \notin DOMAIN HdIndex /\ LdIndex[x] \in 0..30
      BY LdIndexes
    <2> QED BY <2>1, <2>2 DEF Low, High
  <1>2. Kind(op) /\ Kind(v)
    BY <1>1
  <1>3. /\ op \in {"begin", "noop"} \/ op \in DOMAIN HdIndex \/ op \in DOMAIN LdIndex
        /\ v \in {"begin", "noop"} \/ v \in DOMAIN HdIndex \/ v \in DOMAIN LdIndex
    BY OperationKinds
  <1> QED BY <1>2, <1>3, HdIndexes, LdIndexes

(* The bits of a row, and the operation they are the code of. *)
LEMMA OpBitsParts ==
  ASSUME NEW flow \in DOMAIN FlowCode, NEW op \in Operations, NEW bits, bits = OpBits(flow, op)
  PROVE  /\ bits = [cf |-> <<Bit(FlowCode[flow], 0), Bit(FlowCode[flow], 1), Bit(FlowCode[flow], 2)>>,
                    ld |-> <<Bit(Low(op), 0), Bit(Low(op), 1), Bit(Low(op), 2),
                             Bit(Low(op), 3), Bit(Low(op), 4)>>,
                    hd |-> <<Bit(High(op), 0), Bit(High(op), 1)>>]
         /\ OpCode(bits) = UserCode(op)
         /\ Mnemonic(OpCode(bits)) = op
  <1> DEFINE lo == Low(op)
             hi == High(op)
             c == FlowCode[flow]
  <1>1. lo \in 0..31 /\ hi \in 0..3 /\ UserCode(op) = 32 * hi + lo
    BY CodeParts
  <1>2. /\ [i \in 1..3 |-> Bit(c, i - 1)] = <<Bit(c, 0), Bit(c, 1), Bit(c, 2)>>
    OBVIOUS
  <1> HIDE DEF lo, hi, c
  <1>3. [i \in 1..5 |-> Bit(UserCode(op), i - 1)]
          = <<Bit(lo, 0), Bit(lo, 1), Bit(lo, 2), Bit(lo, 3), Bit(lo, 4)>>
    BY <1>1, BitsOfParts
  <1>4. [i \in 1..2 |-> Bit(UserCode(op), i + 4)] = <<Bit(hi, 0), Bit(hi, 1)>>
    BY <1>1, BitsOfParts
  <1>5. bits = [cf |-> <<Bit(c, 0), Bit(c, 1), Bit(c, 2)>>,
                ld |-> <<Bit(lo, 0), Bit(lo, 1), Bit(lo, 2), Bit(lo, 3), Bit(lo, 4)>>,
                hd |-> <<Bit(hi, 0), Bit(hi, 1)>>]
    BY <1>2, <1>3, <1>4 DEF OpBits, c
  <1>6. OpCode(bits) = UserCode(op)
    BY <1>1, <1>5, LowDigits, HighDigits, BitIsBit DEF OpCode
  <1>7. \A v \in Operations : UserCode(v) = UserCode(op) => v = op
    <2> SUFFICES ASSUME NEW v \in Operations, UserCode(v) = UserCode(op) PROVE v = op
      OBVIOUS
    <2>1. Low(v) \in 0..31 /\ High(v) \in 0..3 /\ UserCode(v) = 32 * High(v) + Low(v)
      BY CodeParts
    <2>2. Low(v) = Low(op) /\ High(v) = High(op)
      BY <1>1, <2>1 DEF lo, hi
    <2> QED BY <2>2, CodesDiffer
  <1>8. Mnemonic(OpCode(bits)) = op
    BY <1>6, <1>7 DEF Mnemonic
  <1> QED BY <1>5, <1>6, <1>8 DEF lo, hi, c
-----------------------------------------------------------------------------
(* products of bits *)
LEMMA FactorIsTest ==
  ASSUME NEW bit \in {0, 1}, NEW wanted \in {0, 1}
  PROVE  Factor(bit, wanted) = IF bit = wanted THEN 1 ELSE 0
  BY DEF Factor

(* A product of two tests is 1 when both succeed, and of five likewise. *)
LEMMA BitProduct ==
  \A a, b \in {0, 1} : a * b \in {0, 1} /\ (a * b = 1 <=> a = 1 /\ b = 1)
  OBVIOUS

LEMMA BitProduct5 ==
  ASSUME NEW a \in {0, 1}, NEW b \in {0, 1}, NEW c \in {0, 1}, NEW d \in {0, 1}, NEW e \in {0, 1}
  PROVE  /\ a * b * c * d * e \in {0, 1}
         /\ a * b * c * d * e = 1 <=> a = 1 /\ b = 1 /\ c = 1 /\ d = 1 /\ e = 1
  BY BitProduct

(* Operations with the same lower bits differ in their upper ones. *)
LEMMA SameLow ==
  ASSUME NEW a \in 0..31, NEW b \in 0..31, Bit(a, 0) = Bit(b, 0), Bit(a, 1) = Bit(b, 1),
         Bit(a, 2) = Bit(b, 2), Bit(a, 3) = Bit(b, 3), Bit(a, 4) = Bit(b, 4)
  PROVE  a = b
  BY LowDigits

(* rows of operations the processor makes: a flow operation comes with     *)
(* NOOP, a user operation with HACC *)
Together(flow, op) ==
  flow \in DOMAIN FlowCode /\ op \in Operations /\ (flow = "hacc" \/ op = "noop")

(* The flags of the three banks: 1 at the bits of the row, 0 elsewhere. *)
LEMMA LdFlags ==
  ASSUME NEW flow, NEW op, Together(flow, op), NEW bits, bits = OpBits(flow, op), NEW n \in 0..31
  PROVE  LdFlag(bits, n) \in {0, 1} /\ (LdFlag(bits, n) = 1 => Low(op) = n)
         /\ (n % 4 # 2 /\ Low(op) = n => LdFlag(bits, n) = 1)
  <1> DEFINE lo == Low(op)
             c == FlowCode[flow]
  <1>1. /\ lo \in 0..31
        /\ bits.ld = <<Bit(lo, 0), Bit(lo, 1), Bit(lo, 2), Bit(lo, 3), Bit(lo, 4)>>
        /\ bits.cf[2] = Bit(c, 1)
    BY CodeParts, OpBitsParts DEF Together
  <1>2. (n % 4 = 2) => (c = 0 \/ lo = 31)
    BY DEF Together, FlowCode, Low, LdIndex
  <1>3. (c = 0 => Bit(c, 1) = 0) /\ (lo = 31 => Bit(lo, 0) = 1) /\ (n % 4 = 2 => Bit(n, 0) = 0 /\ Bit(n, 1) = 1)
    BY Powers DEF Bit
  <1> HIDE DEF lo, c
  <1> DEFINE second == IF n % 4 = 2 THEN Bit(c, 1) ELSE Factor(Bit(lo, 1), Bit(n, 1))
             f0 == Factor(Bit(lo, 0), Bit(n, 0))
             f2 == Factor(Bit(lo, 2), Bit(n, 2))
             f3 == Factor(Bit(lo, 3), Bit(n, 3))
             f4 == Factor(Bit(lo, 4), Bit(n, 4))
  <1>4. LdFlag(bits, n) = f0 * second * f2 * f3 * f4
    BY <1>1 DEF LdFlag
  <1>5. /\ f0 = IF Bit(lo, 0) = Bit(n, 0) THEN 1 ELSE 0
        /\ f2 = IF Bit(lo, 2) = Bit(n, 2) THEN 1 ELSE 0
        /\ f3 = IF Bit(lo, 3) = Bit(n, 3) THEN 1 ELSE 0
        /\ f4 = IF Bit(lo, 4) = Bit(n, 4) THEN 1 ELSE 0
        /\ second \in {0, 1}
        /\ n % 4 # 2 => second = IF Bit(lo, 1) = Bit(n, 1) THEN 1 ELSE 0
    BY FactorIsTest, BitIsBit
  <1>6. n % 4 = 2 => f0 = 0 \/ second = 0
    BY <1>2, <1>3, <1>5
  <1> HIDE DEF f0, f2, f3, f4, second
  <1>7. /\ LdFlag(bits, n) \in {0, 1}
        /\ LdFlag(bits, n) = 1 <=> f0 = 1 /\ second = 1 /\ f2 = 1 /\ f3 = 1 /\ f4 = 1
    BY <1>4, <1>5, BitProduct5
  <1>8. ASSUME LdFlag(bits, n) = 1 PROVE lo = n
    <2>1. n % 4 # 2
      BY <1>6, <1>7, <1>8
    <2>2. /\ Bit(lo, 0) = Bit(n, 0) /\ Bit(lo, 1) = Bit(n, 1) /\ Bit(lo, 2) = Bit(n, 2)
          /\ Bit(lo, 3) = Bit(n, 3) /\ Bit(lo, 4) = Bit(n, 4)
      BY <2>1, <1>5, <1>7, <1>8
    <2> QED BY <2>2, <1>1, SameLow
  <1>9. ASSUME n % 4 # 2, lo = n PROVE LdFlag(bits, n) = 1
    BY <1>5, <1>7, <1>9
  <1> QED BY <1>7, <1>8, <1>9 DEF lo

LEMMA HdFlags ==
  ASSUME NEW flow, NEW op, Together(flow, op), NEW bits, bits = OpBits(flow, op), NEW n \in 0..3
  PROVE  HdFlag(bits, n) = IF High(op) = n THEN 1 ELSE 0
  <1> DEFINE hi == High(op)
  <1>1. hi \in 0..3 /\ bits.hd = <<Bit(hi, 0), Bit(hi, 1)>>
    BY CodeParts, OpBitsParts DEF Together
  <1>2. HdFlag(bits, n) = Factor(Bit(hi, 0), Bit(n, 0)) * Factor(Bit(hi, 1), Bit(n, 1))
    BY <1>1 DEF HdFlag
  <1> HIDE DEF hi
  <1>3. Bit(hi, 0) = Bit(n, 0) /\ Bit(hi, 1) = Bit(n, 1) <=> hi = n
    BY <1>1, HighDigits
  <1> QED BY <1>2, <1>3, FactorIsTest, BitIsBit DEF hi

LEMMA CfFlags ==
  ASSUME NEW flow, NEW op, Together(flow, op), NEW bits, bits = OpBits(flow, op),
         NEW other \in DOMAIN FlowCode
  PROVE  CfFlag(bits, FlowCode[other]) = IF other = flow THEN 1 ELSE 0
  <1> DEFINE c == FlowCode[flow]
             n == FlowCode[other]
  <1>1. bits.cf = <<Bit(c, 0), Bit(c, 1), Bit(c, 2)>>
    BY OpBitsParts DEF Together
  <1>2. c \in 0..7 /\ n \in 0..7 /\ (c = n => flow = other)
    BY DEF Together, FlowCode
  <1>3. CfFlag(bits, n) = Factor(Bit(c, 0), Bit(n, 0)) * Factor(Bit(c, 1), Bit(n, 1))
                            * Factor(Bit(c, 2), Bit(n, 2))
    BY <1>1 DEF CfFlag
  <1>4. c = n => flow = other
    BY <1>2
  <1> HIDE DEF c, n
  <1>5. Bit(c, 0) = Bit(n, 0) /\ Bit(c, 1) = Bit(n, 1) /\ Bit(c, 2) = Bit(n, 2) => c = n
    BY <1>2, Powers DEF Bit
  <1>6. CfFlag(bits, n) = IF c = n THEN 1 ELSE 0
    BY <1>3, <1>5, FactorIsTest, BitIsBit, BitProduct
  <1> QED BY <1>4, <1>6 DEF c, n

(* On a row of the processor the flags of all operations but that of the   *)
(* row are 0; its own is 1, unless it is one whose flag reads a bit of the *)
(* flow operation. *)
LEMMA OneFlag ==
  ASSUME NEW flow, NEW op, Together(flow, op), NEW bits, bits = OpBits(flow, op)
  PROVE  /\ \A other \in DOMAIN FlowCode :
              FlagsOf(bits).cf[FlowCode[other]] = IF other = flow THEN 1 ELSE 0
         /\ \A v \in Operations : FlagOf(FlagsOf(bits), v) # 0 => v = op
         /\ FlagOf(FlagsOf(bits), op) \in {0, 1}
         /\ FlagsOf(bits).hd[HdIndex.push] = IF op = "push" THEN 1 ELSE 0
  <1> DEFINE F == FlagsOf(bits)
  <1>1. \A other \in DOMAIN FlowCode : F.cf[FlowCode[other]] = IF other = flow THEN 1 ELSE 0
    <2> SUFFICES ASSUME NEW other \in DOMAIN FlowCode
                 PROVE  F.cf[FlowCode[other]] = IF other = flow THEN 1 ELSE 0
      OBVIOUS
    <2>1. FlowCode[other] \in 0..7
      BY DEF FlowCode
    <2> QED BY <2>1, CfFlags DEF FlagsOf
  <1>2. /\ Low(op) \in 0..31 /\ High(op) \in 0..3
        /\ bits.hd[1] = Bit(High(op), 0) /\ bits.ld[1] = Bit(Low(op), 0)
        /\ op # "begin" => Low(op) = 31 \/ High(op) = 3
    BY CodeParts, OpBitsParts DEF Together
  <1>3. op = "begin" => Low(op) = 0 /\ High(op) = 0 /\ bits.hd[1] = 0 /\ bits.ld[1] = 0
    <2>1. Bit(0, 0) = 0
      BY Powers DEF Bit
    <2>2. op = "begin" => Low(op) = 0 /\ High(op) = 0
      BY HdIndexes, LdIndexes DEF Low, High
    <2> QED BY <1>2, <2>1, <2>2
  <1>4. /\ F.begin = LdFlag(bits, 0) * HdFlag(bits, 0)
        /\ F.noop = LdFlag(bits, 31) * HdFlag(bits, 3)
        /\ \A n \in 0..31 : F.ld[n] = LdFlag(bits, n) * (IF n = 0 THEN bits.hd[1] ELSE 1)
        /\ \A n \in 0..3 : F.hd[n] = HdFlag(bits, n) * (IF n = 0 THEN bits.ld[1] ELSE 1)
    BY DEF FlagsOf
  <1> HIDE DEF F
  <1>5. bits.hd[1] \in {0, 1} /\ bits.ld[1] \in {0, 1}
    BY <1>2, BitIsBit
  <1>6. ASSUME NEW v \in Operations
        PROVE  FlagOf(F, v) \in {0, 1} /\ (FlagOf(F, v) = 1 => v = op)
    <2>1. CASE v = "begin"
      <3>1. FlagOf(F, v) = LdFlag(bits, 0) * HdFlag(bits, 0)
        BY <1>4, <2>1, HdIndexes, LdIndexes DEF FlagOf
      <3>2. LdFlag(bits, 0) \in {0, 1} /\ (LdFlag(bits, 0) = 1 => Low(op) = 0)
        BY LdFlags
      <3>3. HdFlag(bits, 0) = IF High(op) = 0 THEN 1 ELSE 0
        BY HdFlags
      <3>4. FlagOf(F, v) \in {0, 1} /\ (FlagOf(F, v) = 1 => Low(op) = 0 /\ High(op) = 0)
        BY <3>1, <3>2, <3>3
      <3> QED BY <3>4, <1>2, <2>1
    <2>2. CASE v = "noop"
      <3>1. FlagOf(F, v) = LdFlag(bits, 31) * HdFlag(bits, 3)
        BY <1>4, <2>2, HdIndexes, LdIndexes DEF FlagOf
      <3>2. LdFlag(bits, 31) \in {0, 1} /\ (LdFlag(bits, 31) = 1 => Low(op) = 31)
        BY LdFlags
      <3>3. HdFlag(bits, 3) = IF High(op) = 3 THEN 1 ELSE 0
        BY HdFlags
      <3>4. FlagOf(F, v) \in {0, 1} /\ (FlagOf(F, v) = 1 => Low(op) = 31 /\ High(op) = 3)
        BY <3>1, <3>2, <3>3
      <3>5. Low(v) = 31 /\ High(v) = 3
        BY <2>2, HdIndexes, LdIndexes DEF Low, High
      <3> QED BY <3>4, <3>5, CodesDiffer DEF Together
    <2>3. CASE v \in DOMAIN HdIndex
      <3> DEFINE n == HdIndex[v]
      <3>1. v \notin {"begin", "noop"} /\ n \in 0..2 /\ v \notin DOMAIN LdIndex
        BY <2>3, HdIndexes
      <3>2. FlagOf(F, v) = HdFlag(bits, n) * (IF n = 0 THEN bits.ld[1] ELSE 1)
        BY <1>4, <2>3, <3>1 DEF FlagOf
      <3>3. HdFlag(bits, n) = IF High(op) = n THEN 1 ELSE 0
        BY <3>1, HdFlags
      <3>4. /\ FlagOf(F, v) \in {0, 1}
            /\ FlagOf(F, v) = 1 => High(op) = n /\ (n = 0 => bits.ld[1] = 1)
        BY <1>5, <3>2, <3>3
      <3>5. High(v) = n /\ Low(v) = 31
        BY <2>3, <3>1 DEF Low, High
      <3>6. ASSUME FlagOf(F, v) = 1 PROVE v = op
        <4>1. High(op) = n /\ n # 3
          BY <3>4, <3>6, <3>1
        <4>2. op # "begin"
          BY <1>3, <3>4, <3>6, <4>1
        <4>3. Low(op) = 31
          BY <1>2, <4>1, <4>2
        <4> QED BY <4>1, <4>3, <3>5, CodesDiffer DEF Together
      <3> QED BY <3>4, <3>6
    <2>4. CASE v \in DOMAIN LdIndex
      <3> DEFINE n == LdIndex[v]
      <3>1. v \notin {"begin", "noop"} /\ n \in 0..30 /\ v \notin DOMAIN HdIndex
        BY <2>4, LdIndexes
      <3>2. FlagOf(F, v) = LdFlag(bits, n) * (IF n = 0 THEN bits.hd[1] ELSE 1)
        BY <1>4, <2>4, <3>1 DEF FlagOf
      <3>3. LdFlag(bits, n) \in {0, 1} /\ (LdFlag(bits, n) = 1 => Low(op) = n)
        BY <3>1, LdFlags
      <3>4. /\ FlagOf(F, v) \in {0, 1}
            /\ FlagOf(F, v) = 1 => Low(op) = n /\ (n = 0 => bits.hd[1] = 1)
        BY <1>5, <3>2, <3>3
      <3>5. High(v) = 3 /\ Low(v) = n
        BY <2>4, <3>1 DEF Low, High
      <3>6. ASSUME FlagOf(F, v) = 1 PROVE v = op
        <4>1. Low(op) = n /\ n # 31
          BY <3>4, <3>6, <3>1
        <4>2. op # "begin"
          BY <1>3, <3>4, <3>6, <4>1
        <4>3. High(op) = 3
          BY <1>2, <4>1, <4>2
        <4> QED BY <4>1, <4>3, <3>5, CodesDiffer DEF Together
      <3> QED BY <3>4, <3>6
    <2> QED BY <2>1, <2>2, <2>3, <2>4, OperationKinds
  <1>7. F.hd[HdIndex.push] = IF op = "push" THEN 1 ELSE 0
    <2>1. "push" \in DOMAIN HdIndex /\ HdIndex.push = 0 /\ "push" \in Operations
      BY DEF HdIndex, Operations
    <2>2. FlagOf(F, "push") = F.hd[HdIndex.push]
      BY <2>1, HdIndexes DEF FlagOf
    <2>3. op # "push" => F.hd[HdIndex.push] = 0
      BY <2>1, <2>2, <1>6
    <2>4. ASSUME op = "push" PROVE F.hd[0] = 1
      <3>1. High(op) = 0 /\ Low(op) = 31
        BY <2>1, <2>4, HdIndexes, LdIndexes DEF Low, High
      <3>2. bits.ld[1] = 1
        BY <1>2, <3>1, Powers DEF Bit
      <3>3. HdFlag(bits, 0) = 1
        BY <3>1, HdFlags
      <3> QED BY <1>4, <3>2, <3>3
    <2> QED BY <2>1, <2>3, <2>4
  <1> QED BY <1>1, <1>6, <1>7 DEF F, Together
-----------------------------------------------------------------------------
(* Sums over the operations with a flag.                                   *)

(* a sum of nothing or of a single 0 *)
LEMMA SumOfZero ==
  ASSUME NEW f, NEW x, DOMAIN f \subseteq {x}, x \in DOMAIN f => f[x] = 0
  PROVE  SumFunction(f) = 0
  <1> DEFINE R(g, s) == IF s = {} THEN 0
                        ELSE LET y == CHOOSE y \in s : TRUE IN f[y] + g[s \ {y}]
             iter == CHOOSE g : g = [s \in SUBSET (DOMAIN f) |-> R(g, s)]
  <1>1. SumFunction(f) = iter[DOMAIN f]
    BY DEF SumFunction, SumFunctionOnSet, FoldFunctionOnSet, MapThenFoldSet
  <1>2. iter = [s \in SUBSET (DOMAIN f) |-> R(iter, s)]
    <2> DEFINE w == [s \in SUBSET (DOMAIN f) |-> 0]
    <2>1. ASSUME NEW s \in SUBSET (DOMAIN f) PROVE R(w, s) = 0
      <3>1. CASE s = {}
        BY <3>1
      <3>2. CASE s = {x}
        <4>1. (CHOOSE y \in s : TRUE) = x
          BY <3>2
        <4>2. s \ {x} \in SUBSET (DOMAIN f)
          BY <2>1
        <4>3. f[x] = 0 /\ w[s \ {x}] = 0
          BY <3>2, <2>1, <4>2
        <4> QED BY <3>2, <4>1, <4>3
      <3> QED BY <2>1, <3>1, <3>2
    <2>2. w = [s \in SUBSET (DOMAIN f) |-> R(w, s)]
      BY <2>1
    <2> HIDE DEF R
    <2> QED BY <2>2
  <1>3. iter[{}] = 0
    BY <1>2
  <1>4. CASE DOMAIN f = {}
    BY <1>1, <1>3, <1>4
  <1>5. CASE DOMAIN f = {x}
    <2>1. (CHOOSE y \in {x} : TRUE) = x /\ {x} \ {x} = {}
      OBVIOUS
    <2>2. iter[{x}] = R(iter, {x})
      <3> HIDE DEF iter, R
      <3> QED BY <1>2, <1>5
    <2>3. R(iter, {x}) = f[x] + iter[{}]
      <3> HIDE DEF iter
      <3> QED BY <2>1
    <2> HIDE DEF iter
    <2> QED BY <1>1, <1>5, <2>2, <2>3, <1>3
  <1> QED BY <1>4, <1>5

(* The constraints of the stack are those of the operation of the row.     *)
LEMMA StackSatisfied ==
  ASSUME NEW flow, NEW op, Together(flow, op), NEW bits, bits = OpBits(flow, op),
         NEW old, NEW new, NEW n, NEW size \in Nat, NEW T, T = TermsOf(op, old, new, n),
         \A i \in 1..2 : T.aux[i] = 0, \A i \in 0..(size - 1) : T.stack[i] = 0
  PROVE  /\ IsZero(StackEvaluation(FlagsOf(bits), old, new, n, size).aux)
         /\ IsZero(StackEvaluation(FlagsOf(bits), old, new, n, size).stack)
  <1> DEFINE F == FlagsOf(bits)
             active == {v \in Operations : FlagOf(F, v) # 0}
             terms == [v \in active |-> TermsOf(v, old, new, n)]
             aux(i) == [v \in active |-> FlagOf(F, v) * terms[v].aux[i]]
             stack(i) == [v \in active |-> FlagOf(F, v) * terms[v].stack[i]]
             E == StackEvaluation(F, old, new, n, size)
  <1>1. E.aux = [i \in 1..2 |-> SumFunction(aux(i)) % Modulus]
        /\ E.stack = [i \in 0..(size - 1) |-> SumFunction(stack(i)) % Modulus]
    BY DEF StackEvaluation
  <1>2. active \subseteq {op} /\ FlagOf(F, op) \in {0, 1}
    BY OneFlag
  <1>3. ASSUME NEW i \in 1..2 PROVE SumFunction(aux(i)) = 0
    <2>1. op \in active => aux(i)[op] = 0
      <3>1. op \in active => aux(i)[op] = FlagOf(F, op) * T.aux[i]
        OBVIOUS
      <3> HIDE DEF F, active, aux
      <3> QED BY <1>2, <1>3, <3>1
    <2>2. DOMAIN aux(i) = active
      OBVIOUS
    <2> HIDE DEF active, aux
    <2> QED BY <1>2, <2>1, <2>2, SumOfZero
  <1>4. ASSUME NEW i \in 0..(size - 1) PROVE SumFunction(stack(i)) = 0
    <2>1. op \in active => stack(i)[op] = 0
      <3>1. op \in active => stack(i)[op] = FlagOf(F, op) * T.stack[i]
        OBVIOUS
      <3> HIDE DEF F, active, stack
      <3> QED BY <1>2, <1>4, <3>1
    <2>2. DOMAIN stack(i) = active
      OBVIOUS
    <2> HIDE DEF active, stack
    <2> QED BY <1>2, <2>1, <2>2, SumOfZero
  <1>5. 0 % Modulus = 0
    BY FieldAssumption
  <1> HIDE DEF aux, stack, E, F
  <1> QED BY <1>1, <1>3, <1>4, <1>5 DEF IsZero, E, F
-----------------------------------------------------------------------------
(***************************************************************************)
(* The table has as many user registers as the stack ever needed, and      *)
(* never less than a minimum: fewer or more than the slots of the stack.   *)
(***************************************************************************)
Resized(row, size) == [i \in 0..(size - 1) |-> IF i \in Slots THEN row[i] ELSE 0]

(* size leaves no value out, and op finds room for what it adds *)
Fitting(op, old, new, size) ==
  /\ size \in Nat /\ size >= 8 /\ MaxStackDepth >= 8
  /\ old \in Rows /\ new \in Rows
  /\ \A i \in Slots : i >= size => old[i] = 0 /\ new[i] = 0
  /\ \A i \in Slots : i + Added(op) >= MaxStackDepth => old[i] = 0

(* The terms of the registers of the table: those of the slots, and 0.     *)
SameTerms(terms, slotTerms, size) ==
  /\ DOMAIN terms = 0..(size - 1)
  /\ \A i \in 0..(size - 1) : terms[i] = IF i \in Slots THEN slotTerms[i] ELSE 0

(* a register of the stack is one of the first MaxStackDepth *)
LEMMA SlotsOfStack == \A i : i \in Slots <=> i \in Nat /\ i < MaxStackDepth
  BY StackAssumption DEF Slots

(* what the helpers of the constraints give on a resized row *)
LEMMA ResizedRow ==
  ASSUME NEW op, NEW old, NEW new, NEW size, Fitting(op, old, new, size), NEW row \in {old, new}
  PROVE  /\ DOMAIN Resized(row, size) = 0..(size - 1)
         /\ \A i \in 0..(size - 1) : Resized(row, size)[i] = IF i \in Slots THEN row[i] ELSE 0
         /\ \A i \in 0..7 : i \in Slots /\ Resized(row, size)[i] = row[i]
  BY SlotsOfStack, StackAssumption DEF Resized, Fitting

LEMMA CopyResized ==
  ASSUME NEW op, NEW old, NEW new, NEW size, Fitting(op, old, new, size), NEW from \in Nat
  PROVE  SameTerms(CopyTerms(Resized(old, size), Resized(new, size), from),
                   CopyTerms(old, new, from), size)
  <1> DEFINE o == Resized(old, size)
             w == Resized(new, size)
  <1>1. DOMAIN old = Slots
    BY DEF Fitting, Rows
  <1>2. DOMAIN o = 0..(size - 1)
    BY ResizedRow
  <1>3. ASSUME NEW i \in 0..(size - 1)
        PROVE  CopyTerms(o, w, from)[i] = IF i \in Slots THEN CopyTerms(old, new, from)[i] ELSE 0
    <2>1. CopyTerms(o, w, from)[i] = IF i < from THEN 0 ELSE Differ(o[i], w[i])
      BY <1>2, <1>3 DEF CopyTerms
    <2>2. /\ w[i] = IF i \in Slots THEN new[i] ELSE 0
          /\ o[i] = IF i \in Slots THEN old[i] ELSE 0
      BY <1>3, ResizedRow
    <2>3. i \in Slots => CopyTerms(old, new, from)[i] = IF i < from THEN 0 ELSE Differ(old[i], new[i])
      BY <1>1 DEF CopyTerms
    <2> HIDE DEF o, w
    <2> QED BY <2>1, <2>2, <2>3 DEF Differ
  <1>4. DOMAIN CopyTerms(o, w, from) = 0..(size - 1)
    BY <1>2 DEF CopyTerms
  <1> QED BY <1>3, <1>4 DEF SameTerms

LEMMA LeftResized ==
  ASSUME NEW op, NEW old, NEW new, NEW size, Fitting(op, old, new, size),
         NEW from \in Nat, NEW n \in Nat
  PROVE  SameTerms(LeftShiftTerms(Resized(old, size), Resized(new, size), from, n, 0),
                   LeftShiftTerms(old, new, from, n, 0), size)
  <1> DEFINE o == Resized(old, size)
             w == Resized(new, size)
  <1>1. DOMAIN old = Slots /\ size \in Nat
    BY DEF Fitting, Rows
  <1>2. DOMAIN o = 0..(size - 1)
    BY ResizedRow
  <1>3. ASSUME NEW i \in 0..(size - 1)
        PROVE  LeftShiftTerms(o, w, from, n, 0)[i]
                 = IF i \in Slots THEN LeftShiftTerms(old, new, from, n, 0)[i] ELSE 0
    <2>1. LeftShiftTerms(o, w, from, n, 0)[i] =
            IF i < from - n THEN 0
            ELSE IF i + n \in 0..(size - 1) THEN Differ(o[i + n], w[i]) ELSE Differ(w[i], 0)
      BY <1>2, <1>3 DEF LeftShiftTerms
    <2>2. w[i] = IF i \in Slots THEN new[i] ELSE 0
      BY <1>3, ResizedRow
    <2>3. i + n \in 0..(size - 1) => o[i + n] = IF i + n \in Slots THEN old[i + n] ELSE 0
      BY ResizedRow
    <2>4. i + n \in Slots /\ i + n \notin 0..(size - 1) => old[i + n] = 0
      BY <1>1, <1>3 DEF Fitting
    <2>5. i \notin Slots => i + n \notin Slots
      BY <1>1, <1>3, SlotsOfStack, StackAssumption
    <2>6. i \in Slots =>
            LeftShiftTerms(old, new, from, n, 0)[i] =
              IF i < from - n THEN 0
              ELSE IF i + n \in Slots THEN Differ(old[i + n], new[i]) ELSE Differ(new[i], 0)
      BY <1>1 DEF LeftShiftTerms
    <2> HIDE DEF o, w
    <2> QED BY <2>1, <2>2, <2>3, <2>4, <2>5, <2>6 DEF Differ
  <1>4. DOMAIN LeftShiftTerms(o, w, from, n, 0) = 0..(size - 1)
    BY <1>2 DEF LeftShiftTerms
  <1> QED BY <1>3, <1>4 DEF SameTerms

LEMMA RightResized ==
  ASSUME NEW op, NEW old, NEW new, NEW size, Fitting(op, old, new, size), NEW n, n = Added(op),
         n \in Nat
  PROVE  SameTerms(RightShiftTerms(Resized(old, size), Resized(new, size), n),
                   RightShiftTerms(old, new, n), size)
  <1> DEFINE o == Resized(old, size)
             w == Resized(new, size)
  <1>1. DOMAIN old = Slots /\ size \in Nat
    BY DEF Fitting, Rows
  <1>2. DOMAIN o = 0..(size - 1)
    BY ResizedRow
  <1>3. ASSUME NEW i \in 0..(size - 1)
        PROVE  RightShiftTerms(o, w, n)[i]
                 = IF i \in Slots THEN RightShiftTerms(old, new, n)[i] ELSE 0
    <2>1. RightShiftTerms(o, w, n)[i] = IF i < n THEN 0 ELSE Differ(o[i - n], w[i])
      BY <1>2, <1>3 DEF RightShiftTerms
    <2>2. w[i] = IF i \in Slots THEN new[i] ELSE 0
      BY <1>3, ResizedRow
    <2>3. i >= n => o[i - n] = IF i - n \in Slots THEN old[i - n] ELSE 0
      <3>1. i >= n => i - n \in 0..(size - 1)
        BY <1>1, <1>3
      <3> QED BY <3>1, ResizedRow
    <2>4. i \notin Slots /\ i - n \in Slots => old[i - n] = 0
      <3> SUFFICES ASSUME i \notin Slots, i - n \in Slots PROVE old[i - n] = 0
        OBVIOUS
      <3>1. (i - n) + Added(op) >= MaxStackDepth
        BY <1>1, <1>3, SlotsOfStack, StackAssumption
      <3> QED BY <3>1 DEF Fitting
    <2>5. i \in Slots => (i >= n => i - n \in Slots)
      BY <1>3, SlotsOfStack, StackAssumption
    <2>6. i \in Slots =>
            RightShiftTerms(old, new, n)[i] = IF i < n THEN 0 ELSE Differ(old[i - n], new[i])
      BY <1>1 DEF RightShiftTerms
    <2> HIDE DEF o, w
    <2> QED BY <1>3, <2>1, <2>2, <2>3, <2>4, <2>5, <2>6 DEF Differ
  <1>4. DOMAIN RightShiftTerms(o, w, n) = 0..(size - 1)
    BY <1>2 DEF RightShiftTerms
  <1> QED BY <1>3, <1>4 DEF SameTerms

(* the same values in front of terms and of terms of the slots *)
LEMMA BeforeResized ==
  ASSUME NEW first, NEW same, same = first, Len(first) \in 0..8, MaxStackDepth >= 8,
         NEW terms, NEW slotTerms, NEW size \in Nat, DOMAIN slotTerms = Slots,
         SameTerms(terms, slotTerms, size)
  PROVE  SameTerms(Before(same, terms), Before(first, slotTerms), size)
  <1>1. DOMAIN Before(same, terms) = 0..(size - 1)
    BY DEF Before, SameTerms
  <1>2. ASSUME NEW i \in 0..(size - 1)
        PROVE  Before(same, terms)[i] = IF i \in Slots THEN Before(first, slotTerms)[i] ELSE 0
    <2>1. Before(same, terms)[i] = IF i < Len(first) THEN first[i + 1] ELSE terms[i]
      BY <1>2 DEF Before, SameTerms
    <2>2. i \in Slots => Before(first, slotTerms)[i] = IF i < Len(first) THEN first[i + 1] ELSE slotTerms[i]
      BY DEF Before
    <2>3. i < Len(first) => i \in Slots
      BY <1>2, StackAssumption DEF Slots
    <2> QED BY <1>2, <2>1, <2>2, <2>3 DEF SameTerms
  <1> QED BY <1>1, <1>2 DEF SameTerms

(* The terms of an operation on registers of the table are those on the    *)
(* slots of the stack.                                                     *)
TermsAgree(op, old, new, n, size) ==
  /\ TermsOf(op, Resized(old, size), Resized(new, size), n).aux = TermsOf(op, old, new, n).aux
  /\ SameTerms(TermsOf(op, Resized(old, size), Resized(new, size), n).stack,
               TermsOf(op, old, new, n).stack, size)

(* from terms with values in front of those of a helper *)
LEMMA AgreeByParts ==
  ASSUME NEW op, NEW old, NEW new, NEW n, NEW size, Fitting(op, old, new, size),
         NEW first, NEW same, same = first, Len(first) \in 0..8,
         NEW terms, NEW slotTerms, DOMAIN slotTerms = Slots, SameTerms(terms, slotTerms, size),
         NEW aux, NEW sameAux, sameAux = aux,
         TermsOf(op, Resized(old, size), Resized(new, size), n) = Terms(Before(same, terms), sameAux),
         TermsOf(op, old, new, n) = Terms(Before(first, slotTerms), aux)
  PROVE  TermsAgree(op, old, new, n, size)
  <1>1. SameTerms(Before(same, terms), Before(first, slotTerms), size)
    BY BeforeResized DEF Fitting
  <1> QED BY <1>1 DEF TermsAgree, Terms

(* the domains of the terms of the slots *)
LEMMA TermDomains ==
  ASSUME NEW old \in Rows, NEW new, NEW from, NEW n
  PROVE  /\ DOMAIN CopyTerms(old, new, from) = Slots
         /\ DOMAIN LeftShiftTerms(old, new, from, n, 0) = Slots
         /\ DOMAIN RightShiftTerms(old, new, n) = Slots
  BY DEF CopyTerms, LeftShiftTerms, RightShiftTerms, Rows

(* The kinds of operations, one by one. *)
LEMMA InputAgrees ==
  ASSUME NEW op, NEW old, NEW new, NEW n, NEW size, Fitting(op, old, new, size),
         op \in {"push", "read", "read2"}
  PROVE  TermsAgree(op, old, new, n, size)
  <1>1. Added(op) = (IF op = "read2" THEN 2 ELSE 1) /\ Added(op) \in Nat
    BY DEF Added
  <1>2. SameTerms(RightShiftTerms(Resized(old, size), Resized(new, size), Added(op)),
                  RightShiftTerms(old, new, Added(op)), size)
    BY <1>1, RightResized
  <1>3. \A o, w : TermsOf(op, o, w, n) = Terms(RightShiftTerms(o, w, Added(op)), NoAux)
    BY <1>1 DEF TermsOf, InputTerms
  <1> QED BY <1>2, <1>3 DEF TermsAgree, Terms

LEMMA DroppingAgrees ==
  ASSUME NEW op, NEW old, NEW new, NEW n, NEW size, Fitting(op, old, new, size),
         op \in {"drop", "drop4", "assert", "asserteq"}
  PROVE  TermsAgree(op, old, new, n, size)
  <1> DEFINE o == Resized(old, size)
             w == Resized(new, size)
             d == CASE op \in {"drop", "assert"} -> 1 [] op = "asserteq" -> 2 [] OTHER -> 4
  <1>1. d \in Nat
    OBVIOUS
  <1>2. o[0] = old[0] /\ o[1] = old[1]
    BY ResizedRow
  <1>3. /\ TermsOf(op, o, w, n).stack = LeftShiftTerms(o, w, d, d, 0)
        /\ TermsOf(op, old, new, n).stack = LeftShiftTerms(old, new, d, d, 0)
    BY DEF TermsOf, DropTerms, EqualityTerms, Terms
  <1>4. TermsOf(op, o, w, n).aux = TermsOf(op, old, new, n).aux
    <2> HIDE DEF o, w
    <2> QED BY <1>2 DEF TermsOf, DropTerms, EqualityTerms, Terms
  <1> HIDE DEF d
  <1> QED BY <1>1, <1>3, <1>4, LeftResized DEF TermsAgree

LEMMA PlainAgrees ==
  ASSUME NEW op, NEW old, NEW new, NEW n, NEW size, Fitting(op, old, new, size),
         op \in {"begin", "noop"}
  PROVE  TermsAgree(op, old, new, n, size)
  <1>1. \A o, w : TermsOf(op, o, w, n) = Terms(CopyTerms(o, w, 0), NoAux)
    BY DEF TermsOf
  <1> QED BY <1>1, CopyResized DEF TermsAgree, Terms

(* what the constraints compare the first registers with *)
LEMMA ExpectSame ==
  ASSUME NEW old, NEW new, NEW op, NEW size, Fitting(op, old, new, size),
         NEW len \in 0..8, NEW values, Len(values) = len, NEW same, same = values
  PROVE  /\ Expect(Resized(new, size), same) = Expect(new, values)
         /\ Len(Expect(new, values)) \in 0..8
  <1>1. \A i \in 1..len : Resized(new, size)[i - 1] = new[i - 1]
    <2> SUFFICES ASSUME NEW i \in 1..len PROVE Resized(new, size)[i - 1] = new[i - 1]
      OBVIOUS
    <2>1. i - 1 \in 0..7
      OBVIOUS
    <2> QED BY <2>1, ResizedRow
  <1>2. Expect(Resized(new, size), same) = Expect(new, values)
    BY <1>1 DEF Expect
  <1>3. Len(Expect(new, values)) = len
    BY DEF Expect
  <1> QED BY <1>2, <1>3

LEMMA DuplicatingAgrees ==
  ASSUME NEW op, NEW old, NEW new, NEW n, NEW size, Fitting(op, old, new, size),
         op \in {"dup", "dup2", "dup4", "pad2"}
  PROVE  TermsAgree(op, old, new, n, size)
  <1> DEFINE o == Resized(old, size)
             w == Resized(new, size)
             d == Added(op)
             top(r) == [i \in 1..d |-> IF op = "pad2" THEN 0 ELSE r[i - 1]]
  <1>1. d = (CASE op = "dup" -> 1 [] op \in {"dup2", "pad2"} -> 2 [] op = "dup4" -> 4) /\ d \in 0..8
    BY DEF Added
  <1>2. \A u, v : TermsOf(op, u, v, n) = Terms(Before(Expect(v, top(u)), RightShiftTerms(u, v, d)), NoAux)
    BY <1>1 DEF TermsOf, DupTerms
  <1>3. top(o) = top(old) /\ Len(top(old)) = d
    <2>1. \A i \in 1..d : o[i - 1] = old[i - 1]
      <3> SUFFICES ASSUME NEW i \in 1..d PROVE o[i - 1] = old[i - 1]
        OBVIOUS
      <3>1. i - 1 \in 0..7
        BY <1>1
      <3> QED BY <3>1, ResizedRow
    <2>2. top(o) = top(old)
      BY <2>1
    <2> QED BY <1>1, <2>2
  <1> HIDE DEF top
  <1>4. Expect(w, top(o)) = Expect(new, top(old)) /\ Len(Expect(new, top(old))) \in 0..8
    BY <1>1, <1>3, ExpectSame
  <1>5. SameTerms(RightShiftTerms(o, w, d), RightShiftTerms(old, new, d), size)
    BY <1>1, RightResized
  <1>6. DOMAIN RightShiftTerms(old, new, d) = Slots
    BY TermDomains DEF Fitting
  <1> HIDE DEF d
  <1> QED BY <1>2, <1>4, <1>5, <1>6, AgreeByParts

LEMMA PermutingAgrees ==
  ASSUME NEW op, NEW old, NEW new, NEW n, NEW size, Fitting(op, old, new, size),
         op \in {"swap2", "swap4", "roll4", "roll8"}
  PROVE  TermsAgree(op, old, new, n, size)
  <1> DEFINE o == Resized(old, size)
             w == Resized(new, size)
             from == CASE op = "swap2" -> <<2, 3, 0, 1>>
                       [] op = "swap4" -> <<4, 5, 6, 7, 0, 1, 2, 3>>
                       [] op = "roll4" -> <<3, 0, 1, 2>>
                       [] op = "roll8" -> <<7, 0, 1, 2, 3, 4, 5, 6>>
             top(r) == [i \in 1..Len(from) |-> r[from[i]]]
  <1>1. /\ Len(from) \in 0..8
        /\ \A i \in 1..Len(from) : from[i] \in 0..7
    OBVIOUS
  <1>0. ASSUME NEW m \in 0..8, NEW values, Len(values) = m
        PROVE  Expect(w, values) = Expect(new, values) /\ Len(Expect(new, values)) \in 0..8
    BY <1>0, ExpectSame
  <1>2. \A u, v : TermsOf(op, u, v, n) =
                    Terms(Before(Expect(v, top(u)), CopyTerms(u, v, Len(from))), NoAux)
    BY DEF TermsOf, PermuteTerms
  <1> HIDE DEF from
  <1>3. top(o) = top(old) /\ Len(top(old)) = Len(from)
    <2>1. \A i \in 1..Len(from) : o[from[i]] = old[from[i]]
      BY <1>1, ResizedRow
    <2> QED BY <1>1, <2>1
  <1> DEFINE m == Len(from)
             values == top(old)
             same == top(o)
  <1>7. m \in 0..8 /\ Len(values) = m /\ same = values
    BY <1>1, <1>3
  <1> HIDE DEF top, m, values, same
  <1>4. Expect(w, top(o)) = Expect(new, top(old)) /\ Len(Expect(new, top(old))) \in 0..8
    <2>1. Expect(w, values) = Expect(new, values) /\ Len(Expect(new, values)) \in 0..8
      <3> HIDE DEF o, w
      <3> QED BY <1>7, <1>0
    <2> QED BY <2>1, <1>7 DEF values, same
  <1>5. SameTerms(CopyTerms(o, w, Len(from)), CopyTerms(old, new, Len(from)), size)
    BY <1>1, CopyResized
  <1>6. DOMAIN CopyTerms(old, new, Len(from)) = Slots
    BY TermDomains DEF Fitting
  <1> QED BY <1>2, <1>4, <1>5, <1>6, AgreeByParts

LEMMA RescueAgrees ==
  ASSUME NEW old, NEW new, NEW n, NEW size, Fitting("rescr", old, new, size)
  PROVE  TermsAgree("rescr", old, new, n, size)
  <1> DEFINE o == Resized(old, size)
             w == Resized(new, size)
             first(u, v) == [i \in 1..6 |->
                Differ(v[i - 1], RescueRound([j \in 1..6 |-> u[j - 1]], n % RescueCycle)[i])]
  <1>1. \A u, v : TermsOf("rescr", u, v, n) = Terms(Before(first(u, v), CopyTerms(u, v, 6)), NoAux)
    BY DEF TermsOf, RescueTerms
  <1>2. first(o, w) = first(old, new) /\ Len(first(old, new)) \in 0..8
    <2>1. \A i \in 1..6 : i - 1 \in 0..7
      OBVIOUS
    <2>2. \A i \in 1..6 : o[i - 1] = old[i - 1] /\ w[i - 1] = new[i - 1]
      BY <2>1, ResizedRow
    <2>3. [j \in 1..6 |-> o[j - 1]] = [j \in 1..6 |-> old[j - 1]]
      BY <2>2
    <2> QED BY <2>2, <2>3
  <1> HIDE DEF first
  <1>3. SameTerms(CopyTerms(o, w, 6), CopyTerms(old, new, 6), size)
    BY CopyResized
  <1>4. DOMAIN CopyTerms(old, new, 6) = Slots
    BY TermDomains DEF Fitting
  <1> QED BY <1>1, <1>2, <1>3, <1>4, AgreeByParts

(* the first eight registers of both rows *)
LEMMA FirstEight ==
  ASSUME NEW op, NEW old, NEW new, NEW size, Fitting(op, old, new, size),
         NEW o, o = Resized(old, size), NEW w, w = Resized(new, size)
  PROVE  /\ o[0] = old[0] /\ o[1] = old[1] /\ o[2] = old[2] /\ o[3] = old[3]
         /\ o[4] = old[4] /\ o[5] = old[5] /\ o[6] = old[6] /\ o[7] = old[7]
         /\ w[0] = new[0] /\ w[1] = new[1] /\ w[2] = new[2] /\ w[3] = new[3]
         /\ w[4] = new[4] /\ w[5] = new[5] /\ w[6] = new[6] /\ w[7] = new[7]
  BY ResizedRow

(* operations in place, whose terms for the first registers are written out *)
LEMMA InPlaceAgrees ==
  ASSUME NEW op, NEW old, NEW new, NEW n, NEW size, Fitting(op, old, new, size),
         op \in {"swap", "inv", "neg", "not", "cmp", "binacc"}
  PROVE  TermsAgree(op, old, new, n, size)
  <1> DEFINE o == Resized(old, size)
             w == Resized(new, size)
  <1>1. /\ o[0] = old[0] /\ o[1] = old[1] /\ o[2] = old[2] /\ o[3] = old[3]
        /\ o[4] = old[4] /\ o[5] = old[5] /\ o[6] = old[6] /\ o[7] = old[7]
        /\ w[0] = new[0] /\ w[1] = new[1] /\ w[2] = new[2] /\ w[3] = new[3]
        /\ w[4] = new[4] /\ w[5] = new[5] /\ w[6] = new[6] /\ w[7] = new[7]
    BY FirstEight
  <1>2. \A len \in Nat : /\ SameTerms(CopyTerms(o, w, len), CopyTerms(old, new, len), size)
                         /\ DOMAIN CopyTerms(old, new, len) = Slots
    BY CopyResized, TermDomains DEF Fitting
  <1> HIDE DEF o, w
  <1>3. CASE op = "swap"
    <2> DEFINE first == <<Add(Sub(new[0], old[1]), Sub(new[1], old[0])), 0>>
    <2>1. /\ TermsOf(op, o, w, n) = Terms(Before(first, CopyTerms(o, w, 2)), NoAux)
          /\ TermsOf(op, old, new, n) = Terms(Before(first, CopyTerms(old, new, 2)), NoAux)
      BY <1>1, <1>3 DEF TermsOf, SwapTerms
    <2>2. Len(first) \in 0..8
      OBVIOUS
    <2>3. SameTerms(CopyTerms(o, w, 2), CopyTerms(old, new, 2), size) /\ DOMAIN CopyTerms(old, new, 2) = Slots
      BY <1>2
    <2> HIDE DEF first
    <2> QED BY <2>1, <2>2, <2>3, AgreeByParts DEF o, w
  <1>4. CASE op \in {"inv", "neg", "not"}
    <2> DEFINE value == CASE op = "inv" -> Sub(1, Mul(new[0], old[0]))
                          [] op = "neg" -> Add(new[0], old[0])
                          [] op = "not" -> Sub(new[0], Sub(1, old[0]))
               first == <<value>>
               aux == IF op = "not" THEN <<NotBinary(old[0]), 0>> ELSE NoAux
    <2>1. /\ TermsOf(op, o, w, n) = Terms(Before(first, CopyTerms(o, w, 1)), aux)
          /\ TermsOf(op, old, new, n) = Terms(Before(first, CopyTerms(old, new, 1)), aux)
      BY <1>1, <1>4 DEF TermsOf, ArithmeticTerms
    <2>2. Len(first) \in 0..8
      OBVIOUS
    <2>3. SameTerms(CopyTerms(o, w, 1), CopyTerms(old, new, 1), size) /\ DOMAIN CopyTerms(old, new, 1) = Slots
      BY <1>2
    <2> HIDE DEF first, aux
    <2> QED BY <2>1, <2>2, <2>3, AgreeByParts DEF o, w
  <1>5. CASE op = "binacc"
    <2> DEFINE first == <<NotBinary(new[0]), new[1], Sub(new[2], Mul(old[2], 2)),
                          Sub(new[3], Add(old[3], Mul(new[0], old[2])))>>
    <2>1. /\ TermsOf(op, o, w, n) = Terms(Before(first, CopyTerms(o, w, 4)), NoAux)
          /\ TermsOf(op, old, new, n) = Terms(Before(first, CopyTerms(old, new, 4)), NoAux)
      BY <1>1, <1>5 DEF TermsOf, BinAccTerms
    <2>2. Len(first) \in 0..8
      OBVIOUS
    <2>3. SameTerms(CopyTerms(o, w, 4), CopyTerms(old, new, 4), size) /\ DOMAIN CopyTerms(old, new, 4) = Slots
      BY <1>2
    <2> HIDE DEF first
    <2> QED BY <2>1, <2>2, <2>3, AgreeByParts DEF o, w
  <1>6. CASE op = "cmp"
    <2> DEFINE notSet == new[3]
               x == new[1]
               y == new[2]
               gt == Add(old[4], Mul(Mul(x, Sub(1, y)), notSet))
               lt == Add(old[5], Mul(Mul(y, Sub(1, x)), notSet))
               first == <<NotBinary(x), NotBinary(y),
                          Sub(new[4], gt), Sub(new[5], lt),
                          Sub(new[6], Add(old[6], Mul(y, old[0]))),
                          Sub(new[7], Add(old[7], Mul(x, old[0]))),
                          Sub(notSet, Mul(Sub(1, old[5]), Sub(1, old[4]))),
                          Sub(Mul(new[0], 2), old[0])>>
    <2>1. /\ TermsOf(op, o, w, n) = Terms(Before(first, CopyTerms(o, w, 8)), NoAux)
          /\ TermsOf(op, old, new, n) = Terms(Before(first, CopyTerms(old, new, 8)), NoAux)
      BY <1>1, <1>6 DEF TermsOf, CmpTerms
    <2>2. Len(first) \in 0..8
      OBVIOUS
    <2>3. SameTerms(CopyTerms(o, w, 8), CopyTerms(old, new, 8), size) /\ DOMAIN CopyTerms(old, new, 8) = Slots
      BY <1>2
    <2> HIDE DEF first
    <2> QED BY <2>1, <2>2, <2>3, AgreeByParts DEF o, w
  <1> QED BY <1>3, <1>4, <1>5, <1>6

(* operations that shift to the left behind one or more values *)
LEMMA LiftingAgrees ==
  ASSUME NEW op, NEW old, NEW new, NEW n, NEW size, Fitting(op, old, new, size),
         op \in {"add", "mul", "and", "or", "eq", "choose", "choose2", "cswap2"}
  PROVE  TermsAgree(op, old, new, n, size)
  <1> DEFINE o == Resized(old, size)
             w == Resized(new, size)
  <1>1. /\ o[0] = old[0] /\ o[1] = old[1] /\ o[2] = old[2] /\ o[3] = old[3]
        /\ o[4] = old[4] /\ w[0] = new[0]
    BY FirstEight
  <1>2. \A m, d \in Nat : /\ SameTerms(LeftShiftTerms(o, w, m, d, 0), LeftShiftTerms(old, new, m, d, 0), size)
                          /\ DOMAIN LeftShiftTerms(old, new, m, d, 0) = Slots
    BY LeftResized, TermDomains DEF Fitting
  <1>3. ASSUME NEW len \in 0..8, NEW top, Len(top) = len
        PROVE  Expect(w, top) = Expect(new, top) /\ Len(Expect(new, top)) \in 0..8
    BY <1>3, ExpectSame
  <1> HIDE DEF o, w
  <1>4. CASE op \in {"add", "mul", "and", "or"}
    <2> DEFINE x == old[0]
               y == old[1]
               r == CASE op = "add" -> Add(x, y)
                      [] op \in {"mul", "and"} -> Mul(x, y)
                      [] op = "or" -> Sub(1, Mul(Sub(1, x), Sub(1, y)))
               top == <<r>>
               aux == IF op \in {"and", "or"} THEN <<NotBinary(x), NotBinary(y)>> ELSE NoAux
    <2>1. /\ TermsOf(op, o, w, n) = Terms(Before(Expect(w, top), LeftShiftTerms(o, w, 2, 1, 0)), aux)
          /\ TermsOf(op, old, new, n) = Terms(Before(Expect(new, top), LeftShiftTerms(old, new, 2, 1, 0)), aux)
      BY <1>1, <1>4 DEF TermsOf, ArithmeticTerms
    <2>2. Len(top) = 1 /\ 1 \in 0..8
      OBVIOUS
    <2>3. SameTerms(LeftShiftTerms(o, w, 2, 1, 0), LeftShiftTerms(old, new, 2, 1, 0), size)
          /\ DOMAIN LeftShiftTerms(old, new, 2, 1, 0) = Slots
      BY <1>2
    <2> HIDE DEF top, aux
    <2>4. Expect(w, top) = Expect(new, top) /\ Len(Expect(new, top)) \in 0..8
      BY <2>2, <1>3
    <2> QED BY <2>1, <2>3, <2>4, AgreeByParts DEF o, w
  <1>5. CASE op = "eq"
    <2> DEFINE diff == Sub(old[1], old[2])
               top == <<Sub(1, Mul(diff, old[0]))>>
               aux == <<Mul(new[0], diff), 0>>
    <2>1. /\ TermsOf(op, o, w, n) = Terms(Before(Expect(w, top), LeftShiftTerms(o, w, 3, 2, 0)), aux)
          /\ TermsOf(op, old, new, n) = Terms(Before(Expect(new, top), LeftShiftTerms(old, new, 3, 2, 0)), aux)
      BY <1>1, <1>5 DEF TermsOf, EqualityTerms
    <2>2. Len(top) = 1 /\ 1 \in 0..8
      OBVIOUS
    <2>3. SameTerms(LeftShiftTerms(o, w, 3, 2, 0), LeftShiftTerms(old, new, 3, 2, 0), size)
          /\ DOMAIN LeftShiftTerms(old, new, 3, 2, 0) = Slots
      BY <1>2
    <2> HIDE DEF top, aux
    <2>4. Expect(w, top) = Expect(new, top) /\ Len(Expect(new, top)) \in 0..8
      BY <2>2, <1>3
    <2> QED BY <2>1, <2>3, <2>4, AgreeByParts DEF o, w
  <1>6. CASE op \in {"choose", "choose2", "cswap2"}
    <2> DEFINE c == old[IF op = "choose" THEN 2 ELSE 4]
               pick(x, y) == Add(Mul(c, x), Mul(Sub(1, c), y))
               top == CASE op = "choose"  -> <<pick(old[0], old[1])>>
                        [] op = "choose2" -> <<pick(old[0], old[2]), pick(old[1], old[3])>>
                        [] op = "cswap2"  -> <<pick(old[2], old[0]), pick(old[3], old[1]),
                                               pick(old[0], old[2]), pick(old[1], old[3])>>
               m == IF op = "choose" THEN 3 ELSE 6
               d == IF op = "choose2" THEN 4 ELSE 2
               len == CASE op = "choose" -> 1 [] op = "choose2" -> 2 [] op = "cswap2" -> 4
               aux == <<NotBinary(c), 0>>
    <2>1. /\ TermsOf(op, o, w, n) = Terms(Before(Expect(w, top), LeftShiftTerms(o, w, m, d, 0)), aux)
          /\ TermsOf(op, old, new, n) = Terms(Before(Expect(new, top), LeftShiftTerms(old, new, m, d, 0)), aux)
      BY <1>1, <1>6 DEF TermsOf, ConditionalTerms
    <2>2. Len(top) = len /\ len \in 0..8 /\ m \in Nat /\ d \in Nat
      BY <1>6
    <2> HIDE DEF top, aux, len, m, d
    <2>3. SameTerms(LeftShiftTerms(o, w, m, d, 0), LeftShiftTerms(old, new, m, d, 0), size)
          /\ DOMAIN LeftShiftTerms(old, new, m, d, 0) = Slots
      BY <1>2, <2>2
    <2>4. Expect(w, top) = Expect(new, top) /\ Len(Expect(new, top)) \in 0..8
      BY <2>2, <1>3
    <2> QED BY <2>1, <2>3, <2>4, AgreeByParts DEF o, w
  <1> QED BY <1>4, <1>5, <1>6

(* every operation *)
LEMMA OperationAgrees ==
  ASSUME NEW op \in Operations, NEW old, NEW new, NEW n, NEW size, Fitting(op, old, new, size)
  PROVE  TermsAgree(op, old, new, n, size)
  <1>1. \/ op \in {"push", "read", "read2"}
        \/ op \in {"drop", "drop4", "assert", "asserteq"}
        \/ op \in {"begin", "noop"}
        \/ op \in {"dup", "dup2", "dup4", "pad2"}
        \/ op \in {"swap2", "swap4", "roll4", "roll8"}
        \/ op = "rescr"
        \/ op \in {"swap", "inv", "neg", "not", "cmp", "binacc"}
        \/ op \in {"add", "mul", "and", "or", "eq", "choose", "choose2", "cswap2"}
    BY DEF Operations
  <1> QED BY <1>1, InputAgrees, DroppingAgrees, PlainAgrees, DuplicatingAgrees, PermutingAgrees,
             RescueAgrees, InPlaceAgrees, LiftingAgrees

(* the registers and auxiliary constraints an operation gives values to *)
LEMMA TermsShape ==
  ASSUME NEW op \in Operations, NEW old \in Rows, NEW new, NEW n
  PROVE  DOMAIN TermsOf(op, old, new, n).stack = Slots /\ DOMAIN TermsOf(op, old, new, n).aux = 1..2
  <1> DEFINE Shaped(t) == DOMAIN t.stack = Slots /\ DOMAIN t.aux = 1..2
  <1> SUFFICES Shaped(TermsOf(op, old, new, n))
    OBVIOUS
  <1>1. /\ \A f : DOMAIN CopyTerms(old, new, f) = Slots
        /\ \A f, d : DOMAIN LeftShiftTerms(old, new, f, d, 0) = Slots
        /\ \A d : DOMAIN RightShiftTerms(old, new, d) = Slots
    BY TermDomains
  <1>2. \A first, terms : DOMAIN Before(first, terms) = DOMAIN terms
    BY DEF Before
  <1>3. \A s, a, b : DOMAIN s = Slots => Shaped(Terms(s, <<a, b>>))
    BY DEF Terms
  <1>4. \A s : DOMAIN s = Slots => Shaped(Terms(s, NoAux))
    BY DEF Terms, NoAux
  <1> HIDE DEF Shaped
  <1>5. CASE op \in {"push", "read", "read2"}
    BY <1>1, <1>4, <1>5 DEF TermsOf, InputTerms
  <1>6. CASE op \in {"dup", "dup2", "dup4", "pad2"}
    BY <1>1, <1>2, <1>4, <1>6 DEF TermsOf, DupTerms
  <1>7. CASE op \in {"drop", "drop4"}
    BY <1>1, <1>4, <1>7 DEF TermsOf, DropTerms
  <1>8. CASE op \in {"swap", "cmp", "binacc", "rescr"}
    BY <1>1, <1>2, <1>4, <1>8 DEF TermsOf, SwapTerms, CmpTerms, BinAccTerms, RescueTerms
  <1>9. CASE op \in {"swap2", "swap4", "roll4", "roll8"}
    BY <1>1, <1>2, <1>4, <1>9 DEF TermsOf, PermuteTerms
  <1>10. CASE op \in {"add", "mul", "inv", "neg", "not", "and", "or"}
    BY <1>1, <1>2, <1>3, <1>4, <1>10 DEF TermsOf, ArithmeticTerms
  <1>11. CASE op \in {"assert", "asserteq", "eq"}
    BY <1>1, <1>2, <1>3, <1>11 DEF TermsOf, EqualityTerms
  <1>12. CASE op \in {"choose", "choose2", "cswap2"}
    BY <1>1, <1>2, <1>3, <1>12 DEF TermsOf, ConditionalTerms
  <1>13. CASE op \in {"begin", "noop"}
    BY <1>1, <1>4, <1>13 DEF TermsOf
  <1> QED
    BY <1>5, <1>6, <1>7, <1>8, <1>9, <1>10, <1>11, <1>12, <1>13 DEF Operations

(* What satisfies the constraints on the slots satisfies them in the table. *)
LEMMA TableSatisfied ==
  ASSUME NEW op \in Operations, NEW old, NEW new, NEW n, NEW size, Fitting(op, old, new, size),
         Satisfied(TermsOf(op, old, new, n)),
         NEW T, T = TermsOf(op, Resized(old, size), Resized(new, size), n)
  PROVE  (\A i \in 1..2 : T.aux[i] = 0) /\ (\A i \in 0..(size - 1) : T.stack[i] = 0)
  <1>1. TermsAgree(op, old, new, n, size)
    BY OperationAgrees
  <1>2. DOMAIN TermsOf(op, old, new, n).stack = Slots /\ DOMAIN TermsOf(op, old, new, n).aux = 1..2
    BY TermsShape DEF Fitting
  <1> QED BY <1>1, <1>2 DEF TermsAgree, SameTerms, Satisfied
-----------------------------------------------------------------------------
(***************************************************************************)
(* The context and loop stacks of a row, read as if they had no end: what  *)
(* is behind the last register is 0.                                       *)
(***************************************************************************)
Entry(s, i) == IF i < Len(s) THEN s[i + 1] ELSE ZeroDigest

(* nothing is left from register count on *)
Within(s, count) == \A i \in Nat : i >= count => Entry(s, i) = ZeroDigest

(* so many of its registers *)
Column(s, size) == [i \in 0..(size - 1) |-> Entry(s, i)]

(* The registers a trace is copied to are a column of it. *)
LEMMA RegistersAreColumn ==
  ASSUME NEW s, Len(s) \in Nat, NEW count \in Nat, NEW minimum \in Nat, Within(s, count)
  PROVE  StackRegisters(s, count, minimum, ZeroDigest) = Column(s, Greater(count, minimum))
  BY DEF StackRegisters, Column, Entry, Within, Greater

(* one value more on top, one less, or whatever else was there *)
Deeper(old, new, top) ==
  \A i \in Nat : Entry(new, i) = IF i = 0 THEN top ELSE Entry(old, i - 1)
Shallower(old, new) == \A i \in Nat : Entry(new, i) = Entry(old, i + 1)

(* A push and a pop satisfy the constraints of a shifted column. *)
LEMMA DeeperAccepted ==
  ASSUME NEW old, NEW new, NEW top, Deeper(old, new, top), NEW size \in Nat \ {0}
  PROVE  /\ \A i \in 0..(size - 1) : RightShiftTerms(Column(old, size), Column(new, size), 1)[i] = 0
         /\ Column(new, size)[0] = top
         /\ DOMAIN RightShiftTerms(Column(old, size), Column(new, size), 1) = 0..(size - 1)
  BY DEF RightShiftTerms, Column, Deeper, Differ

LEMMA ShallowerAccepted ==
  ASSUME NEW old, NEW new, Shallower(old, new), NEW size \in Nat \ {0}, Within(old, size)
  PROVE  \A i \in 0..(size - 1) : PoppedOff(Column(old, size), Column(new, size))[i] = 0
  <1> SUFFICES ASSUME NEW i \in 0..(size - 1)
               PROVE  PoppedOff(Column(old, size), Column(new, size))[i] = 0
    OBVIOUS
  <1>1. Column(new, size)[i] = Entry(old, i + 1)
    BY DEF Column, Shallower
  <1>2. i + 1 \in 0..(size - 1) => Column(old, size)[i + 1] = Entry(old, i + 1)
    BY DEF Column
  <1>3. i + 1 \notin 0..(size - 1) => Entry(old, i + 1) = ZeroDigest
    BY DEF Within
  <1>4. DOMAIN Column(old, size) = 0..(size - 1)
    BY DEF Column
  <1> QED BY <1>1, <1>2, <1>3, <1>4 DEF PoppedOff, LeftShiftTerms, Differ

(* a column that is copied *)
LEMMA KeptAccepted ==
  ASSUME NEW s, NEW size
  PROVE  \A i \in 0..(size - 1) : Kept(Column(s, size), Column(s, size))[i] = 0
  BY DEF Kept, CopyTerms, Column, Differ

(* the registers of a sponge that was just loaded *)
LEMMA LanesOfLoad ==
  ASSUME NEW a, NEW b, NEW c, NEW s, s = Load(a, b, c)
  PROVE  Lane(s, 0) = a /\ Lane(s, 1) = b /\ Lane(s, 2) = c /\ Lane(s, 3) = ZeroDigest
  BY DEF Lane, Load, Digest

(***************************************************************************)
(* What a flow operation makes of the sponge and the two stacks: a is the  *)
(* row of the operation, b the row behind it and n the step of a.          *)
(***************************************************************************)
FlowLinks(flow, op, a, b, n) ==
  /\ flow = "hacc" =>
       b.sponge = ApplyRound(a.sponge, op, IF op = "push" THEN b.user[0] ELSE 0, n)
  /\ flow \in {"begin", "loop", "wrap"} => b.sponge = ZeroSponge
  /\ flow = "tend" => \E h : b.sponge = Load(Entry(a.ctx, 0), Digest(a.sponge), h)
  /\ flow = "fend" => \E h : b.sponge = Load(Entry(a.ctx, 0), h, Digest(a.sponge))
  /\ flow \in {"break", "void"} => b.sponge = a.sponge
  /\ flow \in {"wrap", "break"} => Digest(a.sponge) = Entry(a.loop, 0)
  /\ flow \in {"begin", "loop"} => Deeper(a.ctx, b.ctx, Digest(a.sponge))
  /\ flow \in {"tend", "fend"} => Shallower(a.ctx, b.ctx)
  /\ flow \in {"wrap", "break", "void"} => b.ctx = a.ctx
  /\ flow = "loop" => \E image : Deeper(a.loop, b.loop, image)
  /\ flow = "break" => Shallower(a.loop, b.loop)
  /\ flow \in {"begin", "tend", "fend", "wrap", "void"} => b.loop = a.loop

(* the rows of the table made of a and b *)
Tabled(row, r, cs, ls, us) ==
  row = [counter |-> r.counter, sponge |-> r.sponge, bits |-> r.bits,
         ctx |-> Column(r.ctx, cs), loop |-> Column(r.loop, ls), user |-> Resized(r.user, us)]

(* the terms of the flow operation are 0 on the table *)
ZeroFlow(T, cs, ls) ==
  /\ T.image = 0
  /\ \A i \in 1..4 : T.sponge[i] = 0
  /\ \A i \in 0..(cs - 1) : T.ctx[i] = 0
  /\ \A i \in 0..(ls - 1) : T.loop[i] = 0

(* what is asked of the four registers of a sponge *)
LEMMA FourLanes ==
  ASSUME NEW f, DOMAIN f = 1..4, f[1] = 0, f[2] = 0, f[3] = 0, f[4] = 0
  PROVE  \A i \in 1..4 : f[i] = 0
  OBVIOUS

LEMMA SpongeAccepted ==
  ASSUME NEW row, NEW a, NEW b, NEW c, row.sponge = Load(a, b, c)
  PROVE  \A i \in 1..4 : SpongeIs(row, <<a, b, c, ZeroDigest>>)[i] = 0
  <1>1. /\ Lane(row.sponge, 0) = a /\ Lane(row.sponge, 1) = b /\ Lane(row.sponge, 2) = c
        /\ Lane(row.sponge, 3) = ZeroDigest
    BY LanesOfLoad
  <1> DEFINE f == SpongeIs(row, <<a, b, c, ZeroDigest>>)
  <1>2. DOMAIN f = 1..4 /\ f[1] = 0 /\ f[2] = 0 /\ f[3] = 0 /\ f[4] = 0
    BY <1>1 DEF SpongeIs, Differ
  <1> HIDE DEF f
  <1>3. \A i \in 1..4 : f[i] = 0
    BY <1>2, FourLanes
  <1> QED BY <1>3 DEF f

LEMMA ClearedAccepted ==
  ASSUME NEW row, row.sponge = ZeroSponge
  PROVE  \A i \in 1..4 : SpongeIs(row, Cleared)[i] = 0
  <1>1. Cleared = <<ZeroDigest, ZeroDigest, ZeroDigest, ZeroDigest>>
    BY DEF Cleared
  <1> QED BY <1>1, SpongeAccepted DEF ZeroSponge

(* a context that is saved *)
LEMMA PushedHashAccepted ==
  ASSUME NEW a, NEW b, NEW cur, NEW nxt, NEW size \in Nat \ {0},
         cur.sponge = a.sponge, cur.ctx = Column(a.ctx, size), nxt.ctx = Column(b.ctx, size),
         Deeper(a.ctx, b.ctx, Digest(a.sponge))
  PROVE  \A i \in 0..(size - 1) : PushedHash(cur, nxt)[i] = 0
  <1> DEFINE shifted == RightShiftTerms(cur.ctx, nxt.ctx, 1)
  <1>1. /\ \A i \in 0..(size - 1) : shifted[i] = 0
        /\ nxt.ctx[0] = Digest(cur.sponge)
        /\ DOMAIN shifted = 0..(size - 1)
    BY DeeperAccepted
  <1> HIDE DEF shifted
  <1>2. \A i \in 0..(size - 1) : Before(<<0>>, shifted)[i] = 0
    BY <1>1 DEF Before
  <1>3. PushedHash(cur, nxt) = Before(<<0>>, shifted)
    BY <1>1 DEF PushedHash, Differ, shifted
  <1> QED BY <1>2, <1>3

(* The terms of each flow operation are 0 on the rows it links. *)
LEMMA FlowAccepted ==
  ASSUME NEW flow, NEW op, Together(flow, op), NEW a, NEW b, NEW n,
         a.bits = OpBits(flow, op), FlowLinks(flow, op, a, b, n),
         NEW cs \in Nat \ {0}, NEW ls \in Nat \ {0}, NEW us,
         Within(a.ctx, cs), Within(a.loop, ls),
         NEW cur, Tabled(cur, a, cs, ls, us), NEW nxt, Tabled(nxt, b, cs, ls, us),
         nxt.user[0] \in Elements, nxt.user[0] = b.user[0],
         NEW T, T = FlowTerms(flow, cur, nxt, FlagsOf(a.bits), n)
  PROVE  ZeroFlow(T, cs, ls)
  <1>1. /\ cur.sponge = a.sponge /\ nxt.sponge = b.sponge /\ cur.bits = a.bits
        /\ cur.ctx = Column(a.ctx, cs) /\ nxt.ctx = Column(b.ctx, cs)
        /\ cur.loop = Column(a.loop, ls) /\ nxt.loop = Column(b.loop, ls)
    BY DEF Tabled
  <1>2. cur.ctx[0] = Entry(a.ctx, 0) /\ cur.loop[0] = Entry(a.loop, 0)
    BY <1>1 DEF Column
  <1>3. a.ctx = b.ctx => \A i \in 0..(cs - 1) : Kept(cur.ctx, nxt.ctx)[i] = 0
    BY <1>1, KeptAccepted
  <1>4. a.loop = b.loop => \A i \in 0..(ls - 1) : Kept(cur.loop, nxt.loop)[i] = 0
    BY <1>1, KeptAccepted
  <1>5. Shallower(a.ctx, b.ctx) => \A i \in 0..(cs - 1) : PoppedOff(cur.ctx, nxt.ctx)[i] = 0
    BY <1>1, ShallowerAccepted
  <1>6. Shallower(a.loop, b.loop) => \A i \in 0..(ls - 1) : PoppedOff(cur.loop, nxt.loop)[i] = 0
    BY <1>1, ShallowerAccepted
  <1>7. Deeper(a.ctx, b.ctx, Digest(a.sponge)) => \A i \in 0..(cs - 1) : PushedHash(cur, nxt)[i] = 0
    BY <1>1, PushedHashAccepted
  <1>8. b.sponge = ZeroSponge => \A i \in 1..4 : SpongeIs(nxt, Cleared)[i] = 0
    BY <1>1, ClearedAccepted
  <1>9. b.sponge = a.sponge => \A i \in 1..4 : SpongeKept(cur, nxt)[i] = 0
    BY <1>1 DEF SpongeKept, Differ
  <1>10. Digest(a.sponge) = Entry(a.loop, 0) => ImageTerm(cur) = 0
    BY <1>1, <1>2 DEF ImageTerm, Differ
  <1>11. CASE flow = "hacc"
    <2> DEFINE value == Mul(nxt.user[0], FlagsOf(a.bits).hd[HdIndex.push])
               after == ApplyRound(cur.sponge, Mnemonic(OpCode(cur.bits)), value, n)
    <2>1. Mnemonic(OpCode(cur.bits)) = op
      BY <1>1, OpBitsParts DEF Together
    <2>2. value = IF op = "push" THEN b.user[0] ELSE 0
      <3>1. FlagsOf(a.bits).hd[HdIndex.push] = IF op = "push" THEN 1 ELSE 0
        BY OneFlag
      <3>2. \A x \in Elements : (x * 1) % Modulus = x /\ (x * 0) % Modulus = 0
        <4> SUFFICES ASSUME NEW x \in Elements PROVE (x * 1) % Modulus = x /\ (x * 0) % Modulus = 0
          OBVIOUS
        <4>1. Modulus \in Nat \ {0} /\ x \in 0..(Modulus - 1)
          BY FieldAssumption DEF Elements
        <4>2. x * 1 = x /\ x * 0 = 0
          BY <4>1
        <4>3. x % Modulus = x /\ 0 % Modulus = 0
          BY <4>1
        <4> QED BY <4>2, <4>3
      <3> QED BY <3>1, <3>2 DEF Mul
    <2>3. nxt.sponge = after
      BY <1>1, <1>11, <2>1, <2>2 DEF FlowLinks
    <2> HIDE DEF after
    <2>4. T = Flow([i \in 1..4 |-> Differ(Lane(after, i - 1), Lane(nxt.sponge, i - 1))], 0,
                   [i \in DOMAIN cur.ctx |-> 0], [i \in DOMAIN cur.loop |-> 0])
      BY <1>11 DEF FlowTerms, HaccTerms, after
    <2>5. DOMAIN cur.ctx = 0..(cs - 1) /\ DOMAIN cur.loop = 0..(ls - 1)
      BY <1>1 DEF Column
    <2> QED BY <2>3, <2>4, <2>5 DEF Flow, ZeroFlow, Differ
  <1>12. CASE flow = "begin"
    <2>1. T = Flow(SpongeIs(nxt, Cleared), 0, PushedHash(cur, nxt), Kept(cur.loop, nxt.loop))
      BY <1>12 DEF FlowTerms, BeginTerms
    <2> QED BY <1>12, <2>1, <1>4, <1>7, <1>8 DEF Flow, ZeroFlow, FlowLinks
  <1>13. CASE flow = "tend"
    <2>1. T = Flow(SpongeIs(nxt, <<cur.ctx[0], Digest(cur.sponge), Lane(nxt.sponge, 2), ZeroDigest>>),
                   0, PoppedOff(cur.ctx, nxt.ctx), Kept(cur.loop, nxt.loop))
      BY <1>13 DEF FlowTerms, TendTerms
    <2>2. PICK h : nxt.sponge = Load(cur.ctx[0], Digest(cur.sponge), h)
      BY <1>1, <1>2, <1>13 DEF FlowLinks
    <2>3. Lane(nxt.sponge, 2) = h
      BY <2>2, LanesOfLoad
    <2>4. \A i \in 1..4 : SpongeIs(nxt, <<cur.ctx[0], Digest(cur.sponge), h, ZeroDigest>>)[i] = 0
      BY <2>2, SpongeAccepted
    <2> QED BY <1>13, <2>1, <2>3, <2>4, <1>4, <1>5 DEF Flow, ZeroFlow, FlowLinks
  <1>14. CASE flow = "fend"
    <2>1. T = Flow(SpongeIs(nxt, <<cur.ctx[0], Lane(nxt.sponge, 1), Digest(cur.sponge), ZeroDigest>>),
                   0, PoppedOff(cur.ctx, nxt.ctx), Kept(cur.loop, nxt.loop))
      BY <1>14 DEF FlowTerms, FendTerms
    <2>2. PICK h : nxt.sponge = Load(cur.ctx[0], h, Digest(cur.sponge))
      BY <1>1, <1>2, <1>14 DEF FlowLinks
    <2>3. Lane(nxt.sponge, 1) = h
      BY <2>2, LanesOfLoad
    <2>4. \A i \in 1..4 : SpongeIs(nxt, <<cur.ctx[0], h, Digest(cur.sponge), ZeroDigest>>)[i] = 0
      BY <2>2, SpongeAccepted
    <2> QED BY <1>14, <2>1, <2>3, <2>4, <1>4, <1>5 DEF Flow, ZeroFlow, FlowLinks
  <1>15. CASE flow = "loop"
    <2>1. T = Flow(SpongeIs(nxt, Cleared), 0, PushedHash(cur, nxt), RightShiftTerms(cur.loop, nxt.loop, 1))
      BY <1>15 DEF FlowTerms, LoopTerms
    <2>2. PICK image : Deeper(a.loop, b.loop, image)
      BY <1>15 DEF FlowLinks
    <2>3. \A i \in 0..(ls - 1) : RightShiftTerms(cur.loop, nxt.loop, 1)[i] = 0
      BY <1>1, <2>2, DeeperAccepted
    <2> QED BY <1>15, <2>1, <2>3, <1>7, <1>8 DEF Flow, ZeroFlow, FlowLinks
  <1>16. CASE flow = "wrap"
    <2>1. T = Flow(SpongeIs(nxt, Cleared), ImageTerm(cur), Kept(cur.ctx, nxt.ctx), Kept(cur.loop, nxt.loop))
      BY <1>16 DEF FlowTerms, WrapTerms
    <2> QED BY <1>16, <2>1, <1>3, <1>4, <1>8, <1>10 DEF Flow, ZeroFlow, FlowLinks
  <1>17. CASE flow = "break"
    <2>1. T = Flow(SpongeKept(cur, nxt), ImageTerm(cur), Kept(cur.ctx, nxt.ctx), PoppedOff(cur.loop, nxt.loop))
      BY <1>17 DEF FlowTerms, BreakTerms
    <2> QED BY <1>17, <2>1, <1>3, <1>6, <1>9, <1>10 DEF Flow, ZeroFlow, FlowLinks
  <1>18. CASE flow = "void"
    <2>1. T = Flow(SpongeKept(cur, nxt), 0, Kept(cur.ctx, nxt.ctx), Kept(cur.loop, nxt.loop))
      BY <1>18 DEF FlowTerms, VoidTerms
    <2> QED BY <1>18, <2>1, <1>3, <1>4, <1>9 DEF Flow, ZeroFlow, FlowLinks
  <1>19. flow \in {"hacc", "begin", "tend", "fend", "loop", "wrap", "break", "void"}
    BY DEF Together, FlowCode
  <1> QED BY <1>11, <1>12, <1>13, <1>14, <1>15, <1>16, <1>17, <1>18, <1>19

(* The constraints of the decoder are those of the flow operation.         *)
LEMMA DecoderFlowSatisfied ==
  ASSUME NEW flow, NEW op, Together(flow, op), NEW cur, NEW nxt, NEW n, NEW nextFlags,
         NEW flags, flags = FlagsOf(OpBits(flow, op)), NEW cs \in Nat, NEW ls \in Nat,
         DOMAIN cur.ctx = 0..(cs - 1), DOMAIN cur.loop = 0..(ls - 1),
         ZeroFlow(FlowTerms(flow, cur, nxt, flags, n), cs, ls),
         NEW E, E = DecoderEvaluation(cur, nxt, flags, nextFlags, n)
  PROVE  IsZero(E.sponge) /\ E.image = 0 /\ IsZero(E.ctx) /\ IsZero(E.loop)
  <1> DEFINE T == FlowTerms(flow, cur, nxt, flags, n)
             flag(o) == flags.cf[FlowCode[o]]
             active == {o \in DOMAIN FlowCode : flag(o) # 0}
             terms == [o \in active |-> FlowTerms(o, cur, nxt, flags, n)]
             spongeTerm(i) == [o \in active |-> flag(o) * terms[o].sponge[i]]
             ctxTerm(i) == [o \in active |-> flag(o) * terms[o].ctx[i]]
             loopTerm(i) == [o \in active |-> flag(o) * terms[o].loop[i]]
             imageTerm == [o \in active |-> flag(o) * terms[o].image]
  <1>1. /\ E.sponge = [i \in 1..4 |-> SumFunction(spongeTerm(i))]
        /\ E.image = SumFunction(imageTerm)
        /\ E.ctx = [i \in DOMAIN cur.ctx |-> SumFunction(ctxTerm(i))]
        /\ E.loop = [i \in DOMAIN cur.loop |-> SumFunction(loopTerm(i))]
    BY DEF DecoderEvaluation
  <1>2. active = {flow} /\ flag(flow) = 1
    <2>1. \A o \in DOMAIN FlowCode : flag(o) = IF o = flow THEN 1 ELSE 0
      BY OneFlag
    <2> QED BY <2>1 DEF Together
  <1>3. \A i \in 1..4 : SumFunction(spongeTerm(i)) = 0
    <2> SUFFICES ASSUME NEW i \in 1..4 PROVE SumFunction(spongeTerm(i)) = 0
      OBVIOUS
    <2>1. DOMAIN spongeTerm(i) = {flow} /\ spongeTerm(i)[flow] = flag(flow) * T.sponge[i]
      BY <1>2
    <2>2. T.sponge[i] = 0
      BY DEF ZeroFlow
    <2> HIDE DEF spongeTerm, T, flag
    <2>3. spongeTerm(i)[flow] = 0
      BY <1>2, <2>1, <2>2
    <2> QED BY <2>1, <2>3, SumOfZero
  <1>4. \A i \in DOMAIN cur.ctx : SumFunction(ctxTerm(i)) = 0
    <2> SUFFICES ASSUME NEW i \in DOMAIN cur.ctx PROVE SumFunction(ctxTerm(i)) = 0
      OBVIOUS
    <2>1. DOMAIN ctxTerm(i) = {flow} /\ ctxTerm(i)[flow] = flag(flow) * T.ctx[i]
      BY <1>2
    <2>2. T.ctx[i] = 0
      BY DEF ZeroFlow
    <2> HIDE DEF ctxTerm, T, flag
    <2>3. ctxTerm(i)[flow] = 0
      BY <1>2, <2>1, <2>2
    <2> QED BY <2>1, <2>3, SumOfZero
  <1>5. \A i \in DOMAIN cur.loop : SumFunction(loopTerm(i)) = 0
    <2> SUFFICES ASSUME NEW i \in DOMAIN cur.loop PROVE SumFunction(loopTerm(i)) = 0
      OBVIOUS
    <2>1. DOMAIN loopTerm(i) = {flow} /\ loopTerm(i)[flow] = flag(flow) * T.loop[i]
      BY <1>2
    <2>2. T.loop[i] = 0
      BY DEF ZeroFlow
    <2> HIDE DEF loopTerm, T, flag
    <2>3. loopTerm(i)[flow] = 0
      BY <1>2, <2>1, <2>2
    <2> QED BY <2>1, <2>3, SumOfZero
  <1>6. SumFunction(imageTerm) = 0
    <2>1. DOMAIN imageTerm = {flow} /\ imageTerm[flow] = flag(flow) * T.image
      BY <1>2
    <2>2. T.image = 0
      BY DEF ZeroFlow
    <2> HIDE DEF imageTerm, T, flag
    <2>3. imageTerm[flow] = 0
      BY <1>2, <2>1, <2>2
    <2> QED BY <2>1, <2>3, SumOfZero
  <1> HIDE DEF spongeTerm, ctxTerm, loopTerm, imageTerm
  <1> QED BY <1>1, <1>3, <1>4, <1>5, <1>6 DEF IsZero
-----------------------------------------------------------------------------
(* sequences of zeros *)
LEMMA ZerosJoin ==
  /\ \A s, t \in Seq({0}) : s \o t \in Seq({0})
  /\ \A s \in Seq({0}) : IsZero(s)
  BY DEF IsZero

(* three sequences joined *)
LEMMA JoinThree ==
  ASSUME NEW S, NEW a \in Seq(S), NEW b \in Seq(S), NEW c \in Seq(S), NEW s, s = a \o b \o c
  PROVE  /\ s \in Seq(S) /\ Len(s) = Len(a) + Len(b) + Len(c)
         /\ \A i \in 1..Len(s) : s[i] \in S
  <1>1. a \o b \in Seq(S) /\ Len(a \o b) = Len(a) + Len(b)
    BY ConcatProperties
  <1>2. s \in Seq(S) /\ Len(s) = Len(a \o b) + Len(c)
    BY <1>1, ConcatProperties
  <1>3. \A i \in 1..Len(s) : s[i] \in S
    BY <1>2, ElementOfSeq
  <1> QED BY <1>1, <1>2, <1>3

(* a sequence of zeros *)
LEMMA ZerosFrom ==
  ASSUME NEW n \in Nat, NEW f, DOMAIN f = 1..n, f = [i \in 1..n |-> f[i]], \A i \in 1..n : f[i] = 0
  PROVE  f \in Seq({0})
  <1>1. f \in [1..n -> {0}]
    OBVIOUS
  <1> QED BY <1>1

(* What the bits of an operation, the counter and the step of the row are  *)
(* to each other.                                                          *)
CounterLinks(flow, op, a, b, n) ==
  /\ a.counter \in Nat /\ n \in Nat
  /\ b.counter = IF flow = "hacc" THEN a.counter + 1 ELSE a.counter
  /\ op = "begin" => a.counter = 0
  /\ flow \in {"begin", "loop", "wrap", "break"} => n % CycleLength = CycleLength - 1
  /\ flow \in {"tend", "fend"} => n % CycleLength = 0
  /\ op = "push" => n % PushAlignment = 0

(* the products of the constraints on bits *)
LEMMA BitProducts ==
  ASSUME NEW flow, NEW op, Together(flow, op), NEW bits, bits = OpBits(flow, op),
         NEW l, l = bits.ld[1] * bits.ld[2] * bits.ld[3] * bits.ld[4] * bits.ld[5],
         NEW h, h = bits.hd[1] * bits.hd[2]
  PROVE  /\ l \in {0, 1} /\ h \in {0, 1}
         /\ op # "begin" => l = 1 \/ h = 1
         /\ op = "noop" => l = 1 /\ h = 1
  <1>1. /\ Low(op) \in 0..31 /\ High(op) \in 0..3
        /\ op # "begin" => Low(op) = 31 \/ High(op) = 3
        /\ op = "noop" => Low(op) = 31 /\ High(op) = 3
    BY CodeParts, HdIndexes, LdIndexes DEF Together, Low, High
  <1>2. /\ bits.ld = <<Bit(Low(op), 0), Bit(Low(op), 1), Bit(Low(op), 2), Bit(Low(op), 3), Bit(Low(op), 4)>>
        /\ bits.hd = <<Bit(High(op), 0), Bit(High(op), 1)>>
    BY OpBitsParts DEF Together
  <1>3. /\ l = Bit(Low(op), 0) * Bit(Low(op), 1) * Bit(Low(op), 2) * Bit(Low(op), 3) * Bit(Low(op), 4)
        /\ h = Bit(High(op), 0) * Bit(High(op), 1)
    BY <1>2
  <1>4. /\ Bit(31, 0) = 1 /\ Bit(31, 1) = 1 /\ Bit(31, 2) = 1 /\ Bit(31, 3) = 1 /\ Bit(31, 4) = 1
        /\ Bit(3, 0) = 1 /\ Bit(3, 1) = 1
    BY Powers DEF Bit
  <1>5. l \in {0, 1} /\ h \in {0, 1}
    BY <1>3, BitIsBit, BitProduct, BitProduct5
  <1> QED BY <1>1, <1>3, <1>4, <1>5

(* The constraints on bits, counter and step are 0 on linked rows. *)
LEMMA OpBitsSatisfied ==
  ASSUME NEW flow, NEW op, Together(flow, op), NEW cur, NEW nxt, NEW n,
         cur.bits = OpBits(flow, op), CounterLinks(flow, op, cur, nxt, n),
         NEW nextFlow, NEW nextOp, Together(nextFlow, nextOp), nxt.bits = OpBits(nextFlow, nextOp),
         flow = "void" => nextFlow = "void",
         NEW flags, flags = FlagsOf(cur.bits), NEW nextFlags, nextFlags = FlagsOf(nxt.bits)
  PROVE  IsZero(OpBitTerms(cur, nxt, flags, nextFlags, n))
  <1> DEFINE bits == cur.bits.cf \o cur.bits.ld \o cur.bits.hd
             squares == [i \in 1..10 |-> bits[i] * bits[i] - bits[i]]
             cf == [o \in DOMAIN FlowCode |-> flags.cf[FlowCode[o]]]
             cfSum == cur.bits.cf[1] + cur.bits.cf[2] + cur.bits.cf[3]
             l == cur.bits.ld[1] * cur.bits.ld[2] * cur.bits.ld[3] * cur.bits.ld[4] * cur.bits.ld[5]
             h == cur.bits.hd[1] * cur.bits.hd[2]
             t1 == (cur.counter + 1) * cf.hacc + cur.counter * (1 - cf.hacc) - nxt.counter
             t2 == cur.counter * (1 - l) * (1 - h)
             t3 == cfSum * (1 - l * h)
             t4 == cf.void * (1 - nextFlags.cf[FlowCode.void])
             t5 == (cf.begin + cf.loop + cf.wrap + cf.break) * PrefixMask(n)
                     + (cf.tend + cf.fend) * CycleMask(n) + flags.hd[HdIndex.push] * PushMask(n)
  <1>1. OpBitTerms(cur, nxt, flags, nextFlags, n) = squares \o <<t1, t2, t3, t4, t5>>
    BY DEF OpBitTerms
  <1>2. squares \in Seq({0})
    <2> DEFINE c(i) == Bit(FlowCode[flow], i)
               lo(i) == Bit(Low(op), i)
               hi(i) == Bit(High(op), i)
    <2>1. /\ cur.bits.cf = <<c(0), c(1), c(2)>>
          /\ cur.bits.ld = <<lo(0), lo(1), lo(2), lo(3), lo(4)>>
          /\ cur.bits.hd = <<hi(0), hi(1)>>
      BY OpBitsParts DEF Together
    <2>2. \A i : c(i) \in {0, 1} /\ lo(i) \in {0, 1} /\ hi(i) \in {0, 1}
      BY BitIsBit
    <2> HIDE DEF c, lo, hi
    <2>3. /\ cur.bits.cf \in Seq({0, 1}) /\ Len(cur.bits.cf) = 3
          /\ cur.bits.ld \in Seq({0, 1}) /\ Len(cur.bits.ld) = 5
          /\ cur.bits.hd \in Seq({0, 1}) /\ Len(cur.bits.hd) = 2
      BY <2>1, <2>2
    <2>4. \A i \in 1..10 : bits[i] \in {0, 1}
      <3>1. bits = cur.bits.cf \o cur.bits.ld \o cur.bits.hd
        OBVIOUS
      <3> DEFINE B == {0, 1}
                 x == cur.bits.cf
                 y == cur.bits.ld
                 z == cur.bits.hd
      <3>2. x \in Seq(B) /\ y \in Seq(B) /\ z \in Seq(B)
        BY <2>3
      <3> HIDE DEF bits, B, x, y, z
      <3>3. bits = x \o y \o z
        BY <3>1 DEF x, y, z
      <3>4. Len(bits) = Len(x) + Len(y) + Len(z) /\ \A i \in 1..Len(bits) : bits[i] \in B
        BY <3>2, <3>3, JoinThree
      <3> QED BY <2>3, <3>4 DEF B, x, y, z
    <2> HIDE DEF bits
    <2>5. \A i \in 1..10 : squares[i] = 0
      BY <2>4
    <2>6. DOMAIN squares = 1..10 /\ squares = [i \in 1..10 |-> squares[i]]
      OBVIOUS
    <2> HIDE DEF squares
    <2> QED BY <2>5, <2>6, ZerosFrom
  <1>3. /\ cf.hacc = IF flow = "hacc" THEN 1 ELSE 0
        /\ cf.begin = IF flow = "begin" THEN 1 ELSE 0
        /\ cf.tend = IF flow = "tend" THEN 1 ELSE 0
        /\ cf.fend = IF flow = "fend" THEN 1 ELSE 0
        /\ cf.loop = IF flow = "loop" THEN 1 ELSE 0
        /\ cf.wrap = IF flow = "wrap" THEN 1 ELSE 0
        /\ cf.break = IF flow = "break" THEN 1 ELSE 0
        /\ cf.void = IF flow = "void" THEN 1 ELSE 0
    <2>1. \A o \in DOMAIN FlowCode : cf[o] = IF o = flow THEN 1 ELSE 0
      BY OneFlag
    <2> HIDE DEF cf
    <2>2. {"hacc", "begin", "tend", "fend", "loop", "wrap", "break", "void"} \subseteq DOMAIN FlowCode
      BY DEF FlowCode
    <2> QED BY <2>1, <2>2
  <1>4. l \in {0, 1} /\ h \in {0, 1} /\ (op # "begin" => l = 1 \/ h = 1) /\ (op = "noop" => l = 1 /\ h = 1)
    BY BitProducts
  <1> HIDE DEF cf, l, h
  <1>5. t1 = 0
    BY <1>3 DEF CounterLinks
  <1>6. t2 = 0
    BY <1>4 DEF CounterLinks
  <1>7. t3 = 0
    <2>1. flow = "hacc" => cfSum = 0
      <3>1. cur.bits.cf = <<Bit(FlowCode[flow], 0), Bit(FlowCode[flow], 1), Bit(FlowCode[flow], 2)>>
        BY OpBitsParts DEF Together
      <3>2. Bit(0, 0) = 0 /\ Bit(0, 1) = 0 /\ Bit(0, 2) = 0
        BY Powers DEF Bit
      <3>3. FlowCode["hacc"] = 0
        BY DEF FlowCode
      <3> QED BY <3>1, <3>2, <3>3
    <2>2. flow # "hacc" => l * h = 1
      BY <1>4 DEF Together
    <2>3. cfSum \in Int
      <3>1. cur.bits.cf = <<Bit(FlowCode[flow], 0), Bit(FlowCode[flow], 1), Bit(FlowCode[flow], 2)>>
        BY OpBitsParts DEF Together
      <3> QED BY <3>1, BitIsBit
    <2> HIDE DEF cfSum
    <2> QED BY <2>1, <2>2, <2>3, <1>4
  <1>8. t4 = 0
    <2>1. nextFlags.cf[FlowCode.void] = IF nextFlow = "void" THEN 1 ELSE 0
      <3>1. "void" \in DOMAIN FlowCode
        BY DEF FlowCode
      <3> QED BY <3>1, OneFlag
    <2>2. cf.void = IF flow = "void" THEN 1 ELSE 0
      BY <1>3
    <2>3. cf.void = 0 \/ nextFlags.cf[FlowCode.void] = 1
      BY <2>1, <2>2
    <2>4. cf.void \in {0, 1} /\ nextFlags.cf[FlowCode.void] \in {0, 1}
      BY <2>1, <2>2
    <2> QED BY <2>3, <2>4
  <1>9. t5 = 0
    <2>1. flags.hd[HdIndex.push] = IF op = "push" THEN 1 ELSE 0
      BY OneFlag
    <2>2. PrefixMask(n) \in {0, 1} /\ CycleMask(n) \in {0, 1} /\ PushMask(n) \in {0, 1}
      BY DEF PrefixMask, CycleMask, PushMask
    <2>3. (flow \in {"begin", "loop", "wrap", "break"} => PrefixMask(n) = 0)
          /\ (flow \in {"tend", "fend"} => CycleMask(n) = 0)
          /\ (op = "push" => PushMask(n) = 0)
      BY DEF PrefixMask, CycleMask, PushMask, CounterLinks
    <2> QED BY <2>1, <2>2, <2>3, <1>3
  <1> HIDE DEF t1, t2, t3, t4, t5, squares
  <1>10. <<t1, t2, t3, t4, t5>> \in Seq({0})
    BY <1>5, <1>6, <1>7, <1>8, <1>9
  <1> QED BY <1>1, <1>2, <1>10, ZerosJoin
-----------------------------------------------------------------------------
(***************************************************************************)
(* Two rows of a trace that follow each other.                             *)
(***************************************************************************)
IsRow(r) ==
  /\ r = [counter |-> r.counter, sponge |-> r.sponge, bits |-> r.bits,
          ctx |-> r.ctx, loop |-> r.loop, user |-> r.user]
  /\ r.counter \in Nat /\ r.user \in Rows /\ Len(r.ctx) \in Nat /\ Len(r.loop) \in Nat

(* so many registers hold all that a row has *)
Fits(r, contexts, loops, users) ==
  /\ Within(r.ctx, contexts) /\ Within(r.loop, loops)
  /\ \A i \in Slots : i >= users => r.user[i] = 0

(* the operations of a lead to b *)
LinkedBy(flow, op, a, b, n) ==
  /\ Together(flow, op)
  /\ CounterLinks(flow, op, a, b, n)
  /\ FlowLinks(flow, op, a, b, n)
  /\ Satisfied(TermsOf(op, a.user, b.user, n))
  /\ \A i \in Slots : i + Added(op) >= MaxStackDepth => a.user[i] = 0

HasOperation(r) == \E flow, op : Together(flow, op) /\ r.bits = OpBits(flow, op)

Linked(a, b, n) ==
  \E flow, op : /\ a.bits = OpBits(flow, op) /\ LinkedBy(flow, op, a, b, n)
                /\ flow = "void" => b.bits = OpBits("void", "noop")

(* registers for what a trace has, and never less than the minimum *)
ContextRegisters(contexts) == Greater(contexts, MinContextDepth)
LoopRegisters(loops) == Greater(loops, MinLoopDepth)
UserRegisters(users) == Greater(users, MinStackDepth)

TableOf(r, contexts, loops, users) ==
  [counter |-> r.counter, sponge |-> r.sponge, bits |-> r.bits,
   ctx |-> Column(r.ctx, ContextRegisters(contexts)),
   loop |-> Column(r.loop, LoopRegisters(loops)),
   user |-> Resized(r.user, UserRegisters(users))]

(* what TransitionSatisfied asks of two rows *)
Accepts(cur, nxt, n, users) ==
  LET d == DecoderEvaluation(cur, nxt, FlagsOf(cur.bits), FlagsOf(nxt.bits), n)
      s == StackEvaluation(FlagsOf(cur.bits), cur.user, nxt.user, n, users)
  IN /\ IsZero(d.bits) /\ IsZero(d.sponge) /\ d.image = 0 /\ IsZero(d.ctx) /\ IsZero(d.loop)
     /\ IsZero(s.aux) /\ IsZero(s.stack)

(***************************************************************************)
(* Rows that follow each other satisfy the transition constraints, in a    *)
(* table of any size they fit into.                                        *)
(***************************************************************************)
LEMMA LinkedRowsAccepted ==
  ASSUME NEW a, NEW b, NEW n, IsRow(a), IsRow(b), HasOperation(b), Linked(a, b, n),
         NEW contexts \in Nat, NEW loops \in Nat, NEW users \in Nat,
         Fits(a, contexts, loops, users), Fits(b, contexts, loops, users)
  PROVE  Accepts(TableOf(a, contexts, loops, users), TableOf(b, contexts, loops, users), n, users)
  <1> DEFINE cs == ContextRegisters(contexts)
             ls == LoopRegisters(loops)
             us == UserRegisters(users)
             cur == TableOf(a, contexts, loops, users)
             nxt == TableOf(b, contexts, loops, users)
  <1>1. PICK flow, op : /\ a.bits = OpBits(flow, op) /\ LinkedBy(flow, op, a, b, n)
                        /\ flow = "void" => b.bits = OpBits("void", "noop")
    BY DEF Linked
  <1>2. PICK nextFlow, nextOp : /\ Together(nextFlow, nextOp) /\ b.bits = OpBits(nextFlow, nextOp)
                                /\ flow = "void" => nextFlow = "void"
    <2>1. CASE flow = "void"
      <3>1. Together("void", "noop")
        BY DEF Together, FlowCode, Operations
      <3> QED BY <1>1, <2>1, <3>1
    <2>2. CASE flow # "void"
      BY <2>2 DEF HasOperation
    <2> QED BY <2>1, <2>2
  <1>3. /\ Together(flow, op) /\ CounterLinks(flow, op, a, b, n) /\ FlowLinks(flow, op, a, b, n)
        /\ Satisfied(TermsOf(op, a.user, b.user, n)) /\ op \in Operations
        /\ \A i \in Slots : i + Added(op) >= MaxStackDepth => a.user[i] = 0
    BY <1>1 DEF LinkedBy, Together
  <1>4. /\ cs \in Nat \ {0} /\ ls \in Nat \ {0} /\ us \in Nat /\ us >= users /\ us >= 8
        /\ cs >= contexts /\ ls >= loops /\ MaxStackDepth >= 8
    BY EvaluatorAssumption, StackAssumption
    DEF ContextRegisters, LoopRegisters, UserRegisters, Greater
  <1>5. /\ cur.counter = a.counter /\ cur.sponge = a.sponge /\ cur.bits = a.bits
        /\ cur.ctx = Column(a.ctx, cs) /\ cur.loop = Column(a.loop, ls) /\ cur.user = Resized(a.user, us)
        /\ nxt.counter = b.counter /\ nxt.sponge = b.sponge /\ nxt.bits = b.bits
        /\ nxt.user = Resized(b.user, us)
        /\ Tabled(cur, a, cs, ls, us) /\ Tabled(nxt, b, cs, ls, us)
    BY DEF TableOf, Tabled
  <1> HIDE DEF cs, ls, us, cur, nxt
  <1>6. Fitting(op, a.user, b.user, us)
    BY <1>3, <1>4 DEF Fitting, Fits, IsRow, Slots
  <1>7. nxt.user[0] = b.user[0] /\ nxt.user[0] \in Elements
    <2>1. 0 \in 0..7 /\ 0 \in Slots
      BY <1>4, SlotsOfStack, MaxIsNat
    <2>2. nxt.user[0] = b.user[0]
      BY <1>5, <1>6, <2>1, ResizedRow
    <2> QED BY <2>1, <2>2 DEF IsRow, Rows
  <1>8. Within(a.ctx, cs) /\ Within(a.loop, ls)
    BY <1>4 DEF Within, Fits
  <1> DEFINE T == TermsOf(op, cur.user, nxt.user, n)
             D == DecoderEvaluation(cur, nxt, FlagsOf(cur.bits), FlagsOf(nxt.bits), n)
             S == StackEvaluation(FlagsOf(cur.bits), cur.user, nxt.user, n, users)
  <1>9. (\A i \in 1..2 : T.aux[i] = 0) /\ (\A i \in 0..(us - 1) : T.stack[i] = 0)
    BY <1>3, <1>5, <1>6, TableSatisfied
  <1>10. IsZero(S.aux) /\ IsZero(S.stack)
    <2>1. \A i \in 0..(users - 1) : T.stack[i] = 0
      BY <1>4, <1>9
    <2> HIDE DEF T
    <2>2. T = TermsOf(op, cur.user, nxt.user, n)
      BY DEF T
    <2> QED BY <1>1, <1>3, <1>5, <1>9, <2>1, <2>2, StackSatisfied
  <1>11. ZeroFlow(FlowTerms(flow, cur, nxt, FlagsOf(a.bits), n), cs, ls)
    BY <1>1, <1>3, <1>4, <1>5, <1>7, <1>8, FlowAccepted
  <1>12. IsZero(D.sponge) /\ D.image = 0 /\ IsZero(D.ctx) /\ IsZero(D.loop)
    <2>1. DOMAIN cur.ctx = 0..(cs - 1) /\ DOMAIN cur.loop = 0..(ls - 1)
      BY <1>5 DEF Column
    <2> QED BY <1>1, <1>3, <1>4, <1>5, <1>11, <2>1, DecoderFlowSatisfied
  <1>13. IsZero(D.bits)
    <2>1. CounterLinks(flow, op, cur, nxt, n)
      BY <1>3, <1>5 DEF CounterLinks
    <2>2. IsZero(OpBitTerms(cur, nxt, FlagsOf(cur.bits), FlagsOf(nxt.bits), n))
      BY <1>1, <1>2, <1>3, <1>5, <2>1, OpBitsSatisfied
    <2>3. D.bits = OpBitTerms(cur, nxt, FlagsOf(cur.bits), FlagsOf(nxt.bits), n)
      BY DEF DecoderEvaluation
    <2> QED BY <2>2, <2>3
  <1> QED BY <1>10, <1>12, <1>13 DEF Accepts, cur, nxt
-----------------------------------------------------------------------------
(* What pushing and popping a register stack makes of its entries.         *)

(* What the two shifts of a register stack make of its entries. *)
LEMMA PushedDeeper ==
  ASSUME NEW s, IsSequence(s), NEW d \in Nat, d <= Len(s), Within(s, d), NEW top,
         NEW t, t = Pushed(s, d, top)
  PROVE  Deeper(s, t, top) /\ Within(t, d + 1) /\ d + 1 <= Len(t)
         /\ Len(t) = IF d + 1 > Len(s) THEN Len(s) + 1 ELSE Len(s)
  <1>1. /\ Len(t) = (IF d + 1 > Len(s) THEN Len(s) + 1 ELSE Len(s))
        /\ \A i \in 1..Len(t) : t[i] = IF i = 1 THEN top ELSE s[i - 1]
        /\ Len(s) \in Nat
    BY PushedFacts
  <1>2. Deeper(s, t, top)
    <2> SUFFICES ASSUME NEW i \in Nat
                 PROVE  Entry(t, i) = IF i = 0 THEN top ELSE Entry(s, i - 1)
      BY DEF Deeper
    <2>1. CASE i < Len(t)
      <3>1. Entry(t, i) = IF i + 1 = 1 THEN top ELSE s[i]
        BY <1>1, <2>1 DEF Entry
      <3>2. i # 0 => Entry(s, i - 1) = s[i]
        BY <1>1, <2>1 DEF Entry
      <3> QED BY <3>1, <3>2
    <2>2. CASE i >= Len(t)
      <3>1. i # 0 /\ i - 1 \in Nat /\ i - 1 >= d
        BY <1>1, <2>2
      <3>2. Entry(s, i - 1) = ZeroDigest
        BY <3>1 DEF Within
      <3>3. Entry(t, i) = ZeroDigest
        BY <1>1, <2>2 DEF Entry
      <3> QED BY <3>1, <3>2, <3>3
    <2> QED BY <2>1, <2>2, <1>1
  <1>3. Within(t, d + 1)
    <2> SUFFICES ASSUME NEW i \in Nat, i >= d + 1 PROVE Entry(t, i) = ZeroDigest
      BY DEF Within
    <2>1. i # 0 /\ i - 1 \in Nat /\ i - 1 >= d
      OBVIOUS
    <2> QED BY <1>2, <2>1 DEF Deeper, Within
  <1> QED BY <1>1, <1>2, <1>3

LEMMA PoppedShallower ==
  ASSUME NEW s, IsSequence(s), NEW d \in Nat \ {0}, d <= Len(s), Within(s, d), NEW t, t = Popped(s)
  PROVE  Shallower(s, t) /\ Within(t, d - 1) /\ d - 1 <= Len(t) /\ Len(t) = Len(s)
  <1>1. /\ Len(t) = Len(s) /\ Len(s) \in Nat
        /\ \A i \in 1..Len(s) : t[i] = IF i < Len(s) THEN s[i + 1] ELSE ZeroDigest
    BY PoppedFacts
  <1>2. Shallower(s, t)
    BY <1>1 DEF Shallower, Entry
  <1>3. Within(t, d - 1)
    <2> SUFFICES ASSUME NEW i \in Nat, i >= d - 1 PROVE Entry(t, i) = ZeroDigest
      BY DEF Within
    <2>1. i + 1 \in Nat /\ i + 1 >= d
      OBVIOUS
    <2> QED BY <1>2, <2>1 DEF Shallower, Within
  <1> QED BY <1>1, <1>2, <1>3

(* twice a power of two is one *)
LEMMA Doubled ==
  ASSUME NEW x, IsPowerOfTwo(x)
  PROVE  IsPowerOfTwo(2 * x)
  <1>1. x \in Nat \ {0} /\ \A m \in 1..x : x % m = 0 => m = 1 \/ m % 2 = 0
    BY DEF IsPowerOfTwo
  <1> SUFFICES ASSUME NEW m \in 1..(2 * x), (2 * x) % m = 0, m % 2 # 0 PROVE m = 1
    BY <1>1 DEF IsPowerOfTwo
  <1> DEFINE q == (2 * x) \div m
             h == m \div 2
             p == q \div 2
  <1>2. m \in Nat \ {0} /\ h \in Nat /\ m = 2 * h + 1
    BY <1>1
  <1>3. q \in Nat /\ 2 * x = m * q
    BY <1>1, <1>2
  <1>4. q % 2 = 0
    <2>1. m * q = 2 * (h * q) + q /\ h * q \in Nat
      BY <1>2, <1>3
    <2> HIDE DEF q, h
    <2>2. q = 2 * (x - h * q) /\ x - h * q \in Int
      BY <1>1, <1>3, <2>1
    <2> QED BY <1>3, <2>2
  <1>5. q = 2 * p /\ p \in Nat
    BY <1>3, <1>4
  <1> HIDE DEF q, h, p
  <1>6. x = m * p
    <2>1. m * (2 * p) = 2 * (m * p) /\ m * p \in Nat
      BY <1>2, <1>5
    <2> QED BY <1>1, <1>3, <1>5, <2>1
  <1>7. m <= x /\ x % m = 0
    <2>1. p # 0
      BY <1>1, <1>2, <1>5, <1>6
    <2>2. m <= m * p
      BY <1>2, <1>5, <2>1
    <2>3. (m * p) % m = 0
      BY <1>2, <1>5
    <2> QED BY <1>6, <2>2, <2>3
  <1> QED BY <1>1, <1>2, <1>7
-----------------------------------------------------------------------------
(***************************************************************************)
(* The registers of the current step, and how a step of the processor      *)
(* leads to those of the next.                                             *)
(***************************************************************************)
Registers ==
  [counter |-> opCounter, sponge |-> sponge, ctx |-> ctxStack, loop |-> loopStack, user |-> regs]

(* What LinkedBy asks of two rows is about these registers alone. *)
LEMMA LinkedByRegisters ==
  ASSUME NEW a, NEW b, NEW c, NEW d, NEW flow, NEW op, NEW n,
         a.counter = c.counter, a.sponge = c.sponge, a.ctx = c.ctx, a.loop = c.loop, a.user = c.user,
         b.counter = d.counter, b.sponge = d.sponge, b.ctx = d.ctx, b.loop = d.loop, b.user = d.user,
         LinkedBy(flow, op, a, b, n)
  PROVE  LinkedBy(flow, op, c, d, n)
  <1>1. CounterLinks(flow, op, c, d, n)
    BY DEF LinkedBy, CounterLinks
  <1>2. FlowLinks(flow, op, c, d, n)
    BY DEF LinkedBy, FlowLinks
  <1> QED BY <1>1, <1>2 DEF LinkedBy

(* The register stacks of the decoder are never deeper than they are wide, *)
(* nor wider than their limits; behind their depth they hold zeros.        *)
DecoderLimits ==
  /\ Len(ctxStack) \in 1..MaxContextDepth
  /\ Len(loopStack) \in 0..MaxLoopDepth
  /\ loopDepth <= Len(loopStack) /\ Within(loopStack, loopDepth)
  /\ IsPowerOfTwo(traceLength)

DecoderGrows == Len(ctxStack) <= Len(ctxStack') /\ Len(loopStack) <= Len(loopStack')

(* what a step records: an operation of the decoder and one of the stack   *)
DecoderLinks(flow, op) ==
  /\ step' = step + 1
  /\ opBits' = [flow |-> flow, user |-> op] /\ flow # "void" /\ Together(flow, op)
  /\ FlowLinks(flow, op, Registers, Registers', step)
  /\ CounterLinks(flow, op, Registers, Registers', step)

UserLinks(op) ==
  /\ op \in Operations
  /\ Satisfied(TermsOf(op, regs, regs', step))
  /\ \A i \in Slots : i + Added(op) >= MaxStackDepth => regs[i] = 0

Recorded ==
  \E flow, op : /\ flow # "void" /\ opBits' = [flow |-> flow, user |-> op]
                /\ LinkedBy(flow, op, Registers, Registers', step)

(* the decoder's part and the stack's part of a step *)
LEMMA BothLinked ==
  ASSUME NEW flow, NEW op, DecoderLinks(flow, op), UserLinks(op)
  PROVE  Recorded
  <1>1. Registers.user = regs /\ (Registers').user = regs'
    BY DEF Registers
  <1>2. LinkedBy(flow, op, Registers, Registers', step)
    BY <1>1 DEF LinkedBy, DecoderLinks, UserLinks
  <1> QED BY <1>2 DEF DecoderLinks, Recorded
-----------------------------------------------------------------------------
(* The operations of the decoder, one by one.                              *)

(* the state of the decoder they start from *)
DecoderReady ==
  /\ DecoderTypeOK /\ DecoderLimits /\ ctxDepth <= Len(ctxStack) /\ Within(ctxStack, ctxDepth)

(* the flow operations *)
LEMMA FlowCodes ==
  /\ DOMAIN FlowCode = {"hacc", "begin", "tend", "fend", "loop", "wrap", "break", "void"}
  /\ "noop" \in Operations /\ "begin" \in Operations
  BY DEF FlowCode, Operations

(* the trace has a length that is a power of two after every step *)
LEMMA RowAdvanced ==
  ASSUME DecoderTypeOK, IsPowerOfTwo(traceLength), NEW isUserOp \in BOOLEAN, AdvanceStep(isUserOp)
  PROVE  /\ IsPowerOfTwo(traceLength') /\ step \in Nat /\ step' = step + 1 /\ opCounter \in Nat
         /\ opCounter' = IF isUserOp THEN opCounter + 1 ELSE opCounter
  <1>1. IsPowerOfTwo(2 * traceLength)
    BY Doubled
  <1> QED BY <1>1 DEF AdvanceStep, DecoderTypeOK

(* start_block *)
LEMMA StartBlockLinks ==
  ASSUME DecoderReady, StartBlockFault = "none", StartBlock
  PROVE  DecoderLinks("begin", "noop") /\ DecoderLimits' /\ DecoderGrows
  <1>1. /\ step % CycleLength = CycleLength - 1 /\ ctxDepth + 1 <= MaxContextDepth
        /\ ctxDepth \in Nat /\ MaxContextDepth \in Nat /\ IsSequence(ctxStack)
        /\ ctxDepth <= Len(ctxStack) /\ Within(ctxStack, ctxDepth) /\ Len(ctxStack) \in 1..MaxContextDepth
        /\ Len(loopStack) \in Nat
    BY DecoderAssumption
    DEF StartBlockFault, AtCycleStep, DecoderReady, DecoderTypeOK, DecoderLimits
  <1>2. /\ IsPowerOfTwo(traceLength') /\ step \in Nat /\ step' = step + 1 /\ opCounter \in Nat /\ opCounter' = opCounter
    BY RowAdvanced DEF StartBlock, DecoderReady, DecoderLimits
  <1>3. /\ ctxStack' = Pushed(ctxStack, ctxDepth, Digest(sponge)) /\ sponge' = ZeroSponge
        /\ UNCHANGED <<loopStack, loopDepth>> /\ opBits' = [flow |-> "begin", user |-> "noop"]
    BY DEF StartBlock, SaveContext, CopyLoopStack, SetOpBits
  <1>4. /\ Deeper(ctxStack, ctxStack', Digest(sponge))
        /\ Len(ctxStack') = IF ctxDepth + 1 > Len(ctxStack) THEN Len(ctxStack) + 1 ELSE Len(ctxStack)
    BY <1>1, <1>3, PushedDeeper
  <1>5. Len(ctxStack') \in 1..MaxContextDepth /\ DecoderGrows
    BY <1>1, <1>3, <1>4 DEF DecoderGrows
  <1>6. DecoderLimits'
    BY <1>2, <1>3, <1>5 DEF DecoderLimits, DecoderReady
  <1>7. FlowLinks("begin", "noop", Registers, Registers', step)
    BY <1>3, <1>4 DEF FlowLinks, Registers
  <1>8. CounterLinks("begin", "noop", Registers, Registers', step)
    BY <1>1, <1>2 DEF CounterLinks, Registers
  <1>9. Together("begin", "noop")
    BY FlowCodes DEF Together
  <1> QED BY <1>1, <1>2, <1>3, <1>5, <1>6, <1>7, <1>8, <1>9 DEF DecoderLinks

(* start_loop *)
LEMMA StartLoopLinks ==
  ASSUME DecoderReady, StartLoopFault = "none", NEW image, StartLoop(image)
  PROVE  DecoderLinks("loop", "noop") /\ DecoderLimits' /\ DecoderGrows
  <1>1. /\ step % CycleLength = CycleLength - 1 /\ ctxDepth + 1 <= MaxContextDepth
        /\ ctxDepth \in Nat /\ MaxContextDepth \in Nat /\ IsSequence(ctxStack)
        /\ ctxDepth <= Len(ctxStack) /\ Within(ctxStack, ctxDepth) /\ Len(ctxStack) \in 1..MaxContextDepth
        /\ loopDepth + 1 <= MaxLoopDepth /\ loopDepth \in Nat /\ MaxLoopDepth \in Nat
        /\ IsSequence(loopStack) /\ loopDepth <= Len(loopStack) /\ Within(loopStack, loopDepth)
        /\ Len(loopStack) \in 0..MaxLoopDepth
    BY DecoderAssumption
    DEF StartLoopFault, AtCycleStep, DecoderReady, DecoderTypeOK, DecoderLimits
  <1>2. /\ IsPowerOfTwo(traceLength') /\ step \in Nat /\ step' = step + 1 /\ opCounter \in Nat /\ opCounter' = opCounter
    BY RowAdvanced DEF StartLoop, DecoderReady, DecoderLimits
  <1>3. /\ ctxStack' = Pushed(ctxStack, ctxDepth, Digest(sponge)) /\ sponge' = ZeroSponge
        /\ loopStack' = Pushed(loopStack, loopDepth, image) /\ loopDepth' = loopDepth + 1
        /\ opBits' = [flow |-> "loop", user |-> "noop"]
    BY DEF StartLoop, SaveContext, SaveLoopImage, SetOpBits
  <1>4. /\ Deeper(ctxStack, ctxStack', Digest(sponge))
        /\ Len(ctxStack') = IF ctxDepth + 1 > Len(ctxStack) THEN Len(ctxStack) + 1 ELSE Len(ctxStack)
    BY <1>1, <1>3, PushedDeeper
  <1>5. /\ Deeper(loopStack, loopStack', image) /\ Within(loopStack', loopDepth') /\ loopDepth' <= Len(loopStack')
        /\ Len(loopStack') = IF loopDepth + 1 > Len(loopStack) THEN Len(loopStack) + 1 ELSE Len(loopStack)
    BY <1>1, <1>3, PushedDeeper
  <1>6. Len(ctxStack') \in 1..MaxContextDepth /\ Len(loopStack') \in 0..MaxLoopDepth /\ DecoderGrows
    BY <1>1, <1>4, <1>5 DEF DecoderGrows
  <1>7. DecoderLimits'
    BY <1>2, <1>5, <1>6 DEF DecoderLimits
  <1>8. FlowLinks("loop", "noop", Registers, Registers', step)
    BY <1>3, <1>4, <1>5 DEF FlowLinks, Registers
  <1>9. CounterLinks("loop", "noop", Registers, Registers', step)
    BY <1>1, <1>2 DEF CounterLinks, Registers
  <1>10. Together("loop", "noop")
    BY FlowCodes DEF Together
  <1> QED BY <1>1, <1>2, <1>3, <1>6, <1>7, <1>8, <1>9, <1>10 DEF DecoderLinks

(* what the assertions of wrap_loop and break_loop make sure of *)
LEMMA IterationEnds ==
  ASSUME DecoderReady, IterationFault = "none"
  PROVE  /\ step % CycleLength = CycleLength - 1 /\ loopDepth \in Nat \ {0}
         /\ IsSequence(loopStack) /\ loopDepth <= Len(loopStack) /\ Within(loopStack, loopDepth)
         /\ Digest(sponge) = Entry(loopStack, 0)
         /\ Len(loopStack) \in Nat /\ Len(ctxStack) \in Nat
  <1>1. /\ step % CycleLength = CycleLength - 1 /\ loopDepth # 0 /\ Digest(sponge) = loopStack[1]
    BY DEF IterationFault, AtCycleStep
  <1>2. /\ loopDepth \in Nat /\ IsSequence(loopStack) /\ loopDepth <= Len(loopStack)
        /\ Within(loopStack, loopDepth) /\ Len(loopStack) \in Nat /\ Len(ctxStack) \in Nat
    BY DecoderAssumption DEF DecoderReady, DecoderTypeOK, DecoderLimits
  <1>3. Entry(loopStack, 0) = loopStack[1]
    BY <1>1, <1>2 DEF Entry
  <1> QED BY <1>1, <1>2, <1>3

(* wrap_loop *)
LEMMA WrapLoopLinks ==
  ASSUME DecoderReady, IterationFault = "none", WrapLoop
  PROVE  DecoderLinks("wrap", "noop") /\ DecoderLimits' /\ DecoderGrows
  <1>1. /\ IsPowerOfTwo(traceLength') /\ step \in Nat /\ step' = step + 1 /\ opCounter \in Nat /\ opCounter' = opCounter
    BY RowAdvanced DEF WrapLoop, DecoderReady, DecoderLimits
  <1>2. /\ UNCHANGED <<ctxStack, loopStack, loopDepth>> /\ sponge' = ZeroSponge
        /\ opBits' = [flow |-> "wrap", user |-> "noop"]
    BY DEF WrapLoop, CopyContextStack, CopyLoopStack, SetOpBits
  <1>3. DecoderLimits' /\ DecoderGrows
    BY <1>1, <1>2, IterationEnds DEF DecoderLimits, DecoderReady, DecoderGrows
  <1>4. FlowLinks("wrap", "noop", Registers, Registers', step)
    BY <1>2, IterationEnds DEF FlowLinks, Registers
  <1>5. CounterLinks("wrap", "noop", Registers, Registers', step)
    BY <1>1, IterationEnds DEF CounterLinks, Registers
  <1>6. Together("wrap", "noop")
    BY FlowCodes DEF Together
  <1> QED BY <1>1, <1>2, <1>3, <1>4, <1>5, <1>6 DEF DecoderLinks

(* break_loop *)
LEMMA BreakLoopLinks ==
  ASSUME DecoderReady, IterationFault = "none", BreakLoop
  PROVE  DecoderLinks("break", "noop") /\ DecoderLimits' /\ DecoderGrows
  <1>1. /\ IsPowerOfTwo(traceLength') /\ step \in Nat /\ step' = step + 1 /\ opCounter \in Nat /\ opCounter' = opCounter
    BY RowAdvanced DEF BreakLoop, DecoderReady, DecoderLimits
  <1>2. /\ UNCHANGED <<ctxStack, sponge>> /\ loopStack' = Popped(loopStack) /\ loopDepth' = loopDepth - 1
        /\ opBits' = [flow |-> "break", user |-> "noop"]
    BY DEF BreakLoop, CopyContextStack, PopLoopImage, SetOpBits
  <1>3. /\ Shallower(loopStack, loopStack') /\ Within(loopStack', loopDepth')
        /\ loopDepth' <= Len(loopStack') /\ Len(loopStack') = Len(loopStack)
    BY <1>2, IterationEnds, PoppedShallower
  <1>4. DecoderLimits' /\ DecoderGrows
    BY <1>1, <1>2, <1>3, IterationEnds DEF DecoderLimits, DecoderReady, DecoderGrows
  <1>5. FlowLinks("break", "noop", Registers, Registers', step)
    BY <1>2, <1>3, IterationEnds DEF FlowLinks, Registers
  <1>6. CounterLinks("break", "noop", Registers, Registers', step)
    BY <1>1, IterationEnds DEF CounterLinks, Registers
  <1>7. Together("break", "noop")
    BY FlowCodes DEF Together
  <1> QED BY <1>1, <1>2, <1>4, <1>5, <1>6, <1>7 DEF DecoderLinks

(* end_block *)
LEMMA EndBlockLinks ==
  ASSUME DecoderReady, EndBlockFault = "none", NEW sibling, NEW trueBranch \in BOOLEAN,
         EndBlock(sibling, trueBranch), NEW flow, flow = IF trueBranch THEN "tend" ELSE "fend"
  PROVE  DecoderLinks(flow, "noop") /\ DecoderLimits' /\ DecoderGrows
  <1>1. /\ step % CycleLength = 0 /\ ctxDepth \in Nat \ {0} /\ IsSequence(ctxStack)
        /\ ctxDepth <= Len(ctxStack) /\ Within(ctxStack, ctxDepth) /\ Len(ctxStack) \in 1..MaxContextDepth
        /\ Len(ctxStack) \in Nat /\ Len(loopStack) \in Nat
    BY DecoderAssumption
    DEF EndBlockFault, AtCycleStep, DecoderReady, DecoderTypeOK, DecoderLimits
  <1>2. /\ IsPowerOfTwo(traceLength') /\ step \in Nat /\ step' = step + 1 /\ opCounter \in Nat /\ opCounter' = opCounter
    BY RowAdvanced DEF EndBlock, DecoderReady, DecoderLimits
  <1>3. /\ ctxStack' = Popped(ctxStack) /\ UNCHANGED <<loopStack, loopDepth>>
        /\ opBits' = [flow |-> flow, user |-> "noop"]
        /\ sponge' = IF trueBranch THEN Load(ctxStack[1], Digest(sponge), sibling)
                                   ELSE Load(ctxStack[1], sibling, Digest(sponge))
    BY DEF EndBlock, PopContext, CopyLoopStack, SetOpBits
  <1>4. Shallower(ctxStack, ctxStack') /\ Len(ctxStack') = Len(ctxStack)
    BY <1>1, <1>3, PoppedShallower
  <1>5. Entry(ctxStack, 0) = ctxStack[1]
    BY <1>1 DEF Entry
  <1>6. DecoderLimits' /\ DecoderGrows
    BY <1>1, <1>2, <1>3, <1>4 DEF DecoderLimits, DecoderReady, DecoderGrows
  <1>7. FlowLinks(flow, "noop", Registers, Registers', step)
    <2>1. CASE trueBranch
      <3>1. flow = "tend" /\ sponge' = Load(Entry(ctxStack, 0), Digest(sponge), sibling)
        BY <1>3, <1>5, <2>1
      <3> QED BY <1>3, <1>4, <3>1 DEF FlowLinks, Registers
    <2>2. CASE ~ trueBranch
      <3>1. flow = "fend" /\ sponge' = Load(Entry(ctxStack, 0), sibling, Digest(sponge))
        BY <1>3, <1>5, <2>2
      <3> QED BY <1>3, <1>4, <3>1 DEF FlowLinks, Registers
    <2> QED BY <2>1, <2>2
  <1>8. CounterLinks(flow, "noop", Registers, Registers', step)
    BY <1>1, <1>2 DEF CounterLinks, Registers
  <1>9. Together(flow, "noop") /\ flow # "void"
    BY FlowCodes DEF Together
  <1> QED BY <1>1, <1>2, <1>3, <1>6, <1>7, <1>8, <1>9 DEF DecoderLinks

(* decode_op *)
LEMMA DecodeOpLinks ==
  ASSUME DecoderReady, NEW op \in Operations, NEW value, DecodeOp(op, value),
         value = IF op = "push" THEN regs'[0] ELSE 0,
         op = "begin" => opCounter = 0,
         op = "push" => step % PushAlignment = 0
  PROVE  DecoderLinks("hacc", op) /\ DecoderLimits' /\ DecoderGrows
  <1>1. /\ IsPowerOfTwo(traceLength') /\ step \in Nat /\ step' = step + 1 /\ opCounter \in Nat /\ opCounter' = opCounter + 1
        /\ Len(ctxStack) \in Nat /\ Len(loopStack) \in Nat
    <2>1. DecoderTypeOK /\ IsPowerOfTwo(traceLength) /\ AdvanceStep(TRUE)
      BY DEF DecodeOp, DecoderReady, DecoderLimits
    <2>2. /\ IsPowerOfTwo(traceLength') /\ step \in Nat /\ step' = step + 1 /\ opCounter \in Nat
          /\ opCounter' = IF TRUE THEN opCounter + 1 ELSE opCounter
      BY <2>1, RowAdvanced
    <2>3. Len(ctxStack) \in Nat /\ Len(loopStack) \in Nat
      BY DecoderAssumption DEF DecoderReady, DecoderLimits
    <2> QED BY <2>2, <2>3
  <1>2. /\ UNCHANGED <<ctxStack, loopStack, loopDepth>> /\ sponge' = ApplyRound(sponge, op, value, step)
        /\ opBits' = [flow |-> "hacc", user |-> op]
    BY DEF DecodeOp, CopyContextStack, CopyLoopStack, SetOpBits
  <1>3. DecoderLimits' /\ DecoderGrows
    BY <1>1, <1>2 DEF DecoderLimits, DecoderReady, DecoderGrows
  <1>4. FlowLinks("hacc", op, Registers, Registers', step)
    BY <1>2 DEF FlowLinks, Registers
  <1>5. CounterLinks("hacc", op, Registers, Registers', step)
    BY <1>1 DEF CounterLinks, Registers
  <1>6. Together("hacc", op)
    BY FlowCodes DEF Together
  <1> QED BY <1>1, <1>2, <1>3, <1>4, <1>5, <1>6 DEF DecoderLinks
-----------------------------------------------------------------------------
(* The operations of the stack. *)

(* shift_right makes room for what an operation adds, one register or more *)
(* than the deepest stack so far had                                       *)
LEMMA WidthGrows ==
  ASSUME RowOK, maxDepth <= MaxStackDepth + 3, NEW top, NEW n \in 1..4, Len(top) = n,
         depth + n <= MaxStackDepth, ShiftRight(top)
  PROVE  maxDepth' \in Nat /\ maxDepth <= maxDepth' /\ maxDepth' <= MaxStackDepth + 3
  <1>1. maxDepth' = IF depth + n > maxDepth THEN maxDepth + n ELSE maxDepth
    BY DEF ShiftRight
  <1> QED BY <1>1, MaxIsNat DEF RowOK

(* the registers every operation leaves the trace with *)
LEMMA StackGrows ==
  ASSUME RowOK, maxDepth <= MaxStackDepth + 3, NEW op, NEW hint,
         StackFault(op, hint) = "none", Perform(op, hint)
  PROVE  /\ maxDepth' \in Nat /\ maxDepth <= maxDepth' /\ maxDepth' <= MaxStackDepth + 3
         /\ op \in Operations
  <1>1. depth + Added(op) <= MaxStackDepth /\ Perform(op, hint)
    <2>1. Added(op) \in Nat
      BY DEF Added
    <2> QED BY <2>1, MaxIsNat DEF StackFault, RowOK
  <1>2. op \in Operations
    BY DEF Perform, Operations
  <1>3. CASE op = "push"
    <2>1. ShiftRight(<<hint.arg>>) /\ Added(op) = 1
      BY <1>1, <1>3 DEF Perform, OpPush, Added
    <2>2. Len(<<hint.arg>>) = 1
      OBVIOUS
    <2> QED BY <1>1, <1>2, <2>1, <2>2, WidthGrows
  <1>4. CASE op = "read"
    <2>1. ShiftRight(<<HintedTapeA("read", hint)[1]>>) /\ Added(op) = 1
      BY <1>1, <1>4 DEF Perform, OpRead, Added
    <2>2. Len(<<HintedTapeA("read", hint)[1]>>) = 1
      OBVIOUS
    <2> QED BY <1>1, <1>2, <2>1, <2>2, WidthGrows
  <1>5. CASE op = "read2"
    <2>1. ShiftRight(<<HintedTapeB("read2", hint)[1], HintedTapeA("read2", hint)[1]>>) /\ Added(op) = 2
      BY <1>1, <1>5 DEF Perform, OpRead2, Added
    <2>2. Len(<<HintedTapeB("read2", hint)[1], HintedTapeA("read2", hint)[1]>>) = 2
      OBVIOUS
    <2> QED BY <1>1, <1>2, <2>1, <2>2, WidthGrows
  <1>6. CASE op = "dup"
    <2>1. ShiftRight(<<regs[0]>>) /\ Added(op) = 1
      BY <1>1, <1>6 DEF Perform, OpDup, Added
    <2>2. Len(<<regs[0]>>) = 1
      OBVIOUS
    <2> QED BY <1>1, <1>2, <2>1, <2>2, WidthGrows
  <1>7. CASE op = "dup2"
    <2>1. ShiftRight(<<regs[0], regs[1]>>) /\ Added(op) = 2
      BY <1>1, <1>7 DEF Perform, OpDup2, Added
    <2>2. Len(<<regs[0], regs[1]>>) = 2
      OBVIOUS
    <2> QED BY <1>1, <1>2, <2>1, <2>2, WidthGrows
  <1>8. CASE op = "dup4"
    <2>1. ShiftRight(<<regs[0], regs[1], regs[2], regs[3]>>) /\ Added(op) = 4
      BY <1>1, <1>8 DEF Perform, OpDup4, Added
    <2>2. Len(<<regs[0], regs[1], regs[2], regs[3]>>) = 4
      OBVIOUS
    <2> QED BY <1>1, <1>2, <2>1, <2>2, WidthGrows
  <1>9. CASE op = "pad2"
    <2>1. ShiftRight(<<0, 0>>) /\ Added(op) = 2
      BY <1>1, <1>9 DEF Perform, OpPad2, Added
    <2>2. Len(<<0, 0>>) = 2
      OBVIOUS
    <2> QED BY <1>1, <1>2, <2>1, <2>2, WidthGrows
  <1>10. CASE op \notin {"push", "read", "read2", "dup", "dup2", "dup4", "pad2"}
    <2>1. maxDepth' = maxDepth
      BY <1>10
      DEF Perform, CopyState, ShiftLeft, OpNoop, OpAssert, OpAssertEq, OpDrop, OpDrop4, OpSwap,
          OpSwap2, OpSwap4, OpRoll4, OpRoll8, OpChoose, OpChoose2, OpCSwap2, OpAdd, OpMul,
          OpInv, OpNeg, OpNot, OpAnd, OpOr, OpEq, OpCmp, OpBinAcc, OpRescR
    <2> QED BY <1>2, <2>1, MaxIsNat DEF RowOK
  <1> QED BY <1>2, <1>3, <1>4, <1>5, <1>6, <1>7, <1>8, <1>9, <1>10

(* What the stack executes satisfies the constraints of its operation. *)
LEMMA UserLinked ==
  ASSUME RowOK, regs' \in Rows, step \in Nat, stackStep = step, NEW op, NEW hint,
         maxDepth <= MaxStackDepth + 3,
         StackFault(op, hint) = "none", Execute(op, hint)
  PROVE  /\ UserLinks(op)
         /\ maxDepth' \in Nat /\ maxDepth <= maxDepth' /\ maxDepth' <= MaxStackDepth + 3
  <1>1. Perform(op, hint)
    BY DEF Execute
  <1>2. /\ maxDepth' \in Nat /\ maxDepth <= maxDepth' /\ maxDepth' <= MaxStackDepth + 3
        /\ op \in Operations
    BY <1>1, StackGrows
  <1>3. Satisfied(TermsOf(op, regs, regs', step))
    BY <1>1, OperationSettles DEF Settles
  <1>4. \A i \in Slots : i + Added(op) >= MaxStackDepth => regs[i] = 0
    <2>1. depth + Added(op) <= MaxStackDepth /\ depth \in Nat
      <3>1. Added(op) \in Nat
        BY DEF Added
      <3> QED BY <3>1, MaxIsNat DEF StackFault, RowOK
    <2>2. Added(op) \in Nat
      BY DEF Added
    <2>3. \A i \in Slots : i \in Nat
      BY SlotsOfStack
    <2> QED BY <2>1, <2>2, <2>3, MaxIsNat DEF RowOK, FreeRegistersAreZero
  <1> QED BY <1>2, <1>3, <1>4 DEF UserLinks
-----------------------------------------------------------------------------
(***************************************************************************)
(* What holds of the processor before each of its steps: besides what its  *)
(* own properties say, the number of operations so far.  Until the first   *)
(* span of the program is finished it is the place in that span, so BEGIN  *)
(* is executed when nothing was counted; and no program ends before it has *)
(* executed a cycle and the merging of a hash.                             *)
(***************************************************************************)
FirstSpan == pc = "span" /\ Len(calls) = 1 /\ Top.at = 1

Counted ==
  /\ FirstSpan => opCounter = k
  /\ ~ FirstSpan => opCounter >= CycleLength - 1
  /\ pc = "end" => opCounter >= CycleLength
  /\ pc = "hacc" => opCounter >= CycleLength + k
  /\ pc \in {"finalize", "done"} => opCounter >= 2 * CycleLength - 2

RowLayer ==
  /\ HashLayer /\ LoopLayer /\ DecoderLimits /\ Counted
  /\ maxDepth <= MaxStackDepth + 3

(* what RowLayer is cited for *)
LEMMA RowLayerParts ==
  ASSUME RowLayer
  PROVE  /\ ControlLayer /\ Control /\ AtPlace /\ DecoderTypeOK /\ DecoderLimits /\ DecoderReady
         /\ RowOK /\ regs \in Rows /\ maxDepth <= MaxStackDepth + 3 /\ StackTypeOK
         /\ stackStep = step /\ step \in Nat /\ k \in Nat /\ opCounter \in Nat
         /\ Within(ctxStack, Len(ctxStack) - 1) /\ Within(loopStack, Len(loopStack))
         /\ Len(ctxStack) \in Nat \ {0} /\ Len(loopStack) \in Nat /\ Len(calls) \in Nat
         /\ traceLength \in Nat \ {0} /\ step < traceLength /\ stackLength = traceLength
  <1>1. /\ ControlLayer /\ Control /\ AtPlace /\ DecoderTypeOK /\ StackOK /\ StackTypeOK
        /\ TracesInLockstep /\ step \in Nat /\ k \in Nat /\ DecoderLimits
    BY LayerParts DEF RowLayer, HashLayer
  <1>2. RowOK /\ regs \in Rows
    BY <1>1 DEF StackOK, StackTypeOK, RowOK, Rows
  <1>3. /\ stackStep = step /\ opCounter \in Nat /\ traceLength \in Nat \ {0} /\ step < traceLength
        /\ stackLength = traceLength
    BY <1>1 DEF TracesInLockstep, DecoderTypeOK
  <1>4. Len(ctxStack) \in Nat \ {0} /\ Len(loopStack) \in Nat
    BY <1>1, DecoderAssumption DEF DecoderLimits
  <1>5. Len(calls) \in Nat
    BY HashParts DEF RowLayer
  <1>6. /\ ctxDepth = Len(calls) /\ ctxDepth <= Len(ctxStack)
        /\ \A i \in 1..Len(ctxStack) : i >= ctxDepth => ctxStack[i] = ZeroDigest
    BY DEF RowLayer, HashLayer, ContextIsSuspendedHashes
  <1>7. \A i \in Nat : i + 1 >= ctxDepth => Entry(ctxStack, i) = ZeroDigest
    BY <1>4, <1>5, <1>6 DEF Entry
  <1>8. Within(ctxStack, ctxDepth) /\ Within(ctxStack, Len(ctxStack) - 1)
    BY <1>4, <1>5, <1>6, <1>7 DEF Within
  <1>9. Within(loopStack, Len(loopStack))
    BY <1>1, <1>4 DEF DecoderLimits, DecoderTypeOK, Within
  <1>10. DecoderReady
    BY <1>1, <1>6, <1>8 DEF DecoderReady
  <1> QED BY <1>1, <1>2, <1>3, <1>4, <1>5, <1>8, <1>9, <1>10 DEF RowLayer

(* what a step makes of the rows, apart from where it leads *)
Progress ==
  /\ Recorded /\ step' = step + 1
  /\ DecoderLimits' /\ DecoderGrows
  /\ maxDepth <= maxDepth' /\ maxDepth' <= MaxStackDepth + 3

(* the registers of the next row *)
LEMMA StackTypesNext == ASSUME ControlLayer' PROVE regs' \in Rows
  BY DEF ControlLayer, StackOK, StackTypeOK, Rows

(* a flow operation, which the stack sits out *)
LEMMA FlowProgress ==
  ASSUME RowLayer, ControlLayer', FlowNoop, NEW flow,
         DecoderLinks(flow, "noop"), DecoderLimits', DecoderGrows
  PROVE  Progress
  <1>1. regs' \in Rows
    BY StackTypesNext
  <1>2. StackFault("noop", NoHint) = "none" /\ Execute("noop", NoHint)
    BY RowLayerParts, NoopAccepted DEF FlowNoop
  <1>3. UserLinks("noop") /\ maxDepth <= maxDepth' /\ maxDepth' <= MaxStackDepth + 3
    BY <1>1, <1>2, RowLayerParts, UserLinked
  <1>4. Recorded
    BY <1>3, BothLinked
  <1> QED BY <1>3, <1>4 DEF Progress, DecoderLinks

(* a NOOP of the decoder and the stack *)
LEMMA NoopProgress ==
  ASSUME RowLayer, ControlLayer', UserNoop
  PROVE  Progress
  <1>1. DecodeOp("noop", 0) /\ FlowNoop
    BY DEF UserNoop, FlowNoop
  <1>2. DecoderReady
    BY RowLayerParts
  <1>3. DecoderLinks("hacc", "noop") /\ DecoderLimits' /\ DecoderGrows
    BY <1>1, <1>2, FlowCodes, DecodeOpLinks
  <1>4. StackFault("noop", NoHint) = "none" /\ Execute("noop", NoHint)
    BY <1>1, RowLayerParts, NoopAccepted DEF FlowNoop
  <1>5. UserLinks("noop") /\ maxDepth <= maxDepth' /\ maxDepth' <= MaxStackDepth + 3
    BY <1>4, StackTypesNext, RowLayerParts, UserLinked
  <1>6. Recorded
    BY <1>3, <1>5, BothLinked
  <1> QED BY <1>3, <1>5, <1>6 DEF Progress, DecoderLinks

(* BEGIN is the first operation of a program. *)
LEMMA BeginIsFirst ==
  ASSUME RowLayer, pc = "span", Block.code[k + 1].op = "begin"
  PROVE  opCounter = 0
  <1>1. /\ Control /\ calls # << >> /\ Top.at \in 1..Len(Body(Top)) /\ Body(Top) \in BlockLists
        /\ Block = Body(Top)[Top.at] /\ Block.kind = "span" /\ k + 1 \in 1..Len(Block.code) /\ k \in Nat
    BY CurrentInstr, RowLayerParts
  <1>2. Body(Top) \in RootLists /\ Top.at = 1 /\ k + 1 = 1
    BY <1>1, BeginAssumption DEF BeginsOnce
  <1>3. Len(calls) = 1
    <2> SUFFICES ASSUME Len(calls) # 1 PROVE FALSE
      OBVIOUS
    <2> DEFINE f == calls[Len(calls) - 1]
    <2>0. Len(calls) \in Nat \ {0}
      BY <1>1, TopFacts DEF Control
    <2>1. Len(calls) \in Nat /\ Len(calls) - 1 \in 1..(Len(calls) - 1) /\ Len(calls) - 1 \in 1..Len(calls)
      <3>1. \A n \in Nat \ {0} : n # 1 => n \in Nat /\ n - 1 \in 1..(n - 1) /\ n - 1 \in 1..n
        OBVIOUS
      <3> QED BY <2>0, <3>1
    <2>2. f \in Frames /\ Matches(f) /\ f.at \in 2..Len(Body(f)) /\ Top.block = Body(f)[f.at]
      <3>1. calls[Len(calls)] = calls[(Len(calls) - 1) + 1]
        BY <2>1
      <3> QED BY <1>1, <2>1, <3>1, ElementOfSeq DEF Control, CallsFollowTree, Top
    <2>3. Body(f) \in BlockLists /\ Len(Body(f)) \in Nat
      BY <2>2, BodyIsList, ListFacts
    <2> HIDE DEF f
    <2>4. f.at \in 1..Len(Body(f))
      BY <2>2, <2>3
    <2>5. Matches(Top) /\ Top.part \in Parts
      BY <1>1, TopFacts DEF Control
    <2>6. Top.block.kind # "span" /\ Body(Top) \in Nested(Top.block)
      BY <2>5 DEF Matches, Parts, Body, Nested
    <2>7. Nested(Top.block) \cap RootLists = {}
      BY <2>2, <2>3, <2>4, <2>6, BeginAssumption DEF BeginsOnce
    <2> QED BY <1>2, <2>6, <2>7
  <1>4. k = 0
    BY <1>1, <1>2
  <1> QED BY <1>2, <1>3, <1>4 DEF RowLayer, Counted, FirstSpan

(* an operation of a span *)
LEMMA SpanOpProgress ==
  ASSUME RowLayer, ControlLayer', SpanOp
  PROVE  Progress
  <1> DEFINE op == Block.code[k + 1].op
             hint == Block.code[k + 1].hint
             value == HintValue(hint)
  <1>1. /\ pc = "span" /\ DecodeOp(op, value) /\ Execute(op, hint)
        /\ DecodeOpFault(op, value) = "none" /\ StackFault(op, hint) = "none"
    BY DEF SpanOp, PendingFault
  <1>2. /\ hint.kind = "value" => op = "push"
        /\ op = "push" => k % PushAlignment = 0
    BY <1>1, CurrentInstr, RowLayerParts
  <1>3. /\ UserLinks(op) /\ maxDepth <= maxDepth' /\ maxDepth' <= MaxStackDepth + 3
    <2> HIDE DEF op, hint
    <2> QED BY <1>1, StackTypesNext, RowLayerParts, UserLinked
  <1>4. op \in Operations
    BY <1>3 DEF UserLinks
  <1>5. value = IF op = "push" THEN regs'[0] ELSE 0
    <2>1. CASE op = "push"
      <3>1. ShiftRight(<<hint.arg>>)
        BY <1>1, <2>1 DEF Execute, Perform, OpPush
      <3>2. 0 \in Slots
        <4>1. MaxStackDepth \in Nat \ {0}
          BY StackAssumption
        <4> QED BY <4>1, SlotsOfStack
      <3>3. regs'[0] = hint.arg
        BY <3>1, <3>2 DEF ShiftRight
      <3>4. hint.kind = "value"
        BY <1>1, <2>1 DEF StackFault, ValidHint
      <3> QED BY <2>1, <3>3, <3>4 DEF HintValue
    <2>2. CASE op # "push"
      BY <1>2, <2>2 DEF HintValue
    <2> QED BY <2>1, <2>2
  <1>6. op = "begin" => opCounter = 0
    BY <1>1, BeginIsFirst
  <1>7. op = "push" => step % PushAlignment = 0
    <2> SUFFICES ASSUME op = "push" PROVE step % PushAlignment = 0
      OBVIOUS
    <2>1. step \in Nat /\ k \in Nat /\ step % CycleLength = k % CycleLength
      BY <1>1, RowLayerParts, LayerParts DEF Alignment, PlaceInCycle
    <2>2. k % PushAlignment = 0
      BY <1>2
    <2> QED BY <2>1, <2>2, CycleFacts, AlignmentAssumption, ModDivides
  <1> HIDE DEF op, hint, value
  <1>8. DecoderReady
    BY RowLayerParts
  <1>9. DecoderLinks("hacc", op) /\ DecoderLimits' /\ DecoderGrows
    BY <1>1, <1>4, <1>5, <1>6, <1>7, <1>8, DecodeOpLinks
  <1>10. Recorded
    BY <1>3, <1>9, BothLinked
  <1> QED BY <1>3, <1>9, <1>10 DEF Progress, DecoderLinks

(* Every step but the last one records the row it starts from. *)
LEMMA StepProgress ==
  ASSUME RowLayer, ControlLayer', Step, ~ Panic, ~ FinalizeTrace
  PROVE  Progress
  <1>0. DecoderReady
    BY RowLayerParts
  <1>1. CASE SpanOp
    BY <1>1, SpanOpProgress
  <1>2. CASE PadSpan \/ CompleteCycle \/ MergeRound
    BY <1>2, NoopProgress DEF PadSpan, CompleteCycle, MergeRound
  <1>3. CASE StartGroup \/ StartSwitch \/ SkipLoop
    <2>1. StartBlock /\ FlowNoop
      BY <1>3 DEF StartGroup, StartSwitch, SkipLoop
    <2>2. StartBlockFault = "none"
      <3>1. CASE StartGroup
        BY <3>1 DEF StartGroup, PendingFault
      <3>2. CASE StartSwitch
        BY <3>2 DEF StartSwitch, PendingFault
      <3>3. CASE SkipLoop
        BY <3>3 DEF SkipLoop, PendingFault, IsBinary
      <3> QED BY <1>3, <3>1, <3>2, <3>3
    <2>3. DecoderLinks("begin", "noop") /\ DecoderLimits' /\ DecoderGrows
      BY <1>0, <2>1, <2>2, StartBlockLinks
    <2> QED BY <2>1, <2>3, FlowProgress
  <1>4. CASE EnterLoop
    <2>1. StartLoop(Image(Block)) /\ FlowNoop
      BY <1>4 DEF EnterLoop
    <2>2. StartLoopFault = "none"
      BY <1>4 DEF EnterLoop, PendingFault, IsBinary
    <2>3. DecoderLinks("loop", "noop") /\ DecoderLimits' /\ DecoderGrows
      BY <1>0, <2>1, <2>2, StartLoopLinks
    <2> QED BY <2>1, <2>3, FlowProgress
  <1>5. CASE RepeatLoop \/ ExitLoop
    <2>1. IterationFault = "none" /\ FlowNoop
      BY <1>5 DEF RepeatLoop, ExitLoop, PendingFault, IsBinary
    <2>2. CASE WrapLoop
      <3>1. DecoderLinks("wrap", "noop") /\ DecoderLimits' /\ DecoderGrows
        BY <1>0, <2>1, <2>2, WrapLoopLinks
      <3> QED BY <2>1, <3>1, FlowProgress
    <2>3. CASE BreakLoop
      <3>1. DecoderLinks("break", "noop") /\ DecoderLimits' /\ DecoderGrows
        BY <1>0, <2>1, <2>3, BreakLoopLinks
      <3> QED BY <2>1, <3>1, FlowProgress
    <2> QED BY <1>5, <2>2, <2>3 DEF RepeatLoop, ExitLoop
  <1>6. CASE CloseBlock
    <2> DEFINE flow == IF ClosesTrueBranch(Top) THEN "tend" ELSE "fend"
    <2>1. /\ EndBlock(SiblingHash(Top), ClosesTrueBranch(Top)) /\ FlowNoop
          /\ EndBlockFault = "none" /\ ClosesTrueBranch(Top) \in BOOLEAN
      BY <1>6 DEF CloseBlock, PendingFault, ClosesTrueBranch
    <2>2. DecoderLinks(flow, "noop") /\ DecoderLimits' /\ DecoderGrows
      BY <1>0, <2>1, EndBlockLinks
    <2> HIDE DEF flow
    <2> QED BY <2>1, <2>2, FlowProgress
  <1> QED BY <1>1, <1>2, <1>3, <1>4, <1>5, <1>6 DEF Step
-----------------------------------------------------------------------------
(* The count of operations.                                                *)

(* The steps, one by one. *)
LEMMA CountedNext ==
  ASSUME opCounter' \in Nat, CycleLength \in Nat,
         FirstSpan' => opCounter' = k',
         ~ FirstSpan' => opCounter' >= CycleLength - 1,
         pc' = "end" => opCounter' >= CycleLength,
         pc' = "hacc" => opCounter' >= CycleLength + k',
         pc' \in {"finalize", "done"} => opCounter' >= 2 * CycleLength - 2
  PROVE  Counted'
  <1>1. FirstSpan' <=> (pc' = "span" /\ Len(calls') = 1 /\ Top'.at = 1)
    BY DEF FirstSpan
  <1> QED BY <1>1 DEF Counted

(* the counters of a step that executes an operation, and one that does not *)
LEMMA CountStep ==
  ASSUME RowLayer, NEW isUserOp \in BOOLEAN, AdvanceStep(isUserOp)
  PROVE  /\ opCounter \in Nat /\ k \in Nat /\ opCounter' \in Nat /\ CycleLength \in Nat
         /\ opCounter' = IF isUserOp THEN opCounter + 1 ELSE opCounter
         /\ CycleLength > 2 /\ HaccRounds = CycleLength - 2
  <1>1. opCounter' = IF isUserOp THEN opCounter + 1 ELSE opCounter
    BY DEF AdvanceStep
  <1>2. opCounter \in Nat /\ k \in Nat
    BY RowLayerParts
  <1>3. opCounter' = opCounter + 1 \/ opCounter' = opCounter
    BY <1>1
  <1>4. opCounter' \in Nat
    BY <1>2, <1>3
  <1> QED BY <1>1, <1>2, <1>4, CycleAssumption

(* an operation of a span *)
LEMMA SpanOpCounted ==
  ASSUME RowLayer, SpanOp
  PROVE  Counted'
  <1>1. /\ AdvanceStep(TRUE) /\ pc = "span"
    BY DEF SpanOp, DecodeOp
  <1>2. /\ opCounter \in Nat /\ k \in Nat /\ opCounter' \in Nat /\ CycleLength \in Nat /\ CycleLength > 2
        /\ opCounter' = opCounter + 1
    <2>1. /\ opCounter \in Nat /\ k \in Nat /\ opCounter' \in Nat /\ CycleLength \in Nat
          /\ opCounter' = IF TRUE THEN opCounter + 1 ELSE opCounter
          /\ CycleLength > 2
      BY <1>1, CountStep
    <2> QED BY <2>1
  <1>3. /\ Control /\ calls # << >> /\ Top.at \in 1..Len(Body(Top)) /\ k + 1 \in 1..Len(Block.code)
        /\ Len(Block.code) \in Nat \ {0} /\ Len(Block.code) % CycleLength = CycleLength - 1
    BY <1>1, CurrentInstr, RowLayerParts
  <1>4. /\ FirstSpan => opCounter = k
        /\ ~ FirstSpan => opCounter >= CycleLength - 1
    BY DEF RowLayer, Counted
  <1>5. CASE k + 1 < Len(Block.code)
    <2>1. k' = k + 1 /\ UNCHANGED <<calls, pc>> /\ Top' = Top
      BY <1>5 DEF SpanOp, Top
    <2>2. FirstSpan' <=> FirstSpan
      BY <2>1 DEF FirstSpan
    <2> QED BY <1>1, <1>2, <1>4, <2>1, <2>2, CountedNext
  <1>6. CASE ~ (k + 1 < Len(Block.code))
    <2>1. /\ calls' = [calls EXCEPT ![Len(calls)].at = @ + 1] /\ pc' = Continue(Top, Top.at)
      BY <1>6 DEF SpanOp
    <2>2. pc' \in {"block", "test", "tail"}
      BY <2>1 DEF Continue
    <2>3. ~ FirstSpan'
      BY <2>2 DEF FirstSpan
    <2>4. opCounter' >= CycleLength - 1
      <3>1. k + 1 = Len(Block.code)
        BY <1>2, <1>3, <1>6
      <3>2. Len(Block.code) >= CycleLength - 1
        <4> DEFINE n == Len(Block.code)
        <4>1. n \in Nat /\ n % CycleLength = CycleLength - 1
          BY <1>3
        <4> HIDE DEF n
        <4>2. n >= n % CycleLength
          BY <1>2, <4>1
        <4> QED BY <1>2, <4>1, <4>2 DEF n
      <3> QED BY <1>2, <1>4, <3>1, <3>2
    <2> QED BY <1>2, <2>2, <2>3, <2>4, CountedNext
  <1> QED BY <1>5, <1>6

(* a round of the hash of a block *)
LEMMA MergeRoundCounted ==
  ASSUME RowLayer, MergeRound
  PROVE  Counted'
  <1>1. AdvanceStep(TRUE) /\ pc = "hacc"
    BY DEF MergeRound, UserNoop, DecodeOp
  <1>2. /\ opCounter \in Nat /\ k \in Nat /\ opCounter' \in Nat /\ CycleLength \in Nat /\ CycleLength > 2
        /\ opCounter' = opCounter + 1 /\ HaccRounds = CycleLength - 2
    <2>1. /\ opCounter \in Nat /\ k \in Nat /\ opCounter' \in Nat /\ CycleLength \in Nat
          /\ opCounter' = IF TRUE THEN opCounter + 1 ELSE opCounter
          /\ CycleLength > 2 /\ HaccRounds = CycleLength - 2
      BY <1>1, CountStep
    <2> QED BY <2>1
  <1>3. opCounter >= CycleLength + k /\ k < HaccRounds
    BY <1>1, RowLayerParts DEF RowLayer, Counted, AtPlace
  <1>4. CASE k + 1 < HaccRounds
    <2>1. k' = k + 1 /\ pc' = "hacc" /\ ~ FirstSpan'
      BY <1>1, <1>4 DEF MergeRound, FirstSpan
    <2> QED BY <1>2, <1>3, <2>1, CountedNext
  <1>5. CASE ~ (k + 1 < HaccRounds) /\ calls = << >>
    <2>1. pc' = "finalize" /\ ~ FirstSpan'
      BY <1>5 DEF MergeRound, FirstSpan
    <2>2. opCounter' >= 2 * CycleLength - 2
      BY <1>2, <1>3, <1>5
    <2> QED BY <1>2, <2>1, <2>2, CountedNext
  <1>6. CASE ~ (k + 1 < HaccRounds) /\ calls # << >>
    <2>1. pc' = Continue(Top, Top.at)
      BY <1>6 DEF MergeRound
    <2>2. pc' \in {"block", "test", "tail"}
      BY <2>1 DEF Continue
    <2>3. ~ FirstSpan'
      BY <2>2 DEF FirstSpan
    <2> QED BY <1>2, <1>3, <2>2, <2>3, CountedNext
  <1> QED BY <1>4, <1>5, <1>6

(* Nothing is counted less, and only the first list has a first span. *)
LEMMA EnteredCounted ==
  ASSUME RowLayer, opCounter' \in Nat, opCounter' >= opCounter, pc' = "span",
         ~ FirstSpan, ~ FirstSpan'
  PROVE  Counted'
  <1>1. opCounter \in Nat /\ CycleLength \in Nat /\ opCounter >= CycleLength - 1
    BY RowLayerParts, CycleFacts DEF RowLayer, Counted
  <1> QED BY <1>1, CountedNext

(* a block that is entered, and the next part of a loop *)
LEMMA EnterCounted ==
  ASSUME RowLayer, StartGroup \/ StartSwitch \/ SkipLoop \/ EnterLoop
  PROVE  Counted'
  <1>1. PICK part : Enter(part)
    BY DEF StartGroup, StartSwitch, SkipLoop, EnterLoop
  <1>2. AdvanceStep(FALSE) /\ pc = "block"
    BY DEF StartGroup, StartSwitch, SkipLoop, EnterLoop, StartBlock, StartLoop
  <1>3. opCounter' = opCounter /\ opCounter \in Nat
    BY <1>2, RowLayerParts DEF AdvanceStep
  <1>4. calls # << >> /\ Control
    BY <1>2, RowLayerParts DEF AtPlace
  <1>5. Len(calls) \in Nat \ {0}
    BY <1>4, TopFacts DEF Control
  <1>6. calls' = Append(calls, Frame(Block, part)) /\ pc' = "span"
    BY <1>1 DEF Enter
  <1>7. Len(calls') = Len(calls) + 1
    BY <1>4, <1>6 DEF Control
  <1>8. ~ FirstSpan /\ ~ FirstSpan'
    BY <1>2, <1>5, <1>7 DEF FirstSpan
  <1> QED BY <1>3, <1>6, <1>8, EnteredCounted

(* an iteration after the first, and the exit of a loop *)
LEMMA ReenterCounted ==
  ASSUME RowLayer, RepeatLoop \/ ExitLoop
  PROVE  Counted'
  <1>1. PICK part : calls' = Append(Outer, Frame(Top.block, part))
    BY DEF RepeatLoop, ExitLoop
  <1>2. AdvanceStep(FALSE) /\ pc = "test" /\ pc' = "span"
    BY DEF RepeatLoop, ExitLoop, WrapLoop, BreakLoop
  <1>3. opCounter' = opCounter /\ opCounter \in Nat
    BY <1>2, RowLayerParts DEF AdvanceStep
  <1>4. calls # << >> /\ Control /\ Top.part = "loop"
    BY <1>2, RowLayerParts DEF AtPlace
  <1>5. Len(calls) \in Nat \ {0} /\ Matches(Top)
    BY <1>4, TopFacts DEF Control
  <1>6. Len(calls) # 1
    <2> SUFFICES ASSUME Len(calls) = 1 PROVE FALSE
      OBVIOUS
    <2>1. Top.block = Group(root)
      BY <1>4 DEF Control, CallsFollowTree, Top
    <2>2. Top.block.kind = "group"
      BY <2>1 DEF Group
    <2>3. Top.block.kind = "loop"
      BY <1>4, <1>5 DEF Matches
    <2> QED BY <2>2, <2>3
  <1>7. Len(calls') = Len(calls)
    <2>1. Outer \in Seq(Frames) /\ Len(Outer) = Len(calls) - 1
      BY <1>4, Popped1 DEF Outer, Control
    <2> QED BY <1>1, <1>5, <2>1
  <1>8. ~ FirstSpan /\ ~ FirstSpan'
    BY <1>2, <1>6, <1>7 DEF FirstSpan
  <1> QED BY <1>2, <1>3, <1>8, EnteredCounted

(* the NOOP before a span *)
LEMMA PadSpanCounted ==
  ASSUME RowLayer, PadSpan
  PROVE  Counted'
  <1>1. /\ AdvanceStep(TRUE) /\ pc = "block" /\ pc' = "span" /\ UNCHANGED calls
    BY DEF PadSpan, UserNoop, DecodeOp
  <1>2. opCounter' \in Nat /\ opCounter' >= opCounter
    <2>1. opCounter' = opCounter + 1
      BY <1>1 DEF AdvanceStep
    <2> QED BY <2>1, RowLayerParts
  <1>3. Top.at \in 2..Len(Body(Top)) /\ Len(Body(Top)) \in Nat
    BY <1>1, RowLayerParts, TopFacts DEF AtPlace, Control
  <1>4. Top.at # 1 /\ Top' = Top
    BY <1>1, <1>3 DEF Top
  <1> QED BY <1>1, <1>2, <1>4, EnteredCounted DEF FirstSpan

(* the two steps at the end of a block *)
LEMMA CompleteCycleCounted ==
  ASSUME RowLayer, CompleteCycle
  PROVE  Counted'
  <1>1. AdvanceStep(TRUE) /\ pc = "tail" /\ pc' = "end"
    BY DEF CompleteCycle, UserNoop, DecodeOp
  <1>2. opCounter' = opCounter + 1
    BY <1>1 DEF AdvanceStep
  <1>3. opCounter \in Nat /\ CycleLength \in Nat /\ opCounter >= CycleLength - 1
    BY <1>1, RowLayerParts, CycleFacts DEF RowLayer, Counted, FirstSpan
  <1>4. ~ FirstSpan'
    BY <1>1 DEF FirstSpan
  <1> QED BY <1>1, <1>2, <1>3, <1>4, CountedNext

LEMMA CloseBlockCounted ==
  ASSUME RowLayer, CloseBlock
  PROVE  Counted'
  <1>1. AdvanceStep(FALSE) /\ pc = "end" /\ pc' = "hacc" /\ k' = 0
    BY DEF CloseBlock, EndBlock
  <1>2. opCounter' = opCounter
    BY <1>1 DEF AdvanceStep
  <1>3. opCounter \in Nat /\ CycleLength \in Nat /\ opCounter >= CycleLength
    BY <1>1, RowLayerParts, CycleFacts DEF RowLayer, Counted
  <1>4. ~ FirstSpan'
    BY <1>1 DEF FirstSpan
  <1> QED BY <1>1, <1>2, <1>3, <1>4, CountedNext

(* the end of the trace *)
LEMMA FinalizeCounted ==
  ASSUME RowLayer, FinalizeTrace
  PROVE  Counted'
  <1>1. pc = "finalize" /\ pc' = "done" /\ opCounter' = opCounter
    BY DEF FinalizeTrace, FinalizeDecoder
  <1>2. opCounter \in Nat /\ CycleLength \in Nat /\ CycleLength > 2 /\ opCounter >= 2 * CycleLength - 2
    BY <1>1, RowLayerParts, CycleFacts DEF RowLayer, Counted
  <1>3. ~ FirstSpan'
    BY <1>1 DEF FirstSpan
  <1> QED BY <1>1, <1>2, <1>3, CountedNext
-----------------------------------------------------------------------------
(* the row a trace ends with does not change where it is filled            *)
LEMMA FinalizeKeeps ==
  ASSUME RowLayer, FinalizeTrace
  PROVE  /\ Registers' = Registers /\ UNCHANGED <<ctxStack, loopStack, maxDepth, traceLength, stackLength>>
         /\ opBits' = [flow |-> "void", user |-> "noop"] /\ pc = "finalize" /\ pc' = "done"
         /\ DecoderLimits'
  <1>1. /\ UNCHANGED <<opCounter, sponge, ctxStack, loopStack, loopDepth, traceLength>>
        /\ UNCHANGED <<regs, maxDepth, stackLength>> /\ pc = "finalize" /\ pc' = "done"
        /\ opBits' = [flow |-> "void", user |-> "noop"]
    BY DEF FinalizeTrace, FinalizeDecoder, FinalizeStack, SetOpBits
  <1> QED BY <1>1, RowLayerParts DEF Registers, DecoderLimits

(* a step in which the registers do not change *)
LEMMA UnchangedRows ==
  ASSUME RowLayer, HashLayer', LoopLayer', UNCHANGED <<decoderVars, stackVars, calls, pc, k>>
  PROVE  RowLayer'
  <1>1. /\ UNCHANGED <<opCounter, ctxStack, loopStack, loopDepth, traceLength, maxDepth, calls, pc, k>>
    BY DEF decoderVars, stackVars
  <1>2. DecoderLimits' /\ maxDepth' <= MaxStackDepth + 3
    BY <1>1 DEF RowLayer, DecoderLimits
  <1>3. Counted'
    <2>1. FirstSpan' <=> FirstSpan
      BY <1>1 DEF FirstSpan, Top
    <2> QED BY <1>1, <2>1 DEF RowLayer, Counted
  <1> QED BY <1>2, <1>3 DEF RowLayer

(* every step, and the first state *)
LEMMA NextRows ==
  ASSUME RowLayer, HashLayer', LoopLayer', Step \/ UNCHANGED vars
  PROVE  RowLayer'
  <1>1. CASE UNCHANGED vars
    BY <1>1, UnchangedRows DEF vars
  <1>2. CASE Panic
    BY <1>2, UnchangedRows DEF Panic
  <1>3. CASE FinalizeTrace
    BY <1>3, FinalizeKeeps, FinalizeCounted, RowLayerParts DEF RowLayer
  <1>4. CASE Step /\ ~ Panic /\ ~ FinalizeTrace
    <2>1. ControlLayer'
      BY DEF HashLayer
    <2>2. DecoderLimits' /\ maxDepth' <= MaxStackDepth + 3
      BY <1>4, <2>1, StepProgress DEF Progress
    <2>3. Counted'
      BY <1>4, SpanOpCounted, PadSpanCounted, EnterCounted, ReenterCounted, CompleteCycleCounted,
         CloseBlockCounted, MergeRoundCounted DEF Step
    <2> QED BY <2>2, <2>3 DEF RowLayer
  <1> QED BY <1>1, <1>2, <1>3, <1>4

LEMMA InitRows ==
  ASSUME ProcessorInit
  PROVE  RowLayer
  <1>1. HashLayer /\ LoopLayer
    BY InitHash, InitLoops
  <1>2. /\ calls = <<Frame(Group(root), "group")>> /\ pc = "span" /\ k = 0
        /\ opCounter = 0 /\ ctxStack = <<ZeroDigest>> /\ loopStack = << >> /\ loopDepth = 0
        /\ traceLength = MinTraceLength
    BY DEF ProcessorInit, DecoderInit
  <1>3. PICK in \in ProgramInputs : StackInit(in.public, in.a, in.b, MinTraceLength)
    BY DEF ProcessorInit
  <1>4. maxDepth <= MaxStackDepth + 3
    <2>1. Len(in.public) <= MaxStackDepth /\ Len(in.public) \in Nat /\ maxDepth = Len(in.public)
      BY <1>3, InputsAssumption, LenProperties DEF ValidInputs, StackInit
    <2> QED BY <2>1, MaxIsNat
  <1>5. DecoderLimits
    <2>1. Within(loopStack, 0)
      BY <1>2 DEF Within, Entry
    <2>2. Len(ctxStack) = 1 /\ Len(loopStack) = 0
      BY <1>2
    <2> QED BY <1>2, <2>1, <2>2, DecoderAssumption, EvaluatorAssumption DEF DecoderLimits
  <1>6. Counted
    <2>1. FirstSpan
      BY <1>2 DEF FirstSpan, Top, Frame
    <2> QED BY <1>2, <2>1 DEF Counted
  <1> QED BY <1>1, <1>4, <1>5, <1>6 DEF RowLayer
-----------------------------------------------------------------------------
(* Sequences of rows.                                                      *)

(* a sequence with one more element *)
LEMMA Appended ==
  ASSUME NEW s, IsSequence(s), NEW e
  PROVE  /\ IsSequence(Append(s, e)) /\ Len(Append(s, e)) = Len(s) + 1 /\ Len(s) \in Nat
         /\ \A i \in 1..Len(s) : Append(s, e)[i] = s[i]
         /\ Append(s, e)[Len(s) + 1] = e
  <1> DEFINE S == {s[i] : i \in DOMAIN s} \cup {e}
  <1>1. Len(s) \in Nat /\ DOMAIN s = 1..Len(s)
    BY SequenceWithin
  <1>2. s \in [1..Len(s) -> S] /\ s = [i \in DOMAIN s |-> s[i]]
    BY <1>1, SequenceWithin, LenProperties
  <1>3. s \in Seq(S)
    BY <1>1, <1>2, FunctionIsSequence
  <1>4. e \in S
    OBVIOUS
  <1> HIDE DEF S
  <1>5. /\ Append(s, e) \in Seq(S) /\ Len(Append(s, e)) = Len(s) + 1
        /\ \A i \in 1..Len(s) : Append(s, e)[i] = s[i]
        /\ Append(s, e)[Len(s) + 1] = e
    BY <1>3, <1>4, AppendProperties
  <1> QED BY <1>1, <1>5, IsSequenceOf

(* e a number of times, and behind s *)
Repeats(r, e, n) == r \in [1..n -> {e}]
FilledWith(t, s, e, n) ==
  /\ IsSequence(t) /\ Len(t) = Len(s) + n /\ Len(s) \in Nat
  /\ \A i \in 1..Len(s) : t[i] = s[i]
  /\ \A i \in (Len(s) + 1)..(Len(s) + n) : t[i] = e

(* the rows finalize_trace fills a trace with *)
LEMMA Repeated ==
  ASSUME NEW s, IsSequence(s), NEW e, NEW n \in Nat, NEW r, Repeats(r, e, n)
  PROVE  FilledWith(s \o r, s, e, n)
  <1> DEFINE S == {s[i] : i \in DOMAIN s} \cup {e}
             t == s \o r
  <1>1. Len(s) \in Nat /\ DOMAIN s = 1..Len(s)
    BY SequenceWithin
  <1>2. s \in [1..Len(s) -> S] /\ s = [i \in DOMAIN s |-> s[i]]
    BY <1>1, SequenceWithin, LenProperties
  <1>3. s \in Seq(S)
    BY <1>1, <1>2, FunctionIsSequence
  <1>4. r \in [1..n -> S]
    BY DEF Repeats
  <1>5. \A i \in 1..n : r[i] = e
    BY DEF Repeats
  <1> HIDE DEF S
  <1>7. r \in Seq(S) /\ Len(r) = n
    BY <1>4, FunctionIsSequence
  <1>8. /\ t \in Seq(S) /\ Len(t) = Len(s) + n
        /\ \A i \in 1..(Len(s) + n) : t[i] = IF i <= Len(s) THEN s[i] ELSE r[i - Len(s)]
    <2>1. /\ s \o r \in Seq(S) /\ Len(s \o r) = Len(s) + Len(r)
          /\ \A i \in 1..(Len(s) + Len(r)) : (s \o r)[i] = IF i <= Len(s) THEN s[i] ELSE r[i - Len(s)]
      BY <1>3, <1>7, ConcatProperties
    <2>2. Len(r) = n
      BY <1>7
    <2> QED BY <2>1, <2>2
  <1>9. \A i \in (Len(s) + 1)..(Len(s) + n) : t[i] = e
    <2> TAKE i \in (Len(s) + 1)..(Len(s) + n)
    <2>1. i \in 1..(Len(s) + n) /\ ~ (i <= Len(s)) /\ i - Len(s) \in 1..n
      BY <1>1
    <2> QED BY <1>5, <1>8, <2>1
  <1>10. \A i \in 1..Len(s) : t[i] = s[i]
    BY <1>1, <1>8
  <1>11. IsSequence(t)
    BY <1>8, IsSequenceOf
  <1>12. FilledWith(t, s, e, n)
    BY <1>1, <1>8, <1>9, <1>10, <1>11 DEF FilledWith
  <1> QED BY <1>12 DEF t
-----------------------------------------------------------------------------
(* Traces.                                                                 *)

SameRegisters(a, c) ==
  a.counter = c.counter /\ a.sponge = c.sponge /\ a.ctx = c.ctx /\ a.loop = c.loop /\ a.user = c.user

(* t holds the rows of the first n steps, which lead to the registers now *)
RowsLinked(t) ==
  /\ IsSequence(t)
  /\ \A i \in 1..Len(t) : IsRow(t[i]) /\ HasOperation(t[i])
  /\ \A i \in 1..(Len(t) - 1) : Linked(t[i], t[i + 1], i - 1)

LeadsTo(r, now, n) ==
  \E flow, op : /\ flow # "void" /\ r.bits = OpBits(flow, op)
                /\ LinkedBy(flow, op, r, now, n)

Recording(t, now, n) ==
  /\ RowsLinked(t) /\ Len(t) = n
  /\ n > 0 => LeadsTo(t[n], now, n - 1)

RowsFit(t, contexts, loops, users) ==
  \A i \in 1..Len(t) : Fits(t[i], contexts, loops, users)

(* A row is linked to any row with the registers it leads to. *)
LEMMA LeadsToLinked ==
  ASSUME NEW r, NEW now, NEW n, LeadsTo(r, now, n), NEW b, SameRegisters(b, now)
  PROVE  Linked(r, b, n)
  <1>1. PICK flow, op : flow # "void" /\ r.bits = OpBits(flow, op) /\ LinkedBy(flow, op, r, now, n)
    BY DEF LeadsTo
  <1>2. LinkedBy(flow, op, r, b, n)
    BY <1>1, LinkedByRegisters DEF SameRegisters
  <1> QED BY <1>1, <1>2 DEF Linked

(* the row of an operation, and what it leads to *)
LEMMA RowRecorded ==
  ASSUME NEW t, NEW now, NEW n \in Nat, Recording(t, now, n), NEW after, NEW r, NEW flow, NEW op,
         IsRow(r), SameRegisters(r, now), r.bits = OpBits(flow, op), flow # "void",
         LinkedBy(flow, op, now, after, n)
  PROVE  Recording(Append(t, r), after, n + 1)
  <1> DEFINE u == Append(t, r)
  <1>1. /\ IsSequence(u) /\ Len(u) = n + 1 /\ Len(t) = n
        /\ \A i \in 1..n : u[i] = t[i]
        /\ u[n + 1] = r
    BY Appended DEF Recording, RowsLinked
  <1> HIDE DEF u
  <1>2. LinkedBy(flow, op, r, after, n)
    BY LinkedByRegisters DEF SameRegisters
  <1>3. HasOperation(r)
    BY <1>2 DEF HasOperation, LinkedBy
  <1>4. \A i \in 1..Len(u) : IsRow(u[i]) /\ HasOperation(u[i])
    <2> TAKE i \in 1..Len(u)
    <2>1. CASE i = n + 1
      BY <1>1, <1>3, <2>1
    <2>2. CASE i # n + 1
      <3>1. i \in 1..n
        BY <1>1, <2>2
      <3> QED BY <1>1, <3>1 DEF Recording, RowsLinked
    <2> QED BY <2>1, <2>2
  <1>5. \A i \in 1..(Len(u) - 1) : Linked(u[i], u[i + 1], i - 1)
    <2> SUFFICES ASSUME NEW i \in 1..n PROVE Linked(u[i], u[i + 1], i - 1)
      BY <1>1
    <2>1. CASE i = n
      <3>1. u[i] = t[n] /\ u[i + 1] = r /\ n > 0
        BY <1>1, <2>1
      <3>2. LeadsTo(t[n], now, n - 1)
        BY <3>1 DEF Recording
      <3> QED BY <2>1, <3>1, <3>2, LeadsToLinked
    <2>2. CASE i # n
      <3>1. i \in 1..(n - 1) /\ i + 1 \in 1..n
        BY <2>2
      <3>2. u[i] = t[i] /\ u[i + 1] = t[i + 1]
        BY <1>1, <3>1
      <3> QED BY <1>1, <3>1, <3>2 DEF Recording, RowsLinked
    <2> QED BY <2>1, <2>2
  <1>6. LeadsTo(u[n + 1], after, (n + 1) - 1)
    <2>1. (n + 1) - 1 = n
      OBVIOUS
    <2> QED BY <1>1, <1>2, <2>1 DEF LeadsTo
  <1>7. Recording(u, after, n + 1)
    BY <1>1, <1>4, <1>5, <1>6 DEF Recording, RowsLinked
  <1> QED BY <1>7 DEF u

(* rows of VOID up to the end of the trace *)
CompletedWith(t, size, r) == RowsLinked(t) /\ Len(t) = size /\ t[Len(t)] = r

(* a trace filled with its last row *)
LEMMA RowsFilled ==
  ASSUME NEW t, NEW now, NEW n \in Nat, Recording(t, now, n), NEW m \in Nat \ {0}, NEW r,
         NEW v, Repeats(v, r, m), NEW u, u = t \o v,
         IsRow(r), SameRegisters(r, now), r.bits = OpBits("void", "noop"),
         \A i \in Nat : LinkedBy("void", "noop", r, r, i)
  PROVE  CompletedWith(u, n + m, r)
  <1>1. /\ IsSequence(u) /\ Len(u) = n + m /\ Len(t) = n
        /\ \A i \in 1..n : u[i] = t[i]
        /\ \A i \in (n + 1)..(n + m) : u[i] = r
    <2>1. IsSequence(t) /\ Len(t) = n
      BY DEF Recording, RowsLinked
    <2>2. FilledWith(u, t, r, m)
      BY <2>1, Repeated
    <2> QED BY <2>1, <2>2 DEF FilledWith
  <1>2. HasOperation(r)
    <2>1. 0 \in Nat
      OBVIOUS
    <2> QED BY <2>1 DEF HasOperation, LinkedBy
  <1>3. \A i \in 1..Len(u) : IsRow(u[i]) /\ HasOperation(u[i])
    <2> TAKE i \in 1..Len(u)
    <2>1. CASE i > n
      <3>1. i \in (n + 1)..(n + m)
        BY <1>1, <2>1
      <3> QED BY <1>1, <1>2, <3>1
    <2>2. CASE ~ (i > n)
      <3>1. i \in 1..n
        BY <1>1, <2>2
      <3> QED BY <1>1, <3>1 DEF Recording, RowsLinked
    <2> QED BY <2>1, <2>2
  <1>4. \A i \in 1..(Len(u) - 1) : Linked(u[i], u[i + 1], i - 1)
    <2> TAKE i \in 1..(Len(u) - 1)
    <2>0. i \in 1..(n + m - 1) /\ (i > n \/ i = n \/ i < n)
      BY <1>1
    <2>1. CASE i > n
      <3>1. i \in (n + 1)..(n + m) /\ i + 1 \in (n + 1)..(n + m) /\ i - 1 \in Nat
        BY <2>0, <2>1
      <3>2. u[i] = r /\ u[i + 1] = r
        BY <1>1, <3>1
      <3> QED BY <3>1, <3>2 DEF Linked
    <2>2. CASE i = n
      <3>1. n \in 1..n /\ n > 0 /\ n + 1 \in (n + 1)..(n + m)
        BY <2>0, <2>2
      <3>2. u[i] = t[n] /\ u[i + 1] = r
        BY <1>1, <2>2, <3>1
      <3>3. LeadsTo(t[n], now, n - 1)
        BY <3>1 DEF Recording
      <3> QED BY <2>2, <3>2, <3>3, LeadsToLinked
    <2>3. CASE i < n
      <3>1. i \in 1..(n - 1) /\ i + 1 \in 1..n /\ i \in 1..n
        BY <2>0, <2>3
      <3>2. u[i] = t[i] /\ u[i + 1] = t[i + 1]
        BY <1>1, <3>1
      <3> QED BY <1>1, <3>1, <3>2 DEF Recording, RowsLinked
    <2> QED BY <2>0, <2>1, <2>2, <2>3
  <1>5. n + m \in (n + 1)..(n + m)
    OBVIOUS
  <1> QED BY <1>1, <1>3, <1>4, <1>5 DEF RowsLinked, CompletedWith
-----------------------------------------------------------------------------
(***************************************************************************)
(* What has been recorded.  The rows of the trace are linked and fit the   *)
(* table; while the program runs they lead to the registers of the current *)
(* step, and in the end to the row of VOID all rows behind it repeat.      *)
(* Before the first step the registers are those of the first row.         *)
(***************************************************************************)
VoidRow == RowNow([flow |-> "void", user |-> "noop"])

FirstRow(r, inputs) ==
  /\ r.counter = 0 /\ r.sponge = ZeroSponge /\ r.bits = OpBits("hacc", "begin")
  /\ r.ctx = <<ZeroDigest>> /\ r.loop = << >>
  /\ \A i \in 1..Len(inputs) : r.user[i - 1] = inputs[i]

AtStart ==
  /\ pc = "span" /\ calls = <<Frame(Group(root), "group")>> /\ k = 0
  /\ opCounter = 0 /\ sponge = ZeroSponge /\ ctxStack = <<ZeroDigest>> /\ loopStack = << >>
  /\ \A i \in 1..Len(public) : regs[i - 1] = public[i]

PublicFits ==
  /\ IsSequence(public) /\ Len(public) <= MaxStackDepth /\ Len(public) <= maxDepth
  /\ \A i \in 1..Len(public) : public[i] \in Elements

TraceRows ==
  /\ PublicFits
  /\ RowsFit(trace, MaxCtxStackDepth, MaxLoopStackDepth, maxDepth)
  /\ IF pc = "done"
     THEN RowsLinked(trace) /\ Len(trace) = traceLength /\ trace[Len(trace)] = VoidRow
     ELSE Recording(trace, Registers, step)
  /\ IF Len(trace) = 0 THEN AtStart ELSE FirstRow(trace[1], public)

(* A row fits any table that is no smaller. *)
LEMMA FitsMore ==
  ASSUME NEW r, NEW c \in Nat, NEW l \in Nat, NEW u \in Nat, Fits(r, c, l, u),
         NEW c2 \in Nat, NEW l2 \in Nat, NEW u2 \in Nat, c <= c2, l <= l2, u <= u2
  PROVE  Fits(r, c2, l2, u2)
  <1>1. \A i \in Slots : i \in Nat
    BY SlotsOfStack
  <1>2. \A i \in Slots : i >= u2 => r.user[i] = 0
    BY <1>1 DEF Fits
  <1>3. Within(r.ctx, c2) /\ Within(r.loop, l2)
    BY DEF Fits, Within
  <1> QED BY <1>2, <1>3 DEF Fits

(* the row of the current step *)
LEMMA CurrentRow ==
  ASSUME RowLayer, NEW op
  PROVE  /\ IsRow(RowNow(op)) /\ SameRegisters(RowNow(op), Registers)
         /\ RowNow(op).bits = OpBits(op.flow, op.user)
         /\ Fits(RowNow(op), MaxCtxStackDepth, MaxLoopStackDepth, maxDepth)
         /\ MaxCtxStackDepth \in Nat /\ MaxLoopStackDepth \in Nat /\ maxDepth \in Nat
  <1>1. /\ RowOK /\ regs \in Rows /\ opCounter \in Nat
        /\ Within(ctxStack, Len(ctxStack) - 1) /\ Within(loopStack, Len(loopStack))
        /\ Len(ctxStack) \in Nat \ {0} /\ Len(loopStack) \in Nat
    BY RowLayerParts
  <1>2. IsRow(RowNow(op))
    BY <1>1 DEF IsRow, RowNow
  <1>3. MaxCtxStackDepth \in Nat /\ MaxLoopStackDepth \in Nat /\ maxDepth \in Nat
    BY <1>1 DEF MaxCtxStackDepth, MaxLoopStackDepth, RowOK
  <1>4. \A i \in Slots : i >= maxDepth => regs[i] = 0
    <2>1. \A i \in Slots : i \in Nat
      BY SlotsOfStack
    <2>2. depth \in Nat /\ depth <= maxDepth
      BY <1>1, MaxIsNat DEF RowOK, RegistersSuffice
    <2> QED BY <1>1, <1>3, <2>1, <2>2 DEF RowOK, FreeRegistersAreZero
  <1>5. Fits(RowNow(op), MaxCtxStackDepth, MaxLoopStackDepth, maxDepth)
    BY <1>1, <1>4 DEF Fits, RowNow, MaxCtxStackDepth, MaxLoopStackDepth
  <1> QED BY <1>2, <1>3, <1>5 DEF RowNow, Registers, SameRegisters

(* The first operation is BEGIN: every program starts with it. *)
LEMMA FirstOperation ==
  ASSUME RowLayer, AtStart, Step, ~ Panic
  PROVE  opBits' = [flow |-> "hacc", user |-> "begin"]
  <1>1. SpanOp
    BY DEF AtStart, Step, PadSpan, StartGroup, StartSwitch, SkipLoop, EnterLoop, RepeatLoop,
           ExitLoop, CompleteCycle, CloseBlock, MergeRound, FinalizeTrace
  <1>2. opBits' = [flow |-> "hacc", user |-> Block.code[k + 1].op]
    BY <1>1 DEF SpanOp, DecodeOp, SetOpBits
  <1>3. Len(calls) = 1 /\ Top = Frame(Group(root), "group")
    BY DEF AtStart, Top
  <1>4. Block = root[1]
    BY <1>3 DEF Block, Body, Frame, Group
  <1>5. root \in RootLists
    BY RowLayerParts DEF Control
  <1>6. root[1].code[1].op = "begin"
    BY <1>5, BlocksAssumption DEF ValidRoot, Constructed
  <1>7. k + 1 = 1
    BY DEF AtStart
  <1> QED BY <1>2, <1>4, <1>6, <1>7

(* The rows recorded so far fit the table of the next state. *)
LEMMA FitNext ==
  ASSUME RowLayer, RowLayer', DecoderGrows, maxDepth <= maxDepth', NEW t,
         RowsFit(t, MaxCtxStackDepth, MaxLoopStackDepth, maxDepth)
  PROVE  /\ RowsFit(t, MaxCtxStackDepth', MaxLoopStackDepth', maxDepth')
         /\ \A op : Fits(RowNow(op), MaxCtxStackDepth', MaxLoopStackDepth', maxDepth')
  <1>1. /\ MaxCtxStackDepth \in Nat /\ MaxLoopStackDepth \in Nat /\ maxDepth \in Nat
        /\ \A op : Fits(RowNow(op), MaxCtxStackDepth, MaxLoopStackDepth, maxDepth)
    BY CurrentRow
  <1>2. Len(ctxStack') \in Nat \ {0} /\ Len(loopStack') \in Nat
    BY DecoderAssumption DEF RowLayer, DecoderLimits
  <1>3. maxDepth' \in Nat
    BY DEF RowLayer, HashLayer, ControlLayer, StackOK, StackTypeOK
  <1>4. /\ MaxCtxStackDepth' \in Nat /\ MaxLoopStackDepth' \in Nat
        /\ MaxCtxStackDepth <= MaxCtxStackDepth' /\ MaxLoopStackDepth <= MaxLoopStackDepth'
    BY <1>1, <1>2, RowLayerParts DEF MaxCtxStackDepth, MaxLoopStackDepth, DecoderGrows
  <1> QED BY <1>1, <1>3, <1>4, FitsMore DEF RowsFit

(* the public inputs stay within the registers *)
LEMMA PublicKept ==
  ASSUME PublicFits, RowLayer, RowLayer', UNCHANGED public, maxDepth <= maxDepth'
  PROVE  PublicFits'
  <1>1. Len(public) \in Nat /\ maxDepth \in Nat /\ maxDepth' \in Nat
    BY SequenceWithin DEF PublicFits, RowLayer, HashLayer, ControlLayer, StackOK, StackTypeOK
  <1> QED BY <1>1 DEF PublicFits

(* a step in which nothing is recorded *)
LEMMA NothingRecorded ==
  ASSUME TraceRows, UNCHANGED <<decoderVars, stackVars, root, calls, pc, k, public, trace>>
  PROVE  TraceRows'
  <1>1. /\ UNCHANGED <<step, opCounter, sponge, ctxStack, loopStack, traceLength>>
        /\ UNCHANGED <<regs, maxDepth, root, calls, pc, k, public, trace>>
    BY DEF decoderVars, stackVars
  <1>2. PublicFits'
    BY <1>1 DEF TraceRows, PublicFits
  <1>3. RowsFit(trace, MaxCtxStackDepth, MaxLoopStackDepth, maxDepth)'
    BY <1>1 DEF TraceRows, RowsFit, MaxCtxStackDepth, MaxLoopStackDepth
  <1>4. Registers' = Registers /\ VoidRow' = VoidRow
    BY <1>1 DEF Registers, VoidRow, RowNow
  <1>5. AtStart' <=> AtStart
    BY <1>1 DEF AtStart
  <1> QED BY <1>1, <1>2, <1>3, <1>4, <1>5 DEF TraceRows

(* a row of VOID that is repeated *)
LEMMA VoidLinks ==
  ASSUME NEW r, IsRow(r), NEW n \in Nat
  PROVE  LinkedBy("void", "noop", r, r, n)
  <1>1. Together("void", "noop")
    BY DEF Together, FlowCode, Operations
  <1>2. CounterLinks("void", "noop", r, r, n) /\ FlowLinks("void", "noop", r, r, n)
    BY DEF CounterLinks, FlowLinks, IsRow
  <1>3. Satisfied(TermsOf("noop", r.user, r.user, n))
    <2>1. TermsOf("noop", r.user, r.user, n) = Terms(CopyTerms(r.user, r.user, 0), NoAux)
      BY DEF TermsOf
    <2> QED BY <2>1 DEF Satisfied, Terms, CopyTerms, NoAux, Differ
  <1>4. \A i \in Slots : i + Added("noop") >= MaxStackDepth => r.user[i] = 0
    <2>1. Added("noop") = 0
      BY DEF Added
    <2> QED BY <2>1, SlotsOfStack, MaxIsNat
  <1> QED BY <1>1, <1>2, <1>3, <1>4 DEF LinkedBy

(* a step that records the row it starts from *)
LEMMA RowAppended ==
  ASSUME RowLayer, RowLayer', TraceRows, Step, ~ Panic, ~ FinalizeTrace, pc # "done",
         UNCHANGED public, trace' = Append(trace, RowNow(opBits'))
  PROVE  TraceRows'
  <1>1. Progress
    BY StepProgress DEF RowLayer, HashLayer
  <1>2. PICK flow, op : /\ flow # "void" /\ opBits' = [flow |-> flow, user |-> op]
                        /\ LinkedBy(flow, op, Registers, Registers', step)
    BY <1>1 DEF Progress, Recorded
  <1> DEFINE r == RowNow(opBits')
             after == Registers'
  <1>3. /\ IsRow(r) /\ SameRegisters(r, Registers) /\ r.bits = OpBits(opBits'.flow, opBits'.user)
        /\ step \in Nat /\ opBits'.flow = flow /\ opBits'.user = op
    BY <1>2, CurrentRow, RowLayerParts
  <1>4. Recording(trace, Registers, step)
    BY DEF TraceRows
  <1>5. trace' = Append(trace, r)
    OBVIOUS
  <1>6. /\ RowsFit(trace, MaxCtxStackDepth', MaxLoopStackDepth', maxDepth')
        /\ Fits(r, MaxCtxStackDepth', MaxLoopStackDepth', maxDepth')
    BY <1>1, FitNext DEF Progress, TraceRows
  <1>7. Len(trace) = 0 => FirstRow(r, public)
    <2> SUFFICES ASSUME Len(trace) = 0 PROVE FirstRow(r, public)
      OBVIOUS
    <2>1. AtStart
      BY DEF TraceRows
    <2>2. opBits' = [flow |-> "hacc", user |-> "begin"]
      BY <2>1, FirstOperation
    <2> QED BY <2>1, <2>2 DEF FirstRow, AtStart, RowNow
  <1>8. Len(trace) # 0 => FirstRow(trace[1], public)
    BY DEF TraceRows
  <1>9. PublicFits'
    BY <1>1, PublicKept DEF Progress, TraceRows
  <1>10. pc' # "done"
    BY <1>2 DEF RowLayer, HashLayer, ControlLayer, VoidOnlyAtEnd
  <1>11. step' = step + 1
    BY <1>1 DEF Progress
  <1> HIDE DEF r, after
  <1>12. LinkedBy(flow, op, Registers, after, step)
    BY <1>2 DEF after
  <1>13. Recording(trace', after, step + 1)
    BY <1>2, <1>3, <1>4, <1>5, <1>12, RowRecorded
  <1>14. /\ IsSequence(trace) /\ Len(trace') = Len(trace) + 1 /\ Len(trace) \in Nat
         /\ \A i \in 1..Len(trace) : trace'[i] = trace[i]
         /\ trace'[Len(trace) + 1] = r
    <2>1. IsSequence(trace)
      BY <1>4 DEF Recording, RowsLinked
    <2> QED BY <1>5, <2>1, Appended
  <1>15. RowsFit(trace', MaxCtxStackDepth', MaxLoopStackDepth', maxDepth')
    <2> SUFFICES ASSUME NEW i \in 1..Len(trace')
                 PROVE  Fits(trace'[i], MaxCtxStackDepth', MaxLoopStackDepth', maxDepth')
      BY DEF RowsFit
    <2>1. i \in 1..Len(trace) \/ i = Len(trace) + 1
      BY <1>14
    <2> QED BY <1>6, <1>14, <2>1 DEF RowsFit
  <1>16. Len(trace') # 0 /\ FirstRow(trace'[1], public)
    <2>1. CASE Len(trace) = 0
      BY <1>7, <1>14, <2>1
    <2>2. CASE Len(trace) # 0
      <3>1. 1 \in 1..Len(trace)
        BY <1>14, <2>2
      <3> QED BY <1>8, <1>14, <2>2, <3>1
    <2> QED BY <2>1, <2>2
  <1> QED BY <1>9, <1>10, <1>11, <1>13, <1>15, <1>16 DEF TraceRows, after

(* the step that fills the trace *)
LEMMA RowsCompleted ==
  ASSUME RowLayer, RowLayer', TraceRows, FinalizeTrace, UNCHANGED public,
         trace' = trace \o [i \in 1..(traceLength - step) |-> RowNow(opBits')]
  PROVE  TraceRows'
  <1> DEFINE r == VoidRow
             m == traceLength - step
             v == [i \in 1..m |-> r]
  <1>1. /\ Registers' = Registers
        /\ UNCHANGED <<ctxStack, loopStack, maxDepth, traceLength>>
        /\ opBits' = [flow |-> "void", user |-> "noop"] /\ pc = "finalize" /\ pc' = "done"
    BY FinalizeKeeps
  <1>2. RowNow(opBits') = r /\ VoidRow' = r
    <2>1. /\ opCounter' = opCounter /\ sponge' = sponge /\ regs' = regs
      BY <1>1 DEF FinalizeTrace, FinalizeDecoder, FinalizeStack
    <2> QED BY <1>1, <2>1 DEF VoidRow, RowNow
  <1>3. IsRow(r) /\ SameRegisters(r, Registers) /\ r.bits = OpBits("void", "noop")
    BY CurrentRow DEF VoidRow
  <1>4. step \in Nat /\ m \in Nat \ {0}
    BY RowLayerParts
  <1>5. Recording(trace, Registers, step)
    BY <1>1 DEF TraceRows
  <1>6. \A i \in Nat : LinkedBy("void", "noop", r, r, i)
    BY <1>3, VoidLinks
  <1>7. /\ RowsFit(trace, MaxCtxStackDepth, MaxLoopStackDepth, maxDepth)
        /\ Fits(r, MaxCtxStackDepth, MaxLoopStackDepth, maxDepth)
    BY CurrentRow DEF TraceRows, VoidRow
  <1>8. MaxCtxStackDepth' = MaxCtxStackDepth /\ MaxLoopStackDepth' = MaxLoopStackDepth
    BY <1>1 DEF MaxCtxStackDepth, MaxLoopStackDepth
  <1>9. PublicFits'
    BY <1>1, PublicKept, RowLayerParts, MaxIsNat DEF TraceRows, RowOK
  <1>10. Len(trace) # 0 /\ FirstRow(trace[1], public)
    BY <1>1 DEF TraceRows, AtStart
  <1>11. trace' = trace \o v /\ Repeats(v, r, m)
    BY <1>2 DEF Repeats
  <1>12. m = traceLength - step
    OBVIOUS
  <1> HIDE DEF r, m, v
  <1>13. RowsLinked(trace') /\ Len(trace') = step + m /\ trace'[Len(trace')] = r
    <2>1. CompletedWith(trace', step + m, r)
      BY ONLY <1>3, <1>4, <1>5, <1>6, <1>11, RowsFilled
    <2> QED BY ONLY <2>1 DEF CompletedWith
  <1>14. /\ Len(trace) \in Nat /\ Len(trace') = Len(trace) + m
         /\ \A i \in 1..Len(trace) : trace'[i] = trace[i]
         /\ \A i \in (Len(trace) + 1)..(Len(trace) + m) : trace'[i] = r
    <2>1. IsSequence(trace) /\ m \in Nat
      BY <1>4, <1>5 DEF Recording, RowsLinked
    <2>2. FilledWith(trace \o v, trace, r, m)
      BY <1>11, <2>1, Repeated
    <2> QED BY <1>11, <2>2 DEF FilledWith
  <1>15. Len(trace') = traceLength
    BY <1>4, <1>12, <1>13, RowLayerParts
  <1>16. RowsFit(trace', MaxCtxStackDepth, MaxLoopStackDepth, maxDepth)
    <2> SUFFICES ASSUME NEW i \in 1..Len(trace')
                 PROVE  Fits(trace'[i], MaxCtxStackDepth, MaxLoopStackDepth, maxDepth)
      BY DEF RowsFit
    <2>0. i \in 1..Len(trace')
      OBVIOUS
    <2>1. i \in 1..Len(trace) \/ i \in (Len(trace) + 1)..(Len(trace) + m)
      BY ONLY <1>4, <1>14, <2>0
    <2> QED BY <1>7, <1>14, <2>1 DEF RowsFit
  <1>17. Len(trace') # 0 /\ FirstRow(trace'[1], public)
    <2>1. 1 \in 1..Len(trace) /\ Len(trace') # 0
      BY ONLY <1>4, <1>10, <1>14
    <2> QED BY <1>10, <1>14, <2>1
  <1> QED BY <1>1, <1>2, <1>8, <1>9, <1>13, <1>15, <1>16, <1>17 DEF TraceRows

(* Whatever the processor does, what has been recorded stays linked. *)
LEMMA RecordRows ==
  ASSUME RowLayer, RowLayer', TraceRows, Record
  PROVE  TraceRows'
  <1>1. /\ pc # "done" /\ fault = "none" /\ Step /\ UNCHANGED public
        /\ trace' = CASE fault' # "none"  -> trace
                      [] pc = "finalize" -> trace \o [i \in 1..(traceLength - step) |-> RowNow(opBits')]
                      [] OTHER           -> Append(trace, RowNow(opBits'))
    BY DEF Record
  <1>2. CASE Panic
    <2>1. fault' # "none" /\ pc # "finalize"
      BY <1>2 DEF Panic, PendingFault
    <2>2. trace' = trace
      BY <1>1, <2>1
    <2> QED BY <1>1, <1>2, <2>2, NothingRecorded DEF Panic
  <1>3. CASE FinalizeTrace
    <2>1. fault' = "none" /\ pc = "finalize"
      BY <1>1, <1>3 DEF FinalizeTrace
    <2>2. trace' = trace \o [i \in 1..(traceLength - step) |-> RowNow(opBits')]
      BY <1>1, <2>1
    <2> QED BY <1>1, <1>3, <2>2, RowsCompleted
  <1>4. CASE ~ Panic /\ ~ FinalizeTrace
    <2>1. fault' = "none" /\ pc # "finalize"
      BY <1>1, <1>4 DEF Step, SpanOp, PadSpan, StartGroup, StartSwitch, SkipLoop, EnterLoop,
         RepeatLoop, ExitLoop, CompleteCycle, CloseBlock, MergeRound
    <2>2. trace' = Append(trace, RowNow(opBits'))
      BY <1>1, <2>1
    <2> QED BY <1>1, <1>4, <2>2, RowAppended
  <1> QED BY <1>2, <1>3, <1>4

(* the empty trace *)
LEMMA InitTrace ==
  ASSUME EvaluatorInit
  PROVE  TraceRows
  <1>1. /\ calls = <<Frame(Group(root), "group")>> /\ pc = "span" /\ k = 0
        /\ opCounter = 0 /\ ctxStack = <<ZeroDigest>> /\ loopStack = << >>
        /\ sponge = ZeroSponge /\ step = 0
        /\ public = [i \in 1..depth |-> regs[i - 1]] /\ trace = << >>
    BY DEF EvaluatorInit, ProcessorInit, DecoderInit
  <1>2. RowLayer
    BY InitRows DEF EvaluatorInit
  <1>3. depth \in Nat /\ depth <= MaxStackDepth /\ depth <= maxDepth /\ maxDepth \in Nat /\ regs \in Rows
    BY <1>2, RowLayerParts, MaxIsNat DEF RowOK, RegistersSuffice
  <1>4. \A i \in 1..depth : regs[i - 1] \in Elements
    <2>1. \A i \in 1..depth : i - 1 \in Slots
      BY <1>3, SlotsOfStack, MaxIsNat
    <2> QED BY <1>3, <2>1 DEF Rows
  <1>5. public \in Seq(Elements) /\ Len(public) = depth
    <2>1. public \in [1..depth -> Elements]
      BY <1>1, <1>4
    <2> QED BY <1>3, <2>1, FunctionIsSequence
  <1>6. \A i \in 1..Len(public) : public[i] = regs[i - 1] /\ public[i] \in Elements
    BY <1>1, <1>4, <1>5
  <1>7. PublicFits
    BY <1>3, <1>5, <1>6, IsSequenceOf DEF PublicFits
  <1>8. AtStart
    BY <1>1, <1>6 DEF AtStart
  <1>9. IsSequence(trace) /\ Len(trace) = 0
    <2>1. trace \in Seq(Elements)
      BY <1>1
    <2> QED BY <1>1, <2>1, IsSequenceOf
  <1>10. Recording(trace, Registers, step) /\ RowsFit(trace, MaxCtxStackDepth, MaxLoopStackDepth, maxDepth)
    BY <1>1, <1>9 DEF Recording, RowsLinked, RowsFit
  <1> QED BY <1>1, <1>7, <1>8, <1>9, <1>10 DEF TraceRows
-----------------------------------------------------------------------------
(***************************************************************************)
(* The table and its evaluation.                                           *)
(***************************************************************************)
LEMMA TableRowIs ==
  ASSUME NEW r, IsRow(r), MaxCtxStackDepth \in Nat, MaxLoopStackDepth \in Nat, maxDepth \in Nat,
         Fits(r, MaxCtxStackDepth, MaxLoopStackDepth, maxDepth)
  PROVE  TableRow(r) = TableOf(r, MaxCtxStackDepth, MaxLoopStackDepth, maxDepth)
  <1> DEFINE list == [i \in 1..MaxStackDepth |-> r.user[i - 1]]
             ctx == StackRegisters(r.ctx, MaxCtxStackDepth, MinContextDepth, ZeroDigest)
             loop == StackRegisters(r.loop, MaxLoopStackDepth, MinLoopDepth, ZeroDigest)
             user == StackRegisters(list, maxDepth, MinStackDepth, 0)
             size == Greater(maxDepth, MinStackDepth)
  <1>1. /\ Len(r.ctx) \in Nat /\ Len(r.loop) \in Nat /\ Within(r.ctx, MaxCtxStackDepth)
        /\ Within(r.loop, MaxLoopStackDepth) /\ \A i \in Slots : i >= maxDepth => r.user[i] = 0
    BY DEF IsRow, Fits
  <1>2. ctx = Column(r.ctx, ContextRegisters(MaxCtxStackDepth))
    BY <1>1, RegistersAreColumn, EvaluatorAssumption DEF ContextRegisters
  <1>3. loop = Column(r.loop, LoopRegisters(MaxLoopStackDepth))
    BY <1>1, RegistersAreColumn, EvaluatorAssumption DEF LoopRegisters
  <1>4. size \in Nat
    BY StackAssumption DEF Greater
  <1>5. Len(list) = MaxStackDepth
    <2>1. list \in [1..MaxStackDepth -> {r.user[i - 1] : i \in 1..MaxStackDepth}]
      OBVIOUS
    <2> HIDE DEF list
    <2> QED BY <2>1, MaxIsNat, FunctionIsSequence
  <1>6. \A i \in 0..(size - 1) : (IF i < maxDepth /\ i < Len(list) THEN list[i + 1] ELSE 0)
                                  = (IF i \in Slots THEN r.user[i] ELSE 0)
    <2> TAKE i \in 0..(size - 1)
    <2>1. i \in Nat
      BY <1>4
    <2>2. CASE i < MaxStackDepth
      <3>1. i + 1 \in 1..MaxStackDepth /\ (i + 1) - 1 = i /\ i \in Slots
        BY <2>1, <2>2, MaxIsNat, SlotsOfStack
      <3>2. list[i + 1] = r.user[i]
        BY <3>1
      <3> HIDE DEF list
      <3> QED BY <1>1, <1>5, <2>1, <2>2, <3>1, <3>2
    <2>3. CASE ~ (i < MaxStackDepth)
      <3>1. i \notin Slots
        BY <2>3, SlotsOfStack
      <3> HIDE DEF list
      <3> QED BY <1>5, <2>3, <3>1
    <2> QED BY <2>2, <2>3
  <1>7. user = Resized(r.user, UserRegisters(maxDepth))
    <2> HIDE DEF list
    <2> QED BY <1>6 DEF StackRegisters, Resized, UserRegisters
  <1>8. TableRow(r) = [r EXCEPT !.ctx = ctx, !.loop = loop, !.user = user]
    BY DEF TableRow
  <1>9. r = [counter |-> r.counter, sponge |-> r.sponge, bits |-> r.bits,
             ctx |-> r.ctx, loop |-> r.loop, user |-> r.user]
    BY DEF IsRow
  <1> HIDE DEF list, ctx, loop, user, size
  <1>10. [r EXCEPT !.ctx = ctx, !.loop = loop, !.user = user]
         = [counter |-> r.counter, sponge |-> r.sponge, bits |-> r.bits,
            ctx |-> ctx, loop |-> loop, user |-> user]
    <2> DEFINE of(x, y, z) == [counter |-> r.counter, sponge |-> r.sponge, bits |-> r.bits,
                               ctx |-> x, loop |-> y, user |-> z]
           withCtx(s, w) == [s EXCEPT !.ctx = w]
           withLoop(s, w) == [s EXCEPT !.loop = w]
           withUser(s, w) == [s EXCEPT !.user = w]
    <2>1. \A x, y, z, w : withCtx(of(x, y, z), w) = of(w, y, z)
      OBVIOUS
    <2>2. \A x, y, z, w : withLoop(of(x, y, z), w) = of(x, w, z)
      OBVIOUS
    <2>3. \A x, y, z, w : withUser(of(x, y, z), w) = of(x, y, w)
      OBVIOUS
    <2>4. r = of(r.ctx, r.loop, r.user)
      BY <1>9
    <2> HIDE DEF of, withCtx, withLoop, withUser
    <2>5. withUser(withLoop(withCtx(r, ctx), loop), user) = of(ctx, loop, user)
      BY <2>1, <2>2, <2>3, <2>4
    <2> QED BY <2>5 DEF of, withCtx, withLoop, withUser
  <1> QED BY <1>2, <1>3, <1>7, <1>8, <1>10 DEF TableOf

(* the rows of the table *)
LEMMA TableRows ==
  ASSUME RowLayer, TraceRows, pc = "done", NEW n \in 1..Len(trace)
  PROVE  /\ Row(n) = TableOf(trace[n], MaxCtxStackDepth, MaxLoopStackDepth, maxDepth)
         /\ IsRow(trace[n]) /\ HasOperation(trace[n])
         /\ Fits(trace[n], MaxCtxStackDepth, MaxLoopStackDepth, maxDepth)
         /\ MaxCtxStackDepth \in Nat /\ MaxLoopStackDepth \in Nat /\ maxDepth \in Nat
  <1>1. /\ IsRow(trace[n]) /\ HasOperation(trace[n])
        /\ Fits(trace[n], MaxCtxStackDepth, MaxLoopStackDepth, maxDepth)
    BY DEF TraceRows, RowsLinked, RowsFit
  <1>2. MaxCtxStackDepth \in Nat /\ MaxLoopStackDepth \in Nat /\ maxDepth \in Nat
    BY CurrentRow
  <1> QED BY <1>1, <1>2, TableRowIs DEF Row

(* Every pair of rows satisfies the transition constraints. *)
LEMMA PairAccepted ==
  ASSUME RowLayer, TraceRows, pc = "done", NEW n \in Nat, n + 1 < Len(trace),
         NEW cur, NEW nxt, cur.row = Row(n + 1), nxt.row = Row(n + 2),
         cur.flags = FlagsOf(cur.row.bits), nxt.flags = FlagsOf(nxt.row.bits)
  PROVE  TransitionSatisfied(cur, nxt, n)
  <1> DEFINE a == trace[n + 1]
             b == trace[n + 2]
             c == MaxCtxStackDepth
             l == MaxLoopStackDepth
  <1>0. Len(trace) \in Nat
    BY SequenceWithin DEF TraceRows, RowsLinked
  <1>1. /\ n + 1 \in 1..Len(trace) /\ n + 2 \in 1..Len(trace) /\ n + 1 \in 1..(Len(trace) - 1)
        /\ (n + 1) + 1 = n + 2 /\ (n + 1) - 1 = n
    BY <1>0
  <1>2. /\ Row(n + 1) = TableOf(a, c, l, maxDepth) /\ IsRow(a) /\ Fits(a, c, l, maxDepth)
        /\ Row(n + 2) = TableOf(b, c, l, maxDepth) /\ IsRow(b) /\ Fits(b, c, l, maxDepth)
        /\ HasOperation(b) /\ c \in Nat /\ l \in Nat /\ maxDepth \in Nat
    BY <1>1, TableRows
  <1>3. Linked(a, b, n)
    <2>1. Linked(trace[n + 1], trace[(n + 1) + 1], (n + 1) - 1)
      BY <1>1 DEF TraceRows, RowsLinked
    <2> QED BY <1>1, <2>1
  <1> HIDE DEF a, b, c, l
  <1>4. Accepts(TableOf(a, c, l, maxDepth), TableOf(b, c, l, maxDepth), n, maxDepth)
    BY <1>2, <1>3, LinkedRowsAccepted
  <1>5. Accepts(cur.row, nxt.row, n, maxDepth)
    BY <1>2, <1>4
  <1> QED BY <1>5 DEF Accepts, TransitionSatisfied

(* What the stages of the prover rely on, and what a trace is rejected for. *)
IsState(s) == s = [row |-> s.row, flags |-> s.flags, flagsSet |-> s.flagsSet]

Stages ==
  /\ stage \in {"execute", "evaluate", "proved", "rejected"}
  /\ stage # "execute" => pc = "done"
  /\ stage = "evaluate" => at < Len(trace)
  /\ stage # "rejected" => rejection = "none"
  /\ stage = "rejected" => rejection = "no user register" /\ public = << >> /\ maxDepth = 0
  /\ at \in Nat /\ (stage = "execute" => at = 0)
  /\ IsState(current) /\ IsState(next)

(* The assertions of TraceTable::new hold but for the user registers. *)
LEMMA TableBuilt ==
  ASSUME RowLayer, TraceRows
  PROVE  TableFault = IF maxDepth = 0 THEN "no user register" ELSE "none"
  <1>1. /\ Len(ctxStack) \in 1..MaxContextDepth /\ Len(loopStack) \in 0..MaxLoopDepth
        /\ IsPowerOfTwo(traceLength) /\ stackLength = traceLength
        /\ maxDepth <= MaxStackDepth + 3 /\ RowOK
    BY RowLayerParts DEF DecoderLimits
  <1>2. MaxContextDepth \in Nat /\ MaxLoopDepth \in Nat /\ MaxStackDepth \in Nat /\ MaxRegisterCount \in Nat
    BY DecoderAssumption, MaxIsNat, EvaluatorAssumption
  <1>3. maxDepth \in Nat
    BY <1>1 DEF RowOK
  <1>4. MaxCtxStackDepth \in Nat /\ MaxCtxStackDepth <= MaxContextDepth
    BY <1>1, <1>2 DEF MaxCtxStackDepth
  <1>5. MaxLoopStackDepth \in Nat /\ MaxLoopStackDepth <= MaxLoopDepth
    BY <1>1, <1>2 DEF MaxLoopStackDepth
  <1>6. 15 + MaxContextDepth + MaxLoopDepth + MaxStackDepth + 3 < MaxRegisterCount
    BY EvaluatorAssumption
  <1>7. RegisterCount < MaxRegisterCount
    BY <1>1, <1>2, <1>3, <1>4, <1>5, <1>6 DEF RegisterCount
  <1>8. /\ ~ (MaxCtxStackDepth > MaxContextDepth) /\ ~ (MaxLoopStackDepth > MaxLoopDepth)
        /\ ~ (RegisterCount >= MaxRegisterCount) /\ ~ (stackLength # traceLength)
    <2>1. RegisterCount \in Nat
      BY <1>3, <1>4, <1>5 DEF RegisterCount
    <2> QED BY <1>1, <1>2, <1>4, <1>5, <1>7, <2>1
  <1> QED BY ONLY <1>1, <1>8 DEF TableFault

(* The assertions of execute hold. *)
LEMMA TraceReturned ==
  ASSUME RowLayer, TraceRows, pc = "done"
  PROVE  ExecuteFault = "none"
  <1>1. trace[Len(trace)] = VoidRow /\ Len(trace) = traceLength
    BY DEF TraceRows
  <1>2. Len(trace) \in 1..Len(trace)
    BY <1>1, RowLayerParts
  <1>3. LastRow = TableOf(VoidRow, MaxCtxStackDepth, MaxLoopStackDepth, maxDepth)
    BY <1>1, <1>2, TableRows DEF LastRow
  <1>4. LastRow.counter = opCounter /\ LastRow.sponge = sponge
    BY <1>3 DEF TableOf, VoidRow, RowNow
  <1>5. Digest(sponge) = ProgramHash(root)
    BY FinalSponge DEF RowLayer, ProgramHash
  <1>6. opCounter \in Nat /\ opCounter >= 2 * CycleLength - 2
    BY RowLayerParts DEF RowLayer, Counted
  <1>7. ~ (opCounter < MinTraceLength)
    <2>1. CycleLength \in Nat /\ MinTraceLength \in Nat /\ MinTraceLength <= 2 * CycleLength - 2
      BY CycleAssumption, DecoderAssumption, EvaluatorAssumption
    <2> QED BY <1>6, <2>1
  <1> QED BY <1>4, <1>5, <1>7 DEF ExecuteFault

(* The table is built, unless there is no user register. *)
LEMMA BuildTableStages ==
  ASSUME RowLayer, TraceRows, Stages, BuildTable
  PROVE  Stages'
  <1>1. /\ stage = "execute" /\ pc = "done" /\ UNCHANGED <<pc, maxDepth, public, trace, at, current, next>>
        /\ rejection' = IF TableFault # "none" THEN TableFault ELSE ExecuteFault
        /\ stage' = IF rejection' = "none" THEN "evaluate" ELSE "rejected"
    BY DEF BuildTable, vars, stackVars
  <1>2. rejection' = IF maxDepth = 0 THEN "no user register" ELSE "none"
    BY <1>1, TableBuilt, TraceReturned
  <1>3. maxDepth = 0 => public = << >>
    <2> SUFFICES ASSUME maxDepth = 0 PROVE public = << >>
      OBVIOUS
    <2>1. IsSequence(public) /\ Len(public) <= 0
      BY DEF TraceRows, PublicFits
    <2>2. Len(public) = 0 /\ public \in Seq({public[i] : i \in DOMAIN public})
      BY <2>1, SequenceWithin
    <2> QED BY <2>2, EmptySeq
  <1>4. at = 0 /\ Len(trace) \in Nat \ {0} /\ IsState(current) /\ IsState(next)
    BY <1>1, RowLayerParts DEF Stages, TraceRows
  <1>5. /\ at' = 0 /\ Len(trace') \in Nat \ {0} /\ IsState(current') /\ IsState(next')
        /\ pc' = "done" /\ maxDepth' = maxDepth /\ public' = public
    BY <1>1, <1>4
  <1>6. stage' = IF maxDepth = 0 THEN "rejected" ELSE "evaluate"
    BY <1>1, <1>2
  <1>7. CASE maxDepth = 0
    BY ONLY <1>2, <1>3, <1>5, <1>6, <1>7 DEF Stages
  <1>8. CASE maxDepth # 0
    BY ONLY <1>2, <1>5, <1>6, <1>8 DEF Stages
  <1> QED BY <1>7, <1>8

(* a TraceState that is used for one more row *)
LEMMA Overwritten ==
  ASSUME NEW s, IsState(s), NEW row, NEW t, t = WithFlags(Update(s, row))
  PROVE  t.row = row /\ t.flags = FlagsOf(row.bits) /\ IsState(t)
  <1> DEFINE u == [row |-> row, flags |-> s.flags, flagsSet |-> FALSE]
  <1>1. Update(s, row) = u
    <2> DEFINE of(r, set) == [row |-> r, flags |-> s.flags, flagsSet |-> set]
               withRow(x, r) == [x EXCEPT !.row = r]
               withSet(x, set) == [x EXCEPT !.flagsSet = set]
    <2>1. /\ \A r, set, v : withRow(of(r, set), v) = of(v, set)
          /\ \A r, set, v : withSet(of(r, set), v) = of(r, v)
      OBVIOUS
    <2>2. s = of(s.row, s.flagsSet)
      BY DEF IsState
    <2> HIDE DEF of, withRow, withSet
    <2>3. PICK r, set : s = of(r, set)
      BY <2>2
    <2>4. withRow(s, row) = of(row, set)
      BY <2>1, <2>3
    <2>5. withSet(of(row, set), FALSE) = of(row, FALSE)
      BY <2>1
    <2>6. withSet(withRow(s, row), FALSE) = of(row, FALSE)
      BY <2>4, <2>5
    <2> QED BY <2>6 DEF Update, of, withRow, withSet
  <1>2. WithFlags(u) = [row |-> row, flags |-> FlagsOf(row.bits), flagsSet |-> TRUE]
    BY DEF WithFlags
  <1> QED BY <1>1, <1>2 DEF IsState

(* No row is rejected. *)
LEMMA EvaluateRowStages ==
  ASSUME RowLayer, TraceRows, Stages, EvaluateRow
  PROVE  Stages'
  <1>1. /\ stage = "evaluate" /\ pc = "done" /\ at \in Nat /\ at < Len(trace)
        /\ at' = at + 1 /\ UNCHANGED <<pc, maxDepth, public, trace>>
        /\ current' = WithFlags(Update(current, Row(at + 1)))
        /\ next' = WithFlags(Update(next, Row(((at + 1) % Len(trace)) + 1)))
        /\ rejection' = IF at + 1 = Len(trace) \/ TransitionSatisfied(current', next', at)
                        THEN "none" ELSE "transition"
        /\ stage' = CASE rejection' # "none" -> "rejected"
                      [] at + 1 = Len(trace) -> "proved"
                      [] OTHER               -> "evaluate"
    BY DEF EvaluateRow, Stages, vars, stackVars
  <1>2. /\ current'.row = Row(at + 1) /\ current'.flags = FlagsOf(current'.row.bits) /\ IsState(current')
        /\ next'.row = Row(((at + 1) % Len(trace)) + 1) /\ next'.flags = FlagsOf(next'.row.bits)
        /\ IsState(next')
    <2>1. IsState(current) /\ IsState(next)
      BY DEF Stages
    <2> DEFINE first == Row(at + 1)
               second == Row(((at + 1) % Len(trace)) + 1)
    <2>2. current' = WithFlags(Update(current, first)) /\ next' = WithFlags(Update(next, second))
      BY <1>1
    <2> HIDE DEF first, second
    <2>3. current'.row = first /\ current'.flags = FlagsOf(first.bits) /\ IsState(current')
      BY ONLY <2>1, <2>2, Overwritten
    <2>4. next'.row = second /\ next'.flags = FlagsOf(second.bits) /\ IsState(next')
      BY ONLY <2>1, <2>2, Overwritten
    <2> QED BY ONLY <2>3, <2>4 DEF first, second
  <1>3. Len(trace) \in Nat \ {0}
    BY <1>1, RowLayerParts DEF TraceRows
  <1>4. at + 1 # Len(trace) => TransitionSatisfied(current', next', at)
    <2> SUFFICES ASSUME at + 1 # Len(trace) PROVE TransitionSatisfied(current', next', at)
      OBVIOUS
    <2>1. at + 1 < Len(trace)
      BY <1>1, <1>3
    <2>2. ((at + 1) % Len(trace)) + 1 = at + 2
      BY <1>1, <1>3, <2>1
    <2>3. next'.row = Row(at + 2)
      BY <1>2, <2>2
    <2> QED BY <1>1, <1>2, <2>1, <2>3, PairAccepted
  <1>5. rejection' = "none"
    BY <1>1, <1>4
  <1>6. stage' = IF at + 1 = Len(trace) THEN "proved" ELSE "evaluate"
    BY <1>1, <1>5
  <1>7. stage' = "evaluate" => at + 1 < Len(trace)
    BY <1>1, <1>3, <1>6
  <1> QED BY <1>1, <1>2, <1>5, <1>6, <1>7 DEF Stages
-----------------------------------------------------------------------------
(***************************************************************************)
(* The boundary constraints.                                               *)
(***************************************************************************)
LEMMA ZerosJoined ==
  ASSUME NEW a \in Seq({0}), NEW b \in Seq({0}), NEW c \in Seq({0}), NEW d \in Seq({0}),
         NEW e \in Seq({0}), NEW f \in Seq({0}), NEW g \in Seq({0}), NEW h \in Seq({0})
  PROVE  IsZero(a \o b \o c \o d \o e \o f \o g \o h)
  <1>1. a \o b \in Seq({0})
    BY ZerosJoin
  <1>2. a \o b \o c \in Seq({0})
    BY <1>1, ZerosJoin
  <1>3. a \o b \o c \o d \in Seq({0})
    BY <1>2, ZerosJoin
  <1>4. a \o b \o c \o d \o e \in Seq({0})
    BY <1>3, ZerosJoin
  <1>5. a \o b \o c \o d \o e \o f \in Seq({0})
    BY <1>4, ZerosJoin
  <1>6. a \o b \o c \o d \o e \o f \o g \in Seq({0})
    BY <1>5, ZerosJoin
  <1>7. a \o b \o c \o d \o e \o f \o g \o h \in Seq({0})
    BY <1>6, ZerosJoin
  <1> QED BY <1>7, ZerosJoin

(* a list of zeros *)
LEMMA ZeroList ==
  ASSUME NEW n \in Nat, NEW F(_), \A i \in 1..n : F(i) = 0
  PROVE  [i \in 1..n |-> F(i)] \in Seq({0})
  <1>1. [i \in 1..n |-> F(i)] \in [1..n -> {0}]
    OBVIOUS
  <1> QED BY <1>1, FunctionIsSequence

(* the bits of BEGIN and those of VOID *)
LEMMA FirstBits ==
  ASSUME NEW bits, bits = OpBits("hacc", "begin")
  PROVE  bits.cf = <<0, 0, 0>> /\ bits.ld = <<0, 0, 0, 0, 0>> /\ bits.hd = <<0, 0>>
  <1>1. "hacc" \in DOMAIN FlowCode /\ "begin" \in Operations /\ FlowCode["hacc"] = 0
    BY DEF FlowCode, Operations
  <1>2. Low("begin") = 0 /\ High("begin") = 0
    BY HdIndexes, LdIndexes DEF Low, High
  <1>3. bits = [cf |-> <<Bit(0, 0), Bit(0, 1), Bit(0, 2)>>,
                ld |-> <<Bit(0, 0), Bit(0, 1), Bit(0, 2), Bit(0, 3), Bit(0, 4)>>,
                hd |-> <<Bit(0, 0), Bit(0, 1)>>]
    BY <1>1, <1>2, OpBitsParts
  <1>4. Bit(0, 0) = 0 /\ Bit(0, 1) = 0 /\ Bit(0, 2) = 0 /\ Bit(0, 3) = 0 /\ Bit(0, 4) = 0
    BY Powers DEF Bit
  <1> QED BY <1>3, <1>4

(* the bits of VOID *)
LEMMA VoidBits ==
  ASSUME NEW bits, bits = OpBits("void", "noop")
  PROVE  bits.cf = <<1, 1, 1>> /\ bits.ld = <<1, 1, 1, 1, 1>> /\ bits.hd = <<1, 1>>
  <1>1. "void" \in DOMAIN FlowCode /\ "noop" \in Operations /\ FlowCode["void"] = 7
    BY DEF FlowCode, Operations
  <1>2. Low("noop") = 31 /\ High("noop") = 3
    BY HdIndexes, LdIndexes DEF Low, High
  <1>3. bits = [cf |-> <<Bit(7, 0), Bit(7, 1), Bit(7, 2)>>,
                ld |-> <<Bit(31, 0), Bit(31, 1), Bit(31, 2), Bit(31, 3), Bit(31, 4)>>,
                hd |-> <<Bit(3, 0), Bit(3, 1)>>]
    BY <1>1, <1>2, OpBitsParts
  <1>4. /\ Bit(7, 0) = 1 /\ Bit(7, 1) = 1 /\ Bit(7, 2) = 1 /\ Bit(3, 0) = 1 /\ Bit(3, 1) = 1
        /\ Bit(31, 0) = 1 /\ Bit(31, 1) = 1 /\ Bit(31, 2) = 1 /\ Bit(31, 3) = 1 /\ Bit(31, 4) = 1
    BY Powers DEF Bit
  <1> QED BY <1>3, <1>4

(* columns of zeros *)
LEMMA ZeroColumn ==
  ASSUME NEW s, NEW n \in Nat, \A i \in Nat : Entry(s, i) = ZeroDigest,
         NEW col, col = Column(s, n)
  PROVE  [i \in 1..n |-> Differ(col[i - 1], ZeroDigest)] \in Seq({0})
  <1>1. \A i \in 1..n : Differ(col[i - 1], ZeroDigest) = 0
    BY DEF Column, Differ
  <1> QED BY <1>1, ZeroList

(* The boundary constraints of the first row are 0. *)
LEMMA InitialBoundary ==
  ASSUME RowLayer, TraceRows, pc = "done"
  PROVE  IsZero(InitialTerms(Row(1)))
  <1> DEFINE r == trace[1]
             row == Row(1)
             cs == Greater(MaxCtxStackDepth, MinContextDepth)
             ls == Greater(MaxLoopStackDepth, MinLoopDepth)
  <1>1. 1 \in 1..Len(trace) /\ FirstRow(r, public)
    <2>1. Len(trace) \in Nat \ {0}
      BY RowLayerParts DEF TraceRows
    <2> QED BY <2>1 DEF TraceRows
  <1>2. /\ row = TableOf(r, MaxCtxStackDepth, MaxLoopStackDepth, maxDepth) /\ IsRow(r)
        /\ MaxCtxStackDepth \in Nat /\ MaxLoopStackDepth \in Nat /\ maxDepth \in Nat
    BY <1>1, TableRows
  <1>3. cs \in Nat /\ ls \in Nat
    BY <1>2, EvaluatorAssumption DEF Greater
  <1>4. <<row.counter>> \in Seq({0})
    <2>1. row.counter = 0
      BY <1>1, <1>2 DEF TableOf, FirstRow
    <2> QED BY <2>1
  <1>5. [i \in 1..4 |-> Differ(Lane(row.sponge, i - 1), ZeroDigest)] \in Seq({0})
    <2>1. row.sponge = ZeroSponge
      BY <1>1, <1>2 DEF TableOf, FirstRow
    <2>2. /\ Lane(row.sponge, 0) = ZeroDigest /\ Lane(row.sponge, 1) = ZeroDigest
          /\ Lane(row.sponge, 2) = ZeroDigest /\ Lane(row.sponge, 3) = ZeroDigest
      BY <2>1, LanesOfLoad DEF ZeroSponge
    <2>3. \A i \in 1..4 : Differ(Lane(row.sponge, i - 1), ZeroDigest) = 0
      <3> HIDE DEF row
      <3> TAKE i \in 1..4
      <3>1. i - 1 = 0 \/ i - 1 = 1 \/ i - 1 = 2 \/ i - 1 = 3
        OBVIOUS
      <3> QED BY <2>2, <3>1 DEF Differ
    <2> QED BY <2>3, ZeroList
  <1>6. row.bits.cf \in Seq({0}) /\ row.bits.ld \in Seq({0}) /\ row.bits.hd \in Seq({0})
    <2>1. row.bits = OpBits("hacc", "begin")
      BY <1>1, <1>2 DEF TableOf, FirstRow
    <2>2. row.bits.cf = <<0, 0, 0>> /\ row.bits.ld = <<0, 0, 0, 0, 0>> /\ row.bits.hd = <<0, 0>>
      BY <2>1, FirstBits
    <2>3. <<0, 0, 0>> \in Seq({0}) /\ <<0, 0, 0, 0, 0>> \in Seq({0}) /\ <<0, 0>> \in Seq({0})
      OBVIOUS
    <2> HIDE DEF row
    <2> QED BY <2>2, <2>3
  <1>7. [i \in 1..cs |-> Differ(row.ctx[i - 1], ZeroDigest)] \in Seq({0})
    <2>1. row.ctx = Column(<<ZeroDigest>>, cs)
      BY <1>1, <1>2 DEF TableOf, FirstRow, ContextRegisters
    <2>2. \A i \in Nat : Entry(<<ZeroDigest>>, i) = ZeroDigest
      BY DEF Entry
    <2> HIDE DEF row, cs
    <2> QED BY <1>3, <2>1, <2>2, ZeroColumn
  <1>8. [i \in 1..ls |-> Differ(row.loop[i - 1], ZeroDigest)] \in Seq({0})
    <2>1. row.loop = Column(<< >>, ls)
      BY <1>1, <1>2 DEF TableOf, FirstRow, LoopRegisters
    <2>2. \A i \in Nat : Entry(<< >>, i) = ZeroDigest
      BY DEF Entry
    <2> HIDE DEF row, ls
    <2> QED BY <1>3, <2>1, <2>2, ZeroColumn
  <1>9. [i \in 1..Len(public) |-> Sub(row.user[i - 1], public[i])] \in Seq({0})
    <2>1. /\ Len(public) \in Nat /\ Len(public) <= MaxStackDepth /\ Len(public) <= maxDepth
          /\ \A i \in 1..Len(public) : public[i] \in Elements
      BY SequenceWithin DEF TraceRows, PublicFits
    <2>2. row.user = Resized(r.user, UserRegisters(maxDepth))
      BY <1>2 DEF TableOf
    <2>3. UserRegisters(maxDepth) \in Nat /\ maxDepth <= UserRegisters(maxDepth)
      BY <1>2, StackAssumption DEF UserRegisters, Greater
    <2>4. \A i \in 1..Len(public) : Sub(row.user[i - 1], public[i]) = 0
      <3> TAKE i \in 1..Len(public)
      <3>1. i - 1 \in 0..(UserRegisters(maxDepth) - 1) /\ i - 1 \in Slots
        BY <1>2, <2>1, <2>3, SlotsOfStack, MaxIsNat
      <3>2. row.user[i - 1] = r.user[i - 1]
        BY <2>2, <3>1 DEF Resized
      <3>3. r.user[i - 1] = public[i] /\ public[i] \in Elements
        BY <1>1, <2>1 DEF FirstRow
      <3> QED BY <3>2, <3>3, SubZero
    <2> QED BY <2>1, <2>4, ZeroList
  <1> DEFINE counter == <<row.counter>>
             lanes == [i \in 1..4 |-> Differ(Lane(row.sponge, i - 1), ZeroDigest)]
             ctx == [i \in 1..cs |-> Differ(row.ctx[i - 1], ZeroDigest)]
             loop == [i \in 1..ls |-> Differ(row.loop[i - 1], ZeroDigest)]
             user == [i \in 1..Len(public) |-> Sub(row.user[i - 1], public[i])]
             cf == row.bits.cf
             ld == row.bits.ld
             hd == row.bits.hd
  <1>10. InitialTerms(row) = counter \o lanes \o cf \o ld \o hd \o ctx \o loop \o user
    BY DEF InitialTerms
  <1>11. /\ counter \in Seq({0}) /\ lanes \in Seq({0}) /\ ctx \in Seq({0}) /\ loop \in Seq({0})
         /\ cf \in Seq({0}) /\ ld \in Seq({0}) /\ hd \in Seq({0}) /\ user \in Seq({0})
    BY <1>4, <1>5, <1>6, <1>7, <1>8, <1>9
  <1> HIDE DEF counter, lanes, ctx, loop, user, cf, ld, hd, row
  <1>12. IsZero(counter \o lanes \o cf \o ld \o hd \o ctx \o loop \o user)
    BY ONLY <1>11, ZerosJoined
  <1>13. IsZero(InitialTerms(row))
    BY <1>10, <1>12
  <1> QED BY <1>13 DEF row

(* The registers the outputs are read from are those on top of the stack. *)
LEMMA OutputsOfRow ==
  ASSUME RowLayer, TraceRows, pc = "done"
  PROVE  /\ \A i \in 1..NumOutputs : LastRow.user[i - 1] \in Elements
         /\ \A i \in 1..NumOutputs : Outputs[i] = IF i <= depth THEN regs[i - 1] ELSE 0
  <1>1. trace[Len(trace)] = VoidRow /\ Len(trace) \in 1..Len(trace)
    <2>1. Len(trace) = traceLength /\ trace[Len(trace)] = VoidRow
      BY DEF TraceRows
    <2> QED BY <2>1, RowLayerParts
  <1>2. /\ LastRow = TableOf(VoidRow, MaxCtxStackDepth, MaxLoopStackDepth, maxDepth)
        /\ maxDepth \in Nat
    BY <1>1, TableRows DEF LastRow
  <1>3. LastRow.user = Resized(regs, UserRegisters(maxDepth))
    BY <1>2 DEF TableOf, VoidRow, RowNow
  <1>4. /\ UserRegisters(maxDepth) \in Nat /\ MinStackDepth <= UserRegisters(maxDepth)
        /\ NumOutputs \in 0..MinStackDepth /\ MinStackDepth \in Nat /\ MinStackDepth <= MaxStackDepth
    BY <1>2, StackAssumption, EvaluatorAssumption DEF UserRegisters, Greater
  <1>5. \A i \in 1..NumOutputs : i - 1 \in Slots /\ i - 1 \in 0..(UserRegisters(maxDepth) - 1) /\ i \in Nat
    BY <1>4, SlotsOfStack, MaxIsNat
  <1>6. \A i \in 1..NumOutputs : LastRow.user[i - 1] = regs[i - 1]
    BY <1>3, <1>5 DEF Resized
  <1>7. regs \in Rows /\ FreeRegistersAreZero /\ depth \in Nat
    BY RowLayerParts, MaxIsNat DEF RowOK
  <1>8. \A i \in 1..NumOutputs : LastRow.user[i - 1] \in Elements
    BY <1>5, <1>6, <1>7 DEF Rows
  <1>9. \A i \in 1..NumOutputs : Outputs[i] = regs[i - 1]
    BY <1>6 DEF Outputs
  <1>10. \A i \in 1..NumOutputs : ~ (i <= depth) => regs[i - 1] = 0
    <2> SUFFICES ASSUME NEW i \in 1..NumOutputs, ~ (i <= depth) PROVE regs[i - 1] = 0
      OBVIOUS
    <2>1. i - 1 \in Slots /\ i - 1 >= depth
      BY <1>5, <1>7
    <2> QED BY <1>7, <2>1 DEF FreeRegistersAreZero
  <1> QED BY <1>8, <1>9, <1>10

(* ones(bits) of FinalTerms *)
LEMMA OnesOfVoid ==
  ASSUME NEW n \in Nat, NEW b, Len(b) = n, \A i \in 1..n : b[i] = 1
  PROVE  [i \in 1..Len(b) |-> 1 - b[i]] \in Seq({0})
  <1>1. \A i \in 1..n : 1 - b[i] = 0
    OBVIOUS
  <1> QED BY <1>1, ZeroList

(* The boundary constraints of the last row are 0. *)
LEMMA FinalBoundary ==
  ASSUME RowLayer, TraceRows, pc = "done"
  PROVE  IsZero(FinalTerms(LastRow, HashAcc(ZeroDigest, HashSeq(root), ZeroDigest), opCounter, Outputs))
  <1> DEFINE row == LastRow
             hash == HashAcc(ZeroDigest, HashSeq(root), ZeroDigest)
             cs == Greater(MaxCtxStackDepth, MinContextDepth)
             ls == Greater(MaxLoopStackDepth, MinLoopDepth)
             ones(bits) == [i \in 1..Len(bits) |-> 1 - bits[i]]
  <1>1. trace[Len(trace)] = VoidRow /\ Len(trace) \in 1..Len(trace)
    <2>1. Len(trace) = traceLength /\ trace[Len(trace)] = VoidRow
      BY DEF TraceRows
    <2> QED BY <2>1, RowLayerParts
  <1>2. /\ row = TableOf(VoidRow, MaxCtxStackDepth, MaxLoopStackDepth, maxDepth)
        /\ MaxCtxStackDepth \in Nat /\ MaxLoopStackDepth \in Nat /\ maxDepth \in Nat
    BY <1>1, TableRows DEF LastRow
  <1>3. cs \in Nat /\ ls \in Nat
    BY <1>2, EvaluatorAssumption DEF Greater
  <1>4. calls = << >> /\ Len(calls) = 0
    BY RowLayerParts DEF AtPlace
  <1>5. row.counter = opCounter /\ row.sponge = sponge /\ row.bits = OpBits("void", "noop")
    BY <1>2 DEF TableOf, VoidRow, RowNow
  <1>6. <<row.counter - opCounter>> \in Seq({0})
    <2>1. row.counter - opCounter = 0
      BY <1>5, RowLayerParts
    <2> QED BY <2>1
  <1>7. [i \in 1..2 |-> Differ(Lane(row.sponge, i - 1), Lane(hash, i - 1))] \in Seq({0})
    <2>1. row.sponge = hash
      BY <1>5, FinalSponge DEF RowLayer
    <2>2. \A i \in 1..2 : Differ(Lane(row.sponge, i - 1), Lane(hash, i - 1)) = 0
      BY <2>1 DEF Differ
    <2> QED BY <2>2, ZeroList
  <1>8. ones(row.bits.cf) \in Seq({0}) /\ ones(row.bits.ld) \in Seq({0}) /\ ones(row.bits.hd) \in Seq({0})
    <2>1. row.bits.cf = <<1, 1, 1>> /\ row.bits.ld = <<1, 1, 1, 1, 1>> /\ row.bits.hd = <<1, 1>>
      BY <1>5, VoidBits
    <2>2. \A b : b = <<1, 1, 1>> => Len(b) = 3 /\ \A i \in 1..3 : b[i] = 1
      OBVIOUS
    <2>3. \A b : b = <<1, 1, 1, 1, 1>> => Len(b) = 5 /\ \A i \in 1..5 : b[i] = 1
      OBVIOUS
    <2>4. \A b : b = <<1, 1>> => Len(b) = 2 /\ \A i \in 1..2 : b[i] = 1
      OBVIOUS
    <2> HIDE DEF row
    <2>5. ones(row.bits.cf) \in Seq({0})
      BY <2>1, <2>2, OnesOfVoid
    <2>6. ones(row.bits.ld) \in Seq({0})
      BY <2>1, <2>3, OnesOfVoid
    <2>7. ones(row.bits.hd) \in Seq({0})
      BY <2>1, <2>4, OnesOfVoid
    <2> QED BY <2>5, <2>6, <2>7
  <1>9. [i \in 1..cs |-> Differ(row.ctx[i - 1], ZeroDigest)] \in Seq({0})
    <2>1. row.ctx = Column(ctxStack, cs)
      BY <1>2 DEF TableOf, VoidRow, RowNow, ContextRegisters
    <2>2. \A i \in Nat : Entry(ctxStack, i) = ZeroDigest
      <3>1. ctxDepth = 0
        BY <1>4 DEF RowLayer, HashLayer, ContextIsSuspendedHashes
      <3>2. Within(ctxStack, ctxDepth)
        BY RowLayerParts DEF DecoderReady
      <3> QED BY <3>1, <3>2 DEF Within
    <2> HIDE DEF row, cs
    <2> QED BY <1>3, <2>1, <2>2, ZeroColumn
  <1>10. [i \in 1..ls |-> Differ(row.loop[i - 1], ZeroDigest)] \in Seq({0})
    <2>1. row.loop = Column(loopStack, ls)
      BY <1>2 DEF TableOf, VoidRow, RowNow, LoopRegisters
    <2>2. \A i \in Nat : Entry(loopStack, i) = ZeroDigest
      <3>1. loopDepth = 0
        <4>1. LoopFrames(Len(calls)) = {}
          BY <1>4 DEF LoopFrames
        <4>2. loopDepth = Cardinality({})
          BY <4>1 DEF RowLayer, LoopLayer, LoopStackIsActiveImages
        <4> QED BY <4>2, FS_EmptySet
      <3>2. Within(loopStack, loopDepth)
        BY RowLayerParts DEF DecoderLimits
      <3> QED BY <3>1, <3>2 DEF Within
    <2> HIDE DEF row, ls
    <2> QED BY <1>3, <2>1, <2>2, ZeroColumn
  <1>11. [i \in 1..NumOutputs |-> Sub(row.user[i - 1], Outputs[i])] \in Seq({0})
    <2>1. NumOutputs \in Nat
      BY EvaluatorAssumption, StackAssumption
    <2>2. \A i \in 1..NumOutputs : Outputs[i] = row.user[i - 1]
      BY DEF Outputs
    <2>3. \A i \in 1..NumOutputs : row.user[i - 1] \in Elements
      BY OutputsOfRow
    <2>4. \A i \in 1..NumOutputs : Sub(row.user[i - 1], Outputs[i]) = 0
      BY <2>2, <2>3, SubZero
    <2> QED BY <2>1, <2>4, ZeroList
  <1> DEFINE counter == <<row.counter - opCounter>>
             lanes == [i \in 1..2 |-> Differ(Lane(row.sponge, i - 1), Lane(hash, i - 1))]
             ctx == [i \in 1..cs |-> Differ(row.ctx[i - 1], ZeroDigest)]
             loop == [i \in 1..ls |-> Differ(row.loop[i - 1], ZeroDigest)]
             user == [i \in 1..NumOutputs |-> Sub(row.user[i - 1], Outputs[i])]
             cf == ones(row.bits.cf)
             ld == ones(row.bits.ld)
             hd == ones(row.bits.hd)
  <1>12. FinalTerms(row, hash, opCounter, Outputs)
         = counter \o lanes \o cf \o ld \o hd \o ctx \o loop \o user
    BY DEF FinalTerms
  <1>13. /\ counter \in Seq({0}) /\ lanes \in Seq({0}) /\ ctx \in Seq({0}) /\ loop \in Seq({0})
         /\ cf \in Seq({0}) /\ ld \in Seq({0}) /\ hd \in Seq({0}) /\ user \in Seq({0})
    BY <1>6, <1>7, <1>8, <1>9, <1>10, <1>11
  <1> HIDE DEF counter, lanes, ctx, loop, user, cf, ld, hd, row, hash
  <1>14. IsZero(counter \o lanes \o cf \o ld \o hd \o ctx \o loop \o user)
    BY ONLY <1>13, ZerosJoined
  <1>15. IsZero(FinalTerms(row, hash, opCounter, Outputs))
    BY <1>12, <1>14
  <1> QED BY <1>15 DEF row, hash
-----------------------------------------------------------------------------
(***************************************************************************)
(* The invariant of the prover, and what it promises.                      *)
(***************************************************************************)
ProverLayer == RowLayer /\ TraceRows /\ Stages

(* a step in which the prover waits for the processor, or does nothing *)
LEMMA StagesKept ==
  ASSUME Stages, stage' = stage, UNCHANGED <<rejection, at, current, next>>,
         stage # "execute" => UNCHANGED <<pc, trace, public, maxDepth>>
  PROVE  Stages'
  <1>1. CASE stage = "execute"
    BY <1>1 DEF Stages
  <1>2. CASE stage # "execute"
    BY <1>2 DEF Stages
  <1> QED BY <1>1, <1>2

(* what the prover does when the processor stands still *)
LEMMA ProcessorStill ==
  ASSUME ProverLayer, HashLayer', LoopLayer', UNCHANGED <<vars, public, trace>>
  PROVE  RowLayer' /\ TraceRows'
  <1>1. UNCHANGED <<decoderVars, stackVars, root, calls, pc, k, public, trace>>
    BY DEF vars
  <1>2. RowLayer'
    BY <1>1, UnchangedRows DEF ProverLayer
  <1>3. TraceRows'
    BY <1>1, NothingRecorded DEF ProverLayer
  <1> QED BY <1>2, <1>3

(* Every step keeps the invariant of the prover. *)
LEMMA NextProver ==
  ASSUME ProverLayer, HashLayer', LoopLayer', [EvaluatorNext]_<<vars, proverVars>>
  PROVE  ProverLayer'
  <1>0. RowLayer /\ TraceRows /\ Stages
    BY DEF ProverLayer
  <1>1. CASE Record
    <2>1. RowLayer'
      BY <1>0, <1>1, NextRows DEF Record
    <2>2. TraceRows'
      BY <1>0, <1>1, <2>1, RecordRows
    <2>3. Stages'
      BY <1>0, <1>1, StagesKept DEF Record
    <2> QED BY <2>1, <2>2, <2>3 DEF ProverLayer
  <1>2. CASE BuildTable
    <2>1. RowLayer' /\ TraceRows'
      BY <1>2, ProcessorStill DEF BuildTable
    <2> QED BY <1>0, <1>2, <2>1, BuildTableStages DEF ProverLayer
  <1>3. CASE EvaluateRow
    <2>1. RowLayer' /\ TraceRows'
      BY <1>3, ProcessorStill DEF EvaluateRow
    <2> QED BY <1>0, <1>3, <2>1, EvaluateRowStages DEF ProverLayer
  <1>4. CASE UNCHANGED <<vars, proverVars>>
    <2>1. UNCHANGED <<vars, public, trace, stage, rejection, at, current, next, pc, maxDepth>>
      BY <1>4 DEF vars, proverVars, stackVars
    <2>2. RowLayer' /\ TraceRows'
      BY <2>1, ProcessorStill
    <2>3. Stages'
      BY <1>0, <2>1, StagesKept
    <2> QED BY <2>2, <2>3 DEF ProverLayer
  <1> QED BY <1>1, <1>2, <1>3, <1>4 DEF EvaluatorNext

(* the first state *)
LEMMA InitProver ==
  ASSUME EvaluatorInit
  PROVE  ProverLayer
  <1>1. RowLayer /\ TraceRows
    BY InitRows, InitTrace DEF EvaluatorInit
  <1>2. Stages
    BY DEF EvaluatorInit, Stages, IsState, NewState
  <1> QED BY <1>1, <1>2 DEF ProverLayer

(* every behaviour of the prover is one of the processor *)
LEMMA AlwaysProver == EvaluatorSpec => []ProverLayer
  <1>1. EvaluatorInit => ProcessorInit
    BY DEF EvaluatorInit
  <1>2. [EvaluatorNext]_<<vars, proverVars>> => [Next]_vars
    BY DEF EvaluatorNext, Record, BuildTable, EvaluateRow, Next
  <1>3. EvaluatorSpec => Spec
    BY <1>1, <1>2, PTL DEF EvaluatorSpec, Spec
  <1>4. EvaluatorSpec => []HashLayer /\ []LoopLayer
    BY <1>3, AlwaysHash, AlwaysLoops, PTL
  <1>5. EvaluatorInit => ProverLayer
    BY InitProver
  <1>6. ProverLayer /\ HashLayer' /\ LoopLayer' /\ [EvaluatorNext]_<<vars, proverVars>> => ProverLayer'
    BY NextProver
  <1> QED BY <1>4, <1>5, <1>6, PTL DEF EvaluatorSpec

(* No assertion of execute, of TraceTable::new or of the prover rejects    *)
(* what the processor returns, whatever the program and its inputs: every  *)
(* transition constraint is 0 on every row but the last.  A trace that     *)
(* never had a value on its stack is the one exception.                    *)
THEOREM TracesAreAccepted == EvaluatorSpec => []EveryTraceAccepted
  <1>1. ProverLayer => EveryTraceAccepted
    BY DEF ProverLayer, Stages, EveryTraceAccepted
  <1> QED BY <1>1, AlwaysProver, PTL

(* The first row and the last satisfy the boundary constraints of the      *)
(* public inputs, the hash of the program and the outputs; and the outputs *)
(* are what is left on the stack.                                          *)
THEOREM BoundariesAreMet == EvaluatorSpec => []BoundariesHold
  <1>1. ProverLayer => BoundariesHold
    <2> SUFFICES ASSUME ProverLayer, stage = "proved"
                 PROVE  /\ IsZero(InitialTerms(Row(1)))
                        /\ IsZero(FinalTerms(LastRow, HashAcc(ZeroDigest, HashSeq(root), ZeroDigest),
                                             opCounter, Outputs))
                        /\ \A i \in 1..NumOutputs : Outputs[i] = IF i <= depth THEN regs[i - 1] ELSE 0
      BY DEF BoundariesHold
    <2>1. RowLayer /\ TraceRows /\ pc = "done"
      BY DEF ProverLayer, Stages
    <2> QED BY <2>1, InitialBoundary, FinalBoundary, OutputsOfRow
  <1> QED BY <1>1, AlwaysProver, PTL
=============================================================================
