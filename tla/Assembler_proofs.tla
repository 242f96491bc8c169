-------------------------- MODULE Assembler_proofs --------------------------
(***************************************************************************)
(* Proofs about Assembler, for all texts of any length and nesting: no     *)
(* constructor's assertion fails, and the tree of blocks of a text that is *)
(* accepted has what the interpreter and the decoder take for granted of   *)
(* their programs.                                                         *)
(*                                                                         *)
(* The invariant is about what is built so far: a set of finished lists of *)
(* blocks whose nested lists are in it again (Forest), and for each frame  *)
(* a list over it and the instructions behind that list (SoundFrames).     *)
(***************************************************************************)
EXTENDS Assembler, UserOps, SequenceTheorems, WellFoundedInduction, TLAPS

(* Induction over the naturals, for a set. *)
LEMMA Inductive ==
  ASSUME NEW S, 0 \in S, \A n \in Nat : n \in S => n + 1 \in S
  PROVE  \A n \in Nat : n \in S
  <1> DEFINE R == {p \in Nat \X Nat : p[1] < p[2]}
             C == {n \in Nat : n \notin S}
  <1> SUFFICES ASSUME C # {} PROVE FALSE
    OBVIOUS
  <1>1. IsWellFoundedOn(R, Nat)
    BY NatLessThanWellFounded DEF OpToRel
  <1>2. C \subseteq Nat
    OBVIOUS
  <1> HIDE DEF R, C
  <1>3. PICK n \in C : \A m \in C : ~ (<<m, n>> \in R)
    BY <1>1, <1>2, WFMin
  <1>4. n \in Nat /\ n \notin S /\ n # 0 /\ n - 1 \in Nat
    BY DEF C
  <1>5. n - 1 \notin C
    <2>1. <<n - 1, n>> \in R
      BY <1>4 DEF R
    <2> QED BY <1>3, <2>1
  <1>6. (n - 1) + 1 \in S
    BY <1>4, <1>5 DEF C
  <1> QED BY <1>4, <1>6

(* The comparisons push powers of two; the modulus of the code is greater  *)
(* than 2^127, which no instance for TLC can have.                         *)
PowersFit == \A n \in MinBits..MaxBits : 2^(n - 1) \in Elements

Hints == [kind : {"none", "value", "eq", "rc", "cmp", "pmpath"}, arg : Int]
Instrs == [op : Operations, hint : Hints]

(* what holds of the j-th instruction of a span; only the first span of a  *)
(* branch whose head is "begin" may start with BEGIN                       *)
SoundInstr(instr, j, head) ==
  /\ instr.op = "begin" => head = "begin" /\ j = 1
  /\ instr.op = "push" => (j - 1) % PushAlignment = 0 /\ instr.hint.kind = "value"
  /\ instr.hint.kind = "value" => instr.op = "push"
  /\ PowersFit => WellFormed(instr.hint)

SoundCode(code, head) ==
  /\ code \in Seq(Instrs)
  /\ \A j \in 1..Len(code) : SoundInstr(code[j], j, head)

(* a parser's program with operations behind it *)
Extended(code, program, head) ==
  /\ SoundCode(code, head)
  /\ Len(code) > Len(program)
  /\ \A j \in 1..Len(program) : code[j] = program[j]

Reasons ==
  {"extra param", "invalid param", "missing param", "invalid op", "invalid block head",
   "invalid num iterations"}

Extends(parsed, program, head) ==
  \/ parsed.error \in Reasons
  \/ parsed.error = "none" /\ Extended(parsed.program, program, head)

Plain == Operations \ {"begin", "push"}
PlainCode == Seq(Plain) \ {<< >>}
-----------------------------------------------------------------------------
(* Appending operations. *)

LEMMA NoHintIs ==
  /\ NoHint \in Hints
  /\ NoHint.kind = "none" /\ NoHint.kind # "value"
  /\ WellFormed(NoHint)
<1>1. NoHint.kind = "none" /\ NoHint.arg = 0 /\ NoHint = [kind |-> "none", arg |-> 0]
  BY DEF NoHint
<1>2. [kind |-> "none", arg |-> 0] \in Hints
  BY DEF Hints
<1>3. "none" \notin {"pmpath", "cmp", "rc"} /\ "none" # "value"
  OBVIOUS
<1> QED BY <1>1, <1>2, <1>3 DEF WellFormed

LEMMA PlainInstrIsSound ==
  ASSUME NEW op \in Plain, NEW j, NEW head
  PROVE  Instr(op) \in Instrs /\ SoundInstr(Instr(op), j, head)
<1>1. Instr(op).op = op /\ Instr(op).hint = NoHint /\ op \in Operations
  BY DEF Instr, Plain
<1>2. Instr(op) \in Instrs
  BY <1>1, NoHintIs DEF Instr, Instrs
<1> QED BY <1>1, <1>2, NoHintIs DEF SoundInstr, Plain

(* Operations other than PUSH may stand anywhere, with any hint that is no *)
(* value.                                                                  *)
LEMMA HintedSound ==
  ASSUME NEW program, NEW head, SoundCode(program, head), NEW ops \in PlainCode,
         NEW hint \in Hints, hint.kind # "value", WellFormed(hint)
  PROVE  Extended(EmitHinted(program, hint, ops), program, head)
<1> DEFINE more == [i \in 1..Len(ops) |->
                      IF i = 1 THEN [op |-> ops[1], hint |-> hint] ELSE Instr(ops[i])]
<1>1. Len(ops) \in Nat /\ Len(ops) > 0 /\ \A i \in 1..Len(ops) : ops[i] \in Plain
  BY DEF PlainCode
<1>2. ASSUME NEW i \in 1..Len(ops), NEW j
      PROVE  more[i] \in Instrs /\ SoundInstr(more[i], j, head)
  <2>1. CASE i = 1
    BY <1>1, <2>1 DEF Instrs, SoundInstr, Plain
  <2>2. CASE i # 1
    BY <1>1, <2>2, PlainInstrIsSound
  <2> QED BY <2>1, <2>2
<1>3. more \in Seq(Instrs) /\ Len(more) = Len(ops)
  <2>1. more \in [1..Len(ops) -> Instrs]
    BY <1>2
  <2> QED BY <1>1, <2>1
<1> DEFINE code == program \o more
<1> HIDE DEF more
<1>4. /\ program \in Seq(Instrs) /\ code \in Seq(Instrs)
      /\ Len(code) = Len(program) + Len(ops) /\ Len(program) \in Nat
      /\ \A j \in 1..Len(program) : code[j] = program[j]
      /\ \A j \in (Len(program) + 1)..Len(code) :
           j - Len(program) \in 1..Len(ops) /\ code[j] = more[j - Len(program)]
  BY <1>1, <1>3 DEF SoundCode
<1>5. ASSUME NEW j \in 1..Len(code) PROVE SoundInstr(code[j], j, head)
  <2>1. CASE j \in 1..Len(program)
    BY <1>4, <2>1 DEF SoundCode
  <2>2. CASE j \in (Len(program) + 1)..Len(code)
    BY <1>2, <1>4, <2>2
  <2> QED BY <1>4, <2>1, <2>2
<1>6. code = EmitHinted(program, hint, ops)
  BY DEF EmitHinted, more
<1> QED BY <1>1, <1>4, <1>5, <1>6 DEF Extended, SoundCode

LEMMA EmitSound ==
  ASSUME NEW program, NEW head, SoundCode(program, head), NEW ops \in PlainCode
  PROVE  Extended(Emit(program, ops), program, head)
<1>1. NoHint \in Hints /\ NoHint.kind # "value" /\ WellFormed(NoHint)
  BY NoHintIs
<1>2. Emit(program, ops) = EmitHinted(program, NoHint, ops)
  BY DEF Emit, EmitHinted, Instr
<1> QED BY <1>1, <1>2, HintedSound

(* Padding of any length, none included. *)
LEMMA EmitAll ==
  ASSUME NEW program, NEW head, SoundCode(program, head), NEW ops \in Seq(Plain)
  PROVE  /\ SoundCode(Emit(program, ops), head)
         /\ Len(Emit(program, ops)) = Len(program) + Len(ops)
         /\ \A j \in 1..Len(program) : Emit(program, ops)[j] = program[j]
<1>1. program \in Seq(Instrs) /\ Len(program) \in Nat
  BY DEF SoundCode
<1> DEFINE more == [i \in 1..Len(ops) |-> Instr(ops[i])]
<1>2. more \in Seq(Instrs) /\ Len(more) = Len(ops)
  <2>1. \A i \in 1..Len(ops) : more[i] \in Instrs
    BY PlainInstrIsSound
  <2>2. more \in [1..Len(ops) -> Instrs]
    BY <2>1
  <2> QED BY <2>2
<1>3. Emit(program, ops) = program \o more
  BY DEF Emit
<1> HIDE DEF more
<1>4. /\ Len(program \o more) = Len(program) + Len(ops)
      /\ \A j \in 1..Len(program) : (program \o more)[j] = program[j]
  BY <1>1, <1>2
<1>5. CASE ops = << >>
  <2>1. program \o more = program
    BY <1>1, <1>2, <1>5
  <2> QED BY <1>3, <1>4, <2>1
<1>6. CASE ops # << >>
  BY <1>3, <1>4, <1>6, EmitSound DEF PlainCode, Extended
<1> QED BY <1>5, <1>6

LEMMA TimesIs ==
  ASSUME NEW n \in Nat, NEW ops \in PlainCode
  PROVE  /\ Times(n, ops) \in Seq(Plain) /\ Len(Times(n, ops)) = n * Len(ops)
         /\ n > 0 => Times(n, ops) \in PlainCode
<1>1. Len(ops) \in Nat /\ Len(ops) > 0 /\ ops \in Seq(Plain)
  BY DEF PlainCode
<1>2. n * Len(ops) \in Nat /\ (n > 0 => n * Len(ops) > 0)
  <2>1. \A x, y \in Nat : x * y \in Nat /\ (x > 0 /\ y > 0 => x * y > 0)
    OBVIOUS
  <2> QED BY <1>1, <2>1
<1> DEFINE total == n * Len(ops)
<1>3. total \in Nat /\ (n > 0 => total > 0)
  BY <1>2
<1>4. Times(n, ops) = [i \in 1..total |-> ops[((i - 1) % Len(ops)) + 1]]
  BY DEF Times
<1> HIDE DEF total
<1>5. \A i \in 1..total : (i - 1) % Len(ops) \in 0..(Len(ops) - 1)
  BY <1>1, <1>3
<1>6. \A i \in 1..total : ops[((i - 1) % Len(ops)) + 1] \in Plain
  BY <1>1, <1>5
<1>7. Times(n, ops) \in [1..total -> Plain]
  BY <1>4, <1>6
<1>8. Times(n, ops) \in Seq(Plain) /\ Len(Times(n, ops)) = total
  BY <1>3, <1>7
<1>9. n > 0 => Times(n, ops) # << >>
  BY <1>3, <1>8
<1> QED BY <1>8, <1>9 DEF PlainCode, total

LEMMA ExtendedTwice ==
  ASSUME NEW a, NEW b, NEW c, NEW head, SoundCode(a, head),
         Extended(b, a, head), Extended(c, b, head)
  PROVE  Extended(c, a, head)
BY DEF Extended, SoundCode

LEMMA NoopsArePlain ==
  ASSUME NEW n \in Nat
  PROVE  Times(n, <<"noop">>) \in Seq(Plain) /\ Len(Times(n, <<"noop">>)) = n
<1>1. <<"noop">> \in PlainCode /\ Len(<<"noop">>) = 1
  <2>1. "noop" \in Plain
    BY DEF Plain, Operations
  <2> QED BY <2>1 DEF PlainCode
<1>2. Times(n, <<"noop">>) \in Seq(Plain) /\ Len(Times(n, <<"noop">>)) = n * Len(<<"noop">>)
  BY <1>1, TimesIs
<1>3. n * Len(<<"noop">>) = n
  BY <1>1
<1> QED BY <1>2, <1>3

(* PadTo fills up to the next multiple of the alignment. *)
LEMMA PadsToMultiple ==
  ASSUME NEW m \in Nat \ {0}, NEW x \in Nat
  PROVE  /\ (m - (x % m)) % m \in Nat
         /\ (x + ((m - (x % m)) % m)) % m = 0
<1>1. x % m \in 0..(m - 1)
  OBVIOUS
<1>2. PICK q \in Int : x = m * q + (x % m)
  <2>1. x = m * (x \div m) + (x % m) /\ x \div m \in Int
    OBVIOUS
  <2> QED BY <2>1
<1>3. CASE x % m = 0
  <2>1. (m - (x % m)) % m = 0
    <3>1. m - (x % m) = m /\ m % m = 0
      BY <1>3
    <3> QED BY <3>1
  <2> DEFINE n == (m - (x % m)) % m
  <2>2. n = 0
    BY <2>1
  <2> HIDE DEF n
  <2>3. n \in Nat /\ (x + n) % m = 0
    BY <1>3, <2>2
  <2> QED BY <2>3 DEF n
<1>4. CASE x % m # 0
  <2> DEFINE r == x % m
  <2>1. r \in 1..(m - 1)
    BY <1>1, <1>4
  <2>2. (m - r) % m = m - r
    BY <2>1
  <2>3. x + (m - r) = m * (q + 1)
    BY <1>2
  <2>4. (m * (q + 1)) % m = 0
    OBVIOUS
  <2> QED BY <2>1, <2>2, <2>3, <2>4
<1> QED BY <1>3, <1>4

LEMMA PadToSound ==
  ASSUME NEW program, NEW head, SoundCode(program, head), NEW alignment \in Nat \ {0}
  PROVE  /\ SoundCode(PadTo(program, alignment), head)
         /\ Len(PadTo(program, alignment)) \in Nat
         /\ Len(PadTo(program, alignment)) >= Len(program)
         /\ Len(PadTo(program, alignment)) % alignment = 0
         /\ \A j \in 1..Len(program) : PadTo(program, alignment)[j] = program[j]
<1> DEFINE n == (alignment - (Len(program) % alignment)) % alignment
<1>1. Len(program) \in Nat
  BY DEF SoundCode
<1>2. n \in Nat /\ (Len(program) + n) % alignment = 0
  BY <1>1, PadsToMultiple
<1>3. PadTo(program, alignment) = Emit(program, Times(n, <<"noop">>))
  BY DEF PadTo
<1> HIDE DEF n
<1>4. Times(n, <<"noop">>) \in Seq(Plain) /\ Len(Times(n, <<"noop">>)) = n
  BY <1>2, NoopsArePlain
<1>5. /\ SoundCode(PadTo(program, alignment), head)
      /\ Len(PadTo(program, alignment)) = Len(program) + n
      /\ \A j \in 1..Len(program) : PadTo(program, alignment)[j] = program[j]
  BY <1>3, <1>4, EmitAll
<1> QED BY <1>1, <1>2, <1>5

(* The values that are pushed: elements, if powers of two are. *)
LEMMA PushSound ==
  ASSUME NEW program, NEW head, SoundCode(program, head),
         NEW v \in Int, PowersFit => v \in Elements
  PROVE  Extended(AppendPush(program, v), program, head)
<1> DEFINE padded == PadTo(program, PushAlignment)
<1>1. /\ SoundCode(padded, head) /\ Len(padded) \in Nat /\ Len(padded) >= Len(program)
      /\ Len(padded) % PushAlignment = 0
      /\ \A j \in 1..Len(program) : padded[j] = program[j]
  BY AlignmentAssumption, PadToSound
<1>2. AppendPush(program, v) = Append(padded, PushInstr(v))
  BY DEF AppendPush
<1> HIDE DEF padded
<1>3. /\ PushInstr(v).op = "push" /\ PushInstr(v).hint.kind = "value"
      /\ PushInstr(v).hint.arg = v
      /\ PushInstr(v) \in Instrs
  BY DEF PushInstr, PushValue, Instrs, Hints, Operations
<1>4. SoundInstr(PushInstr(v), Len(padded) + 1, head)
  BY <1>1, <1>3 DEF SoundInstr, WellFormed
<1>5. Len(program) \in Nat /\ padded \in Seq(Instrs)
  BY <1>1 DEF SoundCode
<1> DEFINE code == Append(padded, PushInstr(v))
<1>6. /\ code \in Seq(Instrs) /\ Len(code) = Len(padded) + 1
      /\ \A j \in 1..Len(padded) : code[j] = padded[j]
      /\ code[Len(padded) + 1] = PushInstr(v)
  BY <1>3, <1>5
<1> HIDE DEF code
<1>7. \A j \in 1..Len(code) : SoundInstr(code[j], j, head)
  <2> SUFFICES ASSUME NEW j \in 1..Len(code) PROVE SoundInstr(code[j], j, head)
    OBVIOUS
  <2>1. CASE j \in 1..Len(padded)
    BY <1>1, <1>6, <2>1 DEF SoundCode
  <2>2. CASE j = Len(padded) + 1
    BY <1>4, <1>6, <2>2
  <2> QED BY <1>1, <1>6, <2>1, <2>2
<1>8. Extended(code, program, head)
  BY <1>1, <1>5, <1>6, <1>7 DEF Extended, SoundCode
<1> QED BY <1>2, <1>8 DEF code
-----------------------------------------------------------------------------
(* The parsers of instructions, by the way they read parameters. *)

Params == Seq([word : STRING, number : Int])

LEMMA ParamErrors ==
  ASSUME NEW params
  PROVE  ParamError(params) = "none" \/ ParamError(params) \in Reasons
BY DEF ParamError, Reasons

LEMMA RejectedExtends ==
  ASSUME NEW program, NEW head, NEW error \in Reasons
  PROVE  Extends(Rejected(error), program, head)
BY DEF Extends, Rejected

LEMMA ParsedExtends ==
  ASSUME NEW program, NEW head, NEW code, Extended(code, program, head)
  PROVE  Extends(Parsed(code), program, head)
BY DEF Extends, Parsed

LEMMA FixedSound ==
  ASSUME NEW program, NEW head, SoundCode(program, head), NEW params, NEW ops \in PlainCode
  PROVE  Extends(Fixed(program, params, ops), program, head)
BY EmitSound DEF Fixed, Extends, Parsed, Rejected, Reasons

LEMMA EqualSound ==
  ASSUME NEW program, NEW head, SoundCode(program, head), NEW params, NEW ops \in PlainCode
  PROVE  Extends(ParseEqual(program, params, ops), program, head)
<1>1. /\ [kind |-> "eq", arg |-> 0] \in Hints /\ [kind |-> "eq", arg |-> 0].kind # "value"
      /\ WellFormed([kind |-> "eq", arg |-> 0])
  BY DEF Hints, WellFormed
<1>2. Extended(EmitHinted(program, [kind |-> "eq", arg |-> 0], ops), program, head)
  BY <1>1, HintedSound
<1> QED BY <1>2 DEF ParseEqual, Extends, Parsed, Rejected, Reasons

LEMMA ByCountSound ==
  ASSUME NEW program, NEW head, SoundCode(program, head), NEW params, NEW table,
         \A n \in DOMAIN table : table[n] \in PlainCode
  PROVE  Extends(ByCount(program, params, table), program, head)
<1>1. ASSUME ParamError(params) = "none", Param(params) \in DOMAIN table
      PROVE  Extends(Parsed(Emit(program, table[Param(params)])), program, head)
  BY <1>1, EmitSound, ParsedExtends
<1>2. ParamError(params) # "none" => Extends(Rejected(ParamError(params)), program, head)
  BY ParamErrors, RejectedExtends
<1>3. Extends(Rejected("invalid param"), program, head)
  BY RejectedExtends DEF Reasons
<1> QED BY <1>1, <1>2, <1>3 DEF ByCount

LEMMA ByWordSound ==
  ASSUME NEW program, NEW head, SoundCode(program, head), NEW params,
         NEW default \in Plain, NEW table, \A w \in DOMAIN table : table[w] \in Plain
  PROVE  Extends(ByWord(program, params, default, table), program, head)
<1>1. ASSUME NEW op \in Plain PROVE Extends(Parsed(Emit(program, <<op>>)), program, head)
  <2>1. <<op>> \in PlainCode
    BY DEF PlainCode
  <2> QED BY <2>1, EmitSound, ParsedExtends
<1>2. /\ Extends(Rejected("invalid param"), program, head)
      /\ Extends(Rejected("extra param"), program, head)
  BY RejectedExtends DEF Reasons
<1> QED BY <1>1, <1>2 DEF ByWord

(* The tables the parsers read their operations from. *)
LEMMA TablesArePlain ==
  /\ {"noop", "assert", "asserteq", "read", "read2", "add", "mul", "neg", "inv", "not", "and",
      "or", "dup", "pad2", "drop", "swap", "dup2", "dup4", "roll4", "roll8", "drop4", "swap2",
      "swap4", "choose", "choose2", "cswap2", "eq", "cmp", "binacc", "rescr"} \subseteq Plain
  /\ \A a \in Plain : <<a>> \in PlainCode
  /\ \A a, b \in Plain : <<a, b>> \in PlainCode
  /\ \A a, b, c \in Plain : <<a, b, c>> \in PlainCode
  /\ \A a, b, c, d \in Plain : <<a, b, c, d>> \in PlainCode
  /\ \A a, b, c, d, e \in Plain : <<a, b, c, d, e>> \in PlainCode
<1>1. {"noop", "assert", "asserteq", "read", "read2", "add", "mul", "neg", "inv", "not", "and",
       "or", "dup", "pad2", "drop", "swap", "dup2", "dup4", "roll4", "roll8", "drop4", "swap2",
       "swap4", "choose", "choose2", "cswap2", "eq", "cmp", "binacc", "rescr"} \subseteq Plain
  BY DEF Plain, Operations
<1>2. \A a \in Plain : <<a>> \in PlainCode
  BY DEF PlainCode
<1>3. \A a, b \in Plain : <<a, b>> \in PlainCode
  BY DEF PlainCode
<1>4. \A a, b, c \in Plain : <<a, b, c>> \in PlainCode
  BY DEF PlainCode
<1>5. \A a, b, c, d \in Plain : <<a, b, c, d>> \in PlainCode
  BY DEF PlainCode
<1>6. \A a, b, c, d, e \in Plain : <<a, b, c, d, e>> \in PlainCode
  BY DEF PlainCode
<1> QED BY <1>1, <1>2, <1>3, <1>4, <1>5, <1>6

LEMMA FixedParsers ==
  ASSUME NEW program, NEW head, SoundCode(program, head), NEW params
  PROVE  /\ Extends(ParseNoop(program, params), program, head)
         /\ Extends(ParseAdd(program, params), program, head)
         /\ Extends(ParseSub(program, params), program, head)
         /\ Extends(ParseMul(program, params), program, head)
         /\ Extends(ParseDiv(program, params), program, head)
         /\ Extends(ParseNeg(program, params), program, head)
         /\ Extends(ParseInv(program, params), program, head)
         /\ Extends(ParseNot(program, params), program, head)
         /\ Extends(ParseAnd(program, params), program, head)
         /\ Extends(ParseOr(program, params), program, head)
         /\ Extends(ParseEq(program, params), program, head)
         /\ Extends(ParseNe(program, params), program, head)
<1>1. \A ops \in PlainCode : Extends(Fixed(program, params, ops), program, head)
  BY FixedSound
<1>2. \A ops \in PlainCode : Extends(ParseEqual(program, params, ops), program, head)
  BY EqualSound
<1>3. /\ <<"noop">> \in PlainCode /\ <<"add">> \in PlainCode /\ <<"neg", "add">> \in PlainCode
      /\ <<"mul">> \in PlainCode /\ <<"inv", "mul">> \in PlainCode /\ <<"neg">> \in PlainCode
      /\ <<"inv">> \in PlainCode /\ <<"not">> \in PlainCode /\ <<"and">> \in PlainCode
      /\ <<"or">> \in PlainCode /\ <<"read", "eq">> \in PlainCode
      /\ <<"read", "eq", "not">> \in PlainCode
  BY TablesArePlain
<1> QED
  BY <1>1, <1>2, <1>3 DEF ParseNoop, ParseAdd, ParseSub, ParseMul, ParseDiv, ParseNeg,
     ParseInv, ParseNot, ParseAnd, ParseOr, ParseEq, ParseNe

LEMMA WordParsers ==
  ASSUME NEW program, NEW head, SoundCode(program, head), NEW params
  PROVE  /\ Extends(ParseAssert(program, params), program, head)
         /\ Extends(ParseRead(program, params), program, head)
<1>1. "assert" \in Plain /\ "asserteq" \in Plain /\ "read" \in Plain /\ "read2" \in Plain
  BY TablesArePlain
<1>2. Extends(ParseAssert(program, params), program, head)
  <2> DEFINE table == [eq |-> "asserteq"]
  <2>1. DOMAIN table = {"eq"} /\ table["eq"] = "asserteq"
    OBVIOUS
  <2> HIDE DEF table
  <2>2. \A w \in DOMAIN table : table[w] \in Plain
    BY <1>1, <2>1
  <2>3. Extends(ByWord(program, params, "assert", table), program, head)
    BY <1>1, <2>2, ByWordSound
  <2> QED BY <2>3 DEF table, ParseAssert
<1>3. Extends(ParseRead(program, params), program, head)
  <2> DEFINE table == [a |-> "read", ab |-> "read2"]
  <2>1. DOMAIN table = {"a", "ab"} /\ table["a"] = "read" /\ table["ab"] = "read2"
    OBVIOUS
  <2> HIDE DEF table
  <2>2. \A w \in DOMAIN table : table[w] \in Plain
    BY <1>1, <2>1
  <2>3. Extends(ByWord(program, params, "read", table), program, head)
    BY <1>1, <2>2, ByWordSound
  <2> QED BY <2>3 DEF table, ParseRead
<1> QED BY <1>2, <1>3

LEMMA TablesOfCodes ==
  /\ \A a, b \in PlainCode : <<a, b>> \in Seq(PlainCode)
  /\ \A a, b, c \in PlainCode : <<a, b, c>> \in Seq(PlainCode)
  /\ \A a, b, c, d \in PlainCode : <<a, b, c, d>> \in Seq(PlainCode)
  /\ \A a, b, c, d, e, f, g, h \in PlainCode : <<a, b, c, d, e, f, g, h>> \in Seq(PlainCode)
<1>1. \A a, b \in PlainCode : <<a, b>> \in Seq(PlainCode)
  OBVIOUS
<1>2. \A a, b, c \in PlainCode : <<a, b, c>> \in Seq(PlainCode)
  OBVIOUS
<1>3. \A a, b, c, d \in PlainCode : <<a, b, c, d>> \in Seq(PlainCode)
  OBVIOUS
<1>4. \A a, b, c, d, e, f, g, h \in PlainCode :
        <<a, b, c, d, e, f, g, h>> \in Seq(PlainCode)
  OBVIOUS
<1> QED BY <1>1, <1>2, <1>3, <1>4

LEMMA CountParsers ==
  ASSUME NEW program, NEW head, SoundCode(program, head), NEW params
  PROVE  /\ Extends(ParseDup(program, params), program, head)
         /\ Extends(ParsePad(program, params), program, head)
         /\ Extends(ParsePick(program, params), program, head)
         /\ Extends(ParseDrop(program, params), program, head)
         /\ Extends(ParseSwap(program, params), program, head)
         /\ Extends(ParseRoll(program, params), program, head)
         /\ Extends(ParseChoose(program, params), program, head)
<1> DEFINE Sound(table) == Extends(ByCount(program, params, table), program, head)
<1>1. ASSUME NEW table \in Seq(PlainCode) PROVE Sound(table)
  <2>1. \A n \in DOMAIN table : table[n] \in PlainCode
    OBVIOUS
  <2> QED BY <2>1, ByCountSound
<1> HIDE DEF Sound
<1>2. Sound(<<<<"dup">>, <<"dup2">>, <<"dup4", "roll4", "drop">>, <<"dup4">>>>)
  <2>1. /\ <<"dup">> \in PlainCode /\ <<"dup2">> \in PlainCode
        /\ <<"dup4", "roll4", "drop">> \in PlainCode /\ <<"dup4">> \in PlainCode
    BY TablesArePlain
  <2> QED BY <1>1, <2>1, TablesOfCodes
<1>3. Sound(<<<<"pad2", "drop">>, <<"pad2">>, <<"pad2", "pad2", "drop">>, <<"pad2", "pad2">>,
      <<"pad2", "pad2", "pad2", "drop">>, <<"pad2", "pad2", "pad2">>,
      <<"pad2", "pad2", "dup4", "drop">>, <<"pad2", "pad2", "dup4">>>>)
  <2>1. /\ <<"pad2", "drop">> \in PlainCode /\ <<"pad2">> \in PlainCode
        /\ <<"pad2", "pad2", "drop">> \in PlainCode /\ <<"pad2", "pad2">> \in PlainCode
        /\ <<"pad2", "pad2", "pad2", "drop">> \in PlainCode /\ <<"pad2", "pad2", "pad2">> \in PlainCode
        /\ <<"pad2", "pad2", "dup4", "drop">> \in PlainCode /\ <<"pad2", "pad2", "dup4">> \in PlainCode
    BY TablesArePlain
  <2> QED BY <1>1, <2>1, TablesOfCodes
<1>4. Sound(<<<<"dup2", "drop">>, <<"dup4", "roll4", "drop", "drop", "drop">>,
      <<"dup4", "drop", "drop", "drop">>>>)
  <2>1. /\ <<"dup2", "drop">> \in PlainCode /\ <<"dup4", "roll4", "drop", "drop", "drop">> \in PlainCode
        /\ <<"dup4", "drop", "drop", "drop">> \in PlainCode
    BY TablesArePlain
  <2> QED BY <1>1, <2>1, TablesOfCodes
<1>5. Sound(<<<<"drop">>, <<"drop", "drop">>, <<"dup", "drop4">>, <<"drop4">>,
      <<"drop", "drop4">>, <<"drop", "drop", "drop4">>, <<"dup", "drop4", "drop4">>,
      <<"drop4", "drop4">>>>)
  <2>1. /\ <<"drop">> \in PlainCode /\ <<"drop", "drop">> \in PlainCode
        /\ <<"dup", "drop4">> \in PlainCode /\ <<"drop4">> \in PlainCode
        /\ <<"drop", "drop4">> \in PlainCode /\ <<"drop", "drop", "drop4">> \in PlainCode
        /\ <<"dup", "drop4", "drop4">> \in PlainCode /\ <<"drop4", "drop4">> \in PlainCode
    BY TablesArePlain
  <2> QED BY <1>1, <2>1, TablesOfCodes
<1>6. Sound(<<<<"choose">>, <<"choose2">>>>)
  <2>1. /\ <<"choose">> \in PlainCode /\ <<"choose2">> \in PlainCode
    BY TablesArePlain
  <2> QED BY <1>1, <2>1, TablesOfCodes
<1>7. Extends(ParseSwap(program, params), program, head)
  <2> DEFINE table == [n \in {1, 2, 4} |->
       CASE n = 1 -> <<"swap">> [] n = 2 -> <<"swap2">> [] n = 4 -> <<"swap4">>]
  <2>1. \A n \in DOMAIN table : table[n] \in PlainCode
    BY TablesArePlain
  <2> HIDE DEF table
  <2>2. Extends(ByCount(program, params, table), program, head)
    BY <2>1, ByCountSound
  <2> QED BY <2>2 DEF table, ParseSwap
<1>8. Extends(ParseRoll(program, params), program, head)
  <2> DEFINE table == [n \in {4, 8} |-> IF n = 4 THEN <<"roll4">> ELSE <<"roll8">>]
  <2>1. \A n \in DOMAIN table : table[n] \in PlainCode
    BY TablesArePlain
  <2> HIDE DEF table
  <2>2. Extends(ByCount(program, params, table), program, head)
    BY <2>1, ByCountSound
  <2> QED BY <2>2 DEF table, ParseRoll
<1> QED
  BY <1>2, <1>3, <1>4, <1>5, <1>6, <1>7, <1>8
     DEF Sound, ParseDup, ParsePad, ParsePick, ParseDrop, ParseChoose

LEMMA Joining ==
  /\ \A a, b \in PlainCode : a \o b \in PlainCode
  /\ \A a \in Seq(Plain), b \in PlainCode : a \o b \in PlainCode
<1>1. ASSUME NEW a \in Seq(Plain), NEW b \in PlainCode PROVE a \o b \in PlainCode
  <2>1. a \o b \in Seq(Plain) /\ Len(a \o b) = Len(a) + Len(b) /\ Len(b) > 0 /\ Len(a) \in Nat
    BY DEF PlainCode
  <2>2. Len(a \o b) > 0 /\ Len(b) \in Nat
    BY <2>1 DEF PlainCode
  <2> QED BY <2>1, <2>2 DEF PlainCode
<1>2. PlainCode \subseteq Seq(Plain)
  BY DEF PlainCode
<1> QED BY <1>1, <1>2

LEMMA PushParser ==
  ASSUME NEW program, NEW head, SoundCode(program, head), NEW params \in Params
  PROVE  Extends(ParsePush(program, params), program, head)
<1>1. ValueError(params) # "none" => ValueError(params) \in Reasons
  BY DEF ValueError, Reasons
<1>2. CASE ValueError(params) # "none"
  BY <1>1, <1>2, RejectedExtends DEF ParsePush
<1>3. CASE ValueError(params) = "none"
  <2>1. /\ Len(params) # 0 /\ ~ Len(params) > 1 /\ IsNumber(params[1])
        /\ ~ params[1].number >= Modulus
    BY <1>3 DEF ValueError
  <2>2. Len(params) = 1 /\ params[1].number \in Int
    <3>1. Len(params) \in Nat
      BY DEF Params
    <3>2. Len(params) = 1
      BY <2>1, <3>1
    <3> DEFINE S == [word : STRING, number : Int]
    <3>3. params \in Seq(S) /\ \A p \in S : p.number \in Int
      BY DEF Params
    <3> HIDE DEF S
    <3>4. params[1] \in S
      BY <3>2, <3>3
    <3> QED BY <3>2, <3>3, <3>4
  <2>3. params[1].number \in Elements
    BY <2>1, <2>2, FieldAssumption DEF Elements, IsNumber
  <2>4. Extended(AppendPush(program, params[1].number), program, head)
    BY <2>2, <2>3, PushSound
  <2> QED BY <1>3, <2>4, ParsedExtends DEF ParsePush
<1> QED BY <1>2, <1>3

(* the hints of comparisons, decompositions and paths *)
LEMMA CountHints ==
  ASSUME NEW n \in Nat \ {0}, NEW kind \in {"cmp", "rc", "pmpath"}
  PROVE  /\ [kind |-> kind, arg |-> n] \in Hints
         /\ [kind |-> kind, arg |-> n].kind # "value"
         /\ WellFormed([kind |-> kind, arg |-> n])
BY DEF Hints, WellFormed

LEMMA CompareSound ==
  ASSUME NEW program, NEW head, SoundCode(program, head), NEW n \in MinBits..MaxBits,
         NEW keep \in PlainCode
  PROVE  Extended(Compare(program, n, keep), program, head)
<1>1. n \in Nat \ {0} /\ 2^(n - 1) \in Int
  BY DEF MinBits, MaxBits
<1> DEFINE start == <<"pad2", "pad2", "pad2", "dup">>
           check == <<"drop4", "pad2", "swap4", "roll4", "asserteq", "asserteq">>
           a == Emit(program, start)
           b == AppendPush(a, 2^(n - 1))
           c == EmitHinted(b, [kind |-> "cmp", arg |-> n], Times(n, <<"cmp">>))
           d == Emit(c, check \o keep)
<1>2. start \in PlainCode /\ <<"cmp">> \in PlainCode
  BY TablesArePlain
<1>3. check \o keep \in PlainCode
  <2>1. <<"drop4", "pad2", "swap4">> \in PlainCode /\ <<"roll4", "asserteq", "asserteq">> \in PlainCode
    BY TablesArePlain
  <2>2. check = <<"drop4", "pad2", "swap4">> \o <<"roll4", "asserteq", "asserteq">>
    OBVIOUS
  <2> HIDE DEF check
  <2> QED BY <2>1, <2>2, Joining
<1>4. Times(n, <<"cmp">>) \in PlainCode
  BY <1>1, <1>2, TimesIs
<1>5. PowersFit => 2^(n - 1) \in Elements
  BY DEF PowersFit
<1>6. Compare(program, n, keep) = d
  BY DEF Compare
<1>7. Extended(a, program, head)
  BY <1>2, EmitSound
<1> HIDE DEF a, check, start
<1>8. SoundCode(a, head)
  BY <1>7 DEF Extended
<1>9. Extended(b, a, head)
  BY <1>1, <1>5, <1>8, PushSound
<1> HIDE DEF b
<1>10. SoundCode(b, head)
  BY <1>9 DEF Extended
<1>11. Extended(c, b, head)
  BY <1>1, <1>4, <1>10, CountHints, HintedSound
<1> HIDE DEF c
<1>12. SoundCode(c, head)
  BY <1>11 DEF Extended
<1>13. Extended(d, c, head)
  BY <1>3, <1>12, EmitSound
<1> HIDE DEF d
<1>14. Extended(c, program, head)
  BY <1>7, <1>8, <1>9, <1>10, <1>11, ExtendedTwice
<1> QED BY <1>6, <1>13, <1>14, ExtendedTwice

LEMMA DecomposeSound ==
  ASSUME NEW program, NEW head, SoundCode(program, head), NEW n \in MinBits..MaxBits,
         NEW ops \in PlainCode
  PROVE  Extended(Decompose(program, n, ops), program, head)
<1> DEFINE a == Emit(program, <<"pad2">>)
           b == AppendPush(a, 1)
           c == Emit(b, <<"swap", "dup">>)
           d == EmitHinted(c, [kind |-> "rc", arg |-> n], ops)
<1>1. n \in Nat \ {0} /\ 1 \in Elements
  BY FieldAssumption DEF MinBits, MaxBits, Elements
<1>2. <<"pad2">> \in PlainCode /\ <<"swap", "dup">> \in PlainCode
  BY TablesArePlain
<1>3. Decompose(program, n, ops) = d
  BY DEF Decompose
<1>4. Extended(a, program, head)
  BY <1>2, EmitSound
<1> HIDE DEF a
<1>5. SoundCode(a, head)
  BY <1>4 DEF Extended
<1>6. Extended(b, a, head)
  BY <1>1, <1>5, PushSound
<1> HIDE DEF b
<1>7. SoundCode(b, head)
  BY <1>6 DEF Extended
<1>8. Extended(c, b, head)
  BY <1>2, <1>7, EmitSound
<1> HIDE DEF c
<1>9. SoundCode(c, head)
  BY <1>8 DEF Extended
<1>10. Extended(d, c, head)
  BY <1>1, <1>9, CountHints, HintedSound
<1> HIDE DEF d
<1>11. Extended(c, program, head)
  BY <1>4, <1>5, <1>6, <1>7, <1>8, ExtendedTwice
<1> QED BY <1>3, <1>10, <1>11, ExtendedTwice

(* Parsers whose parameter has a range: the operations are those of the    *)
(* parameter.                                                              *)
LEMMA RangeParsers ==
  ASSUME NEW program, NEW head, SoundCode(program, head), NEW params
  PROVE  /\ Extends(ParseGt(program, params), program, head)
         /\ Extends(ParseLt(program, params), program, head)
         /\ Extends(ParseRc(program, params), program, head)
         /\ Extends(ParseIsOdd(program, params), program, head)
<1>1. ParamError(params) # "none" => Extends(Rejected(ParamError(params)), program, head)
  BY ParamErrors, RejectedExtends
<1>2. Extends(Rejected("invalid param"), program, head)
  BY RejectedExtends DEF Reasons
<1>3. Extends(ParseGt(program, params), program, head)
  <2>1. <<"roll4", "dup", "drop4">> \in PlainCode
    BY TablesArePlain
  <2>2. ASSUME NEW n \in MinBits..MaxBits
        PROVE  Extends(Parsed(Compare(program, n, <<"roll4", "dup", "drop4">>)), program, head)
    BY <2>1, CompareSound, ParsedExtends
  <2> QED BY <1>1, <1>2, <2>2 DEF ParseGt, InRange
<1>4. Extends(ParseLt(program, params), program, head)
  <2>1. <<"dup", "drop4">> \in PlainCode
    BY TablesArePlain
  <2>2. ASSUME NEW n \in MinBits..MaxBits
        PROVE  Extends(Parsed(Compare(program, n, <<"dup", "drop4">>)), program, head)
    BY <2>1, CompareSound, ParsedExtends
  <2> QED BY <1>1, <1>2, <2>2 DEF ParseLt, InRange
<1>5. ASSUME NEW n \in MinBits..MaxBits
      PROVE  n \in Nat \ {0} /\ n - 1 \in Nat \ {0}
  BY DEF MinBits, MaxBits
<1>6. Extends(ParseRc(program, params), program, head)
  <2>1. ASSUME NEW n \in MinBits..MaxBits
        PROVE  Extends(Parsed(EmitHinted(
                 Emit(Decompose(program, n, Times(n, <<"binacc">>)), <<"dup", "drop4">>),
                 [kind |-> "eq", arg |-> 0], <<"read", "eq">>)), program, head)
    <3> DEFINE a == Decompose(program, n, Times(n, <<"binacc">>))
               b == Emit(a, <<"dup", "drop4">>)
               c == EmitHinted(b, [kind |-> "eq", arg |-> 0], <<"read", "eq">>)
    <3>1. /\ <<"binacc">> \in PlainCode /\ <<"dup", "drop4">> \in PlainCode
          /\ <<"read", "eq">> \in PlainCode
      BY TablesArePlain
    <3>2. Extended(a, program, head)
      BY <1>5, <3>1, TimesIs, DecomposeSound
    <3> HIDE DEF a
    <3>3. SoundCode(a, head)
      BY <3>2 DEF Extended
    <3>4. Extended(b, a, head)
      BY <3>1, <3>3, EmitSound
    <3> HIDE DEF b
    <3>5. SoundCode(b, head)
      BY <3>4 DEF Extended
    <3>6. /\ [kind |-> "eq", arg |-> 0] \in Hints /\ [kind |-> "eq", arg |-> 0].kind # "value"
          /\ WellFormed([kind |-> "eq", arg |-> 0])
      BY DEF Hints, WellFormed
    <3>7. Extended(c, b, head)
      BY <3>1, <3>5, <3>6, HintedSound
    <3> HIDE DEF c
    <3>8. Extended(c, program, head)
      BY <3>2, <3>3, <3>4, <3>7, ExtendedTwice
    <3>9. Extends(Parsed(c), program, head)
      BY <3>8, ParsedExtends
    <3> QED BY <3>9 DEF c, b, a
  <2> QED BY <1>1, <1>2, <2>1 DEF ParseRc, InRange
<1>7. Extends(ParseIsOdd(program, params), program, head)
  <2> DEFINE ops(n) == <<"binacc", "swap2", "roll4", "dup">> \o Times(n - 1, <<"binacc">>)
                         \o <<"drop", "drop", "swap", "roll4", "asserteq", "drop">>
  <2>1. ASSUME NEW n \in MinBits..MaxBits
        PROVE  Extends(Parsed(Decompose(program, n, ops(n))), program, head)
    <3>1. /\ <<"binacc", "swap2", "roll4", "dup">> \in PlainCode /\ <<"binacc">> \in PlainCode
          /\ <<"drop", "drop", "swap">> \in PlainCode /\ <<"roll4", "asserteq", "drop">> \in PlainCode
      BY TablesArePlain
    <3>2. <<"drop", "drop", "swap", "roll4", "asserteq", "drop">>
            = <<"drop", "drop", "swap">> \o <<"roll4", "asserteq", "drop">>
      OBVIOUS
    <3>3. Times(n - 1, <<"binacc">>) \in PlainCode
      BY <1>5, <3>1, TimesIs
    <3> DEFINE a == <<"binacc", "swap2", "roll4", "dup">>
               t == Times(n - 1, <<"binacc">>)
               e == <<"drop", "drop", "swap", "roll4", "asserteq", "drop">>
    <3>4. e \in PlainCode
      BY <3>1, <3>2, Joining
    <3>5. a \in PlainCode /\ t \in PlainCode
      BY <3>1, <3>3
    <3> HIDE DEF a, t, e
    <3>6. a \o t \o e \in PlainCode
      BY <3>4, <3>5, Joining
    <3>7. ops(n) = a \o t \o e
      BY DEF a, t, e
    <3> HIDE DEF ops
    <3>8. Extended(Decompose(program, n, ops(n)), program, head)
      BY <3>6, <3>7, DecomposeSound
    <3> QED BY <3>8, ParsedExtends
  <2> QED BY <1>1, <1>2, <2>1 DEF ParseIsOdd, InRange
<1> QED BY <1>3, <1>4, <1>6, <1>7

LEMMA StartIsPlain ==
  ASSUME NEW ops \in PlainCode, NEW n \in 1..Len(ops)
  PROVE  SubSeq(ops, 1, n) \in PlainCode
<1>1. ops \in Seq(Plain) /\ n \in Nat /\ n <= Len(ops) /\ n >= 1
  BY DEF PlainCode
<1>2. SubSeq(ops, 1, n) \in Seq(Plain) /\ Len(SubSeq(ops, 1, n)) = n
  BY <1>1
<1> QED BY <1>1, <1>2 DEF PlainCode

LEMMA HashPieces ==
  /\ HashRounds \in PlainCode /\ Len(HashRounds) = 10
  /\ SmpathCycle \in PlainCode /\ Len(SmpathCycle) = 16
  /\ PmpathCycle \in PlainCode /\ Len(PmpathCycle) = 32
  /\ SubSeq(SmpathCycle, 1, 11) \in PlainCode
  /\ SubSeq(PmpathCycle, 1, 11) \in PlainCode
<1> DEFINE s == <<"drop4", "read2", "swap2", "read2", "cswap2", "pad2">>
           p == <<"drop4", "pad2", "swap2", "read2", "swap4", "binacc", "swap4", "cswap2", "pad2">>
           q == Times(13, <<"noop">>)
<1>1. HashRounds \in PlainCode /\ Len(HashRounds) = 10
  <2>1. <<"rescr">> \in PlainCode /\ Len(<<"rescr">>) = 1 /\ 10 \in Nat
    BY TablesArePlain
  <2>2. Len(Times(10, <<"rescr">>)) = 10 * Len(<<"rescr">>)
    BY <2>1, TimesIs
  <2>3. Times(10, <<"rescr">>) \in PlainCode
    BY <2>1, TimesIs
  <2> QED BY <2>1, <2>2, <2>3 DEF HashRounds
<1>2. s \in PlainCode /\ Len(s) = 6
  <2>1. <<"drop4", "read2", "swap2">> \in PlainCode /\ <<"read2", "cswap2", "pad2">> \in PlainCode
    BY TablesArePlain
  <2>2. s = <<"drop4", "read2", "swap2">> \o <<"read2", "cswap2", "pad2">>
    OBVIOUS
  <2>3. Len(s) = 6
    OBVIOUS
  <2> HIDE DEF s
  <2> QED BY <2>1, <2>2, <2>3, Joining
<1>3. p \in PlainCode /\ Len(p) = 9
  <2>1. /\ <<"drop4", "pad2", "swap2", "read2", "swap4">> \in PlainCode
        /\ <<"binacc", "swap4", "cswap2", "pad2">> \in PlainCode
    BY TablesArePlain
  <2>2. p = <<"drop4", "pad2", "swap2", "read2", "swap4">>
              \o <<"binacc", "swap4", "cswap2", "pad2">>
    OBVIOUS
  <2>3. Len(p) = 9
    OBVIOUS
  <2> HIDE DEF p
  <2> QED BY <2>1, <2>2, <2>3, Joining
<1>4. q \in PlainCode /\ Len(q) = 13
  <2>1. <<"noop">> \in PlainCode
    BY TablesArePlain
  <2>2. Times(13, <<"noop">>) \in PlainCode
    BY <2>1, TimesIs
  <2>3. Len(Times(13, <<"noop">>)) = 13
    BY NoopsArePlain
  <2> QED BY <2>2, <2>3
<1>5. SmpathCycle = HashRounds \o s /\ PmpathCycle = HashRounds \o p \o q
  BY DEF SmpathCycle, PmpathCycle
<1> HIDE DEF s, p, q
<1>6. ASSUME NEW x \in PlainCode, NEW y \in PlainCode
      PROVE  x \o y \in PlainCode /\ Len(x \o y) = Len(x) + Len(y)
  BY Joining DEF PlainCode
<1>7. SmpathCycle \in PlainCode /\ Len(SmpathCycle) = 16
  <2>1. /\ HashRounds \o s \in PlainCode
        /\ Len(HashRounds \o s) = Len(HashRounds) + Len(s)
    BY <1>1, <1>2, <1>6
  <2> QED BY <1>1, <1>2, <1>5, <2>1
<1>8. PmpathCycle \in PlainCode /\ Len(PmpathCycle) = 32
  <2>1. /\ HashRounds \o p \in PlainCode
        /\ Len(HashRounds \o p) = Len(HashRounds) + Len(p)
    BY <1>1, <1>3, <1>6
  <2> DEFINE front == HashRounds \o p
  <2>2. front \in PlainCode /\ Len(front) = 19
    BY <1>1, <1>3, <2>1
  <2>3. PmpathCycle = front \o q
    BY <1>5
  <2> HIDE DEF front
  <2>4. front \o q \in PlainCode /\ Len(front \o q) = Len(front) + Len(q)
    BY <1>4, <1>6, <2>2
  <2> QED BY <1>4, <2>2, <2>3, <2>4
<1>9. SubSeq(SmpathCycle, 1, 11) \in PlainCode
  <2>1. 11 \in 1..Len(SmpathCycle) /\ SmpathCycle \in PlainCode
    BY <1>7
  <2> QED BY <2>1, StartIsPlain
<1>10. SubSeq(PmpathCycle, 1, 11) \in PlainCode
  <2>1. 11 \in 1..Len(PmpathCycle) /\ PmpathCycle \in PlainCode
    BY <1>8
  <2> QED BY <2>1, StartIsPlain
<1> QED BY <1>1, <1>7, <1>8, <1>9, <1>10

LEMMA SkippingCycles ==
  ASSUME NEW n \in MinDepth..MaxDepth, NEW ops \in PlainCode
  PROVE  Times(n - 2, ops) \in Seq(Plain)
BY TimesIs DEF MinDepth, MaxDepth

(* an instruction padded to the start of a cycle, with operations behind *)
LEMMA AlignedSound ==
  ASSUME NEW program, NEW a, NEW head, SoundCode(program, head), Extended(a, program, head),
         NEW ops \in PlainCode
  PROVE  Extended(Emit(PadTo(a, HashAlignment), ops), program, head)
<1> DEFINE b == PadTo(a, HashAlignment)
           c == Emit(b, ops)
<1>1. HashAlignment \in Nat \ {0}
  BY CycleAssumption DEF HashAlignment
<1>2. SoundCode(a, head) /\ Len(a) > Len(program) /\ Len(program) \in Nat /\ Len(a) \in Nat
      /\ \A j \in 1..Len(program) : a[j] = program[j]
  BY DEF Extended, SoundCode
<1>3. /\ SoundCode(b, head) /\ Len(b) \in Nat /\ Len(b) >= Len(a)
      /\ \A j \in 1..Len(a) : b[j] = a[j]
  BY <1>1, <1>2, PadToSound
<1> HIDE DEF b
<1>4. Extended(b, program, head)
  BY <1>2, <1>3 DEF Extended
<1>5. Extended(c, b, head)
  BY <1>3, EmitSound
<1> HIDE DEF c
<1>6. Extended(c, program, head)
  BY <1>4, <1>5, ExtendedTwice
<1> QED BY <1>6 DEF c, b

LEMMA HashParser ==
  ASSUME NEW program, NEW head, SoundCode(program, head), NEW params
  PROVE  Extends(ParseHash(program, params), program, head)
<1> DEFINE pads == <<<<"pad2", "pad2", "pad2", "drop">>, <<"pad2", "pad2">>,
                     <<"pad2", "pad2", "drop">>, <<"pad2">>>>
           padded == ByCount(program, params, pads)
           tail == HashRounds \o <<"drop4">>
<1>1. pads \in Seq(PlainCode)
  <2>1. /\ <<"pad2", "pad2", "pad2", "drop">> \in PlainCode /\ <<"pad2", "pad2">> \in PlainCode
        /\ <<"pad2", "pad2", "drop">> \in PlainCode /\ <<"pad2">> \in PlainCode
    BY TablesArePlain
  <2> QED BY <2>1, TablesOfCodes
<1>2. tail \in PlainCode
  <2>1. <<"drop4">> \in PlainCode
    BY TablesArePlain
  <2> QED BY <2>1, HashPieces, Joining
<1>3. ParseHash(program, params)
        = IF padded.error # "none" THEN padded
          ELSE Parsed(Emit(PadTo(padded.program, HashAlignment), tail))
  BY DEF ParseHash
<1> HIDE DEF pads, tail
<1>4. \A n \in DOMAIN pads : pads[n] \in PlainCode
  BY <1>1
<1>5. Extends(padded, program, head)
  BY <1>4, ByCountSound
<1> HIDE DEF padded
<1>6. CASE padded.error # "none"
  BY <1>3, <1>5, <1>6
<1>7. CASE padded.error = "none"
  <2>1. Extended(padded.program, program, head)
    BY <1>5, <1>7 DEF Extends, Reasons
  <2>2. Extended(Emit(PadTo(padded.program, HashAlignment), tail), program, head)
    BY <1>2, <2>1, AlignedSound
  <2> QED BY <1>3, <1>7, <2>2, ParsedExtends
<1> QED BY <1>6, <1>7

LEMMA SmpathParser ==
  ASSUME NEW program, NEW head, SoundCode(program, head), NEW params
  PROVE  Extends(ParseSmpath(program, params), program, head)
<1> DEFINE read == <<"read2", "swap2", "read2", "cswap2", "pad2">>
           first == Emit(program, read)
           tail(n) == Times(n - 2, SmpathCycle) \o SubSeq(SmpathCycle, 1, 11)
<1>1. read \in PlainCode
  BY TablesArePlain
<1>2. Extended(first, program, head)
  BY <1>1, EmitSound
<1>3. ASSUME NEW n \in MinDepth..MaxDepth
      PROVE  Extends(Parsed(Emit(PadTo(first, HashAlignment), tail(n))), program, head)
  <2>1. tail(n) \in PlainCode
    <3>1. Times(n - 2, SmpathCycle) \in Seq(Plain)
      BY HashPieces, SkippingCycles
    <3> QED BY <3>1, HashPieces, Joining
  <2> HIDE DEF tail, first
  <2>2. Extended(Emit(PadTo(first, HashAlignment), tail(n)), program, head)
    BY <1>2, <2>1, AlignedSound
  <2> QED BY <2>2, ParsedExtends
<1>4. ParamError(params) # "none" => Extends(Rejected(ParamError(params)), program, head)
  BY ParamErrors, RejectedExtends
<1>5. Extends(Rejected("invalid param"), program, head)
  BY RejectedExtends DEF Reasons
<1> QED BY <1>3, <1>4, <1>5 DEF ParseSmpath, InRange

LEMMA PmpathParser ==
  ASSUME NEW program, NEW head, SoundCode(program, head), NEW params
  PROVE  Extends(ParsePmpath(program, params), program, head)
<1> DEFINE hint(n) == [kind |-> "pmpath", arg |-> n]
           index == <<"swap", "dup", "binacc", "swap4", "cswap2", "pad2">>
           check == <<"swap2", "drop", "roll4", "asserteq">>
           a(n) == EmitHinted(program, hint(n), <<"read2", "pad2">>)
           b(n) == AppendPush(a(n), 1)
           first(n) == Emit(b(n), index)
           tail(n) == Times(n - 2, PmpathCycle) \o SubSeq(PmpathCycle, 1, 11) \o check
<1>1. /\ <<"read2", "pad2">> \in PlainCode /\ check \in PlainCode
      /\ <<"swap", "dup", "binacc">> \in PlainCode /\ <<"swap4", "cswap2", "pad2">> \in PlainCode
  BY TablesArePlain
<1>2. index \in PlainCode
  <2>1. index = <<"swap", "dup", "binacc">> \o <<"swap4", "cswap2", "pad2">>
    OBVIOUS
  <2> HIDE DEF index
  <2> QED BY <1>1, <2>1, Joining
<1>3. ASSUME NEW n \in MinDepth..MaxDepth
      PROVE  Extends(Parsed(Emit(PadTo(first(n), HashAlignment), tail(n))), program, head)
  <2>1. tail(n) \in PlainCode
    <3>1. Times(n - 2, PmpathCycle) \in Seq(Plain)
      BY HashPieces, SkippingCycles
    <3>2. Times(n - 2, PmpathCycle) \o SubSeq(PmpathCycle, 1, 11) \in PlainCode
      BY <3>1, HashPieces, Joining
    <3> HIDE DEF check
    <3> QED BY <1>1, <3>2, Joining
  <2> HIDE DEF tail, index, check
  <2>2. n \in Nat \ {0} /\ 1 \in Elements
    BY FieldAssumption DEF MinDepth, MaxDepth, Elements
  <2>3. hint(n) \in Hints /\ hint(n).kind # "value" /\ WellFormed(hint(n))
    BY <2>2, CountHints
  <2> HIDE DEF hint
  <2>4. Extended(a(n), program, head)
    BY <1>1, <2>3, HintedSound
  <2> HIDE DEF a
  <2>5. SoundCode(a(n), head)
    BY <2>4 DEF Extended
  <2>6. Extended(b(n), a(n), head)
    BY <2>2, <2>5, PushSound
  <2> HIDE DEF b
  <2>7. SoundCode(b(n), head)
    BY <2>6 DEF Extended
  <2>8. Extended(first(n), b(n), head)
    BY <1>2, <2>7, EmitSound
  <2> HIDE DEF first
  <2>9. Extended(first(n), program, head)
    BY <2>4, <2>5, <2>6, <2>7, <2>8, ExtendedTwice
  <2>10. Extended(Emit(PadTo(first(n), HashAlignment), tail(n)), program, head)
    BY <2>1, <2>9, AlignedSound
  <2> QED BY <2>10, ParsedExtends
<1>4. ParamError(params) # "none" => Extends(Rejected(ParamError(params)), program, head)
  BY ParamErrors, RejectedExtends
<1>5. Extends(Rejected("invalid param"), program, head)
  BY RejectedExtends DEF Reasons
<1> QED BY <1>3, <1>4, <1>5 DEF ParsePmpath, InRange

(* An instruction is refused, or adds sound operations, at least one.      *)
LEMMA InstructionsAreSound ==
  ASSUME NEW program, NEW head, SoundCode(program, head), NEW token \in Tokens
  PROVE  Extends(ParseOp(program, token), program, head)
<1>1. token.params \in Params
  BY DEF Tokens, Params
<1>2. Extends(Rejected("invalid op"), program, head)
  BY RejectedExtends DEF Reasons
<1> QED
  BY <1>1, <1>2, FixedParsers, WordParsers, CountParsers, RangeParsers, PushParser, HashParser,
     SmpathParser, PmpathParser DEF ParseOp
-----------------------------------------------------------------------------
(* Lists of blocks. *)

(* the blocks whose nested lists are among these *)
BlocksOver(lists) ==
  [kind : {"span"}, code : Seq(Instrs)]
    \cup [kind : {"group"}, body : lists]
    \cup [kind : {"switch"}, t_branch : lists, f_branch : lists]
    \cup [kind : {"loop"}, body : lists, skip : {<<LoopSkipBlock>>}]

SoundBlock(b, head) == ValidBlock(b) /\ (b.kind = "span" => SoundCode(b.code, head))

(* what the i-th block of a branch may be *)
Place(head, i) == IF i = 1 THEN head.name ELSE "block"

(* The part of a branch's list that has been built. *)
SoundList(s, head, lists) ==
  /\ s \in Seq(BlocksOver(lists))
  /\ \A i \in 1..Len(s) : SoundBlock(s[i], Place(head, i))
  /\ Alternates(s)
  /\ s # << >> => s[1].kind = "span" /\ StartsWith(s[1].code, Guard(head))

BlockHead == Token("block", << >>)

(* A set of lists in which every nested list is again. *)
Forest(lists) ==
  /\ <<LoopSkipBlock>> \in lists
  /\ \A s \in lists : s # << >> /\ SoundList(s, BlockHead, lists)

LEMMA Guards ==
  /\ Guard(BlockHead) = << >> /\ BlockHead.name = "block"
  /\ \A head : head.name = "begin" => Guard(head) = <<"begin">>
  /\ \A head : head.name \in {"if", "while"} => Guard(head) = <<"assert">>
  /\ \A head : head.name = "else" => Guard(head) = <<"not", "assert">>
  /\ \A head : head.name \in {"block", "repeat"} => Guard(head) = << >>
BY DEF Guard, BlockHead, Token

LEMMA StartsWithNothing ==
  ASSUME NEW code, Len(code) \in Nat
  PROVE  StartsWith(code, << >>)
BY DEF StartsWith

LEMMA SpanIs ==
  ASSUME NEW code
  PROVE  /\ Span(code).kind = "span" /\ Span(code).code = code
         /\ \A lists : code \in Seq(Instrs) => Span(code) \in BlocksOver(lists)
BY DEF Span, BlocksOver

LEMMA BlockKinds ==
  ASSUME NEW lists, <<LoopSkipBlock>> \in lists, NEW b \in BlocksOver(lists)
  PROVE  /\ b.kind \in {"span", "group", "switch", "loop"}
         /\ b.kind = "span" => b.code \in Seq(Instrs)
         /\ Nested(b) \subseteq lists
<1>1. CASE b \in [kind : {"span"}, code : Seq(Instrs)]
  BY <1>1 DEF Nested
<1>2. CASE b \in [kind : {"group"}, body : lists]
  BY <1>2 DEF Nested
<1>3. CASE b \in [kind : {"switch"}, t_branch : lists, f_branch : lists]
  BY <1>3 DEF Nested
<1>4. CASE b \in [kind : {"loop"}, body : lists, skip : {<<LoopSkipBlock>>}]
  BY <1>4 DEF Nested
<1> QED BY <1>1, <1>2, <1>3, <1>4 DEF BlocksOver

LEMMA MoreLists ==
  ASSUME NEW lists, NEW more, lists \subseteq more
  PROVE  /\ BlocksOver(lists) \subseteq BlocksOver(more)
         /\ \A s, head : SoundList(s, head, lists) => SoundList(s, head, more)
<1>1. BlocksOver(lists) \subseteq BlocksOver(more)
  <2>1. [kind : {"group"}, body : lists] \subseteq [kind : {"group"}, body : more]
    OBVIOUS
  <2>2. [kind : {"switch"}, t_branch : lists, f_branch : lists]
          \subseteq [kind : {"switch"}, t_branch : more, f_branch : more]
    OBVIOUS
  <2>3. [kind : {"loop"}, body : lists, skip : {<<LoopSkipBlock>>}]
          \subseteq [kind : {"loop"}, body : more, skip : {<<LoopSkipBlock>>}]
    OBVIOUS
  <2> QED BY <2>1, <2>2, <2>3 DEF BlocksOver
<1>2. ASSUME NEW s \in Seq(BlocksOver(lists)) PROVE s \in Seq(BlocksOver(more))
  BY <1>1
<1> QED BY <1>1, <1>2 DEF SoundList

(* The head of a branch only matters for BEGIN and its guard. *)
LEMMA CodeElsewhere ==
  ASSUME NEW code, NEW name, name # "begin", SoundCode(code, name), NEW other
  PROVE  SoundCode(code, other)
BY DEF SoundCode, SoundInstr

LEMMA ListElsewhere ==
  ASSUME NEW s, NEW head, head.name # "begin", NEW lists, SoundList(s, head, lists)
  PROVE  SoundList(s, BlockHead, lists)
<1>1. ASSUME NEW i \in 1..Len(s) PROVE SoundBlock(s[i], Place(BlockHead, i))
  BY CodeElsewhere DEF SoundList, SoundBlock, Place
<1>2. s # << >> => StartsWith(s[1].code, Guard(BlockHead))
  BY Guards DEF SoundList, StartsWith
<1> QED BY <1>1, <1>2 DEF SoundList

(* validate_block_list accepts what the assembler builds. *)
LEMMA ListIsValid ==
  ASSUME NEW s, NEW head, NEW lists, s # << >>, SoundList(s, head, lists)
  PROVE  ValidBlockList(s, Guard(head)) /\ ValidBlockList(s, << >>)
<1>1. s \in Seq(BlocksOver(lists)) /\ Len(s) \in Nat /\ Len(s) > 0
  BY DEF SoundList
<1>2. s[1].kind = "span" /\ StartsWith(s[1].code, Guard(head))
  BY DEF SoundList
<1>3. StartsWith(s[1].code, << >>)
  <2>1. s[1].code \in Seq(Instrs)
    BY <1>1, <1>2 DEF SoundList, SoundBlock, SoundCode
  <2> QED BY <2>1, StartsWithNothing
<1>4. ASSUME NEW i \in 2..Len(s), s[i].kind = "span"
      PROVE  \E j \in 2..(i - 1) : s[j].kind # "span"
  <2>1. s[i - 1].kind # "span"
    BY <1>4 DEF SoundList, Alternates
  <2>2. i - 1 # 1
    BY <1>2, <2>1
  <2>3. i - 1 \in 2..(i - 1)
    BY <1>1, <2>2
  <2> QED BY <2>1, <2>3
<1> QED BY <1>1, <1>2, <1>3, <1>4 DEF ValidBlockList

(* Putting a block behind a list. *)
LEMMA AppendSound ==
  ASSUME NEW s, NEW head, NEW lists, SoundList(s, head, lists),
         NEW b \in BlocksOver(lists), SoundBlock(b, Place(head, Len(s) + 1)),
         s = << >> => b.kind = "span" /\ StartsWith(b.code, Guard(head)),
         s # << >> /\ b.kind = "span" => s[Len(s)].kind # "span"
  PROVE  SoundList(Append(s, b), head, lists)
<1> DEFINE t == Append(s, b)
<1>1. s \in Seq(BlocksOver(lists)) /\ Len(s) \in Nat
  BY DEF SoundList
<1>2. /\ t \in Seq(BlocksOver(lists)) /\ Len(t) = Len(s) + 1 /\ t # << >>
      /\ \A i \in 1..Len(s) : t[i] = s[i]
      /\ t[Len(s) + 1] = b
  BY <1>1
<1> HIDE DEF t
<1>3. ASSUME NEW i \in 1..Len(t) PROVE SoundBlock(t[i], Place(head, i))
  <2>1. CASE i \in 1..Len(s)
    BY <1>2, <2>1 DEF SoundList
  <2>2. CASE i = Len(s) + 1
    BY <1>2, <2>2
  <2> QED BY <1>1, <1>2, <2>1, <2>2
<1>4. ASSUME NEW i \in 2..Len(t), t[i].kind = "span" PROVE t[i - 1].kind # "span"
  <2>1. CASE i \in 2..Len(s)
    <3>1. i \in 1..Len(s) /\ i - 1 \in 1..Len(s)
      BY <1>1, <2>1
    <3> QED BY <1>2, <1>4, <2>1, <3>1 DEF SoundList, Alternates
  <2>2. CASE i = Len(s) + 1
    <3>1. i - 1 = Len(s) /\ Len(s) \in 1..Len(s) /\ s # << >>
      BY <1>1, <2>2
    <3> QED BY <1>2, <1>4, <2>2, <3>1
  <2> QED BY <1>1, <1>2, <2>1, <2>2
<1>5. t[1].kind = "span" /\ StartsWith(t[1].code, Guard(head))
  <2>1. CASE s = << >>
    <3>1. Len(s) + 1 = 1
      BY <2>1
    <3> QED BY <1>2, <2>1, <3>1
  <2>2. CASE s # << >>
    <3>1. 1 \in 1..Len(s)
      BY <1>1, <2>2
    <3> QED BY <1>2, <2>2, <3>1 DEF SoundList
  <2> QED BY <2>1, <2>2
<1>6. SoundList(t, head, lists)
  BY <1>2, <1>3, <1>4, <1>5 DEF SoundList, Alternates
<1> QED BY <1>6 DEF t

(* ValidSpan: the length is checked, the pushes are sound. *)
LEMMA SpanIsValid ==
  ASSUME NEW code, NEW name, SoundCode(code, name), Len(code) % CycleLength = CycleLength - 1
  PROVE  ValidSpan(code) /\ SoundBlock(Span(code), name)
<1>1. ValidSpan(code)
  BY DEF ValidSpan, SoundCode, SoundInstr
<1> QED BY <1>1, SpanIs DEF ValidBlock, SoundBlock

(* add_span's padding *)
LEMMA PaddingFills ==
  ASSUME NEW m \in Nat \ {0}, NEW x \in Nat
  PROVE  m - (x % m) - 1 \in Nat /\ (x + (m - (x % m) - 1)) % m = m - 1
<1>1. x % m \in 0..(m - 1)
  OBVIOUS
<1>2. x = m * (x \div m) + (x % m) /\ x \div m \in Int
  OBVIOUS
<1> DEFINE r == x % m
           q == x \div m
<1>3. r \in 0..(m - 1) /\ q \in Int /\ x = m * q + r
  BY <1>1, <1>2
<1> HIDE DEF r, q
<1>4. x + (m - r - 1) = m * q + (m - 1)
  BY <1>3
<1>5. (m * q + (m - 1)) % m = m - 1
  BY <1>3
<1> QED BY <1>3, <1>4, <1>5 DEF r

LEMMA PaddedSpanSound ==
  ASSUME NEW code, NEW name, SoundCode(code, name)
  PROVE  /\ SoundBlock(PaddedSpan(code), name)
         /\ PaddedSpan(code).kind = "span"
         /\ \A lists : PaddedSpan(code) \in BlocksOver(lists)
         /\ \A ops : StartsWith(code, ops) /\ Len(ops) \in Nat =>
              StartsWith(PaddedSpan(code).code, ops)
<1> DEFINE n == CycleLength - (Len(code) % CycleLength) - 1
           full == Emit(code, Times(n, <<"noop">>))
<1>1. CycleLength \in Nat \ {0} /\ Len(code) \in Nat
  BY CycleAssumption DEF SoundCode
<1>2. n \in Nat /\ (Len(code) + n) % CycleLength = CycleLength - 1
  BY <1>1, PaddingFills
<1>3. PaddedSpan(code) = Span(full)
  BY DEF PaddedSpan
<1> HIDE DEF n
<1>4. Times(n, <<"noop">>) \in Seq(Plain) /\ Len(Times(n, <<"noop">>)) = n
  BY <1>2, NoopsArePlain
<1>5. /\ SoundCode(full, name) /\ Len(full) = Len(code) + n
      /\ \A j \in 1..Len(code) : full[j] = code[j]
  BY <1>4, EmitAll
<1> HIDE DEF full
<1>6. SoundBlock(Span(full), name)
  BY <1>2, <1>5, SpanIsValid
<1>7. ASSUME NEW ops, StartsWith(code, ops), Len(ops) \in Nat PROVE StartsWith(full, ops)
  BY <1>1, <1>2, <1>5, <1>7 DEF StartsWith
<1> QED BY <1>3, <1>5, <1>6, <1>7, SpanIs DEF SoundCode

(* What parse_branch has: a list, and behind it the instructions of a span *)
(* that is not finished.                                                   *)
SoundBranch(body, code, head, lists) ==
  /\ SoundList(body, head, lists)
  /\ body # << >> => body[Len(body)].kind # "span"
  /\ SoundCode(code, IF body = << >> THEN head.name ELSE "block")
  /\ body = << >> => StartsWith(code, Guard(head))

Heads == {"begin", "block", "if", "else", "repeat", "while"}

LEMMA GuardLengths ==
  ASSUME NEW head, head.name \in Heads
  PROVE  Len(Guard(head)) \in Nat
BY DEF Guard, Heads

LEMMA AddSpanSound ==
  ASSUME NEW frame, NEW head, head.name \in Heads, NEW lists,
         SoundBranch(frame.body, frame.code, head, lists),
         NEW force \in BOOLEAN, force => frame.body = << >>
  PROVE  /\ SoundList(AddSpan(frame, force), head, lists)
         /\ force \/ frame.body # << >> \/ frame.code # << >> => AddSpan(frame, force) # << >>
         /\ frame.body # << >> => AddSpan(frame, force) # << >>
<1> DEFINE body == frame.body
           code == frame.code
           span == PaddedSpan(code)
           name == IF body = << >> THEN head.name ELSE "block"
<1>1. CASE code = << >> /\ ~ force
  BY <1>1 DEF AddSpan, SoundBranch
<1>2. CASE ~ (code = << >> /\ ~ force)
  <2>1. AddSpan(frame, force) = Append(body, span)
    BY <1>2 DEF AddSpan
  <2>2. SoundCode(code, name) /\ body \in Seq(BlocksOver(lists))
    BY DEF SoundBranch, SoundList
  <2>3. /\ SoundBlock(span, name) /\ span.kind = "span" /\ span \in BlocksOver(lists)
        /\ body = << >> => StartsWith(span.code, Guard(head))
    BY <2>2, PaddedSpanSound, GuardLengths DEF SoundBranch
  <2>4. name = Place(head, Len(body) + 1)
    <3>1. body = << >> <=> Len(body) + 1 = 1
      BY <2>2
    <3> QED BY <3>1 DEF Place
  <2> HIDE DEF span, name, body, code
  <2>5. SoundList(Append(body, span), head, lists)
    BY <2>3, <2>4, AppendSound DEF SoundBranch, body, code
  <2>6. Append(body, span) # << >>
    <3> DEFINE longer == Append(body, span)
    <3>1. Len(longer) = Len(body) + 1 /\ Len(body) \in Nat
      BY <2>2, <2>3
    <3> HIDE DEF longer
    <3>2. longer # << >>
      BY <3>1
    <3> QED BY <3>2 DEF longer
  <2> QED BY <2>1, <2>5, <2>6
<1> QED BY <1>1, <1>2

LEMMA SpansAreAccepted ==
  ASSUME NEW s, NEW head, NEW lists, SoundList(s, head, lists)
  PROVE  SpansAccepted(s)
BY DEF SpansAccepted, SoundList, SoundBlock, ValidBlock

(* the false branch that stands for none *)
LEMMA NoElseSound ==
  ASSUME NEW lists, NEW head, head.name = "else"
  PROVE  NoElse # << >> /\ SoundList(NoElse, head, lists)
<1> DEFINE code == Emit(<< >>, <<"not", "assert">>)
           span == PaddedSpan(code)
<1>1. SoundCode(<< >>, "else")
  BY DEF SoundCode
<1>2. <<"not", "assert">> \in PlainCode
  BY TablesArePlain
<1>3. SoundCode(code, "else")
  BY <1>1, <1>2, EmitSound DEF Extended
<1>4. StartsWith(code, <<"not", "assert">>)
  BY DEF StartsWith, Emit, Instr
<1> HIDE DEF code
<1>5. /\ SoundBlock(span, "else") /\ span.kind = "span" /\ span \in BlocksOver(lists)
      /\ StartsWith(span.code, <<"not", "assert">>)
  BY <1>3, <1>4, PaddedSpanSound
<1>6. NoElse = <<span>>
  BY DEF NoElse, code
<1> HIDE DEF span
<1>7. SoundList(<<span>>, head, lists)
  BY <1>5, Guards DEF SoundList, Place, Alternates
<1> QED BY <1>6, <1>7

(* the block a loop skips to is one as well *)
LEMMA SkipSound ==
  ASSUME NEW lists, <<LoopSkipBlock>> \in lists
  PROVE  SoundList(<<LoopSkipBlock>>, BlockHead, lists)
<1> DEFINE code == [i \in 1..(CycleLength - 1) |->
                      Instr(CASE i = 1 -> "not" [] i = 2 -> "assert" [] OTHER -> "noop")]
<1>1. LoopSkipBlock = Span(code)
  BY DEF LoopSkipBlock
<1>2. CycleLength - 1 \in Nat /\ CycleLength \in Nat /\ CycleLength > 2
  BY CycleAssumption
<1>3. ASSUME NEW i \in 1..(CycleLength - 1)
      PROVE  code[i] \in Instrs /\ SoundInstr(code[i], i, "block")
  <2>1. \E op \in Plain : code[i] = Instr(op)
    <3>1. "not" \in Plain /\ "assert" \in Plain /\ "noop" \in Plain
      BY TablesArePlain
    <3> QED BY <3>1
  <2> QED BY <2>1, PlainInstrIsSound
<1>4. code \in Seq(Instrs) /\ Len(code) = CycleLength - 1
  <2>1. code \in [1..(CycleLength - 1) -> Instrs]
    BY <1>3
  <2> QED BY <1>2, <2>1
<1> HIDE DEF code
<1>5. SoundCode(code, "block")
  BY <1>3, <1>4 DEF SoundCode
<1>6. Len(code) % CycleLength = CycleLength - 1
  BY <1>2, <1>4
<1>7. SoundBlock(Span(code), "block")
  BY <1>5, <1>6, SpanIsValid
<1>8. Span(code).kind = "span" /\ Span(code) \in BlocksOver(lists) /\ Span(code).code = code
  BY <1>4, SpanIs
<1>9. StartsWith(code, Guard(BlockHead))
  BY <1>4, Guards, StartsWithNothing
<1> DEFINE span == Span(code)
<1> HIDE DEF span
<1>10. SoundList(<<span>>, BlockHead, lists)
  BY <1>7, <1>8, <1>9, Guards DEF SoundList, Place, Alternates, span
<1> QED BY <1>1, <1>10 DEF span
-----------------------------------------------------------------------------
(* Repeated bodies. *)

LEMMA ShiftByMultiple ==
  ASSUME NEW p \in Nat \ {0}, NEW a \in Nat, a % p = 0, NEW b \in Nat
  PROVE  (a + b) % p = b % p
<1>1. /\ a = p * (a \div p) + (a % p) /\ a \div p \in Int
      /\ b = p * (b \div p) + (b % p) /\ b \div p \in Int
      /\ b % p \in 0..(p - 1)
  OBVIOUS
<1> DEFINE q == a \div p
           t == b \div p
           r == b % p
<1>2. q \in Int /\ t \in Int /\ r \in 0..(p - 1) /\ a = p * q /\ b = p * t + r
  BY <1>1
<1> HIDE DEF q, t, r
<1>3. a + b = p * (q + t) + r
  BY <1>2
<1>4. (p * (q + t) + r) % p = r
  BY <1>2
<1> QED BY <1>3, <1>4 DEF r

LEMMA AfterCycleAligned ==
  ASSUME NEW m \in Nat \ {0}, NEW p \in Nat \ {0}, m % p = 0,
         NEW x \in Nat, x % m = m - 1
  PROVE  (x + 1) % p = 0 /\ (x + 1) % m = 0
<1>1. /\ m = p * (m \div p) + (m % p) /\ m \div p \in Int
      /\ x = m * (x \div m) + (x % m) /\ x \div m \in Int
  OBVIOUS
<1> DEFINE c == m \div p
           q == x \div m
<1>2. c \in Int /\ q \in Int /\ m = p * c /\ x + 1 = m * (q + 1)
  BY <1>1
<1> HIDE DEF c, q
<1>3. (m * (q + 1)) % m = 0
  <2> DEFINE k == q + 1
  <2>1. k \in Int
    BY <1>2
  <2> HIDE DEF k
  <2>2. (m * k) % m = 0
    BY <2>1
  <2> QED BY <2>2 DEF k
<1>4. x + 1 = p * (c * (q + 1))
  <2>1. m * (q + 1) = p * (c * (q + 1))
    BY <1>2
  <2> QED BY <1>2, <2>1
<1>5. (p * (c * (q + 1))) % p = 0
  <2> DEFINE k == c * (q + 1)
  <2>1. k \in Int
    BY <1>2
  <2> HIDE DEF k
  <2>2. (p * k) % p = 0
    BY <2>1
  <2> QED BY <2>2 DEF k
<1> QED BY <1>2, <1>3, <1>4, <1>5

LEMMA MergeSound ==
  ASSUME NEW span1, NEW span2, NEW name, span1.kind = "span", span2.kind = "span",
         SoundBlock(span1, name), SoundBlock(span2, "block")
  PROVE  /\ SoundBlock(MergeSpans(span1, span2), name)
         /\ MergeSpans(span1, span2).kind = "span"
         /\ \A lists : MergeSpans(span1, span2) \in BlocksOver(lists)
<1> DEFINE a == span1.code
           b == span2.code
           noop == Instr("noop")
           code == Append(a, noop) \o b
<1>1. /\ SoundCode(a, name) /\ Len(a) % CycleLength = CycleLength - 1
      /\ SoundCode(b, "block") /\ Len(b) % CycleLength = CycleLength - 1
  BY DEF SoundBlock, ValidBlock, ValidSpan
<1>2. a \in Seq(Instrs) /\ b \in Seq(Instrs) /\ Len(a) \in Nat /\ Len(b) \in Nat
  BY <1>1 DEF SoundCode
<1>3. noop \in Instrs /\ \A j : SoundInstr(noop, j, name)
  BY TablesArePlain, PlainInstrIsSound
<1>4. MergeSpans(span1, span2) = Span(code)
  BY DEF MergeSpans
<1> HIDE DEF a, b, noop
<1>5. /\ code \in Seq(Instrs) /\ Len(code) = Len(a) + 1 + Len(b)
      /\ \A j \in 1..Len(a) : code[j] = a[j]
      /\ code[Len(a) + 1] = noop
      /\ \A j \in (Len(a) + 2)..Len(code) :
           j - Len(a) - 1 \in 1..Len(b) /\ code[j] = b[j - Len(a) - 1]
  BY <1>2, <1>3
<1> HIDE DEF code
<1>6. /\ CycleLength \in Nat \ {0} /\ PushAlignment \in Nat \ {0}
      /\ CycleLength % PushAlignment = 0
  BY CycleAssumption, AlignmentAssumption
<1>7. (Len(a) + 1) % PushAlignment = 0 /\ (Len(a) + 1) % CycleLength = 0
  BY <1>1, <1>2, <1>6, AfterCycleAligned
<1>8. Len(code) % CycleLength = CycleLength - 1
  <2>1. Len(a) + 1 \in Nat
    BY <1>2
  <2>2. ((Len(a) + 1) + Len(b)) % CycleLength = Len(b) % CycleLength
    BY <1>2, <1>6, <1>7, <2>1, ShiftByMultiple
  <2> QED BY <1>1, <1>5, <2>2
<1>9. ASSUME NEW j \in 1..Len(code) PROVE SoundInstr(code[j], j, name)
  <2>1. CASE j \in 1..Len(a)
    BY <1>1, <1>5, <2>1 DEF SoundCode
  <2>2. CASE j = Len(a) + 1
    BY <1>3, <1>5, <2>2
  <2>3. CASE j \in (Len(a) + 2)..Len(code)
    <3> DEFINE i == j - Len(a) - 1
    <3>1. i \in 1..Len(b) /\ code[j] = b[i]
      BY <1>5, <2>3
    <3>2. j - 1 = (Len(a) + 1) + (i - 1)
      BY <1>2
    <3> HIDE DEF i
    <3>3. SoundInstr(b[i], i, "block")
      BY <1>1, <3>1 DEF SoundCode
    <3>4. (j - 1) % PushAlignment = (i - 1) % PushAlignment
      <4>1. i - 1 \in Nat /\ Len(a) + 1 \in Nat
        BY <1>2, <3>1
      <4>2. ((Len(a) + 1) + (i - 1)) % PushAlignment = (i - 1) % PushAlignment
        BY <1>6, <1>7, <4>1, ShiftByMultiple
      <4> QED BY <3>2, <4>2
    <3> QED BY <3>1, <3>3, <3>4 DEF SoundInstr
  <2> QED BY <1>2, <1>5, <2>1, <2>2, <2>3
<1>10. SoundCode(code, name)
  BY <1>5, <1>9 DEF SoundCode
<1>11. SoundBlock(Span(code), name)
  BY <1>8, <1>10, SpanIsValid
<1> QED BY <1>4, <1>5, <1>11, SpanIs

LEMMA FrontIs ==
  ASSUME NEW S, NEW s \in Seq(S), s # << >>
  PROVE  /\ Front(s) \in Seq(S) /\ Len(Front(s)) = Len(s) - 1
         /\ \A i \in 1..(Len(s) - 1) : Front(s)[i] = s[i]
<1>1. Len(s) \in Nat /\ Len(s) >= 1
  OBVIOUS
<1>2. SubSeq(s, 1, Len(s) - 1) \in Seq(S)
  BY <1>1
<1>3. Len(SubSeq(s, 1, Len(s) - 1)) = Len(s) - 1
  BY <1>1
<1>4. \A i \in 1..(Len(s) - 1) : SubSeq(s, 1, Len(s) - 1)[i] = s[i]
  BY <1>1
<1> QED BY <1>2, <1>3, <1>4 DEF Front

(* Putting blocks behind a list that is not empty. *)
LEMMA JoinSound ==
  ASSUME NEW a, NEW lists, SoundList(a, BlockHead, lists), a # << >>,
         NEW b \in Seq(BlocksOver(lists)), \A i \in 1..Len(b) : SoundBlock(b[i], "block"),
         Alternates(b),
         b # << >> /\ b[1].kind = "span" => a[Len(a)].kind # "span"
  PROVE  SoundList(a \o b, BlockHead, lists)
<1> DEFINE c == a \o b
<1>1. a \in Seq(BlocksOver(lists)) /\ Len(a) \in Nat /\ Len(a) >= 1 /\ Len(b) \in Nat
  BY DEF SoundList
<1>2. /\ c \in Seq(BlocksOver(lists)) /\ Len(c) = Len(a) + Len(b)
      /\ \A i \in 1..Len(a) : c[i] = a[i]
      /\ \A i \in (Len(a) + 1)..Len(c) : i - Len(a) \in 1..Len(b) /\ c[i] = b[i - Len(a)]
  BY <1>1
<1> HIDE DEF c
<1>3. ASSUME NEW i \in 1..Len(c) PROVE SoundBlock(c[i], Place(BlockHead, i))
  <2>1. CASE i \in 1..Len(a)
    BY <1>2, <2>1 DEF SoundList
  <2>2. CASE i \in (Len(a) + 1)..Len(c)
    <3>1. Place(BlockHead, i) = "block"
      BY Guards DEF Place
    <3> QED BY <1>2, <2>2, <3>1
  <2> QED BY <1>1, <1>2, <2>1, <2>2
<1>4. ASSUME NEW i \in 2..Len(c), c[i].kind = "span" PROVE c[i - 1].kind # "span"
  <2>1. CASE i \in 2..Len(a)
    <3>1. i \in 1..Len(a) /\ i - 1 \in 1..Len(a)
      BY <1>1, <2>1
    <3> QED BY <1>2, <1>4, <2>1, <3>1 DEF SoundList, Alternates
  <2>2. CASE i = Len(a) + 1
    <3>1. i - 1 = Len(a) /\ Len(a) \in 1..Len(a) /\ i \in (Len(a) + 1)..Len(c) /\ i - Len(a) = 1
      BY <1>1, <1>2, <2>2
    <3>2. c[i - 1] = a[Len(a)] /\ c[i] = b[1] /\ 1 \in 1..Len(b)
      BY <1>2, <3>1
    <3>3. b # << >>
      BY <1>1, <3>2
    <3> QED BY <1>4, <3>2, <3>3
  <2>3. CASE i \in (Len(a) + 2)..Len(c)
    <3> DEFINE j == i - Len(a)
    <3>1. i \in (Len(a) + 1)..Len(c) /\ i - 1 \in (Len(a) + 1)..Len(c) /\ (i - 1) - Len(a) = j - 1
      BY <1>1, <1>2, <2>3
    <3>2. j \in 1..Len(b) /\ c[i] = b[j] /\ c[i - 1] = b[j - 1]
      BY <1>2, <3>1
    <3>3. j \in 2..Len(b)
      BY <1>1, <2>3, <3>2
    <3> HIDE DEF j
    <3> QED BY <1>4, <3>2, <3>3 DEF Alternates
  <2> QED BY <1>1, <1>2, <2>1, <2>2, <2>3
<1>5. /\ c # << >>
      /\ c[1].kind = "span" /\ StartsWith(c[1].code, Guard(BlockHead))
  <2>1. 1 \in 1..Len(a) /\ Len(c) >= 1
    BY <1>1, <1>2
  <2> QED BY <1>2, <2>1 DEF SoundList
<1>6. SoundList(c, BlockHead, lists)
  BY <1>2, <1>3, <1>4, <1>5 DEF SoundList, Alternates
<1> QED BY <1>6 DEF c

OneMore(previous, template) ==
  IF Last(template).kind # "span" THEN previous \o template
  ELSE Front(previous) \o <<MergeSpans(Last(previous), template[1])>> \o Tail(template)

(* a body that may be repeated once more *)
Repeatable(s, template, lists) ==
  /\ s # << >> /\ SoundList(s, BlockHead, lists)
  /\ Last(s).kind = "span" <=> Last(template).kind = "span"

LEMMA OneMoreSound ==
  ASSUME NEW lists, NEW template, template # << >>, SoundList(template, BlockHead, lists),
         NEW s, Repeatable(s, template, lists)
  PROVE  Repeatable(OneMore(s, template), template, lists)
<1> DEFINE t == template
<1>1. /\ t \in Seq(BlocksOver(lists)) /\ Len(t) \in Nat /\ Len(t) >= 1
      /\ s \in Seq(BlocksOver(lists)) /\ Len(s) \in Nat /\ Len(s) >= 1
  BY DEF SoundList, Repeatable
<1>2. \A i \in 1..Len(t) : SoundBlock(t[i], "block")
  BY Guards DEF SoundList, Place
<1>3. Last(t) = t[Len(t)] /\ Last(s) = s[Len(s)]
  BY DEF Last
<1>4. CASE Last(t).kind # "span"
  <2>1. SoundList(s \o t, BlockHead, lists)
    BY <1>1, <1>2, <1>3, <1>4, JoinSound DEF SoundList, Repeatable
  <2>2. s \o t # << >> /\ Last(s \o t) = Last(t)
    <3> DEFINE joined == s \o t
    <3>1. Len(joined) = Len(s) + Len(t) /\ joined[Len(s) + Len(t)] = t[Len(t)]
      BY <1>1
    <3> HIDE DEF joined
    <3>2. joined # << >> /\ Last(joined) = joined[Len(joined)]
      BY <1>1, <3>1 DEF Last
    <3> QED BY <1>3, <3>1, <3>2 DEF joined
  <2> QED BY <1>4, <2>1, <2>2 DEF Repeatable, OneMore
<1>5. CASE Last(t).kind = "span"
  <2> DEFINE front == Front(s)
             merged == MergeSpans(Last(s), t[1])
             start == Append(front, merged)
             rest == Tail(t)
             joined == start \o rest
  <2>1. /\ front \in Seq(BlocksOver(lists)) /\ Len(front) = Len(s) - 1
        /\ \A i \in 1..Len(front) : front[i] = s[i]
    BY <1>1, FrontIs DEF Repeatable
  <2>2. /\ rest \in Seq(BlocksOver(lists)) /\ Len(rest) = Len(t) - 1
        /\ \A i \in 1..Len(rest) : rest[i] = t[i + 1]
    BY <1>1
  <2>3. /\ Last(s).kind = "span" /\ SoundBlock(Last(s), "block")
        /\ t[1].kind = "span" /\ SoundBlock(t[1], "block")
    <3>1. 1 \in 1..Len(t) /\ Len(s) \in 1..Len(s)
      BY <1>1
    <3>2. SoundBlock(s[Len(s)], "block")
      BY <3>1, Guards DEF Repeatable, SoundList, Place
    <3> QED BY <1>2, <1>3, <1>5, <3>1, <3>2 DEF Repeatable, SoundList
  <2>4. SoundBlock(merged, "block") /\ merged.kind = "span" /\ merged \in BlocksOver(lists)
    BY <2>3, MergeSound
  <2> HIDE DEF front, merged, rest
  <2>5. SoundList(front, BlockHead, lists)
    <3>1. \A i \in 1..Len(front) : i \in 1..Len(s) /\ SoundBlock(front[i], Place(BlockHead, i))
      BY <1>1, <2>1 DEF SoundList, Repeatable
    <3>2. Alternates(front)
      <4> SUFFICES ASSUME NEW i \in 2..Len(front), front[i].kind = "span"
                   PROVE  front[i - 1].kind # "span"
        BY DEF Alternates
      <4>1. i \in 2..Len(s) /\ i \in 1..Len(front) /\ i - 1 \in 1..Len(front)
        BY <1>1, <2>1
      <4> QED BY <2>1, <4>1 DEF SoundList, Repeatable, Alternates
    <3>3. front # << >> =>
            front[1].kind = "span" /\ StartsWith(front[1].code, Guard(BlockHead))
      <4>1. front # << >> => 1 \in 1..Len(front)
        BY <2>1
      <4> QED BY <2>1, <4>1 DEF SoundList, Repeatable
    <3> QED BY <2>1, <3>1, <3>2, <3>3 DEF SoundList
  <2>6. front # << >> => front[Len(front)].kind # "span"
    <3> SUFFICES ASSUME front # << >> PROVE front[Len(front)].kind # "span"
      OBVIOUS
    <3>1. Len(front) \in 1..Len(front) /\ Len(s) \in 2..Len(s) /\ Len(front) = Len(s) - 1
      BY <1>1, <2>1
    <3> QED BY <1>3, <2>1, <2>3, <3>1 DEF SoundList, Repeatable, Alternates
  <2>7. StartsWith(merged.code, Guard(BlockHead))
    <3>1. merged.code \in Seq(Instrs)
      BY <2>4 DEF SoundBlock, SoundCode
    <3> QED BY <3>1, Guards, StartsWithNothing
  <2>8. SoundBlock(merged, Place(BlockHead, Len(front) + 1))
    BY <2>4, Guards DEF Place
  <2>9. SoundList(start, BlockHead, lists)
    BY <2>4, <2>5, <2>6, <2>7, <2>8, AppendSound
  <2>10. Len(start) = Len(s) /\ start[Len(s)] = merged /\ start # << >>
    <3>1. Len(start) = Len(front) + 1 /\ start[Len(front) + 1] = merged
      BY <2>1, <2>4
    <3> HIDE DEF start
    <3> QED BY <1>1, <2>1, <3>1
  <2>11. start \in Seq(BlocksOver(lists))
    BY <2>9 DEF SoundList
  <2> HIDE DEF start
  <2>12. \A i \in 1..Len(rest) : SoundBlock(rest[i], "block")
    BY <1>1, <1>2, <2>2
  <2>13. Alternates(rest) /\ (rest # << >> => rest[1].kind # "span")
    <3>1. ASSUME NEW i \in 2..Len(t), t[i].kind = "span" PROVE t[i - 1].kind # "span"
      BY <3>1 DEF SoundList, Alternates
    <3>2. ASSUME NEW i \in 2..Len(rest), rest[i].kind = "span" PROVE rest[i - 1].kind # "span"
      <4>1. i \in 1..Len(rest) /\ i - 1 \in 1..Len(rest) /\ i + 1 \in 2..Len(t)
        BY <1>1, <2>2
      <4>2. rest[i] = t[i + 1] /\ rest[i - 1] = t[(i - 1) + 1] /\ (i - 1) + 1 = (i + 1) - 1
        BY <2>2, <4>1
      <4> QED BY <3>1, <3>2, <4>1, <4>2
    <3>3. ASSUME rest # << >> PROVE rest[1].kind # "span"
      <4>1. 1 \in 1..Len(rest) /\ 2 \in 2..Len(t) /\ 1 + 1 = 2 /\ 2 - 1 = 1
        BY <1>1, <2>2, <3>3
      <4>2. rest[1] = t[2]
        BY <2>2, <4>1
      <4> QED BY <2>3, <3>1, <4>1, <4>2
    <3> QED BY <3>2, <3>3 DEF Alternates
  <2>14. SoundList(joined, BlockHead, lists)
    BY <2>2, <2>9, <2>10, <2>12, <2>13, JoinSound
  <2>15. joined # << >> /\ Last(joined).kind = "span"
    <3>1. /\ Len(joined) = Len(s) + (Len(t) - 1)
          /\ \A i \in 1..Len(start) : joined[i] = start[i]
          /\ \A i \in 1..Len(rest) : joined[Len(start) + i] = rest[i]
      <4> DEFINE S == BlocksOver(lists)
      <4>1. start \in Seq(S) /\ rest \in Seq(S) /\ joined = start \o rest
        BY <2>2, <2>11
      <4> HIDE DEF S, joined
      <4>2. /\ Len(joined) = Len(start) + Len(rest)
            /\ \A i \in 1..Len(start) : joined[i] = start[i]
            /\ \A i \in 1..Len(rest) : joined[Len(start) + i] = rest[i]
        <5>1. Len(joined) = Len(start) + Len(rest) /\ Len(start) \in Nat /\ Len(rest) \in Nat
          BY <4>1
        <5>2. \A i \in 1..Len(start) : joined[i] = start[i]
          BY <4>1
        <5>3. ASSUME NEW i \in 1..Len(rest) PROVE joined[Len(start) + i] = rest[i]
          <6>1. /\ Len(start) + i \in 1..(Len(start) + Len(rest))
                /\ ~ (Len(start) + i <= Len(start))
                /\ (Len(start) + i) - Len(start) = i
            BY <5>1
          <6> QED BY <4>1, <6>1
        <5> QED BY <5>1, <5>2, <5>3
      <4> QED BY <2>2, <2>10, <4>1, <4>2
    <3> HIDE DEF joined
    <3>2. CASE Len(t) = 1
      <4>1. Len(joined) = Len(s) /\ Len(s) \in 1..Len(start)
        BY <1>1, <2>10, <3>1, <3>2
      <4>2. joined[Len(joined)] = merged
        BY <2>10, <3>1, <4>1
      <4> QED BY <1>1, <2>4, <4>1, <4>2 DEF Last
    <3>3. CASE Len(t) # 1
      <4>1. Len(rest) \in 1..Len(rest) /\ Len(rest) + 1 = Len(t)
        BY <1>1, <2>2, <3>3
      <4>2. joined[Len(start) + Len(rest)] = t[Len(t)] /\ Len(joined) = Len(start) + Len(rest)
        BY <1>1, <2>2, <2>10, <3>1, <4>1
      <4> QED BY <1>1, <1>3, <1>5, <2>10, <4>1, <4>2 DEF Last
    <3> QED BY <3>2, <3>3
  <2>16. OneMore(s, t) = joined
    <3>1. OneMore(s, t) = front \o <<merged>> \o rest
      BY <1>5 DEF OneMore, front, merged, rest
    <3>2. front \o <<merged>> = Append(front, merged)
      BY <2>1, <2>4
    <3> QED BY <3>1, <3>2 DEF start
  <2> QED BY <1>5, <2>14, <2>15, <2>16 DEF Repeatable
<1> QED BY <1>4, <1>5

(* repeat_block_sequence, copy by copy *)
Repeats(f, m, template) ==
  /\ f = [n \in 1..m |-> f[n]]
  /\ \A n \in 1..m : f[n] = IF n = 1 THEN template ELSE OneMore(f[n - 1], template)

LEMMA RepeatsExist ==
  ASSUME NEW template
  PROVE  \A m \in Nat : \E f : Repeats(f, m, template)
<1> DEFINE S == {m \in Nat : \E f : Repeats(f, m, template)}
<1>1. 0 \in S
  <2>1. Repeats([n \in 1..0 |-> n], 0, template)
    BY DEF Repeats
  <2> QED BY <2>1
<1>2. ASSUME NEW m \in Nat, m \in S PROVE m + 1 \in S
  <2>1. PICK f : Repeats(f, m, template)
    BY <1>2
  <2> DEFINE top == IF m = 0 THEN template ELSE OneMore(f[m], template)
             g == [n \in 1..(m + 1) |-> IF n = m + 1 THEN top ELSE f[n]]
  <2> HIDE DEF top
  <2>2. ASSUME NEW n \in 1..(m + 1)
        PROVE  g[n] = IF n = 1 THEN template ELSE OneMore(g[n - 1], template)
    <3>1. CASE n = m + 1
      <4>1. g[n] = top
        BY <3>1
      <4>2. CASE m = 0
        BY <3>1, <4>1, <4>2 DEF top
      <4>3. CASE m # 0
        <5>1. g[m] = f[m] /\ n # 1 /\ n - 1 = m
          BY <3>1, <4>3
        <5> HIDE DEF g
        <5> QED BY <4>1, <4>3, <5>1 DEF top
      <4> QED BY <4>2, <4>3
    <3>2. CASE n # m + 1
      <4>1. n \in 1..m /\ g[n] = f[n] /\ (n # 1 => n - 1 \in 1..m /\ g[n - 1] = f[n - 1])
        BY <3>2
      <4> HIDE DEF g
      <4> QED BY <2>1, <4>1 DEF Repeats
    <3> QED BY <3>1, <3>2
  <2>3. Repeats(g, m + 1, template)
    <3> HIDE DEF g
    <3>1. g = [n \in 1..(m + 1) |-> g[n]]
      BY DEF g
    <3> QED BY <2>2, <3>1 DEF Repeats
  <2> QED BY <2>3
<1> HIDE DEF S
<1>3. \A m \in Nat : m \in S
  BY <1>1, <1>2, Inductive
<1> QED BY <1>3 DEF S

LEMMA RepeatedIs ==
  ASSUME NEW template, NEW count \in Nat
  PROVE  \E f : Repeats(f, count, template) /\ RepeatBlocks(template, count) = f[count]
<1> DEFINE Is(f) == f = [n \in 1..count |->
        CASE n = 1 -> template
          [] n > 1 /\ Last(template).kind # "span" -> f[n - 1] \o template
          [] OTHER -> Front(f[n - 1])
                        \o <<MergeSpans(Last(f[n - 1]), template[1])>> \o Tail(template)]
<1>1. ASSUME NEW f, NEW n \in 1..count
      PROVE  (IF n = 1 THEN template ELSE OneMore(f[n - 1], template))
               = CASE n = 1 -> template
                   [] n > 1 /\ Last(template).kind # "span" -> f[n - 1] \o template
                   [] OTHER -> Front(f[n - 1])
                                 \o <<MergeSpans(Last(f[n - 1]), template[1])>> \o Tail(template)
  <2>1. CASE n = 1
    BY <2>1
  <2>2. CASE n # 1
    <3>1. n > 1
      BY <2>2
    <3> QED BY <2>2, <3>1 DEF OneMore
  <2> QED BY <2>1, <2>2
<1>2. PICK f : Repeats(f, count, template)
  BY RepeatsExist
<1>3. Is(f)
  <2>1. f = [n \in 1..count |-> f[n]]
    BY <1>2 DEF Repeats
  <2>2. \A n \in 1..count : f[n] =
          CASE n = 1 -> template
            [] n > 1 /\ Last(template).kind # "span" -> f[n - 1] \o template
            [] OTHER -> Front(f[n - 1])
                          \o <<MergeSpans(Last(f[n - 1]), template[1])>> \o Tail(template)
    BY <1>1, <1>2 DEF Repeats
  <2> QED BY <2>1, <2>2
<1> DEFINE body == CHOOSE g : Is(g)
<1>4. Is(body)
  BY <1>3
<1>5. RepeatBlocks(template, count) = body[count]
  BY DEF RepeatBlocks
<1>6. Repeats(body, count, template)
  <2> HIDE DEF body
  <2>1. \A n \in 1..count : body[n] =
          CASE n = 1 -> template
            [] n > 1 /\ Last(template).kind # "span" -> body[n - 1] \o template
            [] OTHER -> Front(body[n - 1])
                          \o <<MergeSpans(Last(body[n - 1]), template[1])>> \o Tail(template)
    BY <1>4
  <2>2. body = [n \in 1..count |-> body[n]]
    BY <1>4
  <2> QED BY <1>1, <2>1, <2>2 DEF Repeats
<1> QED BY <1>5, <1>6

LEMMA RepeatedSound ==
  ASSUME NEW lists, NEW template, template # << >>, SoundList(template, BlockHead, lists),
         NEW count \in Nat, count >= 1
  PROVE  /\ RepeatBlocks(template, count) # << >>
         /\ SoundList(RepeatBlocks(template, count), BlockHead, lists)
<1>1. PICK f : Repeats(f, count, template) /\ RepeatBlocks(template, count) = f[count]
  BY RepeatedIs
<1> DEFINE S == {n \in Nat : n + 1 \in 1..count => Repeatable(f[n + 1], template, lists)}
<1>2. 0 \in S
  <2>1. f[1] = template
    <3>1. 1 \in 1..count
      OBVIOUS
    <3>2. \A n \in 1..count : f[n] = IF n = 1 THEN template ELSE OneMore(f[n - 1], template)
      BY <1>1 DEF Repeats
    <3> QED BY <3>1, <3>2
  <2>2. Repeatable(f[0 + 1], template, lists)
    BY <2>1 DEF Repeatable
  <2> QED BY <2>2
<1>3. ASSUME NEW n \in Nat, n \in S PROVE n + 1 \in S
  <2> SUFFICES ASSUME (n + 1) + 1 \in 1..count
               PROVE  Repeatable(f[(n + 1) + 1], template, lists)
    OBVIOUS
  <2>1. n + 1 \in 1..count /\ (n + 1) + 1 # 1 /\ ((n + 1) + 1) - 1 = n + 1
    OBVIOUS
  <2>2. f[(n + 1) + 1] = OneMore(f[n + 1], template)
    BY <1>1, <2>1 DEF Repeats
  <2> QED BY <1>3, <2>1, <2>2, OneMoreSound
<1> HIDE DEF S
<1>4. \A n \in Nat : n \in S
  BY <1>2, <1>3, Inductive
<1>5. count - 1 \in Nat /\ (count - 1) + 1 = count /\ count \in 1..count
  OBVIOUS
<1>6. Repeatable(f[count], template, lists)
  BY <1>4, <1>5 DEF S
<1> QED BY <1>1, <1>6 DEF Repeatable
-----------------------------------------------------------------------------
(* The blocks parse_block makes. *)

LEMMA ListAdded ==
  ASSUME NEW lists, Forest(lists), NEW s, s # << >>, SoundList(s, BlockHead, lists)
  PROVE  Forest(lists \cup {s})
<1> DEFINE more == lists \cup {s}
<1>1. lists \subseteq more /\ s \in more
  OBVIOUS
<1>2. \A t, head : SoundList(t, head, lists) => SoundList(t, head, more)
  BY <1>1, MoreLists
<1>3. \A t \in more : t # << >> /\ SoundList(t, BlockHead, lists)
  BY DEF Forest
<1> HIDE DEF more
<1>4. Forest(more)
  BY <1>1, <1>2, <1>3 DEF Forest
<1> QED BY <1>4 DEF more

(* the true branch in the frame of a false one *)
SoundThen(then, lists) ==
  /\ then # << >>
  /\ \E head : head.name = "if" /\ SoundList(then, head, lists)

SoundBuilt(block, lists) ==
  block \in BlocksOver(lists) /\ block.kind # "span" /\ Accepted(block)

LEMMA GroupSound ==
  ASSUME NEW lists, Forest(lists), NEW body, body # << >>, SoundList(body, BlockHead, lists)
  PROVE  Forest(lists \cup {body}) /\ SoundBuilt(Group(body), lists \cup {body})
<1>1. Forest(lists \cup {body})
  BY ListAdded
<1>2. Group(body).kind = "group" /\ Group(body).body = body
  BY DEF Group
<1>3. Group(body) \in BlocksOver(lists \cup {body})
  BY DEF Group, BlocksOver
<1>4. ValidBlockList(body, << >>) /\ SpansAccepted(body)
  BY ListIsValid, SpansAreAccepted
<1> QED BY <1>1, <1>2, <1>3, <1>4 DEF SoundBuilt, Accepted, ValidBlock

LEMMA LoopSound ==
  ASSUME NEW lists, Forest(lists), NEW body, body # << >>,
         NEW head, head.name = "while", SoundList(body, head, lists)
  PROVE  Forest(lists \cup {body}) /\ SoundBuilt(Loop(body), lists \cup {body})
<1>1. SoundList(body, BlockHead, lists)
  BY ListElsewhere
<1>2. Forest(lists \cup {body})
  BY <1>1, ListAdded
<1>3. Loop(body).kind = "loop" /\ Loop(body).body = body /\ Loop(body).skip = <<LoopSkipBlock>>
  BY DEF Loop
<1>4. Loop(body) \in BlocksOver(lists \cup {body})
  BY DEF Loop, BlocksOver
<1>5. ValidBlockList(body, <<"assert">>)
  BY ListIsValid, Guards
<1> QED BY <1>2, <1>3, <1>4, <1>5 DEF SoundBuilt, Accepted, ValidBlock

LEMMA SwitchSound ==
  ASSUME NEW lists, Forest(lists), NEW t, SoundThen(t, lists), NEW f, f # << >>,
         NEW other, other.name = "else", SoundList(f, other, lists)
  PROVE  /\ Forest(lists \cup {t} \cup {f})
         /\ SoundBuilt(Switch(t, f), lists \cup {t} \cup {f})
<1>1. PICK head : head.name = "if" /\ SoundList(t, head, lists)
  BY DEF SoundThen
<1>2. SoundList(t, BlockHead, lists) /\ SoundList(f, BlockHead, lists)
  BY <1>1, ListElsewhere
<1>3. Forest(lists \cup {t})
  BY <1>2, ListAdded DEF SoundThen
<1>4. SoundList(f, BlockHead, lists \cup {t})
  BY <1>2, MoreLists
<1>5. Forest(lists \cup {t} \cup {f})
  BY <1>3, <1>4, ListAdded
<1>6. /\ Switch(t, f).kind = "switch"
      /\ Switch(t, f).t_branch = t /\ Switch(t, f).f_branch = f
  BY DEF Switch
<1>7. Switch(t, f) \in BlocksOver(lists \cup {t} \cup {f})
  BY DEF Switch, BlocksOver
<1>8. ValidBlockList(t, <<"assert">>) /\ ValidBlockList(f, <<"not", "assert">>)
  BY <1>1, ListIsValid, Guards DEF SoundThen
<1> QED BY <1>5, <1>6, <1>7, <1>8 DEF SoundBuilt, Accepted, ValidBlock

(* what the head of a frame that is not the outermost may be *)
SoundHead(head) ==
  /\ head.name \in Heads \ {"begin"}
  /\ head.name = "repeat" => head.params[1].number \in Nat /\ head.params[1].number >= 2

(* Every block passes the assertions of its constructor, and so does what  *)
(* a repeat merges.                                                        *)
LEMMA BlockSound ==
  ASSUME NEW lists, Forest(lists), NEW frame, SoundHead(frame.head),
         frame.head.name = "else" => SoundThen(frame.then, lists),
         NEW body, body # << >>, SoundList(body, frame.head, lists)
  PROVE  \E more : /\ lists \subseteq more /\ Forest(more)
                   /\ SoundBuilt(Block(frame, body), more)
<1>1. SoundList(body, BlockHead, lists)
  BY ListElsewhere DEF SoundHead
<1>2. CASE frame.head.name = "block"
  <2>1. Block(frame, body) = Group(body)
    BY <1>2 DEF Block
  <2>9. Forest(lists \cup {body}) /\ SoundBuilt(Group(body), lists \cup {body})
    BY <1>1, GroupSound
  <2> QED BY <2>1, <2>9
<1>3. CASE frame.head.name = "if"
  <2>1. Block(frame, body) = Switch(body, NoElse)
    BY <1>3 DEF Block
  <2>2. SoundThen(body, lists)
    BY <1>3 DEF SoundThen
  <2> DEFINE other == Token("else", << >>)
  <2>3. other.name = "else"
    BY DEF Token
  <2>4. NoElse # << >> /\ SoundList(NoElse, other, lists)
    BY <2>3, NoElseSound
  <2>5. /\ Forest(lists \cup {body} \cup {NoElse})
        /\ SoundBuilt(Switch(body, NoElse), lists \cup {body} \cup {NoElse})
    BY <2>2, <2>3, <2>4, SwitchSound
  <2> QED BY <2>1, <2>5
<1>4. CASE frame.head.name = "else"
  <2>1. Block(frame, body) = Switch(frame.then, body)
    BY <1>4 DEF Block
  <2>2. /\ Forest(lists \cup {frame.then} \cup {body})
        /\ SoundBuilt(Switch(frame.then, body), lists \cup {frame.then} \cup {body})
    BY <1>4, SwitchSound
  <2> QED BY <2>1, <2>2
<1>5. CASE frame.head.name = "repeat"
  <2> DEFINE count == frame.head.params[1].number
             repeated == RepeatBlocks(body, count)
  <2>1. Block(frame, body) = Group(repeated)
    BY <1>5 DEF Block
  <2>2. count \in Nat /\ count >= 1
    BY <1>5 DEF SoundHead
  <2> HIDE DEF count
  <2>3. repeated # << >> /\ SoundList(repeated, BlockHead, lists)
    BY <1>1, <2>2, RepeatedSound
  <2>9. Forest(lists \cup {repeated}) /\ SoundBuilt(Group(repeated), lists \cup {repeated})
    BY <2>3, GroupSound
  <2> QED BY <2>1, <2>9
<1>6. CASE frame.head.name = "while"
  <2>1. Block(frame, body) = Loop(body)
    BY <1>6 DEF Block
  <2>9. Forest(lists \cup {body}) /\ SoundBuilt(Loop(body), lists \cup {body})
    BY <1>6, LoopSound
  <2> QED BY <2>1, <2>9
<1> QED BY <1>2, <1>3, <1>4, <1>5, <1>6 DEF SoundHead, Heads
-----------------------------------------------------------------------------
(* The call stack. *)

Frames(lists) ==
  [head : Tokens, first : Nat, body : Seq(BlocksOver(lists)), code : Seq(Instrs),
   then : Seq(BlocksOver(lists))]

(* The outermost branch starts with BEGIN, and no other does. *)
Placed(frame, i, lists) ==
  /\ i = 1 => frame.head.name = "begin"
  /\ i # 1 => SoundHead(frame.head)
  /\ frame.head.name = "else" => SoundThen(frame.then, lists)

(* a branch that waits for the block behind it *)
Waiting(frame, lists) ==
  /\ frame.code = << >> /\ frame.body # << >>
  /\ SoundList(frame.body, frame.head, lists)

(* the branch that is read.  From its second token on it has something in  *)
(* it: parse_branch goes by the number of tokens, not by the blocks.       *)
Working(frame, next, lists) ==
  /\ SoundBranch(frame.body, frame.code, frame.head, lists)
  /\ next - frame.first >= 2 => frame.body # << >> \/ frame.code # << >>

SoundBelow(stack, lists) ==
  /\ stack \in Seq(Frames(lists))
  /\ \A i \in 1..Len(stack) : Placed(stack[i], i, lists) /\ Waiting(stack[i], lists)

SoundFrames(stack, next, lists) ==
  \E below, top :
    /\ stack = Append(below, top)
    /\ SoundBelow(below, lists)
    /\ top \in Frames(lists) /\ Placed(top, Len(below) + 1, lists)
    /\ Working(top, next, lists)

SoundProgram(root) ==
  \E lists, head : /\ Forest(lists) /\ head.name = "begin"
                   /\ root # << >> /\ SoundList(root, head, lists)

Errors ==
  Reasons \cup {"empty program", "invalid program start", "invalid program end",
                "empty block", "dangling else", "unmatched block", "dangling instructions"}

IInv ==
  /\ tokens \in Seq(Tokens) /\ at \in Nat \ {0}
  /\ result = Parsing => \E lists : Forest(lists) /\ SoundFrames(frames, at, lists)
  /\ result.status \in {"parsing", "panic", "program"} \cup Errors
  /\ result.status = "parsing" => result = Parsing
  /\ result.status = "panic" => tokens[at] = Token("repeat", << >>)
  /\ result.status = "program" => SoundProgram(result.root)

LEMMA MoreFrames ==
  ASSUME NEW lists, NEW more, lists \subseteq more
  PROVE  /\ Frames(lists) \subseteq Frames(more)
         /\ \A frame, i : Placed(frame, i, lists) => Placed(frame, i, more)
         /\ \A frame : Waiting(frame, lists) => Waiting(frame, more)
         /\ \A stack : SoundBelow(stack, lists) => SoundBelow(stack, more)
<1>1. /\ BlocksOver(lists) \subseteq BlocksOver(more)
      /\ \A s, head : SoundList(s, head, lists) => SoundList(s, head, more)
  BY MoreLists
<1>2. Seq(BlocksOver(lists)) \subseteq Seq(BlocksOver(more))
  BY <1>1
<1>3. Frames(lists) \subseteq Frames(more)
  BY <1>2 DEF Frames
<1>4. \A frame, i : Placed(frame, i, lists) => Placed(frame, i, more)
  BY <1>1 DEF Placed, SoundThen
<1>5. \A frame : Waiting(frame, lists) => Waiting(frame, more)
  BY <1>1 DEF Waiting
<1>6. ASSUME NEW stack \in Seq(Frames(lists)) PROVE stack \in Seq(Frames(more))
  BY <1>3
<1> QED BY <1>3, <1>4, <1>5, <1>6 DEF SoundBelow

LEMMA AppendIs ==
  ASSUME NEW S, NEW s \in Seq(S), NEW x \in S
  PROVE  /\ Append(s, x) \in Seq(S) /\ Len(Append(s, x)) = Len(s) + 1
         /\ Append(s, x) # << >>
         /\ \A i \in 1..Len(s) : Append(s, x)[i] = s[i]
         /\ Append(s, x)[Len(s) + 1] = x
         /\ Last(Append(s, x)) = x /\ Front(Append(s, x)) = s
<1> DEFINE t == Append(s, x)
<1>1. /\ t \in Seq(S) /\ Len(t) = Len(s) + 1 /\ Len(s) \in Nat
      /\ \A i \in 1..Len(s) : t[i] = s[i]
      /\ t[Len(s) + 1] = x
  OBVIOUS
<1> HIDE DEF t
<1>2. t # << >>
  BY <1>1
<1>3. Last(t) = x
  BY <1>1 DEF Last
<1>4. Front(t) = s
  <2>1. /\ Front(t) \in Seq(S) /\ Len(Front(t)) = Len(t) - 1
        /\ \A i \in 1..(Len(t) - 1) : Front(t)[i] = t[i]
    BY <1>1, <1>2, FrontIs
  <2>2. Len(Front(t)) = Len(s) /\ \A i \in 1..Len(s) : Front(t)[i] = s[i]
    BY <1>1, <2>1
  <2> DEFINE u == Front(t)
  <2>3. u \in Seq(S) /\ Len(u) = Len(s) /\ \A i \in 1..Len(s) : u[i] = s[i]
    BY <2>1, <2>2
  <2> HIDE DEF u
  <2>4. u = s
    BY <2>3, SeqEqual
  <2> QED BY <2>4 DEF u
<1> QED BY <1>1, <1>2, <1>3, <1>4 DEF t

LEMMA BelowGrows ==
  ASSUME NEW lists, NEW below, SoundBelow(below, lists), NEW frame \in Frames(lists),
         Placed(frame, Len(below) + 1, lists), Waiting(frame, lists)
  PROVE  SoundBelow(Append(below, frame), lists)
<1>1. below \in Seq(Frames(lists)) /\ Len(below) \in Nat
  BY DEF SoundBelow
<1> DEFINE more == Append(below, frame)
<1>2. /\ more \in Seq(Frames(lists)) /\ Len(more) = Len(below) + 1
      /\ \A i \in 1..Len(below) : more[i] = below[i]
      /\ more[Len(below) + 1] = frame
  BY <1>1, AppendIs
<1> HIDE DEF more
<1>3. ASSUME NEW i \in 1..Len(more)
      PROVE  Placed(more[i], i, lists) /\ Waiting(more[i], lists)
  <2>1. CASE i \in 1..Len(below)
    BY <1>2, <2>1 DEF SoundBelow
  <2>2. CASE i = Len(below) + 1
    BY <1>2, <2>2
  <2> QED BY <1>1, <1>2, <2>1, <2>2
<1> QED BY <1>2, <1>3 DEF SoundBelow, more

LEMMA BelowShrinks ==
  ASSUME NEW lists, NEW below, SoundBelow(below, lists), below # << >>
  PROVE  \E lower, frame :
           /\ below = Append(lower, frame) /\ SoundBelow(lower, lists)
           /\ frame \in Frames(lists) /\ Placed(frame, Len(lower) + 1, lists)
           /\ Waiting(frame, lists)
<1> DEFINE lower == Front(below)
           frame == below[Len(below)]
<1>1. below \in Seq(Frames(lists)) /\ Len(below) \in Nat /\ Len(below) \in 1..Len(below)
  BY DEF SoundBelow
<1>2. /\ lower \in Seq(Frames(lists)) /\ Len(lower) = Len(below) - 1
      /\ \A i \in 1..(Len(below) - 1) : lower[i] = below[i]
  BY <1>1, FrontIs
<1>3. frame \in Frames(lists) /\ Placed(frame, Len(below), lists) /\ Waiting(frame, lists)
  BY <1>1 DEF SoundBelow
<1> HIDE DEF lower, frame
<1>4. SoundBelow(lower, lists)
  <2>1. \A i \in 1..Len(lower) : i \in 1..Len(below) /\ lower[i] = below[i]
    BY <1>1, <1>2
  <2> QED BY <1>2, <2>1 DEF SoundBelow
<1>5. below = Append(lower, frame)
  <2> DEFINE again == Append(lower, frame)
  <2>1. /\ again \in Seq(Frames(lists)) /\ Len(again) = Len(below)
        /\ \A i \in 1..Len(lower) : again[i] = lower[i]
        /\ again[Len(lower) + 1] = frame
    BY <1>1, <1>2, <1>3, AppendIs
  <2> HIDE DEF again
  <2>2. ASSUME NEW i \in 1..Len(below) PROVE again[i] = below[i]
    <3>1. CASE i \in 1..Len(lower)
      BY <1>2, <2>1, <3>1
    <3>2. CASE i = Len(below)
      BY <1>1, <1>2, <2>1, <3>2 DEF frame
    <3> QED BY <1>1, <1>2, <3>1, <3>2
  <2>3. again = below
    BY <1>1, <2>1, <2>2, SeqEqual
  <2> QED BY <2>3 DEF again
<1>6. Len(lower) + 1 = Len(below)
  BY <1>1, <1>2
<1> QED BY <1>3, <1>4, <1>5, <1>6

(* What the actions put in the place of the last frames. *)
LastBy(t, y) == [t EXCEPT ![Len(t)] = y]
LastByTwo(t, y, z) == Front(t) \o <<y, z>>
LastButOne(t) == t[Len(t) - 1]
LastTwoBy(t, z) == SubSeq(t, 1, Len(t) - 2) \o <<z>>

LEMMA LastReplaced ==
  ASSUME NEW S, NEW s \in Seq(S), NEW x \in S, NEW y \in S
  PROVE  /\ LastBy(Append(s, x), y) = Append(s, y)
         /\ \A z \in S : LastByTwo(Append(s, x), y, z) = Append(Append(s, y), z)
<1> DEFINE t == Append(s, x)
<1>1. /\ Len(t) = Len(s) + 1 /\ Len(s) \in Nat /\ t \in Seq(S)
      /\ \A i \in 1..Len(s) : t[i] = s[i]
      /\ Front(t) = s
  BY AppendIs
<1> HIDE DEF t
<1>2. /\ Append(s, y) \in Seq(S) /\ Len(Append(s, y)) = Len(s) + 1
      /\ \A i \in 1..Len(s) : Append(s, y)[i] = s[i]
      /\ Append(s, y)[Len(s) + 1] = y
  BY AppendIs
<1>3. [t EXCEPT ![Len(t)] = y] = Append(s, y)
  <2> DEFINE u == [t EXCEPT ![Len(t)] = y]
             v == Append(s, y)
  <2>1. Len(t) \in 1..Len(t)
    BY <1>1
  <2>2. /\ u \in Seq(S) /\ Len(u) = Len(t) /\ u[Len(t)] = y
        /\ \A i \in 1..Len(s) : u[i] = t[i]
    <3> DEFINE n == Len(t)
    <3>1. t \in Seq(S) /\ n = Len(t) /\ n \in 1..Len(t) /\ \A i \in 1..Len(s) : i # n
      BY <1>1, <2>1
    <3> HIDE DEF n
    <3> DEFINE w == [t EXCEPT ![n] = y]
    <3>2. /\ w \in Seq(S) /\ Len(w) = Len(t)
          /\ \A j \in 1..Len(t) : w[j] = IF j = n THEN y ELSE t[j]
      <4>1. w \in Seq(S) /\ Len(w) = Len(t)
        BY <3>1, ExceptSeq
      <4>2. DOMAIN t = 1..Len(t)
        BY <3>1
      <4>3. w = [j \in 1..Len(t) |-> IF j = n THEN y ELSE t[j]]
        BY <4>2
      <4> QED BY <4>1, <4>3
    <3> HIDE DEF w
    <3>3. \A i \in 1..Len(s) : i \in 1..Len(t)
      BY <1>1
    <3>4. w[n] = y /\ \A i \in 1..Len(s) : w[i] = t[i]
      BY <3>1, <3>2, <3>3
    <3> QED BY <3>2, <3>4 DEF n, w
  <2>3. v \in Seq(S) /\ Len(v) = Len(t) /\ v[Len(t)] = y /\ \A i \in 1..Len(s) : v[i] = t[i]
    BY <1>1, <1>2
  <2> HIDE DEF u, v
  <2>4. \A i \in 1..Len(t) : u[i] = v[i]
    BY <1>1, <2>2, <2>3
  <2>5. u = v
    BY <2>2, <2>3, <2>4, SeqEqual
  <2> QED BY <2>5 DEF u, v
<1>4. s \o <<y>> = Append(s, y)
  BY AppendIsConcat
<1>5. ASSUME NEW z \in S PROVE s \o <<y, z>> = Append(Append(s, y), z)
  <2>1. <<y>> \in Seq(S) /\ <<z>> \in Seq(S) /\ <<y, z>> = <<y>> \o <<z>>
    OBVIOUS
  <2>2. s \o (<<y>> \o <<z>>) = (s \o <<y>>) \o <<z>>
    BY <2>1, ConcatAssociative
  <2>3. Append(Append(s, y), z) = Append(s, y) \o <<z>>
    BY <1>2, AppendIsConcat
  <2> QED BY <1>4, <2>1, <2>2, <2>3
<1> QED BY <1>1, <1>3, <1>5 DEF LastBy, LastByTwo, t

LEMMA LastTwoReplaced ==
  ASSUME NEW S, NEW s \in Seq(S), NEW x \in S, NEW y \in S, NEW z \in S
  PROVE  /\ LastButOne(Append(Append(s, x), y)) = x
         /\ LastTwoBy(Append(Append(s, x), y), z) = Append(s, z)
<1> DEFINE t == Append(Append(s, x), y)
<1> DEFINE u == Append(s, x)
<1>1. /\ u \in Seq(S) /\ Len(u) = Len(s) + 1 /\ Len(s) \in Nat
      /\ \A i \in 1..Len(s) : u[i] = s[i]
      /\ u[Len(s) + 1] = x
  BY AppendIs
<1>2. t = Append(u, y)
  OBVIOUS
<1> HIDE DEF u, t
<1>3. /\ t \in Seq(S) /\ Len(t) = Len(s) + 2
      /\ \A i \in 1..Len(u) : t[i] = u[i]
  BY <1>1, <1>2, AppendIs
<1>4. t[Len(t) - 1] = x
  <2>1. Len(t) - 1 = Len(s) + 1 /\ Len(s) + 1 \in 1..Len(u)
    BY <1>1, <1>3
  <2> QED BY <1>1, <1>3, <2>1
<1>5. SubSeq(t, 1, Len(t) - 2) = s
  <2>1. Len(t) - 2 = Len(s)
    BY <1>1, <1>3
  <2> DEFINE v == SubSeq(t, 1, Len(s))
  <2>2. v \in Seq(S) /\ Len(v) = Len(s) /\ \A i \in 1..Len(s) : v[i] = t[i]
    BY <1>1, <1>3
  <2> HIDE DEF v
  <2>3. \A i \in 1..Len(s) : v[i] = s[i]
    BY <1>1, <1>3, <2>2
  <2>4. v = s
    BY <2>2, <2>3, SeqEqual
  <2> QED BY <2>1, <2>4 DEF v
<1>6. s \o <<z>> = Append(s, z)
  BY AppendIsConcat
<1> QED BY <1>3, <1>4, <1>5, <1>6 DEF LastTwoBy, LastButOne, t

(* a branch that has just begun *)
LEMMA BranchStarts ==
  ASSUME NEW lists, NEW first \in Nat, tokens[first] \in Tokens, tokens[first].name \in Heads,
         NEW then \in Seq(BlocksOver(lists))
  PROVE  /\ Branch(first, then) \in Frames(lists)
         /\ Branch(first, then).head = tokens[first] /\ Branch(first, then).then = then
         /\ Working(Branch(first, then), first + 1, lists)
<1> DEFINE head == tokens[first]
           code == Emit(<< >>, Guard(head))
           branch == Branch(first, then)
<1>1. /\ branch = [head |-> head, first |-> first, body |-> << >>, code |-> code, then |-> then]
  BY DEF Branch
<1> HIDE DEF head
<1>2. SoundCode(<< >>, head.name)
  BY DEF SoundCode
<1>3. SoundCode(code, head.name) /\ StartsWith(code, Guard(head))
  <2>1. CASE head.name = "begin"
    <3>1. Guard(head) = <<"begin">>
      BY <2>1, Guards
    <3>2. code = <<Instr("begin")>>
      BY <3>1 DEF Emit
    <3>3. Instr("begin").op = "begin" /\ Instr("begin").hint = NoHint
      BY DEF Instr
    <3>4. Instr("begin") \in Instrs
      BY <3>3, NoHintIs DEF Instr, Instrs, Operations
    <3>5. SoundInstr(Instr("begin"), 1, head.name)
      BY <2>1, <3>3, NoHintIs DEF SoundInstr
    <3> DEFINE begin == Instr("begin")
    <3> HIDE DEF code, begin
    <3>6. code = <<begin>>
      BY <3>2 DEF begin
    <3>7. SoundCode(<<begin>>, head.name)
      BY <3>4, <3>5 DEF SoundCode, begin
    <3>8. StartsWith(<<begin>>, <<"begin">>)
      BY <3>3 DEF StartsWith, begin
    <3> QED BY <3>1, <3>6, <3>7, <3>8
  <2>2. CASE head.name \in {"if", "while"}
    <3>1. Guard(head) = <<"assert">> /\ <<"assert">> \in PlainCode
      <4>1. Guard(head) = <<"assert">>
        BY <2>2, Guards
      <4>2. <<"assert">> \in PlainCode
        BY TablesArePlain
      <4> QED BY <4>1, <4>2
    <3>2. SoundCode(code, head.name)
      BY <1>2, <3>1, EmitSound DEF Extended
    <3>3. StartsWith(code, <<"assert">>)
      BY <3>1 DEF StartsWith, Emit, Instr
    <3> QED BY <3>1, <3>2, <3>3
  <2>3. CASE head.name = "else"
    <3>1. Guard(head) = <<"not", "assert">> /\ <<"not", "assert">> \in PlainCode
      BY <2>3, Guards, TablesArePlain
    <3>2. SoundCode(code, head.name)
      BY <1>2, <3>1, EmitSound DEF Extended
    <3>3. StartsWith(code, <<"not", "assert">>)
      BY <3>1 DEF StartsWith, Emit, Instr
    <3> QED BY <3>1, <3>2, <3>3
  <2>4. CASE head.name \in {"block", "repeat"}
    <3>1. Guard(head) = << >>
      BY <2>4, Guards
    <3>2. code = << >>
      BY <3>1 DEF Emit
    <3> QED BY <1>2, <3>1, <3>2 DEF StartsWith
  <2> QED BY <2>1, <2>2, <2>3, <2>4 DEF Heads, head
<1> HIDE DEF code, branch
<1>4. branch \in Frames(lists)
  <2>1. code \in Seq(Instrs) /\ << >> \in Seq(BlocksOver(lists)) /\ head \in Tokens
    BY <1>3 DEF SoundCode, head
  <2> QED BY <1>1, <2>1 DEF Frames
<1>5. /\ branch.head = head /\ branch.body = << >> /\ branch.code = code
      /\ branch.first = first /\ branch.then = then
  BY <1>1
<1>6. SoundList(<< >>, head, lists)
  BY DEF SoundList, Alternates
<1>7. Working(branch, first + 1, lists)
  BY <1>3, <1>5, <1>6 DEF Working, SoundBranch
<1> QED BY <1>4, <1>5, <1>7 DEF branch, head

(* the updates of a frame *)
WithCode(top, code) == [top EXCEPT !.code = code]
WithBody(top, body) == [top EXCEPT !.body = body]
Suspended(top, body) == [top EXCEPT !.body = body, !.code = << >>]

SameHead(after, top) ==
  after.head = top.head /\ after.first = top.first /\ after.then = top.then

LEMMA CodeUpdate ==
  ASSUME NEW lists, NEW top \in Frames(lists), NEW code \in Seq(Instrs)
  PROVE  /\ WithCode(top, code) \in Frames(lists) /\ SameHead(WithCode(top, code), top)
         /\ WithCode(top, code).code = code /\ WithCode(top, code).body = top.body
<1> DEFINE B == Seq(BlocksOver(lists))
           C == Seq(Instrs)
           T == Tokens
<1>1. Frames(lists) = [head : T, first : Nat, body : B, code : C, then : B] /\ code \in C
  BY DEF Frames
<1> HIDE DEF B, C, T
<1>2. WithCode(top, code) \in Frames(lists)
  BY <1>1 DEF WithCode
<1>3. /\ SameHead(WithCode(top, code), top)
      /\ WithCode(top, code).code = code /\ WithCode(top, code).body = top.body
  BY <1>1 DEF WithCode, SameHead
<1> QED BY <1>2, <1>3

LEMMA BodyUpdates ==
  ASSUME NEW lists, NEW top \in Frames(lists), NEW body \in Seq(BlocksOver(lists))
  PROVE  /\ WithBody(top, body) \in Frames(lists) /\ SameHead(WithBody(top, body), top)
         /\ WithBody(top, body).code = top.code /\ WithBody(top, body).body = body
         /\ Suspended(top, body) \in Frames(lists) /\ SameHead(Suspended(top, body), top)
         /\ Suspended(top, body).code = << >> /\ Suspended(top, body).body = body
<1> DEFINE B == Seq(BlocksOver(lists))
           C == Seq(Instrs)
           T == Tokens
<1>1. /\ Frames(lists) = [head : T, first : Nat, body : B, code : C, then : B]
      /\ body \in B /\ << >> \in C
  BY DEF Frames
<1> HIDE DEF B, C, T
<1>2. WithBody(top, body) \in Frames(lists)
  BY <1>1 DEF WithBody
<1>3. Suspended(top, body) \in Frames(lists)
  <2> DEFINE empty == << >>
  <2>1. empty \in C /\ Suspended(top, body) = [top EXCEPT !.body = body, !.code = empty]
    BY <1>1 DEF Suspended
  <2> HIDE DEF empty
  <2> QED BY <1>1, <2>1
<1>4. /\ SameHead(WithBody(top, body), top)
      /\ WithBody(top, body).code = top.code /\ WithBody(top, body).body = body
  BY <1>1 DEF WithBody, SameHead
<1>5. /\ SameHead(Suspended(top, body), top)
      /\ Suspended(top, body).code = << >> /\ Suspended(top, body).body = body
  BY <1>1 DEF Suspended, SameHead
<1> QED BY <1>2, <1>3, <1>4, <1>5

LEMMA TopIs ==
  ASSUME NEW lists, NEW below, SoundBelow(below, lists), NEW top \in Frames(lists),
         frames = Append(below, top)
  PROVE  /\ Top = top /\ Front(frames) = below
         /\ Len(frames) = Len(below) + 1 /\ Len(below) \in Nat
         /\ below \in Seq(Frames(lists))
<1>1. below \in Seq(Frames(lists)) /\ Len(below) \in Nat
  BY DEF SoundBelow
<1> QED BY <1>1, AppendIs DEF Top

LEMMA CurrentIs ==
  ASSUME IInv, Reading
  PROVE  /\ Current \in Tokens /\ at \in Nat \ {0}
         /\ Current.name \in STRING /\ Current.params \in Params
         /\ Current = Token(Current.name, Current.params)
<1>1. tokens \in Seq(Tokens) /\ at \in 1..Len(tokens)
  BY DEF IInv, Reading
<1>2. Current \in Tokens
  BY <1>1 DEF Current
<1> DEFINE t == Current
           P == Params
           N == STRING
<1>3. t \in [name : N, params : P]
  BY <1>2 DEF Tokens, Params
<1> HIDE DEF t, P, N
<1>4. t = [name |-> t.name, params |-> t.params] /\ t.name \in N /\ t.params \in P
  BY <1>3
<1> QED BY <1>1, <1>2, <1>4 DEF Token, t, P, N

(* An error leaves everything else as it is. *)
LEMMA FailKeeps ==
  ASSUME IInv, NEW status, Fail(status),
         \/ status \in Errors
         \/ status = "panic" /\ Current = Token("repeat", << >>)
  PROVE  IInv'
<1>1. tokens' = tokens /\ at' = at /\ result'.status = status
  BY DEF Fail, Stop
<1>2. status \notin {"parsing", "program"} /\ (status = "panic" => status \notin Errors)
  BY DEF Errors, Reasons
<1>3. result' # Parsing
  BY <1>1, <1>2 DEF Parsing
<1> QED BY <1>1, <1>2, <1>3 DEF IInv, Current

(* What the branch that is read becomes at its end. *)
LEMMA BodySound ==
  ASSUME NEW lists, NEW top \in Frames(lists), top.head.name \in Heads,
         Working(top, at, lists), NEW force \in BOOLEAN, force => top.body = << >>
  PROVE  /\ SoundList(AddSpan(top, force), top.head, lists)
         /\ AddSpan(top, force) \in Seq(BlocksOver(lists))
         /\ SpansAccepted(AddSpan(top, force))
         /\ force \/ top.body # << >> \/ at - top.first >= 2 => AddSpan(top, force) # << >>
<1>1. SoundBranch(top.body, top.code, top.head, lists)
  BY DEF Working
<1>2. /\ SoundList(AddSpan(top, force), top.head, lists)
      /\ force \/ top.body # << >> \/ top.code # << >> => AddSpan(top, force) # << >>
  BY <1>1, AddSpanSound
<1>3. SpansAccepted(AddSpan(top, force))
  BY <1>2, SpansAreAccepted
<1> QED BY <1>2, <1>3 DEF Working, SoundList

LEMMA PlacedHeads ==
  ASSUME NEW frame, NEW i, NEW lists, Placed(frame, i, lists)
  PROVE  frame.head.name \in Heads
BY DEF Placed, SoundHead, Heads

(* The branch goes on. *)
LEMMA FramesGoOn ==
  ASSUME tokens \in Seq(Tokens), at \in Nat,
         tokens' = tokens, at' = at + 1, result = Parsing, result' = result,
         NEW lists, Forest(lists), SoundFrames(frames', at + 1, lists)
  PROVE  IInv'
<1>1. at' \in Nat \ {0} /\ SoundFrames(frames', at', lists)
  OBVIOUS
<1>2. /\ Parsing.status = "parsing"
      /\ "parsing" \notin {"panic", "program"}
  BY DEF Parsing
<1> QED BY <1>1, <1>2 DEF IInv

LEMMA InstructionKeeps ==
  ASSUME IInv, Instruction
  PROVE  IInv'
<1> DEFINE parsed == ParseOp(Top.code, Current)
<1>1. /\ Reading
      /\ IF parsed.error # "none" THEN Fail(parsed.error)
         ELSE /\ frames' = [frames EXCEPT ![Len(frames)].code = parsed.program]
              /\ at' = at + 1
              /\ UNCHANGED <<tokens, result>>
  BY DEF Instruction
<1>2. result = Parsing /\ Current \in Tokens /\ at \in Nat /\ tokens \in Seq(Tokens)
  BY <1>1, CurrentIs DEF Reading, IInv
<1>3. PICK lists : Forest(lists) /\ SoundFrames(frames, at, lists)
  BY <1>2 DEF IInv
<1>4. PICK below, top :
        /\ frames = Append(below, top) /\ SoundBelow(below, lists)
        /\ top \in Frames(lists) /\ Placed(top, Len(below) + 1, lists)
        /\ Working(top, at, lists)
  BY <1>3 DEF SoundFrames
<1>5. Top = top /\ below \in Seq(Frames(lists))
  BY <1>4, TopIs
<1> DEFINE name == IF top.body = << >> THEN top.head.name ELSE "block"
<1>6. /\ SoundList(top.body, top.head, lists)
      /\ top.body # << >> => top.body[Len(top.body)].kind # "span"
      /\ SoundCode(top.code, name)
      /\ top.body = << >> => StartsWith(top.code, Guard(top.head))
  BY <1>4 DEF Working, SoundBranch
<1>7. Extends(parsed, top.code, name)
  BY <1>2, <1>5, <1>6, InstructionsAreSound
<1> HIDE DEF parsed
<1>8. CASE parsed.error # "none"
  <2>1. parsed.error \in Errors
    BY <1>7, <1>8 DEF Extends, Errors
  <2> QED BY <1>1, <1>8, <2>1, FailKeeps
<1>9. CASE parsed.error = "none"
  <2> DEFINE code == parsed.program
             after == WithCode(top, code)
  <2>1. Extended(code, top.code, name)
    BY <1>7, <1>9 DEF Extends, Reasons
  <2>2. /\ SoundCode(code, name) /\ code \in Seq(Instrs) /\ code # << >>
        /\ Len(code) > Len(top.code) /\ \A j \in 1..Len(top.code) : code[j] = top.code[j]
        /\ Len(top.code) \in Nat
    BY <1>6, <2>1 DEF Extended, SoundCode
  <2>3. frames' = [frames EXCEPT ![Len(frames)].code = code]
    BY <1>1, <1>9
  <2> HIDE DEF code
  <2>4. top.body \in Seq(BlocksOver(lists))
    BY <1>6 DEF SoundList
  <2>5. /\ after \in Frames(lists) /\ after.code = code /\ after.body = top.body
        /\ after.head = top.head /\ after.first = top.first /\ after.then = top.then
    BY <1>4, <2>2, CodeUpdate DEF SameHead
  <2>6. frames' = Append(below, after)
    <3>1. frames[Len(frames)] = top
      BY <1>5 DEF Top, Last
    <3>2. frames' = LastBy(frames, after)
      BY <2>3, <3>1 DEF LastBy, WithCode
    <3> DEFINE S == Frames(lists)
    <3>3. after \in S /\ top \in S /\ below \in Seq(S)
      BY <1>4, <1>5, <2>5
    <3> HIDE DEF after, S
    <3>4. LastBy(frames, after) = Append(below, after)
      BY <1>4, <3>3, LastReplaced, Zenon
    <3> QED BY <3>2, <3>4
  <2> HIDE DEF after
  <2>7. Placed(after, Len(below) + 1, lists)
    BY <1>4, <2>5 DEF Placed
  <2>8. top.body = << >> => StartsWith(code, Guard(top.head))
    <3>1. Len(Guard(top.head)) \in Nat
      BY <1>4, PlacedHeads, GuardLengths
    <3> QED BY <1>6, <2>2, <3>1 DEF StartsWith
  <2>9. Working(after, at + 1, lists)
    BY <1>6, <2>2, <2>5, <2>8 DEF Working, SoundBranch
  <2>10. SoundFrames(frames', at + 1, lists)
    BY <1>4, <2>5, <2>6, <2>7, <2>9 DEF SoundFrames
  <2> QED BY <1>1, <1>2, <1>3, <1>9, <2>10, FramesGoOn
<1> QED BY <1>8, <1>9

LEMMA HeadErrors ==
  ASSUME NEW token \in Tokens, token.name \in BlockNames
  PROVE  /\ HeadError(token) \in Reasons \cup {"none", "panic"}
         /\ HeadError(token) = "panic" => token.name = "repeat" /\ token.params = << >>
         /\ HeadError(token) = "none" => SoundHead(token)
<1> DEFINE p == token.params
<1>1. p \in Params
  BY DEF Tokens, Params
<1>2. p # << >> => p[1].number \in Int
  <2> SUFFICES ASSUME p # << >> PROVE p[1].number \in Int
    OBVIOUS
  <2> DEFINE R == [word : STRING, number : Int]
  <2>1. p \in Seq(R)
    BY <1>1 DEF Params
  <2> HIDE DEF p, R
  <2>2. p[1] \in R
    BY <2>1
  <2> QED BY <2>2 DEF R
<1>3. CASE token.name = "block"
  <2>1. HeadError(token) = IF p = << >> THEN "none" ELSE "invalid block head"
    BY <1>3 DEF HeadError
  <2> QED BY <1>3, <2>1 DEF Reasons, SoundHead, Heads
<1>4. CASE token.name \in {"if", "while"}
  <2>1. HeadError(token) \in {"none", "invalid block head"}
    BY <1>4 DEF HeadError
  <2> QED BY <1>4, <2>1 DEF Reasons, SoundHead, Heads
<1>5. CASE token.name = "repeat"
  <2>1. HeadError(token) = CASE p = << >> -> "panic"
                             [] Len(p) > 1           -> "extra param"
                             [] ~ IsNumber(p[1])     -> "invalid param"
                             [] p[1].number < 2      -> "invalid num iterations"
                             [] OTHER                -> "none"
    BY <1>5 DEF HeadError
  <2>2. /\ HeadError(token) \in {"panic", "extra param", "invalid param",
                                 "invalid num iterations", "none"}
        /\ HeadError(token) = "panic" => p = << >>
        /\ HeadError(token) = "none" => p # << >> /\ ~ (p[1].number < 2)
    BY <2>1
  <2>3. HeadError(token) = "none" => p[1].number \in Nat /\ p[1].number >= 2
    BY <1>2, <2>2
  <2> QED BY <1>5, <2>2, <2>3 DEF Reasons, SoundHead, Heads
<1> QED BY <1>3, <1>4, <1>5 DEF BlockNames

LEMMA OpenBlockKeeps ==
  ASSUME IInv, OpenBlock
  PROVE  IInv'
<1> DEFINE body == AddSpan(Top, Top.body = << >>)
           suspended == [Top EXCEPT !.body = body, !.code = << >>]
<1>1. /\ Reading /\ Current.name \in BlockNames
      /\ IF ~ SpansAccepted(body) THEN Fail("panic")
         ELSE IF HeadError(Current) # "none" THEN Fail(HeadError(Current))
         ELSE /\ frames' = Front(frames) \o <<suspended, Branch(at, << >>)>>
              /\ at' = at + 1
              /\ UNCHANGED <<tokens, result>>
  BY DEF OpenBlock
<1>2. /\ result = Parsing /\ Current \in Tokens /\ at \in Nat /\ tokens \in Seq(Tokens)
      /\ Current = Token(Current.name, Current.params)
  BY <1>1, CurrentIs DEF Reading, IInv
<1>3. PICK lists : Forest(lists) /\ SoundFrames(frames, at, lists)
  BY <1>2 DEF IInv
<1>4. PICK below, top :
        /\ frames = Append(below, top) /\ SoundBelow(below, lists)
        /\ top \in Frames(lists) /\ Placed(top, Len(below) + 1, lists)
        /\ Working(top, at, lists)
  BY <1>3 DEF SoundFrames
<1>5. Top = top /\ below \in Seq(Frames(lists)) /\ Len(below) \in Nat
  BY <1>4, TopIs
<1>6. /\ SoundList(body, top.head, lists) /\ body \in Seq(BlocksOver(lists))
      /\ SpansAccepted(body) /\ body # << >>
  <2>1. top.head.name \in Heads
    BY <1>4, PlacedHeads
  <2>2. (top.body = << >>) \in BOOLEAN
    OBVIOUS
  <2>3. body = AddSpan(top, top.body = << >>)
    BY <1>5
  <2> QED BY <1>4, <2>1, <2>2, <2>3, BodySound
<1>7. CASE HeadError(Current) # "none"
  <2>1. Fail(HeadError(Current))
    BY <1>1, <1>6, <1>7
  <2>2. \/ HeadError(Current) \in Errors
        \/ HeadError(Current) = "panic" /\ Current = Token("repeat", << >>)
    BY <1>1, <1>2, <1>7, HeadErrors DEF Errors
  <2> QED BY <2>1, <2>2, FailKeeps
<1>8. CASE HeadError(Current) = "none"
  <2> DEFINE branch == Branch(at, << >>)
             waiting == Suspended(top, body)
  <2>1. frames' = LastByTwo(frames, waiting, branch)
    BY <1>1, <1>5, <1>6, <1>8 DEF LastByTwo, Suspended
  <2> HIDE DEF body
  <2>2. waiting \in Frames(lists) /\ SameHead(waiting, top)
        /\ waiting.code = << >> /\ waiting.body = body
    BY <1>4, <1>6, BodyUpdates
  <2>3. SoundHead(Current) /\ Current.name \in Heads /\ Current.name # "else"
    BY <1>1, <1>2, <1>8, HeadErrors DEF BlockNames, Heads
  <2>4. /\ branch \in Frames(lists) /\ branch.head = Current
        /\ Working(branch, at + 1, lists)
    <3>1. << >> \in Seq(BlocksOver(lists))
      OBVIOUS
    <3> QED BY <1>2, <2>3, <3>1, BranchStarts DEF Current
  <2> HIDE DEF branch, waiting
  <2>5. SoundBelow(Append(below, waiting), lists)
    <3>1. Placed(waiting, Len(below) + 1, lists) /\ Waiting(waiting, lists)
      BY <1>4, <1>6, <2>2 DEF Placed, Waiting, SameHead
    <3> QED BY <1>4, <2>2, <3>1, BelowGrows
  <2>6. Placed(branch, Len(Append(below, waiting)) + 1, lists)
    <3>1. Len(Append(below, waiting)) + 1 # 1
      BY <1>5, <2>2
    <3> QED BY <2>3, <2>4, <3>1 DEF Placed
  <2>7. frames' = Append(Append(below, waiting), branch)
    BY <1>4, <1>5, <2>1, <2>2, <2>4, LastReplaced
  <2>8. SoundFrames(frames', at + 1, lists)
    BY <2>4, <2>5, <2>6, <2>7 DEF SoundFrames
  <2> QED BY <1>1, <1>2, <1>3, <1>6, <1>8, <2>8, FramesGoOn
<1> QED BY <1>7, <1>8

(* Only the number of tokens can be wrong at the end of a branch. *)
LEMMA BranchErrors ==
  ASSUME NEW body, SpansAccepted(body), at \in Nat, Top.first \in Nat,
         at - Top.first >= 2 => body # << >>
  PROVE  /\ BranchError(body) \in {"empty block", "none"}
         /\ BranchError(body) = "none" => body # << >>
<1> DEFINE spans == SpansAccepted(body)
           n == at - Top.first
<1>1. n \in Int /\ spans /\ (n >= 2 => body # << >>)
  OBVIOUS
<1>2. BranchError(body) = CASE n < 2 -> "empty block" [] ~ spans -> "panic" [] OTHER -> "none"
  BY DEF BranchError
<1> HIDE DEF spans, n
<1>3. CASE n < 2
  <2>1. BranchError(body) = "empty block"
    BY <1>1, <1>2, <1>3
  <2> QED BY <2>1
<1>4. CASE ~ (n < 2)
  <2>1. BranchError(body) = "none"
    BY <1>1, <1>2, <1>4
  <2>2. n >= 2
    BY <1>1, <1>4
  <2> QED BY <1>1, <2>1, <2>2
<1> QED BY <1>3, <1>4

(* The end of a branch that is not the outermost. *)
LEMMA CloseBlockKeeps ==
  ASSUME IInv, Reading, NEW lists, Forest(lists),
         NEW below, SoundBelow(below, lists), below # << >>,
         NEW top \in Frames(lists), frames = Append(below, top),
         Placed(top, Len(below) + 1, lists),
         NEW body, body # << >>, SoundList(body, top.head, lists), CloseBlock(body)
  PROVE  IInv'
<1> DEFINE block == Block(Top, body)
           parent == frames[Len(frames) - 1]
<1>1. IF ~ Accepted(block) THEN Fail("panic")
      ELSE /\ frames' = SubSeq(frames, 1, Len(frames) - 2)
                          \o <<[parent EXCEPT !.body = Append(@, block)]>>
           /\ at' = at + 1
           /\ UNCHANGED <<tokens, result>>
  BY DEF CloseBlock
<1>2. Top = top /\ below \in Seq(Frames(lists)) /\ Len(below) \in Nat
  BY TopIs
<1>3. SoundHead(top.head) /\ (top.head.name = "else" => SoundThen(top.then, lists))
  <2>1. Len(below) + 1 # 1
    BY <1>2
  <2> QED BY <2>1 DEF Placed
<1>4. PICK more : lists \subseteq more /\ Forest(more) /\ SoundBuilt(block, more)
  BY <1>2, <1>3, BlockSound
<1>5. Accepted(block) /\ block \in BlocksOver(more) /\ block.kind # "span"
  BY <1>4 DEF SoundBuilt
<1>6. PICK lower, last :
        /\ below = Append(lower, last) /\ SoundBelow(lower, lists)
        /\ last \in Frames(lists) /\ Placed(last, Len(lower) + 1, lists)
        /\ Waiting(last, lists)
  BY BelowShrinks
<1>7. /\ SoundBelow(lower, more) /\ last \in Frames(more) /\ top \in Frames(more)
      /\ Placed(last, Len(lower) + 1, more) /\ Waiting(last, more)
  BY <1>4, <1>6, MoreFrames
<1>8. lower \in Seq(Frames(more))
  BY <1>7 DEF SoundBelow
<1> HIDE DEF block
<1> DEFINE list == Append(last.body, block)
           after == WithBody(last, list)
<1>9. /\ last.code = << >> /\ last.body # << >>
      /\ SoundList(last.body, last.head, more) /\ last.body \in Seq(BlocksOver(more))
  BY <1>7 DEF Waiting, SoundList
<1>10. SoundList(list, last.head, more)
  <2>1. SoundBlock(block, Place(last.head, Len(last.body) + 1))
    BY <1>5 DEF SoundBlock, Accepted
  <2> QED BY <1>5, <1>9, <2>1, AppendSound
<1>11. /\ list \in Seq(BlocksOver(more)) /\ list # << >>
       /\ list[Len(list)].kind # "span"
  <2> DEFINE S == BlocksOver(more)
  <2>1. last.body \in Seq(S) /\ block \in S
    BY <1>5, <1>9
  <2> HIDE DEF S
  <2>2. /\ Append(last.body, block) \in Seq(S)
        /\ Len(Append(last.body, block)) = Len(last.body) + 1
        /\ Append(last.body, block) # << >>
        /\ Append(last.body, block)[Len(last.body) + 1] = block
    BY <2>1, AppendIs
  <2> QED BY <1>5, <2>2 DEF S
<1> HIDE DEF list
<1>12. /\ after \in Frames(more) /\ SameHead(after, last)
       /\ after.code = << >> /\ after.body = list
  BY <1>7, <1>9, <1>11, BodyUpdates
<1>13. frames' = Append(lower, after) /\ at' = at + 1 /\ UNCHANGED <<tokens, result>>
  <2>1. LastButOne(frames) = last /\ LastTwoBy(frames, after) = Append(lower, after)
    BY <1>6, <1>7, <1>8, <1>12, LastTwoReplaced
  <2>2. parent = last
    BY <2>1 DEF LastButOne
  <2>3. [parent EXCEPT !.body = Append(@, block)] = after
    BY <2>2 DEF list, WithBody
  <2> HIDE DEF after, parent
  <2>4. frames' = LastTwoBy(frames, after)
    BY <1>1, <1>5, <2>3 DEF LastTwoBy
  <2> QED BY <1>1, <1>5, <2>1, <2>4
<1> HIDE DEF after
<1>14. Placed(after, Len(lower) + 1, more)
  BY <1>7, <1>12 DEF Placed, SameHead
<1>15. Working(after, at + 1, more)
  <2>1. \A name : SoundCode(<< >>, name)
    BY DEF SoundCode
  <2> QED BY <1>10, <1>11, <1>12, <2>1 DEF Working, SoundBranch, SameHead
<1>16. SoundFrames(frames', at + 1, more)
  BY <1>7, <1>12, <1>13, <1>14, <1>15 DEF SoundFrames
<1>17. at \in Nat /\ tokens \in Seq(Tokens) /\ result = Parsing
  BY DEF IInv, Reading
<1> QED BY <1>4, <1>13, <1>16, <1>17, FramesGoOn

LEMMA ElseKeeps ==
  ASSUME IInv, Else
  PROVE  IInv'
<1> DEFINE body == AddSpan(Top, FALSE)
<1>1. /\ Reading /\ Current.name = "else"
      /\ \/ Top.head.name # "if" /\ Fail("dangling else")
         \/ Top.head.name = "if" /\ BranchError(body) # "none" /\ Fail(BranchError(body))
         \/ /\ Top.head.name = "if" /\ BranchError(body) = "none" /\ HasElse
            /\ frames' = Front(frames) \o <<Branch(at, body)>>
            /\ at' = at + 1
            /\ UNCHANGED <<tokens, result>>
         \/ Top.head.name = "if" /\ BranchError(body) = "none" /\ CloseBlock(body)
  BY DEF Else
<1>2. /\ result = Parsing /\ Current \in Tokens /\ at \in Nat /\ tokens \in Seq(Tokens)
  BY <1>1, CurrentIs DEF Reading, IInv
<1>3. PICK lists : Forest(lists) /\ SoundFrames(frames, at, lists)
  BY <1>2 DEF IInv
<1>4. PICK below, top :
        /\ frames = Append(below, top) /\ SoundBelow(below, lists)
        /\ top \in Frames(lists) /\ Placed(top, Len(below) + 1, lists)
        /\ Working(top, at, lists)
  BY <1>3 DEF SoundFrames
<1>5. Top = top /\ below \in Seq(Frames(lists)) /\ Len(below) \in Nat
  BY <1>4, TopIs
<1>6. /\ SoundList(body, top.head, lists) /\ body \in Seq(BlocksOver(lists))
      /\ SpansAccepted(body) /\ (at - top.first >= 2 => body # << >>)
  BY <1>4, <1>5, PlacedHeads, BodySound
<1>7. /\ BranchError(body) \in {"empty block", "none"}
      /\ BranchError(body) = "none" => body # << >>
  <2>1. Top.first \in Nat
    BY <1>4, <1>5 DEF Frames
  <2> QED BY <1>2, <1>5, <1>6, <2>1, BranchErrors
<1> HIDE DEF body
<1>8. ASSUME Fail("dangling else") \/ (BranchError(body) # "none" /\ Fail(BranchError(body)))
      PROVE  IInv'
  BY <1>7, <1>8, FailKeeps DEF Errors
<1>9. ASSUME top.head.name = "if" PROVE Len(below) + 1 # 1 /\ below # << >>
  BY <1>4, <1>5, <1>9 DEF Placed
<1>10. ASSUME top.head.name = "if", BranchError(body) = "none", HasElse,
              frames' = Front(frames) \o <<Branch(at, body)>>,
              at' = at + 1, UNCHANGED <<tokens, result>>
       PROVE  IInv'
  <2> DEFINE branch == Branch(at, body)
  <2>1. Current.name = "else" /\ Current.name \in Heads
    BY <1>1 DEF Heads
  <2>2. /\ branch \in Frames(lists) /\ branch.head = Current /\ branch.then = body
        /\ Working(branch, at + 1, lists)
    BY <1>2, <1>6, <2>1, BranchStarts DEF Current
  <2>3. frames' = Append(below, branch)
    <3>1. Front(frames) = below
      BY <1>4, TopIs
    <3> HIDE DEF branch
    <3>2. frames' = below \o <<branch>>
      BY <1>10, <3>1 DEF branch
    <3>3. below \o <<branch>> = Append(below, branch)
      BY <1>5, <2>2, AppendIsConcat
    <3> QED BY <3>2, <3>3
  <2> HIDE DEF branch
  <2>4. SoundThen(body, lists)
    BY <1>6, <1>7, <1>10 DEF SoundThen
  <2>5. Placed(branch, Len(below) + 1, lists)
    BY <1>9, <1>10, <2>1, <2>2, <2>4 DEF Placed, SoundHead, Heads
  <2>6. SoundFrames(frames', at + 1, lists)
    BY <1>4, <2>2, <2>3, <2>5 DEF SoundFrames
  <2> QED BY <1>2, <1>3, <1>10, <2>6, FramesGoOn
<1>11. ASSUME top.head.name = "if", BranchError(body) = "none", CloseBlock(body)
       PROVE  IInv'
  BY <1>1, <1>3, <1>4, <1>6, <1>7, <1>9, <1>11, CloseBlockKeeps
<1> QED BY <1>1, <1>5, <1>8, <1>10, <1>11

LEMMA EndBlockKeeps ==
  ASSUME IInv, EndBlock
  PROVE  IInv'
<1> DEFINE body == AddSpan(Top, FALSE)
<1>1. /\ Reading /\ Len(frames) > 1
      /\ IF BranchError(body) # "none" THEN Fail(BranchError(body)) ELSE CloseBlock(body)
  BY DEF EndBlock
<1>2. result = Parsing /\ at \in Nat
  BY <1>1 DEF Reading, IInv
<1>3. PICK lists : Forest(lists) /\ SoundFrames(frames, at, lists)
  BY <1>2 DEF IInv
<1>4. PICK below, top :
        /\ frames = Append(below, top) /\ SoundBelow(below, lists)
        /\ top \in Frames(lists) /\ Placed(top, Len(below) + 1, lists)
        /\ Working(top, at, lists)
  BY <1>3 DEF SoundFrames
<1>5. Top = top /\ Len(below) \in Nat /\ Len(frames) = Len(below) + 1
  BY <1>4, TopIs
<1>6. /\ SoundList(body, top.head, lists)
      /\ SpansAccepted(body) /\ (at - top.first >= 2 => body # << >>)
  BY <1>4, <1>5, PlacedHeads, BodySound
<1>7. /\ BranchError(body) \in {"empty block", "none"}
      /\ BranchError(body) = "none" => body # << >>
  <2>1. Top.first \in Nat
    BY <1>4, <1>5 DEF Frames
  <2> QED BY <1>2, <1>5, <1>6, <2>1, BranchErrors
<1> HIDE DEF body
<1>8. below # << >>
  BY <1>1, <1>5
<1>9. ASSUME BranchError(body) # "none", Fail(BranchError(body)) PROVE IInv'
  BY <1>7, <1>9, FailKeeps DEF Errors
<1>10. ASSUME BranchError(body) = "none", CloseBlock(body) PROVE IInv'
  BY <1>1, <1>3, <1>4, <1>6, <1>7, <1>8, <1>10, CloseBlockKeeps
<1> QED BY <1>1, <1>9, <1>10

LEMMA EndProgramKeeps ==
  ASSUME IInv, EndProgram
  PROVE  IInv'
<1> DEFINE body == AddSpan(Top, FALSE)
<1>1. /\ Reading /\ Len(frames) = 1
      /\ CASE BranchError(body) # "none" -> Fail(BranchError(body))
           [] BranchError(body) = "none" /\ ~ ValidBlock(Group(body)) -> Fail("panic")
           [] BranchError(body) = "none" /\ ValidBlock(Group(body)) /\ at < Len(tokens) ->
                Fail("dangling instructions")
           [] OTHER ->
                /\ result' = IF ValidRoot(body) THEN [status |-> "program", root |-> body]
                                                ELSE Stop("panic")
                /\ UNCHANGED <<tokens, at, frames>>
  BY DEF EndProgram
<1>2. result = Parsing /\ at \in Nat \ {0} /\ tokens \in Seq(Tokens)
  BY <1>1 DEF Reading, IInv
<1>3. PICK lists : Forest(lists) /\ SoundFrames(frames, at, lists)
  BY <1>2 DEF IInv
<1>4. PICK below, top :
        /\ frames = Append(below, top) /\ SoundBelow(below, lists)
        /\ top \in Frames(lists) /\ Placed(top, Len(below) + 1, lists)
        /\ Working(top, at, lists)
  BY <1>3 DEF SoundFrames
<1>5. Top = top /\ Len(below) \in Nat /\ Len(frames) = Len(below) + 1
  BY <1>4, TopIs
<1>6. top.head.name = "begin"
  <2>1. Len(below) + 1 = 1
    BY <1>1, <1>5
  <2> QED BY <1>4, <2>1 DEF Placed
<1>7. /\ SoundList(body, top.head, lists)
      /\ SpansAccepted(body) /\ (at - top.first >= 2 => body # << >>)
  BY <1>4, <1>5, PlacedHeads, BodySound
<1>8. /\ BranchError(body) \in {"empty block", "none"}
      /\ BranchError(body) = "none" => body # << >>
  <2>1. Top.first \in Nat
    BY <1>4, <1>5 DEF Frames
  <2> QED BY <1>2, <1>5, <1>7, <2>1, BranchErrors
<1> HIDE DEF body
<1>9. CASE BranchError(body) # "none"
  <2>1. Fail(BranchError(body))
    BY <1>1, <1>9
  <2> QED BY <1>8, <1>9, <2>1, FailKeeps DEF Errors
<1>10. CASE BranchError(body) = "none"
  <2>1. ValidBlock(Group(body))
    BY <1>3, <1>7, <1>8, <1>10, ListIsValid DEF ValidBlock, Group
  <2>2. ValidRoot(body)
    <3>1. body[1].kind = "span" /\ StartsWith(body[1].code, <<"begin">>)
      BY <1>6, <1>7, <1>8, <1>10, Guards DEF SoundList
    <3>2. body[1].code[1].op = "begin"
      BY <3>1 DEF StartsWith
    <3> QED BY <3>1, <3>2 DEF ValidRoot
  <2>3. CASE at < Len(tokens)
    <3>1. Fail("dangling instructions")
      BY <1>1, <1>10, <2>1, <2>3
    <3> QED BY <3>1, FailKeeps DEF Errors
  <2>4. CASE ~ (at < Len(tokens))
    <3>1. result' = [status |-> "program", root |-> body] /\ UNCHANGED <<tokens, at, frames>>
      BY <1>1, <1>10, <2>1, <2>2, <2>4
    <3>2. result'.status = "program" /\ result'.root = body /\ result' # Parsing
      BY <3>1 DEF Parsing
    <3>3. SoundProgram(body)
      BY <1>3, <1>6, <1>7, <1>8, <1>10 DEF SoundProgram
    <3> QED BY <1>2, <3>1, <3>2, <3>3 DEF IInv
  <2> QED BY <2>3, <2>4
<1> QED BY <1>9, <1>10

LEMMA RunOutKeeps ==
  ASSUME IInv, RunOut
  PROVE  IInv'
BY FailKeeps DEF RunOut, Errors

LEMMA InvariantStarts ==
  AssemblerInit => IInv
<1> SUFFICES ASSUME AssemblerInit PROVE IInv
  OBVIOUS
<1>1. tokens \in Seq(Tokens) /\ at = 2
  BY SourcesAssumption DEF AssemblerInit
<1>2. /\ \/ result = Stop("empty program")
         \/ result = Stop("invalid program start")
         \/ result = Stop("invalid program end")
         \/ result = Parsing
      /\ result = Parsing => Len(tokens) # 0 /\ tokens[1] = Token("begin", << >>)
  <2> DEFINE empty == Len(tokens) = 0
             start == tokens[1] = Token("begin", << >>)
             end == Last(tokens) = Token("end", << >>)
             e1 == Stop("empty program")
             e2 == Stop("invalid program start")
             e3 == Stop("invalid program end")
  <2>1. e1 # Parsing /\ e2 # Parsing
    BY DEF Stop, Parsing
  <2>2. result = CASE empty -> e1 [] ~ start -> e2 [] ~ end -> e3 [] OTHER -> Parsing
    BY DEF AssemblerInit
  <2>3. e3 # Parsing
    BY DEF Stop, Parsing
  <2> HIDE DEF empty, start, end, e1, e2, e3
  <2>4. /\ result = e1 \/ result = e2 \/ result = e3 \/ result = Parsing
        /\ result = Parsing => ~ empty /\ start
    BY <2>1, <2>2, <2>3
  <2> QED BY <2>4 DEF empty, start, e1, e2, e3
<1>3. CASE result # Parsing
  <2>1. \A status : Stop(status).status = status
    BY DEF Stop
  <2>2. \/ result.status = "empty program"
        \/ result.status = "invalid program start"
        \/ result.status = "invalid program end"
    BY <1>2, <1>3, <2>1
  <2>3. result.status \in Errors /\ result.status \notin {"parsing", "panic", "program"}
    BY <2>2 DEF Errors
  <2> QED BY <1>1, <1>3, <2>3 DEF IInv
<1>4. CASE result = Parsing
  <2>1. frames = <<Branch(1, << >>)>>
    BY <1>4 DEF AssemblerInit
  <2>2. tokens[1] \in Tokens /\ tokens[1].name = "begin"
    <3>1. 1 \in 1..Len(tokens)
      BY <1>1, <1>2, <1>4
    <3>2. tokens[1] \in Tokens
      BY <1>1, <3>1
    <3> QED BY <1>2, <1>4, <3>2 DEF Token
  <2> DEFINE lists == {<<LoopSkipBlock>>}
             branch == Branch(1, << >>)
  <2>3. Forest(lists)
    BY SkipSound DEF Forest
  <2>4. /\ branch \in Frames(lists) /\ branch.head = tokens[1]
        /\ Working(branch, at, lists)
    <3> DEFINE none == << >>
    <3>1. none \in Seq(BlocksOver(lists)) /\ tokens[1].name \in Heads
      BY <2>2 DEF Heads
    <3> HIDE DEF lists, none
    <3>2. /\ Branch(1, none) \in Frames(lists) /\ Branch(1, none).head = tokens[1]
          /\ Working(Branch(1, none), 1 + 1, lists)
      BY <2>2, <3>1, BranchStarts
    <3>3. at = 1 + 1
      BY <1>1
    <3> QED BY <3>2, <3>3 DEF none
  <2> HIDE DEF branch, lists
  <2>5. SoundBelow(<< >>, lists)
    BY DEF SoundBelow
  <2>6. Placed(branch, Len(<< >>) + 1, lists)
    BY <2>2, <2>4 DEF Placed
  <2>7. frames = Append(<< >>, branch)
    BY <2>1 DEF branch
  <2>8. SoundFrames(frames, at, lists)
    BY <2>4, <2>5, <2>6, <2>7 DEF SoundFrames
  <2>9. result.status = "parsing"
    BY <1>4 DEF Parsing
  <2> QED BY <1>1, <1>4, <2>3, <2>8, <2>9 DEF IInv
<1> QED BY <1>3, <1>4

LEMMA InvariantKept ==
  IInv /\ [AssemblerNext]_vars => IInv'
<1> SUFFICES ASSUME IInv, [AssemblerNext]_vars PROVE IInv'
  OBVIOUS
<1>1. CASE AssemblerNext
  BY <1>1, InstructionKeeps, OpenBlockKeeps, ElseKeeps, EndBlockKeeps, EndProgramKeeps,
     RunOutKeeps DEF AssemblerNext
<1>2. CASE UNCHANGED vars
  BY <1>2 DEF vars, IInv
<1> QED BY <1>1, <1>2
-----------------------------------------------------------------------------
(* The theorems. *)

LEMMA Invariance == AssemblerSpec => []IInv
<1> QED BY InvariantStarts, InvariantKept, PTL DEF AssemblerSpec

(***************************************************************************)
(* No text, however long or nested, makes the assertion of a constructor   *)
(* fail: compile panics on a repeat without a count and nowhere else.      *)
(***************************************************************************)
THEOREM OnlyRepeatPanics == AssemblerSpec => []NeverPanics
<1>1. IInv => NeverPanics
  BY DEF IInv, NeverPanics
<1> QED BY <1>1, Invariance, PTL

LEMMA SoundListAlternates ==
  ASSUME NEW lists, Forest(lists), NEW root, NEW head, SoundList(root, head, lists),
         NEW s \in lists \cup {root}
  PROVE  /\ Alternates(s)
         /\ \A i \in 1..Len(s) : Nested(s[i]) \subseteq lists
<1>1. PICK h : SoundList(s, h, lists)
  BY DEF Forest
<1>2. s \in Seq(BlocksOver(lists)) /\ <<LoopSkipBlock>> \in lists
  BY <1>1 DEF SoundList, Forest
<1>3. ASSUME NEW i \in 1..Len(s) PROVE Nested(s[i]) \subseteq lists
  <2>1. s[i] \in BlocksOver(lists)
    BY <1>2
  <2> QED BY <1>2, <2>1, BlockKinds
<1> QED BY <1>1, <1>3 DEF SoundList

(* ListsAt, level by level *)
Below(f, n, root) ==
  IF n = 0 THEN {root}
  ELSE UNION {UNION {Nested(s[i]) : i \in 1..Len(s)} : s \in f[n - 1]}

Levels(f, depth, root) == f = [n \in 0..depth |-> Below(f, n, root)]

LEMMA LevelsExist ==
  ASSUME NEW root
  PROVE  \A depth \in Nat : \E f : Levels(f, depth, root)
<1> DEFINE S == {depth \in Nat : \E f : Levels(f, depth, root)}
<1>1. 0 \in S
  <2> DEFINE f == [n \in 0..0 |-> {root}]
  <2>1. \A n \in 0..0 : Below(f, n, root) = {root}
    BY DEF Below
  <2>2. Levels(f, 0, root)
    <3> DEFINE g == [n \in 0..0 |-> Below(f, n, root)]
    <3>1. f = g
      BY <2>1
    <3> QED BY <3>1 DEF Levels
  <2> QED BY <2>2
<1>2. ASSUME NEW depth \in Nat, depth \in S PROVE depth + 1 \in S
  <2>1. PICK f : Levels(f, depth, root)
    BY <1>2
  <2> DEFINE top == Below(f, depth + 1, root)
             g == [n \in 0..(depth + 1) |-> IF n = depth + 1 THEN top ELSE f[n]]
  <2>2. /\ \A n \in 0..depth : f[n] = Below(f, n, root)
    <3> DEFINE h == [n \in 0..depth |-> Below(f, n, root)]
    <3>1. f = h
      BY <2>1 DEF Levels
    <3>2. \A n \in 0..depth : h[n] = Below(f, n, root)
      OBVIOUS
    <3> HIDE DEF h
    <3> QED BY <3>1, <3>2
  <2>3. \A n \in 0..depth : g[n] = f[n]
    BY <1>2
  <2>4. g[depth + 1] = top
    BY <1>2
  <2>5. \A n \in 0..(depth + 1) : g[n] = Below(g, n, root)
    <3> SUFFICES ASSUME NEW n \in 0..(depth + 1) PROVE g[n] = Below(g, n, root)
      OBVIOUS
    <3> HIDE DEF g, top
    <3>1. n # 0 => n - 1 \in 0..depth /\ g[n - 1] = f[n - 1]
      BY <1>2, <2>3
    <3>2. Below(g, n, root) = Below(f, n, root)
      BY <3>1 DEF Below
    <3>3. CASE n = depth + 1
      BY <2>4, <3>2, <3>3 DEF top
    <3>4. CASE n # depth + 1
      <4>1. n \in 0..depth
        BY <1>2, <3>4
      <4> QED BY <2>2, <2>3, <3>2, <4>1
    <3> QED BY <3>3, <3>4
  <2>6. Levels(g, depth + 1, root)
    <3> DEFINE h == [n \in 0..(depth + 1) |-> Below(g, n, root)]
    <3>1. g = [n \in 0..(depth + 1) |-> g[n]]
      OBVIOUS
    <3> HIDE DEF g
    <3>2. g = h
      BY <2>5, <3>1
    <3> QED BY <3>2 DEF Levels
  <2> QED BY <2>6
<1> HIDE DEF S
<1>3. \A depth \in Nat : depth \in S
  BY <1>1, <1>2, Inductive
<1> QED BY <1>3 DEF S

LEMMA ListsAtIs ==
  ASSUME NEW root, NEW depth \in Nat
  PROVE  \E f : Levels(f, depth, root) /\ ListsAt(root, depth) = f[depth]
<1> DEFINE Is(f) == f = [n \in 0..depth |->
                     IF n = 0 THEN {root}
                     ELSE UNION {UNION {Nested(s[i]) : i \in 1..Len(s)} : s \in f[n - 1]}]
<1>1. \A f : Levels(f, depth, root) <=> Is(f)
  BY DEF Levels, Below
<1>2. \E f : Is(f)
  BY <1>1, LevelsExist
<1> DEFINE lists == CHOOSE f : Is(f)
<1>3. Is(lists)
  BY <1>2
<1>4. ListsAt(root, depth) = lists[depth]
  BY DEF ListsAt
<1> HIDE DEF lists
<1>5. Levels(lists, depth, root)
  BY <1>1, <1>3
<1> QED BY <1>4, <1>5

LEMMA TreeIsForest ==
  ASSUME NEW lists, Forest(lists), NEW root, NEW head, SoundList(root, head, lists),
         NEW depth \in Nat
  PROVE  ListsAt(root, depth) \subseteq lists \cup {root}
<1>1. PICK f : Levels(f, depth, root) /\ ListsAt(root, depth) = f[depth]
  BY ListsAtIs
<1>2. \A n \in 0..depth : f[n] = Below(f, n, root)
  <2> DEFINE h == [n \in 0..depth |-> Below(f, n, root)]
  <2>1. f = h
    BY <1>1 DEF Levels
  <2>2. \A n \in 0..depth : h[n] = Below(f, n, root)
    OBVIOUS
  <2> HIDE DEF h
  <2> QED BY <2>1, <2>2
<1> DEFINE S == {n \in Nat : n <= depth => f[n] \subseteq lists \cup {root}}
<1>3. 0 \in S
  <2>1. f[0] = {root}
    <3>1. 0 \in 0..depth
      OBVIOUS
    <3>2. f[0] = Below(f, 0, root)
      BY <1>2, <3>1
    <3> QED BY <3>2 DEF Below
  <2> QED BY <2>1
<1>4. ASSUME NEW n \in Nat, n \in S PROVE n + 1 \in S
  <2> SUFFICES ASSUME n + 1 <= depth PROVE f[n + 1] \subseteq lists \cup {root}
    OBVIOUS
  <2>1. f[n] \subseteq lists \cup {root}
    BY <1>4
  <2>2. n + 1 \in 0..depth /\ n + 1 # 0 /\ (n + 1) - 1 = n
    OBVIOUS
  <2>3. f[n + 1] = UNION {UNION {Nested(s[i]) : i \in 1..Len(s)} : s \in f[n]}
    BY <1>2, <2>2 DEF Below
  <2>4. ASSUME NEW s \in f[n] PROVE UNION {Nested(s[i]) : i \in 1..Len(s)} \subseteq lists
    BY <2>1, SoundListAlternates
  <2> QED BY <2>3, <2>4
<1> HIDE DEF S
<1>5. depth \in S
  BY <1>3, <1>4, Inductive
<1> QED BY <1>1, <1>5 DEF S

(***************************************************************************)
(* Of all the lists of a text that is accepted, at any depth, none has a   *)
(* span behind another: what add_span and repeat_block_sequence see to,    *)
(* and validate_block_list does not check.                                 *)
(***************************************************************************)
THEOREM AssembledSpansAlternate == AssemblerSpec => []SpansAlternate
<1>1. IInv => SpansAlternate
  <2> SUFFICES ASSUME IInv, result.status = "program",
                      NEW depth \in 0..Len(tokens), NEW s \in ListsAt(result.root, depth)
               PROVE  Alternates(s)
    BY DEF SpansAlternate
  <2>1. PICK lists, head : Forest(lists) /\ SoundList(result.root, head, lists)
    BY DEF IInv, SoundProgram
  <2>2. depth \in Nat
    BY DEF IInv
  <2>3. s \in lists \cup {result.root}
    BY <2>1, <2>2, TreeIsForest
  <2> QED BY <2>1, <2>3, SoundListAlternates
<1> QED BY <1>1, Invariance, PTL

(***************************************************************************)
(* What the theorems about the interpreter, the decoder and its            *)
(* constraints assume of the lists of blocks they are given holds of the   *)
(* lists of every text the assembler accepts.                              *)
(***************************************************************************)
AssembledIsConstructed ==
  result.status = "program" =>
    \E lists : /\ Constructed(lists, {result.root})
               /\ BeginsOnce(lists, {result.root})
               /\ PowersFit => HintsGiven(lists)
               /\ \A s \in lists : Alternates(s)

LEMMA SeqIsSequence ==
  ASSUME NEW S, NEW s \in Seq(S)
  PROVE  IsSequence(s)
BY DEF IsSequence

LEMMA RootIsConstructed ==
  ASSUME NEW trees, Forest(trees), NEW root, root # << >>,
         NEW head, head.name = "begin", SoundList(root, head, trees)
  PROVE  LET lists == trees \cup {root}
         IN /\ Constructed(lists, {root})
            /\ BeginsOnce(lists, {root})
            /\ PowersFit => HintsGiven(lists)
            /\ \A s \in lists : Alternates(s)
<1> DEFINE lists == trees \cup {root}
<1>1. ASSUME NEW s \in lists
      PROVE  /\ s \in Seq(BlocksOver(trees)) /\ s # << >>
             /\ ValidBlockList(s, << >>) /\ Alternates(s)
  <2>1. PICK h : SoundList(s, h, trees) /\ s # << >>
    BY DEF Forest
  <2> QED BY <2>1, ListIsValid DEF SoundList
<1>2. ASSUME NEW s \in lists, NEW i \in 1..Len(s)
      PROVE  /\ s[i] \in BlocksOver(trees) /\ ValidBlock(s[i])
             /\ s[i].kind \in {"span", "group", "switch", "loop"}
             /\ Nested(s[i]) \subseteq trees
             /\ s[i].kind = "span" =>
                  SoundCode(s[i].code, IF s = root /\ i = 1 THEN "begin" ELSE "block")
  <2>1. s[i] \in BlocksOver(trees)
    BY <1>1
  <2>2. s[i].kind \in {"span", "group", "switch", "loop"} /\ Nested(s[i]) \subseteq trees
    BY <2>1, BlockKinds DEF Forest
  <2>3. CASE s = root
    <3>1. SoundBlock(s[i], Place(head, i))
      BY <2>3 DEF SoundList
    <3>2. Place(head, i) = IF i = 1 THEN "begin" ELSE "block"
      BY DEF Place
    <3> QED BY <2>1, <2>2, <2>3, <3>1, <3>2 DEF SoundBlock
  <2>4. CASE s # root
    <3>1. SoundBlock(s[i], Place(BlockHead, i)) /\ Place(BlockHead, i) = "block"
      BY <2>4, Guards DEF Forest, SoundList, Place
    <3> QED BY <2>1, <2>2, <2>4, <3>1 DEF SoundBlock
  <2> QED BY <2>3, <2>4
<1>3. ValidRoot(root)
  <2>1. root[1].kind = "span" /\ StartsWith(root[1].code, <<"begin">>)
    BY Guards DEF SoundList
  <2> QED BY <2>1 DEF ValidRoot, StartsWith
<1>4. root \notin trees
  <2> SUFFICES ASSUME root \in trees PROVE FALSE
    OBVIOUS
  <2>1. 1 \in 1..Len(root)
    <3>1. root \in Seq(BlocksOver(trees))
      BY DEF SoundList
    <3> QED BY <3>1
  <2>2. SoundBlock(root[1], "block")
    BY <2>1, Guards DEF Forest, SoundList, Place
  <2>3. root[1].kind = "span" /\ StartsWith(root[1].code, <<"begin">>)
    BY Guards DEF SoundList
  <2>4. SoundCode(root[1].code, "block")
    BY <2>2, <2>3 DEF SoundBlock
  <2>5. 1 \in 1..Len(root[1].code) /\ root[1].code[1].op = "begin"
    BY <2>3, <2>4 DEF StartsWith, SoundCode
  <2>6. SoundInstr(root[1].code[1], 1, "block")
    BY <2>4, <2>5 DEF SoundCode
  <2> QED BY <2>5, <2>6 DEF SoundInstr
<1> HIDE DEF lists
<1>5. root \in lists /\ trees \subseteq lists
  BY DEF lists
<1>6. Constructed(lists, {root})
  <2>1. ASSUME NEW s \in lists, NEW i \in 1..Len(s), s[i].kind = "span"
        PROVE  IsSequence(s[i].code)
    BY <1>2, <2>1, SeqIsSequence DEF SoundCode
  <2>2. ASSUME NEW s \in lists PROVE ValidBlockList(s, << >>) /\ IsSequence(s)
    BY <1>1, SeqIsSequence
  <2>3. \A s \in lists : \A i \in 1..Len(s) : Nested(s[i]) \subseteq lists
    BY <1>2, <1>5
  <2> QED BY <1>2, <1>3, <1>5, <2>1, <2>2, <2>3 DEF Constructed
<1>7. BeginsOnce(lists, {root})
  <2>1. ASSUME NEW s \in lists, NEW i \in 1..Len(s), s[i].kind = "span",
               NEW j \in 1..Len(s[i].code), s[i].code[j].op = "begin"
        PROVE  s \in {root} /\ i = 1 /\ j = 1
    <3>1. SoundInstr(s[i].code[j], j, IF s = root /\ i = 1 THEN "begin" ELSE "block")
      BY <1>2, <2>1 DEF SoundCode
    <3> QED BY <2>1, <3>1 DEF SoundInstr
  <2>2. \A s \in lists : \A i \in 1..Len(s) : Nested(s[i]) \cap {root} = {}
    BY <1>2, <1>4
  <2> QED BY <2>1, <2>2 DEF BeginsOnce
<1>8. ASSUME PowersFit PROVE HintsGiven(lists)
  <2>1. ASSUME NEW s \in lists, NEW i \in 1..Len(s), s[i].kind = "span",
               NEW j \in 1..Len(s[i].code)
        PROVE  /\ WellFormed(s[i].code[j].hint)
               /\ s[i].code[j].hint.kind = "value" => s[i].code[j].op = "push"
    <3>1. SoundInstr(s[i].code[j], j, IF s = root /\ i = 1 THEN "begin" ELSE "block")
      BY <1>2, <2>1 DEF SoundCode
    <3> QED BY <1>8, <3>1 DEF SoundInstr
  <2> QED BY <2>1 DEF HintsGiven
<1> QED BY <1>1, <1>6, <1>7, <1>8 DEF lists

THEOREM AssembledIsWhatProofsAssume == AssemblerSpec => []AssembledIsConstructed
<1>1. IInv => AssembledIsConstructed
  <2> SUFFICES ASSUME IInv, result.status = "program"
               PROVE  \E lists : /\ Constructed(lists, {result.root})
                                 /\ BeginsOnce(lists, {result.root})
                                 /\ PowersFit => HintsGiven(lists)
                                 /\ \A s \in lists : Alternates(s)
    BY DEF AssembledIsConstructed
  <2>1. PICK trees, head : /\ Forest(trees) /\ head.name = "begin"
                           /\ result.root # << >> /\ SoundList(result.root, head, trees)
    BY DEF IInv, SoundProgram
  <2> QED BY <2>1, RootIsConstructed
<1> QED BY <1>1, Invariance, PTL
=============================================================================
