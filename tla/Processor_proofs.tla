-------------------------- MODULE Processor_proofs --------------------------
(***************************************************************************)
(* Where the interpreter is, for all programs: the types of its variables, *)
(* its position in the tree of blocks and in the cycle of round constants, *)
(* and the rows of the two traces; what the decoder's registers hold; and  *)
(* that it executes the structured program.                                *)
(***************************************************************************)
EXTENDS ProcessorRefinement, Stack_proofs, FiniteSetTheorems, WellFoundedInduction
-----------------------------------------------------------------------------
(* Facts about cycles, block lists and the sponge that hold for all        *)
(* programs and all lengths of a cycle.                                    *)

(* the place in a cycle one step later *)
LEMMA ModNext ==
  ASSUME NEW m \in Nat \ {0}, NEW x \in Nat
  PROVE  (x + 1) % m = IF x % m = m - 1 THEN 0 ELSE (x % m) + 1
  <1>1. PICK q \in Nat : x = q * m + (x % m) /\ x % m \in 0..(m - 1)
    BY DivMod
  <1>2. CASE x % m = m - 1
    <2>1. x + 1 = (q + 1) * m + 0
      BY <1>1, <1>2
    <2>2. q + 1 \in Int /\ 0 \in 0..(m - 1)
      OBVIOUS
    <2>3. ((q + 1) * m + 0) % m = 0
      BY <2>2, ModUnique
    <2> QED BY <2>1, <2>3, <1>2
  <1>3. CASE x % m # m - 1
    <2> DEFINE r == (x % m) + 1
    <2>1. x + 1 = q * m + r /\ r \in 0..(m - 1)
      BY <1>1, <1>3
    <2> HIDE DEF r
    <2>2. q \in Int
      OBVIOUS
    <2>3. (q * m + r) % m = r
      BY <2>1, <2>2, ModUnique
    <2>4. (x + 1) % m = r
      BY <2>1, <2>3
    <2> QED BY <2>4, <1>3 DEF r
  <1> QED BY <1>2, <1>3

(* Where the alignment p divides a cycle, being aligned depends only on    *)
(* the place in the cycle.                                                 *)
LEMMA ModDivides ==
  ASSUME NEW m \in Nat \ {0}, NEW p \in Nat \ {0}, m % p = 0,
         NEW a \in Nat, NEW b \in Nat, a % m = b % m, b % p = 0
  PROVE  a % p = 0
  <1>1. PICK c \in Nat : m = c * p + (m % p)
    BY DivMod
  <1>2. PICK t \in Nat : b = t * p + (b % p)
    BY DivMod
  <1>3. PICK u \in Nat : a = u * m + (a % m)
    BY DivMod
  <1>4. PICK v \in Nat : b = v * m + (b % m)
    BY DivMod
  <1> DEFINE r == a % m
  <1>5. /\ m = c * p
        /\ b = t * p
        /\ a = u * m + r /\ b = v * m + r /\ r \in Int
    BY <1>1, <1>2, <1>3, <1>4
  <1> HIDE DEF r
  <1>6. a = (u * c + t - v * c) * p + 0
    <2>1. r = t * p - v * (c * p)
      BY <1>5
    <2>2. a = u * (c * p) + t * p - v * (c * p)
      BY <1>5, <2>1
    <2> QED BY <2>2
  <1>7. u * c + t - v * c \in Int /\ 0 \in 0..(p - 1)
    OBVIOUS
  <1> QED BY <1>6, <1>7, ModUnique

LEMMA CycleFacts ==
  /\ CycleLength \in Nat \ {0} /\ CycleLength > 2
  /\ \A i \in 0..(CycleLength - 1) : i % CycleLength = i
  /\ \A x \in Nat : x % CycleLength \in 0..(CycleLength - 1)
  /\ \A x \in Nat : (x + 1) % CycleLength =
       IF x % CycleLength = CycleLength - 1 THEN 0 ELSE (x % CycleLength) + 1
  <1>1. CycleLength \in Nat \ {0} /\ CycleLength > 2
    BY CycleAssumption
  <1>2. \A i \in 0..(CycleLength - 1) : i % CycleLength = i
    BY <1>1
  <1>3. \A x \in Nat : x % CycleLength \in 0..(CycleLength - 1)
    BY <1>1
  <1> QED BY <1>1, <1>2, <1>3, ModNext
-----------------------------------------------------------------------------
(* Sequences. *)
LEMMA FunctionIsSequence ==
  ASSUME NEW S, NEW n \in Nat, NEW f \in [1..n -> S]
  PROVE  f \in Seq(S) /\ Len(f) = n
  <1>1. f \in Seq(S)
    BY SeqDef
  <1> QED BY <1>1, LenProperties

LEMMA SequenceWithin ==
  ASSUME NEW s, IsSequence(s)
  PROVE  /\ s \in Seq({s[i] : i \in DOMAIN s})
         /\ Len(s) \in Nat /\ DOMAIN s = 1..Len(s)
  BY LenProperties DEF IsSequence

LEMMA IsSequenceOf ==
  ASSUME NEW S, NEW s \in Seq(S)
  PROVE  IsSequence(s)
  <1> DEFINE E == {s[i] : i \in DOMAIN s}
  <1>1. Len(s) \in Nat /\ DOMAIN s = 1..Len(s) /\ s \in [1..Len(s) -> S]
    BY LenProperties
  <1>2. \A i \in 1..Len(s) : s[i] \in E
    BY <1>1
  <1>3. s \in [1..Len(s) -> E]
    BY <1>1, <1>2
  <1>4. s \in Seq(E)
    BY <1>1, <1>3, FunctionIsSequence
  <1> QED BY <1>4 DEF IsSequence

(* the next term appended to a sequence given by its terms *)
LEMMA AppendTerm ==
  ASSUME NEW n \in Nat, NEW f, DOMAIN f = 1..(n + 1)
  PROVE  Append([i \in 1..n |-> f[i]], f[n + 1]) = [i \in 1..(n + 1) |-> f[i]]
  <1> DEFINE T == {f[i] : i \in 1..(n + 1)}
  <1> DEFINE s == [i \in 1..n |-> f[i]]
  <1> DEFINE t == [i \in 1..(n + 1) |-> f[i]]
  <1>1. s \in [1..n -> T] /\ t \in [1..(n + 1) -> T] /\ f[n + 1] \in T
    OBVIOUS
  <1>2. \A i \in 1..n : s[i] = f[i]
    OBVIOUS
  <1>3. \A i \in 1..(n + 1) : t[i] = f[i]
    OBVIOUS
  <1> HIDE DEF s, t, T
  <1>4. s \in Seq(T) /\ Len(s) = n
    BY <1>1, FunctionIsSequence
  <1>5. t \in Seq(T) /\ Len(t) = n + 1
    <2>1. n + 1 \in Nat
      OBVIOUS
    <2> QED BY <1>1, <2>1, FunctionIsSequence
  <1>6. /\ Append(s, f[n + 1]) \in Seq(T) /\ Len(Append(s, f[n + 1])) = n + 1
        /\ \A i \in 1..(n + 1) : Append(s, f[n + 1])[i] = t[i]
    BY <1>1, <1>2, <1>3, <1>4, AppendProperties
  <1>7. Append(s, f[n + 1]) = t
    BY <1>5, <1>6, SeqEqual
  <1> QED BY <1>7 DEF s, t
-----------------------------------------------------------------------------
(* Sponges. *)
LEMMA LoadIsSponge == \A a, b, c : IsSponge(Load(a, b, c)) /\ Load(a, b, c).rounds = << >>
  <1> SUFFICES ASSUME NEW a, NEW b, NEW c
               PROVE  IsSponge(Load(a, b, c)) /\ Load(a, b, c).rounds = << >>
    OBVIOUS
  <1>1. IsSequence(<< >>)
    BY EmptySeq, IsSequenceOf
  <1> QED BY <1>1 DEF IsSponge, Load

(* the rounds of the first n instructions of a span *)
Rounds(code, n) == [i \in 1..n |-> Round(code[i].op, OpValue(code[i]), i - 1)]

LEMMA RoundsFacts ==
  ASSUME NEW code, NEW n \in Nat
  PROVE  /\ Rounds(code, n) \in Seq({Rounds(code, n + 1)[i] : i \in 1..(n + 1)})
         /\ Append(Rounds(code, n), Round(code[n + 1].op, OpValue(code[n + 1]), n))
              = Rounds(code, n + 1)
  <1> DEFINE f == Rounds(code, n + 1)
  <1> DEFINE T == {f[i] : i \in 1..(n + 1)}
  <1>1. DOMAIN f = 1..(n + 1) /\ f[n + 1] = Round(code[n + 1].op, OpValue(code[n + 1]), n)
    BY DEF Rounds
  <1>2. Rounds(code, n) = [i \in 1..n |-> f[i]] /\ f = [i \in 1..(n + 1) |-> f[i]]
    BY DEF Rounds
  <1> HIDE DEF f
  <1>3. Append([i \in 1..n |-> f[i]], f[n + 1]) = [i \in 1..(n + 1) |-> f[i]]
    BY <1>1, AppendTerm
  <1>4. [i \in 1..n |-> f[i]] \in [1..n -> T]
    OBVIOUS
  <1>5. Rounds(code, n) \in Seq(T)
    <2> HIDE DEF T
    <2> QED BY <1>2, <1>4, FunctionIsSequence
  <1> QED BY <1>1, <1>2, <1>3, <1>5 DEF f

LEMMA RoundsSequence ==
  ASSUME NEW code, NEW n \in Nat
  PROVE  IsSequence(Rounds(code, n))
  BY RoundsFacts, IsSequenceOf

LEMMA RoundsReplaced ==
  ASSUME NEW s, IsSponge(s), NEW e
  PROVE  [s EXCEPT !.rounds = e] = [lanes |-> s.lanes, rounds |-> e]
  <1>1. PICK l, r : s = [lanes |-> l, rounds |-> r]
    BY DEF IsSponge
  <1>2. [[lanes |-> l, rounds |-> r] EXCEPT !.rounds = e] = [lanes |-> l, rounds |-> e]
    OBVIOUS
  <1>3. s.lanes = l
    BY <1>1
  <1> QED BY <1>1, <1>2, <1>3

LEMMA RoundApplied ==
  ASSUME NEW s, IsSponge(s), NEW op, NEW value, NEW i
  PROVE  /\ ApplyRound(s, op, value, i) =
              [lanes |-> s.lanes, rounds |-> Append(s.rounds, Round(op, value, i))]
         /\ IsSponge(ApplyRound(s, op, value, i))
  <1> DEFINE E == {s.rounds[j] : j \in DOMAIN s.rounds}
  <1> DEFINE x == Round(op, value, i)
  <1>1. s = [lanes |-> s.lanes, rounds |-> s.rounds] /\ s.rounds \in Seq(E)
    BY DEF IsSponge, IsSequence
  <1>2. ApplyRound(s, op, value, i) = [lanes |-> s.lanes, rounds |-> Append(s.rounds, x)]
    BY RoundsReplaced DEF ApplyRound
  <1> HIDE DEF E, x
  <1>3. s.rounds \in Seq(E \cup {x}) /\ x \in E \cup {x}
    BY <1>1, SeqMonotonic
  <1>4. Append(s.rounds, x) \in Seq(E \cup {x})
    BY <1>3, AppendProperties
  <1>5. IsSequence(Append(s.rounds, x))
    BY <1>4, IsSequenceOf
  <1> QED BY <1>2, <1>5 DEF IsSponge, x

LEMMA CodeAbsorbed ==
  ASSUME NEW s, IsSponge(s), NEW code, NEW n \in Nat
  PROVE  /\ AbsorbCode(s, code, n) =
              [lanes |-> s.lanes, rounds |-> s.rounds \o Rounds(code, n)]
         /\ IsSponge(AbsorbCode(s, code, n))
  <1> DEFINE A == {s.rounds[j] : j \in DOMAIN s.rounds}
  <1> DEFINE B == {Rounds(code, n)[j] : j \in DOMAIN Rounds(code, n)}
  <1>1. s = [lanes |-> s.lanes, rounds |-> s.rounds] /\ s.rounds \in Seq(A)
    BY DEF IsSponge, IsSequence
  <1>2. AbsorbCode(s, code, n) = [lanes |-> s.lanes, rounds |-> s.rounds \o Rounds(code, n)]
    BY RoundsReplaced DEF AbsorbCode, Rounds
  <1>3. Rounds(code, n) \in Seq(B)
    BY RoundsSequence DEF IsSequence
  <1> HIDE DEF A, B
  <1>4. s.rounds \in Seq(A \cup B) /\ Rounds(code, n) \in Seq(A \cup B)
    BY <1>1, <1>3, SeqMonotonic
  <1>5. s.rounds \o Rounds(code, n) \in Seq(A \cup B)
    BY <1>4, ConcatProperties
  <1>6. IsSequence(s.rounds \o Rounds(code, n))
    BY <1>5, IsSequenceOf
  <1> QED BY <1>2, <1>6 DEF IsSponge

LEMMA AbsorbNone ==
  ASSUME NEW s, IsSponge(s), NEW code
  PROVE  AbsorbCode(s, code, 0) = s
  <1>1. s = [lanes |-> s.lanes, rounds |-> s.rounds] /\ IsSequence(s.rounds)
    BY DEF IsSponge
  <1>2. AbsorbCode(s, code, 0) = [lanes |-> s.lanes, rounds |-> s.rounds \o Rounds(code, 0)]
    BY CodeAbsorbed
  <1>3. Rounds(code, 0) = << >>
    BY DEF Rounds
  <1>4. s.rounds \o << >> = s.rounds
    BY <1>1, ConcatEmptySeq DEF IsSequence
  <1> QED BY <1>1, <1>2, <1>3, <1>4

(* A round for the next instruction, at any step with the same place in    *)
(* its cycle, is what hashing the span would do.                           *)
LEMMA AbsorbNext ==
  ASSUME NEW s, IsSponge(s), NEW code, NEW n \in Nat, NEW i \in Nat,
         i % CycleLength = n % CycleLength
  PROVE  ApplyRound(AbsorbCode(s, code, n), code[n + 1].op, OpValue(code[n + 1]), i)
           = AbsorbCode(s, code, n + 1)
  <1> DEFINE x == Round(code[n + 1].op, OpValue(code[n + 1]), n)
  <1> DEFINE A == {s.rounds[j] : j \in DOMAIN s.rounds}
  <1> DEFINE B == {Rounds(code, n + 1)[j] : j \in 1..(n + 1)}
  <1>1. Round(code[n + 1].op, OpValue(code[n + 1]), i) = x
    BY DEF Round
  <1>2. /\ AbsorbCode(s, code, n) = [lanes |-> s.lanes, rounds |-> s.rounds \o Rounds(code, n)]
        /\ IsSponge(AbsorbCode(s, code, n))
    BY CodeAbsorbed
  <1>3. ApplyRound(AbsorbCode(s, code, n), code[n + 1].op, OpValue(code[n + 1]), i)
          = [lanes |-> s.lanes, rounds |-> Append(s.rounds \o Rounds(code, n), x)]
    <2> DEFINE t == AbsorbCode(s, code, n)
    <2>1. t.lanes = s.lanes /\ t.rounds = s.rounds \o Rounds(code, n) /\ IsSponge(t)
      BY <1>2
    <2> DEFINE op == code[n + 1].op
    <2> DEFINE value == OpValue(code[n + 1])
    <2> HIDE DEF t, op, value
    <2>2. ApplyRound(t, op, value, i)
            = [lanes |-> t.lanes, rounds |-> Append(t.rounds, Round(op, value, i))]
      BY <2>1, RoundApplied
    <2> QED BY <1>1, <2>1, <2>2 DEF t, op, value
  <1>4. AbsorbCode(s, code, n + 1) =
          [lanes |-> s.lanes, rounds |-> s.rounds \o Rounds(code, n + 1)]
    <2>1. n + 1 \in Nat
      OBVIOUS
    <2> QED BY <2>1, CodeAbsorbed
  <1>5. s.rounds \in Seq(A)
    BY DEF IsSponge, IsSequence
  <1>6. Rounds(code, n) \in Seq(B) /\ Append(Rounds(code, n), x) = Rounds(code, n + 1)
    BY RoundsFacts
  <1>7. x \in B
    BY DEF Rounds
  <1> DEFINE S == A \cup B
  <1> HIDE DEF A, B, x
  <1>8. s.rounds \in Seq(S) /\ Rounds(code, n) \in Seq(S) /\ x \in S
    BY <1>5, <1>6, <1>7, SeqMonotonic
  <1> HIDE DEF S
  <1>9. Append(s.rounds \o Rounds(code, n), x) = s.rounds \o Append(Rounds(code, n), x)
    <2> DEFINE a == s.rounds
    <2> DEFINE b == Rounds(code, n)
    <2>1. a \in Seq(S) /\ b \in Seq(S) /\ <<x>> \in Seq(S) /\ a \o b \in Seq(S)
      BY <1>8, ConcatProperties
    <2>2. Append(a \o b, x) = (a \o b) \o <<x>> /\ Append(b, x) = b \o <<x>>
      BY <1>8, <2>1, AppendIsConcat
    <2> HIDE DEF a, b
    <2>3. (a \o b) \o <<x>> = a \o (b \o <<x>>)
      BY <2>1, ConcatAssociative
    <2> QED BY <2>2, <2>3 DEF a, b
  <1> QED BY <1>3, <1>4, <1>6, <1>9
-----------------------------------------------------------------------------
(* The rounds that merge a block into its parent. *)
Merged(lanes, n) == [lanes |-> lanes, rounds |-> [i \in 1..n |-> Round("noop", 0, i)]]

LEMMA MergedIsSponge ==
  ASSUME NEW lanes, NEW n \in Nat
  PROVE  IsSponge(Merged(lanes, n))
  <1> DEFINE r == [i \in 1..n |-> Round("noop", 0, i)]
  <1> DEFINE T == {Round("noop", 0, i) : i \in 1..n}
  <1>1. r \in [1..n -> T]
    OBVIOUS
  <1>2. IsSequence(r)
    <2> HIDE DEF r, T
    <2> QED BY <1>1, FunctionIsSequence, IsSequenceOf
  <1> QED BY <1>2 DEF IsSponge, Merged

LEMMA MergedNone ==
  ASSUME NEW a, NEW b, NEW c
  PROVE  Load(a, b, c) = Merged(<<a, b, c>>, 0)
  <1>1. [i \in 1..0 |-> Round("noop", 0, i)] = << >>
    OBVIOUS
  <1> QED BY <1>1 DEF Load, Merged

LEMMA MergedNext ==
  ASSUME NEW lanes, NEW n \in Nat, NEW i \in Nat, i % CycleLength = (n + 1) % CycleLength
  PROVE  ApplyRound(Merged(lanes, n), "noop", 0, i) = Merged(lanes, n + 1)
  <1> DEFINE f == [j \in 1..(n + 1) |-> Round("noop", 0, j)]
  <1>1. DOMAIN f = 1..(n + 1) /\ f[n + 1] = Round("noop", 0, i)
    <2>1. Round("noop", 0, n + 1) = Round("noop", 0, i)
      BY DEF Round
    <2>2. f[n + 1] = Round("noop", 0, n + 1)
      OBVIOUS
    <2> QED BY <2>1, <2>2
  <1>2. /\ [j \in 1..n |-> f[j]] = [j \in 1..n |-> Round("noop", 0, j)]
        /\ [j \in 1..(n + 1) |-> f[j]] = f
    OBVIOUS
  <1>3. Append([j \in 1..n |-> f[j]], f[n + 1]) = [j \in 1..(n + 1) |-> f[j]]
    <2> HIDE DEF f
    <2> QED BY <1>1, AppendTerm
  <1>4. Append([j \in 1..n |-> Round("noop", 0, j)], Round("noop", 0, i)) = f
    <2> HIDE DEF f
    <2> QED BY <1>1, <1>2, <1>3
  <1>5. ApplyRound(Merged(lanes, n), "noop", 0, i) =
          [lanes |-> lanes,
           rounds |-> Append([j \in 1..n |-> Round("noop", 0, j)], Round("noop", 0, i))]
    <2> DEFINE t == Merged(lanes, n)
    <2>1. /\ IsSponge(t) /\ t.lanes = lanes
          /\ t.rounds = [j \in 1..n |-> Round("noop", 0, j)]
      BY MergedIsSponge DEF Merged
    <2> HIDE DEF t
    <2>2. ApplyRound(t, "noop", 0, i)
            = [lanes |-> t.lanes, rounds |-> Append(t.rounds, Round("noop", 0, i))]
      BY <2>1, RoundApplied
    <2> QED BY <2>1, <2>2 DEF t
  <1> QED BY <1>4, <1>5 DEF Merged

LEMMA HashAccIsMerged ==
  ASSUME NEW a, NEW b, NEW c
  PROVE  HashAcc(a, b, c) = Merged(<<a, b, c>>, HaccRounds)
  BY DEF HashAcc, Merged

(* A round that fills the last place of a cycle. *)
LEMMA LastRound ==
  ASSUME NEW s, NEW op, NEW value, NEW i \in Nat, i % CycleLength = CycleLength - 1
  PROVE  ApplyRound(s, op, value, i) = ApplyRound(s, op, value, CycleLength - 1)
  <1>1. (CycleLength - 1) % CycleLength = CycleLength - 1
    BY CycleFacts
  <1> QED BY <1>1 DEF ApplyRound, Round
-----------------------------------------------------------------------------
(* What the constructors guarantee of the blocks of a program. *)
LEMMA ListFacts ==
  ASSUME NEW s \in BlockLists
  PROVE  /\ Len(s) \in Nat \ {0} /\ DOMAIN s = 1..Len(s)
         /\ s[1].kind = "span"
         /\ \A i \in 1..Len(s) :
              /\ s[i].kind \in {"span", "group", "switch", "loop"}
              /\ ValidBlock(s[i]) /\ Nested(s[i]) \subseteq BlockLists
  <1>1. IsSequence(s) /\ ValidBlockList(s, << >>)
    BY BlocksAssumption DEF Constructed
  <1>2. Len(s) \in Nat /\ DOMAIN s = 1..Len(s)
    BY <1>1, SequenceWithin
  <1> QED BY <1>1, <1>2, BlocksAssumption DEF ValidBlockList, Constructed

LEMMA SpanFacts ==
  ASSUME NEW s \in BlockLists, NEW i \in 1..Len(s), s[i].kind = "span"
  PROVE  /\ Len(s[i].code) \in Nat \ {0}
         /\ Len(s[i].code) % CycleLength = CycleLength - 1
         /\ \A j \in 1..Len(s[i].code) :
              s[i].code[j].op = "push" => (j - 1) % PushAlignment = 0
  <1>1. Len(s[i].code) \in Nat
    BY BlocksAssumption, SequenceWithin DEF Constructed
  <1>2. ValidSpan(s[i].code)
    BY BlocksAssumption DEF ValidBlock, Constructed
  <1>3. 0 % CycleLength = 0 /\ CycleLength - 1 # 0
    BY CycleFacts
  <1> QED BY <1>1, <1>2, <1>3 DEF ValidSpan

LEMMA SkipFacts ==
  /\ LoopSkipBlock.kind = "span" /\ Len(LoopSkipBlock.code) = CycleLength - 1
  /\ Len(<<LoopSkipBlock>>) = 1 /\ <<LoopSkipBlock>>[1] = LoopSkipBlock
  <1> DEFINE f == [i \in 1..(CycleLength - 1) |->
          Instr(CASE i = 1 -> "not" [] i = 2 -> "assert" [] OTHER -> "noop")]
  <1> DEFINE T == {f[i] : i \in 1..(CycleLength - 1)}
  <1>1. CycleLength - 1 \in Nat
    BY CycleFacts
  <1>2. f \in [1..(CycleLength - 1) -> T]
    OBVIOUS
  <1>3. Len(f) = CycleLength - 1
    <2> HIDE DEF f, T
    <2> QED BY <1>1, <1>2, FunctionIsSequence
  <1> QED BY <1>3 DEF LoopSkipBlock, Span
-----------------------------------------------------------------------------
LEMMA MaxIsNat == MaxStackDepth \in Nat
  BY StackAssumption
-----------------------------------------------------------------------------
(* The list a frame executes is one of the program's. *)
LEMMA NestedLists ==
  ASSUME NEW b \in BlockSet
  PROVE  Nested(b) \subseteq BlockLists
  <1>1. CASE \E s \in RootLists : b = Group(s)
    BY <1>1, BlocksAssumption DEF Group, Nested, Constructed
  <1>2. CASE \E s \in BlockLists : \E i \in 1..Len(s) : b = s[i]
    BY <1>2, ListFacts
  <1> QED BY <1>1, <1>2 DEF BlockSet

LEMMA BodyIsList ==
  ASSUME NEW f \in Frames, Matches(f)
  PROVE  /\ Body(f) \in BlockLists
         /\ f.part \in {"skip", "exit"} => Body(f) = f.block.skip
         /\ f.part = "loop" => Body(f) = f.block.body
  <1>1. f.block \in BlockSet /\ f.part \in Parts
    BY DEF Frames
  <1>2. Nested(f.block) \subseteq BlockLists
    BY <1>1, NestedLists
  <1> QED BY <1>1, <1>2 DEF Parts, Matches, Body, Nested

LEMMA BlockOfList ==
  ASSUME NEW s \in BlockLists, NEW i \in 1..Len(s)
  PROVE  s[i] \in BlockSet
  BY DEF BlockSet

(* the skip block of a loop of the program *)
LEMMA SkipOfLoop ==
  ASSUME NEW b \in BlockSet, b.kind = "loop"
  PROVE  b.skip = <<LoopSkipBlock>> /\ b.body \in BlockLists
  <1>1. \A s \in RootLists : Group(s).kind = "group"
    BY DEF Group
  <1>2. PICK s \in BlockLists : \E i \in 1..Len(s) : b = s[i]
    BY <1>1 DEF BlockSet
  <1>3. ValidBlock(b) /\ Nested(b) \subseteq BlockLists
    BY <1>2, ListFacts
  <1> QED BY <1>3 DEF ValidBlock, Nested

(* What a frame stands for depends on its block and its part alone. *)
LEMMA SameFrame ==
  ASSUME NEW f, NEW g, f.block = g.block, f.part = g.part
  PROVE  /\ Body(f) = Body(g) /\ (Matches(f) <=> Matches(g))
         /\ Base(f) = Base(g)
         /\ \A n : Absorbed(f, n) = Absorbed(g, n)
  BY DEF Body, Matches, Base, Absorbed
-----------------------------------------------------------------------------
(* The three ways the calls change. *)
LEMMA Advanced ==
  ASSUME NEW c \in Seq(Frames), c # << >>,
         NEW d, d = [c EXCEPT ![Len(c)].at = @ + 1]
  PROVE  /\ d \in Seq(Frames) /\ Len(d) = Len(c) /\ Len(c) \in Nat \ {0}
         /\ \A i \in 1..(Len(c) - 1) : d[i] = c[i]
         /\ d[Len(c)].block = c[Len(c)].block /\ d[Len(c)].part = c[Len(c)].part
         /\ d[Len(c)].at = c[Len(c)].at + 1
  <1> DEFINE n == Len(c)
  <1> DEFINE f == [c[n] EXCEPT !.at = @ + 1]
  <1>1. n \in Nat \ {0} /\ n \in 1..n
    BY EmptySeq
  <1>2. c[n] \in Frames
    BY <1>1, ElementOfSeq
  <1>3. /\ f \in Frames /\ f.block = c[n].block /\ f.part = c[n].part
        /\ f.at = c[n].at + 1
    BY <1>2 DEF Frames
  <1>4. d = [c EXCEPT ![n] = f]
    OBVIOUS
  <1> HIDE DEF f, n
  <1>5. /\ d \in Seq(Frames) /\ Len(d) = n
        /\ \A j \in 1..n : d[j] = IF j = n THEN f ELSE c[j]
    BY <1>1, <1>3, <1>4, ExceptSeq DEF n
  <1> QED BY <1>1, <1>3, <1>5 DEF n

LEMMA Pushed1 ==
  ASSUME NEW c \in Seq(Frames), NEW f \in Frames, NEW d, d = Append(c, f)
  PROVE  /\ d \in Seq(Frames) /\ Len(d) = Len(c) + 1 /\ Len(c) \in Nat
         /\ \A i \in 1..Len(c) : d[i] = c[i]
         /\ d[Len(c) + 1] = f
  BY AppendProperties, LenProperties

LEMMA Popped1 ==
  ASSUME NEW c \in Seq(Frames), c # << >>, NEW d, d = SubSeq(c, 1, Len(c) - 1)
  PROVE  /\ d \in Seq(Frames) /\ Len(d) = Len(c) - 1 /\ Len(c) \in Nat \ {0}
         /\ \A i \in 1..(Len(c) - 1) : d[i] = c[i]
  <1>1. Len(c) \in Nat \ {0}
    BY EmptySeq
  <1>2. 1 \in Int /\ Len(c) - 1 \in Int /\ \A i \in 1..(Len(c) - 1) : c[i] \in Frames
    BY <1>1, ElementOfSeq
  <1> DEFINE n == Len(c) - 1
  <1> HIDE DEF n
  <1>3. d = SubSeq(c, 1, n) /\ n \in Nat /\ \A i \in 1..n : c[i] \in Frames
    BY <1>1, <1>2 DEF n
  <1>4. SubSeq(c, 1, n) \in Seq(Frames)
    BY <1>3, SubSeqProperties
  <1>5. Len(SubSeq(c, 1, n)) = n
    BY <1>3, SubSeqProperties
  <1>6. \A i \in 1..n : SubSeq(c, 1, n)[i] = c[i]
    BY <1>3, SubSeqProperties
  <1> QED BY <1>1, <1>3, <1>4, <1>5, <1>6 DEF n
-----------------------------------------------------------------------------
(* The register stacks of the decoder. *)
LEMMA PushedFacts ==
  ASSUME NEW s, IsSequence(s), NEW n \in Nat, NEW top
  PROVE  /\ IsSequence(Pushed(s, n, top))
         /\ Len(Pushed(s, n, top)) = IF n + 1 > Len(s) THEN Len(s) + 1 ELSE Len(s)
         /\ \A i \in 1..Len(Pushed(s, n, top)) :
              Pushed(s, n, top)[i] = IF i = 1 THEN top ELSE s[i - 1]
         /\ Len(s) \in Nat
  <1> DEFINE m == IF n + 1 > Len(s) THEN Len(s) + 1 ELSE Len(s)
  <1> DEFINE p == Pushed(s, n, top)
  <1> DEFINE T == {p[i] : i \in 1..m}
  <1>1. Len(s) \in Nat /\ m \in Nat
    BY SequenceWithin
  <1>2. p = [i \in 1..m |-> IF i = 1 THEN top ELSE s[i - 1]]
    BY DEF Pushed
  <1> HIDE DEF p, m
  <1>3. p \in [1..m -> T]
    BY <1>2
  <1>4. p \in Seq(T) /\ Len(p) = m
    <2> HIDE DEF T
    <2> QED BY <1>1, <1>3, FunctionIsSequence
  <1>5. IsSequence(p)
    <2> HIDE DEF T
    <2> QED BY <1>4, IsSequenceOf
  <1> QED BY <1>1, <1>2, <1>4, <1>5 DEF p, m

LEMMA PoppedFacts ==
  ASSUME NEW s, IsSequence(s)
  PROVE  /\ IsSequence(Popped(s)) /\ Len(Popped(s)) = Len(s) /\ Len(s) \in Nat
         /\ \A i \in 1..Len(s) :
              Popped(s)[i] = IF i < Len(s) THEN s[i + 1] ELSE ZeroDigest
  <1> DEFINE p == Popped(s)
  <1> DEFINE m == Len(s)
  <1> DEFINE T == {p[i] : i \in 1..m}
  <1>1. m \in Nat
    BY SequenceWithin
  <1>2. p = [i \in 1..m |-> IF i < m THEN s[i + 1] ELSE ZeroDigest]
    BY DEF Popped
  <1> HIDE DEF p, m
  <1>3. p \in [1..m -> T]
    BY <1>2
  <1>4. p \in Seq(T) /\ Len(p) = m
    <2> HIDE DEF T
    <2> QED BY <1>1, <1>3, FunctionIsSequence
  <1>5. IsSequence(p)
    <2> HIDE DEF T
    <2> QED BY <1>4, IsSequenceOf
  <1> QED BY <1>1, <1>2, <1>4, <1>5 DEF p, m
-----------------------------------------------------------------------------
(* Each operation of the decoder keeps the types of its registers, takes   *)
(* one row and does not mark it VOID.                                      *)
DecoderStepped == DecoderTypeOK' /\ step' = step + 1 /\ opBits'.flow # "void"

LEMMA AdvanceStepTypes ==
  ASSUME DecoderTypeOK, NEW isUserOp, AdvanceStep(isUserOp)
  PROVE  /\ step' = step + 1 /\ step' \in Nat /\ opCounter' \in Nat
         /\ traceLength' \in Nat \ {0}
  BY DEF DecoderTypeOK, AdvanceStep

LEMMA DecodeOpTypes ==
  ASSUME DecoderTypeOK, NEW op, NEW value, DecodeOp(op, value)
  PROVE  DecoderStepped
  <1>1. IsSponge(sponge')
    BY RoundApplied DEF DecodeOp, DecoderTypeOK
  <1>2. opBits' = [flow |-> "hacc", user |-> op]
    BY DEF DecodeOp, SetOpBits
  <1>3. UNCHANGED <<ctxStack, ctxDepth, loopStack, loopDepth>>
    BY DEF DecodeOp, CopyContextStack, CopyLoopStack
  <1>4. AdvanceStep(TRUE)
    BY DEF DecodeOp
  <1> QED BY <1>1, <1>2, <1>3, <1>4, AdvanceStepTypes DEF DecoderStepped, DecoderTypeOK

LEMMA StartBlockTypes ==
  ASSUME DecoderTypeOK, StartBlock
  PROVE  DecoderStepped
  <1>1. sponge' = ZeroSponge /\ IsSponge(sponge')
    BY LoadIsSponge DEF StartBlock, ZeroSponge
  <1>2. opBits' = [flow |-> "begin", user |-> "noop"]
    BY DEF StartBlock, SetOpBits
  <1>3. IsSequence(ctxStack') /\ ctxDepth' \in Nat
    BY PushedFacts DEF StartBlock, SaveContext, DecoderTypeOK
  <1>4. UNCHANGED <<loopStack, loopDepth>> /\ AdvanceStep(FALSE)
    BY DEF StartBlock, CopyLoopStack
  <1> QED BY <1>1, <1>2, <1>3, <1>4, AdvanceStepTypes DEF DecoderStepped, DecoderTypeOK

LEMMA StartLoopTypes ==
  ASSUME DecoderTypeOK, NEW image, StartLoop(image)
  PROVE  DecoderStepped
  <1>1. sponge' = ZeroSponge /\ IsSponge(sponge')
    BY LoadIsSponge DEF StartLoop, ZeroSponge
  <1>2. opBits' = [flow |-> "loop", user |-> "noop"]
    BY DEF StartLoop, SetOpBits
  <1>3. IsSequence(ctxStack') /\ ctxDepth' \in Nat
    BY PushedFacts DEF StartLoop, SaveContext, DecoderTypeOK
  <1>4. IsSequence(loopStack') /\ loopDepth' \in Nat
    BY PushedFacts DEF StartLoop, SaveLoopImage, DecoderTypeOK
  <1>5. AdvanceStep(FALSE)
    BY DEF StartLoop
  <1> QED
    BY <1>1, <1>2, <1>3, <1>4, <1>5, AdvanceStepTypes DEF DecoderStepped, DecoderTypeOK

LEMMA WrapLoopTypes ==
  ASSUME DecoderTypeOK, WrapLoop
  PROVE  DecoderStepped
  <1>1. sponge' = ZeroSponge /\ IsSponge(sponge')
    BY LoadIsSponge DEF WrapLoop, ZeroSponge
  <1>2. opBits' = [flow |-> "wrap", user |-> "noop"]
    BY DEF WrapLoop, SetOpBits
  <1>3. UNCHANGED <<ctxStack, ctxDepth, loopStack, loopDepth>> /\ AdvanceStep(FALSE)
    BY DEF WrapLoop, CopyContextStack, CopyLoopStack
  <1> QED BY <1>1, <1>2, <1>3, AdvanceStepTypes DEF DecoderStepped, DecoderTypeOK

LEMMA BreakLoopTypes ==
  ASSUME DecoderTypeOK, BreakLoop, IterationFault = "none"
  PROVE  DecoderStepped
  <1>1. loopDepth # 0
    BY DEF IterationFault
  <1>2. opBits' = [flow |-> "break", user |-> "noop"]
    BY DEF BreakLoop, SetOpBits
  <1>3. IsSequence(loopStack') /\ loopDepth' \in Nat
    BY <1>1, PoppedFacts DEF BreakLoop, PopLoopImage, DecoderTypeOK
  <1>4. UNCHANGED <<sponge, ctxStack, ctxDepth>> /\ AdvanceStep(FALSE)
    BY DEF BreakLoop, CopyContextStack
  <1> QED BY <1>2, <1>3, <1>4, AdvanceStepTypes DEF DecoderStepped, DecoderTypeOK

LEMMA EndBlockTypes ==
  ASSUME DecoderTypeOK, NEW sibling, NEW trueBranch \in BOOLEAN,
         EndBlock(sibling, trueBranch), EndBlockFault = "none"
  PROVE  DecoderStepped
  <1>1. ctxDepth # 0
    BY DEF EndBlockFault
  <1>2. IsSponge(sponge')
    BY LoadIsSponge DEF EndBlock
  <1>3. opBits' = [flow |-> IF trueBranch THEN "tend" ELSE "fend", user |-> "noop"]
    BY DEF EndBlock, SetOpBits
  <1>4. IsSequence(ctxStack') /\ ctxDepth' \in Nat
    BY <1>1, PoppedFacts DEF EndBlock, PopContext, DecoderTypeOK
  <1>5. UNCHANGED <<loopStack, loopDepth>> /\ AdvanceStep(FALSE)
    BY DEF EndBlock, CopyLoopStack
  <1> QED
    BY <1>2, <1>3, <1>4, <1>5, AdvanceStepTypes DEF DecoderStepped, DecoderTypeOK
-----------------------------------------------------------------------------
(* Decoder and stack take the next row together. *)
LEMMA RowTaken ==
  ASSUME DecoderTypeOK, StackTypeOK, TracesInLockstep,
         NEW isUserOp, AdvanceStep(isUserOp), NEW op, NEW hint, Execute(op, hint)
  PROVE  TracesInLockstep'
  <1>1. step \in Nat /\ traceLength \in Nat \ {0} /\ step < traceLength
    BY DEF DecoderTypeOK, TracesInLockstep
  <1>2. stackStep' = step' /\ stackLength' = traceLength'
    BY DEF TracesInLockstep, AdvanceStep, Execute
  <1>3. step' < traceLength' /\ (traceLength' = MinTraceLength \/ traceLength' <= 2 * step')
    <2>1. CASE step + 1 >= traceLength
      <3>1. step' = step + 1 /\ traceLength' = 2 * traceLength /\ step + 1 = traceLength
        BY <1>1, <2>1 DEF AdvanceStep
      <3> QED BY <1>1, <3>1
    <2>2. CASE ~ (step + 1 >= traceLength)
      <3>1. step' = step + 1 /\ traceLength' = traceLength
        BY <2>2 DEF AdvanceStep
      <3> QED BY <1>1, <2>2, <3>1 DEF TracesInLockstep
    <2> QED BY <2>1, <2>2
  <1> QED BY <1>2, <1>3 DEF TracesInLockstep

LEMMA NoopAccepted == StackTypeOK => StackFault("noop", NoHint) = "none" /\ WellFormed(NoHint)
  BY MaxIsNat
  DEF StackTypeOK, StackFault, Needed, ValidHint, TapeFault, ReadsA, ReadsB, Added,
      ValueFault, WellFormed, NoHint

LEMMA NoopOK ==
  ASSUME StackOK, FlowNoop
  PROVE  StackOK'
  BY NoopAccepted, ExecuteOK DEF FlowNoop, StackOK

LEMMA FaultsAreNamed == PendingFault \in Faults
  <1>1. \A op, hint : StackFault(op, hint) \in Faults
    BY DEF StackFault, Faults
  <1>2. \A op, value : DecodeOpFault(op, value) \in Faults
    BY DEF DecodeOpFault, Faults
  <1>3. /\ StartBlockFault \in Faults /\ StartLoopFault \in Faults
        /\ EndBlockFault \in Faults /\ IterationFault \in Faults
    BY DEF StartBlockFault, StartLoopFault, EndBlockFault, IterationFault, Faults
  <1>4. "none" \in Faults /\ "condition" \in Faults
    BY DEF Faults
  <1> QED BY <1>1, <1>2, <1>3, <1>4 DEF PendingFault
-----------------------------------------------------------------------------
(* The position in the tree of blocks.                                     *)
LEMMA TopFacts ==
  ASSUME calls \in Seq(Frames), calls # << >>, CallsFollowTree
  PROVE  /\ Len(calls) \in Nat \ {0} /\ Top \in Frames /\ Matches(Top)
         /\ Body(Top) \in BlockLists /\ Len(Body(Top)) \in Nat \ {0}
         /\ Top.at \in Nat \ {0} /\ Top.part \in Parts /\ Top.block \in BlockSet
  <1>1. Len(calls) \in Nat \ {0} /\ Len(calls) \in 1..Len(calls)
    BY EmptySeq
  <1>2. Top \in Frames
    BY <1>1, ElementOfSeq DEF Top
  <1>3. Matches(Top)
    BY <1>1 DEF CallsFollowTree, Top
  <1>4. Body(Top) \in BlockLists
    BY <1>2, <1>3, BodyIsList
  <1>5. Len(Body(Top)) \in Nat \ {0}
    BY <1>4, ListFacts
  <1>6. Top.at \in Nat \ {0} /\ Top.part \in Parts /\ Top.block \in BlockSet
    BY <1>2 DEF Frames
  <1> QED BY <1>1, <1>2, <1>3, <1>4, <1>5, <1>6

Control == root \in RootLists /\ calls \in Seq(Frames) /\ CallsFollowTree

(* a block of the current list is finished *)
LEMMA AdvanceControl ==
  ASSUME Control, calls # << >>, UNCHANGED root,
         calls' = [calls EXCEPT ![Len(calls)].at = @ + 1],
         Top.at \in 1..Len(Body(Top)), pc' = Continue(Top, Top.at)
  PROVE  /\ Control' /\ AtPlace' /\ pc' \in {"block", "test", "tail"}
         /\ calls' # << >> /\ Len(calls') = Len(calls)
         /\ Top'.block = Top.block /\ Top'.part = Top.part /\ Top'.at = Top.at + 1
         /\ \A i \in 1..(Len(calls) - 1) : calls'[i] = calls[i]
  <1> DEFINE n == Len(calls)
  <1>1. /\ n \in Nat \ {0} /\ Body(Top) \in BlockLists /\ Matches(Top)
        /\ Len(Body(Top)) \in Nat \ {0} /\ Top.at \in Nat \ {0}
    BY TopFacts DEF Control
  <1>2. /\ calls' \in Seq(Frames) /\ Len(calls') = n
        /\ \A i \in 1..(n - 1) : calls'[i] = calls[i]
        /\ calls'[n].block = calls[n].block /\ calls'[n].part = calls[n].part
        /\ calls'[n].at = calls[n].at + 1
    BY Advanced DEF Control
  <1>3. /\ Top' = calls'[n] /\ Top = calls[n]
        /\ Top'.block = Top.block /\ Top'.part = Top.part /\ Top'.at = Top.at + 1
    BY <1>2 DEF Top
  <1>4. Body(Top') = Body(Top) /\ Matches(Top')
    BY <1>1, <1>3, SameFrame
  <1>5. calls' # << >>
    BY <1>1, <1>2, EmptySeq
  <1>6. CallsFollowTree'
    <2>1. \A i \in 1..n : Matches(calls'[i])
      BY <1>1, <1>2, <1>3, <1>4 DEF Control, CallsFollowTree
    <2>2. calls'[1].block = Group(root)
      BY <1>1, <1>2 DEF Control, CallsFollowTree
    <2>3. ASSUME NEW i \in 1..(n - 1)
          PROVE  /\ calls'[i].at \in 2..Len(Body(calls'[i]))
                 /\ calls'[i + 1].block = Body(calls'[i])[calls'[i].at]
      <3>1. calls'[i] = calls[i] /\ calls'[i + 1].block = calls[i + 1].block
        BY <1>1, <1>2
      <3>2. /\ calls[i].at \in 2..Len(Body(calls[i]))
            /\ calls[i + 1].block = Body(calls[i])[calls[i].at]
        BY DEF Control, CallsFollowTree
      <3> QED BY <3>1, <3>2
    <2> QED BY <2>1, <2>2, <2>3, <1>2 DEF CallsFollowTree
  <1>7. pc' \in {"block", "test", "tail"}
    BY DEF Continue
  <1>8. AtPlace'
    <2>1. CASE Top.at < Len(Body(Top))
      <3>1. pc' = "block" /\ Top'.at \in 2..Len(Body(Top'))
        BY <2>1, <1>1, <1>3, <1>4 DEF Continue
      <3> QED BY <3>1, <1>5 DEF AtPlace
    <2>2. CASE ~ (Top.at < Len(Body(Top)))
      <3>1. pc' = (IF Top'.part = "loop" THEN "test" ELSE "tail")
            /\ Top'.at = Len(Body(Top')) + 1
        BY <2>2, <1>1, <1>3, <1>4 DEF Continue
      <3> QED BY <3>1, <1>5 DEF AtPlace
    <2> QED BY <2>1, <2>2
  <1> QED BY <1>2, <1>3, <1>5, <1>6, <1>7, <1>8 DEF Control

(* the first block of a list *)
LEMMA FirstIsSpan ==
  ASSUME NEW s \in BlockLists
  PROVE  s[1].kind = "span" /\ 0 < Len(s[1].code) /\ 1 \in 1..Len(s)
  <1>1. Len(s) \in Nat \ {0} /\ s[1].kind = "span"
    BY ListFacts
  <1>2. 1 \in 1..Len(s)
    BY <1>1
  <1>3. Len(s[1].code) \in Nat \ {0}
    BY <1>1, <1>2, SpanFacts
  <1> QED BY <1>1, <1>2, <1>3

(* a block of the current list is entered *)
LEMMA EnterControl ==
  ASSUME Control, calls # << >>, UNCHANGED root, NEW part \in Parts, Enter(part),
         Top.at \in 2..Len(Body(Top)), Matches(Frame(Block, part))
  PROVE  /\ Control' /\ AtPlace' /\ pc' = "span" /\ k' = 0
         /\ calls' # << >> /\ Len(calls') = Len(calls) + 1
         /\ Top' = Frame(Block, part)
         /\ \A i \in 1..Len(calls) : calls'[i] = calls[i]
  <1> DEFINE n == Len(calls)
  <1> DEFINE f == Frame(Block, part)
  <1>1. /\ n \in Nat \ {0} /\ Body(Top) \in BlockLists
        /\ Len(Body(Top)) \in Nat \ {0} /\ Top.at \in Nat \ {0}
    BY TopFacts DEF Control
  <1>2. Block \in BlockSet
    <2>1. Top.at \in 1..Len(Body(Top))
      BY <1>1
    <2> QED BY <2>1, <1>1, BlockOfList DEF Block
  <1>3. /\ f \in Frames /\ f.block = Block /\ f.part = part /\ f.at = 1
    BY <1>2 DEF Frame, Frames
  <1>4. /\ calls' = Append(calls, f) /\ pc' = "span" /\ k' = 0
    BY DEF Enter
  <1>5. Matches(f)
    OBVIOUS
  <1>a. Block = Body(Top)[Top.at] /\ Top = calls[n]
    BY DEF Block, Top
  <1> HIDE DEF f
  <1>6. /\ calls' \in Seq(Frames) /\ Len(calls') = n + 1
        /\ \A i \in 1..n : calls'[i] = calls[i]
        /\ calls'[n + 1] = f
    BY <1>3, <1>4, Pushed1 DEF Control
  <1>7. Top' = f /\ calls' # << >>
    BY <1>1, <1>6, EmptySeq DEF Top
  <1>8. CallsFollowTree'
    <2>1. \A i \in 1..(n + 1) : Matches(calls'[i])
      BY <1>1, <1>5, <1>6 DEF Control, CallsFollowTree
    <2>2. calls'[1].block = Group(root)
      BY <1>1, <1>6 DEF Control, CallsFollowTree
    <2>3. ASSUME NEW i \in 1..n
          PROVE  /\ calls'[i].at \in 2..Len(Body(calls'[i]))
                 /\ calls'[i + 1].block = Body(calls'[i])[calls'[i].at]
      <3>1. CASE i = n
        BY <3>1, <1>3, <1>6, <1>a
      <3>2. CASE i # n
        <4>1. calls'[i] = calls[i] /\ calls'[i + 1] = calls[i + 1] /\ i \in 1..(n - 1)
          BY <3>2, <1>1, <1>6
        <4> QED BY <4>1 DEF Control, CallsFollowTree
      <3> QED BY <3>1, <3>2
    <2> QED BY <2>1, <2>2, <2>3, <1>1, <1>6 DEF CallsFollowTree
  <1>9. AtPlace'
    <2>1. Body(f) \in BlockLists
      BY <1>3, <1>5, BodyIsList
    <2>2. Top'.at = 1 /\ 1 \in 1..Len(Body(Top')) /\ Block'.kind = "span" /\ 0 < Len(Block'.code)
      BY <2>1, <1>3, <1>7, FirstIsSpan DEF Block
    <2> QED BY <2>2, <1>4, <1>7 DEF AtPlace
  <1> QED BY <1>4, <1>6, <1>7, <1>8, <1>9 DEF Control, f

(* the current frame is replaced by another part of the same loop *)
LEMMA ReenterControl ==
  ASSUME Control, calls # << >>, UNCHANGED root, NEW part \in {"loop", "exit"},
         calls' = Append(Outer, Frame(Top.block, part)), pc' = "span", k' = 0,
         Top.part = "loop"
  PROVE  /\ Control' /\ AtPlace'
         /\ calls' # << >> /\ Len(calls') = Len(calls)
         /\ Top' = Frame(Top.block, part)
         /\ \A i \in 1..(Len(calls) - 1) : calls'[i] = calls[i]
  <1> DEFINE n == Len(calls)
  <1> DEFINE f == Frame(Top.block, part)
  <1> DEFINE o == Outer
  <1>1. /\ n \in Nat \ {0} /\ Top \in Frames /\ Matches(Top) /\ Top.block \in BlockSet
    BY TopFacts DEF Control
  <1>2. /\ f \in Frames /\ f.block = Top.block /\ f.part = part /\ f.at = 1
    BY <1>1 DEF Frame, Frames, Parts
  <1>3. Matches(f)
    BY <1>1, <1>2 DEF Matches
  <1>4. /\ o \in Seq(Frames) /\ Len(o) = n - 1
        /\ \A i \in 1..(n - 1) : o[i] = calls[i]
    BY Popped1 DEF Control, Outer
  <1>a. Top = calls[n]
    BY DEF Top
  <1>b. calls' = Append(o, f)
    OBVIOUS
  <1> HIDE DEF f, o
  <1>6. /\ calls' \in Seq(Frames) /\ Len(calls') = (n - 1) + 1
        /\ \A i \in 1..(n - 1) : calls'[i] = calls[i]
        /\ calls'[(n - 1) + 1] = f
    BY <1>2, <1>4, <1>b, Pushed1
  <1>c. Len(calls') = n /\ calls'[n] = f
    BY <1>1, <1>6
  <1>7. Top' = f /\ calls' # << >>
    BY <1>1, <1>6, <1>c, EmptySeq DEF Top
  <1>8. CallsFollowTree'
    <2>1. \A i \in 1..n : Matches(calls'[i])
      BY <1>1, <1>3, <1>6, <1>c DEF Control, CallsFollowTree
    <2>2. calls'[1].block = Group(root)
      BY <1>1, <1>2, <1>6, <1>a, <1>c DEF Control, CallsFollowTree
    <2>3. ASSUME NEW i \in 1..(n - 1)
          PROVE  /\ calls'[i].at \in 2..Len(Body(calls'[i]))
                 /\ calls'[i + 1].block = Body(calls'[i])[calls'[i].at]
      <3>1. calls'[i] = calls[i] /\ calls'[i + 1].block = calls[i + 1].block
        BY <1>1, <1>2, <1>6, <1>a, <1>c
      <3>2. /\ calls[i].at \in 2..Len(Body(calls[i]))
            /\ calls[i + 1].block = Body(calls[i])[calls[i].at]
        BY DEF Control, CallsFollowTree
      <3> QED BY <3>1, <3>2
    <2> QED BY <2>1, <2>2, <2>3, <1>c DEF CallsFollowTree
  <1>9. AtPlace'
    <2>1. Body(f) \in BlockLists
      BY <1>2, <1>3, BodyIsList
    <2>2. Top'.at = 1 /\ 1 \in 1..Len(Body(Top')) /\ Block'.kind = "span" /\ 0 < Len(Block'.code)
      BY <2>1, <1>2, <1>7, FirstIsSpan DEF Block
    <2> QED BY <2>2, <1>7 DEF AtPlace
  <1> QED BY <1>6, <1>7, <1>8, <1>9, <1>c DEF Control, f

(* a block is left: what is current then is that block, in its own list *)
LEMMA CloseControl ==
  ASSUME Control, calls # << >>, UNCHANGED root, calls' = Outer, pc' = "hacc", k' = 0
  PROVE  /\ Control' /\ AtPlace' /\ Len(calls') = Len(calls) - 1
         /\ \A i \in 1..(Len(calls) - 1) : calls'[i] = calls[i]
         /\ calls' # << >> => Top' = calls[Len(calls) - 1] /\ Block' = Top.block
         /\ calls' = << >> => Len(calls) = 1 /\ Top.block = Group(root)
  <1> DEFINE n == Len(calls)
  <1>1. /\ n \in Nat \ {0} /\ Top \in Frames /\ Matches(Top) /\ Top.part \in Parts
    BY TopFacts DEF Control
  <1>2. /\ calls' \in Seq(Frames) /\ Len(calls') = n - 1
        /\ \A i \in 1..(n - 1) : calls'[i] = calls[i]
    BY Popped1 DEF Control, Outer
  <1>3. CallsFollowTree'
    <2>1. \A i \in 1..(n - 1) : Matches(calls'[i])
      BY <1>1, <1>2 DEF Control, CallsFollowTree
    <2>2. calls' # << >> => calls'[1].block = Group(root)
      <3>1. calls' # << >> => 1 \in 1..(n - 1)
        BY <1>1, <1>2, EmptySeq
      <3> QED BY <3>1, <1>2 DEF Control, CallsFollowTree
    <2>3. ASSUME NEW i \in 1..((n - 1) - 1)
          PROVE  /\ calls'[i].at \in 2..Len(Body(calls'[i]))
                 /\ calls'[i + 1].block = Body(calls'[i])[calls'[i].at]
      <3>1. calls'[i] = calls[i] /\ calls'[i + 1] = calls[i + 1] /\ i \in 1..(n - 1)
        BY <1>1, <1>2
      <3> QED BY <3>1 DEF Control, CallsFollowTree
    <2> QED BY <2>1, <2>2, <2>3, <1>2 DEF CallsFollowTree
  <1>4. ASSUME calls' # << >>
        PROVE  /\ Top' = calls[n - 1] /\ Block' = Top.block
               /\ Top'.at \in 2..Len(Body(Top'))
    <2>1. n - 1 \in 1..(n - 1) /\ (n - 1) + 1 = n
      BY <1>1, <1>2, <1>4, EmptySeq
    <2>2. Top' = calls[n - 1]
      BY <2>1, <1>2 DEF Top
    <2>3. /\ calls[n - 1].at \in 2..Len(Body(calls[n - 1]))
          /\ calls[n].block = Body(calls[n - 1])[calls[n - 1].at]
      BY <2>1 DEF Control, CallsFollowTree
    <2> QED BY <2>2, <2>3 DEF Block, Top
  <1>5. Top.block.kind # "span"
    BY <1>1 DEF Matches
  <1>6. calls' = << >> => n = 1 /\ Top.block = Group(root)
    <2>1. calls' = << >> => n = 1
      BY <1>1, <1>2, EmptySeq
    <2> QED BY <2>1 DEF Top, Control, CallsFollowTree
  <1>7. 0 < HaccRounds
    BY CycleAssumption, CycleFacts
  <1>8. AtPlace'
    BY <1>4, <1>5, <1>7 DEF AtPlace
  <1> QED BY <1>2, <1>3, <1>4, <1>6, <1>8 DEF Control
-----------------------------------------------------------------------------
(* The first layer of the inductive invariant.  An ended run keeps the     *)
(* state it ended in, so the steps start with fault = "none".              *)
ControlLayer ==
  TypeOK /\ StackOK /\ ControlInvariant /\ TracesInLockstep /\ VoidOnlyAtEnd

LEMMA LayerParts ==
  ASSUME ControlLayer
  PROVE  /\ Control /\ AtPlace /\ Alignment /\ StackOK /\ StackTypeOK /\ DecoderTypeOK
         /\ step \in Nat /\ k \in Nat /\ pc \in Places /\ fault \in Faults
         /\ TracesInLockstep
  BY DEF ControlLayer, TypeOK, ControlInvariant, Control, StackOK, DecoderTypeOK

(* the place in the cycle of the next row *)
LEMMA NextPlace ==
  ASSUME ControlLayer, pc # "done", step' = step + 1
  PROVE  /\ PlaceInCycle \in 0..(CycleLength - 1)
         /\ step' % CycleLength =
              IF PlaceInCycle = CycleLength - 1 THEN 0 ELSE PlaceInCycle + 1
  <1>1. step \in Nat /\ step % CycleLength = PlaceInCycle
    BY LayerParts DEF Alignment
  <1> QED BY <1>1, CycleFacts

(* What is left to show of a step that takes a row. *)
LEMMA RowStep ==
  ASSUME DecoderStepped, StackOK', TracesInLockstep', Control', AtPlace',
         pc' \in Places \ {"done"}, k' \in Nat, fault' \in Faults,
         step' % CycleLength = PlaceInCycle'
  PROVE  ControlLayer'
  <1>1. TypeOK'
    BY DEF TypeOK, Control, StackOK, DecoderStepped
  <1>2. VoidOnlyAtEnd'
    BY DEF VoidOnlyAtEnd, DecoderStepped
  <1>3. ControlInvariant'
    BY DEF ControlInvariant, Control, Alignment
  <1> QED BY <1>1, <1>2, <1>3 DEF ControlLayer

LEMMA EnterStep ==
  ASSUME ControlLayer, pc = "block", UNCHANGED <<root, fault>>,
         DecoderStepped, StackOK', TracesInLockstep',
         NEW part \in Parts, Enter(part), Matches(Frame(Block, part))
  PROVE  ControlLayer'
  <1>1. Control /\ calls # << >> /\ Top.at \in 2..Len(Body(Top)) /\ fault \in Faults
    BY LayerParts DEF AtPlace
  <1>2. Control' /\ AtPlace' /\ pc' = "span" /\ k' = 0
    BY <1>1, EnterControl
  <1>3. step' % CycleLength = PlaceInCycle'
    BY <1>2, NextPlace, CycleFacts DEF PlaceInCycle, DecoderStepped
  <1> QED BY <1>1, <1>2, <1>3, RowStep DEF Places

LEMMA ReenterStep ==
  ASSUME ControlLayer, pc = "test", UNCHANGED <<root, fault>>,
         DecoderStepped, StackOK', TracesInLockstep', NEW part \in {"loop", "exit"},
         calls' = Append(Outer, Frame(Top.block, part)), pc' = "span", k' = 0
  PROVE  ControlLayer'
  <1>1. Control /\ calls # << >> /\ Top.part = "loop" /\ fault \in Faults
    BY LayerParts DEF AtPlace
  <1>2. Control' /\ AtPlace'
    BY <1>1, ReenterControl
  <1>3. step' % CycleLength = PlaceInCycle'
    BY NextPlace, CycleFacts DEF PlaceInCycle, DecoderStepped
  <1> QED BY <1>1, <1>2, <1>3, RowStep DEF Places

(* the instruction a span is at *)
LEMMA CurrentInstr ==
  ASSUME ControlLayer, pc = "span"
  PROVE  /\ Control /\ calls # << >> /\ Top.at \in 1..Len(Body(Top))
         /\ Body(Top) \in BlockLists /\ Block = Body(Top)[Top.at] /\ Block.kind = "span"
         /\ Len(Block.code) \in Nat \ {0} /\ k + 1 \in 1..Len(Block.code)
         /\ Len(Block.code) % CycleLength = CycleLength - 1
         /\ WellFormed(Block.code[k + 1].hint)
         /\ Block.code[k + 1].hint.kind = "value" => Block.code[k + 1].op = "push"
         /\ Block.code[k + 1].op = "push" => k % PushAlignment = 0
  <1>1. /\ Control /\ calls # << >> /\ Top.at \in 1..Len(Body(Top)) /\ k \in Nat
        /\ Block.kind = "span" /\ k < Len(Block.code)
    BY LayerParts DEF AtPlace
  <1>2. Body(Top) \in BlockLists /\ Block = Body(Top)[Top.at]
    BY <1>1, TopFacts DEF Control, Block
  <1>3. /\ Len(Block.code) \in Nat \ {0}
        /\ Len(Block.code) % CycleLength = CycleLength - 1
        /\ \A j \in 1..Len(Block.code) :
              Block.code[j].op = "push" => (j - 1) % PushAlignment = 0
    BY <1>1, <1>2, SpanFacts
  <1>4. k + 1 \in 1..Len(Block.code) /\ (k + 1) - 1 = k
    BY <1>1, <1>3
  <1>5. /\ WellFormed(Block.code[k + 1].hint)
        /\ Block.code[k + 1].hint.kind = "value" => Block.code[k + 1].op = "push"
    BY <1>1, <1>2, <1>4, HintsAssumption DEF HintsGiven
  <1> QED BY <1>1, <1>2, <1>3, <1>4, <1>5

LEMMA SpanOpControl == ASSUME ControlLayer, SpanOp PROVE ControlLayer'
  <1> DEFINE instr == Block.code[k + 1]
  <1>1. /\ Control /\ calls # << >> /\ Top.at \in 1..Len(Body(Top))
        /\ Len(Block.code) \in Nat \ {0} /\ k + 1 \in 1..Len(Block.code)
        /\ Len(Block.code) % CycleLength = CycleLength - 1 /\ WellFormed(instr.hint)
    BY CurrentInstr DEF SpanOp
  <1>2. DecodeOp(instr.op, HintValue(instr.hint)) /\ Execute(instr.op, instr.hint)
    BY DEF SpanOp
  <1>3. StackFault(instr.op, instr.hint) = "none"
    BY DEF SpanOp, PendingFault
  <1> HIDE DEF instr
  <1>4. DecoderStepped
    BY <1>2, DecodeOpTypes, LayerParts
  <1>5. StackOK'
    BY <1>1, <1>2, <1>3, ExecuteOK, LayerParts
  <1>6. TracesInLockstep'
    BY <1>2, RowTaken, LayerParts DEF DecodeOp
  <1>7. pc = "span" /\ UNCHANGED <<root, fault>>
    BY DEF SpanOp
  <1>8. step' % CycleLength = (k + 1) % CycleLength
    BY <1>4, <1>7, NextPlace, LayerParts, CycleFacts DEF PlaceInCycle, DecoderStepped
  <1>9. CASE k + 1 < Len(Block.code)
    <2>1. k' = k + 1 /\ UNCHANGED <<calls, pc>>
      BY <1>9 DEF SpanOp
    <2>2. Top' = Top /\ Block' = Block
      BY <2>1 DEF Top, Block
    <2>3. Control'
      BY <1>1, <1>7, <2>1 DEF Control, CallsFollowTree
    <2>4. AtPlace'
      BY <1>1, <1>7, <1>9, <2>1, <2>2, LayerParts DEF AtPlace
    <2>5. step' % CycleLength = PlaceInCycle'
      BY <1>7, <1>8, <2>1 DEF PlaceInCycle
    <2> QED BY <1>4, <1>5, <1>6, <1>7, <2>1, <2>3, <2>4, <2>5, RowStep, LayerParts DEF Places
  <1>10. CASE ~ (k + 1 < Len(Block.code))
    <2>1. /\ k' = 0 /\ calls' = [calls EXCEPT ![Len(calls)].at = @ + 1]
          /\ pc' = Continue(Top, Top.at)
      BY <1>10 DEF SpanOp
    <2>2. Control' /\ AtPlace' /\ pc' \in {"block", "test", "tail"}
      BY <1>1, <1>7, <2>1, AdvanceControl
    <2>3. k + 1 = Len(Block.code)
      BY <1>1, <1>10
    <2>4. step' % CycleLength = PlaceInCycle'
      BY <1>1, <1>8, <2>2, <2>3 DEF PlaceInCycle
    <2> QED BY <1>4, <1>5, <1>6, <1>7, <2>1, <2>2, <2>4, RowStep, LayerParts DEF Places
  <1> QED BY <1>9, <1>10

(* the decoder and the stack in a step that executes a NOOP *)
LEMMA UserNoopRow ==
  ASSUME ControlLayer, UserNoop
  PROVE  DecoderStepped /\ StackOK' /\ TracesInLockstep'
  <1>1. DecodeOp("noop", 0) /\ FlowNoop
    BY DEF UserNoop, FlowNoop
  <1>2. DecoderStepped
    BY <1>1, DecodeOpTypes, LayerParts
  <1>3. TracesInLockstep'
    BY <1>1, RowTaken, LayerParts DEF DecodeOp, FlowNoop
  <1> QED BY <1>1, <1>2, <1>3, NoopOK, LayerParts

LEMMA PadSpanControl == ASSUME ControlLayer, PadSpan PROVE ControlLayer'
  <1>1. /\ pc = "block" /\ Block.kind = "span" /\ pc' = "span" /\ k' = 0
        /\ UNCHANGED <<root, calls, fault>>
    BY DEF PadSpan
  <1>2. DecoderStepped /\ StackOK' /\ TracesInLockstep'
    BY UserNoopRow DEF PadSpan
  <1>3. Control' /\ Top' = Top /\ Block' = Block
    BY <1>1, LayerParts DEF Control, CallsFollowTree, Top, Block
  <1>4. /\ calls # << >> /\ Top.at \in 2..Len(Body(Top))
    BY <1>1, LayerParts DEF AtPlace
  <1>5. Body(Top) \in BlockLists /\ Len(Body(Top)) \in Nat /\ Block = Body(Top)[Top.at]
    BY <1>4, TopFacts, LayerParts DEF Control, Block
  <1>6. Top.at \in 1..Len(Body(Top))
    BY <1>4, <1>5
  <1>7. 0 < Len(Block.code)
    BY <1>1, <1>5, <1>6, SpanFacts
  <1>8. AtPlace'
    BY <1>1, <1>3, <1>4, <1>6, <1>7 DEF AtPlace
  <1>9. step' % CycleLength = PlaceInCycle'
    BY <1>1, <1>2, NextPlace, CycleFacts DEF PlaceInCycle, DecoderStepped
  <1> QED BY <1>1, <1>2, <1>3, <1>8, <1>9, RowStep, LayerParts DEF Places

LEMMA StartGroupControl == ASSUME ControlLayer, StartGroup PROVE ControlLayer'
  <1>1. /\ pc = "block" /\ Enter("group") /\ StartBlock /\ FlowNoop
        /\ Block.kind = "group" /\ UNCHANGED <<root, fault>>
    BY DEF StartGroup
  <1>2. DecoderStepped /\ StackOK'
    BY <1>1, StartBlockTypes, NoopOK, LayerParts
  <1>3. TracesInLockstep'
    BY <1>1, RowTaken, LayerParts DEF StartBlock, FlowNoop
  <1>4. Matches(Frame(Block, "group")) /\ "group" \in Parts
    BY <1>1 DEF Matches, Frame, Parts
  <1> QED BY <1>1, <1>2, <1>3, <1>4, EnterStep

LEMMA StartSwitchControl == ASSUME ControlLayer, StartSwitch PROVE ControlLayer'
  <1> DEFINE part == IF StackTop = 1 THEN "true" ELSE "false"
  <1>1. /\ pc = "block" /\ Enter(part) /\ StartBlock /\ FlowNoop
        /\ Block.kind = "switch" /\ UNCHANGED <<root, fault>>
    BY DEF StartSwitch
  <1>2. DecoderStepped /\ StackOK'
    BY <1>1, StartBlockTypes, NoopOK, LayerParts
  <1>3. TracesInLockstep'
    BY <1>1, RowTaken, LayerParts DEF StartBlock, FlowNoop
  <1>4. Matches(Frame(Block, part)) /\ part \in Parts
    BY <1>1 DEF Matches, Frame, Parts
  <1> HIDE DEF part
  <1> QED BY <1>1, <1>2, <1>3, <1>4, EnterStep

LEMMA SkipLoopControl == ASSUME ControlLayer, SkipLoop PROVE ControlLayer'
  <1>1. /\ pc = "block" /\ Enter("skip") /\ StartBlock /\ FlowNoop
        /\ Block.kind = "loop" /\ UNCHANGED <<root, fault>>
    BY DEF SkipLoop
  <1>2. DecoderStepped /\ StackOK'
    BY <1>1, StartBlockTypes, NoopOK, LayerParts
  <1>3. TracesInLockstep'
    BY <1>1, RowTaken, LayerParts DEF StartBlock, FlowNoop
  <1>4. Matches(Frame(Block, "skip")) /\ "skip" \in Parts
    BY <1>1 DEF Matches, Frame, Parts
  <1> QED BY <1>1, <1>2, <1>3, <1>4, EnterStep

LEMMA EnterLoopControl == ASSUME ControlLayer, EnterLoop PROVE ControlLayer'
  <1>1. /\ pc = "block" /\ Enter("loop") /\ StartLoop(Image(Block)) /\ FlowNoop
        /\ Block.kind = "loop" /\ UNCHANGED <<root, fault>>
    BY DEF EnterLoop
  <1>2. DecoderStepped /\ StackOK'
    BY <1>1, StartLoopTypes, NoopOK, LayerParts
  <1>3. TracesInLockstep'
    BY <1>1, RowTaken, LayerParts DEF StartLoop, FlowNoop
  <1>4. Matches(Frame(Block, "loop")) /\ "loop" \in Parts
    BY <1>1 DEF Matches, Frame, Parts
  <1> QED BY <1>1, <1>2, <1>3, <1>4, EnterStep

LEMMA RepeatLoopControl == ASSUME ControlLayer, RepeatLoop PROVE ControlLayer'
  <1>1. /\ pc = "test" /\ WrapLoop /\ FlowNoop /\ UNCHANGED <<root, fault>>
        /\ calls' = Append(Outer, Frame(Top.block, "loop")) /\ pc' = "span" /\ k' = 0
    BY DEF RepeatLoop
  <1>2. DecoderStepped /\ StackOK'
    BY <1>1, WrapLoopTypes, NoopOK, LayerParts
  <1>3. TracesInLockstep'
    BY <1>1, RowTaken, LayerParts DEF WrapLoop, FlowNoop
  <1> QED BY <1>1, <1>2, <1>3, ReenterStep

LEMMA ExitLoopControl == ASSUME ControlLayer, ExitLoop PROVE ControlLayer'
  <1>1. /\ pc = "test" /\ BreakLoop /\ FlowNoop /\ UNCHANGED <<root, fault>>
        /\ calls' = Append(Outer, Frame(Top.block, "exit")) /\ pc' = "span" /\ k' = 0
    BY DEF ExitLoop
  <1>2. IterationFault = "none"
    BY <1>1 DEF ExitLoop, PendingFault
  <1>3. DecoderStepped /\ StackOK'
    BY <1>1, <1>2, BreakLoopTypes, NoopOK, LayerParts
  <1>4. TracesInLockstep'
    BY <1>1, RowTaken, LayerParts DEF BreakLoop, FlowNoop
  <1> QED BY <1>1, <1>3, <1>4, ReenterStep

LEMMA CompleteCycleControl == ASSUME ControlLayer, CompleteCycle PROVE ControlLayer'
  <1>1. pc = "tail" /\ pc' = "end" /\ UNCHANGED <<root, calls, k, fault>>
    BY DEF CompleteCycle
  <1>2. DecoderStepped /\ StackOK' /\ TracesInLockstep'
    BY UserNoopRow DEF CompleteCycle
  <1>3. Control' /\ Top' = Top
    BY <1>1, LayerParts DEF Control, CallsFollowTree, Top
  <1>4. AtPlace'
    BY <1>1, <1>3, LayerParts DEF AtPlace
  <1>5. step' % CycleLength = PlaceInCycle'
    BY <1>1, <1>2, NextPlace, CycleFacts DEF PlaceInCycle, DecoderStepped
  <1> QED BY <1>1, <1>2, <1>3, <1>4, <1>5, RowStep, LayerParts DEF Places

LEMMA CloseBlockControl == ASSUME ControlLayer, CloseBlock PROVE ControlLayer'
  <1>1. /\ pc = "end" /\ FlowNoop /\ UNCHANGED <<root, fault>>
        /\ EndBlock(SiblingHash(Top), ClosesTrueBranch(Top))
        /\ calls' = Outer /\ pc' = "hacc" /\ k' = 0
    BY DEF CloseBlock
  <1>2. EndBlockFault = "none" /\ ClosesTrueBranch(Top) \in BOOLEAN
    BY <1>1 DEF CloseBlock, PendingFault, ClosesTrueBranch
  <1>3. DecoderStepped /\ StackOK'
    BY <1>1, <1>2, EndBlockTypes, NoopOK, LayerParts
  <1>4. TracesInLockstep'
    BY <1>1, RowTaken, LayerParts DEF EndBlock, FlowNoop
  <1>5. calls # << >>
    BY <1>1, LayerParts DEF AtPlace
  <1>6. Control' /\ AtPlace'
    BY <1>1, <1>5, CloseControl, LayerParts
  <1>7. step' % CycleLength = PlaceInCycle'
    BY <1>1, <1>3, NextPlace, CycleFacts DEF PlaceInCycle, DecoderStepped
  <1> QED BY <1>1, <1>3, <1>4, <1>6, <1>7, RowStep, LayerParts DEF Places

LEMMA MergeRoundControl == ASSUME ControlLayer, MergeRound PROVE ControlLayer'
  <1>1. pc = "hacc" /\ UNCHANGED <<root, fault>> /\ k < HaccRounds
    BY LayerParts DEF MergeRound, AtPlace
  <1>2. DecoderStepped /\ StackOK' /\ TracesInLockstep'
    BY UserNoopRow DEF MergeRound
  <1>3. k \in Nat /\ HaccRounds = CycleLength - 2 /\ CycleLength \in Nat /\ CycleLength > 2
    BY LayerParts, CycleAssumption
  <1>4. step' % CycleLength = k + 2
    BY <1>1, <1>2, <1>3, NextPlace DEF PlaceInCycle, DecoderStepped
  <1>5. CASE k + 1 < HaccRounds
    <2>1. k' = k + 1 /\ UNCHANGED <<calls, pc>>
      BY <1>5 DEF MergeRound
    <2>2. Top' = Top /\ Block' = Block
      BY <2>1 DEF Top, Block
    <2>3. Control'
      BY <1>1, <2>1, LayerParts DEF Control, CallsFollowTree
    <2>4. AtPlace'
      BY <1>1, <1>5, <2>1, <2>2, LayerParts DEF AtPlace
    <2>5. step' % CycleLength = PlaceInCycle'
      BY <1>1, <1>3, <1>4, <2>1 DEF PlaceInCycle
    <2> QED BY <1>1, <1>2, <1>3, <2>1, <2>3, <2>4, <2>5, RowStep, LayerParts DEF Places
  <1>6. CASE ~ (k + 1 < HaccRounds) /\ calls = << >>
    <2>1. k' = 0 /\ pc' = "finalize" /\ UNCHANGED calls
      BY <1>6 DEF MergeRound
    <2>2. Control'
      BY <1>1, <2>1, LayerParts DEF Control, CallsFollowTree
    <2>3. AtPlace'
      BY <1>6, <2>1 DEF AtPlace
    <2>4. step' % CycleLength = PlaceInCycle'
      BY <1>1, <1>3, <1>4, <1>6, <2>1 DEF PlaceInCycle
    <2> QED BY <1>1, <1>2, <2>1, <2>2, <2>3, <2>4, RowStep, LayerParts DEF Places
  <1>7. CASE ~ (k + 1 < HaccRounds) /\ calls # << >>
    <2>1. /\ k' = 0 /\ calls' = [calls EXCEPT ![Len(calls)].at = @ + 1]
          /\ pc' = Continue(Top, Top.at)
      BY <1>7 DEF MergeRound
    <2>2. Top.at \in 1..Len(Body(Top))
      <3>1. Top.at \in 2..Len(Body(Top))
        BY <1>1, <1>7, LayerParts DEF AtPlace
      <3>2. Len(Body(Top)) \in Nat
        BY <1>7, TopFacts, LayerParts DEF Control
      <3> QED BY <3>1, <3>2
    <2>3. Control' /\ AtPlace' /\ pc' \in {"block", "test", "tail"}
      BY <1>1, <1>7, <2>1, <2>2, AdvanceControl, LayerParts
    <2>4. step' % CycleLength = PlaceInCycle'
      BY <1>1, <1>3, <1>4, <1>7, <2>3 DEF PlaceInCycle
    <2> QED BY <1>1, <1>2, <2>1, <2>3, <2>4, RowStep, LayerParts DEF Places
  <1> QED BY <1>5, <1>6, <1>7

LEMMA FinalizeControl == ASSUME ControlLayer, FinalizeTrace PROVE ControlLayer'
  <1>1. /\ pc = "finalize" /\ pc' = "done" /\ UNCHANGED <<root, calls, k, fault>>
        /\ FinalizeDecoder /\ FinalizeStack
    BY DEF FinalizeTrace
  <1>2. step \in Nat /\ traceLength \in Nat \ {0} /\ step < traceLength
    BY LayerParts DEF DecoderTypeOK, TracesInLockstep
  <1>3. Control' /\ AtPlace'
    BY <1>1, LayerParts DEF Control, CallsFollowTree, AtPlace
  <1>4. step' = traceLength - 1 /\ traceLength' = traceLength
    BY <1>1 DEF FinalizeDecoder
  <1>5. DecoderTypeOK'
    BY <1>1, <1>2, <1>4, LayerParts DEF DecoderTypeOK, FinalizeDecoder, SetOpBits
  <1>6. StackOK' /\ stackStep' = stackLength - 1 /\ stackLength' = stackLength
    BY <1>1, <1>2, LayerParts
    DEF FinalizeStack, StackOK, StackTypeOK, FreeRegistersAreZero, RegistersSuffice,
        TracesInLockstep
  <1>7. TracesInLockstep'
    BY <1>2, <1>4, <1>6, LayerParts DEF TracesInLockstep
  <1>8. VoidOnlyAtEnd'
    BY <1>1 DEF VoidOnlyAtEnd, FinalizeDecoder, SetOpBits
  <1>9. TypeOK' /\ ControlInvariant'
    BY <1>1, <1>3, <1>5, <1>6, LayerParts
    DEF TypeOK, Control, StackOK, ControlInvariant, Alignment, Places
  <1> QED BY <1>6, <1>7, <1>8, <1>9 DEF ControlLayer

LEMMA UnchangedControl ==
  ASSUME ControlLayer, UNCHANGED <<decoderVars, stackVars, root, calls, pc, k>>,
         fault' \in Faults
  PROVE  ControlLayer'
  BY DEF ControlLayer, TypeOK, StackOK, StackTypeOK, FreeRegistersAreZero,
         RegistersSuffice, DecoderTypeOK, ControlInvariant, CallsFollowTree, AtPlace,
         Alignment, PlaceInCycle, TracesInLockstep, VoidOnlyAtEnd, Top, Block,
         decoderVars, stackVars

LEMMA InitControl == ASSUME ProcessorInit PROVE ControlLayer
  <1> DEFINE f == Frame(Group(root), "group")
  <1>1. /\ root \in RootLists /\ calls = <<f>> /\ pc = "span" /\ k = 0 /\ fault = "none"
        /\ DecoderInit
    BY DEF ProcessorInit
  <1>2. root \in BlockLists
    BY <1>1, BlocksAssumption DEF Constructed
  <1>3. /\ f \in Frames /\ f.block = Group(root) /\ f.at = 1 /\ Matches(f)
        /\ Body(f) = root /\ Group(root).kind = "group"
    BY <1>1 DEF Frame, Frames, BlockSet, Group, Matches, Body, Parts
  <1> HIDE DEF f
  <1>4. calls \in Seq(Frames) /\ Len(calls) = 1 /\ calls[1] = f /\ calls # << >> /\ Top = f
    BY <1>1, <1>3 DEF Top
  <1>5. Control
    BY <1>1, <1>3, <1>4 DEF Control, CallsFollowTree
  <1>6. AtPlace
    BY <1>1, <1>2, <1>3, <1>4, FirstIsSpan DEF AtPlace, Block
  <1>7. MinTraceLength \in Nat \ {0}
    BY DecoderAssumption
  <1>8. StackOK /\ stackStep = 0 /\ stackLength = MinTraceLength
    <2>1. PICK in \in ProgramInputs : StackInit(in.public, in.a, in.b, MinTraceLength)
      BY DEF ProcessorInit
    <2>2. StackOK
      BY <1>7, <2>1, InputsAssumption, StackInitOK DEF ValidInputs
    <2> QED BY <2>1, <2>2 DEF StackInit
  <1>9. DecoderTypeOK
    <2>1. IsSponge(ZeroSponge)
      BY LoadIsSponge DEF ZeroSponge
    <2>2. IsSequence(<<ZeroDigest>>)
      <3>1. <<ZeroDigest>> \in Seq({ZeroDigest})
        OBVIOUS
      <3> QED BY <3>1, IsSequenceOf
    <2>3. IsSequence(<< >>)
      <3>1. << >> \in Seq({})
        OBVIOUS
      <3> QED BY <3>1, IsSequenceOf
    <2> QED BY <1>1, <1>7, <2>1, <2>2, <2>3 DEF DecoderInit, DecoderTypeOK
  <1>10. TypeOK
    BY <1>1, <1>5, <1>8, <1>9 DEF TypeOK, Control, StackOK, Places, Faults
  <1>11. ControlInvariant
    BY <1>1, <1>5, <1>6, CycleFacts
    DEF Control, ControlInvariant, Alignment, PlaceInCycle, DecoderInit
  <1>12. TracesInLockstep /\ VoidOnlyAtEnd
    BY <1>1, <1>7, <1>8 DEF TracesInLockstep, VoidOnlyAtEnd, DecoderInit
  <1> QED BY <1>8, <1>10, <1>11, <1>12 DEF ControlLayer

LEMMA NextControl == ASSUME ControlLayer, [Next]_vars PROVE ControlLayer'
  <1>1. ASSUME Panic PROVE ControlLayer'
    BY <1>1, UnchangedControl, FaultsAreNamed DEF Panic
  <1>2. ASSUME UNCHANGED vars PROVE ControlLayer'
    BY <1>2, UnchangedControl, LayerParts DEF vars
  <1>3. ASSUME Step PROVE ControlLayer'
    BY <1>1, <1>3, SpanOpControl, PadSpanControl, StartGroupControl, StartSwitchControl,
       SkipLoopControl, EnterLoopControl, RepeatLoopControl, ExitLoopControl,
       CompleteCycleControl, CloseBlockControl, MergeRoundControl, FinalizeControl DEF Step
  <1> QED BY <1>2, <1>3 DEF Next

LEMMA AlwaysControl == Spec => []ControlLayer
  <1>1. ProcessorInit => ControlLayer
    BY InitControl
  <1>2. ControlLayer /\ [Next]_vars => ControlLayer'
    BY NextControl
  <1> QED BY <1>1, <1>2, PTL DEF Spec
-----------------------------------------------------------------------------
(* Every variable of the interpreter, the decoder and the stack keeps its  *)
(* type: no operation, with any operands, leaves the field.                *)
THEOREM TypesAreKept == Spec => []TypeOK
  <1>1. ControlLayer => TypeOK
    BY DEF ControlLayer
  <1> QED BY <1>1, AlwaysControl, PTL

(* The interpreter is always where the blocks' nesting and the cycle of    *)
(* round constants allow it, for programs of any shape and depth.          *)
THEOREM ControlIsAligned == Spec => []ControlInvariant
  <1>1. ControlLayer => ControlInvariant
    BY DEF ControlLayer
  <1> QED BY <1>1, AlwaysControl, PTL

(* Decoder and stack fill the same rows of traces of the same length, and  *)
(* the trace is never more than twice as long as it has to be.             *)
THEOREM LockstepOfTraces == Spec => []TracesInLockstep
  <1>1. ControlLayer => TracesInLockstep
    BY DEF ControlLayer
  <1> QED BY <1>1, AlwaysControl, PTL

(* A run that returns a trace ends it with VOID, and only there.           *)
THEOREM TraceEndsWithVoid == Spec => []VoidOnlyAtEnd
  <1>1. ControlLayer => VoidOnlyAtEnd
    BY DEF ControlLayer
  <1> QED BY <1>1, AlwaysControl, PTL
-----------------------------------------------------------------------------
(***************************************************************************)
(* What the registers of the decoder hold, for all programs: the hash it   *)
(* keeps while it executes is the hash of the program tree, the context    *)
(* stack has the hashes of the suspended blocks and the loop stack the     *)
(* images of the active loops; and so none of its assertions fails but the *)
(* two limits.                                                             *)
(***************************************************************************)
LEMMA PrefixFacts ==
  ASSUME NEW s \in BlockLists, NEW n \in 1..Len(s)
  PROVE  /\ IsSponge(PrefixState[s][n])
         /\ PrefixState[s][1] = AbsorbCode(ZeroSponge, s[1].code, Len(s[1].code))
         /\ n # 1 => PrefixState[s][n] = AbsorbBlock(PrefixState[s][n - 1], s[n])
  <1>1. Len(s) \in Nat
    BY ListFacts
  <1>2. n # 1 => n \in 2..Len(s)
    BY <1>1
  <1> QED BY <1>2, HashAssumption

LEMMA BaseIsSponge ==
  ASSUME NEW f \in Frames, Matches(f)
  PROVE  IsSponge(Base(f))
  <1>1. CASE f.part = "exit"
    <2>1. f.block \in BlockSet /\ f.block.kind = "loop"
      BY <1>1 DEF Frames, Matches
    <2>2. f.block.body \in BlockLists
      BY <2>1, SkipOfLoop
    <2>3. Len(f.block.body) \in 1..Len(f.block.body)
      BY <2>2, ListFacts
    <2> QED BY <1>1, <2>2, <2>3, PrefixFacts DEF Base
  <1>2. CASE f.part # "exit"
    BY <1>2, LoadIsSponge DEF Base, ZeroSponge
  <1> QED BY <1>1, <1>2

LEMMA ExitList ==
  ASSUME NEW f \in Frames, Matches(f), f.part = "exit"
  PROVE  /\ Body(f) = <<LoopSkipBlock>> /\ Len(Body(f)) = 1
         /\ Body(f)[1] = LoopSkipBlock
  <1>1. f.block \in BlockSet /\ f.block.kind = "loop"
    BY DEF Frames, Matches
  <1>2. Body(f) = <<LoopSkipBlock>>
    BY <1>1, BodyIsList, SkipOfLoop
  <1> QED BY <1>2, SkipFacts

LEMMA AbsorbedIsSponge ==
  ASSUME NEW f \in Frames, Matches(f), NEW n \in 0..Len(Body(f))
  PROVE  IsSponge(Absorbed(f, n))
  <1>1. Body(f) \in BlockLists /\ CycleLength - 1 \in Nat
    BY BodyIsList, CycleFacts
  <1>2. Len(Body(f)) \in Nat
    BY <1>1, ListFacts
  <1>3. IsSponge(Base(f))
    BY BaseIsSponge
  <1>4. IsSponge(AbsorbCode(Base(f), LoopSkipBlock.code, CycleLength - 1))
    BY <1>1, <1>3, CodeAbsorbed
  <1>5. n # 0 => IsSponge(PrefixState[Body(f)][n])
    <2>1. n # 0 => n \in 1..Len(Body(f))
      BY <1>2
    <2> QED BY <2>1, <1>1, PrefixFacts
  <1> QED BY <1>3, <1>4, <1>5 DEF Absorbed

(* the sponge before and after a span *)
LEMMA SpanStarts ==
  ASSUME NEW f \in Frames, Matches(f), f.at \in 1..Len(Body(f))
  PROVE  /\ IsSponge(SpanStart(f))
         /\ AbsorbCode(SpanStart(f), Body(f)[f.at].code, 0) = SpanStart(f)
  <1>1. Len(Body(f)) \in Nat
    BY BodyIsList, ListFacts
  <1>2. IsSponge(SpanStart(f))
    <2>1. CASE f.at = 1
      BY <2>1, BaseIsSponge DEF SpanStart
    <2>2. CASE f.at # 1
      <3>1. f.at - 1 \in 0..Len(Body(f))
        BY <1>1
      <3>2. IsSponge(Absorbed(f, f.at - 1))
        BY <3>1, AbsorbedIsSponge
      <3> QED BY <2>2, <3>2, RoundApplied DEF SpanStart
    <2> QED BY <2>1, <2>2
  <1> QED BY <1>2, AbsorbNone

LEMMA SpanFinished ==
  ASSUME NEW f \in Frames, Matches(f), f.at \in 1..Len(Body(f)),
         Body(f)[f.at].kind = "span"
  PROVE  AbsorbCode(SpanStart(f), Body(f)[f.at].code, Len(Body(f)[f.at].code))
           = Absorbed(f, f.at)
  <1>1. Body(f) \in BlockLists
    BY BodyIsList
  <1>2. Len(Body(f)) \in Nat \ {0}
    BY <1>1, ListFacts
  <1>3. CASE f.part = "exit"
    <2>1. f.at = 1 /\ Body(f)[f.at] = LoopSkipBlock
      BY <1>3, ExitList
    <2> QED BY <1>3, <2>1, SkipFacts DEF SpanStart, Absorbed
  <1>4. CASE f.part # "exit" /\ f.at = 1
    <2>1. Absorbed(f, f.at) = PrefixState[Body(f)][1]
      BY <1>4 DEF Absorbed
    <2>2. SpanStart(f) = ZeroSponge
      BY <1>4 DEF SpanStart, Base
    <2> QED BY <1>1, <1>4, <2>1, <2>2, PrefixFacts
  <1>5. CASE f.part # "exit" /\ f.at # 1
    <2>1. /\ Absorbed(f, f.at) = PrefixState[Body(f)][f.at]
          /\ Absorbed(f, f.at - 1) = PrefixState[Body(f)][f.at - 1]
      BY <1>2, <1>5 DEF Absorbed
    <2>2. SpanStart(f) = ApplyRound(PrefixState[Body(f)][f.at - 1], "noop", 0, CycleLength - 1)
      BY <1>5, <2>1 DEF SpanStart
    <2>3. PrefixState[Body(f)][f.at]
            = AbsorbBlock(PrefixState[Body(f)][f.at - 1], Body(f)[f.at])
      BY <1>1, <1>5, PrefixFacts
    <2> QED BY <2>1, <2>2, <2>3 DEF AbsorbBlock
  <1> QED BY <1>3, <1>4, <1>5

(* a control block merged into its parent's hash *)
LEMMA BlockFinished ==
  ASSUME NEW f \in Frames, Matches(f), f.at \in 2..Len(Body(f)),
         Body(f)[f.at].kind # "span"
  PROVE  HashAcc(Suspended(f), BlockHash(Body(f)[f.at])[1], BlockHash(Body(f)[f.at])[2])
           = Absorbed(f, f.at)
  <1>1. Body(f) \in BlockLists
    BY BodyIsList
  <1>2. Len(Body(f)) \in Nat \ {0}
    BY <1>1, ListFacts
  <1>3. f.part # "exit"
    BY ExitList
  <1>4. f.at \in 1..Len(Body(f)) /\ f.at # 1 /\ f.at # 0 /\ f.at - 1 # 0
    BY <1>2
  <1>5. /\ Absorbed(f, f.at) = PrefixState[Body(f)][f.at]
        /\ Absorbed(f, f.at - 1) = PrefixState[Body(f)][f.at - 1]
    BY <1>3, <1>4 DEF Absorbed
  <1>6. PrefixState[Body(f)][f.at]
          = AbsorbBlock(PrefixState[Body(f)][f.at - 1], Body(f)[f.at])
    BY <1>1, <1>4, PrefixFacts
  <1> QED BY <1>5, <1>6 DEF AbsorbBlock, Suspended

(* What is hashed when a list is finished, together with the hash of the   *)
(* part that was not executed, is the hash of the block.                   *)
LEMMA BlockHashByPart ==
  ASSUME NEW f \in Frames, Matches(f), f.at = Len(Body(f)) + 1, f.part # "loop",
         NEW d, d = Digest(ApplyRound(Absorbed(f, f.at - 1), "noop", 0, CycleLength - 1))
  PROVE  BlockHash(f.block) =
           IF ClosesTrueBranch(f) THEN <<d, SiblingHash(f)>> ELSE <<SiblingHash(f), d>>
  <1>1. Body(f) \in BlockLists
    BY BodyIsList
  <1>2. Len(Body(f)) \in Nat \ {0} /\ f.at - 1 = Len(Body(f))
    BY <1>1, ListFacts
  <1>3. f.part \in Parts
    BY DEF Frames
  <1>4. f.part # "exit" => d = HashSeq(Body(f))
    BY <1>2 DEF Absorbed, HashSeq
  <1>5. f.part = "exit" => d = LoopBodyHash(f.block)
    BY <1>2 DEF Absorbed, LoopBodyHash, Base
  <1>6. CASE f.part = "group"
    BY <1>4, <1>6 DEF Matches, Body, BlockHash, ClosesTrueBranch, SiblingHash
  <1>7. CASE f.part \in {"true", "false"}
    BY <1>4, <1>7 DEF Matches, Body, BlockHash, ClosesTrueBranch, SiblingHash
  <1>8. CASE f.part \in {"skip", "exit"}
    BY <1>4, <1>5, <1>8 DEF Matches, Body, BlockHash, ClosesTrueBranch, SiblingHash
  <1> QED BY <1>3, <1>6, <1>7, <1>8 DEF Parts
-----------------------------------------------------------------------------
(* The context stack.                                                      *)
LEMMA ContextKept ==
  ASSUME ContextIsSuspendedHashes, Len(calls) \in Nat, UNCHANGED <<ctxStack, ctxDepth>>,
         Len(calls') = Len(calls), \A i \in 1..(Len(calls) - 1) : calls'[i] = calls[i]
  PROVE  ContextIsSuspendedHashes'
  BY DEF ContextIsSuspendedHashes

LEMMA ContextPushed ==
  ASSUME ContextIsSuspendedHashes, IsSequence(ctxStack), Len(calls) \in Nat \ {0},
         SaveContext, Digest(sponge) = Suspended(Top),
         Len(calls') = Len(calls) + 1, \A i \in 1..Len(calls) : calls'[i] = calls[i]
  PROVE  ContextIsSuspendedHashes'
  <1> DEFINE n == Len(calls)
  <1> DEFINE d == Digest(sponge)
  <1> DEFINE m == Len(ctxStack)
  <1>1. /\ ctxDepth = n /\ n <= m
        /\ \A i \in 1..(n - 1) : ctxStack[n - i] = Suspended(calls[i])
        /\ \A i \in 1..m : i >= n => ctxStack[i] = ZeroDigest
    BY DEF ContextIsSuspendedHashes
  <1>2. ctxStack' = Pushed(ctxStack, n, d) /\ ctxDepth' = n + 1
    BY <1>1 DEF SaveContext
  <1>3. Len(ctxStack') = (IF n + 1 > m THEN m + 1 ELSE m) /\ m \in Nat
        /\ \A i \in 1..Len(ctxStack') : ctxStack'[i] = IF i = 1 THEN d ELSE ctxStack[i - 1]
    BY <1>2, PushedFacts
  <1>4. d = Suspended(calls[n])
    BY DEF Top
  <1> HIDE DEF d
  <1>5. n + 1 <= Len(ctxStack')
    BY <1>1, <1>3
  <1>6. ASSUME NEW i \in 1..n PROVE ctxStack'[(n + 1) - i] = Suspended(calls'[i])
    <2>1. (n + 1) - i \in 1..Len(ctxStack') /\ calls'[i] = calls[i]
      BY <1>1, <1>5
    <2>2. CASE i = n
      BY <2>1, <2>2, <1>3, <1>4
    <2>3. CASE i # n
      <3>1. i \in 1..(n - 1) /\ (n + 1) - i # 1 /\ ((n + 1) - i) - 1 = n - i
        BY <2>3
      <3> QED BY <2>1, <3>1, <1>1, <1>3
    <2> QED BY <2>2, <2>3
  <1>7. ASSUME NEW i \in 1..Len(ctxStack'), i >= n + 1 PROVE ctxStack'[i] = ZeroDigest
    <2>1. i # 1 /\ i - 1 \in 1..m /\ i - 1 >= n
      BY <1>3, <1>7
    <2> QED BY <2>1, <1>1, <1>3
  <1>8. (n + 1) - 1 = n
    OBVIOUS
  <1> QED BY <1>2, <1>5, <1>6, <1>7, <1>8 DEF ContextIsSuspendedHashes

LEMMA ContextPopped ==
  ASSUME ContextIsSuspendedHashes, IsSequence(ctxStack), Len(calls) \in Nat \ {0},
         PopContext,
         Len(calls') = Len(calls) - 1, \A i \in 1..(Len(calls) - 1) : calls'[i] = calls[i]
  PROVE  ContextIsSuspendedHashes'
  <1> DEFINE n == Len(calls)
  <1> DEFINE m == Len(ctxStack)
  <1>1. /\ ctxDepth = n /\ n <= m
        /\ \A i \in 1..(n - 1) : ctxStack[n - i] = Suspended(calls[i])
        /\ \A i \in 1..m : i >= n => ctxStack[i] = ZeroDigest
    BY DEF ContextIsSuspendedHashes
  <1>2. ctxStack' = Popped(ctxStack) /\ ctxDepth' = n - 1
    BY <1>1 DEF PopContext
  <1>3. Len(ctxStack') = m /\ m \in Nat
        /\ \A i \in 1..m : ctxStack'[i] = IF i < m THEN ctxStack[i + 1] ELSE ZeroDigest
    BY <1>2, PoppedFacts
  <1>4. ASSUME NEW i \in 1..((n - 1) - 1)
        PROVE  ctxStack'[(n - 1) - i] = Suspended(calls'[i])
    <2>1. /\ (n - 1) - i \in 1..m /\ (n - 1) - i < m /\ ((n - 1) - i) + 1 = n - i
          /\ i \in 1..(n - 1)
      <3>1. n \in Nat \ {0} /\ m \in Nat /\ n <= m /\ i \in 1..((n - 1) - 1)
        BY <1>1, <1>3
      <3> HIDE DEF n, m
      <3> QED BY <3>1
    <2>2. calls'[i] = calls[i]
      BY <2>1
    <2> QED BY <2>1, <2>2, <1>1, <1>3
  <1>5. ASSUME NEW i \in 1..m, i >= n - 1 PROVE ctxStack'[i] = ZeroDigest
    <2>1. i < m => i + 1 \in 1..m /\ i + 1 >= n
      BY <1>3, <1>5
    <2> QED BY <2>1, <1>1, <1>3
  <1>6. n - 1 <= m
    BY <1>1, <1>3
  <1> QED BY <1>2, <1>3, <1>4, <1>5, <1>6 DEF ContextIsSuspendedHashes

(* the top of the context stack is where the innermost block's hash goes *)
LEMMA ContextTop ==
  ASSUME ContextIsSuspendedHashes, IsSequence(ctxStack), Len(calls) \in Nat \ {0}
  PROVE  ctxStack[1] = IF Len(calls) = 1 THEN ZeroDigest
                                         ELSE Suspended(calls[Len(calls) - 1])
  <1> DEFINE n == Len(calls)
  <1>1. /\ n <= Len(ctxStack)
        /\ \A i \in 1..(n - 1) : ctxStack[n - i] = Suspended(calls[i])
        /\ \A i \in 1..Len(ctxStack) : i >= n => ctxStack[i] = ZeroDigest
    BY DEF ContextIsSuspendedHashes
  <1>2. Len(ctxStack) \in Nat
    BY SequenceWithin
  <1>3. CASE n = 1
    <2>1. 1 \in 1..Len(ctxStack) /\ 1 >= n
      BY <1>1, <1>2, <1>3
    <2> QED BY <1>1, <1>3, <2>1
  <1>4. CASE n # 1
    <2>1. n - 1 \in 1..(n - 1) /\ n - (n - 1) = 1
      <3>1. n \in Nat \ {0} /\ n # 1
        BY <1>4
      <3> HIDE DEF n
      <3> QED BY <3>1
    <2> QED BY <1>1, <1>4, <2>1
  <1> QED BY <1>3, <1>4
-----------------------------------------------------------------------------
(* The second layer of the inductive invariant.  Saving a context needs    *)
(* what the sponge holds, and closing a block what was saved.              *)
HashLayer == ControlLayer /\ SpongeTracksProgram /\ ContextIsSuspendedHashes

LEMMA HashParts ==
  ASSUME HashLayer
  PROVE  /\ Control /\ AtPlace /\ ControlLayer /\ IsSequence(ctxStack) /\ IsSponge(sponge)
         /\ SpongeTracksProgram /\ ContextIsSuspendedHashes
         /\ step \in Nat /\ k \in Nat
         /\ pc # "done" => step % CycleLength = PlaceInCycle
         /\ Len(calls) \in Nat
         /\ calls # << >> => /\ Len(calls) \in Nat \ {0} /\ Top \in Frames /\ Matches(Top)
                             /\ Body(Top) \in BlockLists /\ Len(Body(Top)) \in Nat \ {0}
                             /\ Top.at \in Nat \ {0} /\ Top.part \in Parts
                             /\ Top.block \in BlockSet
  <1>1. ControlLayer /\ Control /\ AtPlace /\ Alignment /\ DecoderTypeOK /\ k \in Nat
    BY LayerParts DEF HashLayer
  <1>2. IsSequence(ctxStack) /\ IsSponge(sponge) /\ step \in Nat
    BY <1>1 DEF DecoderTypeOK
  <1>3. Len(calls) \in Nat
    BY <1>1 DEF Control
  <1> QED BY <1>1, <1>2, <1>3, TopFacts DEF HashLayer, Control, Alignment

LEMMA SpanOpHash ==
  ASSUME HashLayer, SpanOp
  PROVE  SpongeTracksProgram' /\ ContextIsSuspendedHashes'
  <1> DEFINE code == Block.code
  <1> DEFINE instr == code[k + 1]
  <1> DEFINE start == SpanStart(Top)
  <1>1. /\ calls # << >> /\ Top.at \in 1..Len(Body(Top)) /\ Control
        /\ Block = Body(Top)[Top.at] /\ Block.kind = "span"
        /\ Len(code) \in Nat \ {0} /\ k + 1 \in 1..Len(code)
    BY CurrentInstr, HashParts DEF SpanOp
  <1>2. /\ DecodeOp(instr.op, HintValue(instr.hint)) /\ pc = "span" /\ UNCHANGED <<root, fault>>
        /\ DecodeOpFault(instr.op, HintValue(instr.hint)) = "none"
    BY DEF SpanOp, PendingFault
  <1>3. HintValue(instr.hint) = OpValue(instr)
    BY <1>2 DEF DecodeOpFault, OpValue
  <1>4. /\ sponge = AbsorbCode(start, code, k) /\ step % CycleLength = k % CycleLength
        /\ step \in Nat /\ k \in Nat /\ Top \in Frames /\ Matches(Top)
    BY <1>1, <1>2, HashParts DEF SpongeTracksProgram, PlaceInCycle
  <1>5. IsSponge(start)
    BY <1>1, <1>4, SpanStarts
  <1>6. sponge' = ApplyRound(sponge, instr.op, OpValue(instr), step)
        /\ UNCHANGED <<ctxStack, ctxDepth>>
    BY <1>2, <1>3 DEF DecodeOp, CopyContextStack
  <1>7. sponge' = AbsorbCode(start, code, k + 1)
    <2> HIDE DEF start, code
    <2> QED BY <1>4, <1>5, <1>6, AbsorbNext
  <1>8. CASE k + 1 < Len(code)
    <2>1. k' = k + 1 /\ UNCHANGED <<calls, pc>> /\ Top' = Top /\ Block' = Block
      BY <1>8 DEF SpanOp, Top, Block
    <2>2. SpongeTracksProgram'
      BY <1>2, <1>7, <2>1 DEF SpongeTracksProgram
    <2> QED BY <1>6, <2>1, <2>2, HashParts, ContextKept
  <1>9. CASE ~ (k + 1 < Len(code))
    <2>1. /\ k' = 0 /\ calls' = [calls EXCEPT ![Len(calls)].at = @ + 1]
          /\ pc' = Continue(Top, Top.at)
      BY <1>9 DEF SpanOp
    <2>2. /\ pc' \in {"block", "test", "tail"} /\ Len(calls') = Len(calls)
          /\ Top'.block = Top.block /\ Top'.part = Top.part /\ Top'.at = Top.at + 1
          /\ \A i \in 1..(Len(calls) - 1) : calls'[i] = calls[i]
      BY <1>1, <1>2, <2>1, AdvanceControl
    <2>3. k + 1 = Len(code) /\ Top'.at - 1 = Top.at
      BY <1>1, <1>9, <2>2
    <2>4. sponge' = Absorbed(Top, Top.at)
      BY <1>1, <1>4, <1>7, <2>3, SpanFinished
    <2>5. sponge' = Absorbed(Top', Top'.at - 1)
      BY <2>2, <2>3, <2>4, SameFrame
    <2>6. SpongeTracksProgram'
      BY <2>2, <2>5 DEF SpongeTracksProgram
    <2> QED BY <1>6, <2>2, <2>6, HashParts, ContextKept
  <1> QED BY <1>8, <1>9

LEMMA PadSpanHash ==
  ASSUME HashLayer, PadSpan
  PROVE  SpongeTracksProgram' /\ ContextIsSuspendedHashes'
  <1>1. /\ pc = "block" /\ Block.kind = "span" /\ pc' = "span" /\ k' = 0
        /\ UNCHANGED <<root, calls, fault>> /\ DecodeOp("noop", 0)
    BY DEF PadSpan, UserNoop
  <1>2. /\ calls # << >> /\ Top.at \in 2..Len(Body(Top)) /\ Top \in Frames /\ Matches(Top)
        /\ Len(Body(Top)) \in Nat \ {0}
    BY <1>1, HashParts DEF AtPlace
  <1>3. /\ sponge = Absorbed(Top, Top.at - 1) /\ step \in Nat
        /\ step % CycleLength = CycleLength - 1
    BY <1>1, HashParts DEF SpongeTracksProgram, PlaceInCycle
  <1>4. /\ sponge' = ApplyRound(sponge, "noop", 0, step) /\ UNCHANGED <<ctxStack, ctxDepth>>
    BY <1>1 DEF DecodeOp, CopyContextStack
  <1>5. Top.at \in 1..Len(Body(Top)) /\ Top.at # 1
    BY <1>2
  <1>6. sponge' = SpanStart(Top)
    BY <1>3, <1>4, <1>5, LastRound DEF SpanStart
  <1>7. Top' = Top /\ Block' = Block /\ Block = Body(Top)[Top.at]
    BY <1>1 DEF Top, Block
  <1>8. sponge' = AbsorbCode(SpanStart(Top), Block.code, 0)
    BY <1>2, <1>5, <1>6, <1>7, SpanStarts
  <1>9. SpongeTracksProgram'
    BY <1>1, <1>7, <1>8 DEF SpongeTracksProgram
  <1> QED BY <1>1, <1>4, <1>9, HashParts, ContextKept

(* a new list starts from the empty sponge *)
LEMMA ListStarted ==
  ASSUME Control', AtPlace', calls' # << >>, pc' = "span", k' = 0, Top'.at = 1,
         sponge' = Base(Top')
  PROVE  SpongeTracksProgram'
  <1>1. Top' \in Frames /\ Matches(Top') /\ Top'.at \in 1..Len(Body(Top'))
    <2>1. calls' \in Seq(Frames) /\ Len(calls') \in 1..Len(calls')
      BY EmptySeq DEF Control
    <2>2. Top' \in Frames /\ Matches(Top')
      BY <2>1, ElementOfSeq DEF Control, CallsFollowTree, Top
    <2> QED BY <2>2 DEF AtPlace
  <1>2. SpanStart(Top') = Base(Top')
    BY DEF SpanStart
  <1>3. Block' = Body(Top')[Top'.at]
    BY DEF Block
  <1>4. sponge' = AbsorbCode(SpanStart(Top'), Block'.code, 0)
    BY <1>1, <1>2, <1>3, SpanStarts
  <1> QED BY <1>4 DEF SpongeTracksProgram

LEMMA EnterHash ==
  ASSUME HashLayer, pc = "block", UNCHANGED root, SaveContext, sponge' = ZeroSponge,
         NEW part \in Parts \ {"exit"}, Enter(part), Matches(Frame(Block, part))
  PROVE  SpongeTracksProgram' /\ ContextIsSuspendedHashes'
  <1>1. /\ Control /\ calls # << >> /\ Top.at \in 2..Len(Body(Top))
        /\ Len(calls) \in Nat \ {0} /\ IsSequence(ctxStack) /\ ContextIsSuspendedHashes
    BY HashParts DEF AtPlace
  <1>2. /\ Control' /\ AtPlace' /\ pc' = "span" /\ k' = 0 /\ calls' # << >>
        /\ Len(calls') = Len(calls) + 1 /\ Top' = Frame(Block, part)
        /\ \A i \in 1..Len(calls) : calls'[i] = calls[i]
    BY <1>1, EnterControl
  <1>3. Top'.at = 1 /\ Base(Top') = ZeroSponge
    BY <1>2 DEF Frame, Base
  <1>4. SpongeTracksProgram'
    BY <1>2, <1>3, ListStarted
  <1>5. Digest(sponge) = Suspended(Top)
    BY HashParts DEF SpongeTracksProgram, Suspended
  <1>6. ContextIsSuspendedHashes'
    BY <1>1, <1>2, <1>5, ContextPushed
  <1> QED BY <1>4, <1>6

LEMMA StartGroupHash ==
  ASSUME HashLayer, StartGroup
  PROVE  SpongeTracksProgram' /\ ContextIsSuspendedHashes'
  <1>1. /\ pc = "block" /\ Enter("group") /\ SaveContext /\ sponge' = ZeroSponge
        /\ Block.kind = "group" /\ UNCHANGED root
    BY DEF StartGroup, StartBlock
  <1>2. Matches(Frame(Block, "group")) /\ "group" \in Parts \ {"exit"}
    BY <1>1 DEF Matches, Frame, Parts
  <1> QED BY <1>1, <1>2, EnterHash

LEMMA StartSwitchHash ==
  ASSUME HashLayer, StartSwitch
  PROVE  SpongeTracksProgram' /\ ContextIsSuspendedHashes'
  <1> DEFINE part == IF StackTop = 1 THEN "true" ELSE "false"
  <1>1. /\ pc = "block" /\ Enter(part) /\ SaveContext /\ sponge' = ZeroSponge
        /\ Block.kind = "switch" /\ UNCHANGED root
    BY DEF StartSwitch, StartBlock
  <1>2. Matches(Frame(Block, part)) /\ part \in Parts \ {"exit"}
    BY <1>1 DEF Matches, Frame, Parts
  <1> HIDE DEF part
  <1> QED BY <1>1, <1>2, EnterHash

LEMMA SkipLoopHash ==
  ASSUME HashLayer, SkipLoop
  PROVE  SpongeTracksProgram' /\ ContextIsSuspendedHashes'
  <1>1. /\ pc = "block" /\ Enter("skip") /\ SaveContext /\ sponge' = ZeroSponge
        /\ Block.kind = "loop" /\ UNCHANGED root
    BY DEF SkipLoop, StartBlock
  <1>2. Matches(Frame(Block, "skip")) /\ "skip" \in Parts \ {"exit"}
    BY <1>1 DEF Matches, Frame, Parts
  <1> QED BY <1>1, <1>2, EnterHash

LEMMA EnterLoopHash ==
  ASSUME HashLayer, EnterLoop
  PROVE  SpongeTracksProgram' /\ ContextIsSuspendedHashes'
  <1>1. /\ pc = "block" /\ Enter("loop") /\ SaveContext /\ sponge' = ZeroSponge
        /\ Block.kind = "loop" /\ UNCHANGED root
    BY DEF EnterLoop, StartLoop
  <1>2. Matches(Frame(Block, "loop")) /\ "loop" \in Parts \ {"exit"}
    BY <1>1 DEF Matches, Frame, Parts
  <1> QED BY <1>1, <1>2, EnterHash

LEMMA RepeatLoopHash ==
  ASSUME HashLayer, RepeatLoop
  PROVE  SpongeTracksProgram' /\ ContextIsSuspendedHashes'
  <1>1. /\ pc = "test" /\ sponge' = ZeroSponge /\ UNCHANGED <<root, ctxStack, ctxDepth>>
        /\ calls' = Append(Outer, Frame(Top.block, "loop")) /\ pc' = "span" /\ k' = 0
    BY DEF RepeatLoop, WrapLoop, CopyContextStack
  <1>2. Control /\ calls # << >> /\ Top.part = "loop"
    BY <1>1, HashParts DEF AtPlace
  <1>3. /\ Control' /\ AtPlace' /\ calls' # << >> /\ Len(calls') = Len(calls)
        /\ Top' = Frame(Top.block, "loop")
        /\ \A i \in 1..(Len(calls) - 1) : calls'[i] = calls[i]
    BY <1>1, <1>2, ReenterControl
  <1>4. Top'.at = 1 /\ Base(Top') = ZeroSponge
    BY <1>3 DEF Frame, Base
  <1>5. SpongeTracksProgram'
    BY <1>1, <1>3, <1>4, ListStarted
  <1> QED BY <1>1, <1>3, <1>5, HashParts, ContextKept

LEMMA ExitLoopHash ==
  ASSUME HashLayer, ExitLoop
  PROVE  SpongeTracksProgram' /\ ContextIsSuspendedHashes'
  <1>1. /\ pc = "test" /\ UNCHANGED <<sponge, root, ctxStack, ctxDepth>>
        /\ calls' = Append(Outer, Frame(Top.block, "exit")) /\ pc' = "span" /\ k' = 0
    BY DEF ExitLoop, BreakLoop, CopyContextStack
  <1>2. /\ Control /\ calls # << >> /\ Top.part = "loop" /\ Top.at = Len(Body(Top)) + 1
        /\ Len(Body(Top)) \in Nat \ {0}
    BY <1>1, HashParts DEF AtPlace
  <1>3. /\ Control' /\ AtPlace' /\ calls' # << >> /\ Len(calls') = Len(calls)
        /\ Top' = Frame(Top.block, "exit")
        /\ \A i \in 1..(Len(calls) - 1) : calls'[i] = calls[i]
    BY <1>1, <1>2, ReenterControl
  <1>4. sponge = Absorbed(Top, Top.at - 1)
    BY <1>1, HashParts DEF SpongeTracksProgram
  <1>5. Top.at - 1 = Len(Body(Top)) /\ Body(Top) = Top.block.body
    BY <1>2 DEF Body
  <1>6. sponge = PrefixState[Top.block.body][Len(Top.block.body)]
    BY <1>2, <1>4, <1>5 DEF Absorbed
  <1>7. Top'.at = 1 /\ Base(Top') = sponge
    BY <1>3, <1>6 DEF Frame, Base
  <1>8. SpongeTracksProgram'
    BY <1>1, <1>3, <1>7, ListStarted
  <1> QED BY <1>1, <1>3, <1>8, HashParts, ContextKept

LEMMA CompleteCycleHash ==
  ASSUME HashLayer, CompleteCycle
  PROVE  SpongeTracksProgram' /\ ContextIsSuspendedHashes'
  <1>1. pc = "tail" /\ pc' = "end" /\ UNCHANGED calls /\ DecodeOp("noop", 0)
    BY DEF CompleteCycle, UserNoop
  <1>2. /\ sponge = Absorbed(Top, Top.at - 1) /\ step \in Nat
        /\ step % CycleLength = CycleLength - 1
    BY <1>1, HashParts DEF SpongeTracksProgram, PlaceInCycle
  <1>3. /\ sponge' = ApplyRound(sponge, "noop", 0, step) /\ UNCHANGED <<ctxStack, ctxDepth>>
    BY <1>1 DEF DecodeOp, CopyContextStack
  <1>4. sponge' = ApplyRound(Absorbed(Top', Top'.at - 1), "noop", 0, CycleLength - 1)
    BY <1>1, <1>2, <1>3, LastRound DEF Top
  <1>5. SpongeTracksProgram'
    BY <1>1, <1>4 DEF SpongeTracksProgram
  <1> QED BY <1>1, <1>3, <1>5, HashParts, ContextKept

LEMMA CloseBlockHash ==
  ASSUME HashLayer, CloseBlock
  PROVE  SpongeTracksProgram' /\ ContextIsSuspendedHashes'
  <1> DEFINE d == Digest(sponge)
  <1> DEFINE v == BlockHash(Top.block)
  <1>1. /\ pc = "end" /\ EndBlock(SiblingHash(Top), ClosesTrueBranch(Top))
        /\ calls' = Outer /\ pc' = "hacc" /\ k' = 0 /\ UNCHANGED root
    BY DEF CloseBlock
  <1>2. /\ Control /\ calls # << >> /\ Top.at = Len(Body(Top)) + 1 /\ Top.part # "loop"
        /\ Len(calls) \in Nat \ {0} /\ Top \in Frames /\ Matches(Top)
        /\ IsSequence(ctxStack) /\ ContextIsSuspendedHashes
    BY <1>1, HashParts DEF AtPlace
  <1>3. d = Digest(ApplyRound(Absorbed(Top, Top.at - 1), "noop", 0, CycleLength - 1))
    BY <1>1, HashParts DEF SpongeTracksProgram
  <1>4. v = IF ClosesTrueBranch(Top) THEN <<d, SiblingHash(Top)>> ELSE <<SiblingHash(Top), d>>
    <2> HIDE DEF d
    <2> QED BY <1>2, <1>3, BlockHashByPart
  <1>5. /\ PopContext
        /\ sponge' = IF ClosesTrueBranch(Top) THEN Load(ctxStack[1], d, SiblingHash(Top))
                                             ELSE Load(ctxStack[1], SiblingHash(Top), d)
    BY <1>1 DEF EndBlock
  <1>6. sponge' = Load(ctxStack[1], v[1], v[2])
    <2> HIDE DEF d, v
    <2> QED BY <1>4, <1>5
  <1>7. /\ Len(calls') = Len(calls) - 1
        /\ \A i \in 1..(Len(calls) - 1) : calls'[i] = calls[i]
        /\ calls' # << >> => Top' = calls[Len(calls) - 1] /\ Block' = Top.block
        /\ calls' = << >> => Len(calls) = 1 /\ Top.block = Group(root)
        /\ Control'
    BY <1>1, <1>2, CloseControl
  <1>8. Closing' = Top.block
    BY <1>1, <1>7 DEF Closing
  <1>9. ctxStack[1] = MergeTarget'
    <2>1. calls' # << >> => Len(calls) # 1
      BY <1>2, <1>7, EmptySeq DEF Control
    <2> QED BY <1>2, <1>7, <2>1, ContextTop DEF MergeTarget
  <1>10. sponge' = Merged(<<MergeTarget', BlockHash(Closing')[1], BlockHash(Closing')[2]>>, 0)
    BY <1>6, <1>8, <1>9, MergedNone
  <1>11. SpongeTracksProgram'
    BY <1>1, <1>10 DEF SpongeTracksProgram, Merging, Merged
  <1> QED BY <1>2, <1>5, <1>7, <1>11, ContextPopped

LEMMA MergeRoundHash ==
  ASSUME HashLayer, MergeRound
  PROVE  SpongeTracksProgram' /\ ContextIsSuspendedHashes'
  <1> DEFINE lanes == <<MergeTarget, BlockHash(Closing)[1], BlockHash(Closing)[2]>>
  <1>1. pc = "hacc" /\ UNCHANGED root /\ k < HaccRounds /\ DecodeOp("noop", 0)
    BY HashParts DEF MergeRound, UserNoop, AtPlace
  <1>2. k \in Nat /\ step \in Nat /\ step % CycleLength = k + 1 /\ Control
    BY <1>1, HashParts DEF PlaceInCycle
  <1>3. HaccRounds = CycleLength - 2 /\ CycleLength \in Nat /\ HaccRounds \in Nat
    BY CycleAssumption
  <1>4. /\ sponge' = ApplyRound(sponge, "noop", 0, step) /\ UNCHANGED <<ctxStack, ctxDepth>>
    BY <1>1 DEF DecodeOp, CopyContextStack
  <1>5. sponge = Merged(lanes, k)
    BY <1>1, HashParts DEF SpongeTracksProgram, Merging, Merged
  <1>6. step % CycleLength = (k + 1) % CycleLength
    <2>1. k + 1 \in 0..(CycleLength - 1)
      BY <1>1, <1>2, <1>3
    <2> QED BY <1>2, <2>1, CycleFacts
  <1>7. sponge' = Merged(lanes, k + 1)
    <2> HIDE DEF lanes
    <2> QED BY <1>2, <1>4, <1>5, <1>6, MergedNext
  <1>8. CASE k + 1 < HaccRounds
    <2>1. k' = k + 1 /\ UNCHANGED <<calls, pc>>
      BY <1>8 DEF MergeRound
    <2>2. Closing' = Closing /\ MergeTarget' = MergeTarget
      BY <1>1, <2>1 DEF Closing, MergeTarget, Block, Top
    <2>3. SpongeTracksProgram'
      BY <1>1, <1>7, <2>1, <2>2 DEF SpongeTracksProgram, Merging, Merged
    <2> QED BY <1>4, <2>1, <2>3, HashParts, ContextKept
  <1>9. CASE ~ (k + 1 < HaccRounds) /\ calls = << >>
    <2>1. k' = 0 /\ pc' = "finalize" /\ UNCHANGED calls /\ k + 1 = HaccRounds
      BY <1>1, <1>2, <1>3, <1>9 DEF MergeRound
    <2>2. Closing' = Closing /\ MergeTarget' = MergeTarget
      BY <1>1, <1>9, <2>1 DEF Closing, MergeTarget
    <2>3. SpongeTracksProgram'
      BY <1>7, <2>1, <2>2 DEF SpongeTracksProgram, Merging, Merged
    <2> QED BY <1>4, <2>1, <2>3, HashParts, ContextKept
  <1>10. CASE ~ (k + 1 < HaccRounds) /\ calls # << >>
    <2>1. /\ k' = 0 /\ calls' = [calls EXCEPT ![Len(calls)].at = @ + 1]
          /\ pc' = Continue(Top, Top.at) /\ k + 1 = HaccRounds
      BY <1>1, <1>2, <1>3, <1>10 DEF MergeRound
    <2>2. /\ Top.at \in 2..Len(Body(Top)) /\ Block.kind # "span" /\ Top \in Frames
          /\ Matches(Top) /\ Block = Body(Top)[Top.at] /\ Len(Body(Top)) \in Nat
      BY <1>1, <1>10, HashParts DEF AtPlace, Block
    <2>3. Top.at \in 1..Len(Body(Top))
      BY <2>2
    <2>4. /\ pc' \in {"block", "test", "tail"} /\ Len(calls') = Len(calls)
          /\ Top'.block = Top.block /\ Top'.part = Top.part /\ Top'.at = Top.at + 1
          /\ \A i \in 1..(Len(calls) - 1) : calls'[i] = calls[i]
      BY <1>1, <1>2, <1>10, <2>1, <2>3, AdvanceControl
    <2>5. lanes = <<Suspended(Top), BlockHash(Block)[1], BlockHash(Block)[2]>>
      BY <1>10 DEF MergeTarget, Closing
    <2>6. sponge' = HashAcc(Suspended(Top), BlockHash(Block)[1], BlockHash(Block)[2])
      <3> HIDE DEF lanes
      <3> QED BY <1>7, <2>1, <2>5, HashAccIsMerged
    <2>7. sponge' = Absorbed(Top, Top.at)
      BY <2>2, <2>6, BlockFinished
    <2>8. sponge' = Absorbed(Top', Top'.at - 1)
      <3>1. Top'.at - 1 = Top.at
        BY <2>3, <2>4
      <3> QED BY <2>4, <2>7, <3>1, SameFrame
    <2>9. SpongeTracksProgram'
      BY <2>4, <2>8 DEF SpongeTracksProgram
    <2> QED BY <1>4, <2>4, <2>9, HashParts, ContextKept
  <1> QED BY <1>8, <1>9, <1>10

LEMMA FinalizeHash ==
  ASSUME HashLayer, FinalizeTrace
  PROVE  SpongeTracksProgram' /\ ContextIsSuspendedHashes'
  <1>1. /\ pc = "finalize" /\ pc' = "done"
        /\ UNCHANGED <<root, calls, k, sponge, ctxStack, ctxDepth>>
    BY DEF FinalizeTrace, FinalizeDecoder
  <1>2. calls = << >>
    BY <1>1, HashParts DEF AtPlace
  <1>3. Closing' = Closing /\ MergeTarget' = MergeTarget
    BY <1>1, <1>2 DEF Closing, MergeTarget
  <1>4. SpongeTracksProgram'
    BY <1>1, <1>3, HashParts DEF SpongeTracksProgram, Merging
  <1> QED BY <1>1, <1>4, HashParts, ContextKept

LEMMA UnchangedHash ==
  ASSUME HashLayer, UNCHANGED <<decoderVars, root, calls, pc, k>>
  PROVE  SpongeTracksProgram' /\ ContextIsSuspendedHashes'
  <1>1. /\ sponge' = sponge /\ ctxStack' = ctxStack /\ ctxDepth' = ctxDepth
        /\ root' = root /\ calls' = calls /\ pc' = pc /\ k' = k
    BY DEF decoderVars
  <1>2. Top' = Top /\ Block' = Block
    BY <1>1 DEF Top, Block
  <1>3. Closing' = Closing /\ MergeTarget' = MergeTarget
    BY <1>1, <1>2 DEF Closing, MergeTarget
  <1>4. SpongeTracksProgram'
    BY <1>1, <1>2, <1>3, HashParts DEF SpongeTracksProgram, Merging
  <1> QED BY <1>1, <1>4, HashParts, ContextKept

LEMMA InitHash == ASSUME ProcessorInit PROVE HashLayer
  <1>1. ControlLayer
    BY InitControl
  <1>2. /\ calls = <<Frame(Group(root), "group")>> /\ pc = "span" /\ k = 0
        /\ sponge = ZeroSponge /\ ctxStack = <<ZeroDigest>> /\ ctxDepth = 1
    BY DEF ProcessorInit, DecoderInit
  <1>3. Control /\ AtPlace /\ calls # << >>
    BY <1>1, <1>2, LayerParts
  <1>4. Len(calls) = 1 /\ Top = Frame(Group(root), "group")
    BY <1>2 DEF Top
  <1>5. /\ Top \in Frames /\ Matches(Top) /\ Top.at \in 1..Len(Body(Top))
        /\ Block = Body(Top)[Top.at]
    BY <1>2, <1>3, TopFacts DEF Control, AtPlace, Block
  <1>6. SpanStart(Top) = ZeroSponge
    BY <1>4 DEF SpanStart, Base, Frame
  <1>7. sponge = AbsorbCode(SpanStart(Top), Block.code, 0)
    BY <1>2, <1>5, <1>6, SpanStarts
  <1>8. SpongeTracksProgram
    BY <1>2, <1>7 DEF SpongeTracksProgram
  <1>9. ContextIsSuspendedHashes
    <2>1. Len(ctxStack) = 1 /\ ctxStack[1] = ZeroDigest
      BY <1>2
    <2> QED BY <1>2, <1>4, <2>1 DEF ContextIsSuspendedHashes
  <1> QED BY <1>1, <1>8, <1>9 DEF HashLayer

LEMMA NextHash == ASSUME HashLayer, [Next]_vars PROVE HashLayer'
  <1>1. ControlLayer'
    BY HashParts, NextControl
  <1>2. ASSUME UNCHANGED <<decoderVars, root, calls, pc, k>>
        PROVE  SpongeTracksProgram' /\ ContextIsSuspendedHashes'
    BY <1>2, UnchangedHash
  <1>3. ASSUME Step PROVE SpongeTracksProgram' /\ ContextIsSuspendedHashes'
    BY <1>2, <1>3, SpanOpHash, PadSpanHash, StartGroupHash, StartSwitchHash, SkipLoopHash,
       EnterLoopHash, RepeatLoopHash, ExitLoopHash, CompleteCycleHash, CloseBlockHash,
       MergeRoundHash, FinalizeHash DEF Step, Panic
  <1> QED BY <1>1, <1>2, <1>3 DEF Next, vars, HashLayer

LEMMA AlwaysHash == Spec => []HashLayer
  <1>1. ProcessorInit => HashLayer
    BY InitHash
  <1>2. HashLayer /\ [Next]_vars => HashLayer'
    BY NextHash
  <1> QED BY <1>1, <1>2, PTL DEF Spec
-----------------------------------------------------------------------------
(* Whatever branches were taken and however often loops were repeated, the *)
(* sponge of the decoder holds the hash, computed from the tree, of the    *)
(* blocks finished in the innermost list.                                  *)
THEOREM SpongeIsHashOfTree == Spec => []SpongeTracksProgram
  <1>1. HashLayer => SpongeTracksProgram
    BY DEF HashLayer
  <1> QED BY <1>1, AlwaysHash, PTL

(* The context stack holds the hashes of the suspended blocks, and zeros.  *)
THEOREM ContextsAreKept == Spec => []ContextIsSuspendedHashes
  <1>1. HashLayer => ContextIsSuspendedHashes
    BY DEF HashLayer
  <1> QED BY <1>1, AlwaysHash, PTL

(* the sponge a program ends with *)
LEMMA FinalSponge ==
  ASSUME HashLayer, pc = "done"
  PROVE  sponge = HashAcc(ZeroDigest, HashSeq(root), ZeroDigest)
  <1>1. calls = << >>
    BY HashParts DEF AtPlace
  <1> DEFINE v == BlockHash(Group(root))
  <1>2. sponge = Merged(<<ZeroDigest, v[1], v[2]>>, HaccRounds)
    BY <1>1, HashParts DEF SpongeTracksProgram, Merging, Merged, Closing, MergeTarget
  <1>3. v = <<HashSeq(root), ZeroDigest>>
    BY DEF BlockHash, Group
  <1> HIDE DEF v
  <1> QED BY <1>2, <1>3, HashAccIsMerged

(* The trace of a program hashes to the hash of the program: the assertion *)
(* of execute in lib.rs never fails.                                       *)
THEOREM TraceHashesToProgram == Spec => []ProgramHashMatches
  <1>1. HashLayer => ProgramHashMatches
    BY FinalSponge DEF ProgramHashMatches, ProgramHash
  <1> QED BY <1>1, AlwaysHash, PTL
-----------------------------------------------------------------------------
(* The loop stack.  Its depth counts the frames that iterate a loop.       *)
Loops(c, n) == {i \in 1..n : c[i].part = "loop"}
Count(c, n) == Cardinality(Loops(c, n))

Images(c, s, d) ==
  /\ d = Count(c, Len(c)) /\ d <= Len(s)
  /\ \A i \in Loops(c, Len(c)) : s[d + 1 - Count(c, i)] = Image(c[i].block)

LEMMA ImagesAreActive == Images(calls, loopStack, loopDepth) <=> LoopStackIsActiveImages
  <1>1. \A n : LoopFrames(n) = Loops(calls, n)
    BY DEF LoopFrames, Loops
  <1> QED BY <1>1 DEF Images, LoopStackIsActiveImages, Count

LEMMA LoopsFinite ==
  ASSUME NEW c, NEW n \in Nat
  PROVE  IsFiniteSet(Loops(c, n)) /\ Count(c, n) \in Nat
  <1>1. IsFiniteSet(1..n)
    BY FS_Interval
  <1>2. Loops(c, n) \in SUBSET (1..n)
    BY DEF Loops
  <1>3. IsFiniteSet(Loops(c, n))
    BY <1>1, <1>2, FS_Subset
  <1> QED BY <1>3, FS_CardinalityType DEF Count

LEMMA CountNext ==
  ASSUME NEW c, NEW n \in Nat
  PROVE  Count(c, n + 1) = IF c[n + 1].part = "loop" THEN Count(c, n) + 1 ELSE Count(c, n)
  <1>1. IsFiniteSet(Loops(c, n)) /\ n + 1 \notin Loops(c, n)
    <2>1. n + 1 \notin Loops(c, n)
      BY DEF Loops
    <2> QED BY <2>1, LoopsFinite
  <1>2. CASE c[n + 1].part = "loop"
    <2>1. Loops(c, n + 1) = Loops(c, n) \cup {n + 1}
      BY <1>2 DEF Loops
    <2> QED BY <1>1, <1>2, <2>1, FS_AddElement DEF Count
  <1>3. CASE c[n + 1].part # "loop"
    <2>1. Loops(c, n + 1) = Loops(c, n)
      BY <1>3 DEF Loops
    <2> QED BY <1>3, <2>1 DEF Count
  <1> QED BY <1>2, <1>3

LEMMA CountBounds ==
  ASSUME NEW c, NEW n \in Nat, NEW i \in Loops(c, n)
  PROVE  Count(c, i) \in 1..Count(c, n) /\ i \in 1..n /\ Count(c, n) \in Nat
  <1>1. i \in 1..n /\ i \in Nat /\ i \in Loops(c, i)
    BY DEF Loops
  <1>2. IsFiniteSet(Loops(c, n)) /\ IsFiniteSet(Loops(c, i))
        /\ Count(c, n) \in Nat /\ Count(c, i) \in Nat
    BY <1>1, LoopsFinite
  <1>3. Count(c, i) # 0
    <2>1. Loops(c, i) # {}
      BY <1>1
    <2> QED BY <1>2, <2>1, FS_EmptySet DEF Count
  <1>4. Count(c, i) <= Count(c, n)
    <2>1. Loops(c, i) \in SUBSET Loops(c, n)
      BY <1>1 DEF Loops
    <2> QED BY <1>2, <2>1, FS_Subset DEF Count
  <1> QED BY <1>1, <1>2, <1>3, <1>4

LEMMA CountSame ==
  ASSUME NEW c, NEW d, NEW n \in Nat, \A i \in 1..n : d[i].part = c[i].part
  PROVE  Loops(d, n) = Loops(c, n) /\ \A i \in 0..n : Count(d, i) = Count(c, i)
  <1>1. \A i \in 0..n : Loops(d, i) = Loops(c, i)
    BY DEF Loops
  <1> QED BY <1>1 DEF Count

(* the frames change, but not which of them iterate which loop *)
LEMMA ImagesKept ==
  ASSUME NEW c, NEW d, NEW s, NEW m, Images(c, s, m), Len(c) \in Nat, Len(d) = Len(c),
         \A i \in 1..Len(c) : d[i].part = c[i].part /\ d[i].block = c[i].block
  PROVE  Images(d, s, m)
  <1>1. Loops(d, Len(c)) = Loops(c, Len(c))
        /\ \A i \in 0..Len(c) : Count(d, i) = Count(c, i)
    BY CountSame
  <1>2. \A i \in Loops(c, Len(c)) : i \in 1..Len(c)
    BY DEF Loops
  <1>3. \A i \in Loops(c, Len(c)) :
          i \in 0..Len(c) /\ d[i].block = c[i].block
    BY <1>2
  <1>4. Len(c) \in 0..Len(c)
    OBVIOUS
  <1> QED BY <1>1, <1>3, <1>4 DEF Images

(* a block that is not an iteration is entered *)
LEMMA ImagesEntered ==
  ASSUME NEW c, NEW d, NEW s, NEW m, Images(c, s, m), Len(c) \in Nat, Len(d) = Len(c) + 1,
         \A i \in 1..Len(c) : d[i] = c[i], d[Len(c) + 1].part # "loop"
  PROVE  Images(d, s, m)
  <1> DEFINE n == Len(c)
  <1>1. Loops(d, n) = Loops(c, n) /\ \A i \in 0..n : Count(d, i) = Count(c, i)
    BY CountSame
  <1>2. Count(d, n + 1) = Count(c, n) /\ Loops(d, n + 1) = Loops(c, n)
    <2>1. n \in 0..n
      OBVIOUS
    <2>2. Loops(d, n + 1) = Loops(d, n)
      BY DEF Loops
    <2> QED BY <1>1, <2>1, <2>2, CountNext
  <1>3. \A i \in Loops(c, n) : i \in 0..n /\ d[i] = c[i]
    BY DEF Loops
  <1> QED BY <1>1, <1>2, <1>3 DEF Images

(* a block that is not an iteration is left *)
LEMMA ImagesLeft ==
  ASSUME NEW c, NEW d, NEW s, NEW m, Images(c, s, m), Len(c) \in Nat \ {0},
         Len(d) = Len(c) - 1, \A i \in 1..(Len(c) - 1) : d[i] = c[i],
         c[Len(c)].part # "loop"
  PROVE  Images(d, s, m)
  <1> DEFINE n == Len(c) - 1
  <1>0. n \in Nat /\ Len(c) = n + 1 /\ Len(d) = n
    OBVIOUS
  <1>1. Loops(d, n) = Loops(c, n) /\ \A i \in 0..n : Count(d, i) = Count(c, i)
    BY <1>0, CountSame
  <1> HIDE DEF n
  <1>2. Count(c, n + 1) = Count(d, n) /\ Loops(c, n + 1) = Loops(d, n)
    <2>1. n \in 0..n
      BY <1>0
    <2>2. Loops(c, n + 1) = Loops(c, n)
      BY <1>0 DEF Loops
    <2> QED BY <1>0, <1>1, <2>1, <2>2, CountNext
  <1>3. \A i \in Loops(c, n) : i \in 0..n /\ d[i] = c[i]
    BY <1>0 DEF Loops, n
  <1> QED BY <1>0, <1>1, <1>2, <1>3 DEF Images

(* an iteration is entered: its image goes on top *)
LEMMA ImagesPushed ==
  ASSUME NEW c, NEW d, NEW s, NEW m, Images(c, s, m), IsSequence(s),
         Len(c) \in Nat, Len(d) = Len(c) + 1,
         \A i \in 1..Len(c) : d[i] = c[i], d[Len(c) + 1].part = "loop",
         NEW t, t = Pushed(s, m, Image(d[Len(c) + 1].block))
  PROVE  Images(d, t, m + 1)
  <1> DEFINE n == Len(c)
  <1> DEFINE top == Image(d[n + 1].block)
  <1>1. Loops(d, n) = Loops(c, n) /\ \A i \in 0..n : Count(d, i) = Count(c, i)
    BY CountSame
  <1>2. m = Count(c, n) /\ m \in Nat /\ m <= Len(s)
    BY LoopsFinite DEF Images
  <1>3. Count(d, n + 1) = m + 1
    <2>1. n \in 0..n
      OBVIOUS
    <2> QED BY <1>1, <1>2, <2>1, CountNext
  <1>4. /\ Len(t) = (IF m + 1 > Len(s) THEN Len(s) + 1 ELSE Len(s)) /\ Len(s) \in Nat
        /\ \A j \in 1..Len(t) : t[j] = IF j = 1 THEN top ELSE s[j - 1]
    <2> HIDE DEF top
    <2> QED BY <1>2, PushedFacts DEF top
  <1>5. m + 1 <= Len(t)
    BY <1>2, <1>4
  <1>6. ASSUME NEW i \in Loops(d, n + 1)
        PROVE  t[(m + 1) + 1 - Count(d, i)] = Image(d[i].block)
    <2>1. CASE i = n + 1
      <3>1. (m + 1) + 1 - Count(d, i) = 1 /\ 1 \in 1..Len(t)
        BY <1>2, <1>3, <1>4, <1>5, <2>1
      <3> QED BY <1>4, <2>1, <3>1
    <2>2. CASE i # n + 1
      <3>1. i \in Loops(c, n) /\ i \in 0..n /\ d[i] = c[i]
        BY <1>1, <2>2 DEF Loops
      <3>2. Count(c, i) \in 1..m /\ Count(d, i) = Count(c, i)
        BY <1>1, <1>2, <3>1, CountBounds
      <3> DEFINE j == (m + 1) + 1 - Count(d, i)
      <3>3. j \in 1..Len(t) /\ j # 1 /\ j - 1 = m + 1 - Count(c, i)
        <4> HIDE DEF n
        <4> QED BY <1>2, <1>4, <1>5, <3>2
      <3>4. s[m + 1 - Count(c, i)] = Image(c[i].block)
        BY <3>1 DEF Images
      <3> HIDE DEF j
      <3>5. t[j] = s[j - 1]
        BY <1>4, <3>3
      <3> QED BY <3>1, <3>3, <3>4, <3>5 DEF j
    <2> QED BY <2>1, <2>2
  <1> QED BY <1>3, <1>5, <1>6 DEF Images

(* an iteration is left for the skip block: its image is taken off *)
LEMMA ImagesPopped ==
  ASSUME NEW c, NEW d, NEW s, NEW m, Images(c, s, m), IsSequence(s),
         Len(c) \in Nat \ {0}, Len(d) = Len(c),
         \A i \in 1..(Len(c) - 1) : d[i] = c[i],
         c[Len(c)].part = "loop", d[Len(c)].part # "loop",
         NEW t, t = Popped(s)
  PROVE  Images(d, t, m - 1) /\ m # 0
  <1> DEFINE n == Len(c) - 1
  <1>0. n \in Nat /\ Len(c) = n + 1 /\ Len(d) = n + 1
    OBVIOUS
  <1>1. Loops(d, n) = Loops(c, n) /\ \A i \in 0..n : Count(d, i) = Count(c, i)
    BY <1>0, CountSame
  <1>a. \A i \in 1..n : d[i] = c[i]
    OBVIOUS
  <1> HIDE DEF n
  <1>2. m = Count(c, n + 1) /\ Count(c, n) \in Nat /\ m <= Len(s)
    BY <1>0, LoopsFinite DEF Images
  <1>3. m = Count(c, n) + 1 /\ Count(d, n + 1) = Count(c, n)
    <2>1. n \in 0..n
      BY <1>0
    <2> QED BY <1>0, <1>1, <1>2, <2>1, CountNext
  <1>4. /\ Len(t) = Len(s) /\ Len(s) \in Nat
        /\ \A j \in 1..Len(s) : t[j] = IF j < Len(s) THEN s[j + 1] ELSE ZeroDigest
    BY PoppedFacts
  <1>5. m - 1 <= Len(t) /\ m - 1 = Count(d, n + 1)
    BY <1>2, <1>3, <1>4
  <1>6. ASSUME NEW i \in Loops(d, n + 1)
        PROVE  t[(m - 1) + 1 - Count(d, i)] = Image(d[i].block)
    <2>1. i \in 1..n /\ i \in Loops(c, n) /\ i \in Loops(c, n + 1)
      BY <1>0, <1>1 DEF Loops
    <2>2. Count(c, i) \in 1..Count(c, n) /\ i \in 0..n /\ d[i] = c[i]
      BY <1>0, <1>a, <2>1, CountBounds
    <2>3. Count(d, i) = Count(c, i)
      BY <1>1, <2>2
    <2> DEFINE j == (m - 1) + 1 - Count(d, i)
    <2>4. j \in 1..Len(s) /\ j < Len(s) /\ j + 1 = m + 1 - Count(c, i)
      BY <1>2, <1>3, <1>4, <2>2, <2>3
    <2>5. s[m + 1 - Count(c, i)] = Image(c[i].block)
      BY <1>0, <2>1 DEF Images
    <2> HIDE DEF j
    <2>6. t[j] = s[j + 1]
      BY <1>4, <2>4
    <2> QED BY <2>2, <2>4, <2>5, <2>6 DEF j
  <1> QED BY <1>0, <1>2, <1>3, <1>5, <1>6 DEF Images
-----------------------------------------------------------------------------
(* The third layer rests on the first alone.                               *)
LoopLayer == ControlLayer /\ LoopStackIsActiveImages

LEMMA LoopParts ==
  ASSUME LoopLayer
  PROVE  /\ ControlLayer /\ Control /\ AtPlace /\ IsSequence(loopStack)
         /\ Images(calls, loopStack, loopDepth) /\ Len(calls) \in Nat
         /\ calls # << >> => /\ Len(calls) \in Nat \ {0} /\ Top.part \in Parts
                             /\ Matches(Top)
  <1>1. ControlLayer /\ Control /\ AtPlace /\ DecoderTypeOK
    BY LayerParts DEF LoopLayer
  <1> QED BY <1>1, ImagesAreActive, TopFacts DEF LoopLayer, DecoderTypeOK, Control

LEMMA ImagesNext ==
  ASSUME Images(calls', loopStack', loopDepth')
  PROVE  LoopStackIsActiveImages'
  <1>1. \A n : (LoopFrames(n))' = Loops(calls', n)
    BY DEF LoopFrames, Loops
  <1> QED BY <1>1 DEF Images, LoopStackIsActiveImages, Count

LEMMA AdvanceLoops ==
  ASSUME LoopLayer, calls # << >>, UNCHANGED <<root, loopStack, loopDepth>>,
         calls' = [calls EXCEPT ![Len(calls)].at = @ + 1],
         Top.at \in 1..Len(Body(Top)), pc' = Continue(Top, Top.at)
  PROVE  LoopStackIsActiveImages'
  <1>1. /\ Len(calls') = Len(calls) /\ Top'.block = Top.block /\ Top'.part = Top.part
        /\ \A i \in 1..(Len(calls) - 1) : calls'[i] = calls[i]
    BY LoopParts, AdvanceControl
  <1>2. Len(calls) \in Nat \ {0}
    BY LoopParts
  <1>3. \A i \in 1..Len(calls) :
          calls'[i].part = calls[i].part /\ calls'[i].block = calls[i].block
    BY <1>1, <1>2 DEF Top
  <1>4. Images(calls', loopStack', loopDepth')
    BY <1>1, <1>2, <1>3, LoopParts, ImagesKept
  <1> QED BY <1>4, ImagesNext

LEMMA SameLoops ==
  ASSUME LoopLayer, UNCHANGED <<calls, loopStack, loopDepth>>
  PROVE  LoopStackIsActiveImages'
  BY LoopParts, ImagesNext

LEMMA SpanOpLoops ==
  ASSUME LoopLayer, SpanOp
  PROVE  LoopStackIsActiveImages'
  <1>1. UNCHANGED <<root, loopStack, loopDepth>> /\ pc = "span"
    BY DEF SpanOp, DecodeOp, CopyLoopStack
  <1>2. calls # << >> /\ Top.at \in 1..Len(Body(Top))
    BY <1>1, LoopParts DEF AtPlace
  <1>3. CASE k + 1 < Len(Block.code)
    BY <1>1, <1>3, SameLoops DEF SpanOp
  <1>4. CASE ~ (k + 1 < Len(Block.code))
    BY <1>1, <1>2, <1>4, AdvanceLoops DEF SpanOp
  <1> QED BY <1>3, <1>4

LEMMA MergeRoundLoops ==
  ASSUME LoopLayer, MergeRound
  PROVE  LoopStackIsActiveImages'
  <1>1. UNCHANGED <<root, loopStack, loopDepth>> /\ pc = "hacc"
    BY DEF MergeRound, UserNoop, DecodeOp, CopyLoopStack
  <1>2. CASE k + 1 < HaccRounds \/ calls = << >>
    BY <1>1, <1>2, SameLoops DEF MergeRound
  <1>3. CASE ~ (k + 1 < HaccRounds) /\ calls # << >>
    <2>1. Top.at \in 2..Len(Body(Top)) /\ Len(Body(Top)) \in Nat
      BY <1>1, <1>3, LoopParts, TopFacts DEF AtPlace, Control
    <2>2. Top.at \in 1..Len(Body(Top))
      BY <2>1
    <2> QED BY <1>1, <1>3, <2>2, AdvanceLoops DEF MergeRound
  <1> QED BY <1>2, <1>3

LEMMA EnterLoops ==
  ASSUME LoopLayer, pc = "block", UNCHANGED <<root, loopStack, loopDepth>>,
         NEW part \in Parts \ {"loop"}, Enter(part), Matches(Frame(Block, part))
  PROVE  LoopStackIsActiveImages'
  <1>1. calls # << >> /\ Top.at \in 2..Len(Body(Top)) /\ Len(calls) \in Nat
    BY LoopParts DEF AtPlace
  <1>2. /\ Len(calls') = Len(calls) + 1 /\ Top' = Frame(Block, part)
        /\ \A i \in 1..Len(calls) : calls'[i] = calls[i]
    BY <1>1, LoopParts, EnterControl
  <1>3. calls'[Len(calls) + 1].part # "loop"
    BY <1>2 DEF Top, Frame
  <1>4. Images(calls', loopStack', loopDepth')
    BY <1>1, <1>2, <1>3, LoopParts, ImagesEntered
  <1> QED BY <1>4, ImagesNext

LEMMA StartLoops ==
  ASSUME LoopLayer, StartGroup \/ StartSwitch \/ SkipLoop
  PROVE  LoopStackIsActiveImages'
  <1>1. UNCHANGED <<root, loopStack, loopDepth>> /\ pc = "block"
    BY DEF StartGroup, StartSwitch, SkipLoop, StartBlock, CopyLoopStack
  <1>2. CASE StartGroup
    <2>1. Enter("group") /\ Matches(Frame(Block, "group")) /\ "group" \in Parts \ {"loop"}
      BY <1>2 DEF StartGroup, Matches, Frame, Parts
    <2> QED BY <1>1, <2>1, EnterLoops
  <1>3. CASE StartSwitch
    <2> DEFINE part == IF StackTop = 1 THEN "true" ELSE "false"
    <2>1. Enter(part) /\ Matches(Frame(Block, part)) /\ part \in Parts \ {"loop"}
      BY <1>3 DEF StartSwitch, Matches, Frame, Parts
    <2> HIDE DEF part
    <2> QED BY <1>1, <2>1, EnterLoops
  <1>4. CASE SkipLoop
    <2>1. Enter("skip") /\ Matches(Frame(Block, "skip")) /\ "skip" \in Parts \ {"loop"}
      BY <1>4 DEF SkipLoop, Matches, Frame, Parts
    <2> QED BY <1>1, <2>1, EnterLoops
  <1> QED BY <1>2, <1>3, <1>4

LEMMA EnterLoopLoops ==
  ASSUME LoopLayer, EnterLoop
  PROVE  LoopStackIsActiveImages'
  <1>1. /\ pc = "block" /\ Block.kind = "loop" /\ Enter("loop") /\ UNCHANGED root
        /\ loopStack' = Pushed(loopStack, loopDepth, Image(Block))
        /\ loopDepth' = loopDepth + 1
    BY DEF EnterLoop, StartLoop, SaveLoopImage
  <1>2. /\ calls # << >> /\ Top.at \in 2..Len(Body(Top)) /\ Len(calls) \in Nat
        /\ "loop" \in Parts /\ Matches(Frame(Block, "loop"))
    BY <1>1, LoopParts DEF AtPlace, Parts, Matches, Frame
  <1>3. /\ Len(calls') = Len(calls) + 1 /\ Top' = Frame(Block, "loop")
        /\ \A i \in 1..Len(calls) : calls'[i] = calls[i]
    BY <1>1, <1>2, LoopParts, EnterControl
  <1>4. calls'[Len(calls) + 1].part = "loop" /\ calls'[Len(calls) + 1].block = Block
    BY <1>3 DEF Top, Frame
  <1>5. Images(calls', loopStack', loopDepth')
    BY <1>1, <1>2, <1>3, <1>4, LoopParts, ImagesPushed
  <1> QED BY <1>5, ImagesNext

LEMMA RepeatLoopLoops ==
  ASSUME LoopLayer, RepeatLoop
  PROVE  LoopStackIsActiveImages'
  <1>1. /\ pc = "test" /\ UNCHANGED <<root, loopStack, loopDepth>>
        /\ calls' = Append(Outer, Frame(Top.block, "loop")) /\ pc' = "span" /\ k' = 0
    BY DEF RepeatLoop, WrapLoop, CopyLoopStack
  <1>2. calls # << >> /\ Top.part = "loop" /\ Len(calls) \in Nat \ {0}
    BY <1>1, LoopParts DEF AtPlace
  <1>3. /\ Len(calls') = Len(calls) /\ Top' = Frame(Top.block, "loop")
        /\ \A i \in 1..(Len(calls) - 1) : calls'[i] = calls[i]
    BY <1>1, <1>2, LoopParts, ReenterControl
  <1>4. \A i \in 1..Len(calls) :
          calls'[i].part = calls[i].part /\ calls'[i].block = calls[i].block
    BY <1>2, <1>3 DEF Top, Frame
  <1>5. Images(calls', loopStack', loopDepth')
    BY <1>1, <1>2, <1>3, <1>4, LoopParts, ImagesKept
  <1> QED BY <1>5, ImagesNext

LEMMA ExitLoopLoops ==
  ASSUME LoopLayer, ExitLoop
  PROVE  LoopStackIsActiveImages'
  <1>1. /\ pc = "test" /\ UNCHANGED root
        /\ loopStack' = Popped(loopStack) /\ loopDepth' = loopDepth - 1
        /\ calls' = Append(Outer, Frame(Top.block, "exit")) /\ pc' = "span" /\ k' = 0
    BY DEF ExitLoop, BreakLoop, PopLoopImage
  <1>2. calls # << >> /\ Top.part = "loop" /\ Len(calls) \in Nat \ {0}
    BY <1>1, LoopParts DEF AtPlace
  <1>3. /\ Len(calls') = Len(calls) /\ Top' = Frame(Top.block, "exit")
        /\ \A i \in 1..(Len(calls) - 1) : calls'[i] = calls[i]
    BY <1>1, <1>2, LoopParts, ReenterControl
  <1>4. calls[Len(calls)].part = "loop" /\ calls'[Len(calls)].part # "loop"
    BY <1>2, <1>3 DEF Top, Frame
  <1>5. Images(calls', loopStack', loopDepth')
    BY <1>1, <1>2, <1>3, <1>4, LoopParts, ImagesPopped
  <1> QED BY <1>5, ImagesNext

LEMMA CloseBlockLoops ==
  ASSUME LoopLayer, CloseBlock
  PROVE  LoopStackIsActiveImages'
  <1>1. /\ pc = "end" /\ UNCHANGED <<root, loopStack, loopDepth>>
        /\ calls' = Outer /\ pc' = "hacc" /\ k' = 0
    BY DEF CloseBlock, EndBlock, CopyLoopStack
  <1>2. calls # << >> /\ calls[Len(calls)].part # "loop" /\ Len(calls) \in Nat \ {0}
    BY <1>1, LoopParts DEF AtPlace, Top
  <1>3. /\ Len(calls') = Len(calls) - 1
        /\ \A i \in 1..(Len(calls) - 1) : calls'[i] = calls[i]
    BY <1>1, <1>2, LoopParts, CloseControl
  <1>4. Images(calls', loopStack', loopDepth')
    BY <1>1, <1>2, <1>3, LoopParts, ImagesLeft
  <1> QED BY <1>4, ImagesNext

LEMMA InitLoops == ASSUME ProcessorInit PROVE LoopLayer
  <1>1. ControlLayer
    BY InitControl
  <1>2. /\ calls = <<Frame(Group(root), "group")>> /\ loopStack = << >> /\ loopDepth = 0
    BY DEF ProcessorInit, DecoderInit
  <1>3. Len(calls) = 1 /\ calls[1].part = "group" /\ Len(loopStack) = 0
    BY <1>2 DEF Frame
  <1>4. Loops(calls, 1) = {}
    BY <1>3 DEF Loops
  <1>5. Count(calls, 1) = 0
    BY <1>4, FS_EmptySet DEF Count
  <1>6. Images(calls, loopStack, loopDepth)
    BY <1>2, <1>3, <1>4, <1>5 DEF Images
  <1> QED BY <1>1, <1>6, ImagesAreActive DEF LoopLayer

LEMMA NextLoops == ASSUME LoopLayer, [Next]_vars PROVE LoopLayer'
  <1>1. ControlLayer'
    BY LoopParts, NextControl
  <1>2. ASSUME UNCHANGED <<decoderVars, calls>> PROVE LoopStackIsActiveImages'
    BY <1>2, SameLoops DEF decoderVars
  <1>3. ASSUME PadSpan \/ CompleteCycle \/ FinalizeTrace PROVE LoopStackIsActiveImages'
    BY <1>3, SameLoops
    DEF PadSpan, CompleteCycle, FinalizeTrace, UserNoop, DecodeOp, CopyLoopStack,
        FinalizeDecoder
  <1>4. ASSUME Step PROVE LoopStackIsActiveImages'
    BY <1>2, <1>3, <1>4, SpanOpLoops, StartLoops, EnterLoopLoops, RepeatLoopLoops,
       ExitLoopLoops, CloseBlockLoops, MergeRoundLoops DEF Step, Panic
  <1> QED BY <1>1, <1>2, <1>4 DEF Next, vars, LoopLayer

LEMMA AlwaysLoops == Spec => []LoopLayer
  <1>1. ProcessorInit => LoopLayer
    BY InitLoops
  <1>2. LoopLayer /\ [Next]_vars => LoopLayer'
    BY NextLoops
  <1> QED BY <1>1, <1>2, PTL DEF Spec

(* The loop stack holds the images of the loops being iterated, innermost  *)
(* first, whatever other blocks are open between them.                     *)
THEOREM LoopImagesAreKept == Spec => []LoopStackIsActiveImages
  <1>1. LoopLayer => LoopStackIsActiveImages
    BY DEF LoopLayer
  <1> QED BY <1>1, AlwaysLoops, PTL
-----------------------------------------------------------------------------
(* PUSH is aligned in its span, so it is aligned in the trace. *)
LEMMA SpanAccepted ==
  ASSUME HashLayer, pc = "span"
  PROVE  PendingFault \notin {"alignment", "push alignment", "op value",
                              "context underflow", "loop underflow", "loop image"}
  <1> DEFINE instr == Block.code[k + 1]
  <1> DEFINE f == DecodeOpFault(instr.op, HintValue(instr.hint))
  <1>1. /\ step \in Nat /\ k \in Nat /\ step % CycleLength = k % CycleLength
        /\ instr.op = "push" => k % PushAlignment = 0
        /\ instr.hint.kind = "value" => instr.op = "push"
    BY CurrentInstr, HashParts DEF PlaceInCycle
  <1>2. PushAlignment \in Nat \ {0} /\ CycleLength % PushAlignment = 0
    BY AlignmentAssumption
  <1>3. instr.op = "push" => step % PushAlignment = 0
    <2> SUFFICES ASSUME instr.op = "push"
                 PROVE  step % PushAlignment = 0
      OBVIOUS
    <2>1. k % PushAlignment = 0 /\ CycleLength \in Nat \ {0}
      BY <1>1, CycleFacts
    <2> HIDE DEF instr
    <2> QED BY <1>1, <1>2, <2>1, ModDivides
  <1>4. f = "none"
    BY <1>1, <1>3 DEF DecodeOpFault, HintValue
  <1>5. StackFault(instr.op, instr.hint) \in
          {"none", "stack underflow", "stack overflow", "hint", "empty tape", "value"}
    BY DEF StackFault
  <1>6. PendingFault = IF f # "none" THEN f ELSE StackFault(instr.op, instr.hint)
    BY DEF PendingFault
  <1> QED BY <1>4, <1>5, <1>6

LEMMA TestAccepted ==
  ASSUME HashLayer, LoopLayer, pc = "test"
  PROVE  IterationFault = "none"
  <1> DEFINE n == Len(calls)
  <1>1. /\ calls # << >> /\ Top.part = "loop" /\ Top.at = Len(Body(Top)) + 1
        /\ n \in Nat \ {0} /\ Len(Body(Top)) \in Nat \ {0} /\ step % CycleLength = CycleLength - 1
    BY HashParts DEF AtPlace, PlaceInCycle
  <1>2. n \in Loops(calls, n) /\ n \in 1..n
    BY <1>1 DEF Loops, Top
  <1>3. Images(calls, loopStack, loopDepth)
    BY LoopParts
  <1>4. loopDepth = Count(calls, n) /\ Count(calls, n) \in Nat \ {0}
    BY <1>1, <1>2, <1>3, CountBounds DEF Images
  <1>5. loopStack[1] = Image(Top.block)
    <2>1. loopStack[loopDepth + 1 - Count(calls, n)] = Image(calls[n].block)
      BY <1>2, <1>3 DEF Images
    <2>2. loopDepth + 1 - Count(calls, n) = 1
      BY <1>4
    <2> QED BY <2>1, <2>2 DEF Top
  <1>6. sponge = Absorbed(Top, Top.at - 1)
    BY HashParts DEF SpongeTracksProgram
  <1>7. Top.at - 1 = Len(Body(Top)) /\ Body(Top) = Top.block.body
    BY <1>1 DEF Body
  <1>8. sponge = PrefixState[Top.block.body][Len(Top.block.body)]
    BY <1>1, <1>6, <1>7 DEF Absorbed
  <1> QED BY <1>1, <1>4, <1>5, <1>8 DEF IterationFault, AtCycleStep, Image

(* The decoder's own bookkeeping never fails: the only assertions of it    *)
(* that a program can meet are the limits on nesting.                      *)
THEOREM DecoderNeverRejects == Spec => []DecoderAccepts
  <1>1. HashLayer /\ LoopLayer => DecoderAccepts
    <2> SUFFICES ASSUME HashLayer, LoopLayer
                 PROVE  DecoderAccepts
      OBVIOUS
    <2>1. CASE pc = "span"
      BY <2>1, SpanAccepted DEF DecoderAccepts
    <2>2. CASE pc = "block"
      <3>1. AtCycleStep(CycleLength - 1)
        BY <2>2, HashParts DEF AtCycleStep, PlaceInCycle
      <3> QED BY <2>2, <3>1 DEF DecoderAccepts, PendingFault, StartBlockFault, StartLoopFault
    <2>3. CASE pc = "test"
      BY <2>3, TestAccepted DEF DecoderAccepts, PendingFault
    <2>4. CASE pc = "end"
      <3>1. AtCycleStep(0) /\ calls # << >>
        BY <2>4, HashParts DEF AtCycleStep, PlaceInCycle, AtPlace
      <3>2. ctxDepth # 0
        BY <3>1, HashParts DEF ContextIsSuspendedHashes
      <3> QED BY <2>4, <3>1, <3>2 DEF DecoderAccepts, PendingFault, EndBlockFault
    <2>5. CASE pc \notin {"span", "block", "test", "end"}
      BY <2>5 DEF DecoderAccepts, PendingFault
    <2> QED BY <2>1, <2>2, <2>3, <2>4, <2>5
  <1> QED BY <1>1, AlwaysHash, AlwaysLoops, PTL
-----------------------------------------------------------------------------
(* The guards at the head of a branch.                                     *)
OnOne == {"true", "loop"}
OnZero == {"false", "skip", "exit"}

(* What the condition a branch was chosen by still says of the top of the  *)
(* stack when the instructions that guard the branch are executed.         *)
ConditionHolds ==
  pc = "span" /\ Top.at = 1 =>
    /\ k = 0 /\ Top.part \in OnOne => StackTop = 1
    /\ k = 0 /\ Top.part \in OnZero => StackTop = 0
    /\ k = 1 /\ Top.part \in OnZero => StackTop = 1 /\ depth # 0

GuardLayer == ControlLayer /\ ConditionHolds

(* the instructions at the head of each part, and that there are two *)
LEMMA HeadOfPart ==
  ASSUME NEW f \in Frames, Matches(f)
  PROVE  /\ 1 < Len(Body(f)[1].code)
         /\ f.part \in OnOne => Body(f)[1].code[1].op = "assert"
         /\ f.part \in OnZero => Body(f)[1].code[1].op = "not" /\ Body(f)[1].code[2].op = "assert"
  <1> DEFINE head == Body(f)[1]
  <1>1. f.block \in BlockSet /\ f.part \in Parts
    BY DEF Frames
  <1>2. Body(f) \in BlockLists /\ head.kind = "span" /\ 1 \in 1..Len(Body(f))
    BY BodyIsList, FirstIsSpan
  <1>3. 1 < Len(head.code)
    <2> DEFINE n == Len(head.code)
    <2>1. n \in Nat \ {0} /\ n % CycleLength = CycleLength - 1
      BY <1>2, SpanFacts
    <2>2. 1 % CycleLength = 1 /\ CycleLength \in Nat /\ CycleLength > 2
      BY CycleFacts
    <2> HIDE DEF n
    <2>3. n # 1
      BY <2>1, <2>2
    <2>4. 1 < n
      BY <2>1, <2>3
    <2> QED BY <2>4 DEF n
  <1>4. CASE f.part \in {"true", "false", "loop"}
    <2>1. f.block.kind \in {"switch", "loop"}
      BY <1>4 DEF Matches
    <2>2. PICK s \in BlockLists : \E j \in 1..Len(s) : f.block = s[j]
      BY <1>1, <2>1 DEF BlockSet, Group
    <2>3. ValidBlock(f.block)
      BY <2>2, ListFacts
    <2>4. /\ f.part = "true" => StartsWith(head.code, <<"assert">>)
          /\ f.part = "false" => StartsWith(head.code, <<"not", "assert">>)
          /\ f.part = "loop" => StartsWith(head.code, <<"assert">>)
      BY <2>3, <1>4 DEF ValidBlock, ValidBlockList, Matches, Body
    <2>5. 1 \in 1..Len(<<"assert">>) /\ {1, 2} \subseteq 1..Len(<<"not", "assert">>)
      OBVIOUS
    <2>6. /\ f.part \in OnOne => head.code[1].op = <<"assert">>[1]
          /\ f.part \in OnZero => /\ head.code[1].op = <<"not", "assert">>[1]
                                  /\ head.code[2].op = <<"not", "assert">>[2]
      BY <1>4, <2>4, <2>5 DEF StartsWith, OnOne, OnZero
    <2> QED BY <1>3, <2>6
  <1>5. CASE f.part \in {"skip", "exit"}
    <2>1. Body(f) = <<LoopSkipBlock>>
      BY <1>1, <1>5, BodyIsList, SkipOfLoop DEF Matches
    <2>2. head = LoopSkipBlock
      BY <2>1, SkipFacts
    <2>3. 1 \in 1..(CycleLength - 1) /\ 2 \in 1..(CycleLength - 1)
      BY CycleFacts
    <2>4. LoopSkipBlock.code[1].op = "not" /\ LoopSkipBlock.code[2].op = "assert"
      BY <2>3 DEF LoopSkipBlock, Span, Instr
    <2> QED BY <1>3, <1>5, <2>2, <2>4 DEF OnOne
  <1>6. CASE f.part = "group"
    BY <1>3, <1>6 DEF OnOne, OnZero
  <1> QED BY <1>1, <1>4, <1>5, <1>6 DEF Parts

(* a NOOP leaves the row of registers as it is *)
LEMMA NoopKeepsRow ==
  ASSUME StackOK, FlowNoop
  PROVE  regs' = regs /\ depth' = depth
  <1>1. CopyState(<<>>)
    BY DEF FlowNoop, Execute, Perform, OpNoop
  <1>2. /\ regs' = [j \in Slots |-> IF j < 0 THEN <<>>[j + 1]
                                    ELSE IF j < depth THEN regs[j] ELSE 0]
        /\ depth' = depth
    BY <1>1 DEF CopyState
  <1>3. regs \in [Slots -> Elements] /\ depth \in Nat /\ MaxStackDepth \in Nat
    BY StackAssumption DEF StackOK, StackTypeOK
  <1>4. \A j \in Slots : ~ (j < 0) /\ (j < depth \/ j >= depth)
    BY <1>3 DEF Slots
  <1>5. \A j \in Slots : regs'[j] = regs[j]
    BY <1>2, <1>4 DEF StackOK, FreeRegistersAreZero
  <1> QED BY <1>2, <1>3, <1>5

(* the guards of a branch are never refused *)
LEMMA GuardsPass ==
  ASSUME GuardLayer
  PROVE  GuardsAgreeWithCondition
  <1> SUFFICES ASSUME pc = "span", Top.at = 1, k < Guards(Top.part)
               PROVE  \/ PendingFault = "none"
                      \/ PendingFault = "stack underflow" /\ depth = 0
    BY DEF GuardsAgreeWithCondition
  <1> DEFINE instr == Block.code[k + 1]
  <1>1. ControlLayer /\ ConditionHolds /\ k \in Nat
    BY LayerParts DEF GuardLayer
  <1>2. /\ Control /\ calls # << >> /\ Block = Body(Top)[1]
        /\ instr.hint.kind = "value" => instr.op = "push"
    BY <1>1, CurrentInstr
  <1>3. Top \in Frames /\ Matches(Top) /\ Top.part \in Parts
    BY <1>2, TopFacts DEF Control
  <1>4. \/ k = 0 /\ Top.part \in OnOne /\ instr.op = "assert" /\ StackTop = 1
        \/ k = 0 /\ Top.part \in OnZero /\ instr.op = "not" /\ StackTop = 0
        \/ k = 1 /\ Top.part \in OnZero /\ instr.op = "assert" /\ StackTop = 1
    <2>1. \/ k = 0 /\ Top.part \in OnOne
          \/ k = 0 /\ Top.part \in OnZero
          \/ k = 1 /\ Top.part \in OnZero
      BY <1>1, <1>3 DEF Guards, Parts, OnOne, OnZero
    <2> QED BY <2>1, <1>1, <1>2, <1>3, HeadOfPart DEF ConditionHolds
  <1>5. DecodeOpFault(instr.op, HintValue(instr.hint)) = "none"
    BY <1>2, <1>4 DEF DecodeOpFault, HintValue
  <1>6. PendingFault = StackFault(instr.op, instr.hint)
    BY <1>5 DEF PendingFault
  <1>7. depth \in Nat /\ depth <= MaxStackDepth /\ MaxStackDepth \in Nat
    BY <1>1, LayerParts, StackAssumption DEF StackTypeOK
  <1>8. ~ ValueFault(instr.op, instr.hint)
    BY <1>4 DEF ValueFault, StackTop, IsBinary
  <1>9. /\ Needed(instr.op, instr.hint) = 1 /\ Added(instr.op) = 0
        /\ ValidHint(instr.op, instr.hint) /\ ~ TapeFault(instr.op, instr.hint)
    BY <1>4 DEF Needed, Added, ValidHint, TapeFault, ReadsA, ReadsB
  <1> HIDE DEF instr
  <1>10. CASE depth = 0
    <2>1. depth < Needed(instr.op, instr.hint) /\ ~ (depth + Added(instr.op) > MaxStackDepth)
      BY <1>7, <1>9, <1>10
    <2>2. StackFault(instr.op, instr.hint) = "stack underflow"
      BY <1>8, <1>9, <2>1 DEF StackFault
    <2> QED BY <1>6, <1>10, <2>2
  <1>11. CASE depth # 0
    <2>1. ~ (depth < Needed(instr.op, instr.hint)) /\ ~ (depth + Added(instr.op) > MaxStackDepth)
      BY <1>7, <1>9, <1>11
    <2>2. StackFault(instr.op, instr.hint) = "none"
      BY <1>8, <1>9, <2>1 DEF StackFault
    <2> QED BY <1>6, <2>2
  <1> QED BY <1>10, <1>11

(* the NOT that opens a branch taken on 0 leaves the 1 its ASSERT expects *)
LEMMA SpanOpGuards ==
  ASSUME GuardLayer, SpanOp
  PROVE  ConditionHolds'
  <1> DEFINE instr == Block.code[k + 1]
  <1>1. /\ ControlLayer /\ ConditionHolds /\ k \in Nat /\ pc = "span" /\ UNCHANGED root
    BY LayerParts DEF GuardLayer, SpanOp
  <1>2. /\ Control /\ calls # << >> /\ Top.at \in 1..Len(Body(Top))
        /\ Block = Body(Top)[Top.at]
    BY <1>1, CurrentInstr
  <1>3. Top \in Frames /\ Matches(Top) /\ Top.at \in Nat \ {0}
    BY <1>2, TopFacts DEF Control
  <1>4. CASE k + 1 < Len(Block.code)
    <2>1. k' = k + 1 /\ Top' = Top
      BY <1>4 DEF SpanOp, Top
    <2> SUFFICES ASSUME Top.at = 1, k = 0, Top.part \in OnZero
                 PROVE  StackTop' = 1 /\ depth' # 0
      BY <1>1, <2>1 DEF ConditionHolds
    <2>2. instr.op = "not" /\ regs[0] = 0
      BY <1>1, <1>2, <1>3, HeadOfPart DEF ConditionHolds, StackTop
    <2>3. Execute("not", instr.hint) /\ StackFault("not", instr.hint) = "none"
      BY <2>2, <1>1 DEF SpanOp, PendingFault
    <2>4. ~ (depth < 1) /\ depth \in 0..MaxStackDepth /\ MaxStackDepth \in Nat
      BY <2>3, <1>1, NoFault, LayerParts, StackAssumption DEF Needed, StackTypeOK
    <2>5. CopyState(<<Sub(1, 0)>>)
      BY <2>2, <2>3 DEF Execute, Perform, OpNot
    <2>6. Sub(1, 0) = 1
      BY FieldAssumption DEF Sub
    <2>7. 0 \in Slots /\ Len(<<1>>) = 1 /\ <<1>>[1] = 1
      BY <2>4 DEF Slots
    <2>8. regs' = [j \in Slots |-> IF j < Len(<<1>>) THEN <<1>>[j + 1]
                                  ELSE IF j < depth THEN regs[j] ELSE 0]
          /\ depth' = depth
      BY <2>5, <2>6 DEF CopyState
    <2> QED BY <2>4, <2>7, <2>8 DEF StackTop
  <1>5. CASE ~ (k + 1 < Len(Block.code))
    <2>1. /\ calls' = [calls EXCEPT ![Len(calls)].at = @ + 1]
          /\ pc' = Continue(Top, Top.at)
      BY <1>5 DEF SpanOp
    <2>2. pc' \in {"block", "test", "tail"}
      BY <2>1 DEF Continue
    <2> QED BY <2>2 DEF ConditionHolds
  <1> QED BY <1>4, <1>5

(* a branch is entered on the condition it is named for *)
LEMMA EnterGuards ==
  ASSUME GuardLayer, FlowNoop, k' = 0, NEW part \in Parts,
         Top'.part = part,
         part \in OnOne => StackTop = 1, part \in OnZero => StackTop = 0
  PROVE  ConditionHolds'
  <1>1. StackTop' = StackTop
    BY NoopKeepsRow, LayerParts DEF GuardLayer, StackTop
  <1> QED BY <1>1 DEF ConditionHolds

LEMMA StartGuards ==
  ASSUME GuardLayer, StartGroup \/ StartSwitch \/ SkipLoop \/ EnterLoop
  PROVE  ConditionHolds'
  <1>1. Control /\ AtPlace
    BY LayerParts DEF GuardLayer
  <1> DEFINE part == CASE StartGroup  -> "group"
                       [] StartSwitch -> IF StackTop = 1 THEN "true" ELSE "false"
                       [] SkipLoop    -> "skip"
                       [] EnterLoop   -> "loop"
  <1>2. /\ pc = "block" /\ FlowNoop /\ UNCHANGED root /\ PendingFault = "none"
    BY DEF StartGroup, StartSwitch, SkipLoop, EnterLoop
  <1>3. calls # << >> /\ Top.at \in 2..Len(Body(Top))
    BY <1>1, <1>2 DEF AtPlace
  <1>4. ASSUME NEW p \in Parts, Enter(p), Matches(Frame(Block, p)),
               p \in OnOne => StackTop = 1, p \in OnZero => StackTop = 0
        PROVE  ConditionHolds'
    <2>1. k' = 0 /\ Top' = Frame(Block, p)
      BY <1>1, <1>2, <1>3, <1>4, EnterControl
    <2>2. Top'.part = p
      BY <2>1 DEF Frame
    <2> QED BY <1>2, <1>4, <2>1, <2>2, EnterGuards
  <1>5. CASE StartGroup
    <2>1. Enter("group") /\ Matches(Frame(Block, "group"))
      BY <1>5 DEF StartGroup, Matches, Frame
    <2> QED BY <2>1, <1>4 DEF Parts, OnOne, OnZero
  <1>6. CASE StartSwitch
    <2> DEFINE p == IF StackTop = 1 THEN "true" ELSE "false"
    <2>1. Enter(p) /\ Matches(Frame(Block, p)) /\ p \in Parts
      BY <1>6 DEF StartSwitch, Matches, Frame, Parts
    <2>2. IsBinary(StackTop)
      BY <1>2, <1>6 DEF StartSwitch, PendingFault
    <2>3. (p \in OnOne => StackTop = 1) /\ (p \in OnZero => StackTop = 0)
      BY <2>2 DEF IsBinary, OnOne, OnZero
    <2> HIDE DEF p
    <2> QED BY <2>1, <2>3, <1>4
  <1>7. CASE SkipLoop
    <2>1. Enter("skip") /\ Matches(Frame(Block, "skip")) /\ StackTop = 0
      BY <1>7 DEF SkipLoop, Matches, Frame
    <2> QED BY <2>1, <1>4 DEF Parts, OnOne, OnZero
  <1>8. CASE EnterLoop
    <2>1. Enter("loop") /\ Matches(Frame(Block, "loop")) /\ StackTop = 1
      BY <1>8 DEF EnterLoop, Matches, Frame
    <2> QED BY <2>1, <1>4 DEF Parts, OnOne, OnZero
  <1> QED BY <1>5, <1>6, <1>7, <1>8

LEMMA IterationGuards ==
  ASSUME GuardLayer, RepeatLoop \/ ExitLoop
  PROVE  ConditionHolds'
  <1>1. Control /\ AtPlace
    BY LayerParts DEF GuardLayer
  <1>2. pc = "test" /\ FlowNoop /\ UNCHANGED root /\ pc' = "span" /\ k' = 0
    BY DEF RepeatLoop, ExitLoop
  <1>3. calls # << >> /\ Top.part = "loop"
    BY <1>1, <1>2 DEF AtPlace
  <1>4. ASSUME NEW p \in {"loop", "exit"}, calls' = Append(Outer, Frame(Top.block, p)),
               p \in OnOne => StackTop = 1, p \in OnZero => StackTop = 0
        PROVE  ConditionHolds'
    <2>1. Top' = Frame(Top.block, p)
      BY <1>1, <1>2, <1>3, <1>4, ReenterControl
    <2>2. Top'.part = p /\ p \in Parts
      BY <2>1 DEF Frame, Parts
    <2> QED BY <1>2, <1>4, <2>2, EnterGuards
  <1>5. CASE RepeatLoop
    <2>1. StackTop = 1 /\ calls' = Append(Outer, Frame(Top.block, "loop"))
      BY <1>5 DEF RepeatLoop
    <2> QED BY <2>1, <1>4 DEF OnOne, OnZero
  <1>6. CASE ExitLoop
    <2>1. StackTop = 0 /\ calls' = Append(Outer, Frame(Top.block, "exit"))
      BY <1>6 DEF ExitLoop
    <2> QED BY <2>1, <1>4 DEF OnOne, OnZero
  <1> QED BY <1>5, <1>6

LEMMA NextGuards == ASSUME GuardLayer, [Next]_vars PROVE GuardLayer'
  <1>1. ControlLayer /\ ConditionHolds /\ ControlLayer' /\ AtPlace
    BY NextControl, LayerParts DEF GuardLayer
  <1>2. ASSUME UNCHANGED <<pc, k, calls, regs, depth>> PROVE ConditionHolds'
    BY <1>1, <1>2 DEF ConditionHolds, Top, StackTop
  <1>3. ASSUME PadSpan PROVE ConditionHolds'
    <2>1. pc = "block" /\ UNCHANGED calls
      BY <1>3 DEF PadSpan
    <2>2. calls # << >> /\ Top.at \in 2..Len(Body(Top)) /\ Top' = Top
      BY <1>1, <2>1 DEF AtPlace, Top
    <2>3. Top'.at # 1
      <3>1. Len(Body(Top)) \in Nat
        BY <1>1, <2>2, TopFacts, LayerParts DEF Control
      <3> QED BY <2>2, <3>1
    <2> QED BY <2>3 DEF ConditionHolds
  <1>4. ASSUME CompleteCycle \/ CloseBlock \/ MergeRound \/ FinalizeTrace
        PROVE  ConditionHolds'
    <2>1. pc' # "span"
      BY <1>4 DEF CompleteCycle, CloseBlock, MergeRound, FinalizeTrace, Continue
    <2> QED BY <2>1 DEF ConditionHolds
  <1>5. ASSUME Step PROVE ConditionHolds'
    BY <1>2, <1>3, <1>4, <1>5, SpanOpGuards, StartGuards, IterationGuards
    DEF Step, Panic, stackVars
  <1> QED BY <1>1, <1>2, <1>5 DEF Next, vars, stackVars, GuardLayer

(* The instructions that make a branch provable, ASSERT at the head of a   *)
(* branch taken on 1 and NOT ASSERT of one taken on 0, never reject the    *)
(* branch the interpreter chose, for any program, nesting and inputs; the  *)
(* one fault they can meet is an empty stack.                              *)
THEOREM GuardsAgree == Spec => []GuardsAgreeWithCondition
  <1>1. ProcessorInit => GuardLayer
    <2> SUFFICES ASSUME ProcessorInit
                 PROVE  ControlLayer /\ ConditionHolds
      BY DEF GuardLayer
    <2>1. Top.part = "group"
      BY DEF ProcessorInit, Top, Frame
    <2> QED BY <2>1, InitControl DEF ConditionHolds, OnOne, OnZero
  <1>2. GuardLayer /\ [Next]_vars => GuardLayer'
    BY NextGuards
  <1>3. GuardLayer => GuardsAgreeWithCondition
    BY GuardsPass
  <1> QED BY <1>1, <1>2, <1>3, PTL DEF Spec
-----------------------------------------------------------------------------
(* The refinement of ProgramSemantics.                                     *)

(* Induction over the natural numbers, for a set of them: what is not in   *)
(* the set would have a least element.                                     *)
LEMMA NatInductive ==
  ASSUME NEW S, 0 \in S, \A n \in Nat : n \in S => n + 1 \in S
  PROVE  \A n \in Nat : n \in S
  <1> DEFINE R == {p \in Nat \X Nat : p[1] < p[2]}
             C == {n \in Nat : n \notin S}
  <1> SUFFICES ASSUME C # {} PROVE FALSE
    OBVIOUS
  <1>1. IsWellFoundedOn(R, Nat)
    BY NatLessThanWellFounded DEF OpToRel
  <1>2. C \subseteq Nat
    OBVIOUS
  <1> HIDE DEF R, C
  <1>3. PICK n \in C : \A m \in C : ~ (<<m, n>> \in R)
    BY <1>1, <1>2, WFMin
  <1>4. n \in Nat /\ n \notin S /\ n # 0 /\ n - 1 \in Nat
    BY DEF C
  <1>5. n - 1 \notin C
    <2>1. <<n - 1, n>> \in R
      BY <1>4 DEF R
    <2> QED BY <1>3, <2>1
  <1>6. (n - 1) + 1 \in S
    BY <1>4, <1>5 DEF C
  <1> QED BY <1>4, <1>6
(* Places in the cycle of the sponge determine places in that of RESCR. *)
LEMMA SameRound ==
  ASSUME NEW a \in Nat, NEW b \in Nat, a % CycleLength = b % CycleLength
  PROVE  a % RescueCycle = b % RescueCycle
  <1> DEFINE m == CycleLength
             p == RescueCycle
  <1>0. m \in Nat \ {0} /\ p \in Nat \ {0} /\ m % p = 0 /\ a % m = b % m
    BY CycleFacts, RescueAssumption, RoundsAssumption
  <1> HIDE DEF m, p
  <1>1. PICK c \in Nat : m = c * p + (m % p)
    BY <1>0, DivMod
  <1>2. PICK t \in Nat : b = t * p + (b % p) /\ b % p \in 0..(p - 1)
    BY <1>0, DivMod
  <1>3. PICK u \in Nat : a = u * m + (a % m) /\ a % m \in 0..(m - 1)
    BY <1>0, DivMod
  <1>4. PICK v \in Nat : b = v * m + (b % m)
    BY <1>0, DivMod
  <1> DEFINE r == a % m
             q == b % p
  <1>5. /\ m = c * p
        /\ b = t * p + q /\ q \in 0..(p - 1)
        /\ a = u * m + r /\ b = v * m + r /\ r \in Int
    BY <1>0, <1>1, <1>2, <1>3, <1>4
  <1> HIDE DEF r, q
  <1>6. a = (u * c + t - v * c) * p + q
    <2>0. p \in Int /\ q \in Int
      BY <1>0, <1>5
    <2>1. r = t * p + q - v * (c * p)
      BY <1>5, <2>0
    <2>2. a = u * (c * p) + t * p + q - v * (c * p)
      BY <1>5, <2>0, <2>1
    <2> QED BY <2>0, <2>2
  <1> DEFINE z == u * c + t - v * c
  <1>7. z \in Int /\ a = z * p + q
    BY <1>0, <1>6
  <1> HIDE DEF z
  <1>8. a % p = q
    <2>1. (z * p + q) % p = q
      BY <1>0, <1>5, <1>7, ModUnique
    <2> QED BY <1>7, <2>1
  <1> QED BY <1>8 DEF q, p
-----------------------------------------------------------------------------
(* Sequences of tasks, of whatever elements. *)
LEMMA Joined ==
  ASSUME NEW s, NEW t, IsSequence(s), IsSequence(t)
  PROVE  IsSequence(s \o t) /\ << >> \o s = s /\ s \o << >> = s
  <1> DEFINE A == {s[i] : i \in DOMAIN s}
             B == {t[i] : i \in DOMAIN t}
             S == A \cup B
  <1>1. s \in Seq(A) /\ t \in Seq(B)
    BY DEF IsSequence
  <1>2. A \subseteq S /\ B \subseteq S
    OBVIOUS
  <1> HIDE DEF A, B, S
  <1>3. s \in Seq(S) /\ t \in Seq(S)
    BY <1>1, <1>2, SeqMonotonic
  <1>4. s \o t \in Seq(S) /\ << >> \o s = s /\ s \o << >> = s
    BY <1>3, ConcatProperties, ConcatEmptySeq
  <1> QED BY <1>4, IsSequenceOf

LEMMA JoinedTwice ==
  ASSUME NEW s, NEW t, NEW u, IsSequence(s), IsSequence(t), IsSequence(u)
  PROVE  (s \o t) \o u = s \o (t \o u)
  <1> DEFINE A == {s[i] : i \in DOMAIN s}
             B == {t[i] : i \in DOMAIN t}
             C == {u[i] : i \in DOMAIN u}
             S == A \cup B \cup C
  <1>1. s \in Seq(A) /\ t \in Seq(B) /\ u \in Seq(C)
    BY DEF IsSequence
  <1>2. A \subseteq S /\ B \subseteq S /\ C \subseteq S
    OBVIOUS
  <1> HIDE DEF A, B, C, S
  <1>3. s \in Seq(S) /\ t \in Seq(S) /\ u \in Seq(S)
    BY <1>1, <1>2, SeqMonotonic
  <1> QED BY <1>3, ConcatAssociative

(* one task in front of others *)
LEMMA TaskInFront ==
  ASSUME NEW x, NEW s, IsSequence(s)
  PROVE  /\ IsSequence(<<x>>) /\ IsSequence(<<x>> \o s)
         /\ <<x>> \o s # << >> /\ Head(<<x>> \o s) = x /\ Tail(<<x>> \o s) = s
  <1> DEFINE A == {s[i] : i \in DOMAIN s}
             S == A \cup {x}
  <1>1. s \in Seq(A)
    BY DEF IsSequence
  <1>2. A \subseteq S /\ x \in S
    OBVIOUS
  <1> HIDE DEF A, S
  <1>3. s \in Seq(S)
    BY <1>1, <1>2, SeqMonotonic
  <1>4. <<x>> \in Seq(S) /\ Len(<<x>>) = 1
    BY <1>2
  <1>5. Len(s) \in Nat
    BY <1>3, LenProperties
  <1>6. /\ <<x>> \o s \in Seq(S) /\ Len(<<x>> \o s) = 1 + Len(s)
        /\ \A i \in 1..(1 + Len(s)) : (<<x>> \o s)[i] = IF i <= 1 THEN <<x>>[i] ELSE s[i - 1]
    BY <1>3, <1>4, ConcatProperties
  <1>7. IsSequence(<<x>>) /\ IsSequence(<<x>> \o s)
    BY <1>4, <1>6, IsSequenceOf
  <1> DEFINE u == <<x>> \o s
  <1> HIDE DEF u
  <1>8. u # << >> /\ Head(u) = u[1] /\ u[1] = x
    BY <1>5, <1>6 DEF u
  <1>9. /\ Tail(u) \in Seq(S) /\ Len(Tail(u)) = Len(s)
        /\ \A i \in 1..Len(s) : Tail(u)[i] = u[i + 1]
    <2>1. u \in Seq(S) /\ u # << >> /\ Len(u) = 1 + Len(s)
      BY <1>6, <1>8 DEF u
    <2> QED BY <2>1, <1>5, HeadTailProperties
  <1>10. \A i \in 1..Len(s) : Tail(u)[i] = s[i]
    BY <1>5, <1>6, <1>9 DEF u
  <1>11. Tail(u) = s
    BY <1>3, <1>9, <1>10, SeqEqual
  <1> QED BY <1>7, <1>8, <1>11 DEF u

(* a sequence as its first value and the rest *)
LEMMA FirstAndRest ==
  ASSUME NEW S, NEW f \in Seq(S), NEW g \in Seq(S), Len(f) = Len(g) + 1,
         \A i \in 1..Len(g) : g[i] = f[i + 1]
  PROVE  f = <<f[1]>> \o g
  <1> DEFINE n == Len(f)
  <1>1. n \in Nat \ {0} /\ n - 1 \in Nat /\ f[1] \in S
    BY LenProperties
  <1>2. f \in Seq(S) /\ Len(f) = n
    OBVIOUS
  <1>3. g \in Seq(S) /\ Len(g) = n - 1 /\ \A i \in 1..(n - 1) : g[i] = f[i + 1]
    BY LenProperties
  <1> HIDE DEF n
  <1>4. <<f[1]>> \in Seq(S) /\ Len(<<f[1]>>) = 1 /\ <<f[1]>>[1] = f[1]
    BY <1>1
  <1> DEFINE t == <<f[1]>>
  <1> HIDE DEF t
  <1>5. t \in Seq(S) /\ Len(t) = 1 /\ t[1] = f[1]
    BY <1>4 DEF t
  <1>6. /\ t \o g \in Seq(S) /\ Len(t \o g) = 1 + (n - 1)
        /\ \A i \in 1..(1 + (n - 1)) : (t \o g)[i] = IF i <= 1 THEN t[i] ELSE g[i - 1]
    <2>0. t \in Seq(S) /\ g \in Seq(S)
      BY <1>5
    <2>1. /\ t \o g \in Seq(S) /\ Len(t \o g) = Len(t) + Len(g)
          /\ \A i \in 1..(Len(t) + Len(g)) :
               (t \o g)[i] = IF i <= Len(t) THEN t[i] ELSE g[i - Len(t)]
      BY <2>0, ConcatProperties
    <2> QED BY <1>3, <1>5, <2>1
  <1>7. \A i \in 1..n : i # 1 => i - 1 \in 1..(n - 1) /\ (i - 1) + 1 = i /\ ~ (i <= 1)
    BY <1>1
  <1>8. \A i \in 1..n : i # 1 => (t \o g)[i] = f[i]
    <2> SUFFICES ASSUME NEW i \in 1..n, i # 1 PROVE (t \o g)[i] = f[i]
      OBVIOUS
    <2>1. (t \o g)[i] = g[i - 1]
      BY <1>1, <1>6, <1>7
    <2>2. g[i - 1] = f[(i - 1) + 1] /\ (i - 1) + 1 = i
      BY <1>3, <1>7
    <2> QED BY <2>1, <2>2
  <1>9. (t \o g)[1] = f[1]
    BY <1>5, <1>6
  <1>10. Len(t \o g) = n /\ \A i \in 1..n : f[i] = (t \o g)[i]
    BY <1>1, <1>6, <1>8, <1>9
  <1>11. f = t \o g
    BY <1>2, <1>6, <1>10, SeqEqual
  <1> QED BY <1>11 DEF t

(* no value at all *)
LEMMA NothingFrom ==
  ASSUME NEW f, DOMAIN f = 1..0, f = [i \in DOMAIN f |-> f[i]]
  PROVE  IsSequence(f) /\ f = << >>
  <1>1. f \in [1..0 -> {}]
    OBVIOUS
  <1>2. f \in Seq({}) /\ Len(f) = 0
    BY <1>1, FunctionIsSequence
  <1>3. f = << >>
    BY <1>2, EmptySeq
  <1> QED BY <1>2, <1>3, IsSequenceOf

(* the blocks of a list, one by one *)
LEMMA BlocksFrom ==
  ASSUME NEW list, Len(list) \in Nat, NEW n \in Nat \ {0}
  PROVE  /\ IsSequence(BlockTasks(list, n))
         /\ n <= Len(list) =>
              BlockTasks(list, n) = <<Task(list[n])>> \o BlockTasks(list, n + 1)
         /\ n > Len(list) => BlockTasks(list, n) = << >>
  <1> DEFINE m == Len(list) - n + 1
             f == BlockTasks(list, n)
             g == BlockTasks(list, n + 1)
             S == {Task(list[i]) : i \in Nat}
  <1>1. CASE n <= Len(list)
    <2>1. m \in Nat \ {0} /\ Len(list) - (n + 1) + 1 = m - 1 /\ 1 \in 1..m /\ n + 1 - 1 = n
      BY <1>1
    <2>2. f \in [1..m -> S]
      <3>1. \A i \in 1..m : n + i - 1 \in Nat
        BY <2>1
      <3> QED BY <3>1 DEF BlockTasks
    <2>3. g \in [1..(m - 1) -> S]
      <3>1. \A i \in 1..(m - 1) : n + 1 + i - 1 \in Nat
        BY <2>1
      <3> QED BY <2>1, <3>1 DEF BlockTasks
    <2>4. \A i \in 1..(m - 1) : g[i] = f[i + 1]
      <3> SUFFICES ASSUME NEW i \in 1..(m - 1) PROVE g[i] = f[i + 1]
        OBVIOUS
      <3>1. i + 1 \in 1..m /\ (n + 1) + i - 1 = n + (i + 1) - 1
        BY <2>1
      <3> QED BY <2>1, <3>1 DEF BlockTasks
    <2>5. f[1] = Task(list[n])
      BY <2>1 DEF BlockTasks
    <2> HIDE DEF f, g, m, S
    <2>6. f \in Seq(S) /\ Len(f) = m
      BY <2>1, <2>2, FunctionIsSequence
    <2>7. g \in Seq(S) /\ Len(g) = m - 1
      BY <2>1, <2>3, FunctionIsSequence
    <2>8. Len(f) = Len(g) + 1 /\ \A i \in 1..Len(g) : g[i] = f[i + 1]
      BY <2>1, <2>4, <2>6, <2>7
    <2>9. f = <<f[1]>> \o g
      BY <2>6, <2>7, <2>8, FirstAndRest
    <2>10. IsSequence(f)
      BY <2>6, IsSequenceOf
    <2> QED BY <1>1, <2>5, <2>9, <2>10 DEF f, g
  <1>2. CASE n > Len(list)
    <2>1. 1..m = 1..0
      BY <1>2
    <2>2. DOMAIN f = 1..0 /\ f = [i \in DOMAIN f |-> f[i]]
      BY <2>1 DEF BlockTasks
    <2> HIDE DEF f
    <2>3. IsSequence(f) /\ f = << >>
      BY <2>2, NothingFrom
    <2> QED BY <1>2, <2>3 DEF f
  <1> QED BY <1>1, <1>2

(* the instructions of a span, one by one *)
LEMMA InstructionsFrom ==
  ASSUME NEW span, Len(span.code) \in Nat, NEW n \in Nat \ {0}, n <= Len(span.code) + 1
  PROVE  /\ IsSequence(SpanTasks(span, n))
         /\ n <= Len(span.code) =>
              SpanTasks(span, n) = <<OpTask(span.code[n], n - 1)>> \o SpanTasks(span, n + 1)
         /\ n = Len(span.code) + 1 => SpanTasks(span, n) = << >>
  <1> DEFINE m == Len(span.code) - n + 1
             f == SpanTasks(span, n)
             g == SpanTasks(span, n + 1)
             S == {OpTask(span.code[i], i - 1) : i \in Nat}
  <1>1. CASE n <= Len(span.code)
    <2>1. m \in Nat \ {0} /\ Len(span.code) - (n + 1) + 1 = m - 1 /\ 1 \in 1..m
      BY <1>1
    <2>2. f \in [1..m -> S]
      <3>1. \A i \in 1..m : n + i - 1 \in Nat /\ n + i - 2 = (n + i - 1) - 1
        BY <2>1
      <3> QED BY <3>1 DEF SpanTasks
    <2>3. g \in [1..(m - 1) -> S]
      <3>1. \A i \in 1..(m - 1) : n + 1 + i - 1 \in Nat /\ n + 1 + i - 2 = (n + 1 + i - 1) - 1
        BY <2>1
      <3> QED BY <2>1, <3>1 DEF SpanTasks
    <2>4. \A i \in 1..(m - 1) : g[i] = f[i + 1]
      <3> SUFFICES ASSUME NEW i \in 1..(m - 1)
                   PROVE  g[i] = f[i + 1]
        OBVIOUS
      <3>1. i \in Nat /\ i + 1 \in 1..m /\ (n + 1) + i - 1 = n + (i + 1) - 1
            /\ (n + 1) + i - 2 = n + (i + 1) - 2
        BY <2>1
      <3> QED BY <2>1, <3>1 DEF SpanTasks
    <2>5. f[1] = OpTask(span.code[n], n - 1)
      <3>1. n + 1 - 1 = n /\ n + 1 - 2 = n - 1
        OBVIOUS
      <3> QED BY <2>1, <3>1 DEF SpanTasks
    <2> HIDE DEF f, g, m, S
    <2>6. f \in Seq(S) /\ Len(f) = m
      BY <2>1, <2>2, FunctionIsSequence
    <2>7. g \in Seq(S) /\ Len(g) = m - 1
      BY <2>1, <2>3, FunctionIsSequence
    <2>8. Len(f) = Len(g) + 1 /\ \A i \in 1..Len(g) : g[i] = f[i + 1]
      BY <2>1, <2>4, <2>6, <2>7
    <2>9. f = <<f[1]>> \o g
      BY <2>6, <2>7, <2>8, FirstAndRest
    <2>10. IsSequence(f)
      BY <2>6, IsSequenceOf
    <2> QED BY <1>1, <2>5, <2>9, <2>10 DEF f, g
  <1>2. CASE n = Len(span.code) + 1
    <2>1. 1..m = 1..0
      BY <1>2
    <2>2. DOMAIN f = 1..0 /\ f = [i \in DOMAIN f |-> f[i]]
      BY <2>1 DEF SpanTasks
    <2> HIDE DEF f
    <2>3. IsSequence(f) /\ f = << >>
      BY <2>2, NothingFrom
    <2> QED BY <1>2, <2>3 DEF f
  <1> QED BY <1>1, <1>2
-----------------------------------------------------------------------------
(* What is left of a frame, block by block. *)
LEMMA AfterFrame ==
  ASSUME NEW f, Body(f) \in BlockLists, f.at \in Nat
  PROVE  /\ IsSequence(After(f))
         /\ \A g : g.block = f.block /\ g.part = f.part /\ g.at = f.at + 1
                   /\ f.at < Len(Body(f)) =>
              After(f) = <<Task(Body(f)[g.at])>> \o After(g)
         /\ f.at >= Len(Body(f)) =>
              After(f) = IF f.part = "loop" THEN <<Task(f.block)>> ELSE << >>
  <1> DEFINE loop == IF f.part = "loop" THEN <<Task(f.block)>> ELSE << >>
             n == f.at
             list == Body(f)
  <1>1. IsSequence(loop)
    <2>1. IsSequence(<< >>)
      BY EmptySeq, IsSequenceOf
    <2>2. IsSequence(<<Task(f.block)>>)
      BY <2>1, TaskInFront
    <2> QED BY <2>1, <2>2
  <1>2. Len(list) \in Nat /\ n + 1 \in Nat \ {0} /\ n + 1 + 1 \in Nat \ {0}
    BY ListFacts
  <1>3. /\ IsSequence(BlockTasks(list, n + 1)) /\ IsSequence(BlockTasks(list, n + 1 + 1))
        /\ n + 1 <= Len(list) =>
             BlockTasks(list, n + 1) = <<Task(list[n + 1])>> \o BlockTasks(list, n + 1 + 1)
        /\ n + 1 > Len(list) => BlockTasks(list, n + 1) = << >>
    <2> HIDE DEF list, n
    <2> QED BY <1>2, BlocksFrom
  <1>4. After(f) = BlockTasks(list, n + 1) \o loop
    BY DEF After
  <1> HIDE DEF loop
  <1>5. IsSequence(After(f))
    BY <1>1, <1>3, <1>4, Joined
  <1>6. ASSUME NEW g, g.block = f.block, g.part = f.part, g.at = n + 1, n < Len(list)
        PROVE  After(f) = <<Task(list[g.at])>> \o After(g)
    <2>1. Body(g) = list
      BY <1>6, SameFrame
    <2>2. After(g) = BlockTasks(list, n + 1 + 1) \o loop
      BY <1>6, <2>1 DEF After, loop
    <2>3. n + 1 <= Len(list)
      BY <1>2, <1>6
    <2> DEFINE t == <<Task(list[n + 1])>>
               u == BlockTasks(list, n + 1 + 1)
    <2>4. IsSequence(t) /\ IsSequence(u)
      BY <1>3, TaskInFront
    <2>5. After(f) = (t \o u) \o loop
      BY <1>3, <1>4, <2>3
    <2> HIDE DEF t, u
    <2>6. After(f) = t \o (u \o loop)
      BY <1>1, <2>4, <2>5, JoinedTwice
    <2> QED BY <1>6, <2>2, <2>6 DEF t, u
  <1>7. ASSUME n >= Len(list) PROVE After(f) = loop
    <2>1. BlockTasks(list, n + 1) = << >>
      BY <1>2, <1>3, <1>7
    <2> QED BY <1>1, <1>4, <2>1, Joined
  <1> QED BY <1>5, <1>6, <1>7 DEF loop

(* what is left of the first j frames, for each j *)
Remainders(f, n, c) ==
  /\ f = [j \in 0..n |-> f[j]]
  /\ \A j \in 0..n : f[j] = IF j = 0 THEN << >> ELSE After(c[j]) \o f[j - 1]

LEMMA RemaindersExist ==
  ASSUME NEW c
  PROVE  \A n \in Nat : \E f : Remainders(f, n, c)
  <1> DEFINE S == {n \in Nat : \E f : Remainders(f, n, c)}
  <1>1. 0 \in S
    <2>1. Remainders([j \in 0..0 |-> << >>], 0, c)
      BY DEF Remainders
    <2> QED BY <2>1
  <1>2. ASSUME NEW n \in Nat, n \in S PROVE n + 1 \in S
    <2>1. PICK f : Remainders(f, n, c)
      BY <1>2
    <2> DEFINE m == n + 1
               top == After(c[m]) \o f[n]
               g == [j \in 0..m |-> IF j = m THEN top ELSE f[j]]
    <2>2. m \in Nat /\ n = m - 1 /\ m # 0
      OBVIOUS
    <2> HIDE DEF top, m
    <2>3. ASSUME NEW j \in 0..m
          PROVE  g[j] = IF j = 0 THEN << >> ELSE After(c[j]) \o g[j - 1]
      <3>1. CASE j = m
        <4>1. g[j] = top /\ g[j - 1] = f[n] /\ j # 0
          BY <3>1, <2>2
        <4> QED BY <3>1, <4>1 DEF top
      <3>2. CASE j # m
        <4>1. j \in 0..n /\ (j # 0 => j - 1 \in 0..m /\ j - 1 # m)
          BY <3>2, <2>2
        <4>2. g[j] = f[j] /\ (j # 0 => g[j - 1] = f[j - 1])
          BY <3>2, <4>1
        <4>3. f[j] = IF j = 0 THEN << >> ELSE After(c[j]) \o f[j - 1]
          BY <2>1, <4>1 DEF Remainders
        <4> HIDE DEF g
        <4> QED BY <4>2, <4>3
      <3> QED BY <3>1, <3>2
    <2>4. g = [j \in 0..m |-> g[j]]
      OBVIOUS
    <2> HIDE DEF g
    <2>5. Remainders(g, m, c)
      BY <2>3, <2>4 DEF Remainders
    <2> QED BY <2>2, <2>5 DEF m
  <1> HIDE DEF S
  <1>3. \A n \in Nat : n \in S
    BY <1>1, <1>2, NatInductive
  <1> QED BY <1>3 DEF S

(* Pending is the last of them. *)
LEMMA PendingIsLast ==
  ASSUME NEW c, Len(c) \in Nat
  PROVE  \E f : Remainders(f, Len(c), c) /\ Pending(c) = f[Len(c)]
  <1> DEFINE N == Len(c)
             Is(f) == f = [j \in 0..N |->
                             IF j = 0 THEN << >> ELSE After(c[j]) \o f[j - 1]]
  <1>1. PICK f : Remainders(f, N, c)
    BY RemaindersExist
  <1>2. Is(f)
    <2> HIDE DEF N
    <2> QED BY <1>1 DEF Remainders
  <1> DEFINE after == CHOOSE g : Is(g)
  <1>3. Is(after)
    BY <1>2
  <1>4. Remainders(after, N, c)
    <2> HIDE DEF after
    <2> QED BY <1>3 DEF Remainders
  <1>5. Pending(c) = after[N]
    BY DEF Pending
  <1> QED BY <1>4, <1>5

(* the first n frames are the same *)
SameFirst(c, d, n) == \A j \in 1..n : d[j] = c[j]

(* Where two lists of frames agree, so does what is left of them. *)
LEMMA RemaindersAgree ==
  ASSUME NEW c, NEW d, NEW a \in Nat, NEW b \in Nat, NEW f, NEW g,
         Remainders(f, a, c), Remainders(g, b, d), b <= a,
         SameFirst(c, d, b)
  PROVE  f[b] = g[b]
  <1> DEFINE S == {n \in Nat : n <= b => f[n] = g[n]}
  <1>1. 0 \in S
    BY DEF Remainders
  <1>2. ASSUME NEW n \in Nat, n \in S PROVE n + 1 \in S
    <2> SUFFICES ASSUME n + 1 <= b PROVE f[n + 1] = g[n + 1]
      OBVIOUS
    <2>1. n + 1 \in 0..a /\ n + 1 \in 0..b /\ n + 1 \in 1..b /\ n + 1 # 0 /\ (n + 1) - 1 = n
      OBVIOUS
    <2>2. f[n] = g[n]
      BY <1>2
    <2>3. f[n + 1] = After(c[n + 1]) \o f[n]
      BY <2>1 DEF Remainders
    <2>4. g[n + 1] = After(d[n + 1]) \o g[n]
      BY <2>1 DEF Remainders
    <2> QED BY <2>1, <2>2, <2>3, <2>4 DEF SameFirst
  <1> HIDE DEF S
  <1>3. \A n \in Nat : n \in S
    BY <1>1, <1>2, NatInductive
  <1> QED BY <1>3 DEF S

(* Nothing is left of no frame, and what is left of frames is what is left *)
(* of the innermost and then of the others.                                *)
LEMMA PendingOfFrames ==
  ASSUME NEW c, Len(c) \in Nat
  PROVE  /\ Len(c) = 0 => Pending(c) = << >>
         /\ \A d : Len(c) # 0 /\ Len(d) = Len(c) - 1 /\ (\A j \in 1..Len(d) : d[j] = c[j]) =>
              Pending(c) = After(c[Len(c)]) \o Pending(d)
  <1>1. PICK f : Remainders(f, Len(c), c) /\ Pending(c) = f[Len(c)]
    BY PendingIsLast
  <1>2. Len(c) = 0 => Pending(c) = << >>
    BY <1>1 DEF Remainders
  <1>3. ASSUME NEW d, Len(c) # 0, Len(d) = Len(c) - 1, \A j \in 1..Len(d) : d[j] = c[j]
        PROVE  Pending(c) = After(c[Len(c)]) \o Pending(d)
    <2> DEFINE a == Len(c)
               b == Len(d)
    <2>1. a \in Nat /\ b \in Nat /\ b <= a /\ a - 1 = b /\ a \in 0..a /\ a # 0
      BY <1>3
    <2>2. PICK g : Remainders(g, b, d) /\ Pending(d) = g[b]
      BY <2>1, PendingIsLast
    <2>3. Remainders(f, a, c) /\ Pending(c) = f[a] /\ \A j \in 1..b : d[j] = c[j]
      BY <1>1, <1>3
    <2> HIDE DEF a, b
    <2>4. f[b] = g[b]
      <3>1. a \in Nat /\ b \in Nat /\ b <= a
        BY <2>1
      <3>2. Remainders(f, a, c) /\ Remainders(g, b, d)
        BY <2>2, <2>3
      <3>3. SameFirst(c, d, b)
        BY <2>3 DEF SameFirst
      <3> QED BY <3>1, <3>2, <3>3, RemaindersAgree
    <2>5. f[a] = After(c[a]) \o f[a - 1]
      BY <2>1, <2>3 DEF Remainders
    <2> QED BY <2>1, <2>2, <2>3, <2>4, <2>5 DEF a
  <1> QED BY <1>2, <1>3

LEMMA PendingIsSequence ==
  ASSUME NEW c, Len(c) \in Nat, \A j \in 1..Len(c) : IsSequence(After(c[j]))
  PROVE  IsSequence(Pending(c))
  <1>1. PICK f : Remainders(f, Len(c), c) /\ Pending(c) = f[Len(c)]
    BY PendingIsLast
  <1> DEFINE b == Len(c)
             S == {n \in Nat : n <= b => IsSequence(f[n])}
  <1>2. 0 \in S
    <2>1. IsSequence(<< >>)
      BY EmptySeq, IsSequenceOf
    <2>2. f[0] = << >>
      BY <1>1 DEF Remainders
    <2> QED BY <2>1, <2>2
  <1>3. ASSUME NEW n \in Nat, n \in S PROVE n + 1 \in S
    <2> SUFFICES ASSUME n + 1 <= b PROVE IsSequence(f[n + 1])
      OBVIOUS
    <2>1. n + 1 \in 0..b /\ n + 1 \in 1..b /\ n + 1 # 0 /\ (n + 1) - 1 = n
      OBVIOUS
    <2>2. IsSequence(f[n]) /\ IsSequence(After(c[n + 1]))
      BY <1>3, <2>1
    <2>3. f[n + 1] = After(c[n + 1]) \o f[n]
      BY <1>1, <2>1 DEF Remainders
    <2> QED BY <2>2, <2>3, Joined
  <1> HIDE DEF S
  <1>4. \A n \in Nat : n \in S
    BY <1>2, <1>3, NatInductive
  <1>5. IsSequence(f[b])
    BY <1>4 DEF S
  <1> QED BY <1>1, <1>5
-----------------------------------------------------------------------------
(* What is left of the frames of the processor. *)
LEMMA FramesLeft ==
  ASSUME NEW c \in Seq(Frames), \A i \in 1..Len(c) : Matches(c[i])
  PROVE  /\ Len(c) \in Nat /\ IsSequence(Pending(c))
         /\ \A i \in 1..Len(c) : Body(c[i]) \in BlockLists /\ c[i].at \in Nat \ {0}
  <1>1. Len(c) \in Nat
    BY LenProperties
  <1>2. ASSUME NEW i \in 1..Len(c)
        PROVE  Body(c[i]) \in BlockLists /\ c[i].at \in Nat \ {0} /\ IsSequence(After(c[i]))
    <2> DEFINE f == c[i]
    <2>1. f \in Frames /\ Matches(f)
      BY ElementOfSeq
    <2> HIDE DEF f
    <2>2. Body(f) \in BlockLists /\ f.at \in Nat \ {0} /\ f.at \in Nat
      BY <2>1, BodyIsList DEF Frames
    <2>3. IsSequence(After(f))
      BY <2>2, AfterFrame
    <2> QED BY <2>2, <2>3 DEF f
  <1>3. IsSequence(Pending(c))
    BY <1>1, <1>2, PendingIsSequence
  <1> QED BY <1>1, <1>2, <1>3

(* The innermost frame goes on to its next block. *)
LEMMA PendingAdvanced ==
  ASSUME NEW c, NEW d, NEW o, Len(c) \in Nat \ {0}, Len(d) = Len(c), Len(o) = Len(c) - 1,
         SameFirst(c, o, Len(o)), SameFirst(d, o, Len(o)), IsSequence(Pending(o)),
         NEW f, NEW g, f = c[Len(c)], g = d[Len(c)], Body(f) \in BlockLists,
         f.at \in 1..Len(Body(f)),
         g.block = f.block, g.part = f.part, g.at = f.at + 1
  PROVE  Pending(c) = IF f.at < Len(Body(f)) THEN <<Task(Body(f)[g.at])>> \o Pending(d)
                      ELSE Pending(d)
  <1>1. Pending(c) = After(f) \o Pending(o)
    BY PendingOfFrames DEF SameFirst
  <1>2. Pending(d) = After(g) \o Pending(o)
    BY PendingOfFrames DEF SameFirst
  <1>3. Body(g) = Body(f) /\ Len(Body(f)) \in Nat /\ f.at \in Nat /\ g.at \in Nat
    BY SameFrame, ListFacts
  <1>4. IsSequence(After(g))
    BY <1>3, AfterFrame
  <1>5. CASE f.at < Len(Body(f))
    <2> DEFINE t == <<Task(Body(f)[g.at])>>
    <2>1. After(f) = t \o After(g)
      BY <1>3, <1>5, AfterFrame
    <2>2. IsSequence(t)
      BY <1>4, TaskInFront
    <2> HIDE DEF t
    <2>3. Pending(c) = t \o Pending(d)
      BY <1>1, <1>2, <1>4, <2>1, <2>2, JoinedTwice
    <2> QED BY <1>5, <2>3 DEF t
  <1>6. CASE ~ (f.at < Len(Body(f)))
    <2>1. f.at >= Len(Body(f)) /\ g.at >= Len(Body(g))
      BY <1>3, <1>6
    <2>2. After(f) = IF f.part = "loop" THEN <<Task(f.block)>> ELSE << >>
      BY <1>3, <2>1, AfterFrame
    <2>3. After(g) = IF g.part = "loop" THEN <<Task(g.block)>> ELSE << >>
      BY <1>3, <2>1, AfterFrame
    <2> QED BY <1>1, <1>2, <1>6, <2>2, <2>3
  <1> QED BY <1>5, <1>6

(* the tasks of a list *)
LEMMA TasksOfList ==
  ASSUME NEW list \in BlockLists
  PROVE  /\ IsSequence(SpanTasks(list[1], 1)) /\ IsSequence(BlockTasks(list, 2))
         /\ IsSequence(ListTasks(list))
         /\ ListTasks(list) = SpanTasks(list[1], 1) \o BlockTasks(list, 2)
  <1>1. Len(list) \in Nat /\ 1 \in 1..Len(list) /\ list[1].kind = "span"
    BY ListFacts, FirstIsSpan
  <1>2. Len(list[1].code) \in Nat
    BY <1>1, SpanFacts
  <1>3. IsSequence(SpanTasks(list[1], 1))
    <2> DEFINE span == list[1]
    <2>1. Len(span.code) \in Nat /\ 1 \in Nat \ {0} /\ 1 <= Len(span.code) + 1
      BY <1>2
    <2> HIDE DEF span
    <2>2. IsSequence(SpanTasks(span, 1))
      BY <2>1, InstructionsFrom
    <2> QED BY <2>2 DEF span
  <1>4. IsSequence(BlockTasks(list, 2))
    <2>1. Len(list) \in Nat /\ 2 \in Nat \ {0}
      BY <1>1
    <2> QED BY <2>1, BlocksFrom
  <1> QED BY <1>3, <1>4, Joined DEF ListTasks

(* A new frame starts with its list. *)
LEMMA PendingStarted ==
  ASSUME NEW c, NEW o, Len(c) \in Nat \ {0}, Len(o) = Len(c) - 1,
         SameFirst(c, o, Len(o)), IsSequence(Pending(o)),
         NEW f, f = c[Len(c)], Body(f) \in BlockLists, f.at = 1
  PROVE  SpanTasks(Body(f)[1], 1) \o Pending(c) =
           (IF f.part = "loop" THEN ListTasks(Body(f)) \o <<Task(f.block)>>
                               ELSE ListTasks(Body(f))) \o Pending(o)
  <1> DEFINE loop == IF f.part = "loop" THEN <<Task(f.block)>> ELSE << >>
             s == SpanTasks(Body(f)[1], 1)
             b == BlockTasks(Body(f), 2)
  <1>1. Pending(c) = After(f) \o Pending(o)
    BY PendingOfFrames DEF SameFirst
  <1>2. After(f) = b \o loop
    BY DEF After
  <1>3. IsSequence(s) /\ IsSequence(b) /\ ListTasks(Body(f)) = s \o b
        /\ IsSequence(ListTasks(Body(f)))
    BY TasksOfList
  <1>4. IsSequence(loop)
    <2>1. IsSequence(<< >>)
      BY EmptySeq, IsSequenceOf
    <2>2. IsSequence(<<Task(f.block)>>)
      BY <2>1, TaskInFront
    <2> QED BY <2>1, <2>2
  <1>5. ListTasks(Body(f)) \o loop =
          IF f.part = "loop" THEN ListTasks(Body(f)) \o <<Task(f.block)>>
                             ELSE ListTasks(Body(f))
    BY <1>3, Joined
  <1> HIDE DEF loop, s, b
  <1>6. (s \o b) \o loop = s \o (b \o loop)
    <2>1. IsSequence(s) /\ IsSequence(b)
      BY <1>3
    <2> QED BY <2>1, <1>4, JoinedTwice
  <1>7. IsSequence(b \o loop)
    BY <1>3, <1>4, Joined
  <1> DEFINE t == b \o loop
  <1> HIDE DEF t
  <1>8. s \o (t \o Pending(o)) = (s \o t) \o Pending(o)
    BY <1>3, <1>7, JoinedTwice DEF t
  <1> QED BY <1>1, <1>2, <1>3, <1>5, <1>6, <1>8 DEF s, t
-----------------------------------------------------------------------------
(* What is left of the program, by the place in the code. *)
LEMMA CallsLeft ==
  ASSUME Control
  PROVE  /\ Len(calls) \in Nat /\ IsSequence(Pending(calls))
         /\ calls # << >> =>
              /\ Len(calls) \in Nat \ {0} /\ Len(Outer) = Len(calls) - 1
              /\ SameFirst(calls, Outer, Len(Outer)) /\ IsSequence(Pending(Outer))
              /\ Pending(calls) = After(Top) \o Pending(Outer)
  <1>1. calls \in Seq(Frames) /\ \A i \in 1..Len(calls) : Matches(calls[i])
    BY DEF Control, CallsFollowTree
  <1>2. Len(calls) \in Nat /\ IsSequence(Pending(calls))
    BY <1>1, FramesLeft
  <1>3. ASSUME calls # << >>
        PROVE  /\ Len(calls) \in Nat \ {0} /\ Len(Outer) = Len(calls) - 1
               /\ SameFirst(calls, Outer, Len(Outer)) /\ IsSequence(Pending(Outer))
               /\ Pending(calls) = After(Top) \o Pending(Outer)
    <2> DEFINE o == Outer
    <2>1. /\ o \in Seq(Frames) /\ Len(o) = Len(calls) - 1 /\ Len(calls) \in Nat \ {0}
          /\ \A i \in 1..(Len(calls) - 1) : o[i] = calls[i]
      BY <1>1, <1>3, Popped1 DEF Outer
    <2> HIDE DEF o
    <2>2. \A i \in 1..Len(o) : Matches(o[i])
      BY <1>1, <2>1
    <2>3. IsSequence(Pending(o))
      BY <2>1, <2>2, FramesLeft
    <2>4. SameFirst(calls, o, Len(o))
      BY <2>1 DEF SameFirst
    <2>5. Pending(calls) = After(Top) \o Pending(o)
      BY <2>1, PendingOfFrames DEF Top
    <2> QED BY <2>1, <2>3, <2>4, <2>5 DEF o
  <1> QED BY <1>2, <1>3

(* before a block *)
LEMMA BlockLeft ==
  ASSUME Control, pc = "block"
  PROVE  /\ Todo # << >> /\ Head(Todo) = Task(Block) /\ Tail(Todo) = Pending(calls)
         /\ Head(Todo).kind = Block.kind /\ Head(Todo).of = Block
  <1>1. IsSequence(Pending(calls))
    BY CallsLeft
  <1>2. Todo = <<Task(Block)>> \o Pending(calls)
    BY DEF Todo, Current
  <1>3. Todo # << >> /\ Head(Todo) = Task(Block) /\ Tail(Todo) = Pending(calls)
    BY <1>1, <1>2, TaskInFront
  <1>4. Task(Block).kind = Block.kind /\ Task(Block).of = Block
    BY DEF Task
  <1> QED BY <1>3, <1>4

(* before the test of a loop *)
LEMMA TestLeft ==
  ASSUME Control, AtPlace, pc = "test"
  PROVE  /\ calls # << >> /\ Top.block.kind = "loop" /\ Top.part = "loop"
         /\ Todo # << >> /\ Head(Todo) = Task(Top.block) /\ Tail(Todo) = Pending(Outer)
         /\ Head(Todo).kind = "loop" /\ Head(Todo).of = Top.block
  <1>1. calls # << >> /\ Top.part = "loop" /\ Top.at = Len(Body(Top)) + 1
    BY DEF AtPlace
  <1>2. Matches(Top) /\ Body(Top) \in BlockLists /\ Len(Body(Top)) \in Nat /\ Top.at \in Nat
    BY <1>1, TopFacts DEF Control
  <1>3. Top.block.kind = "loop"
    BY <1>1, <1>2 DEF Matches
  <1>4. IsSequence(Pending(Outer)) /\ Pending(calls) = After(Top) \o Pending(Outer)
        /\ IsSequence(Pending(calls))
    BY <1>1, CallsLeft
  <1>5. After(Top) = <<Task(Top.block)>>
    <2> DEFINE f == Top
    <2>1. Body(f) \in BlockLists /\ f.at \in Nat /\ f.at >= Len(Body(f)) /\ f.part = "loop"
      BY <1>1, <1>2
    <2> HIDE DEF f
    <2>2. After(f) = <<Task(f.block)>>
      BY <2>1, AfterFrame
    <2> QED BY <2>2 DEF f
  <1>6. Todo = <<Task(Top.block)>> \o Pending(Outer)
    <2>1. Todo = << >> \o Pending(calls)
      BY DEF Todo, Current
    <2> QED BY <2>1, <1>4, <1>5, Joined
  <1>7. Todo # << >> /\ Head(Todo) = Task(Top.block) /\ Tail(Todo) = Pending(Outer)
    BY <1>4, <1>6, TaskInFront
  <1>8. Task(Top.block).kind = Top.block.kind /\ Task(Top.block).of = Top.block
    BY DEF Task
  <1> QED BY <1>1, <1>3, <1>7, <1>8

(* before an instruction *)
LEMMA InstrLeft ==
  ASSUME ControlLayer, pc = "span"
  PROVE  /\ Todo # << >> /\ Head(Todo) = OpTask(Block.code[k + 1], k)
         /\ Tail(Todo) = SpanTasks(Block, k + 1 + 1) \o Pending(calls)
         /\ k + 1 >= Len(Block.code) => Tail(Todo) = Pending(calls)
  <1> DEFINE t == OpTask(Block.code[k + 1], k)
             u == SpanTasks(Block, k + 1 + 1)
             n == k + 1
             span == Block
  <1>1. Len(span.code) \in Nat \ {0} /\ n \in 1..Len(span.code) /\ Control
        /\ k \in Nat /\ n - 1 = k
    BY CurrentInstr, LayerParts
  <1>2. IsSequence(Pending(calls))
    BY <1>1, CallsLeft
  <1> HIDE DEF n, span
  <1>3. SpanTasks(span, n) = <<OpTask(span.code[n], n - 1)>> \o SpanTasks(span, n + 1)
    BY <1>1, InstructionsFrom
  <1>4. /\ IsSequence(SpanTasks(span, n + 1))
        /\ n = Len(span.code) => SpanTasks(span, n + 1) = << >>
    <2>1. n + 1 \in Nat \ {0} /\ n + 1 <= Len(span.code) + 1
      BY <1>1
    <2> QED BY <1>1, <2>1, InstructionsFrom
  <1>5. SpanTasks(Block, k + 1) = <<t>> \o u /\ IsSequence(u)
    BY <1>1, <1>3, <1>4 DEF n, span
  <1>6. Todo = SpanTasks(Block, k + 1) \o Pending(calls)
    BY DEF Todo, Current
  <1> HIDE DEF t, u
  <1>7. IsSequence(<<t>>) /\ IsSequence(u \o Pending(calls))
    BY <1>2, <1>5, TaskInFront, Joined
  <1>8. Todo = <<t>> \o (u \o Pending(calls))
    <2>1. IsSequence(<<t>>) /\ IsSequence(u) /\ IsSequence(Pending(calls))
      BY <1>2, <1>5, <1>7
    <2>2. (<<t>> \o u) \o Pending(calls) = <<t>> \o (u \o Pending(calls))
      BY <2>1, JoinedTwice
    <2> QED BY <1>5, <1>6, <2>2
  <1> DEFINE v == u \o Pending(calls)
  <1> HIDE DEF v
  <1>9. Todo # << >> /\ Head(Todo) = t /\ Tail(Todo) = v
    BY <1>7, <1>8, TaskInFront DEF v
  <1>10. k + 1 >= Len(Block.code) => v = Pending(calls)
    <2>1. k + 1 >= Len(Block.code) => u = << >>
      BY <1>1, <1>4 DEF n, span, u
    <2> QED BY <2>1, <1>2, Joined DEF v
  <1> QED BY <1>9, <1>10 DEF t, u, v
-----------------------------------------------------------------------------
(* What is left of the program after a step. *)

(* a block of the current list is finished *)
LEMMA AdvanceLeft ==
  ASSUME Control, calls # << >>, UNCHANGED root,
         calls' = [calls EXCEPT ![Len(calls)].at = @ + 1],
         Top.at \in 1..Len(Body(Top)), pc' = Continue(Top, Top.at)
  PROVE  Todo' = Pending(calls)
  <1> DEFINE c == calls
             d == calls'
             o == Outer
             f == Top
             g == Top'
  <1>1. /\ Control' /\ Len(d) = Len(c) /\ \A i \in 1..(Len(c) - 1) : d[i] = c[i]
        /\ g.block = f.block /\ g.part = f.part /\ g.at = f.at + 1
    BY AdvanceControl
  <1>2. /\ Len(c) \in Nat \ {0} /\ Len(o) = Len(c) - 1 /\ SameFirst(c, o, Len(o))
        /\ IsSequence(Pending(o))
    BY CallsLeft
  <1>3. SameFirst(d, o, Len(o))
    BY <1>1, <1>2 DEF SameFirst
  <1>4. f = c[Len(c)] /\ g = d[Len(d)] /\ Body(f) \in BlockLists /\ f.at \in 1..Len(Body(f))
        /\ f.at \in Nat /\ Len(Body(f)) \in Nat
    BY TopFacts DEF Top, Control
  <1>5. IsSequence(Pending(d))
    <2>1. calls' \in Seq(Frames) /\ \A i \in 1..Len(calls') : Matches(calls'[i])
      BY <1>1 DEF Control, CallsFollowTree
    <2>2. IsSequence(Pending(calls'))
      BY <2>1, FramesLeft
    <2> QED BY <2>2
  <1>6. /\ Todo' = Current' \o Pending(d)
        /\ pc' = "block" => Current' = <<Task(Body(g)[g.at])>>
        /\ pc' \in {"test", "tail"} => Current' = << >>
    BY DEF Todo, Current, Block
  <1>7. Body(g) = Body(f)
    BY <1>1, SameFrame
  <1>8. /\ f.at < Len(Body(f)) => pc' = "block"
        /\ ~ (f.at < Len(Body(f))) => pc' \in {"test", "tail"}
    BY DEF Continue
  <1> HIDE DEF c, d, o, f, g
  <1>9. Pending(c) = IF f.at < Len(Body(f)) THEN <<Task(Body(f)[g.at])>> \o Pending(d)
                     ELSE Pending(d)
    <2>1. /\ Len(c) \in Nat \ {0} /\ Len(d) = Len(c) /\ Len(o) = Len(c) - 1
          /\ SameFirst(c, o, Len(o)) /\ SameFirst(d, o, Len(o)) /\ IsSequence(Pending(o))
      BY <1>1, <1>2, <1>3
    <2>2. f = c[Len(c)] /\ g = d[Len(c)]
      BY <2>1, <1>4
    <2>3. /\ Body(f) \in BlockLists /\ f.at \in 1..Len(Body(f))
          /\ g.block = f.block /\ g.part = f.part /\ g.at = f.at + 1
      BY <1>1, <1>4
    <2> QED BY ONLY <2>1, <2>2, <2>3, PendingAdvanced
  <1>10. Todo' = Pending(c)
    <2>1. CASE f.at < Len(Body(f))
      BY <2>1, <1>6, <1>7, <1>8, <1>9
    <2>2. CASE ~ (f.at < Len(Body(f)))
      <3>1. Todo' = << >> \o Pending(d) /\ Pending(c) = Pending(d)
        BY <2>2, <1>6, <1>8, <1>9
      <3> QED BY <3>1, <1>5, Joined
    <2> QED BY <2>1, <2>2
  <1> QED BY <1>10 DEF c

(* a list is started inside the current block, or again *)
LEMMA StartLeft ==
  ASSUME NEW o, Len(o) \in Nat, Len(calls') = Len(o) + 1, SameFirst(calls', o, Len(o)),
         IsSequence(Pending(o)), NEW f, Top' = f, pc' = "span", k' = 0,
         Body(f) \in BlockLists, f.at = 1
  PROVE  Todo' = (IF f.part = "loop" THEN ListTasks(Body(f)) \o <<Task(f.block)>>
                                     ELSE ListTasks(Body(f))) \o Pending(o)
  <1> DEFINE c == calls'
  <1>1. f = c[Len(c)] /\ Len(c) \in Nat \ {0} /\ Len(o) = Len(c) - 1
    BY DEF Top
  <1>2. Block' = Body(f)[1]
    BY DEF Block
  <1>3. Todo' = SpanTasks(Body(f)[1], 1) \o Pending(c)
    BY <1>2 DEF Todo, Current
  <1>4. SameFirst(c, o, Len(o))
    OBVIOUS
  <1> HIDE DEF c
  <1>5. SpanTasks(Body(f)[1], 1) \o Pending(c) =
          (IF f.part = "loop" THEN ListTasks(Body(f)) \o <<Task(f.block)>>
                              ELSE ListTasks(Body(f))) \o Pending(o)
    BY <1>1, <1>4, PendingStarted
  <1> QED BY <1>3, <1>5

(* a control block is entered *)
LEMMA EnterLeft ==
  ASSUME Control, calls # << >>, UNCHANGED root, NEW part \in Parts, Enter(part),
         Top.at \in 2..Len(Body(Top)), Matches(Frame(Block, part))
  PROVE  Todo' = (IF part = "loop" THEN ListTasks(Body(Frame(Block, part))) \o <<Task(Block)>>
                                   ELSE ListTasks(Body(Frame(Block, part)))) \o Pending(calls)
  <1> DEFINE f == Frame(Block, part)
  <1>1. /\ Control' /\ pc' = "span" /\ k' = 0 /\ Len(calls') = Len(calls) + 1 /\ Top' = f
        /\ \A i \in 1..Len(calls) : calls'[i] = calls[i] /\ calls' # << >>
    BY EnterControl
  <1>2. Len(calls) \in Nat /\ IsSequence(Pending(calls))
    BY CallsLeft
  <1>3. SameFirst(calls', calls, Len(calls))
    BY <1>1 DEF SameFirst
  <1>4. f.at = 1 /\ f.block = Block /\ f.part = part
    BY DEF Frame
  <1>5. Body(f) \in BlockLists
    <2>1. Body(Top) \in BlockLists /\ Len(Body(Top)) \in Nat
      BY TopFacts DEF Control
    <2>2. Block \in BlockSet
      BY <2>1, BlockOfList DEF Block
    <2>3. f \in Frames /\ Matches(f)
      BY <2>2 DEF Frames, Frame
    <2> QED BY <2>3, BodyIsList
  <1> HIDE DEF f
  <1>6. Todo' = (IF f.part = "loop" THEN ListTasks(Body(f)) \o <<Task(f.block)>>
                                    ELSE ListTasks(Body(f))) \o Pending(calls)
    BY <1>1, <1>2, <1>3, <1>4, <1>5, StartLeft
  <1> QED BY <1>4, <1>6 DEF f

(* a loop goes round again, or is left for its skip block *)
LEMMA ReenterLeft ==
  ASSUME Control, calls # << >>, UNCHANGED root, NEW part \in {"loop", "exit"},
         calls' = Append(Outer, Frame(Top.block, part)), pc' = "span", k' = 0,
         Top.part = "loop"
  PROVE  Todo' = (IF part = "loop" THEN ListTasks(Top.block.body) \o <<Task(Top.block)>>
                                   ELSE ListTasks(Top.block.skip)) \o Pending(Outer)
  <1> DEFINE f == Frame(Top.block, part)
             o == Outer
  <1>1. /\ Control' /\ Len(calls') = Len(calls) /\ Top' = f
        /\ \A i \in 1..(Len(calls) - 1) : calls'[i] = calls[i]
    BY ReenterControl
  <1>2. /\ Len(calls) \in Nat \ {0} /\ Len(o) = Len(calls) - 1 /\ IsSequence(Pending(o))
        /\ SameFirst(calls, o, Len(o))
    BY CallsLeft
  <1>3. SameFirst(calls', o, Len(o))
    BY <1>1, <1>2 DEF SameFirst
  <1>4. f.at = 1 /\ f.block = Top.block /\ f.part = part
    BY DEF Frame
  <1>5. Body(f) = IF part = "loop" THEN Top.block.body ELSE Top.block.skip
    BY <1>4 DEF Body
  <1>6. Body(f) \in BlockLists
    <2>1. Top \in Frames /\ Matches(Top) /\ Top.block \in BlockSet
      BY TopFacts DEF Control
    <2>2. f \in Frames /\ Matches(f)
      BY <2>1 DEF Frames, Frame, Matches, Parts
    <2> QED BY <2>2, BodyIsList
  <1> HIDE DEF f, o
  <1>7. Todo' = (IF f.part = "loop" THEN ListTasks(Body(f)) \o <<Task(f.block)>>
                                    ELSE ListTasks(Body(f))) \o Pending(o)
    BY <1>1, <1>2, <1>3, <1>4, <1>6, StartLeft
  <1> QED BY <1>4, <1>5, <1>7 DEF o

(* a control block is left *)
LEMMA CloseLeft ==
  ASSUME Control, AtPlace, pc = "end", calls' = Outer, pc' = "hacc"
  PROVE  Todo' = Todo
  <1>1. calls # << >> /\ Top.part # "loop" /\ Top.at = Len(Body(Top)) + 1
    BY DEF AtPlace
  <1>2. Body(Top) \in BlockLists /\ Len(Body(Top)) \in Nat /\ Top.at \in Nat
    BY <1>1, TopFacts DEF Control
  <1>3. IsSequence(Pending(Outer)) /\ Pending(calls) = After(Top) \o Pending(Outer)
        /\ IsSequence(Pending(calls))
    BY <1>1, CallsLeft
  <1>4. After(Top) = << >>
    <2> DEFINE f == Top
    <2>1. Body(f) \in BlockLists /\ f.at \in Nat /\ f.at >= Len(Body(f)) /\ f.part # "loop"
      BY <1>1, <1>2
    <2> HIDE DEF f
    <2>2. After(f) = << >>
      BY <2>1, AfterFrame
    <2> QED BY <2>2 DEF f
  <1>5. Todo = << >> \o Pending(calls) /\ Todo' = << >> \o Pending(Outer)
    BY DEF Todo, Current
  <1> QED BY <1>3, <1>4, <1>5, Joined

(* the place in the round constants of RESCR is that in the span *)
LEMMA PlaceOfRound ==
  ASSUME ControlLayer, pc = "span"
  PROVE  stackStep % RescueCycle = k % RescueCycle
  <1>1. /\ step \in Nat /\ k \in Nat /\ step % CycleLength = k % CycleLength
        /\ stackStep = step
    BY LayerParts DEF Alignment, PlaceInCycle, TracesInLockstep
  <1> QED BY <1>1, SameRound
-----------------------------------------------------------------------------
(* The structured program computes with the lists and the tasks of the     *)
(* processor, and looks at the condition that it looks at.                 *)
LEMMA SameMeaning ==
  /\ \A op, hint, pos : Semantics!Run(op, hint, pos) <=> List!Run(op, hint, pos)
  /\ \A op, hint : Semantics!Failure(op, hint) = List!Failure(op, hint)
  /\ \A list : Semantics!ListTasks(list) = ListTasks(list)
  /\ \A span, n : Semantics!SpanTasks(span, n) = SpanTasks(span, n)
  <1>1. \A op, hint, pos : Semantics!Run(op, hint, pos) <=> List!Run(op, hint, pos)
    BY DEF List!Run, Semantics!Run,
           List!Failure, Semantics!Failure, List!Result, Semantics!Result,
           List!PreparedA, Semantics!PreparedA, List!PreparedB, Semantics!PreparedB,
           List!EmptyTape, Semantics!EmptyTape, List!Defined, Semantics!Defined,
           List!Rest, Semantics!Rest, List!Compared, Semantics!Compared,
           List!Needed, Semantics!Needed, List!Added, Semantics!Added,
           List!ValidHint, Semantics!ValidHint,
           List!LowBitsFirst, Semantics!LowBitsFirst,
           List!HighBitsFirst, Semantics!HighBitsFirst,
           List!EqWitness, Semantics!EqWitness, List!Interlaced, Semantics!Interlaced,
           List!ReadsA, Semantics!ReadsA, List!ReadsB, Semantics!ReadsB,
           List!Add, Semantics!Add, List!Sub, Semantics!Sub, List!Mul, Semantics!Mul,
           List!Inv, Semantics!Inv, List!Neg, Semantics!Neg,
           List!IsBinary, Semantics!IsBinary, List!IsPowerOfTwo, Semantics!IsPowerOfTwo,
           List!Elements, Semantics!Elements, List!Bit, Semantics!Bit
  <1>2. \A op, hint : Semantics!Failure(op, hint) = List!Failure(op, hint)
    BY DEF List!Failure, Semantics!Failure,
           List!PreparedA, Semantics!PreparedA, List!PreparedB, Semantics!PreparedB,
           List!EmptyTape, Semantics!EmptyTape, List!Defined, Semantics!Defined,
           List!Needed, Semantics!Needed, List!Added, Semantics!Added,
           List!ValidHint, Semantics!ValidHint,
           List!LowBitsFirst, Semantics!LowBitsFirst,
           List!HighBitsFirst, Semantics!HighBitsFirst,
           List!EqWitness, Semantics!EqWitness, List!Interlaced, Semantics!Interlaced,
           List!ReadsA, Semantics!ReadsA, List!ReadsB, Semantics!ReadsB,
           List!Add, Semantics!Add, List!Sub, Semantics!Sub, List!Mul, Semantics!Mul,
           List!Inv, Semantics!Inv,
           List!IsBinary, Semantics!IsBinary, List!IsPowerOfTwo, Semantics!IsPowerOfTwo,
           List!Elements, Semantics!Elements, List!Bit, Semantics!Bit
  <1>3. \A span, n : Semantics!SpanTasks(span, n) = SpanTasks(span, n)
    BY DEF Semantics!SpanTasks, SpanTasks, Semantics!OpTask, OpTask
  <1>4. \A list : Semantics!ListTasks(list) = ListTasks(list)
    BY DEF Semantics!ListTasks, ListTasks, Semantics!SpanTasks, SpanTasks,
           Semantics!OpTask, OpTask, Semantics!BlockTasks, BlockTasks, Semantics!Task, Task
  <1> QED BY <1>1, <1>2, <1>3, <1>4

LEMMA SameCondition ==
  ASSUME StackOK
  PROVE  /\ Semantics!Condition = StackTop /\ StackTop \in Elements
         /\ Semantics!IsBinary(StackTop) <=> IsBinary(StackTop)
  <1>1. RowOK
    BY DEF StackOK, StackTypeOK, RowOK
  <1>2. /\ depth \in Nat /\ Items \in Seq(Elements) /\ Len(Items) = depth
        /\ \A j \in 1..depth : Items[j] = regs[j - 1]
    BY <1>1, ItemsList
  <1>3. regs \in [Slots -> Elements] /\ 0 \in Slots
    <2>1. MaxStackDepth \in Nat \ {0}
      BY StackAssumption
    <2> QED BY <1>1, <2>1 DEF RowOK, Slots
  <1>4. CASE Items = << >>
    <2>1. depth = 0
      BY <1>2, <1>4, EmptySeq
    <2>2. regs[0] = 0
      BY <1>1, <1>3, <2>1 DEF RowOK, FreeRegistersAreZero
    <2> QED BY <1>3, <1>4, <2>2 DEF Semantics!Condition, StackTop, Semantics!IsBinary, IsBinary
  <1>5. CASE Items # << >>
    <2>1. depth # 0 /\ 1 \in 1..depth
      BY <1>2, <1>5, EmptySeq
    <2>2. Items[1] = regs[1 - 1] /\ 1 - 1 = 0
      BY <1>2, <2>1
    <2> QED BY <1>3, <1>5, <2>2 DEF Semantics!Condition, StackTop, Semantics!IsBinary, IsBinary
  <1> QED BY <1>4, <1>5

(* A NOOP leaves the stack and the tapes as they are. *)
LEMMA NoopKeepsItems ==
  ASSUME StackOK, FlowNoop
  PROVE  UNCHANGED <<Items, tapeA, tapeB>>
  <1>1. regs' = regs /\ depth' = depth
    BY NoopKeepsRow
  <1>2. tapeA' = tapeA /\ tapeB' = tapeB
    BY DEF FlowNoop, Execute, ReadsA, ReadsB
  <1> QED BY <1>1, <1>2 DEF Items

(* the interpreter has neither returned nor panicked *)
LEMMA StillRunning ==
  ASSUME fault = "none", pc # "done"
  PROVE  /\ Outcome = "running"
         /\ UNCHANGED fault /\ pc' # "done" => Outcome' = Outcome
  BY DEF Outcome

(* What the structured program cannot tell. *)
LEMMA Unnoticed ==
  ASSUME UNCHANGED <<Items, tapeA, tapeB>>, Todo' = Todo, Outcome' = Outcome
  PROVE  UNCHANGED Semantics!semVars
  BY DEF Semantics!semVars, Semantics!specVars
-----------------------------------------------------------------------------
(* What each step of the interpreter is of the structured program.         *)
Means == [Semantics!SemanticsNext]_(Semantics!semVars)

LEMMA SpanOpMeans == ASSUME ControlLayer, fault = "none", SpanOp PROVE Means
  <1> DEFINE instr == Block.code[k + 1]
             t == OpTask(instr, k)
  <1>1. /\ pc = "span" /\ UNCHANGED <<root, fault>> /\ Execute(instr.op, instr.hint)
        /\ StackFault(instr.op, instr.hint) = "none"
    BY DEF SpanOp, PendingFault
  <1>2. /\ Control /\ calls # << >> /\ Top.at \in 1..Len(Body(Top)) /\ WellFormed(instr.hint)
    BY <1>1, CurrentInstr
  <1>3. List!Run(instr.op, instr.hint, stackStep % RescueCycle)
    <2> HIDE DEF instr
    <2> QED BY <1>1, <1>2, ExecuteIsRun, LayerParts
  <1>4. Todo # << >> /\ Head(Todo) = t /\ Tail(Todo) = SpanTasks(Block, k + 1 + 1) \o Pending(calls)
        /\ (k + 1 >= Len(Block.code) => Tail(Todo) = Pending(calls))
    BY <1>1, InstrLeft
  <1>5. Todo' = Tail(Todo) /\ pc' # "done"
    <2>1. CASE k + 1 < Len(Block.code)
      <3>1. k' = k + 1 /\ UNCHANGED <<calls, pc>>
        BY <2>1 DEF SpanOp
      <3>2. Todo' = SpanTasks(Block, k + 1 + 1) \o Pending(calls)
        BY <1>1, <3>1 DEF Todo, Current, Block, Top
      <3> QED BY <1>1, <1>4, <3>1, <3>2
    <2>2. CASE ~ (k + 1 < Len(Block.code))
      <3>1. calls' = [calls EXCEPT ![Len(calls)].at = @ + 1] /\ pc' = Continue(Top, Top.at)
        BY <2>2 DEF SpanOp
      <3>2. Todo' = Pending(calls)
        BY <1>1, <1>2, <3>1, AdvanceLeft
      <3>3. Len(Block.code) \in Nat /\ k \in Nat
        BY <1>1, CurrentInstr, LayerParts
      <3>4. k + 1 >= Len(Block.code)
        BY <2>2, <3>3
      <3> QED BY <1>4, <3>1, <3>2, <3>4 DEF Continue
    <2> QED BY <2>1, <2>2
  <1>6. t.kind = "op" /\ t.of = instr /\ t.pos = k
    BY DEF OpTask
  <1>7. Semantics!Run(t.of.op, t.of.hint, t.pos % RescueCycle)
    <2>1. Semantics!Run(instr.op, instr.hint, stackStep % RescueCycle)
      BY <1>3, SameMeaning
    <2> QED BY <1>1, <1>6, <2>1, PlaceOfRound
  <1>8. Outcome = "running" /\ Outcome' = Outcome
    BY <1>1, <1>5, StillRunning
  <1> HIDE DEF t
  <1> QED BY <1>4, <1>5, <1>6, <1>7, <1>8 DEF Means, Semantics!SemanticsNext, Semantics!DoOp

(* the stack and the program in a step that only moves in the tree *)
LEMMA FlowStep ==
  ASSUME ControlLayer, FlowNoop
  PROVE  UNCHANGED <<Items, tapeA, tapeB>>
  BY NoopKeepsItems, LayerParts

LEMMA PadSpanMeans == ASSUME ControlLayer, fault = "none", PadSpan PROVE Means
  <1>1. /\ pc = "block" /\ Block.kind = "span" /\ pc' = "span" /\ k' = 0
        /\ UNCHANGED <<root, calls, fault>> /\ FlowNoop
    BY DEF PadSpan, UserNoop, FlowNoop
  <1>2. /\ Todo # << >> /\ Tail(Todo) = Pending(calls)
        /\ Head(Todo).kind = "span" /\ Head(Todo).of = Block
    BY <1>1, BlockLeft, LayerParts
  <1>3. Todo' = SpanTasks(Block, 1) \o Pending(calls)
    BY <1>1 DEF Todo, Current, Block, Top
  <1>4. Todo' = Semantics!SpanTasks(Head(Todo).of, 1) \o Tail(Todo)
    BY <1>2, <1>3, SameMeaning
  <1>5. Outcome = "running" /\ Outcome' = Outcome
    BY <1>1, StillRunning
  <1>6. UNCHANGED <<Items, tapeA, tapeB>>
    BY <1>1, FlowStep
  <1> QED BY <1>2, <1>4, <1>5, <1>6
          DEF Means, Semantics!SemanticsNext, Semantics!DoSpan, Semantics!Unfold,
              Semantics!specVars

(* what entering a control block has in common *)
LEMMA EnterMeans ==
  ASSUME ControlLayer, fault = "none", pc = "block", FlowNoop, UNCHANGED <<root, fault>>,
         NEW part \in Parts, Enter(part), Matches(Frame(Block, part))
  PROVE  /\ Todo # << >> /\ Head(Todo) = Task(Block)
         /\ Head(Todo).kind = Block.kind /\ Head(Todo).of = Block
         /\ Todo' = (IF part = "loop"
                     THEN Semantics!ListTasks(Body(Frame(Block, part))) \o <<Head(Todo)>>
                     ELSE Semantics!ListTasks(Body(Frame(Block, part)))) \o Tail(Todo)
         /\ Outcome = "running" /\ Outcome' = Outcome
         /\ UNCHANGED <<Items, tapeA, tapeB>>
         /\ Semantics!Condition = StackTop
  <1>1. Control /\ calls # << >> /\ Top.at \in 2..Len(Body(Top))
    BY LayerParts DEF AtPlace
  <1>2. /\ Todo # << >> /\ Head(Todo) = Task(Block) /\ Tail(Todo) = Pending(calls)
        /\ Head(Todo).kind = Block.kind /\ Head(Todo).of = Block
    BY <1>1, BlockLeft
  <1>3. Todo' = (IF part = "loop" THEN ListTasks(Body(Frame(Block, part))) \o <<Task(Block)>>
                 ELSE ListTasks(Body(Frame(Block, part)))) \o Pending(calls)
    BY <1>1, EnterLeft
  <1>4. Semantics!ListTasks(Body(Frame(Block, part))) = ListTasks(Body(Frame(Block, part)))
    BY SameMeaning
  <1>5. Outcome = "running" /\ Outcome' = Outcome
    BY StillRunning DEF Enter
  <1>6. UNCHANGED <<Items, tapeA, tapeB>>
    BY FlowStep
  <1>7. Semantics!Condition = StackTop
    BY SameCondition, LayerParts
  <1> QED BY <1>2, <1>3, <1>4, <1>5, <1>6, <1>7

LEMMA StartGroupMeans == ASSUME ControlLayer, fault = "none", StartGroup PROVE Means
  <1>1. /\ pc = "block" /\ Enter("group") /\ FlowNoop
        /\ Block.kind = "group" /\ UNCHANGED <<root, fault>>
    BY DEF StartGroup
  <1>2. Matches(Frame(Block, "group")) /\ "group" \in Parts /\ "group" # "loop"
        /\ Body(Frame(Block, "group")) = Block.body
    BY <1>1 DEF Matches, Frame, Parts, Body
  <1>3. /\ Todo # << >> /\ Head(Todo).kind = "group" /\ Head(Todo).of = Block
        /\ Todo' = Semantics!ListTasks(Block.body) \o Tail(Todo)
        /\ Outcome = "running" /\ Outcome' = Outcome
        /\ UNCHANGED <<Items, tapeA, tapeB>>
    BY <1>1, <1>2, EnterMeans
  <1> QED BY <1>3
          DEF Means, Semantics!SemanticsNext, Semantics!DoGroup, Semantics!Unfold,
              Semantics!specVars

LEMMA StartSwitchMeans == ASSUME ControlLayer, fault = "none", StartSwitch PROVE Means
  <1>1. /\ pc = "block" /\ Enter(IF StackTop = 1 THEN "true" ELSE "false") /\ FlowNoop
        /\ Block.kind = "switch" /\ UNCHANGED <<root, fault>>
        /\ PendingFault = "none"
    BY DEF StartSwitch
  <1>2. StackTop = 1 \/ StackTop = 0
    BY <1>1 DEF PendingFault, IsBinary
  <1>3. CASE StackTop = 1
    <2>1. Enter("true")
      BY <1>1, <1>3
    <2>2. Matches(Frame(Block, "true")) /\ "true" \in Parts /\ "true" # "loop"
          /\ Body(Frame(Block, "true")) = Block.t_branch
      BY <1>1 DEF Matches, Frame, Parts, Body
    <2>3. /\ Todo # << >> /\ Head(Todo).kind = "switch" /\ Head(Todo).of = Block
          /\ Todo' = Semantics!ListTasks(Block.t_branch) \o Tail(Todo)
          /\ Outcome = "running" /\ Outcome' = Outcome
          /\ UNCHANGED <<Items, tapeA, tapeB>>
          /\ Semantics!Condition = 1
      BY <1>1, <1>3, <2>1, <2>2, EnterMeans
    <2> QED BY <2>3
            DEF Means, Semantics!SemanticsNext, Semantics!DoSwitch, Semantics!Unfold,
                Semantics!specVars
  <1>4. CASE StackTop = 0
    <2>1. Enter("false")
      BY <1>1, <1>4
    <2>2. Matches(Frame(Block, "false")) /\ "false" \in Parts /\ "false" # "loop"
          /\ Body(Frame(Block, "false")) = Block.f_branch
      BY <1>1 DEF Matches, Frame, Parts, Body
    <2>3. /\ Todo # << >> /\ Head(Todo).kind = "switch" /\ Head(Todo).of = Block
          /\ Todo' = Semantics!ListTasks(Block.f_branch) \o Tail(Todo)
          /\ Outcome = "running" /\ Outcome' = Outcome
          /\ UNCHANGED <<Items, tapeA, tapeB>>
          /\ Semantics!Condition = 0
      BY <1>1, <1>4, <2>1, <2>2, EnterMeans
    <2> QED BY <2>3
            DEF Means, Semantics!SemanticsNext, Semantics!DoSwitch, Semantics!Unfold,
                Semantics!specVars
  <1> QED BY <1>2, <1>3, <1>4

LEMMA SkipLoopMeans == ASSUME ControlLayer, fault = "none", SkipLoop PROVE Means
  <1>1. /\ pc = "block" /\ Enter("skip") /\ FlowNoop /\ StackTop = 0
        /\ Block.kind = "loop" /\ UNCHANGED <<root, fault>>
    BY DEF SkipLoop
  <1>2. Matches(Frame(Block, "skip")) /\ "skip" \in Parts /\ "skip" # "loop"
        /\ Body(Frame(Block, "skip")) = Block.skip
    BY <1>1 DEF Matches, Frame, Parts, Body
  <1>3. /\ Todo # << >> /\ Head(Todo).kind = "loop" /\ Head(Todo).of = Block
        /\ Todo' = Semantics!ListTasks(Block.skip) \o Tail(Todo)
        /\ Outcome = "running" /\ Outcome' = Outcome
        /\ UNCHANGED <<Items, tapeA, tapeB>>
        /\ Semantics!Condition = 0
    BY <1>1, <1>2, EnterMeans
  <1> QED BY <1>3
          DEF Means, Semantics!SemanticsNext, Semantics!DoLoop, Semantics!Unfold,
              Semantics!specVars

LEMMA EnterLoopMeans == ASSUME ControlLayer, fault = "none", EnterLoop PROVE Means
  <1>1. /\ pc = "block" /\ Enter("loop") /\ FlowNoop /\ StackTop = 1
        /\ Block.kind = "loop" /\ UNCHANGED <<root, fault>>
    BY DEF EnterLoop
  <1>2. Matches(Frame(Block, "loop")) /\ "loop" \in Parts
        /\ Body(Frame(Block, "loop")) = Block.body
    BY <1>1 DEF Matches, Frame, Parts, Body
  <1>3. /\ Todo # << >> /\ Head(Todo).kind = "loop" /\ Head(Todo).of = Block
        /\ Todo' = (Semantics!ListTasks(Block.body) \o <<Head(Todo)>>) \o Tail(Todo)
        /\ Outcome = "running" /\ Outcome' = Outcome
        /\ UNCHANGED <<Items, tapeA, tapeB>>
        /\ Semantics!Condition = 1
    BY <1>1, <1>2, EnterMeans
  <1> QED BY <1>3
          DEF Means, Semantics!SemanticsNext, Semantics!DoLoop, Semantics!Unfold,
              Semantics!specVars

(* what the two ends of an iteration have in common *)
LEMMA ReenterMeans ==
  ASSUME ControlLayer, fault = "none", pc = "test", FlowNoop, UNCHANGED <<root, fault>>,
         NEW part \in {"loop", "exit"},
         calls' = Append(Outer, Frame(Top.block, part)), pc' = "span", k' = 0
  PROVE  /\ Todo # << >> /\ Head(Todo).kind = "loop" /\ Head(Todo).of = Top.block
         /\ Todo' = (IF part = "loop"
                     THEN Semantics!ListTasks(Top.block.body) \o <<Head(Todo)>>
                     ELSE Semantics!ListTasks(Top.block.skip)) \o Tail(Todo)
         /\ Outcome = "running" /\ Outcome' = Outcome
         /\ UNCHANGED <<Items, tapeA, tapeB>>
         /\ Semantics!Condition = StackTop
  <1>1. Control /\ AtPlace
    BY LayerParts
  <1>2. /\ calls # << >> /\ Top.part = "loop"
        /\ Todo # << >> /\ Head(Todo) = Task(Top.block) /\ Tail(Todo) = Pending(Outer)
        /\ Head(Todo).kind = "loop" /\ Head(Todo).of = Top.block
    BY <1>1, TestLeft
  <1>3. Todo' = (IF part = "loop" THEN ListTasks(Top.block.body) \o <<Task(Top.block)>>
                                  ELSE ListTasks(Top.block.skip)) \o Pending(Outer)
    BY <1>1, <1>2, ReenterLeft
  <1>4. /\ Semantics!ListTasks(Top.block.body) = ListTasks(Top.block.body)
        /\ Semantics!ListTasks(Top.block.skip) = ListTasks(Top.block.skip)
    BY SameMeaning
  <1>5. Outcome = "running" /\ Outcome' = Outcome
    BY StillRunning
  <1>6. UNCHANGED <<Items, tapeA, tapeB>>
    BY FlowStep
  <1>7. Semantics!Condition = StackTop
    BY SameCondition, LayerParts
  <1> QED BY <1>2, <1>3, <1>4, <1>5, <1>6, <1>7

LEMMA RepeatLoopMeans == ASSUME ControlLayer, fault = "none", RepeatLoop PROVE Means
  <1>1. /\ pc = "test" /\ FlowNoop /\ UNCHANGED <<root, fault>> /\ StackTop = 1
        /\ calls' = Append(Outer, Frame(Top.block, "loop")) /\ pc' = "span" /\ k' = 0
    BY DEF RepeatLoop
  <1>2. /\ Todo # << >> /\ Head(Todo).kind = "loop" /\ Head(Todo).of = Top.block
        /\ Todo' = (Semantics!ListTasks(Top.block.body) \o <<Head(Todo)>>) \o Tail(Todo)
        /\ Outcome = "running" /\ Outcome' = Outcome
        /\ UNCHANGED <<Items, tapeA, tapeB>>
        /\ Semantics!Condition = 1
    BY <1>1, ReenterMeans
  <1> QED BY <1>2
          DEF Means, Semantics!SemanticsNext, Semantics!DoLoop, Semantics!Unfold,
              Semantics!specVars

LEMMA ExitLoopMeans == ASSUME ControlLayer, fault = "none", ExitLoop PROVE Means
  <1>1. /\ pc = "test" /\ FlowNoop /\ UNCHANGED <<root, fault>> /\ StackTop = 0
        /\ calls' = Append(Outer, Frame(Top.block, "exit")) /\ pc' = "span" /\ k' = 0
    BY DEF ExitLoop
  <1>2. /\ Todo # << >> /\ Head(Todo).kind = "loop" /\ Head(Todo).of = Top.block
        /\ Todo' = Semantics!ListTasks(Top.block.skip) \o Tail(Todo)
        /\ Outcome = "running" /\ Outcome' = Outcome
        /\ UNCHANGED <<Items, tapeA, tapeB>>
        /\ Semantics!Condition = 0
    BY <1>1, ReenterMeans
  <1> QED BY <1>2
          DEF Means, Semantics!SemanticsNext, Semantics!DoLoop, Semantics!Unfold,
              Semantics!specVars

(* The program does not notice how a block is padded, hashed and left. *)
LEMMA CompleteCycleMeans == ASSUME ControlLayer, fault = "none", CompleteCycle PROVE Means
  <1>1. pc = "tail" /\ pc' = "end" /\ UNCHANGED <<calls, fault>> /\ FlowNoop
    BY DEF CompleteCycle, UserNoop, FlowNoop
  <1>2. Todo' = Todo
    BY <1>1 DEF Todo, Current
  <1>3. Outcome' = Outcome
    BY <1>1, StillRunning
  <1>4. UNCHANGED <<Items, tapeA, tapeB>>
    BY <1>1, FlowStep
  <1> QED BY <1>2, <1>3, <1>4, Unnoticed DEF Means

LEMMA CloseBlockMeans == ASSUME ControlLayer, fault = "none", CloseBlock PROVE Means
  <1>1. pc = "end" /\ pc' = "hacc" /\ calls' = Outer /\ UNCHANGED fault /\ FlowNoop
    BY DEF CloseBlock
  <1>2. Todo' = Todo
    BY <1>1, CloseLeft, LayerParts
  <1>3. Outcome' = Outcome
    BY <1>1, StillRunning
  <1>4. UNCHANGED <<Items, tapeA, tapeB>>
    BY <1>1, FlowStep
  <1> QED BY <1>2, <1>3, <1>4, Unnoticed DEF Means

LEMMA MergeRoundMeans == ASSUME ControlLayer, fault = "none", MergeRound PROVE Means
  <1>1. pc = "hacc" /\ UNCHANGED <<root, fault>> /\ FlowNoop
    BY DEF MergeRound, UserNoop, FlowNoop
  <1>2. Control /\ IsSequence(Pending(calls))
    BY LayerParts, CallsLeft
  <1>3. Todo = << >> \o Pending(calls)
    BY <1>1 DEF Todo, Current
  <1>4. Todo' = Todo /\ pc' # "done"
    <2>1. CASE UNCHANGED calls /\ pc' \in {"hacc", "finalize"}
      BY <1>1, <2>1 DEF Todo, Current
    <2>2. CASE ~ (UNCHANGED calls /\ pc' \in {"hacc", "finalize"})
      <3>1. /\ calls # << >>
            /\ calls' = [calls EXCEPT ![Len(calls)].at = @ + 1]
            /\ pc' = Continue(Top, Top.at)
        BY <1>1, <2>2 DEF MergeRound
      <3>2. Top.at \in 2..Len(Body(Top))
        BY <1>1, <3>1, LayerParts DEF AtPlace
      <3>3. Top.at \in 1..Len(Body(Top))
        BY <1>2, <3>1, <3>2, TopFacts DEF Control
      <3>4. Todo' = Pending(calls)
        BY <1>1, <1>2, <3>1, <3>3, AdvanceLeft
      <3>5. Todo = Pending(calls)
        BY <1>2, <1>3, Joined
      <3> QED BY <3>1, <3>4, <3>5 DEF Continue
    <2> QED BY <2>1, <2>2
  <1>5. Outcome' = Outcome
    BY <1>1, <1>4, StillRunning
  <1>6. UNCHANGED <<Items, tapeA, tapeB>>
    BY <1>1, FlowStep
  <1> QED BY <1>4, <1>5, <1>6, Unnoticed DEF Means

(* The trace is finalized when nothing is left. *)
LEMMA FinalizeMeans == ASSUME ControlLayer, fault = "none", FinalizeTrace PROVE Means
  <1>1. /\ pc = "finalize" /\ pc' = "done" /\ UNCHANGED <<root, calls, k, fault>>
        /\ UNCHANGED <<regs, depth, tapeA, tapeB>>
    BY DEF FinalizeTrace, FinalizeStack
  <1>2. calls = << >>
    BY <1>1, LayerParts DEF AtPlace
  <1>3. Todo = << >> /\ Todo' = << >>
    <2>1. Len(calls) = 0 /\ 0 \in Nat
      BY <1>2
    <2>2. Pending(calls) = << >> /\ IsSequence(<< >>)
      BY <2>1, PendingOfFrames, EmptySeq, IsSequenceOf
    <2>3. Todo = << >> \o Pending(calls) /\ Todo' = << >> \o Pending(calls)
      BY <1>1 DEF Todo, Current
    <2> QED BY <2>2, <2>3, Joined
  <1>4. Outcome = "running" /\ Outcome' = "done"
    BY <1>1 DEF Outcome
  <1>5. UNCHANGED <<Items, tapeA, tapeB>>
    BY <1>1 DEF Items
  <1> QED BY <1>3, <1>4, <1>5
          DEF Means, Semantics!SemanticsNext, Semantics!Finish, Semantics!specVars

(* A panic is a failure of the program, or a block nested too deep. *)
LEMMA PanicMeans ==
  ASSUME ControlLayer, DecoderAccepts, fault = "none", Panic
  PROVE  Means
  <1>1. /\ PendingFault # "none" /\ fault' = PendingFault
        /\ UNCHANGED <<regs, depth, tapeA, tapeB, root, calls, pc, k>>
    BY DEF Panic, stackVars
  <1>2. PendingFault \notin {"alignment", "push alignment", "op value",
                             "context underflow", "loop underflow", "loop image"}
    BY DEF DecoderAccepts
  <1>3. UNCHANGED <<Items, tapeA, tapeB, Todo>>
    BY <1>1 DEF Items, Todo, Current, Block, Top
  <1>4. pc \in {"span", "block", "test"}
    <2>1. pc = "end" => PendingFault = EndBlockFault
      BY DEF PendingFault
    <2>2. EndBlockFault \in {"none", "alignment", "context underflow"}
      BY DEF EndBlockFault
    <2> QED BY <1>1, <1>2, <2>1, <2>2 DEF PendingFault
  <1>5. Outcome = "running" /\ Outcome' = PendingFault
    BY <1>1, <1>4 DEF Outcome
  <1>6. CASE pc = "span"
    <2> DEFINE instr == Block.code[k + 1]
               d == DecodeOpFault(instr.op, HintValue(instr.hint))
    <2>1. d \in {"none", "op value", "push alignment"}
      BY DEF DecodeOpFault
    <2>2. PendingFault = IF d # "none" THEN d ELSE StackFault(instr.op, instr.hint)
      BY <1>6 DEF PendingFault
    <2>3. PendingFault = StackFault(instr.op, instr.hint)
      BY <1>2, <2>1, <2>2
    <2>4. WellFormed(instr.hint)
      BY <1>6, CurrentInstr
    <2>5. RowOK /\ TapesOK
      BY LayerParts DEF StackOK, StackTypeOK, RowOK, TapesOK
    <2>6. Todo # << >> /\ Head(Todo).kind = "op" /\ Head(Todo).of = instr
      BY <1>6, InstrLeft DEF OpTask
    <2> HIDE DEF instr, d
    <2>7. PendingFault = Semantics!Failure(instr.op, instr.hint)
      BY <2>3, <2>4, <2>5, FaultIsFailure, SameMeaning
    <2>8. Semantics!Fail
      BY <1>1, <1>3, <1>5, <2>6, <2>7 DEF Semantics!Fail, Semantics!specVars
    <2> QED BY <1>5, <2>6, <2>8 DEF Means, Semantics!SemanticsNext
  <1>7. CASE pc = "block"
    <2>1. Todo # << >> /\ Head(Todo).kind = Block.kind
      BY <1>7, BlockLeft, LayerParts
    <2>2. /\ Semantics!Condition = StackTop
          /\ Semantics!IsBinary(StackTop) <=> IsBinary(StackTop)
      BY SameCondition, LayerParts
    <2>3. Block.kind \in {"group", "switch", "loop"}
      BY <1>1, <1>7 DEF PendingFault
    <2>4. \/ PendingFault \in {StartBlockFault, StartLoopFault}
          \/ /\ Block.kind \in {"switch", "loop"} /\ ~ IsBinary(StackTop)
             /\ PendingFault = "condition"
      BY <1>1, <1>7, <2>3 DEF PendingFault
    <2>5. /\ StartBlockFault \in {"none", "alignment", "context overflow"}
          /\ StartLoopFault \in {"none", "alignment", "context overflow", "loop overflow"}
      BY DEF StartBlockFault, StartLoopFault
    <2>6. CASE PendingFault \in {StartBlockFault, StartLoopFault}
      <3>1. PendingFault \in {"context overflow", "loop overflow"}
        BY <1>1, <1>2, <2>5, <2>6
      <3>2. Semantics!Exhaust
        BY <1>3, <1>5, <2>1, <2>3, <3>1
        DEF Semantics!Exhaust, Semantics!ResourceLimits, Semantics!specVars
      <3> QED BY <1>5, <2>1, <3>2 DEF Means, Semantics!SemanticsNext
    <2>7. CASE /\ Block.kind \in {"switch", "loop"} /\ ~ IsBinary(StackTop)
               /\ PendingFault = "condition"
      <3>1. Semantics!Fail
        BY <1>3, <1>5, <2>1, <2>2, <2>7 DEF Semantics!Fail, Semantics!specVars
      <3> QED BY <1>5, <2>1, <3>1 DEF Means, Semantics!SemanticsNext
    <2> QED BY <2>4, <2>6, <2>7
  <1>8. CASE pc = "test"
    <2>1. Todo # << >> /\ Head(Todo).kind = "loop"
      BY <1>8, TestLeft, LayerParts
    <2>2. /\ Semantics!Condition = StackTop
          /\ Semantics!IsBinary(StackTop) <=> IsBinary(StackTop)
      BY SameCondition, LayerParts
    <2>3. IterationFault \in {"none", "alignment", "loop underflow", "loop image"}
      BY DEF IterationFault
    <2>4. ~ IsBinary(StackTop) /\ PendingFault = "condition"
      BY <1>1, <1>2, <1>8, <2>3 DEF PendingFault
    <2>5. Semantics!Fail
      BY <1>3, <1>5, <2>1, <2>2, <2>4 DEF Semantics!Fail, Semantics!specVars
    <2> QED BY <1>5, <2>1, <2>5 DEF Means, Semantics!SemanticsNext
  <1> QED BY <1>4, <1>6, <1>7, <1>8

LEMMA StepMeans ==
  ASSUME ControlLayer, DecoderAccepts, [Next]_vars
  PROVE  Means
  <1>1. CASE UNCHANGED vars
    <2>1. UNCHANGED <<regs, depth, tapeA, tapeB, root, calls, pc, k, fault>>
      BY <1>1 DEF vars, stackVars
    <2>2. UNCHANGED <<Items, tapeA, tapeB>> /\ Todo' = Todo /\ Outcome' = Outcome
      BY <2>1 DEF Items, Todo, Current, Block, Top, Outcome
    <2> QED BY <2>2, Unnoticed DEF Means
  <1>2. ASSUME fault = "none", Step PROVE Means
    <2>1. CASE SpanOp \/ PadSpan
      BY <1>2, <2>1, SpanOpMeans, PadSpanMeans
    <2>2. CASE StartGroup \/ StartSwitch \/ SkipLoop \/ EnterLoop
      BY <1>2, <2>2, StartGroupMeans, StartSwitchMeans, SkipLoopMeans, EnterLoopMeans
    <2>3. CASE RepeatLoop \/ ExitLoop
      BY <1>2, <2>3, RepeatLoopMeans, ExitLoopMeans
    <2>4. CASE CompleteCycle \/ CloseBlock \/ MergeRound
      BY <1>2, <2>4, CompleteCycleMeans, CloseBlockMeans, MergeRoundMeans
    <2>5. CASE FinalizeTrace \/ Panic
      BY <1>2, <2>5, FinalizeMeans, PanicMeans
    <2> QED BY <1>2, <2>1, <2>2, <2>3, <2>4, <2>5 DEF Step
  <1> QED BY <1>1, <1>2 DEF Next

(* A program starts with its first list and the public inputs. *)
LEMMA StartMeans == ASSUME ProcessorInit PROVE Semantics!SemanticsInit
  <1> DEFINE f == Frame(Group(root), "group")
  <1>1. /\ root \in RootLists /\ calls = <<f>> /\ pc = "span" /\ k = 0 /\ fault = "none"
    BY DEF ProcessorInit
  <1>2. Outcome = "running"
    BY <1>1 DEF Outcome
  <1>3. \E in \in ProgramInputs : Items = in.public /\ tapeA = in.a /\ tapeB = in.b
    <2>1. PICK in \in ProgramInputs : StackInit(in.public, in.a, in.b, MinTraceLength)
      BY DEF ProcessorInit
    <2>2. /\ regs = [i \in Slots |-> IF i < Len(in.public) THEN in.public[i + 1] ELSE 0]
          /\ depth = Len(in.public) /\ tapeA = in.a /\ tapeB = in.b
      BY <2>1 DEF StackInit
    <2>3. in.public \in Seq(Elements) /\ Len(in.public) <= MaxStackDepth
      BY InputsAssumption DEF ValidInputs
    <2> DEFINE s == in.public
    <2>4. Len(s) \in Nat /\ s \in [1..Len(s) -> Elements] /\ MaxStackDepth \in Nat
      BY <2>3, LenProperties, StackAssumption
    <2>5. Items = [i \in 1..Len(s) |-> s[i]]
      <3>1. \A i \in 1..Len(s) : i - 1 \in Slots /\ i - 1 < Len(s) /\ (i - 1) + 1 = i
        BY <2>3, <2>4 DEF Slots
      <3>2. \A i \in 1..Len(s) : regs[i - 1] = s[i]
        BY <2>2, <3>1
      <3> QED BY <2>2, <3>2 DEF Items
    <2> HIDE DEF s
    <2>6. Items = s
      BY <2>4, <2>5
    <2> QED BY <2>2, <2>6 DEF s
  <1>4. Todo = ListTasks(root)
    <2>1. f.block = Group(root) /\ f.at = 1 /\ f.part = "group" /\ Body(f) = root
      BY DEF Frame, Body, Group
    <2>2. Body(f) \in BlockLists
      BY <1>1, <2>1, BlocksAssumption DEF Constructed
    <2> DEFINE c == calls
               o == << >>
    <2>3. Len(c) = 1 /\ c[Len(c)] = f /\ Len(o) = 0 /\ Top = f /\ Block = Body(f)[1]
      BY <1>1, <2>1 DEF Top, Block
    <2>4. SameFirst(c, o, Len(o))
      BY <2>3 DEF SameFirst
    <2>5. Pending(o) = << >> /\ IsSequence(Pending(o))
      <3>1. Pending(o) = << >>
        BY <2>3, PendingOfFrames
      <3>2. IsSequence(<< >>)
        BY EmptySeq, IsSequenceOf
      <3> QED BY <3>1, <3>2
    <2>6. Todo = SpanTasks(Body(f)[1], 1) \o Pending(c)
      BY <1>1, <2>3 DEF Todo, Current
    <2> HIDE DEF f, c, o
    <2>7. SpanTasks(Body(f)[1], 1) \o Pending(c) = ListTasks(Body(f)) \o Pending(o)
      <3>1. Len(c) \in Nat \ {0} /\ Len(o) = Len(c) - 1 /\ f = c[Len(c)] /\ f.part # "loop"
        BY <2>1, <2>3
      <3> QED BY <2>1, <2>2, <2>4, <2>5, <3>1, PendingStarted
    <2>8. ListTasks(root) \o << >> = ListTasks(root)
      BY <2>1, <2>2, TasksOfList, Joined
    <2> QED BY <2>1, <2>5, <2>6, <2>7, <2>8
  <1>5. \E r \in RootLists : Todo = Semantics!ListTasks(r)
    BY <1>1, <1>4, SameMeaning
  <1> QED BY <1>2, <1>3, <1>5 DEF Semantics!SemanticsInit

(* The processor implements the structured program, whatever the programs, *)
(* the inputs, the field and the limits: it starts with the whole program  *)
(* and the public inputs, every step takes from what is left what its      *)
(* block or instruction means for the list of the stack, or is one the     *)
(* program cannot tell, and it fails for the reasons the program gives.    *)
THEOREM ProcessorRunsPrograms == Spec => ImplementsSemantics
  <1>1. Spec => [](ControlLayer /\ DecoderAccepts)
    BY AlwaysControl, DecoderNeverRejects, PTL
  <1>2. ControlLayer /\ DecoderAccepts /\ [Next]_vars => Means
    BY StepMeans
  <1>3. ProcessorInit => Semantics!SemanticsInit
    BY StartMeans
  <1>4. Spec => Semantics!SemanticsInit /\ [][Semantics!SemanticsNext]_(Semantics!semVars)
    BY <1>1, <1>2, <1>3, PTL DEF Spec, Means
  <1> QED BY <1>4 DEF ImplementsSemantics, Semantics!SemanticsSpec
=============================================================================
