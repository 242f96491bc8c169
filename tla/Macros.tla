------------------------------- MODULE Macros -------------------------------
(***************************************************************************)
(* The instructions of Distaff assembly and the operations each expands to *)
(* (programs/assembly/parsers.rs).                                         *)
(*                                                                         *)
(* A token "name.p.q" is a name and the sequence of its parameters; a      *)
(* parameter is a number or a word that is not one.  A parser takes the    *)
(* operations of the current span, each with its hint, and returns them    *)
(* with those of the instruction appended, or the reason of an error.      *)
(***************************************************************************)
EXTENDS Blocks, Field

HashAlignment == CycleLength   \* HASH_OP_ALIGNMENT

Token(name, params) == [name |-> name, params |-> params]
Number(n) == [word |-> "", number |-> n]
Word(w) == [word |-> w, number |-> -1]
IsNumber(param) == param.number >= 0

Parsed(program) == [error |-> "none", program |-> program]
Rejected(error) == [error |-> error, program |-> << >>]
-----------------------------------------------------------------------------
(* Appending operations.                                                   *)

Emit(program, ops) == program \o [i \in 1..Len(ops) |-> Instr(ops[i])]

(* op_hints.insert(program.len(), hint), then the operations *)
EmitHinted(program, hint, ops) ==
  program \o [i \in 1..Len(ops) |->
                IF i = 1 THEN [op |-> ops[1], hint |-> hint] ELSE Instr(ops[i])]

Times(n, ops) == [i \in 1..(n * Len(ops)) |-> ops[((i - 1) % Len(ops)) + 1]]

(* NOOPs until the next operation is at a multiple of alignment *)
PadTo(program, alignment) ==
  Emit(program, Times((alignment - (Len(program) % alignment)) % alignment, <<"noop">>))

(* append_push_op *)
AppendPush(program, value) == Append(PadTo(program, PushAlignment), PushInstr(value))
-----------------------------------------------------------------------------
(* Parameters.                                                             *)

(* read_param: a parameter left out is 1, and 0 is never valid *)
ParamError(params) ==
  CASE Len(params) = 0         -> "none"
    [] Len(params) > 1         -> "extra param"
    [] ~ IsNumber(params[1])   -> "invalid param"
    [] params[1].number = 0    -> "invalid param"
    [] OTHER                   -> "none"

Param(params) == IF Len(params) = 0 THEN 1 ELSE params[1].number

(* read_value *)
ValueError(params) ==
  CASE Len(params) = 0               -> "missing param"
    [] Len(params) > 1               -> "extra param"
    [] ~ IsNumber(params[1])         -> "invalid param"
    [] params[1].number >= Modulus   -> "invalid param"
    [] OTHER                         -> "none"

(* an instruction without parameters *)
Fixed(program, params, ops) ==
  IF Len(params) > 0 THEN Rejected("extra param") ELSE Parsed(Emit(program, ops))

(* one whose operations depend on a count, of the few a table lists *)
ByCount(program, params, table) ==
  CASE ParamError(params) # "none"          -> Rejected(ParamError(params))
    [] Param(params) \notin DOMAIN table    -> Rejected("invalid param")
    [] OTHER -> Parsed(Emit(program, table[Param(params)]))

(* one whose parameter is a number of bits or a depth of a tree *)
InRange(params, low, high, Expand(_)) ==
  CASE ParamError(params) # "none"             -> Rejected(ParamError(params))
    [] Param(params) \notin low..high          -> Rejected("invalid param")
    [] OTHER                                   -> Parsed(Expand(Param(params)))

(* one with a word that selects a variant *)
ByWord(program, params, default, table) ==
  CASE Len(params) > 1                       -> Rejected("extra param")
    [] Len(params) = 0                       -> Parsed(Emit(program, <<default>>))
    [] params[1].word \notin DOMAIN table    -> Rejected("invalid param")
    [] OTHER -> Parsed(Emit(program, <<table[params[1].word]>>))
-----------------------------------------------------------------------------
(* Control flow and input.                                                 *)

ParseNoop(program, params) == Fixed(program, params, <<"noop">>)

ParseAssert(program, params) ==
  ByWord(program, params, "assert", [eq |-> "asserteq"])

ParsePush(program, params) ==
  IF ValueError(params) # "none" THEN Rejected(ValueError(params))
  ELSE Parsed(AppendPush(program, params[1].number))

ParseRead(program, params) ==
  ByWord(program, params, "read", [a |-> "read", ab |-> "read2"])

(* Stack manipulation.                                                     *)

ParseDup(program, params) ==
  ByCount(program, params,
    <<<<"dup">>, <<"dup2">>, <<"dup4", "roll4", "drop">>, <<"dup4">>>>)

ParsePad(program, params) ==
  ByCount(program, params,
    <<<<"pad2", "drop">>, <<"pad2">>, <<"pad2", "pad2", "drop">>, <<"pad2", "pad2">>,
      <<"pad2", "pad2", "pad2", "drop">>, <<"pad2", "pad2", "pad2">>,
      <<"pad2", "pad2", "dup4", "drop">>, <<"pad2", "pad2", "dup4">>>>)

ParsePick(program, params) ==
  ByCount(program, params,
    <<<<"dup2", "drop">>, <<"dup4", "roll4", "drop", "drop", "drop">>,
      <<"dup4", "drop", "drop", "drop">>>>)

ParseDrop(program, params) ==
  ByCount(program, params,
    <<<<"drop">>, <<"drop", "drop">>, <<"dup", "drop4">>, <<"drop4">>,
      <<"drop", "drop4">>, <<"drop", "drop", "drop4">>, <<"dup", "drop4", "drop4">>,
      <<"drop4", "drop4">>>>)

ParseSwap(program, params) ==
  ByCount(program, params,
    [n \in {1, 2, 4} |->
       CASE n = 1 -> <<"swap">> [] n = 2 -> <<"swap2">> [] n = 4 -> <<"swap4">>])

ParseRoll(program, params) ==
  ByCount(program, params,
    [n \in {4, 8} |-> IF n = 4 THEN <<"roll4">> ELSE <<"roll8">>])

ParseChoose(program, params) ==
  ByCount(program, params, <<<<"choose">>, <<"choose2">>>>)

(* Arithmetic, boolean operations and equality.                            *)

ParseAdd(program, params) == Fixed(program, params, <<"add">>)
ParseSub(program, params) == Fixed(program, params, <<"neg", "add">>)
ParseMul(program, params) == Fixed(program, params, <<"mul">>)
ParseDiv(program, params) == Fixed(program, params, <<"inv", "mul">>)
ParseNeg(program, params) == Fixed(program, params, <<"neg">>)
ParseInv(program, params) == Fixed(program, params, <<"inv">>)
ParseNot(program, params) == Fixed(program, params, <<"not">>)
ParseAnd(program, params) == Fixed(program, params, <<"and">>)
ParseOr(program, params)  == Fixed(program, params, <<"or">>)

ParseEqual(program, params, ops) ==
  IF Len(params) > 0 THEN Rejected("extra param")
  ELSE Parsed(EmitHinted(program, [kind |-> "eq", arg |-> 0], ops))

ParseEq(program, params) == ParseEqual(program, params, <<"read", "eq">>)
ParseNe(program, params) == ParseEqual(program, params, <<"read", "eq", "not">>)
-----------------------------------------------------------------------------
(* Comparison and binary decomposition.                                    *)

MinBits == 4
MaxBits == 128

(* a comparison that starts from a bit the values cannot have *)
CompareFromNextBit(program, n, keep) ==
  LET prepared == AppendPush(Emit(program, <<"pad2", "pad2", "pad2", "dup">>), 2^n)
      compared == EmitHinted(prepared, [kind |-> "cmp", arg |-> n], Times(n, <<"cmp">>))
  IN Emit(compared, <<"drop4", "pad2", "swap4", "roll4", "asserteq", "asserteq">> \o keep)

(* one that does not compare the bits it read with the first value *)
CompareUnchecked(program, n, keep) ==
  LET prepared == AppendPush(Emit(program, <<"pad2", "pad2", "pad2", "dup">>), 2^(n - 1))
      compared == EmitHinted(prepared, [kind |-> "cmp", arg |-> n], Times(n, <<"cmp">>))
  IN Emit(compared, <<"drop4", "pad2", "swap4", "roll4", "drop", "drop", "asserteq">> \o keep)

(* gt and lt differ in which of the two outcomes they keep. *)
Compare(program, n, keep) ==
  LET prepared == AppendPush(Emit(program, <<"pad2", "pad2", "pad2", "dup">>), 2^(n - 1))
      compared == EmitHinted(prepared, [kind |-> "cmp", arg |-> n], Times(n, <<"cmp">>))
  IN Emit(compared, <<"drop4", "pad2", "swap4", "roll4", "asserteq", "asserteq">> \o keep)

ParseGt(program, params) ==
  LET Expand(n) == Compare(program, n, <<"roll4", "dup", "drop4">>)
  IN InRange(params, MinBits, MaxBits, Expand)

ParseLt(program, params) ==
  LET Expand(n) == Compare(program, n, <<"dup", "drop4">>)
  IN InRange(params, MinBits, MaxBits, Expand)

(* a decomposition with a bit left on the tape *)
DecomposeWithBitToSpare(program, n, ops) ==
  EmitHinted(Emit(AppendPush(Emit(program, <<"pad2">>), 1), <<"swap", "dup">>),
             [kind |-> "rc", arg |-> n + 1], ops)

(* what rc and isodd start with *)
Decompose(program, n, ops) ==
  EmitHinted(Emit(AppendPush(Emit(program, <<"pad2">>), 1), <<"swap", "dup">>),
             [kind |-> "rc", arg |-> n], ops)

ParseRc(program, params) ==
  LET Expand(n) ==
        EmitHinted(Emit(Decompose(program, n, Times(n, <<"binacc">>)), <<"dup", "drop4">>),
                   [kind |-> "eq", arg |-> 0], <<"read", "eq">>)
  IN InRange(params, MinBits, MaxBits, Expand)

ParseIsOdd(program, params) ==
  LET Expand(n) ==
        Decompose(program, n,
          <<"binacc", "swap2", "roll4", "dup">> \o Times(n - 1, <<"binacc">>)
            \o <<"drop", "drop", "swap", "roll4", "asserteq", "drop">>)
  IN InRange(params, MinBits, MaxBits, Expand)
-----------------------------------------------------------------------------
(* Hashing and Merkle paths.                                               *)

HashRounds == Times(10, <<"rescr">>)

MinDepth == 2
MaxDepth == 256

(* a hash that starts where the instruction stands *)
ParseHashUnaligned(program, params) ==
  LET pads == <<<<"pad2", "pad2", "pad2", "drop">>, <<"pad2", "pad2">>,
                <<"pad2", "pad2", "drop">>, <<"pad2">>>>
      padded == ByCount(program, params, pads)
  IN IF padded.error # "none" THEN padded
     ELSE Parsed(Emit(padded.program, HashRounds \o <<"drop4">>))

ParseHash(program, params) ==
  LET pads == <<<<"pad2", "pad2", "pad2", "drop">>, <<"pad2", "pad2">>,
                <<"pad2", "pad2", "drop">>, <<"pad2">>>>
      padded == ByCount(program, params, pads)
  IN IF padded.error # "none" THEN padded
     ELSE Parsed(Emit(PadTo(padded.program, HashAlignment), HashRounds \o <<"drop4">>))

(* the nodes on the stack are hashed, the next bit and node are read *)
SmpathCycle ==
  HashRounds \o <<"drop4", "read2", "swap2", "read2", "cswap2", "pad2">>

ParseSmpath(program, params) ==
  LET first == Emit(program, <<"read2", "swap2", "read2", "cswap2", "pad2">>)
      Expand(n) == Emit(PadTo(first, HashAlignment),
                        Times(n - 2, SmpathCycle) \o SubSeq(SmpathCycle, 1, 11))
  IN InRange(params, MinDepth, MaxDepth, Expand)

PmpathCycle ==
  HashRounds \o <<"drop4", "pad2", "swap2", "read2", "swap4", "binacc", "swap4", "cswap2", "pad2">>
    \o Times(13, <<"noop">>)

ParsePmpath(program, params) ==
  LET Expand(n) ==
        LET read  == EmitHinted(program, [kind |-> "pmpath", arg |-> n], <<"read2", "pad2">>)
            first == Emit(AppendPush(read, 1),
                          <<"swap", "dup", "binacc", "swap4", "cswap2", "pad2">>)
        IN Emit(PadTo(first, HashAlignment),
                Times(n - 2, PmpathCycle) \o SubSeq(PmpathCycle, 1, 11)
                  \o <<"swap2", "drop", "roll4", "asserteq">>)
  IN InRange(params, MinDepth, MaxDepth, Expand)
-----------------------------------------------------------------------------
(* parse_op_token: the dispatch on the name *)
ParseOp(program, token) ==
  LET p == token.params
  IN CASE token.name = "noop"   -> ParseNoop(program, p)
       [] token.name = "assert" -> ParseAssert(program, p)
       [] token.name = "push"   -> ParsePush(program, p)
       [] token.name = "read"   -> ParseRead(program, p)
       [] token.name = "dup"    -> ParseDup(program, p)
       [] token.name = "pad"    -> ParsePad(program, p)
       [] token.name = "pick"   -> ParsePick(program, p)
       [] token.name = "drop"   -> ParseDrop(program, p)
       [] token.name = "swap"   -> ParseSwap(program, p)
       [] token.name = "roll"   -> ParseRoll(program, p)
       [] token.name = "add"    -> ParseAdd(program, p)
       [] token.name = "sub"    -> ParseSub(program, p)
       [] token.name = "mul"    -> ParseMul(program, p)
       [] token.name = "div"    -> ParseDiv(program, p)
       [] token.name = "neg"    -> ParseNeg(program, p)
       [] token.name = "inv"    -> ParseInv(program, p)
       [] token.name = "not"    -> ParseNot(program, p)
       [] token.name = "and"    -> ParseAnd(program, p)
       [] token.name = "or"     -> ParseOr(program, p)
       [] token.name = "eq"     -> ParseEq(program, p)
       [] token.name = "ne"     -> ParseNe(program, p)
       [] token.name = "gt"     -> ParseGt(program, p)
       [] token.name = "lt"     -> ParseLt(program, p)
       [] token.name = "rc"     -> ParseRc(program, p)
       [] token.name = "isodd"  -> ParseIsOdd(program, p)
       [] token.name = "choose" -> ParseChoose(program, p)
       [] token.name = "hash"   -> ParseHash(program, p)
       [] token.name = "smpath" -> ParseSmpath(program, p)
       [] token.name = "pmpath" -> ParsePmpath(program, p)
       [] OTHER                 -> Rejected("invalid op")
=============================================================================
