------------------------------ MODULE StackSpec ------------------------------
(***************************************************************************)
(* What the user stack promises: a last-in-first-out list of at most       *)
(* MaxStackDepth values and two tapes, and the effect of each operation on *)
(* them.  Registers, rows and their allocation are left out.  The top of   *)
(* the stack is items[1].                                                  *)
(***************************************************************************)
EXTENDS UserOps

VARIABLES items, tapeA, tapeB

specVars == <<items, tapeA, tapeB>>

Rest(n) == SubSeq(items, n + 1, Len(items))

(* what a hint puts on the tapes before the operation reads them *)
PreparedA(op, hint) ==
  CASE op = "read" /\ hint.kind = "eq" -> <<EqWitness(items[1], items[2])>> \o tapeA
    [] op = "read2" /\ hint.kind = "pmpath" ->
         Interlaced(tapeA, items[3], hint.arg) \o SubSeq(tapeA, hint.arg, Len(tapeA))
    [] op = "cmp" /\ hint.kind = "cmp" -> HighBitsFirst(items[9], hint.arg) \o tapeA
    [] op = "binacc" /\ hint.kind = "rc" -> LowBitsFirst(items[5], hint.arg) \o tapeA
    [] OTHER -> tapeA

PreparedB(op, hint) ==
  IF op = "cmp" /\ hint.kind = "cmp"
  THEN HighBitsFirst(items[10], hint.arg) \o tapeB ELSE tapeB

EmptyTape(op, hint) ==
  \/ /\ op = "read2" /\ hint.kind = "pmpath"
     /\ Len(tapeA) < hint.arg - 1 \/ Len(tapeB) < hint.arg - 1
  \/ ReadsA(op) /\ PreparedA(op, hint) = << >>
  \/ ReadsB(op) /\ PreparedB(op, hint) = << >>

(* the operands an operation is defined for *)
Defined(op, hint) ==
  CASE op = "assert"   -> items[1] = 1
    [] op = "asserteq" -> items[1] = items[2]
    [] op = "choose"   -> IsBinary(items[3])
    [] op \in {"choose2", "cswap2"} -> IsBinary(items[5])
    [] op = "inv"      -> items[1] # 0
    [] op = "not"      -> IsBinary(items[1])
    [] op \in {"and", "or"} -> IsBinary(items[1]) /\ IsBinary(items[2])
    [] op = "eq" -> items[2] # items[3] => Mul(items[1], Sub(items[2], items[3])) = 1
    [] op = "cmp" -> /\ IsBinary(Head(PreparedA(op, hint)))
                     /\ IsBinary(Head(PreparedB(op, hint)))
                     /\ IsPowerOfTwo(items[1])
    [] op = "binacc" -> IsBinary(Head(PreparedA(op, hint))) /\ IsPowerOfTwo(items[3])
    [] OTHER -> TRUE

(* why an operation fails, the first reason there is, or "none" *)
Failure(op, hint) ==
  IF Len(items) < Needed(op, hint) THEN "stack underflow"
  ELSE IF ~ ValidHint(op, hint) THEN "hint"
  ELSE IF EmptyTape(op, hint) THEN "empty tape"
  ELSE IF Len(items) + Added(op) > MaxStackDepth THEN "stack overflow"
  ELSE IF ~ Defined(op, hint) THEN "value"
  ELSE "none"

(* one bit of the comparison of a and b *)
Compared(a, b) ==
  LET power == items[1]
      gt == items[5]
      lt == items[6]
      open == Mul(Sub(1, gt), Sub(1, lt))
  IN <<IF power = 1 THEN Inv(2) ELSE power \div 2, a, b, open,
       IF a = 1 /\ b = 0 THEN Add(gt, open) ELSE gt,
       IF b = 1 /\ a = 0 THEN Add(lt, open) ELSE lt,
       IF b = 1 THEN Add(items[7], power) ELSE items[7],
       IF a = 1 THEN Add(items[8], power) ELSE items[8]>>

(* the list after the operation, executed at a place of the cycle *)
Result(op, hint, pos) ==
  CASE op \in {"begin", "noop"} -> items
    [] op \in {"assert", "drop"} -> Rest(1)
    [] op = "asserteq" -> Rest(2)
    [] op = "drop4" -> Rest(4)
    [] op = "push"  -> <<hint.arg>> \o items
    [] op = "read"  -> <<Head(PreparedA(op, hint))>> \o items
    [] op = "read2" -> <<Head(PreparedB(op, hint)), Head(PreparedA(op, hint))>> \o items
    [] op = "dup"   -> SubSeq(items, 1, 1) \o items
    [] op = "dup2"  -> SubSeq(items, 1, 2) \o items
    [] op = "dup4"  -> SubSeq(items, 1, 4) \o items
    [] op = "pad2"  -> <<0, 0>> \o items
    [] op = "swap"  -> <<items[2], items[1]>> \o Rest(2)
    [] op = "swap2" -> SubSeq(items, 3, 4) \o SubSeq(items, 1, 2) \o Rest(4)
    [] op = "swap4" -> SubSeq(items, 5, 8) \o SubSeq(items, 1, 4) \o Rest(8)
    [] op = "roll4" -> <<items[4]>> \o SubSeq(items, 1, 3) \o Rest(4)
    [] op = "roll8" -> <<items[8]>> \o SubSeq(items, 1, 7) \o Rest(8)
    [] op = "choose" -> <<IF items[3] = 1 THEN items[1] ELSE items[2]>> \o Rest(3)
    [] op = "choose2" -> (IF items[5] = 1 THEN SubSeq(items, 1, 2)
                                          ELSE SubSeq(items, 3, 4)) \o Rest(6)
    [] op = "cswap2" -> (IF items[5] = 1 THEN SubSeq(items, 3, 4) \o SubSeq(items, 1, 2)
                                         ELSE SubSeq(items, 1, 4)) \o Rest(6)
    [] op = "add" -> <<Add(items[1], items[2])>> \o Rest(2)
    [] op = "mul" -> <<Mul(items[1], items[2])>> \o Rest(2)
    [] op = "inv" -> <<Inv(items[1])>> \o Rest(1)
    [] op = "neg" -> <<Neg(items[1])>> \o Rest(1)
    [] op = "not" -> <<1 - items[1]>> \o Rest(1)
    [] op = "and" -> <<items[1] * items[2]>> \o Rest(2)
    [] op = "or"  -> <<items[1] + items[2] - items[1] * items[2]>> \o Rest(2)
    [] op = "eq"  -> <<IF items[2] = items[3] THEN 1 ELSE 0>> \o Rest(3)
    [] op = "cmp" ->
         Compared(Head(PreparedA(op, hint)), Head(PreparedB(op, hint))) \o Rest(8)
    [] op = "binacc" ->
         LET bit == Head(PreparedA(op, hint))
         IN <<bit, 0, Mul(2, items[3]), Add(items[4], bit * items[3])>> \o Rest(4)
    [] op = "rescr" -> RescueRound(SubSeq(items, 1, 6), pos) \o Rest(6)

Run(op, hint, pos) ==
  /\ Failure(op, hint) = "none"
  /\ items' = Result(op, hint, pos)
  /\ tapeA' = IF ReadsA(op) THEN Tail(PreparedA(op, hint)) ELSE tapeA
  /\ tapeB' = IF ReadsB(op) THEN Tail(PreparedB(op, hint)) ELSE tapeB

Init ==
  /\ items \in Seq(Elements) /\ Len(items) <= MaxStackDepth
  /\ tapeA \in Seq(Elements) /\ tapeB \in Seq(Elements)
=============================================================================
