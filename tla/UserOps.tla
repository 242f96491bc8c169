------------------------------- MODULE UserOps -------------------------------
(***************************************************************************)
(* The user operations and what each asks of the stack, of its hint and of *)
(* the tapes (the assertions and arguments in the op_* methods of          *)
(* processor/stack/mod.rs), apart from any representation of the stack.    *)
(***************************************************************************)
EXTENDS Field

CONSTANTS
  MaxStackDepth,     \* MAX_STACK_DEPTH
  RescueCycle,       \* CYCLE_LENGTH of the hasher: its round constants repeat
  RescueRound(_, _)  \* hasher::apply_round: a round on six values, by ark_idx

ASSUME RescueAssumption ==
  /\ RescueCycle \in Nat \ {0}
  /\ \A s \in [1..6 -> Elements], idx \in 0..(RescueCycle - 1) :
       RescueRound(s, idx) \in [1..6 -> Elements]

Operations ==
  {"begin", "noop", "assert", "asserteq", "push", "read", "read2", "dup", "dup2",
   "dup4", "pad2", "drop", "drop4", "swap", "swap2", "swap4", "roll4", "roll8",
   "choose", "choose2", "cswap2", "add", "mul", "inv", "neg", "not", "and", "or",
   "eq", "cmp", "binacc", "rescr"}

(* items an operation must find on the stack; a hint that makes it look    *)
(* at the values it is about needs those as well                           *)
Needed(op, hint) ==
  CASE op \in {"assert", "dup", "drop", "inv", "neg", "not"} -> 1
    [] op \in {"asserteq", "dup2", "swap", "add", "mul", "and", "or"} -> 2
    [] op \in {"choose", "eq"} -> 3
    [] op \in {"dup4", "drop4", "swap2", "roll4"} -> 4
    [] op \in {"choose2", "cswap2", "rescr"} -> 6
    [] op \in {"swap4", "roll8"} -> 8
    [] op = "cmp" -> IF hint.kind = "cmp" THEN 10 ELSE 8
    [] op = "binacc" -> IF hint.kind = "rc" THEN 5 ELSE 4
    [] op = "read" /\ hint.kind = "eq" -> 2
    [] op = "read2" /\ hint.kind = "pmpath" -> 3
    [] OTHER -> 0

(* items shift_right is asked to make room for *)
Added(op) ==
  CASE op \in {"push", "read", "dup"} -> 1
    [] op \in {"read2", "dup2", "pad2"} -> 2
    [] op = "dup4" -> 4
    [] OTHER -> 0

(* hints the operations that look at their hint accept *)
ValidHint(op, hint) ==
  CASE op = "push"   -> hint.kind = "value"
    [] op = "read"   -> hint.kind \in {"none", "eq"}
    [] op = "read2"  -> hint.kind \in {"none", "pmpath"}
    [] op = "cmp"    -> hint.kind \in {"none", "cmp"}
    [] op = "binacc" -> hint.kind \in {"none", "rc"}
    [] OTHER         -> TRUE

(* what the assembler puts in a hint: read_value rejects values that are   *)
(* not field elements, read_param a count of 0                             *)
WellFormed(hint) ==
  /\ hint.kind = "value" => hint.arg \in Elements
  /\ hint.kind \in {"pmpath", "cmp", "rc"} => hint.arg \in Nat \ {0}

(* the hints in the spans of block lists; only parse_push gives a value *)
HintsGiven(lists) ==
  \A s \in lists : \A i \in 1..Len(s) : s[i].kind = "span" =>
    \A j \in 1..Len(s[i].code) :
      /\ WellFormed(s[i].code[j].hint)
      /\ s[i].code[j].hint.kind = "value" => s[i].code[j].op = "push"

(* What a hint puts on the tapes before the operation reads them.          *)

(* the bits of x from the least significant one, and the other way around *)
LowBitsFirst(x, n) == [i \in 1..n |-> Bit(x, i - 1)]
HighBitsFirst(x, n) == [i \in 1..n |-> Bit(x, n - i)]

(* op_read with EqStart: the inverse of the difference, or 1 without one *)
EqWitness(x, y) == IF x = y THEN 1 ELSE Inv(Sub(x, y))

(* op_read2 with PmpathStart(n): the bits of the leaf's index, from the    *)
(* least significant one, behind each of the first n - 1 nodes of tape A   *)
Interlaced(nodes, idx, n) ==
  [i \in 1..(2 * (n - 1)) |-> IF i % 2 = 1 THEN nodes[(i + 1) \div 2]
                                           ELSE Bit(idx, i \div 2 - 1)]

ReadsA(op) == op \in {"read", "read2", "cmp", "binacc"}
ReadsB(op) == op \in {"read2", "cmp"}
=============================================================================
