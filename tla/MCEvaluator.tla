----------------------------- MODULE MCEvaluator -----------------------------
(***************************************************************************)
(* Programs and inputs whose traces TLC checks against the constraints:    *)
(* programs that nest every kind of block, and spans that execute every    *)
(* operation with every hint.  Scratch has no value on its stack at all.   *)
(***************************************************************************)
EXTENDS MCPrograms, Evaluator

HintedInstr(op, kind, n) == [op |-> op, hint |-> [kind |-> kind, arg |-> n]]
Plain(names) == [i \in 1..Len(names) |-> Instr(names[i])]
Straight(code) == <<Span(Plain(<<"begin">>) \o code)>>

Scratch   == Straight(Plain(<<"noop", "noop">>))
Logic     == Straight(Plain(<<"assert", "not", "and", "or", "swap", "drop">>))
Numbers   == Straight(Plain(<<"add", "asserteq", "add", "mul", "inv", "neg">>))
Copies    == Straight(<<Instr("dup"), PushInstr(2)>> \o Plain(<<"drop4", "dup4", "drop4", "dup2">>))
Permuted  == Straight(Plain(<<"swap2", "swap4", "roll4", "roll8", "pad2", "drop4">>))
Chosen    == Straight(Plain(<<"cswap2", "choose">>))
OtherHalf == Straight(Plain(<<"roll4", "choose">>))
Halves    == Straight(Plain(<<"choose2", "noop">>))
Equal     == LET readEq == HintedInstr("read", "eq", 0)
             IN Straight(<<readEq>> \o Plain(<<"eq", "drop", "dup">>) \o <<readEq, Instr("eq")>>)
Hashed2   == Straight(Plain(<<"read2", "rescr", "rescr", "noop", "drop4", "rescr">>))
Path      == Straight(<<HintedInstr("read2", "pmpath", 3), Instr("noop")>>)
Compared  == Straight(<<HintedInstr("cmp", "cmp", 3)>>
                      \o Plain(<<"cmp", "cmp", "noop", "roll8", "noop">>))
Bits      == Straight(<<HintedInstr("binacc", "rc", 3)>> \o Plain(<<"binacc">>))
Constants == Straight(<<Instr("noop"), PushInstr(0), Instr("dup"), PushInstr(3),
                        Instr("add"), Instr("noop")>>)

(* groups, switches and loops in each other, a span behind a span *)
Yes  == <<Span(<<Instr("assert"), Instr("noop"), PushInstr(2)>>)>>
No   == <<Ops(<<"not", "assert", "pad2">>)>>
Turn == <<Ops(<<"assert", "noop", "read">>)>>
Inside == <<Ops(<<"noop", "read", "noop">>), Switch(Yes, No)>>
Around == <<Ops(<<"assert", "read", "noop">>), Loop(Turn), Group(Inside),
            Ops(<<"drop", "noop", "read">>)>>
Flows == <<Begin(<<"read", "noop">>), Loop(Around), Ops(<<"noop", "noop", "read">>),
           Group(<<Ops(<<"noop", "noop", "noop">>), Switch(Yes, No)>>)>>
Spans == <<Begin(<<"read", "read">>), Switch(Yes, No), Ops(<<"drop", "noop", "read">>),
           Ops(<<"not", "swap", "drop">>)>>

MCRootLists == {Scratch, Logic, Numbers, Copies, Permuted, Chosen, OtherHalf, Halves,
                Equal, Hashed2, Path, Compared, Bits, Constants, Flows, Spans}
MCBlockLists == ReachableFrom(MCRootLists)
MCPrefixState == HashesOf(MCBlockLists)

(* Values for the spans, and bits for the conditions. *)
MCInputs ==
  [public : {<<1, 0, 1, 1, 0, 3, 4, 2>>, <<1, 0, 1, 1, 1, 0, 2, 1>>,
             <<4, 0, 0, 0, 0, 0, 0, 0, 3, 2>>},
   a : {<<1, 0>>, <<0, 1, 3>>}, b : {<<1, 1>>}]
  \cup [public : {<< >>}, a : [1..6 -> {0, 1}], b : {<< >>}]
  \cup [public : {<<3>>}, a : {<<1, 1, 0>>, <<1, 0, 0, 1, 1, 0>>}, b : {<< >>}]
=============================================================================
