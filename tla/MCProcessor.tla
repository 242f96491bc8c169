----------------------------- MODULE MCProcessor -----------------------------
(***************************************************************************)
(* Programs, inputs and constants for TLC.  A cycle has 4 steps, so a span *)
(* has 3 or 7 instructions; PUSH is aligned to 2.  The programs nest every *)
(* kind of block in every other, put a span behind a span, and nest deeper *)
(* than the context and loop stacks allow.                                 *)
(***************************************************************************)
EXTENDS MCPrograms

(* branches *)
T1 == <<Span(<<Instr("assert"), Instr("noop"), PushInstr(2)>>)>>
F1 == <<Ops(<<"not", "assert", "pad2">>)>>
(* a body that reads the next condition, and one that pushes its condition *)
B1 == <<Ops(<<"assert", "noop", "read">>)>>
B2 == <<Ops(<<"assert", "read", "read">>), Switch(T1, F1),
        Ops(<<"drop", "noop", "noop">>)>>
B3 == <<Ops(<<"assert", "read", "noop">>), Loop(B1),
        Span(<<PushInstr(3), Instr("drop"), Instr("read")>>)>>

G1 == <<Ops(<<"noop", "read", "noop">>), Switch(T1, F1)>>
T2 == <<Ops(<<"assert", "read", "noop">>), Loop(B2), Group(G1)>>
F2 == <<Ops(<<"not", "assert", "rescr">>),
        Group(<<Ops(<<"read", "noop", "noop">>), Loop(B1)>>)>>

(* loops three deep, groups three deep under the root *)
L2 == <<Ops(<<"assert", "read", "noop">>), Loop(B1), Ops(<<"noop", "noop", "read">>)>>
L1 == <<Ops(<<"assert", "read", "noop">>), Loop(L2), Ops(<<"noop", "noop", "read">>)>>
Nest3 == <<Ops(<<"noop", "noop", "noop">>)>>
Nest2 == <<Ops(<<"noop", "noop", "noop">>), Group(Nest3), Loop(B1)>>
Nest1 == <<Ops(<<"noop", "noop", "noop">>), Switch(
             <<Ops(<<"assert", "read", "noop">>), Group(Nest2)>>,
             <<Ops(<<"not", "assert", "noop">>), Group(Nest3)>>)>>

Sequential == <<Begin(<<"read", "noop">>), Switch(T1, F1), Ops(<<"drop", "read", "noop">>),
                Loop(B1), Ops(<<"noop", "noop", "noop">>), Ops(<<"dup", "drop", "read">>)>>
Mixed      == <<Begin(<<"read", "read">>), Switch(T2, F2), Ops(<<"read", "noop", "noop">>),
                Loop(B3)>>
Deep       == <<Begin(<<"read", "noop">>), Group(Nest1), Ops(<<"read", "noop", "noop">>)>>
Loops      == <<Begin(<<"read", "noop">>), Loop(L1)>>
Long       == <<Begin(<<"read", "not", "not", "dup", "dup", "drop">>), Loop(B3)>>

MCRootLists == {Sequential, Mixed, Deep, Loops, Long}

MCBlockLists == ReachableFrom(MCRootLists)
MCPrefixState == HashesOf(MCBlockLists)

(* Tapes of bits, and a few with a value that is no condition. *)
Tapes == (UNION {[1..n -> {0, 1}] : n \in 0..6}) \cup {<<2>>, <<1, 2>>, <<1, 0, 2, 1>>}
MCInputs == [public : {<< >>, <<1, 2, 0, 3, 4, 1>>}, a : Tapes, b : {<< >>}]
=============================================================================
