-------------------------------- MODULE Tasks --------------------------------
(***************************************************************************)
(* A task is a block to execute, or an instruction with its index in its   *)
(* span, from 0: what execute_blocks and execute_span iterate over.        *)
(***************************************************************************)
EXTENDS Integers, Sequences

Task(block) == [kind |-> block.kind, of |-> block, pos |-> 0]
OpTask(instr, n) == [kind |-> "op", of |-> instr, pos |-> n]

(* the instructions of a span from index first on *)
SpanTasks(span, first) ==
  [i \in 1..(Len(span.code) - first + 1) |->
     OpTask(span.code[first + i - 1], first + i - 2)]

(* the blocks of a list from index first on *)
BlockTasks(list, first) ==
  [i \in 1..(Len(list) - first + 1) |-> Task(list[first + i - 1])]

(* a list begins with its first span *)
ListTasks(list) == SpanTasks(list[1], 1) \o BlockTasks(list, 2)
=============================================================================
