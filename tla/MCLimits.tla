------------------------------ MODULE MCLimits ------------------------------
(***************************************************************************)
(* The constants of lib.rs, with the smallest programs that nest n blocks  *)
(* in their root: switches n deep, and loops n deep.                       *)
(***************************************************************************)
EXTENDS MCPrograms

Noops(n) == [i \in 1..n |-> "noop"]
Line(names) == Ops(names \o Noops(CycleLength - 1 - Len(names)))

(* Each level reads the condition of the next one. *)
Taken(n) ==
  LET nest[i \in 0..n] ==
        IF i = 0 THEN <<Line(<<"assert">>)>>
        ELSE <<Line(<<"assert", "read">>),
               Switch(nest[i - 1], <<Line(<<"not", "assert">>)>>)>>
  IN <<Line(<<"begin", "read">>), Switch(nest[n - 1], <<Line(<<"not", "assert">>)>>)>>

Iterated(n) ==
  LET nest[i \in 0..n] ==
        IF i = 0 THEN <<Line(<<"assert", "read">>)>>
        ELSE <<Line(<<"assert", "read">>), Loop(nest[i - 1]), Line(<<"read">>)>>
  IN <<Line(<<"begin", "read">>), Loop(nest[n - 1])>>

SwitchNests == [n \in {1, MaxContextDepth - 1, MaxContextDepth} |-> Taken(n)]
LoopNests == [n \in {1, MaxLoopDepth, MaxLoopDepth + 1} |-> Iterated(n)]

MCRootLists == {SwitchNests[n] : n \in DOMAIN SwitchNests}
                 \cup {LoopNests[n] : n \in DOMAIN LoopNests}
                 \cup {<<Line(<<"begin">>)>>}
MCBlockLists == ReachableFrom(MCRootLists)
MCPrefixState == HashesOf(MCBlockLists)

(* Conditions that enter every block, and leave each loop after one turn.  *)
MCInputs ==
  {[public |-> << >>, a |-> [i \in 1..40 |-> IF i <= ones THEN 1 ELSE 0], b |-> << >>] :
     ones \in {0, 1, MaxLoopDepth, MaxLoopDepth + 1, MaxContextDepth}}

Fits ==
  \/ \E n \in DOMAIN SwitchNests : n < MaxContextDepth /\ root = SwitchNests[n]
  \/ \E n \in DOMAIN LoopNests : n <= MaxLoopDepth /\ root = LoopNests[n]

(***************************************************************************)
(* Switches may nest one level less than the context stack has places, the *)
(* root taking one, and loops as deep as the loop stack: such a program    *)
(* never panics.  Any program that ends, the smallest there is included,   *)
(* has counted the operations that lib.rs:65 asserts, although those that  *)
(* open and close blocks do not count.                                     *)
(***************************************************************************)
NestingWithinLimitsRuns ==
  /\ Fits => fault = "none"
  /\ pc = "done" => opCounter >= MinTraceLength
=============================================================================
