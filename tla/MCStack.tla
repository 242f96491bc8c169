------------------------------- MODULE MCStack -------------------------------
(***************************************************************************)
(* Instructions and inputs for TLC: every operation with each hint it      *)
(* looks at, from stacks of every size around the limits.                  *)
(***************************************************************************)
EXTENDS ConstrainedStack

Hint(kind, n) == [kind |-> kind, arg |-> n]

MCInstructions ==
  {[op |-> op, hint |-> Hint("none", 0)] : op \in Operations \ {"push", "begin"}}
    \cup {[op |-> "push", hint |-> Hint("value", v)] : v \in {0, 2}}
    \cup {[op |-> "begin", hint |-> Hint("none", 0)],
          [op |-> "read", hint |-> Hint("eq", 0)],
          [op |-> "read2", hint |-> Hint("pmpath", 3)],
          [op |-> "cmp", hint |-> Hint("cmp", 3)],
          [op |-> "binacc", hint |-> Hint("rc", 3)]}

MCInputs ==
  {[public |-> p, a |-> a, b |-> SubSeq(a, 1, Len(a) - 1)] :
     p \in {<< >>, <<1>>, <<1, 1, 0>>, <<3, 3, 0, 1, 1, 2>>, <<2, 1, 1, 2, 0, 1, 0>>,
            <<1, 0, 4, 3, 0, 0, 1, 2>>, <<4, 0, 0, 0, 0, 0, 0, 0, 3, 2>>,
            <<2, 1, 1, 3, 4, 0, 1, 2, 4, 3>>, <<0, 1, 1, 0, 1, 1, 2, 0, 4, 3, 2>>},
     a \in {<<1>>, <<0, 1, 3, 4>>}}

MCRescueRound(s, n) == <<Add(s[2], n), s[3], s[4], s[5], s[6], Add(s[1], s[2])>>
=============================================================================
