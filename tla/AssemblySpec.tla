---------------------------- MODULE AssemblySpec ----------------------------
(***************************************************************************)
(* The assembly language of docs/assembly.md: which texts are programs and *)
(* what they mean.  It is a grammar, generated by length; each sentence    *)
(* comes with its meaning, the operations in their control structures      *)
(* without any padding.                                                    *)
(***************************************************************************)
EXTENDS Assembler

CONSTANTS
  Plain,      \* tokens of instructions
  Counts,     \* counts of repeat
  MaxLength   \* tokens of the longest body

Begin == Token("begin", << >>)
End == Token("end", << >>)
ElseToken == Token("else", << >>)
BlockToken == Token("block", << >>)
If == Token("if", <<Word("true")>>)
While == Token("while", <<Word("true")>>)
Repeat(n) == Token("repeat", <<Number(n)>>)

(* the operations of a sequence of instructions that are more than padding *)
Meant(code) ==
  LET ops == SelectSeq(code, LAMBDA instr : instr.op # "noop")
  IN [i \in 1..Len(ops) |-> [kind |-> "op", op |-> ops[i].op, hint |-> ops[i].hint]]

Guarded(ops, code) == Meant(Emit(<< >>, ops)) \o code

(* n times the same *)
Copies(code, n) == [i \in 1..(n * Len(code)) |-> code[((i - 1) % Len(code)) + 1]]

(* bodies: the n-th element holds those of n tokens *)
BodiesUpTo[max \in 0..MaxLength] ==
  IF max = 0 THEN << >>
  ELSE
    LET
      shorter == BodiesUpTo[max - 1]
      op == {[text |-> <<t>>, code |-> Meant(ParseOp(<< >>, t).program)] : t \in Plain}
      wrap(head, text, code) == [text |-> <<head>> \o text \o <<End>>, code |-> <<code>>]
      ifElse(t, f) ==
        wrap(If, t.text \o <<ElseToken>> \o f.text,
             [kind |-> "switch", t_branch |-> Guarded(<<"assert">>, t.code),
              f_branch |-> Guarded(<<"not", "assert">>, f.code)])
      control(m) ==
        {wrap(BlockToken, b.text, [kind |-> "group", body |-> b.code]) : b \in shorter[m - 2]}
          \cup {wrap(Repeat(k), b.text, [kind |-> "group", body |-> Copies(b.code, k)]) :
                  k \in Counts, b \in shorter[m - 2]}
          \cup {wrap(While, b.text, [kind |-> "loop", body |-> Guarded(<<"assert">>, b.code)]) :
                  b \in shorter[m - 2]}
          \cup {wrap(If, b.text, [kind |-> "switch", t_branch |-> Guarded(<<"assert">>, b.code),
                                  f_branch |-> Guarded(<<"not", "assert">>, << >>)]) :
                  b \in shorter[m - 2]}
          \cup UNION {{ifElse(t, f) : t \in shorter[k], f \in shorter[m - 3 - k]} :
                        k \in 1..(m - 4)}
      items(m) == CASE m = 1 -> op [] m = 2 -> {} [] OTHER -> control(m)
    IN Append(shorter,
         items(max)
           \cup UNION {{[text |-> a.text \o b.text, code |-> a.code \o b.code] :
                          a \in items(k), b \in shorter[max - k]} : k \in 1..(max - 1)})

Programs ==
  {[text |-> <<Begin>> \o b.text \o <<End>>, code |-> Guarded(<<"begin">>, b.code)] :
     b \in UNION {BodiesUpTo[MaxLength][n] : n \in 1..MaxLength}}

Texts == {p.text : p \in Programs}

(* what a tree of blocks means *)
RECURSIVE Meaning(_)
Meaning(body) ==
  LET of(block) ==
        CASE block.kind = "span"   -> Meant(block.code)
          [] block.kind = "group"  -> <<[kind |-> "group", body |-> Meaning(block.body)]>>
          [] block.kind = "loop"   -> <<[kind |-> "loop", body |-> Meaning(block.body)]>>
          [] block.kind = "switch" ->
               <<[kind |-> "switch", t_branch |-> Meaning(block.t_branch),
                  f_branch |-> Meaning(block.f_branch)]>>
  IN IF body = << >> THEN << >> ELSE of(Head(body)) \o Meaning(Tail(body))
-----------------------------------------------------------------------------
(***************************************************************************)
(* A text the assembler accepts is a program, and the tree it makes has    *)
(* the operations and control structures of that program: none lost to an  *)
(* enclosing block, none moved behind one, repeated bodies the right       *)
(* number of times although their spans are merged.                        *)
(***************************************************************************)
CompilesFaithfully ==
  result.status = "program" =>
    [text |-> tokens, code |-> Meaning(result.root)] \in Programs

(***************************************************************************)
(* Every program is accepted, whatever its blocks are nested in.           *)
(***************************************************************************)
AcceptsEveryProgram == result.status \notin {"parsing", "program"} => tokens \notin Texts
=============================================================================
