----------------------------- MODULE MCAssembler -----------------------------
(***************************************************************************)
(* Texts for TLC: every short one, every program of some length, and those *)
(* with a token taken out or replaced by a malformed one.                  *)
(***************************************************************************)
EXTENDS AssemblySpec

CONSTANT ShortLength   \* tokens of the body of the texts enumerated

MCPlain == {Token("read", << >>), Token("push", <<Number(1)>>)}

Structure == {BlockToken, If, While, ElseToken, End} \cup {Repeat(n) : n \in Counts}
Read == Token("read", << >>)

Short ==
  UNION {{<<Begin>> \o s \o <<End>> : s \in [1..n -> Structure \cup {Read}]} :
           n \in 0..ShortLength}

Without(text, i) == SubSeq(text, 1, i - 1) \o SubSeq(text, i + 1, Len(text))
Shortened == UNION {{Without(t, i) : i \in 1..Len(t)} : t \in Texts}

Malformed ==
  {Token("if", << >>), Token("if", <<Word("false")>>), Token("while", << >>),
   Token("block", <<Word("x")>>), Token("repeat", << >>), Token("begin", << >>), Repeat(1),
   Token("repeat", <<Word("x")>>), Token("repeat", <<Number(2), Number(2)>>),
   Token("foo", << >>), Token("push", << >>), Token("push", <<Number(Modulus)>>),
   Token("read", <<Word("c")>>), Token("dup", <<Number(5)>>), Token("gt", <<Number(3)>>),
   Token("hash", <<Number(0)>>), Token("add", <<Number(1)>>)}

Wrong ==
  UNION {{[t EXCEPT ![i] = m] : i \in 1..Len(t), m \in Malformed} :
           t \in {p \in Texts : Len(p) <= 6}}

MCSources == {<< >>} \cup Short \cup Texts \cup Shortened \cup Wrong
=============================================================================
