------------------------------- MODULE MCMacros -------------------------------
(***************************************************************************)
(* Instructions, stacks and tapes for TLC.  17 is the smallest prime above *)
(* 2^4, 4 the least number of bits an instruction takes.                   *)
(***************************************************************************)
EXTENDS MacroMachine

T(name, n) == Token(name, <<Number(n)>>)
Plain(name) == Token(name, << >>)

Case(tokens, places, stacks, tapes, hinted) ==
  {[token |-> t, at |-> at, items |-> s, a |-> tape[1], b |-> tape[2], hinted |-> hinted] :
     t \in tokens, at \in places, s \in stacks, tape \in tapes}

Under == <<5, 6, 7, 8, 9, 10, 11, 12>>
AnyPlace == {0, 1, 7, 8, 15}
Own == {<<<<3, 2>>, <<1>>>>}   \* the program's own inputs

Bits(n) == [1..n -> {0, 1}]
Values == {0, 1, 2, 7, 8, 15, 16}

Moves ==
  Case({T("dup", n) : n \in 1..4} \cup {T("pad", n) : n \in 1..8}
         \cup {T("pick", n) : n \in 1..3} \cup {T("drop", n) : n \in 1..8}
         \cup {T("swap", n) : n \in {1, 2, 4}} \cup {T("roll", n) : n \in {4, 8}}
         \cup {Plain("dup"), Plain("drop"), Plain("swap")},
       {3}, {Under \o <<0, 1>>}, Own, TRUE)

Arithmetic ==
  Case({Plain("sub"), Plain("div"), Plain("eq"), Plain("ne")}, {0},
       {<<x, y>> \o Under : x, y \in {0, 1, 2, 16}}, Own, TRUE)

Numeric ==
  Case({T("gt", 4), T("lt", 4)}, AnyPlace, {<<x, y>> \o Under : x, y \in Values}, Own, TRUE)
    \cup Case({T("rc", 4), T("isodd", 4), T("rc", 5), T("isodd", 5)}, AnyPlace,
              {<<x>> \o Under : x \in Elements}, Own, TRUE)
    \cup Case({T("push", n) : n \in {1, 16}}, AnyPlace, {Under}, Own, TRUE)

Paths ==
  {<<a, b>> : a \in {<<0, 2, 0, 4, 0, 6, 9>>},
              b \in {<<x, 3, y, 5, z, 7, 9>> : x, y, z \in {0, 1}}}

Hashing ==
  Case({T("hash", n) : n \in 1..4}, AnyPlace, {Under}, Own, TRUE)
    \cup Case({T("smpath", n) : n \in 2..4}, {0, 5, 14}, {<<13, 14>> \o Under}, Paths, TRUE)
    \cup Case({T("pmpath", n) : n \in 2..4}, {0, 5, 14},
              {<<13, 14, index>> \o Under : index \in 0..7}, {<<<<2, 4, 6, 9>>, <<3, 5, 7, 9>>>>},
              TRUE)

(* The inverse eq asks for and the bits of the others, all values of them. *)
Unhinted ==
  Case({Plain("eq"), Plain("ne")}, {0}, {<<x, y>> \o Under : x, y \in {0, 1, 2, 16}},
       {<<<<w>>, << >>>> : w \in Elements}, FALSE)
    \cup Case({T("gt", 4), T("lt", 4)}, {0}, {<<x, y>> \o Under : x, y \in {7, 8, 15}},
              {<<a, b>> : a, b \in Bits(4)}, FALSE)
    \cup Case({T("isodd", 4)}, {0}, {<<x>> \o Under : x \in Values},
              {<<a, << >>>> : a \in Bits(4)}, FALSE)
    \cup Case({T("rc", 4)}, {0}, {<<x>> \o Under : x \in Values},
              {<<a \o <<w>>, << >>>> : a \in Bits(4), w \in Elements}, FALSE)
    \cup Case({T("pmpath", 3)}, {0}, {<<13, 14, index>> \o Under : index \in 0..4},
              {<<<<2, x, 4, y>>, <<3, 5, 0>>>> : x, y \in {0, 1}}, FALSE)

MCCases == Moves \cup Arithmetic \cup Numeric \cup Hashing \cup Unhinted

MCRescueRound(s, n) ==
  <<Add(s[2], n), s[3], Add(s[4], Mul(3, s[1])), s[5], s[6], Add(s[1], s[2])>>
=============================================================================
