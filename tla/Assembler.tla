------------------------------ MODULE Assembler ------------------------------
(***************************************************************************)
(* The assembler (programs/assembly/mod.rs): compile reads a sequence of   *)
(* tokens into a tree of blocks by recursive descent.                      *)
(*                                                                         *)
(* frames is the Rust call stack.  A frame is an invocation of             *)
(* parse_branch and, but for the outermost, of the parse_block that called *)
(* it: what that does when the branch returns is part of the action that   *)
(* reads the branch's last token.                                          *)
(***************************************************************************)
EXTENDS Macros, SequencesExt

CONSTANT Sources   \* the sequences of tokens to compile

VARIABLES
  tokens,
  at,      \* i: the token read next, from 1
  frames,  \* [head, first, body, code, then]
  result   \* [status, root]: "parsing", "program", "panic", or an error

Tokens == [name : STRING, params : Seq([word : STRING, number : Int])]

ASSUME SourcesAssumption == Sources \subseteq Seq(Tokens)

vars == <<tokens, at, frames, result>>

BlockNames == {"block", "if", "repeat", "while"}
Parsing == [status |-> "parsing", root |-> << >>]
Stop(status) == [status |-> status, root |-> << >>]

(* parse_branch: the operations a branch starts with *)
Guard(head) ==
  CASE head.name = "begin"             -> <<"begin">>
    [] head.name \in {"if", "while"}   -> <<"assert">>
    [] head.name = "else"              -> <<"not", "assert">>
    [] head.name \in {"block", "repeat"} -> << >>

(* the locals of parse_branch.  then is the true branch, in a false one.   *)
Branch(first, then) ==
  [head |-> tokens[first], first |-> first, body |-> << >>,
   code |-> Emit(<< >>, Guard(tokens[first])), then |-> then]

(* compile: the checks that come first, then the outermost parse_branch *)
AssemblerInit ==
  /\ tokens \in Sources
  /\ at = 2
  /\ result = CASE Len(tokens) = 0 -> Stop("empty program")
                [] tokens[1] # Token("begin", << >>) -> Stop("invalid program start")
                [] Last(tokens) # Token("end", << >>) -> Stop("invalid program end")
                [] OTHER -> Parsing
  /\ frames = IF result = Parsing THEN <<Branch(1, << >>)>> ELSE << >>
-----------------------------------------------------------------------------
(* Building blocks.                                                        *)

(* add_span: the code is padded to one less than a multiple of the cycle *)
PaddedSpan(code) ==
  Span(Emit(code, Times(CycleLength - (Len(code) % CycleLength) - 1, <<"noop">>)))

AddSpan(frame, force) ==
  IF frame.code = << >> /\ ~ force THEN frame.body
  ELSE Append(frame.body, PaddedSpan(frame.code))

(* a merge without the NOOP between the spans *)
MergeSpansAdjoined(span1, span2) == Span(span1.code \o span2.code)

(* Span::merge *)
MergeSpans(span1, span2) == Span(Append(span1.code, Instr("noop")) \o span2.code)

(* repeat_block_sequence that appends whole copies *)
RepeatWithoutMerge(template, count) ==
  [i \in 1..(count * Len(template)) |-> template[((i - 1) % Len(template)) + 1]]

(* a copy too few *)
RepeatOneLess(template, count) ==
  [i \in 1..((count - 1) * Len(template)) |-> template[((i - 1) % Len(template)) + 1]]

(* repeat_block_sequence *)
RepeatBlocks(template, count) ==
  LET body[n \in 1..count] ==
        CASE n = 1 -> template
          [] n > 1 /\ Last(template).kind # "span" -> body[n - 1] \o template
          [] OTHER -> Front(body[n - 1])
                        \o <<MergeSpans(Last(body[n - 1]), template[1])>> \o Tail(template)
  IN body[count]

(* the false branch of an if without else *)
NoElse == <<PaddedSpan(Emit(<< >>, <<"not", "assert">>))>>

(* the block parse_block makes of its parsed branch; else is the other one *)
Block(frame, body) ==
  CASE frame.head.name = "block"  -> Group(body)
    [] frame.head.name = "if"     -> Switch(body, NoElse)
    [] frame.head.name = "else"   -> Switch(frame.then, body)
    [] frame.head.name = "repeat" -> Group(RepeatBlocks(body, frame.head.params[1].number))
    [] frame.head.name = "while"  -> Loop(body)

(* the assertions of Span::new for each span of a body *)
SpansAccepted(body) ==
  \A i \in 1..Len(body) : body[i].kind = "span" => ValidSpan(body[i].code)

(* and, of a control block just built, those of its own constructor and of *)
(* the merged spans in it *)
Accepted(block) ==
  /\ ValidBlock(block)
  /\ block.kind = "group" => SpansAccepted(block.body)
-----------------------------------------------------------------------------
(* The loop of parse_branch, a token at a time.                            *)

Top == Last(frames)
Current == tokens[at]

Reading == result = Parsing /\ at <= Len(tokens)

Fail(status) ==
  /\ result' = Stop(status)
  /\ UNCHANGED <<tokens, at, frames>>

(* The head of parse_block; read_param here has no default: without a      *)
(* parameter it indexes past the end of the token.                         *)
HeadError(token) ==
  LET p == token.params
  IN CASE token.name = "block" -> IF p = << >> THEN "none" ELSE "invalid block head"
       [] token.name \in {"if", "while"} ->
            IF p # << >> /\ p[1].word = "true" THEN "none" ELSE "invalid block head"
       [] token.name = "repeat" ->
            CASE p = << >>            -> "panic"
              [] Len(p) > 1           -> "extra param"
              [] ~ IsNumber(p[1])     -> "invalid param"
              [] p[1].number < 2      -> "invalid num iterations"
              [] OTHER                -> "none"

Instruction ==
  LET parsed == ParseOp(Top.code, Current)
  IN /\ Reading /\ Current.name \notin BlockNames \cup {"else", "end"}
     /\ IF parsed.error # "none" THEN Fail(parsed.error)
        ELSE /\ frames' = [frames EXCEPT ![Len(frames)].code = parsed.program]
             /\ at' = at + 1
             /\ UNCHANGED <<tokens, result>>

(* add_span, and the call of parse_block *)
OpenBlock ==
  LET body == AddSpan(Top, Top.body = << >>)
      suspended == [Top EXCEPT !.body = body, !.code = << >>]
  IN /\ Reading /\ Current.name \in BlockNames
     /\ IF ~ SpansAccepted(body) THEN Fail("panic")
        ELSE IF HeadError(Current) # "none" THEN Fail(HeadError(Current))
        ELSE /\ frames' = Front(frames) \o <<suspended, Branch(at, << >>)>>
             /\ at' = at + 1
             /\ UNCHANGED <<tokens, result>>

(* a check that takes a single instruction for none *)
BranchErrorTooStrict(body) ==
  CASE at - Top.first < 3        -> "empty block"
    [] ~ SpansAccepted(body)     -> "panic"
    [] OTHER                     -> "none"

(* what both ends of a branch check *)
BranchError(body) ==
  CASE at - Top.first < 2        -> "empty block"
    [] ~ SpansAccepted(body)     -> "panic"
    [] OTHER                     -> "none"

(* The token may have parameters: parse_branch looks at its name alone,    *)
(* parse_block, to see whether there is a false branch, at the whole.      *)
HasElse == Current = Token("else", << >>)

(* the branch returns and parse_block appends its block to the parent's *)
CloseBlock(body) ==
  LET block == Block(Top, body)
      parent == frames[Len(frames) - 1]
  IN IF ~ Accepted(block) THEN Fail("panic")
     ELSE /\ frames' = SubSeq(frames, 1, Len(frames) - 2)
                         \o <<[parent EXCEPT !.body = Append(@, block)]>>
          /\ at' = at + 1
          /\ UNCHANGED <<tokens, result>>

Else ==
  LET body == AddSpan(Top, FALSE)
  IN /\ Reading /\ Current.name = "else"
     /\ CASE Top.head.name # "if"          -> Fail("dangling else")
          [] Top.head.name = "if" /\ BranchError(body) # "none" -> Fail(BranchError(body))
          [] Top.head.name = "if" /\ BranchError(body) = "none" /\ HasElse ->
               /\ frames' = Front(frames) \o <<Branch(at, body)>>
               /\ at' = at + 1
               /\ UNCHANGED <<tokens, result>>
          [] OTHER -> CloseBlock(body)

EndBlock ==
  LET body == AddSpan(Top, FALSE)
  IN /\ Reading /\ Current.name = "end" /\ Len(frames) > 1
     /\ IF BranchError(body) # "none" THEN Fail(BranchError(body)) ELSE CloseBlock(body)

(* the outermost branch returns to compile *)
EndProgram ==
  LET body == AddSpan(Top, FALSE)
  IN /\ Reading /\ Current.name = "end" /\ Len(frames) = 1
     /\ CASE BranchError(body) # "none" -> Fail(BranchError(body))
          [] BranchError(body) = "none" /\ ~ ValidBlock(Group(body)) -> Fail("panic")
          [] BranchError(body) = "none" /\ ValidBlock(Group(body)) /\ at < Len(tokens) ->
               Fail("dangling instructions")
          [] OTHER ->
               /\ result' = IF ValidRoot(body) THEN [status |-> "program", root |-> body]
                                               ELSE Stop("panic")
               /\ UNCHANGED <<tokens, at, frames>>

(* the tokens end inside of a block *)
RunOut ==
  /\ result = Parsing /\ at > Len(tokens)
  /\ Fail("unmatched block")

AssemblerNext == Instruction \/ OpenBlock \/ Else \/ EndBlock \/ EndProgram \/ RunOut

AssemblerSpec == AssemblerInit /\ [][AssemblerNext]_vars
-----------------------------------------------------------------------------
(***************************************************************************)
(* No text makes a constructor's assertion fail: padding and merging keep  *)
(* spans one short of whole cycles and pushes aligned, and branches start  *)
(* with the operations that check their condition.  What does panic is the *)
(* parser itself, on a repeat without a count (assembly/mod.rs:313).       *)
(***************************************************************************)
NeverPanics == result.status = "panic" => tokens[at] = Token("repeat", << >>)

Alternates(body) ==
  \A i \in 2..Len(body) : body[i].kind = "span" => body[i - 1].kind # "span"

(* the lists so many levels below the root of a tree *)
ListsAt(root, depth) ==
  LET lists[n \in 0..depth] ==
        IF n = 0 THEN {root}
        ELSE UNION {UNION {Nested(s[i]) : i \in 1..Len(s)} : s \in lists[n - 1]}
  IN lists[depth]

(***************************************************************************)
(* blocks/mod.rs:359: a span is never followed by another, in the root and *)
(* in every block of the tree - validate_block_list only sees to it at the *)
(* start of a list.  No tree is deeper than its text is long.              *)
(***************************************************************************)
SpansAlternate ==
  result.status = "program" =>
    \A depth \in 0..Len(tokens) : \A s \in ListsAt(result.root, depth) : Alternates(s)
=============================================================================
