-------------------------- MODULE ProgramSemantics --------------------------
(***************************************************************************)
(* What executing a program means: the control blocks are structured       *)
(* control flow over the user stack.  There is no trace, no padding, no    *)
(* hash and no register; todo is the list of tasks left and outcome is why *)
(* execution ended.                                                        *)
(***************************************************************************)
EXTENDS StackSpec, Tasks

CONSTANTS RootLists, ProgramInputs

VARIABLES todo, outcome

semVars == <<specVars, todo, outcome>>

(* A control block may find no register left for its context or its loop.  *)
ResourceLimits == {"context overflow", "loop overflow"}

Condition == IF items = << >> THEN 0 ELSE items[1]

SemanticsInit ==
  /\ \E root \in RootLists : todo = ListTasks(root)
  /\ \E in \in ProgramInputs :
       items = in.public /\ tapeA = in.a /\ tapeB = in.b
  /\ outcome = "running"

DoOp ==
  /\ Head(todo).kind = "op"
  /\ LET t == Head(todo) IN Run(t.of.op, t.of.hint, t.pos % RescueCycle)
  /\ todo' = Tail(todo)
  /\ UNCHANGED outcome

Unfold(tasks) ==
  /\ todo' = tasks \o Tail(todo)
  /\ UNCHANGED <<specVars, outcome>>

DoSpan ==
  /\ Head(todo).kind = "span"
  /\ Unfold(SpanTasks(Head(todo).of, 1))

DoGroup ==
  /\ Head(todo).kind = "group"
  /\ Unfold(ListTasks(Head(todo).of.body))

DoSwitch ==
  /\ Head(todo).kind = "switch"
  /\ \/ Condition = 1 /\ Unfold(ListTasks(Head(todo).of.t_branch))
     \/ Condition = 0 /\ Unfold(ListTasks(Head(todo).of.f_branch))

(* while the condition is 1, one more time; then what proves it is 0 *)
DoLoop ==
  /\ Head(todo).kind = "loop"
  /\ \/ Condition = 1 /\ Unfold(ListTasks(Head(todo).of.body) \o <<Head(todo)>>)
     \/ Condition = 0 /\ Unfold(ListTasks(Head(todo).of.skip))

(* Execution fails for the reason the program gives, or for a resource a   *)
(* control block needs; a program that is done does not fail.              *)
Fail ==
  /\ outcome' = CASE Head(todo).kind = "op" ->
                       Failure(Head(todo).of.op, Head(todo).of.hint)
                  [] Head(todo).kind \in {"switch", "loop"} /\ ~ IsBinary(Condition) ->
                       "condition"
                  [] OTHER -> "none"
  /\ outcome' # "none"
  /\ UNCHANGED <<specVars, todo>>

Exhaust ==
  /\ Head(todo).kind \in {"group", "switch", "loop"}
  /\ outcome' \in ResourceLimits
  /\ UNCHANGED <<specVars, todo>>

Finish ==
  /\ todo = << >> /\ outcome' = "done"
  /\ UNCHANGED <<specVars, todo>>

SemanticsNext ==
  /\ outcome = "running"
  /\ \/ /\ todo # << >>
        /\ DoOp \/ DoSpan \/ DoGroup \/ DoSwitch \/ DoLoop \/ Fail \/ Exhaust
     \/ Finish

SemanticsSpec == SemanticsInit /\ [][SemanticsNext]_semVars
=============================================================================
