------------------------------ MODULE FieldSpec ------------------------------
(***************************************************************************)
(* What the arithmetic of math/field.rs promises: whatever two elements an *)
(* operation is called with, it ends, with the element that the definition *)
(* of the field names.                                                     *)
(***************************************************************************)
EXTENDS Field

VARIABLES
  request,   \* the operation called and its two arguments
  result     \* << >>, then a sequence of the element returned

Operations == {"add", "sub", "mul", "inv"}
Requests == [op : Operations, x : Elements, y : Elements]

Exact(r) ==
  CASE r.op = "add" -> Add(r.x, r.y)
    [] r.op = "sub" -> Sub(r.x, r.y)
    [] r.op = "mul" -> Mul(r.x, r.y)
    [] r.op = "inv" -> Inv(r.x)

Init == request \in Requests /\ result = << >>

Answer ==
  /\ result = << >>
  /\ result' = <<Exact(request)>>
  /\ UNCHANGED request

Spec == Init /\ [][Answer]_<<request, result>> /\ WF_<<request, result>>(Answer)
=============================================================================
