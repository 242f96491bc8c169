----------------------------- MODULE ProofSystem -----------------------------
(***************************************************************************)
(* From a trace to a proof and to the verdict on it: stark/prover.rs and   *)
(* stark/verifier.rs with trace_table.rs, constraint_table.rs,             *)
(* constraint_poly.rs, proof.rs and stark/utils.  Prover and verifier      *)
(* share nothing but the proof and the options: whatever is random, each   *)
(* derives on its own from the commitments, and everything the prover does *)
(* to polynomials the verifier redoes on single values.                    *)
(***************************************************************************)
EXTENDS Fri

CONSTANTS
  Jobs,              \* what prove and verify are called with
  NumQueries,        \* num_queries of the options
  MaxDraws,          \* 1000: positions drawn before giving up
  GrindingModulus,   \* 2^grinding_factor
  MaxNonce,          \* bound of the model: the search for a nonce ends by here
  OpCountRange,      \* 2^32: the op count of a proof is a u32
  MinTraceLength     \* MIN_TRACE_LENGTH

(* Lengths come in powers of two, and no domain fits in a remainder: a     *)
(* program of MinTraceLength operations has twice as many rows at least.   *)
ASSUME ProofSystemAssumption ==
  /\ \A j \in Jobs :
       /\ IsPowerOfTwo(j.length) /\ j.length >= 2 * MinTraceLength
       /\ j.length * ExtensionFactor <= RootOrder /\ j.length % CycleLength = 0
       /\ j.length * ExtensionFactor > MaxRemainderLength

VARIABLES
  job,            \* trace, and the public values of prover and verifier
  stage,          \* what is done next, or how it ended
  table,          \* polynomials of the registers, and their values on the domain
  constraint,     \* the constraints: their values, then one polynomial, then its values
  composition,    \* its polynomial, and the registers at z and at the next point
  layers,         \* the layers of the low-degree proof
  pow,            \* seed of the queries, and the nonce it was found with
  queries, draws, \* positions drawn, and how many draws that took
  proof,
  altered,        \* the part of the proof that was changed on its way
  evaluations,    \* verifier: values of the composition by position
  depth, layerSize, bound \* verifier: the layer reached, its size, its coefficients

proverVars == <<table, constraint, composition, layers>>
queryVars == <<pow, queries, draws>>
verifierVars == <<evaluations, depth, layerSize, bound>>
vars == <<job, stage, proverVars, queryVars, proof, altered, verifierVars>>

Nothing == << >>

DomainSize(length) == length * ExtensionFactor

ProofInit ==
  /\ job \in Jobs /\ stage = "extend"
  /\ table = Nothing /\ constraint = Nothing /\ composition = Nothing /\ layers = << >>
  /\ pow = Nothing /\ queries = {} /\ draws = 0
  /\ proof = Nothing /\ altered = Nothing
  /\ evaluations = Nothing /\ depth = 0 /\ layerSize = 0 /\ bound = 0
-----------------------------------------------------------------------------
(* The prover *)

Domain == DomainSize(job.length)
DomainRoot == RootOfUnity(Domain)
DomainTwiddles == Twiddles(DomainRoot, Domain)

(* TraceTable::extend *)
Extend ==
  /\ stage = "extend"
  /\ LET inv == InvTwiddles(RootOfUnity(job.length), job.length)
         polys == [r \in RegisterIndexes |-> InterpolateFft(job.trace[r], inv)]
     IN table' = [polys |-> polys,
                  values |-> [r \in RegisterIndexes |->
                                EvalFft(Padded(polys[r], Domain), DomainTwiddles)]]
  /\ stage' = "constraints"
  /\ UNCHANGED <<job, constraint, composition, layers, queryVars, proof, altered, verifierVars>>

(* fill_state, and the leaf of build_merkle_tree *)
StateAt(p) == [r \in RegisterIndexes |-> table.values[r][p]]
TraceLeaves == [p \in 0..(Domain - 1) |-> StateAt(p)]

(* Evaluator::from_trace *)
ProverEvaluator ==
  [length |-> job.length, seed |-> Root(TraceLeaves), inputs |-> job.inputs,
   outputs |-> job.outputs, count |-> job.trace[0][job.length - 1]]

(* ConstraintTable::evaluate at every point of the smaller domain; next is *)
(* the state a row later, behind the end that of the start                 *)
EvaluationPoints == 0..(job.length * MaxConstraintDegree - 1)
Position(point) == point * (ExtensionFactor \div MaxConstraintDegree)

TransitionAt(point) ==
  Constraints(StateAt(Position(point)),
              StateAt((Position(point) + ExtensionFactor) % Domain), ConstantAtStep(point))

TransitionFails(point) ==
  OnTrace(job.length, point) /\ \E i \in DOMAIN Degrees : TransitionAt(point)[i] # 0

(* ConstraintTable::evaluate: the combined constraints at every point *)
Combinations ==
  LET evaluator == ProverEvaluator
      state(p) == StateAt(Position(p))
      x(p) == Exp(DomainRoot, Position(p))
  IN [initial    |-> [p \in EvaluationPoints |-> InitialValue(evaluator, state(p), x(p))],
      final      |-> [p \in EvaluationPoints |-> FinalValue(evaluator, state(p), x(p))],
      transition |-> [p \in EvaluationPoints |->
                        IF OnTrace(job.length, p) THEN 0
                        ELSE CombinedTransition(evaluator, TransitionAt(p), x(p))]]

EvaluateConstraints ==
  /\ stage = "constraints"
  /\ ~ \E point \in EvaluationPoints : TransitionFails(point)
  /\ constraint' = Combinations
  /\ stage' = "combine"
  /\ UNCHANGED <<job, table, composition, layers, queryVars, proof, altered, verifierVars>>

(* combine_polys: interpolate, divide and add *)
CombinePolys ==
  /\ stage = "combine"
  /\ LET n == job.length * MaxConstraintDegree
         inv == InvTwiddles(RootOfUnity(n), n)
         a == SynDiv(InterpolateFft(constraint.initial, inv), 1)
         b == SynDiv(InterpolateFft(constraint.final, inv), LastPoint(job.length))
         c == SynDivExpanded(InterpolateFft(constraint.transition, inv), job.length, LastPoint(job.length))
     IN constraint' = [poly |-> [i \in EvaluationPoints |-> Add(Add(a[i], b[i]), c[i])]]
  /\ stage' = "commit"
  /\ UNCHANGED <<job, table, composition, layers, queryVars, proof, altered, verifierVars>>

(* ConstraintPoly::eval *)
EvaluatePoly ==
  /\ stage = "commit"
  /\ constraint' = [poly   |-> constraint.poly,
                    values |-> EvalFft(Padded(constraint.poly, Domain), DomainTwiddles)]
  /\ stage' = "compose"
  /\ UNCHANGED <<job, table, composition, layers, queryVars, proof, altered, verifierVars>>

(* the assertion of evaluate_transition *)
RefuseTrace ==
  /\ stage = "constraints"
  /\ \E point \in EvaluationPoints : TransitionFails(point)
  /\ stage' = "no proof"
  /\ UNCHANGED <<job, proverVars, queryVars, proof, altered, verifierVars>>

(* evaluations_to_leaves: two values in a leaf *)
ConstraintLeaves ==
  [k \in 0..(Domain \div 2 - 1) |-> [i \in 0..1 |-> constraint.values[2 * k + i]]]

(* get_composition_poly: what a point divides out of the registers *)
DividedOut(point, values, coefficient) ==
  LET term(r, k) == Mul(coefficient[r], IF k = 0 THEN Sub(table.polys[r][0], values[r])
                                                 ELSE table.polys[r][k])
  IN SynDiv([k \in 0..(job.length - 1) |->
               SumOf([i \in 1..Registers |-> term(i - 1, k)])], point)

CompositionPoly(seed, z, nextZ, atZ, atNextZ) ==
  LET t1 == DividedOut(z, atZ, [r \in RegisterIndexes |-> TraceCoefficient1(seed, r)])
      t2 == DividedOut(nextZ, atNextZ, [r \in RegisterIndexes |-> TraceCoefficient2(seed, r)])
      t == [k \in DOMAIN t1 |-> Add(t1[k], t2[k])]
      up == IncrementalDegree(job.length)
      c == SynDiv([constraint.poly EXCEPT ![0] = Sub(@, Eval(constraint.poly, z))], z)
  IN [k \in EvaluationPoints |->
        SumOf(<<IF k \in DOMAIN t THEN Mul(t[k], DegreeCoefficient1(seed)) ELSE 0,
                IF k - up \in DOMAIN t THEN Mul(t[k - up], DegreeCoefficient2(seed)) ELSE 0,
                Mul(c[k], ConstraintCoefficient(seed))>>)]

(* build_composition_poly *)
Compose ==
  /\ stage = "compose"
  /\ LET seed == Root(ConstraintLeaves)
         z == Draw(seed, 0)
         nextZ == Mul(z, RootOfUnity(job.length))
         atZ == [r \in RegisterIndexes |-> Eval(table.polys[r], z)]
         atNextZ == [r \in RegisterIndexes |-> Eval(table.polys[r], nextZ)]
     IN composition' = [poly |-> CompositionPoly(seed, z, nextZ, atZ, atNextZ),
                        deep |-> [z1 |-> atZ, z2 |-> atNextZ]]
  /\ stage' = "evaluate"
  /\ UNCHANGED <<job, table, constraint, layers, queryVars, proof, altered, verifierVars>>

(* its values, in the rows reduce starts with *)
EvaluateComposition ==
  /\ stage = "evaluate"
  /\ layers' = <<Rows(EvalFft(Padded(composition.poly, Domain), DomainTwiddles), 1)>>
  /\ stage' = "reduce"
  /\ UNCHANGED <<job, table, constraint, composition, queryVars, proof, altered, verifierVars>>

LastLayer == layers[Len(layers)]

(* a turn of the loop of fri::reduce *)
Reduce ==
  /\ stage = "reduce" /\ NeedsReduction(LastLayer)
  /\ layers' = Append(layers, Folded(LastLayer, DomainRoot, Len(layers) - 1))
  /\ UNCHANGED <<job, stage, table, constraint, composition, queryVars, proof, altered, verifierVars>>

(* The test of find_pow_nonce and verify_pow_nonce.  Both write the hash   *)
(* through a pointer taken from a buffer declared immutable, so a build of *)
(* either may read the zeros the buffer was made with.                     *)
PowPasses(readsZeros, seed, nonce) ==
  readsZeros \/ Digest(<<seed, nonce>>) % GrindingModulus = 0

(* find_pow_nonce *)
Grind ==
  /\ stage = "reduce" /\ ~ NeedsReduction(LastLayer)
  /\ LET seed == Digest([i \in 0..(Len(layers) - 1) |-> Root(layers[i + 1])])
         Passes(n) == PowPasses(job.readsZeros.prover, seed, n)
         nonce == CHOOSE n \in 1..MaxNonce : Passes(n) /\ \A m \in 1..(n - 1) : ~ Passes(m)
     IN pow' = [seed |-> Digest(<<seed, nonce>>), nonce |-> nonce]
  /\ stage' = "prover queries"
  /\ UNCHANGED <<job, proverVars, queries, draws, proof, altered, verifierVars>>
-----------------------------------------------------------------------------
(* compute_query_positions, for both sides *)

Queried == Cardinality(queries) = NumQueries
QueryRange == IF stage = "prover queries" THEN Domain ELSE proof.domain

DrawQuery ==
  /\ stage \in {"prover queries", "verifier queries"} /\ ~ Queried /\ draws < MaxDraws
  /\ LET position == Draw(pow.seed, draws) % QueryRange
     IN queries' = IF position % ExtensionFactor = 0 THEN queries ELSE queries \cup {position}
  /\ draws' = draws + 1
  /\ UNCHANGED <<job, stage, proverVars, pow, proof, altered, verifierVars>>

(* "needed to generate {} query positions" *)
TooFewQueries ==
  /\ stage \in {"prover queries", "verifier queries"} /\ ~ Queried /\ draws = MaxDraws
  /\ stage' = IF stage = "prover queries" THEN "no proof" ELSE "panicked"
  /\ UNCHANGED <<job, proverVars, queryVars, proof, altered, verifierVars>>

(* map_trace_to_constraint_positions *)
ConstraintPositions == {p \div 2 : p \in queries}

(* StarkProof::new *)
BuildProof ==
  /\ stage = "prover queries" /\ Queried
  /\ proof' = [domain            |-> Domain,
               opCount           |-> job.trace[0][job.length - 1] % OpCountRange,
               traceRoot         |-> Root(TraceLeaves),
               traceOpening      |-> Opening(TraceLeaves, queries),
               constraintRoot    |-> Root(ConstraintLeaves),
               constraintOpening |-> Opening(ConstraintLeaves, ConstraintPositions),
               deep              |-> composition.deep,
               degree            |-> FriProof(layers, queries),
               nonce             |-> pow.nonce]
  /\ stage' = "sent"
  /\ UNCHANGED <<job, proverVars, queryVars, altered, verifierVars>>
-----------------------------------------------------------------------------
(* The proof on its way: intact, or one value in it replaced by the next *)

NextElement(x) == Add(x, 1)

(* the value of a row next to the one at i *)
RowAltered(row, i) == [row EXCEPT ![i] = NextElement(@)]

Parts ==
  {<<"trace root">>, <<"trace nodes">>, <<"constraint root">>, <<"constraint nodes">>,
   <<"remainder root">>, <<"nonce">>, <<"op count">>}
  \cup {<<"trace value", p, r>> : p \in DOMAIN proof.traceOpening.values, r \in RegisterIndexes}
  \cup {<<"constraint value", p, i>> : p \in DOMAIN proof.constraintOpening.values, i \in 0..1}
  \cup {<<"z1", r>> : r \in RegisterIndexes} \cup {<<"z2", r>> : r \in RegisterIndexes}
  \cup {<<"layer root", d>> : d \in DOMAIN proof.degree.layers}
  \cup (UNION {{<<"layer value", d, p, i>> : p \in DOMAIN proof.degree.layers[d].opening.values, i \in 0..3}
                 : d \in DOMAIN proof.degree.layers})
  \cup {<<"remainder", i>> : i \in DOMAIN proof.degree.remainder}

NodesAltered(nodes) ==
  LET some == CHOOSE p \in DOMAIN nodes : TRUE
  IN [nodes EXCEPT ![some] = @ + 1]

Altered(part) ==
  LET name == part[1]
  IN CASE name = "trace root"       -> [proof EXCEPT !.traceRoot = @ + 1]
       [] name = "trace nodes"      -> [proof EXCEPT !.traceOpening.nodes = NodesAltered(@)]
       [] name = "constraint root"  -> [proof EXCEPT !.constraintRoot = @ + 1]
       [] name = "constraint nodes" -> [proof EXCEPT !.constraintOpening.nodes = NodesAltered(@)]
       [] name = "remainder root"   -> [proof EXCEPT !.degree.remRoot = @ + 1]
       [] name = "nonce"            -> [proof EXCEPT !.nonce = @ + 1]
       [] name = "op count"         -> [proof EXCEPT !.opCount = (@ + 1) % OpCountRange]
       [] name = "trace value"      -> [proof EXCEPT !.traceOpening.values[part[2]] = RowAltered(@, part[3])]
       [] name = "constraint value" -> [proof EXCEPT !.constraintOpening.values[part[2]] = RowAltered(@, part[3])]
       [] name = "z1"               -> [proof EXCEPT !.deep.z1 = RowAltered(@, part[2])]
       [] name = "z2"               -> [proof EXCEPT !.deep.z2 = RowAltered(@, part[2])]
       [] name = "layer root"       -> [proof EXCEPT !.degree.layers[part[2]].root = @ + 1]
       [] name = "layer value"      -> [proof EXCEPT !.degree.layers[part[2]].opening.values[part[3]] = RowAltered(@, part[4])]
       [] OTHER                     -> [proof EXCEPT !.degree.remainder = RowAltered(@, part[2])]

Deliver ==
  /\ stage = "sent"
  /\ \/ UNCHANGED <<proof, altered>>
     \/ \E part \in Parts : altered' = part /\ proof' = Altered(part)
  /\ pow' = Nothing /\ queries' = {} /\ draws' = 0
  /\ stage' = "verify"
  /\ UNCHANGED <<job, proverVars, verifierVars>>
-----------------------------------------------------------------------------
(* The verifier *)

CheckNonce ==
  /\ stage = "verify"
  /\ LET count == Len(proof.degree.layers)
         seed == Digest([i \in 0..count |-> IF i = count THEN proof.degree.remRoot
                                            ELSE proof.degree.layers[i + 1].root])
     IN /\ pow' = [seed |-> Digest(<<seed, proof.nonce>>), nonce |-> proof.nonce]
        /\ stage' = IF PowPasses(job.readsZeros.verifier, seed, proof.nonce)
                     THEN "verifier queries" ELSE "rejected"
  /\ UNCHANGED <<job, proverVars, queries, draws, proof, altered, verifierVars>>

ProofLength == proof.domain \div ExtensionFactor
ProofRoot == RootOfUnity(proof.domain)

(* Evaluator::from_proof *)
VerifierEvaluator ==
  [length |-> ProofLength, seed |-> proof.traceRoot, inputs |-> job.claimedInputs,
   outputs |-> job.claimedOutputs, count |-> proof.opCount]

CommitmentsHold ==
  /\ proof.opCount >= MinTraceLength
  /\ OpensTo(proof.traceOpening, queries, proof.traceRoot)
  /\ OpensTo(proof.constraintOpening, ConstraintPositions, proof.constraintRoot)

(* compose_registers and compose_constraints at a position *)
ComposedAt(p, seed, z, constraintsAtZ) ==
  LET x == Exp(ProofRoot, p)
      nextZ == Mul(z, RootOfUnity(ProofLength))
      row == proof.traceOpening.values[p]
      t1(r) == Mul(Sub(row[r], proof.deep.z1[r]), Inv(Sub(x, z)))
      t2(r) == Mul(Sub(row[r], proof.deep.z2[r]), Inv(Sub(x, nextZ)))
      t == SumOf([i \in 1..Registers |-> Add(Mul(t1(i - 1), TraceCoefficient1(seed, i - 1)),
                                             Mul(t2(i - 1), TraceCoefficient2(seed, i - 1)))])
      raised == Mul(t, Exp(x, IncrementalDegree(ProofLength)))
      value == proof.constraintOpening.values[p \div 2][p % 2]
      c == Mul(Sub(value, constraintsAtZ), Inv(Sub(x, z)))
  IN Add(Add(Mul(t, DegreeCoefficient1(seed)), Mul(raised, DegreeCoefficient2(seed))),
         Mul(c, ConstraintCoefficient(seed)))

(* steps 2 to 5 of verify, and the start of fri::verify *)
CheckCommitments ==
  /\ stage = "verifier queries" /\ Queried
  /\ IF CommitmentsHold
     THEN LET seed == proof.constraintRoot
              z == Draw(seed, 0)
              constraintsAtZ == ConstraintsAt(VerifierEvaluator, proof.deep.z1, proof.deep.z2, z)
          IN /\ evaluations' = [p \in queries |-> ComposedAt(p, seed, z, constraintsAtZ)]
             /\ depth' = 1
             /\ layerSize' = 4 * proof.degree.layers[1].rows
             /\ bound' = CompositionDegree(ProofLength) + 1
             /\ stage' = "layers"
     ELSE UNCHANGED verifierVars /\ stage' = "rejected"
  /\ UNCHANGED <<job, proverVars, queryVars, proof, altered>>

FirstRoot == RootOfUnity(4 * proof.degree.layers[1].rows)
LayerRoot == Exp(FirstRoot, 4^(depth - 1))

(* a turn of the loop of fri::verify *)
CheckLayer ==
  /\ stage = "layers" /\ depth <= Len(proof.degree.layers)
  /\ LET layer == proof.degree.layers[depth]
         rows == layerSize \div 4
         positions == RowsOf(DOMAIN evaluations, rows)
     IN IF /\ ColumnMatches(evaluations, rows, layer.opening.values)
           /\ OpensTo(layer.opening, positions, layer.root)
        THEN /\ evaluations' = FoldedEvaluations(layer, positions, LayerRoot, Exp(FirstRoot, proof.degree.layers[1].rows))
             /\ depth' = depth + 1 /\ layerSize' = rows /\ bound' = bound \div 4
             /\ UNCHANGED stage
        ELSE stage' = "rejected" /\ UNCHANGED verifierVars
  /\ UNCHANGED <<job, proverVars, queryVars, proof, altered>>

CheckRemainder ==
  /\ stage = "layers" /\ depth > Len(proof.degree.layers)
  /\ stage' = IF /\ RemainderMatches(evaluations, proof.degree.remainder)
                 /\ LowDegree(proof.degree.remainder, bound, LayerRoot)
              THEN "accepted" ELSE "rejected"
  /\ UNCHANGED <<job, proverVars, queryVars, proof, altered, verifierVars>>
-----------------------------------------------------------------------------
ProofNext ==
  \/ Extend \/ EvaluateConstraints \/ RefuseTrace \/ CombinePolys \/ EvaluatePoly
  \/ Compose \/ EvaluateComposition \/ Reduce \/ Grind
  \/ DrawQuery \/ TooFewQueries \/ BuildProof
  \/ Deliver
  \/ CheckNonce \/ CheckCommitments \/ CheckLayer \/ CheckRemainder

ProofSpec == ProofInit /\ [][ProofNext]_vars
-----------------------------------------------------------------------------
(* What a proof is about *)

Row(trace, n) == [r \in RegisterIndexes |-> trace[r][n]]

IsExecution(trace, length) ==
  \A n \in 0..(length - 2) : \A i \in DOMAIN Degrees :
    Constraints(Row(trace, n), Row(trace, n + 1), RoundConstants[n % CycleLength])[i] = 0

IsTrue(inputs, outputs) ==
  LET first == Row(job.trace, 0)
      last == Row(job.trace, job.length - 1)
  IN /\ IsExecution(job.trace, job.length)
     /\ first[0] = 0
     /\ \A i \in DOMAIN inputs : first[i] = inputs[i]
     /\ \A i \in DOMAIN outputs : last[i] = outputs[i]

Intact == altered = Nothing
Ended == stage \in {"accepted", "rejected", "panicked"}

(***************************************************************************)
(* A proof of a true claim that arrives intact is accepted: what verifier  *)
(* and prover derive apart from each other agrees.  The count of           *)
(* operations must fit the 32 bits it has in a proof, and the verifier     *)
(* must not read the hash of the nonce where the prover read zeros.        *)
(***************************************************************************)
HonestProofAccepted ==
  /\ Ended /\ Intact
  /\ IsTrue(job.inputs, job.outputs) /\ IsTrue(job.claimedInputs, job.claimedOutputs)
  /\ job.trace[0][job.length - 1] \in MinTraceLength..(OpCountRange - 1)
  /\ job.readsZeros.prover => job.readsZeros.verifier
  => stage = "accepted"

(***************************************************************************)
(* Only what the execution did is ever accepted, whatever prover and       *)
(* verifier were told of its inputs and outputs.                           *)
(***************************************************************************)
AcceptedIsTrue ==
  stage = "accepted" =>
    /\ IsTrue(job.claimedInputs, job.claimedOutputs)
    /\ job.trace[0][job.length - 1] < OpCountRange

(***************************************************************************)
(* A proof with one value changed is rejected, except for the cells of the *)
(* remainder at multiples of the extension factor: verify_remainder leaves *)
(* them out, and no query leads to them.                                   *)
(***************************************************************************)
AlteredProofRejected ==
  stage = "accepted" =>
    \/ Intact
    \/ altered[1] = "remainder" /\ altered[2] % ExtensionFactor = 0

(***************************************************************************)
(* In every layer the verifier's bound on the number of coefficients is    *)
(* exactly the rate times the size of the layer, although it is divided    *)
(* without its remainder, and no position it follows is at a multiple of   *)
(* the extension factor, where the rows of the trace are.                  *)
(***************************************************************************)
LayersKeepRate ==
  stage = "layers" =>
    /\ bound * ExtensionFactor = (MaxConstraintDegree - 1) * layerSize
    /\ \A p \in DOMAIN evaluations : p % ExtensionFactor # 0

(***************************************************************************)
(* Every term of the combined constraints is raised to exactly the degree  *)
(* that makes its quotient as long as those of the others, and the         *)
(* composition polynomial has exactly the degree that fri::verify bounds.  *)
(* A term raised to less would fail no honest proof: the bound, which is   *)
(* that of the highest term, would only hold it to a degree too high.      *)
(***************************************************************************)
DegreesMeetBound ==
  /\ stage = "combine" =>
       LET raised(c) == [p \in EvaluationPoints |->
             Mul(TransitionAt(p)[c], Exp(Exp(DomainRoot, Position(p)),
                                         TransitionAdjustment(job.length, Degrees[c])))]
           quotient == (MaxConstraintDegree - 1) * job.length
       IN /\ InferDegree(constraint.initial) = quotient + 1
          /\ InferDegree(constraint.final) = quotient + 1
          /\ \A c \in DOMAIN Degrees : InferDegree(raised(c)) = quotient + job.length - 1
  /\ (stage = "reduce" /\ Len(layers) = 1) =>
       InferDegree(Remainder(layers[1])) = CompositionDegree(job.length)
=============================================================================
