------------------------------- MODULE MCProof -------------------------------
(***************************************************************************)
(* A small constraint system for TLC to prove executions of: a counter, a  *)
(* register that is cubed and added a round constant, and one multiplied   *)
(* by it; with stand-ins for the hash function and the generator.          *)
(***************************************************************************)
EXTENDS ProofSystem

(* a hash of a vector or a pair from those of its halves *)
MCDigest(v) ==
  LET start == IF 0 \in DOMAIN v THEN 0 ELSE 1
      n == start + Cardinality(DOMAIN v) - 1
      hash[i \in start..n, j \in start..n] ==
        IF i = j THEN (v[i] * 8191 + 40961) % 131071
        ELSE LET middle == (i + j) \div 2
             IN (hash[i, middle] * 8191 + hash[middle + 1, j] * (127 + 2 * (j - i)) + 17) % 131071
  IN hash[start, n]

MCDraw(seed, n) ==
  LET a == (seed + 7919 * n + 12345) % 32749
      b == (a * a + seed) % 32719
  IN ((b * 40009 + a) % 16127) % Modulus

MCConstraints(row, nextRow, constant) ==
  <<Sub(nextRow[0], Add(row[0], 1)),
    Sub(nextRow[1], Add(Exp(row[1], 3), constant)),
    Sub(nextRow[2], Mul(row[2], row[1]))>>
MCDegrees == <<1, 3, 2>>
MCRoundConstants == [i \in 0..3 |-> 5 * i + 2]

(* the sets of one element make TLC compute each row once *)
Execution(length, inputs) ==
  LET Following(r, n) == <<Add(Exp(r[1], 3), MCRoundConstants[n % 4]), Mul(r[2], r[1])>>
      row[n \in 0..(length - 1)] ==
        IF n = 0 THEN <<inputs[1], inputs[2]>>
        ELSE CHOOSE next \in {Following(r, n - 1) : r \in {row[n - 1]}} : TRUE
  IN [r \in 0..2 |-> [n \in 0..(length - 1) |-> IF r = 0 THEN n ELSE row[n][r]]]

(* a call of prove and verify with the values of the execution *)
Job(length, inputs) ==
  LET trace == Execution(length, inputs)
      outputs == <<trace[1][length - 1]>>
  IN [length |-> length, trace |-> trace, inputs |-> inputs, outputs |-> outputs,
      claimedInputs |-> inputs, claimedOutputs |-> outputs, readsZeros |-> [prover |-> FALSE, verifier |-> FALSE]]

(* calls in which some value is another one *)
Others(j) ==
  LET wrong(values) == [values EXCEPT ![1] = Add(@, 1)]
  IN {[j EXCEPT !.inputs = wrong(@)], [j EXCEPT !.outputs = wrong(@)],
      [j EXCEPT !.claimedInputs = wrong(@)], [j EXCEPT !.claimedOutputs = wrong(@)],
      [j EXCEPT !.inputs = wrong(@), !.claimedInputs = wrong(@)],
      [j EXCEPT !.outputs = wrong(@), !.claimedOutputs = wrong(@)]}
     \cup {[j EXCEPT !.trace[r][n] = Add(@, 1)] : r \in 0..2, n \in {0, 3, j.length - 1}}

(* the prover of the call with inputs 4 and 3 runs out of draws *)
MCJobs ==
  LET small == Job(8, <<3, 7>>)
      large == Job(16, <<10, 1>>)
  IN {small, large, Job(32, <<2, 2>>), Job(8, <<4, 3>>)}
     \cup {[j EXCEPT !.readsZeros = [prover |-> p, verifier |-> v]] :
             j \in {small, Job(16, <<1, 3>>)}, p, v \in BOOLEAN}
     \cup Others(small)

(* for an extension factor that takes the last layer as large as it may be *)
MCWideJobs == {Job(8, <<3, 7>>)}
=============================================================================
