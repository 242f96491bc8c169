# A verification of Distaff VM

Distaff is a virtual machine, written in Rust, that executes a program and produces a
zk-STARK proof that it did. The prover runs the program on the `processor`, which fills an
*execution trace*: a table with a column per register and a row per step. Constraints over
consecutive rows say which traces are executions; the rest of the prover commits to the trace
and shows that the constraints hold.

This directory specifies both halves in TLA+. The first is what decides what a trace contains:
program blocks and their hash, the assembler that makes them, the interpreter, the decoder, the
stack, and the constraints their trace has to satisfy. The second is the proof: the extension of a
trace, commitments, random combination of constraints, the low-degree proof (FRI), Merkle trees, the
verifier, and the arithmetic under all of it. TLC checks the specification on small programs, small
fields and, where they decide something, on the real constants; TLAPS proves the invariants that matter
most for all programs, inputs, sizes and constants.

Paths below are relative to `src/src/` unless they start with `docs/`.

## 1. The system

| Component | Code | State | Operations |
|---|---|---|---|
| Interpreter | `processor/mod.rs` | the Rust call stack: which block of which block list is executed | `execute`, `execute_blocks`, `execute_span`, `start_block`, `close_block`, `execute_loop` |
| Decoder | `processor/decoder/mod.rs` | step, operation bits, sponge, context stack, loop stack, length of the trace | `start_block`, `end_block`, `start_loop`, `wrap_loop`, `break_loop`, `decode_op`, `finalize_trace` |
| User stack | `processor/stack/mod.rs` | registers, depth, greatest depth, two secret tapes, its own step and length | `execute` with 32 operations and 6 hints, `finalize_trace` |
| Program blocks, program hash | `programs/blocks`, `programs/hashing.rs`, `programs/mod.rs` | an immutable tree | constructors with their assertions, `get_hash`, `hash_seq`, `hash_acc` |
| Inputs | `programs/inputs.rs` | public inputs, tapes | `new`, `from_public` |
| Assembler | `programs/assembly` | index into the tokens, block stack of the recursion | parsers of blocks and operations, padding, macros |
| Trace table, trace state | `stark/trace` | columns, extended columns; one row with a cache of operation flags | `new`, `extend`, `get_state`; `set_op_flags`, flag accessors |
| Constraints | `stark/constraints` | evaluations per step | transition and boundary constraints of decoder and stack |
| Prover, verifier, proof | `stark/prover.rs`, `stark/verifier.rs`, `stark/proof.rs`, `stark/options.rs`, `stark/utils` | one pass over commitments | `prove`, `verify`, coefficients, query positions, proof of work |
| FRI | `stark/fri` | layers | `reduce`, `build_proof`, `verify` |
| Merkle tree | `crypto/merkle.rs` | nodes | `prove`, `verify`, `prove_batch`, `verify_batch` |
| Field arithmetic | `math/field.rs` | limbs of intermediate values | `add`, `sub`, `mul`, `inv`, `exp`, roots of unity |
| Polynomials | `math/polynom.rs`, `math/fft.rs`, `math/quartic.rs`, `math/parallel.rs` | none | evaluation, interpolation, division, transform |
| Hash functions on bytes | `crypto/hash.rs` | none | `blake3`, `sha3`, `rescue` |
| Entry points | `lib.rs`, `main.rs`, `examples` | none | `execute`, `verify`, constants |

How they interact. `lib.rs::execute` calls `processor::execute`. The interpreter walks the
block tree recursively. For every row it calls the decoder once and `stack.execute` once; the
decoder hashes the operations as they come, the stack changes its registers. To decide a
branch or a turn of a loop the interpreter looks at the top of the stack; it gives the decoder
the hashes of what it does *not* execute, which the decoder mixes with the hash of what it
did. At the end both fill the rest of their traces, and `lib.rs` asserts that the hash in the
last row is that of the program. It hands the trace to `prove`, which extends it, commits to it with a
Merkle tree, draws coefficients from the root, combines and divides the constraints, commits to the result,
draws a point from that root, reduces the composition polynomial layer by layer, and opens all commitments at
positions drawn from a proof of work. `verify` has the proof and the public values, and redoes the draws
and, on the opened values alone, the arithmetic.

The whole is one thread (the threads of `math/parallel.rs`
are commented out) and keeps nothing on disk, so there are no interleavings and no
crashes to recover from; a failed assertion unwinds everything. The one message is the proof, which may arrive changed.

What is hard, then, is the agreement of parts that never call each other:

* The hash is computed twice: recursively from the tree (`programs`), and incrementally, in
  the order of execution, by a decoder that knows one block at a time (`processor`). Loops that
  run several times, loops that are skipped, branches not taken and any nesting of them must
  give the same value.
* Everything is aligned to a cycle of 16 steps, because round constants repeat with it. The
  alignment is nowhere enforced by construction: it is the sum of the lengths of spans, one
  padding NOOP, one closing operation and 14 HACC rounds, and it is asserted step by step.
* Three stacks grow and shrink by different rules (contexts, loop images, user values), with
  registers that are allocated on demand and cleared as the stack shrinks.
* Decoder and stack extend their traces independently.
* The interpreter chooses a branch from the stack; instructions at the head of the branch
  assert the same condition again, one step later, to make the choice provable.
* Operations of several steps (comparison, range check, Merkle path) leave half-finished state
  on the stack and on the tapes.
* Prover and verifier derive every random value and every position apart from each other, and compute the same value
  along different ways: a polynomial transformed, divided and evaluated here, a fraction of two numbers there.
* A batch proof lists nodes in the order in which pairs happened to merge. The verifier has to consume them in that order
  without being told.
* `mul` and `inv` of the field work on limbs that wrap. Which of their carries can occur depends on the modulus.

The components' properties:

| Component | What makes it correct |
|---|---|
| Interpreter | it executes the structured program the blocks denote; it ends |
| Decoder | the sponge is the hash of what was executed; the context stack holds the suspended hashes; the loop stack the images of the active loops; its assertions cannot fail except for lack of registers |
| Stack | each operation is its effect on a list; cells above the top are 0; registers exist for every value |
| Blocks | the hash does not depend on the execution |
| Traces | one length, one row per step, `VOID` at the end and only there |
| Assembler | accepts the programs of the language and nothing else; the tree means what the text does; constructors' assertions never fail; an instruction's operations have the effect the documentation gives, whatever the tapes hold |
| Trace state | the flag of the row's operation is 1; the cache is never stale when read |
| Constraints | every trace of the processor satisfies them; they leave no register of a result free |
| Prover, verifier | an honest proof is accepted; nothing else is accepted, whatever either side was told and whatever was changed on the way |
| FRI | the verifier's bound is the rate times the size of the layer; positions and values match from layer to layer |
| Merkle tree | every node is a hash of its children; what is accepted are the leaves asked for; the prover's proofs are accepted, and list no node in vain |
| Field arithmetic | limbs that wrap compute what the field defines, and every operation ends |

## 2. The modules

| Module | Models |
|---|---|
| `OpSponge` | the sponge: `utils/sponge.rs`, `hash_acc`. Symbolic, see below |
| `Blocks` | the block tree, the constructors' assertions, hashes: `programs/blocks`, `programs/hashing.rs`, `programs/mod.rs` |
| `Decoder` | `processor/decoder/mod.rs`: one operator per method, with its assertions as a separate operator `X_Fault` |
| `Field` | the arithmetic of `math/field.rs` by its results, for any modulus |
| `UserOps` | what operations need, add and read, and how hints become bits: shared by the next two |
| `Stack` | `processor/stack/mod.rs`: one operator per `op_*` method, on registers |
| `Processor` | `processor/mod.rs`: composes `Decoder` and `Stack`; one action per row of the trace |
| `StackSpec` | abstract: a bounded list of values and two tapes, what each operation does to them, and why it may fail |
| `ProgramSemantics` | abstract: structured control flow over `StackSpec`, without trace, padding or hash |
| `Tasks` | what `ProgramSemantics` and the refinement mapping iterate over |
| `StackMachine` | `Stack` driven by arbitrary instructions, and its refinement of `StackSpec` |
| `ProcessorRefinement` | the refinement mapping from `Processor` to `ProgramSemantics`: what is left of the program at each place of the interpreter |
| `Macros` | `programs/assembly/parsers.rs`: one operator per instruction, from the operations so far to the operations then, or an error |
| `Assembler` | `programs/assembly/mod.rs`: the recursive parser, a token per action |
| `MacroMachine` | the operations of one instruction executed on `StackSpec`, and what the documentation says of the instruction |
| `AssemblySpec` | abstract: the grammar of the language, with the meaning of each sentence |
| `TraceState` | `processor/opcodes.rs`, `stark/trace/trace_state.rs`: codes, bits, flags and their cache |
| `StackConstraints` | `stark/constraints/stack`, `utils.rs`: the values each operation gives to the registers |
| `DecoderConstraints` | `stark/constraints/decoder`: bits of operations, sponge, contexts, loop images |
| `Evaluator` | from the processor through `TraceTable::new` and the assertions of `lib.rs` to the loop of `stark/prover.rs`; boundary constraints |
| `ConstrainedStack` | the properties that compare `Stack` with `StackConstraints`, an operation at a time |
| `Merkle` | `crypto/merkle.rs`: construction, batch proofs and paths, an iteration of each loop a step |
| `Polynom` | `math/polynom.rs`, `fft.rs`, `quartic.rs` and the powers and roots of `field.rs`, by their algorithms: butterflies, division by coefficients, one inverse for many |
| `Air` | `stark/constraints/evaluator.rs` and `stark/utils`: coefficients, degrees, combination and division of constraints, for any constraints |
| `Fri` | `stark/fri`: the steps of prover and verifier; commitments and openings |
| `ProofSystem` | `stark/prover.rs`, `verifier.rs`, `proof.rs`, `trace_table.rs`, `constraint_table.rs`, `constraint_poly.rs`, queries and proof of work: an action per phase, with the way of the proof between the sides |
| `FieldSpec` | abstract: an operation of the field ends with the element that the definition names |
| `LimbField` | `math/field.rs`: `add`, `sub`, `mul`, `inv` on limbs, and their refinement of `FieldSpec` |
| `MCEvaluator`, `MCMacros`, `MCAssembler`, `MCPrograms`, `MCProcessor`, `MCLimits`, `MCStack`, `MCMerkle`, `MCProof`, `MCLimbs` | programs, inputs, constraint systems and constants for TLC |
| `Stack_proofs`, `StackMachine_proofs`, `Processor_proofs`, `Evaluator_proofs`, `Merkle_proofs`, `ProofSystem_proofs`, `LimbField_proofs`, `Assembler_proofs` | theorems and lemmas |

**Rows.** A register of the code is a vector indexed by step. An operation reads row
`step` and writes row `step + 1`; it never looks further back. The variables hold the current row. A cell
that no operation writes keeps the 0 its column was allocated with, which is why `CopyState`,
`ShiftLeft` and `ShiftRight` say what each cell holds. The bits of an operation are written one
row late: `opBits` is the row before.

**The recursion.** `calls` is the Rust call stack: a frame is a control block, which of its
block lists is executed (`part`) and the index of the current block. `pc` is the place in the
code and `k` the counter of the loop in that place:

| `pc` | Place in `processor/mod.rs` |
|---|---|
| `"span"` | the loop of `execute_span` |
| `"block"` | the head of the loop of `execute_blocks`, at its second block or later |
| `"test"` | the loop of `execute_loop`, after the body |
| `"tail"`, `"end"`, `"hacc"` | the three parts of `close_block` |
| `"finalize"`, `"done"` | the end of `execute` |

`part` is `"group"`, `"true"` and `"false"` for the branches of a switch, `"loop"` for the body of a
loop, `"exit"` for the skip block behind a body, `"skip"` for the skip block of a loop not entered.

**Panics.** Every assertion of a method is a case of an operator `X_Fault`, in the order of the code.
`PendingFault` is the one that would fail next, `Panic` unwinds.

**The hash is symbolic.** A sponge is the values it was loaded with and the list of rounds since.
Equal terms are equal field elements whatever the round function is; different terms could
only agree by a collision. The S-boxes, the matrices and the constants of a round are left out, the
position in the cycle, on which the constants depend, is kept.

**Hashes of trees are a constant.** `PrefixState[s][n]` is the state of `hash_seq` after `n` blocks
of the list `s`. `HashAssumption` says it satisfies the recursion of `hash_seq`; the MC modules
compute it, and TLC evaluates the assumption. It keeps recursive operators out of the modules
about which theorems are proved.

**External code.** `Merkle`'s `Hash` stands for the hash function passed to `MerkleTree::new`; a hash is the pair that was hashed, so there are
no collisions. `Uninit` is memory nobody has written. In `Fri` and `Air` the hash function and the generator of random
numbers are the constants `Digest` and `Draw`. Everything else mapped is under `src/src`.

**The parser.** `frames` is the Rust call stack of the assembler: a frame has the locals of a `parse_branch`
and stands for the `parse_block` that called it as well. What happens when a branch returns (unrolling and merging for
`repeat`, the default branch of an `if`, the assertions of the constructors) is part of the action that reads its last
token, because no token is read in between. An assertion that fails, or an index out of bounds, is the result
`"panic"`. Tokens are a name and parameters; splitting text and numbers into them is left out.

**Constraints.** A constraint is modelled by a value that is 0 exactly when it is satisfied: its own value for the stack,
1 for a difference of digests. Constraints are added up per register and multiplied by flags as in the code, so that one switched off by a
flag, or one that cancels another, is switched off here. Only the rows of the trace are evaluated; the code evaluates interpolated points between them too.
A round of Rescue is compared as a whole where the code compares its two halves, the second inverted: with an invertible round that is
the same. `Evaluator` records a row per step of `Processor` (`trace` is no variable of the processor, which keeps only the current row) and
keeps the two `TraceState`s that `prove` refills, with their cached flags. The code fills the cache through a shared reference
whose constness it casts away, which Rust leaves undefined; the model takes it as the assignment it is meant to be.

**The proof.** Unlike the trace, a proof is modelled on numbers: vectors and polynomials are functions from 0, as the arrays of the code,
and every phase computes its result as the code does, not as the mathematics would. Only the sums of `eval` and `syn_div` are taken by halves, to keep recursion shallow. So an offset of a coefficient, a degree that is one too
low or a position divided by the wrong number shows. What makes that possible is a field of 3329 elements, whose 256th roots of unity are
there (`get_root_of_unity` has those of order 2^40 in a field of 128 bits), and a constraint system that is a parameter: `StackConstraints` and `DecoderConstraints` have the
VM's own on the rows of a trace, `MCProof` has three of degrees 1, 2 and 3 with a round constant in one of them.
A commitment in `Fri` is a digest of digests, an opening has the other digests in full: `Merkle` shows that a batch proof says no less. `job` is
one call of `prove` and the call of `verify` after it, with public values of each side; `Deliver` is the environment, which leaves the proof alone or replaces one value in it. `stage`
is the place in the code. Failed assertions end in `"no proof"` or `"panicked"`, returned errors in `"rejected"`.

**Merkle trees.** The loops of `prove_batch` and `verify_batch` use the same variables, one after the other. `Deliver` is again the environment: a value replaced,
dropped, added or exchanged with its neighbour, or another depth.

**Limbs.** In `LimbField` a limb has any even number of values, a word is two limbs, and each addition and subtraction wraps where its type does. A
step is a statement group of `mul`, or one turn of one loop of `inv`.

## 3. What TLC checks

| Run | Configuration | Checks |
|---|---|---|
| `processor` | `MCProcessor.cfg` | 10 invariants of `Processor`, that it implements `ProgramSemantics`, termination |
| `limits` | `MCLimits.cfg` | programs that nest to the limits of `lib.rs`, and one deeper |
| `stack` | `MCStack.cfg` | the stack alone: its invariants, that it implements `StackSpec`, and its operations against their constraints |
| `registers` | `MCRegisters.cfg` | *violated*: the register layout of `lib.rs` |
| `constraints` | `MCEvaluator.cfg` | traces of whole programs against transition and boundary constraints |
| `flags` | `MCFlags.cfg` | *violated*: the constraints of a row's operation are switched on |
| `macros` | `MCMacros.cfg` | what the instructions of the assembly language expand to |
| `assembler` | `MCAssembler.cfg` | the parser against the grammar and the meaning of programs |
| `merkle` | `MCMerkle.cfg` | trees, batch proofs and paths, intact and with a fault |
| `proof` | `MCProof.cfg` | prover and verifier, from a trace to a verdict |
| `remainder` | `MCRemainder.cfg` | *violated*: an honest proof is accepted with the greatest extension factor |
| `limbs` | `MCLimbs.cfg` | arithmetic on limbs, that it implements `FieldSpec`, that it ends |

`processor`. Five programs: two with every kind of block inside every other (switch, group and
loop in a branch, a switch, a loop in a body, loops three deep), one that nests past the context stack,
one that nests past the loop stack, one with a span of two cycles. Conditions come from tape A,
which takes every sequence of at most 6 bits, and some with a value that is no condition. Constants
are scaled: cycle 4, 2 HACC rounds (cycle minus 2, as in the code), alignment of PUSH 2, 4 contexts, 2
loops, 9 stack registers, a field of 5. A span has 3 or 7 instructions. 37264 states.
Why that is enough: the cycle only enters through its remainder and its relation to HACC rounds, which is
an assumption (`CycleAssumption`); tapes of 6 bits give up to five turns of a loop and turns of loops within
turns; overflow of each register stack is reached, and so is each panic a program can cause.

* `SpongeTracksProgram`: at each point the sponge is the hash, *computed from the tree*, of the
  blocks finished in the innermost list, however often loops turned. It implies `ProgramHashMatches`,
  what `lib.rs` asserts of the last row.
* `ContextIsSuspendedHashes`, `LoopStackIsActiveImages`: what the decoder's two register stacks hold, in
  terms of the blocks that are open, including the zeros beneath.
* `DecoderAccepts`: the decoder's assertions about alignment, underflow, PUSH, loop images and values on
  other operations cannot fail; only those about the two limits can.
* `GuardsAgreeWithCondition`: `ASSERT` or `NOT ASSERT` at the head of a branch never rejects
  the choice the interpreter made. On an empty stack the interpreter reads 0 and `NOT` underflows.
* `ControlInvariant`: the frames follow the tree, and every place is at its step of the cycle.
* `TracesInLockstep`, `VoidOnlyAtEnd`: the two traces.
* `ImplementsSemantics`: refinement. The run is one of the structured program: the same
  blocks in the same order, each instruction with its effect on the list, failure only for a reason the program
  gives or for lack of registers.
* `Termination`.

`limits` uses the constants of `lib.rs` (cycle 16, 14 HACC rounds, 16 contexts, 8 loops, 32 registers) on
the smallest programs that nest 1, 15 and 16 switches, 1, 8 and 9 loops, and the smallest program there is.
`NestingWithinLimitsRuns`: nothing panics that fits 15 switches and 8 loops, and even the smallest program
reaches the operation count that `lib.rs:65` asserts, thanks to the padding of its root.

`stack` executes every sequence of three instructions, with every hint, from nine stacks of 0 to 11 values
(the limit is set to 11, the minimum number of registers is 8, as in the code: the operations of 8 to 10
operands need them), with long and short tapes. Three steps reach what a single operation cannot: growing after
shrinking, reading cells that were in use, a second bit of a comparison. Runs stop at the bound or at a failed
assertion, so deadlock is not checked there.

The same run checks two properties of each step of the stack against the constraints of its operation alone, as if its flag were 1 and the others 0.
`ResultSatisfiesConstraints`: they are satisfied. `ResultIsDetermined`: with another value in any one register of the next row,
unless it was read from a tape or pushed, they are not. Two registers at once are another matter: see `enforce_swap` in section 5.

`constraints` executes 16 programs, records their traces and evaluates the constraints as `prove` does: 14 spans that execute all 32 operations, the conditional ones
on both values and those with hints on each, a program with loops, switches and groups in each other on all tapes of 6 bits, one with a span behind a span; 17652 states, 243 traces evaluated.
At least 8 registers, as in the code, 11 at most; one context and one loop register at least, so that stacks of every size up to 3 contexts and 2 loops are compared. The
limit of registers and the least length are scaled with the rest.
* `EveryTraceAccepted`: the table is built, the assertions of `lib.rs` hold, and no constraint is other than 0 on any row but the last. The exception is a program whose
  stack is always empty: `TraceTable::new` panics for want of a user register. All programs have BEGIN as their first operation and nowhere else, as the assembler makes them; `op_noop` executes
  a BEGIN anywhere, and then a constraint fails, so "the operation will fail" (`docs/isa.md`) only when proved.
* `BoundariesHold`: the first row is that of the public inputs; the last has the hash `Program::new` computes, the operation count, the bits of VOID and NOOP, empty
  stacks, and the outputs that are on top of the list of values.

`flags`: CHOOSE2, AND, NOT, DUP and the others with an index that is 2 mod 4 have flag 0 on their own rows.

`macros` executes what each instruction expands to. Moves, arithmetic and equality on one place in a span; what contains a PUSH or a hash from
places 0, 1, 7, 8 and 15, before and behind which the padding differs. The field is 17, the smallest prime with more elements than the
least number of bits an instruction takes (4) can count, so that values at 2^n - 1, 2^n and the modulus are all there. `rc.5` and `isodd.5`, whose bits count further
than the field, are run with hints. Hash rounds are any function, here one that depends on the place in the cycle and mixes all
six registers. Merkle paths have 2 to 4 nodes, one of them to a repeated part of the macro; indexes are all there are for the tree and as many beyond.
* `EffectAsDocumented`: the whole stack afterwards, with what lay below.
* `FailsOnlyAsDocumented`: both directions. The documentation's "greater than 2^n" is read as "does not fit in n bits".
* `HintsAreConsumed`: the tapes are where the program left them.
* `TapesDoNotMatter`: without hints, for *all* 4-bit contents of the tapes. Hints are not hashed, so these are runs of the same program. It shows that
  `gt`, `lt`, `isodd` and `eq` leave the prover no choice; `rc` can be made to answer 0 for a value in range, so its answer 0 proves nothing.
  It holds as long as 2^n does not exceed the modulus.

`assembler` parses texts in 63763 states: every sequence of up to 4 tokens between `begin` and `end`, every program whose body has up to 6 (an if
with two branches, in a repeat, needs 6), each with a token removed, the short ones with a token replaced by a malformed one. Constants of the code.
* `CompilesFaithfully`, `AcceptsEveryProgram`: accepted texts are the sentences of the grammar, with their meaning.
* `NeverPanics`: the alignment of spans and of PUSH, the guards of branches, no empty list. The one thing that panics is a `repeat` without a count (section 5), which is
  among the malformed tokens.
* `SpansAlternate`: no two spans are neighbours on any level of the tree, which the constructor that should check it does not (section 5).
* The malformed tokens leave out `end` and `if.true` with further parameters, which the parser takes as if they had none.

`merkle`. Trees of 16 leaves, all different or equal in pairs of neighbours, every subset of one leaf per pair, every subset of seven leaves in reverse order, all
pairs of indexes in both orders, and indexes that repeat, lie beyond the leaves or are none. Each proof is delivered intact and with every single fault of `Deliveries`. Depth 4 lets pairs
merge on two levels below the root and shifts the list of nodes twice; what is above repeats it.
* `TreeIsHashed`: every inner node is the hash of its children as soon as the loop has passed it: nothing is read from the uninitialized vector.
* `BatchBinding`: an accepted batch has the leaves that were asked for. The depth in the proof is part of the proof; the property is about proofs with the depth of the tree.
* `IntactProofsVerify`: both orders agree; a path is accepted if and only if it is the right one.
* `NoSpareNodes`: a proof lists nothing the verifier could compute. `PanicOnlyOnBadRequest`: no index out of bounds within either loop, unless a proof names another depth.

`proof`. Traces of 8, 16 and 32 rows, a cycle of 4 round constants, extension factor 8, constraints evaluated on 4 times the length, layers reduced until 16 values are left,
3 queries from at most 4 draws, a proof of work that one nonce in 4 passes, operation counts below 16. About 6500 states. Domains of 64 to 256 values are reduced once or twice, so positions go through layers.
With 4 draws, positions at rows of the trace and repeated ones make both a prover and, with a changed nonce, a verifier run out of draws (`TooFewQueries`); in the code it takes 1000. The trace of 32 rows
has an operation count of 31, which wraps: its proof is rejected, as that of 2^32 operations would be. Three lengths show what depends on the length; a
constant step of the round constants with the length divided by the cycle is 2, 4 and 8.
The calls: an execution, told truly; inputs or outputs that are wrong for one side or both; a trace with one wrong cell; and for two traces all outcomes of an
undefined write in the proof of work (section 5). For each, the proof arrives intact or with *any one* value in it changed.
* `HonestProofAccepted`: a true claim with an intact proof is accepted, and the verifier never runs out of draws when the prover did not. Excepted: more operations than the proof
  can count, and a verifier that reads a hash where the prover read zeros.
* `AcceptedIsTrue`: wrong values told to one side or to both, or a wrong trace, are not accepted.
* `AlteredProofRejected`: nor is a changed proof, but for cells of the remainder at multiples of the extension factor. `verify_remainder` skips them and no query leads there, and the root of the remainder is never
  compared with its values, so the code accepts them changed. The domain depth, from which the verifier derives every size, is left intact.
* `LayersKeepRate`: in each layer the bound is the rate of the layer, although divided without remainder.
* `DegreesMeetBound`: every constraint, and each boundary combination, is raised to exactly the degree that the others are. The debug assertions of the code (`constraint_poly.rs:17`, `prover.rs:110`) compare the degree of sums, which one term alone
  determines: a term raised to less passes them, and every test that a proof is accepted.

The second and third are probabilistic statements of the code. On 3329 elements with stand-ins for hash and generator they hold of the values that the run enumerates; that is evidence of the checks being there and comparing the
right values, and not of their soundness error.

`remainder`: extension factor 16, as large as the largest remainder, as 256 is in the code. See section 5.

`limbs`. Limbs of 4 bits and the modulus 241, which is as close below the word 256 as `LimbAssumption` asks for, and which 2^128 - 45·2^40 + 1 satisfies. All pairs of elements for `add`, `sub` and `mul`, all elements for `inv`; 470011 states.
`ImplementsField`: each ends with what `FieldSpec` names. The comment of `mul` leaves open whether the check for a third limb after its first half is needed; the run without it has 8395 wrong products of 58081.

**Fairness.** `FairSpec` is `WF_vars(Next)`, `LimbSpec` has `WF_limbVars(LimbNext)`, and `FieldSpec` promises `WF` of its one action: a single thread that runs until it returns or panics. Nothing
weaker than that happens in the code: there is no step at which it waits. No other specification is used for liveness, and none has fairness.

**Termination** holds because the conditions of the programs of the run come from a tape, and reading an empty
one panics. It is false of programs in general, which may loop forever.

## 4. What is proved

Every theorem is of a specification with arbitrary constants, under the named assumptions of the modules:

* `CycleAssumption`: HACC rounds are the cycle minus 2.
* `AlignmentAssumption`: `PUSH_OP_ALIGNMENT` divides the cycle (8 and 16 in the code).
* `BlocksAssumption`: every block of a program, and of the lists in it, passed its constructor: `Constructed`, where `ValidBlock` is the assertions of the
  constructors.
* `HashAssumption`: `PrefixState` is what `hash_seq` computes.
* `DecoderAssumption`, `StackAssumption`: the limits are natural numbers, and there is a register from the start
  (`MIN_STACK_DEPTH` is 8): the interpreter reads the top of an empty stack.
* `FieldAssumption`, `RescueAssumption`: a modulus greater than 2 for which every element but 0 has an inverse; a Rescue round maps field elements to field elements.
* `InputsAssumption`: what `ProgramInputs::new` asserts. `HintsAssumption`: `HintsGiven`, that is, what the assembler's
  parameter checks leave, and that only `PUSH` has a value, which `parse_push` gives it (`parsers.rs:59`) and no other parser does.
* `EvaluatorAssumption`: the least length of a trace is a power of two and no more than the shortest program fills (`MIN_TRACE_LENGTH` is 16, two cycles without two rows are 30); there
  are registers for contexts, loops and 8 values at least, and all there can be are fewer than `MAX_REGISTER_COUNT` (74 of 128), also when `shift_right` overshoots by the three it can.
* `BeginAssumption`: `BeginsOnce`, that is, BEGIN is the first operation of a program and no other, and no block of a program is a program, as the assembler makes them. `op_noop` would execute it anywhere, but its constraint fails then (section 3).
* `RoundsAssumption` (of `ProcessorRefinement`): the cycle of the trace is a multiple of that of Rescue's round constants. The code has one
  constant for both (`utils/hasher.rs:6`).
* `MachineAssumption`: the same of the instructions and inputs of `StackMachine`.
* `DepthAssumption`, `InputAssumption` (of `Merkle`): `Power` has the powers of two; leaves are as many as one of them, indexes are natural numbers.
* `LimbAssumption`: limbs have an even number of values, and the modulus is so little below a word of two that the difference, times more than a limb, fits in a word.
* `LimbIsWide`: a limb has 16 values at least (2^64 in the code). With tiny limbs the cubic bound below would not do.
* `PolynomAssumption`, `AirAssumption`, `FriAssumption`, `ProofSystemAssumption`: sizes are powers of two, the domain has a root of unity, the extension factor is a multiple of
  the constraint degree, a trace is twice the least length at least, and no domain is as small as a remainder.

* `SourcesAssumption` (of `Assembler`): texts are sequences of tokens, and a token is any name with any parameters.

TLC evaluates all of them in the passing runs. Three of them are about programs, and for programs that come from the assembler they are no assumptions: `AssembledIsWhatProofsAssume` proves `Constructed`,
`BeginsOnce` and `HintsGiven` of the tree of every text that is accepted. For `HintsGiven` it asks that the powers 2^(n-1), for n of at most 128, which comparisons and range checks push, are
field elements (`PowersFit`), as they are with the modulus of the code.

**The stack** (`Stack_proofs`, `StackMachine_proofs`). `StackOK` is inductive: it is the type invariant,
`FreeRegistersAreZero` and `RegistersSuffice` together. None is inductive alone: that a register is in the field needs
the depth within the slots, and that no value is cut off needs that the greatest depth, which overshoots, is
never more than the registers allocated. Operations are grouped by how they move values (`PermutingOps`,
`DroppingOps`, ...), and `ExecuteOK` joins them. From it: `StackTypeCorrect`, `FreeRegistersStayZero`, `TraceHasEveryValue`.

**The stack as a list** (`Stack_proofs`, `StackMachine_proofs`). `StackIsList`: `ImplementsList`, for every modulus and size, that is, the initial registers are the public
inputs and each step of `Stack` is a step of `StackSpec` on the list of registers below `depth`. The proof has a lemma per way of moving values, which say what the list is after a row that copies, shifts left or shifts right, and a lemma per operation, which
computes its list from them. Failures go the same way: `StackFault` and `Failure` ask the same questions in the same order, and the lemmas show that the answers agree, the length of the list being
the depth.

**The stack and its constraints** (`Stack_proofs`, `StackMachine_proofs`). `ConstraintsAcceptResults` (`ResultSatisfiesConstraints`) and `ConstraintsDetermineResults` (`ResultIsDetermined`), for every modulus for which `inv` answers with inverses, every Rescue
round and every number of registers. A row the stack makes has one of three forms: what lies behind the registers an operation writes is copied (`Copies`), moved up (`Lifts`) or moved down (`Pushes`), with 0 in the free registers of either row; `FreeRegistersAreZero` and
the depth within the registers are needed for that. `Satisfied` names what the constraints say of a pair of rows, and a lemma per operation shows one of two things of them:
* `Fixes`: they hold of one row only, the one the code makes. This is so for most operations, and the two theorems follow at once.
* `Settles`: they hold of the row the code makes, and of none that differs from it in one register. SWAP is such a case, as one of its constraints is the sum of two: changed values can make up for each other, but one alone cannot. So are PUSH, READ, READ2, CMP and BINACC, whose new
  values come from outside. A bit of CMP is settled by the accumulators it is added to, but only as long as the power it is multiplied with is not 0; that follows from the assertion that the power is a power of two, and from no constraint.

**The control layer** (`Processor_proofs`). `ControlLayer` is types, `StackOK`, `ControlInvariant`, `TracesInLockstep` and
`VoidOnlyAtEnd`. They are proved together because each needs the others: a span ends on the last but one step of the
cycle only if it started on the first; that the traces stay in lockstep needs that each action takes one row of both; where a
block list continues needs that the frames follow the tree. One lemma per action (`SpanOpControl`, `StartGroupControl`, ...) rests
on what the moves of the frames do (`AdvanceControl`, `EnterControl`, `ReenterControl`, `CloseControl`). From it:
`TypesAreKept`, `ControlIsAligned`, `LockstepOfTraces`, `TraceEndsWithVoid`.

**The hash** (`Processor_proofs`). `HashLayer` adds `SpongeTracksProgram` and `ContextIsSuspendedHashes` to the control layer. They need each
other: what is saved when a block is entered is right because the sponge is, and what a closed block is merged into is right because the saved
hash is. The argument is one lemma per action, on top of facts about hashes of trees that do not mention the interpreter: `SpanFinished` (the rounds
of a span lead from one prefix of the list to the next), `BlockFinished` (so does merging a block) and `BlockHashByPart` (what was hashed and the
hash of the part not executed are, in the right order, the hash of the block, for each of the five ways a block ends). From it:
`SpongeIsHashOfTree`, `ContextsAreKept` and `TraceHashesToProgram`, which is the assertion of `lib.rs`.

**The loop stack** (`Processor_proofs`). `LoopLayer` adds `LoopStackIsActiveImages`. Its depth is the number of frames that iterate a loop, so
the lemmas (`ImagesPushed`, `ImagesPopped`, ...) count frames with the library's facts about finite sets. From it `LoopImagesAreKept`, and, with the hash,
`DecoderNeverRejects`: each iteration hashes to the image on top of the loop stack, every alignment the decoder asserts holds, and, by `HintsAssumption`, no value is on an operation other than `PUSH`.

**The guards** (`Processor_proofs`). `GuardsAgree`: `GuardsAgreeWithCondition`. It is about two steps, so the invariant `ConditionHolds` remembers what the condition said: at the first instruction of a branch
the top of the stack is still the value the branch was chosen by, as the row that opens the block moves nothing, and at the second, behind a `NOT`, it is 1 and the stack is not empty. `HeadOfPart` gets from the
constructors' assertions what the first two instructions are. A loop that is turned or left reads its condition anew, so `RepeatLoop` and `ExitLoop` establish it as the opening of a block does.

**The structured program** (`Processor_proofs`). `ProcessorRunsPrograms`: `Spec => ImplementsSemantics`. The mapping takes registers to the list of values, as above, and the place of the interpreter to what is left of the
program: what is left of the current block (`Current`), then, from the innermost frame outwards, the blocks behind the one each frame is in, and the loop itself again for a frame in its body (`Pending`). Then
* an instruction, and the opening of a group, a switch or a loop, each are the step of that name; what is left loses its first task and gains the blocks entered (`InstrLeft`, `EnterLeft`);
* a turn of a loop is the step that finds the condition of the loop to be 1 again, leaving it the one that finds 0 (`ReenterLeft`): the program cannot tell the first turn from another;
* the padding of a span takes the empty rest of the span away, the rows that close a block change nothing that is mapped (`Unnoticed`);
* a panic is `Fail`, for the reason that the list gives, or `Exhaust`, for the two limits on nesting. That there is no third kind is `DecoderNeverRejects`;
* a row of `RESCR` has the constants of its place in the cycle, which is the place in the span the program names, as `ControlInvariant` and `RoundsAssumption` say.

`Pending` is a recursive function over frames. Its values are shown to be those of any function that satisfies its equation up to a depth, by induction: the lemma `NatInductive` does induction for a *set* of naturals through its least element, so that no induction theorem
with an operator parameter is needed. The same device carries the inductions over rows of a tree in `Merkle_proofs`, and those over repetitions and frames in `Assembler_proofs`.

**The assembler** (`Assembler_proofs`). `OnlyRepeatPanics` (`NeverPanics`), `AssembledSpansAlternate` (`SpansAlternate`) and `AssembledIsWhatProofsAssume`, for all texts, of any length and nesting, valid or not.
What an assertion of a constructor asks for is brought about by code far from it, an alignment by the padding of a span, a guard by the instructions a branch starts with, and both have to survive merging and unrolling. The invariant `IInv` has these parts:
* `SoundCode`: in the instructions of an unfinished span, BEGIN is the first or none, a PUSH is at a multiple of its alignment, and a value is on a PUSH only. `InstructionsAreSound` shows that every one of the instructions of the language leaves it so, with whatever parameters, or is an
  error; there is a lemma per kind of parser in `Macros`, on top of `EmitSound`, `PadToSound` and `PushSound`.
* `Forest`: the lists finished so far, a set in which the nested lists of every block are again, so that "every block of the program" needs no recursion over the tree. Each list is a `SoundList`: its blocks are valid, it starts with a span that has the guard of its branch, and no two spans are neighbours. The set
  is existentially quantified, and grows when a block is closed.
* `SoundFrames`: each frame but the last waits for the block behind it (`Waiting`: its list is not empty, no instruction is pending); the last is being read (`Working`). The outermost was opened by `begin`, and no other, which is why BEGIN is nowhere else. That the list of a branch is not empty when it is closed
  is what the parser does *not* look at: it counts tokens. So `Working` says that once a token behind the head has been read there is a block or an instruction.
* `SoundProgram`: the tree of an accepted text is such a list over a forest.

The step that closes a block (`CloseBlockKeeps`) is where the constructors are called. `PaddedSpanSound` shows that a padded span is one short of a multiple of the cycle, `MergeSound` that two such spans and the NOOP between them are again, with every PUSH still aligned because the alignment divides the cycle (`AfterCycleAligned`), and
`RepeatedSound` that a body repeated any number of times is a `SoundList`, by induction over the repetitions: one more is merged at the seam if the body ends with a span and appended otherwise (`OneMoreSound`).

**Traces and their constraints** (`Evaluator_proofs`). `TracesAreAccepted` (`EveryTraceAccepted`) and `BoundariesAreMet` (`BoundariesHold`): whatever the program, its inputs and the limits, the table is built, every transition constraint is 0 on every row but the last, and the first
and the last row are those of the public values. The part the run is too small for is the size of the table: registers are cut to what the trace needed, after the last of its steps, so a row is evaluated in a table that is wider than the stacks were then.
* *One flag.* `OneFlag`: with the bits of a row, the flags of all operations but that of the row are 0, so the sums over operations have at most one term other than 0. The row's own is 1 except for the operations of run `flags` (section 5), whose constraints are multiplied by 0:
  that their traces are accepted shows the less.
* *The table.* Its user registers may be fewer than the slots of the stack, or more. `TermsAgree` says that the terms of an operation in the table are those on the slots, which the theorems on the stack cover, and otherwise 0. The context and loop stacks are read as if they
  had no end (`Entry`), which makes "one deeper" and "one shallower" independent of the size as well.
* *Links.* `Linked(a, b, n)` is what an operation of the decoder and one of the stack make of row `a` at step `n`, stated without the table. `LinkedRowsAccepted`: linked rows satisfy the constraints in a table of any size they fit into. There is one lemma per action of `Processor`
  that its row is linked to the next; they rest on `HashLayer` and `LoopLayer`, as the constraints of a turned or ended loop compare the sponge with the image on top.
* *The recording.* `TraceRows` is the invariant about `trace`: its rows are linked, the last leads to the registers of the current step, and in the end all rows from the last on are the row of VOID. `RowLayer` has the invariants before and two counts: `Counted`, that the number of operations is the place in
  the first span as long as that span runs (for the constraint that BEGIN comes first), and that a program ends after two cycles less two (for the assertion on the length of traces); and the bound on `maxDepth` (for that on registers).
* *The evaluation.* `Stages` is about the loop of `prove`: the only rejection is that of an empty table of user registers, and `TraceState` refills its flags on each row. `ProverLayer`, the conjunction of the three, is inductive together with the two layers of the processor.

**Merkle trees** (`Merkle_proofs`). `TreesAreHashed` and `BatchesBind`, for trees of any depth, any request and any of the faults. A hash cannot be traced backwards while the verifier is still on its
way, so the invariant follows a lie upwards instead. `WrongClaimShows`: if a claimed value is not the leaf, it is still to be read, or some digest of the current level, or of the next, differs from the tree's node in its place. A digest made from one that differs differs too,
because the hash is injective, so at the end the root does. For that, the nodes of a level must be the right ones and none be overwritten or lost: `NextOnLevel`, `LeavesAhead` and `NodesAhead` say that the lists ascend, within their level, behind what is still to do. `BuiltFromTheEnd` is the part about construction.

**Merkle proofs that arrive intact** (`Merkle_proofs`). `IntactProofsAreAccepted`, `NoNodeIsSpare` and `PanicsAreDeserved` relate two loops that never run together. What they have in common does not depend on either: a request has in row `m` of the tree the set of ancestors of its leaves (`RowSet`), which
both loops visit in ascending order (`RowList`). `Walks` says that the list of either loop, halfway through a row, is the beginning of that order. `Uses(r, q, k)` is whether path `k` takes a node from row `q`, and `Count` how many it has taken up to a row; then `ProofSoFar` says
of the prover that list `k` holds those nodes in that order (`Filled`), and `Replays` of the verifier that its pointer into list `k` is the same count and that its digests are the tree's. So what it reads next is what was pushed there, and the last digest is the root.
`NoSpareNodes` is that the pointers end at the lengths of the lists. A path for one index is hashed in one go; `OnePath` shows by induction over its length that it is the right one if and only if it leads to the root. `Journey` is the conjunction, which is inductive.

**The bound of FRI** (`ProofSystem_proofs`). `RateIsKept` shows `LayersKeepRate` for every constraint system, field, hash, generator and trace, under `Narrow` (twice the extension factor is not more than the greatest remainder) and `DrawsNumbers` (the generator returns
natural numbers). A layer has its rate times the extension factor points, the rate being a power of two. It is folded only if
it has more points than a remainder may have; under `Narrow` its rate is then at least 4, and dividing by four loses nothing. With 256 and 256 `Narrow` is false, and that is the case of the run `remainder`. The invariant relates the layers of the prover to the rows the verifier
reads from the proof, through the delivery, which changes none of the sizes.

**Field arithmetic** (`LimbField_proofs`). `ArithmeticIsExact`: for every limb size and modulus, those of the code included, `add`, `sub`, `mul` and `inv` return what `FieldSpec` names, once; this is `ImplementsField` without its fairness.
`MulIsExact` is `ProductExact`. The invariant `ProductTracked` says after each step of `mul` that the integer in the limbs of `z` is the product so far less a multiple of the modulus, and that no limb is out of range; the
lemmas are about what each helper does to the integer its limbs denote (`TimesLimb` is exact, `ReduceHigh` subtracts a multiple of the modulus and leaves a third limb of at most 1, ...).
`InverseTracked` is the invariant of `inv`. `Congruent` in it is the usual one of Euclid's algorithm: `a` times `x` is `v` and `d` times `x` is `-u`, up to multiples of the modulus, so `a` is the inverse when `v` is 1 (`InverseIs`); the modulus is odd
because 2 has an inverse (`OddModulus`), so halving keeps it (`HalvedCongruent`). But it is only true if `a` and `d` never carry out of their third limb, which the code does not check. Each subtraction adds half a modulus at most to what they can be, so that after `s` subtractions
neither is more than `s + 2` halves (`Settled`, `AddedTo` before the first halving behind one). How many subtractions there are is bounded through `u + v`: it is at most three moduli at the start, and halved by each subtraction and the halving behind it. So
2^s times `u + v` stays below three moduli; instead of 2^s, which would be a recursive function, the invariant has a sixth of the cubic `Growth(s)`, which at most doubles in a step (`GrowthDoubles`). As `u + v` is 2 at least when something is added, `s + 3` is
at most a limb (`FewSteps`), and the sum fits (`SumsFit`).

**Only model-checked.**
* `Termination` and the fairness part of `FieldSpec`: liveness is out of TLAPS' reach.
* `NestingWithinLimitsRuns`: about the particular programs of its run.
* The four properties of `MacroMachine`: what a macro does is a run of dozens of operations on particular operands.
* `CompilesFaithfully` and `AcceptsEveryProgram`: the meaning of a text is a recursive operator. What is proved of the assembler is that its trees are well formed; that they mean what the text does is checked.
* `HonestProofAccepted`, `DegreesMeetBound`: they rest on what `Exp`, the transform, interpolation and division compute for every input, which are inductions over data that the provers cannot do.
* `AcceptedIsTrue` and `AlteredProofRejected`: not true for all values of the constants, as hash and generator are arbitrary.
* That the operations of `LimbField` end.

## 5. Disagreements met while modelling

* Fifteen nested switches run and sixteen panic, as the run `limits` executes; `docs/assembly.md:53` says at most 16: the root block takes
  a place of the context stack.
* `shift_right` counts the whole push when only part of it exceeds the greatest depth, so a trace can have more user registers than
  the layout in `lib.rs` (run `registers`). `RegistersSuffice` shows it is never too few.
* With extension factor 256, which `options.rs` admits, and 32 rows, `fri/verifier.rs:76` divides its bound 224 to 56, 14 and 3, while the remainder of an honest proof has 4 coefficients: the proof is
  rejected (run `remainder`, which has the same with its smaller constants).
* `proof_of_work.rs` writes the hash through a pointer taken from an immutable buffer (lines 18 and 44), which Rust leaves undefined: a build of either side may read zeros, and then takes every nonce. The model has all four
  combinations; if only the verifier reads the hash, honest proofs are rejected.
* Read, not run: `dup.3` and `pick.2` need a fourth item on the stack (`docs/assembly.md:128`);
  `else.x` ends a true branch but does not start a false one, so the `if` ends there (`assembly/mod.rs:86`);
  leaves of the constraint tree have 2 evaluations where a comment says 4 (`prover.rs:88`).
* `repeat` without a count panics, where every other malformed parameter is an error (`assembly/mod.rs:313`); `NeverPanics` names it as the one exception, and the run `assembler` has it.
* Read, not run: `smpath` reads its tapes in another order than `docs/assembly.md:255` describes - `MacroMachine`
  uses the one of the code and of `examples/merkle.rs`; `gt`, `lt` and `isodd` fail at 2^n, not only above it (`docs/assembly.md:163`).
* `trace_state.rs:301` takes a bit of a low-degree flag from the control-flow bits (run `flags`): the constraints of CHOOSE2 and others are multiplied by 0.
* A program that leaves its stack empty runs but has no trace (`trace_table.rs:40`); the run `constraints` names the exception.
* Read, not run: `validate_block_list` accepts
  consecutive spans behind a control block (`blocks/mod.rs:360`) - the model does too, and shows that execution and hash cope with it;
  `enforce_swap` uses one slot for two constraints (`manipulation.rs:64`), which `SwapTerms` adds up as the code does; `coefficients.rs:70` restarts an index relative to a slice, so that transition constraints share coefficients with final boundary constraints (`Air` draws them as the code does); two comments
  say other than their code (`stack/mod.rs:186`, `hashing.rs:55`).

## 6. What is not modelled

* Hash functions on bytes and the generator of random numbers (`crypto/hash.rs`, `prng` of `math/field.rs`): pure functions, which are parameters or symbols here. The S-boxes and matrices of the VM's own hash likewise.
* Serialization of a proof, `options.rs` except for its values, `security_level`: no state.
* `math/parallel.rs` beyond what it computes: its threads are commented out. `mul`, `div` and `degree` of polynomials are called by tests only. How `fft.rs` splits its recursion into loops is abstracted: the butterflies are the same.
* The VM's own constraints between the rows of a trace: `ProofSystem` takes constraints as a parameter, and those of the VM are evaluated on rows by `Evaluator`. Putting the two together is out of TLC's reach, because the VM's constraints need
  a domain for dozens of registers, with degree 8.
* Proofs changed in more than one value, and provers that deviate in anything but their trace and public values.
* `ProgramInputs::from_public`, which drops the assertion on the number of inputs.
* `main.rs`, examples and benchmarks: no state.
* Of the modelled components: the layout of the register vectors returned to the trace table (`into_register_traces` is modelled
  by the number of registers it keeps), debug output, `get_state` of tests.

## 7. Plan

In order; each step adds a module, its run and its proofs where they are in reach.

1. *Done:* `OpSponge`, `Blocks`, `Decoder`, `Field`, `UserOps`, `Stack`, `Processor`; abstract specifications `StackSpec`
   and `ProgramSemantics`; all invariants of stack, decoder and control proved.
2. *Done:* `Macros`, `MacroMachine`, `Assembler`, `AssemblySpec`. `NeverPanics` and
   `SpansAlternate` are proved, and so is that assembled programs have what the other proofs assume of programs. Left: the meaning of a text as a refinement, token by token.
3. *Done:* `TraceState`: operation flags from bits, the cache and its refresh.
4. *Done:* `StackConstraints`, `DecoderConstraints`, `Evaluator`, `ConstrainedStack`: the processor's traces satisfy the constraints, and which single-cell
   changes the stack's do not notice; with proofs for all programs and sizes. Left: which changes the decoder's constraints do not notice.
5. *Done:* `Merkle`, with proofs of all the properties of its run.
6. *Done:* `Polynom`, `Air`, `Fri`, `ProofSystem`, with the proof about the bound of FRI. Left: a second remainder, where the last layer is longer than the rate needs.
7. *Done:* `FieldSpec`, `LimbField`, with the proofs that `add`, `sub`, `mul` and `inv` are exact.
8. *Done:* the refinements of `StackSpec` and `ProgramSemantics`, and `GuardsAgreeWithCondition` from what the assembler guarantees of hints. What these assume of programs is proved of assembled ones (2).
