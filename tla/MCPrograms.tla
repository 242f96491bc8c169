----------------------------- MODULE MCPrograms -----------------------------
(***************************************************************************)
(* How the modules for TLC write programs, and their hashes.               *)
(***************************************************************************)
EXTENDS ProcessorRefinement

Ops(names) == Span([i \in 1..Len(names) |-> Instr(names[i])])
Begin(names) == Ops(<<"begin">> \o names)

(* the block lists of programs that nest at most 2 * MaxContextDepth deep *)
ReachableFrom(roots) ==
  LET reach[n \in 0..(2 * MaxContextDepth)] ==
        IF n = 0 THEN roots
        ELSE LET lists == reach[n - 1]
             IN lists \cup UNION {UNION {Nested(s[i]) : i \in 1..Len(s)} : s \in lists}
  IN reach[2 * MaxContextDepth]

(* hash_seq of block lists, computed from the leaves up *)
HashesOf(lists) ==
  LET Hashed[s \in lists] ==
    LET last(t) == Hashed[t][Len(t)]
        seal(t) == Digest(ApplyRound(last(t), "noop", 0, CycleLength - 1))
        pair(b) ==
          CASE b.kind = "group"  -> <<seal(b.body), ZeroDigest>>
            [] b.kind = "switch" -> <<seal(b.t_branch), seal(b.f_branch)>>
            [] b.kind = "loop"   ->
                 <<Digest(ApplyRound(AbsorbCode(last(b.body), LoopSkipBlock.code,
                                                CycleLength - 1),
                                     "noop", 0, CycleLength - 1)),
                   seal(b.skip)>>
        next(state, b) ==
          IF b.kind = "span"
          THEN AbsorbCode(ApplyRound(state, "noop", 0, CycleLength - 1),
                          b.code, Len(b.code))
          ELSE LET v == pair(b) IN HashAcc(Digest(state), v[1], v[2])
        upTo[n \in 1..Len(s)] ==
          IF n = 1 THEN <<AbsorbCode(ZeroSponge, s[1].code, Len(s[1].code))>>
          ELSE LET before == upTo[n - 1]
               IN Append(before, next(before[n - 1], s[n]))
    IN upTo[Len(s)]
  IN [s \in lists |-> Hashed[s]]

(* A round that permutes and mixes, different at each step of a cycle. *)
MCRescueRound(s, n) ==
  <<Add(s[2], n), s[3], s[4], s[5], s[6], Add(s[1], s[2])>>
=============================================================================
