-------------------------------- MODULE Kpis --------------------------------
(***************************************************************************)
(* The figures of merit of a set of generated programs: aggregate of       *)
(* tools/benchmark_lib.py takes them from the list of all results,         *)
(* aggregate_streaming of tools/diversity_sample.py folds the results one  *)
(* by one and forgets them.  Both validate the encoded programs in chunks; *)
(* a chunk the VM does not answer leaves its programs without a result.    *)
(*                                                                         *)
(* A program is a record of what analyze says of it (encoded, insns,       *)
(* distinct, jumps), of whether it has bytecode (hex: the encoder is run   *)
(* on its own, without the stripping analyze does) and of what the         *)
(* validator would answer (verdict, n, pcs: the list's length and its      *)
(* set).  Means are pairs <<sum, count>>, with the count 0 for the 0.0 of  *)
(* an empty one.                                                           *)
(***************************************************************************)
EXTENDS Integers, Sequences, FiniteSets, SequencesExt, FiniteSetsExt, Folds, Positions

CONSTANTS ChunkSize   \* programs per call of the validator

ASSUME ChunkAssumption == ChunkSize \in Nat \ {0}

NoResult == [verdict |-> "ERROR", n |-> 0, pcs |-> {}]
Answer(p) == [verdict |-> p.verdict, n |-> p.n, pcs |-> p.pcs]

\* The positions that have bytecode, in order, and the chunks they make.
Encoded(programs) == InOrder({i \in DOMAIN programs : programs[i].hex})
ChunkOf(k) == (k - 1) \div ChunkSize + 1

\* validations_from_batch: the results by position; failed are the chunks that
\* got no answer.
ValidationsFromBatch(programs, failed) ==
    LET idx == Encoded(programs)
    IN  [i \in DOMAIN programs |->
           IF \E k \in DOMAIN idx : idx[k] = i /\ ChunkOf(k) \notin failed
           THEN Answer(programs[i]) ELSE NoResult]

\* The opcode diversity of a program is a fraction of its own: its sum is kept
\* as the bag of the pairs, here the sequence of them.
Diversities(programs) ==
    LET enc == ItemsAt(programs, {i \in DOMAIN programs : programs[i].encoded})
    IN  [i \in DOMAIN enc |-> <<enc[i].distinct, enc[i].insns>>]

Total(f(_), S) == MapThenSumSet(f, S)

Aggregate(programs, results) ==
    LET n        == Len(programs)
        accepted == {i \in DOMAIN programs : results[i].verdict = "ACCEPTED"}
        encoded  == {i \in DOMAIN programs : programs[i].encoded}
        union    == UNION {results[i].pcs : i \in DOMAIN programs}
        freq(pc) == Quantify(DOMAIN programs, LAMBDA i : pc \in results[i].pcs)
    IN  [pass_rate    |-> <<Cardinality(accepted), n>>,
         encode_rate  |-> <<Cardinality(encoded), n>>,
         avg_pcs      |-> <<Total(LAMBDA i : results[i].n, accepted), Cardinality(accepted)>>,
         max_pcs      |-> IF n = 0 THEN 0 ELSE Max({results[i].n : i \in DOMAIN programs}),
         total_unique |-> Cardinality(union),
         novelty      |-> <<Total(LAMBDA pc : n - freq(pc), union), n * Cardinality(union)>>,
         avg_insns    |-> <<Total(LAMBDA i : programs[i].insns, encoded), Cardinality(encoded)>>,
         avg_jumps    |-> <<Total(LAMBDA i : programs[i].jumps, encoded), Cardinality(encoded)>>,
         diversities  |-> Diversities(programs)]

\* aggregate_streaming: the two folds.
Fold0 == [union |-> {}, valid |-> {}, freq |-> [pc \in {} |-> 0],
          accepted |-> 0, sum |-> 0, distinct |-> 0, max |-> 0]

\* A plausible slip: the frequencies count list entries, not programs.
FaultyFoldResult(res, acc) ==
    LET ok == res.verdict = "ACCEPTED"
        known == DOMAIN acc.freq
    IN  [union    |-> acc.union \cup res.pcs,
         valid    |-> IF ok THEN acc.valid \cup res.pcs ELSE acc.valid,
         freq     |-> [pc \in known \cup res.pcs |->
                         (IF pc \in known THEN acc.freq[pc] ELSE 0) + (IF pc \in res.pcs THEN res.n ELSE 0)],
         accepted |-> acc.accepted + (IF ok THEN 1 ELSE 0),
         sum      |-> acc.sum + (IF ok THEN res.n ELSE 0),
         distinct |-> acc.distinct + (IF ok THEN Cardinality(res.pcs) ELSE 0),
         max      |-> IF res.n > acc.max THEN res.n ELSE acc.max]
FoldResult(res, acc) ==
    LET ok == res.verdict = "ACCEPTED"
        known == DOMAIN acc.freq
    IN  [union    |-> acc.union \cup res.pcs,
         valid    |-> IF ok THEN acc.valid \cup res.pcs ELSE acc.valid,
         freq     |-> [pc \in known \cup res.pcs |->
                         (IF pc \in known THEN acc.freq[pc] ELSE 0) + (IF pc \in res.pcs THEN 1 ELSE 0)],
         accepted |-> acc.accepted + (IF ok THEN 1 ELSE 0),
         sum      |-> acc.sum + (IF ok THEN res.n ELSE 0),
         distinct |-> acc.distinct + (IF ok THEN Cardinality(res.pcs) ELSE 0),
         max      |-> IF res.n > acc.max THEN res.n ELSE acc.max]

FoldProgram(p, acc) ==
    IF p.encoded
    THEN [n |-> acc.n + 1, insns |-> acc.insns + p.insns, jumps |-> acc.jumps + p.jumps,
          div |-> Append(acc.div, <<p.distinct, p.insns>>)]
    ELSE acc
Complexity(programs) ==
    FoldLeft(LAMBDA acc, p : FoldProgram(p, acc), [n |-> 0, insns |-> 0, jumps |-> 0, div |-> <<>>], programs)

\* One call of the validator: the results of a chunk, folded in order.
FoldChunk(results, acc) == FoldLeft(LAMBDA a, res : FoldResult(res, a), acc, results)

\* What aggregate_streaming makes of the two folds.
StreamedKpis(n, c, v) ==
    [pass_rate    |-> <<v.accepted, n>>,
     encode_rate  |-> <<c.n, n>>,
     avg_pcs      |-> <<v.sum, v.accepted>>,
     max_pcs      |-> v.max,
     total_unique |-> Cardinality(v.union),
     novelty      |-> <<Total(LAMBDA pc : n - v.freq[pc], v.union), n * Cardinality(v.union)>>,
     avg_insns    |-> <<c.insns, c.n>>,
     avg_jumps    |-> <<c.jumps, c.n>>,
     diversities  |-> c.div]
ValidOnly(v) ==
    [n_accepted |-> v.accepted, unique |-> Cardinality(v.valid), avg_distinct |-> <<v.distinct, v.accepted>>]

\* The saturation curve: the distinct addresses after each sampled prefix.
SamplePoints(points, n) == {IF p < 1 THEN 1 ELSE IF p > n THEN n ELSE p : p \in points}
CumulativeUniqueCurve(pcSets, points) ==
    LET n  == Len(pcSets)
        at == SetToSortSeq(SamplePoints(points, n), LAMBDA x, y : x < y)
        upTo(acc, p) ==
            LET seen == acc.seen \cup UNION {pcSets[i] : i \in acc.cursor + 1 .. p}
            IN  [seen |-> seen, cursor |-> p, curve |-> Append(acc.curve, <<p, Cardinality(seen)>>)]
    IN  IF n = 0 THEN <<>>
        ELSE FoldLeft(upTo, [seen |-> {}, cursor |-> 0, curve |-> <<>>], at).curve

=============================================================================
