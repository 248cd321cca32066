----------------------------- MODULE MCOffline -----------------------------
(***************************************************************************)
(* Small instances of every line of work.  For the ladder: every verdict,  *)
(* valid programs that are nested, overlapping and disjoint in coverage or *)
(* cover nothing, and invalid ones of different depths.                    *)
(***************************************************************************)
EXTENDS Offline

MCPCs == 1 .. 3

MCOutcome ==
  [garbled |-> [verdict |-> "encode_fail", pcs |-> {}],
   broken  |-> [verdict |-> "ERROR",       pcs |-> {}],
   blank   |-> [verdict |-> "ACCEPTED",    pcs |-> {}],
   plain   |-> [verdict |-> "ACCEPTED",    pcs |-> {1}],
   wide    |-> [verdict |-> "ACCEPTED",    pcs |-> {1, 2}],
   other   |-> [verdict |-> "ACCEPTED",    pcs |-> {2, 3}],
   stub    |-> [verdict |-> "REJECTED",    pcs |-> {3}],
   walk    |-> [verdict |-> "REJECTED",    pcs |-> {1, 2, 3}]]

MCPrograms == DOMAIN MCOutcome

\* Every opcode with a register and with a number, and offsets out of range.
MCLine(insn, logged) ==
  [kind |-> "insn", insn |-> insn, num |-> logged, byte |-> logged, comment |-> logged,
   pc |-> logged /\ insn.form \in {"if", "goto"}]
MCRhs == {[reg |-> TRUE, n |-> 3], [reg |-> FALSE, n |-> 7]}
MCAsmLines == {MCLine(x, FALSE) : x \in
  [form : {"exit"}] \cup [form : {"goto"}, off : {-2, 9}] \cup [form : {"call"}, named : BOOLEAN, id : {6}]
  \cup [form : {"load"}, size : {8, 16, 32, 64, 128}, dst : {1}, src : {2}, off : {1}]
  \cup [form : {"store"}, size : {8, 16, 32, 64}, dst : {10}, rhs : MCRhs, off : {-2}]
  \cup [form : {"if"}, op : DOMAIN JmpOpcodes, width : {"r", "w"}, dst : {4}, rhs : MCRhs, off : {2}]
  \cup [form : {"neg"}, width : {"r", "w"}, dst : {5}]
  \cup [form : {"mov"}, width : {"r", "w"}, dst : {0}, rhs : MCRhs]
  \cup [form : {"alu"}, op : DOMAIN AluOpcodes, width : {"r", "w"}, dst : {0}, rhs : MCRhs]
  \cup [form : {"lddw"}, dst : {1}]}

\* An ACCEPTED line with counters; the ENCODE_FAIL lines of the writer have none.
MCLogLines == {<<"ACCEPTED", 2>>}

\* Bare assembly, assembly whose jump is of w registers, a verifier log, and prose.
MCMov(n) == MCLine([form |-> "mov", width |-> "r", dst |-> 0, rhs |-> [reg |-> FALSE, n |-> n]], n = 2)
MCIf == [form |-> "if", op |-> "==", width |-> "w", dst |-> 0, rhs |-> [reg |-> FALSE, n |-> 0], off |-> 1]
MCTexts ==
  {<<MCMov(1), MCLine([form |-> "exit"], FALSE)>>,
   <<MCMov(1), MCLine([form |-> "call", named |-> FALSE, id |-> 6], FALSE), MCLine(MCIf, FALSE)>>,
   <<[kind |-> "state"], MCMov(2)>>,
   <<[kind |-> "other", num |-> FALSE, byte |-> FALSE, comment |-> FALSE, pc |-> FALSE]>>}
MCKernel(hex) ==
  IF Len(hex) = 2 /\ hex[1].imm = 1 THEN [verdict |-> "ACCEPTED", pcs |-> {1, 2}]
  ELSE IF \E i \in DOMAIN hex : hex[i].code % 8 = 6 THEN [verdict |-> "REJECTED", pcs |-> {3}]
  ELSE [verdict |-> "ACCEPTED", pcs |-> {2, 4}]

\* A deep program among shallow ones; two inputs that can be split, one of
\* which has a sample twice.
MCTraceOf == [a |-> [n |-> 3, pcs |-> {1, 2}], b |-> [n |-> 2, pcs |-> {2}], c |-> [n |-> 60, pcs |-> {1, 2, 3}]]
MCLog == [n \in 0 .. 60 |-> IF n = 0 THEN 0 ELSE IF n < 3 THEN 10 ELSE IF n < 10 THEN 14 ELSE 41]
MCInputs == {<<"a", "b", "c">>, <<"b", "c", "b">>}
MCShuffle == [seed \in 0 .. 42 |-> [n \in 0 .. 3 |->
                IF seed % 2 = 0 THEN [k \in 1 .. n |-> k] ELSE [k \in 1 .. n |-> n + 1 - k]]]

MCKinds ==
  {[encoded |-> TRUE, hex |-> TRUE, insns |-> 4, distinct |-> 2, jumps |-> 1, verdict |-> "ACCEPTED", n |-> 3, pcs |-> {1, 2}],
   [encoded |-> TRUE, hex |-> TRUE, insns |-> 5, distinct |-> 3, jumps |-> 2, verdict |-> "REJECTED", n |-> 2, pcs |-> {2, 3}],
   [encoded |-> TRUE, hex |-> FALSE, insns |-> 3, distinct |-> 3, jumps |-> 2, verdict |-> "ERROR", n |-> 0, pcs |-> {}]}

MCAdapters ==
  <<[id |-> "grpo", merged |-> FALSE, adapter |-> TRUE, base |-> FALSE, skip |-> {}, prompts |-> 1, whole |-> TRUE],
    [id |-> "sft", merged |-> FALSE, adapter |-> TRUE, base |-> TRUE, skip |-> {"merged_bnb4bit"}, prompts |-> 1, whole |-> TRUE]>>
=============================================================================
