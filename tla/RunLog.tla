------------------------------- MODULE RunLog -------------------------------
(***************************************************************************)
(* tools/analyze_rl_run.py, and the log it reads.  The writer is           *)
(* compute_rewards of ml/reward.py: a call takes the number of its batch   *)
(* when it begins and counts it when it ends, and in between appends lines *)
(* to the log, so a batch may leave no line, and calls that overlap in a   *)
(* reward server log the same number, or numbers that fall.  A process     *)
(* starts from batch 0 again and appends to the same file.  The script     *)
(* takes the lines its pattern matches, cuts them where a batch 0 follows  *)
(* a later batch, and turns every segment into a table with a row per      *)
(* batch.  It may be run at any moment and keeps nothing, so it is an      *)
(* operator of the log.                                                    *)
(*                                                                         *)
(* A line is a record: the batch, the verdict, the new counters it claims, *)
(* and the run (the process) that wrote it, which the script cannot see.   *)
(* Rewards are in tenths; the mean and the deviation of a batch are kept   *)
(* as the number, the sum and the sum of squares of its rewards.           *)
(***************************************************************************)
EXTENDS Integers, Sequences, FiniteSets, SequencesExt, FiniteSetsExt, Positions

CONSTANTS LogLines,   \* <<verdict, new_pcs>> of a line about a scored program: the ACCEPTED line of
                      \* today's writer, and the forms of RL-1 in tests/test_analyze_rl_run.py
          RlCallers,  \* threads that call compute_rewards: one in a local trainer, more in a server
          MaxLog,     \* bound: lines of the log
          MaxSkipped, \* bound: of these, lines that the pattern does not match
          RlRuns,     \* bound: processes that append to it
          RlBatches   \* bound: calls counted by a process

\* _LINE_RE: the counters a line claims are a number.
ASSUME LogLinesAssumption == \A line \in LogLines : line[2] \in Nat

VARIABLES rlLog,        \* the log
          rlRun,        \* the process that is running
          rlCalls,      \* its _call_count
          rlOpen,       \* per caller: the call it is in (its batch_id, and the pass it is in), or NoCall
          rlOverlapped  \* history: the processes in which a call began before another one had ended

rlVars == <<rlLog, rlRun, rlCalls, rlOpen, rlOverlapped>>

NoCall == [batch |-> 0, pass |-> "none"]
Passes == {"none", "encode", "scored", "over"}

RlInit ==
    /\ rlLog = <<>>
    /\ rlRun = 1 /\ rlCalls = 0 /\ rlOpen = [t \in RlCallers |-> NoCall]
    /\ rlOverlapped = {}

\* A process ends or is killed, and the next one opens the log to append.
RlStart ==
    /\ rlRun < RlRuns
    /\ rlRun' = rlRun + 1 /\ rlCalls' = 0 /\ rlOpen' = [t \in RlCallers |-> NoCall]
    /\ UNCHANGED <<rlLog, rlOverlapped>>

\* A request's thread is a new one: any free place of rlOpen stands for it.
RlBegin(t) ==
    /\ rlOpen[t] = NoCall /\ t = (CHOOSE u \in RlCallers : rlOpen[u] = NoCall) /\ rlCalls < RlBatches
    /\ rlOpen' = [rlOpen EXCEPT ![t] = [batch |-> rlCalls, pass |-> "encode"]]
    /\ rlOverlapped' = IF \E u \in RlCallers : rlOpen[u] # NoCall THEN rlOverlapped \cup {rlRun} ELSE rlOverlapped
    /\ UNCHANGED <<rlLog, rlRun, rlCalls>>

\* _LINE_RE: a FLOOR or BATCH_TIMEOUT line is skipped.
Matches(r) == r.verdict \in {"ACCEPTED", "REJECTED", "ENCODE_FAIL", "COMPILE_FAIL", "SSH_TIMEOUT"}

RlWrite(t, line, passes, next) ==
    LET r == [batch |-> rlOpen[t].batch, run |-> rlRun, verdict |-> line[1], new |-> line[2]]
    IN  /\ rlOpen[t].pass \in passes
        /\ Len(rlLog) < MaxLog
        /\ Matches(r) \/ Cardinality({k \in DOMAIN rlLog : ~Matches(rlLog[k])}) < MaxSkipped
        /\ rlLog' = Append(rlLog, r)
        /\ rlOpen' = [rlOpen EXCEPT ![t] = [batch |-> rlOpen[t].batch, pass |-> next]]
        /\ UNCHANGED <<rlRun, rlCalls, rlOverlapped>>

\* What is not encoded is logged before the VM is asked, an unanswered batch as
\* one line, the accepted programs of an answered one each; a rejected program
\* leaves no line.
RlEncode(t) == \E verdict \in {"ENCODE_FAIL", "FLOOR"} : RlWrite(t, <<verdict, 0>>, {"encode"}, "encode")
RlTimeout(t) == RlWrite(t, <<"BATCH_TIMEOUT", 0>>, {"encode"}, "over")
RlScore(t) == \E line \in LogLines : RlWrite(t, line, {"encode", "scored"}, "scored")

RlEnd(t) ==
    /\ rlOpen[t] # NoCall
    /\ rlOpen' = [rlOpen EXCEPT ![t] = NoCall] /\ rlCalls' = rlCalls + 1
    /\ UNCHANGED <<rlLog, rlRun, rlOverlapped>>

RlCall(t) == RlBegin(t) \/ RlEncode(t) \/ RlTimeout(t) \/ RlScore(t) \/ RlEnd(t)

Tiers == <<"new_pcs", "valid", "rejected", "encode_fail", "crash">>
Tier(r) ==
    CASE r.verdict = "ACCEPTED" -> IF r.new > 0 THEN "new_pcs" ELSE "valid"
      [] r.verdict = "REJECTED" -> "rejected"
      [] r.verdict \in {"ENCODE_FAIL", "COMPILE_FAIL"} -> "encode_fail"
      [] OTHER -> "crash"
TierReward == [new_pcs |-> 10, valid |-> 1, rejected |-> 1, encode_fail |-> 0, crash |-> 20]

\* parse_log: batch 0 after a later batch begins a segment.  A plausible slip:
\* the highest batch is not forgotten when a segment begins.
FaultyCut(acc, r) ==
    IF r.batch = 0 /\ acc.max > 0
    THEN [acc EXCEPT !.done = Append(@, acc.current), !.current = <<r>>]
    ELSE [acc EXCEPT !.max = IF r.batch > @ THEN r.batch ELSE @, !.current = Append(@, r)]
Cut(acc, r) ==
    IF r.batch = 0 /\ acc.max > 0
    THEN [done |-> Append(acc.done, acc.current), current |-> <<r>>, max |-> 0]
    ELSE [acc EXCEPT !.max = IF r.batch > @ THEN r.batch ELSE @, !.current = Append(@, r)]
Matched(log) == ItemsAt(log, {k \in DOMAIN log : Matches(log[k])})
ParseLog(log) ==
    LET cut == FoldLeft(Cut, [done |-> <<>>, current |-> <<>>, max |-> -1], Matched(log))
    IN  IF cut.current = <<>> THEN cut.done ELSE Append(cut.done, cut.current)

\* aggregate: a row per batch, in the order of the numbers.
AggregateLog(segment) ==
    LET batches == InOrder({segment[k].batch : k \in DOMAIN segment})
        within(b) == {k \in DOMAIN segment : segment[k].batch = b}
        upTo(b) == {k \in DOMAIN segment : segment[k].batch <= b}
        reward(k) == TierReward[Tier(segment[k])]
    IN  [j \in DOMAIN batches |->
           [batch  |-> batches[j],
            tiers  |-> [t \in Range(Tiers) |-> Quantify(within(batches[j]), LAMBDA k : Tier(segment[k]) = t)],
            reward |-> <<Cardinality(within(batches[j])),
                         MapThenSumSet(reward, within(batches[j])),
                         MapThenSumSet(LAMBDA k : reward(k) * reward(k), within(batches[j]))>>,
            cumulative_pcs |-> MapThenSumSet(LAMBDA k : segment[k].new, upTo(batches[j]))]]

RlNext == RlStart \/ \E t \in RlCallers : RlCall(t)

-----------------------------------------------------------------------------

RunsOf(log) == {log[k].run : k \in DOMAIN log}

\* Every line of the segment is in one row and in one tier of it, and the last
\* row has the counters of all.
TableCounts(segment) ==
    LET rows == AggregateLog(segment)
    IN  /\ MapThenSumSet(LAMBDA j : rows[j].reward[1], DOMAIN rows) = Len(segment)
        /\ \A j \in DOMAIN rows :
             MapThenSumSet(LAMBDA t : rows[j].tiers[t], Range(Tiers)) = rows[j].reward[1]
        /\ rows[Len(rows)].cumulative_pcs = MapThenSumSet(LAMBDA k : segment[k].new, DOMAIN segment)

\* The log shows that the run went from batch 0 to a later one.
Shows(log, run) ==
    /\ \E k \in DOMAIN log : log[k].run = run /\ log[k].batch = 0
    /\ \E k \in DOMAIN log : log[k].run = run /\ log[k].batch > 0

\* "A new segment begins when batch=0 reappears after batch>0"
\* (tools/analyze_rl_run.py:67).  Whatever the runs logged, the tables have every
\* matched line once; a run whose calls did not overlap is never cut in two, and
\* when all runs are so and show a batch 0 and a later one, there is a segment
\* for each.
SegmentsAreRuns ==
    LET log == Matched(rlLog)
        segments == ParseLog(rlLog)
    IN  /\ FlattenSeq(segments) = log
        /\ \A s \in DOMAIN segments : TableCounts(segments[s])
        /\ \A s, t \in DOMAIN segments : s # t => RunsOf(segments[s]) \cap RunsOf(segments[t]) \subseteq rlOverlapped
        /\ (\A run \in RunsOf(log) : run \notin rlOverlapped /\ Shows(log, run)) =>
             /\ Len(segments) = Cardinality(RunsOf(log))
             /\ \A s \in DOMAIN segments : Cardinality(RunsOf(segments[s])) = 1
=============================================================================
