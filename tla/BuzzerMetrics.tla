---------------------------- MODULE BuzzerMetrics -----------------------------
(***************************************************************************)
(* The metrics of the Buzzer fuzzer (pkg/units/metrics_unit.go,            *)
(* metrics_collection.go, metrics_server.go, coverage_manager.go): the     *)
(* queue of verification results, the goroutine that works it off, and one *)
(* HTTP request at a time that reads what was collected.                   *)
(*                                                                         *)
(* A result is [valid, log, cov, collected]: whether the program was       *)
(* accepted, the line of the verifier's log that the statistics count      *)
(* (NoLog when the log is empty, as it is for every cBPF program and when  *)
(* the kernel refuses an eBPF program before it verifies it), the set of   *)
(* covered addresses, and whether coverage was collected at all.           *)
(***************************************************************************)
EXTENDS Naturals, Sequences, FiniteSets

CONSTANTS
  Addresses,  \* kernel addresses
  Logs,       \* verifier error lines
  NoLog,      \* an empty log
  NoResult    \* the goroutine has nothing in hand

Results == [valid : BOOLEAN, log : Logs \union {NoLog}, cov : SUBSET Addresses,
            collected : BOOLEAN]

ASSUME MetricsAssumption ==
  /\ IsFiniteSet(Logs) /\ NoLog \notin Logs
  /\ NoResult \notin Results

VARIABLES
  queue,          \* validationResultQueue
  programsVerified, validPrograms,
  coverageCache,  \* addresses whose line is known; coverageInfoMap lists it
  history,        \* the values of coverageHistory, oldest first
  verdicts,       \* verifierVerdicts
  metricsLock, coverageLock,  \* who holds them
  worker,         \* the goroutine's next line
  inHand,         \* the result it works on
  http            \* the request's next line

metricVars == <<queue, programsVerified, validPrograms, coverageCache, history,
                verdicts, metricsLock, coverageLock, worker, inHand, http>>

data == <<queue, programsVerified, validPrograms, coverageCache, history, verdicts, inHand>>

WorkerLabels == {"sleep", "cover", "addr2line", "lines", "log"}
HttpLabels == {"none", "index", "wantHistory", "historyLocked", "graph", "errors"}

lastMaxCoverage == IF history = <<>> THEN 0 ELSE history[Len(history)]

MetricsInit ==
  /\ queue = <<>> /\ programsVerified = 0 /\ validPrograms = 0
  /\ coverageCache = {} /\ history = <<>>
  /\ verdicts = [l \in Logs |-> 0]
  /\ metricsLock = "free" /\ coverageLock = "free"
  /\ worker = "sleep" /\ inHand = NoResult /\ http = "none"

-----------------------------------------------------------------------------
(* What the fuzzing goroutine calls: three critical sections.              *)

RecordVerified ==
  /\ metricsLock = "free"
  /\ programsVerified' = programsVerified + 1
  /\ UNCHANGED <<queue, validPrograms, coverageCache, history, verdicts,
                 metricsLock, coverageLock, worker, inHand, http>>

RecordValid ==
  /\ metricsLock = "free"
  /\ validPrograms' = validPrograms + 1
  /\ UNCHANGED <<queue, programsVerified, coverageCache, history, verdicts,
                 metricsLock, coverageLock, worker, inHand, http>>

FaultyEnqueueKnown(vr) ==
  /\ queue' = IF vr.cov \subseteq coverageCache THEN queue ELSE Append(queue, vr)
  /\ UNCHANGED <<programsVerified, validPrograms, coverageCache, history, verdicts,
                 metricsLock, coverageLock, worker, inHand, http>>

Enqueue(vr) ==
  /\ queue' = Append(queue, vr)
  /\ UNCHANGED <<programsVerified, validPrograms, coverageCache, history, verdicts,
                 metricsLock, coverageLock, worker, inHand, http>>

-----------------------------------------------------------------------------
(* The goroutine: ProcessCoverageAddresses under coverageLock, then        *)
(* processVerifierLog under metricsLock.                                   *)

Dequeue ==
  /\ worker = "sleep" /\ queue # <<>>
  /\ inHand' = Head(queue) /\ queue' = Tail(queue)
  /\ worker' = "cover"
  /\ UNCHANGED <<programsVerified, validPrograms, coverageCache, history, verdicts,
                 metricsLock, coverageLock, http>>

Unknown == inHand.cov \ coverageCache

(* The history grows only when known and unknown addresses are more than   *)
(* ever before.                                                            *)
CountCoverage ==
  /\ worker = "cover" /\ coverageLock = "free"
  /\ LET total == Cardinality(Unknown) + Cardinality(coverageCache)
     IN  history' = IF lastMaxCoverage < total THEN Append(history, total) ELSE history
  /\ IF Unknown = {}
     THEN worker' = "log" /\ UNCHANGED coverageLock
     ELSE worker' = "addr2line" /\ coverageLock' = "worker"
  /\ UNCHANGED <<queue, programsVerified, validPrograms, coverageCache, verdicts,
                 metricsLock, inHand, http>>

(* addr2line answers, or fails and nothing is learnt of these addresses.   *)
Addr2Line ==
  /\ worker = "addr2line"
  /\ \/ worker' = "lines" /\ UNCHANGED coverageLock
     \/ worker' = "log" /\ coverageLock' = "free"
  /\ UNCHANGED <<data, metricsLock, http>>

(* One line of the answer, recorded under coverageLock.                    *)
RecordLine ==
  /\ worker = "lines"
  /\ \E a \in Unknown : coverageCache' = coverageCache \union {a}
  /\ UNCHANGED <<queue, programsVerified, validPrograms, history, verdicts,
                 metricsLock, coverageLock, worker, inHand, http>>

FaultyKeepLock ==
  /\ worker = "lines"
  /\ worker' = "log" /\ UNCHANGED coverageLock
  /\ UNCHANGED <<data, metricsLock, http>>

(* Empty lines are skipped; a line without a number ends it early.         *)
LinesDone ==
  /\ worker = "lines"
  /\ worker' = "log" /\ coverageLock' = "free"
  /\ UNCHANGED <<data, metricsLock, http>>

ProcessLog ==
  /\ worker = "log" /\ metricsLock = "free"
  /\ verdicts' = IF inHand.valid \/ inHand.log = NoLog
                 THEN verdicts
                 ELSE [verdicts EXCEPT ![inHand.log] = @ + 1]
  /\ worker' = "sleep" /\ inHand' = NoResult
  /\ UNCHANGED <<queue, programsVerified, validPrograms, coverageCache, history,
                 metricsLock, coverageLock, http>>

-----------------------------------------------------------------------------
(* The handlers: index and fileCoverage range over coverageInfoMap under   *)
(* metricsLock; coverageGraph takes coverageLock inside metricsLock and    *)
(* ranges over the history after both; verifierErrors ranges over the      *)
(* verdicts after metricsLock.                                             *)

GetIndex ==
  /\ http = "none" /\ metricsLock = "free"
  /\ http' = "index" /\ metricsLock' = "http"
  /\ UNCHANGED <<data, coverageLock, worker>>

IndexDone ==
  /\ http = "index"
  /\ http' = "none" /\ metricsLock' = "free"
  /\ UNCHANGED <<data, coverageLock, worker>>

GetGraph ==
  /\ http = "none" /\ metricsLock = "free"
  /\ http' = "wantHistory" /\ metricsLock' = "http"
  /\ UNCHANGED <<data, coverageLock, worker>>

LockHistory ==
  /\ http = "wantHistory" /\ coverageLock = "free"
  /\ http' = "historyLocked" /\ coverageLock' = "http"
  /\ UNCHANGED <<data, metricsLock, worker>>

UnlockHistory ==
  /\ http = "historyLocked"
  /\ http' = "graph" /\ coverageLock' = "free" /\ metricsLock' = "free"
  /\ UNCHANGED <<data, worker>>

GetErrors ==
  /\ http = "none" /\ metricsLock = "free"
  /\ http' = "errors"
  /\ UNCHANGED <<data, metricsLock, coverageLock, worker>>

PageDone ==
  /\ http \in {"graph", "errors"}
  /\ http' = "none"
  /\ UNCHANGED <<data, metricsLock, coverageLock, worker>>

-----------------------------------------------------------------------------
Worker == Dequeue \/ CountCoverage \/ Addr2Line \/ RecordLine \/ LinesDone \/ ProcessLog

Answer == IndexDone \/ LockHistory \/ UnlockHistory \/ PageDone

Http == GetIndex \/ GetGraph \/ GetErrors \/ Answer
=============================================================================
