---------------------------- MODULE BuzzerControl -----------------------------
(***************************************************************************)
(* The fuzzing loop of Buzzer (pkg/units/control.go) with the calls it     *)
(* makes into the kernel (pkg/units/ffi.go, ebpf_ffi/*.cc), beside the     *)
(* metrics of BuzzerMetrics.  What the program and the kernel share is a   *)
(* table of descriptors, from which the lowest free one is handed out to   *)
(* whoever asks: the loop, or one of the other threads (an HTTP            *)
(* connection, a pipe to addr2line).                                       *)
(***************************************************************************)
EXTENDS BuzzerMetrics, SequencesExt, FiniteSetsExt

CONSTANTS
  Programs,     \* what the strategies generate
  Accepted,     \* those the verifier accepts
  Trace,        \* per program: the addresses its load covers, one by one
  Noise,        \* those the ioctl that ends the tracing covers itself
  BufferSize,   \* KCOV_SIZE: so many addresses fit into the KCOV buffer
  Strategies,   \* subset of {"coverage_based", "cbpf_random_instruction"}
  MaxFds,       \* size of the descriptor table
  MaxPrograms   \* bound on the programs of a run

ASSUME BuzzerAssumption ==
  /\ Accepted \subseteq Programs
  /\ Trace \in [Programs -> Seq(Addresses)]
  /\ Noise \in Seq(Addresses)
  /\ BufferSize \in Nat
  /\ Strategies \subseteq {"coverage_based", "cbpf_random_instruction"}
  /\ MaxFds \in Nat \ {0} /\ MaxPrograms \in Nat

VARIABLES
  strategy,   \* the strategy of this run
  pc,         \* the next line of the loop
  fd,         \* what each descriptor is open for
  others,     \* the descriptors other threads believe they hold
  kcov,       \* "off" (no such file, or it was not initialised), "idle" or "tracing"
  mapped,     \* whether the process sees the buffer
  buffer,     \* the addresses in the KCOV buffer
  enabled,    \* coverage_enabled of the load in work
  prog,       \* the program in work
  res,        \* its validation result
  held,       \* descriptors of the loop: map, program, two sockets; -1 if none
  isFinished, \* of the strategy
  generated,  \* programs so far
  unlogged    \* how many of them failed with an empty log (history)

kcovVars == <<kcov, mapped, buffer, enabled>>
loopVars == <<strategy, pc, fd, others, kcovVars, prog, res, held, isFinished, generated, unlogged>>
vars == <<metricVars, loopVars>>

Fds == 0 .. MaxFds - 1
Uses == {"free", "stdin", "kcov", "map", "prog", "socket", "other"}
NoFds == [map |-> -1, prog |-> -1, write |-> -1, read |-> -1]

Labels == {"init", "head", "enable", "map", "load", "pair", "attach", "collect", "disable",
           "record", "valid", "enqueue", "verified", "pairs", "inject", "shut", "sent", "answer",
           "again", "last", "executed", "closeprog", "closemap", "cleanup", "done"}

Ebpf == strategy = "coverage_based"

Free == {n \in Fds : fd[n] = "free"}

(* Closing a descriptor that is not open fails and nobody looks. *)
Closed(n) == [m \in Fds |-> IF m = n THEN "free" ELSE fd[m]]

Goto(label) == pc' = label

Init ==
  /\ MetricsInit
  /\ strategy \in Strategies
  /\ pc = "init"
  /\ fd = [n \in Fds |-> IF n = 0 THEN "stdin" ELSE "free"]
  /\ others = {} /\ kcov = "off" /\ mapped = FALSE /\ buffer = <<>> /\ enabled = FALSE
  /\ prog \in Programs /\ res = NoResult /\ held = NoFds
  /\ isFinished = FALSE /\ generated = 0 /\ unlogged = 0

(* open, socketpair and the rest: the lowest free number, or -1 (EMFILE).  *)
Open(field, use, next) ==
  /\ IF Free = {}
     THEN held' = [held EXCEPT ![field] = -1] /\ UNCHANGED fd
     ELSE /\ held' = [held EXCEPT ![field] = Min(Free)]
          /\ fd' = [fd EXCEPT ![Min(Free)] = use]
  /\ Goto(next)

Close(n, next) ==
  /\ fd' = Closed(n)
  /\ Goto(next)

-----------------------------------------------------------------------------
(* RunFuzzer. *)

(* Every step of the set-up may fail, and the descriptor stays: without    *)
(* KCOV_INIT_TRACE the tracing can never be enabled, without mmap it can.  *)
InitKcov ==
  /\ pc = "init"
  /\ \/ /\ Free # {} /\ fd' = [fd EXCEPT ![Min(Free)] = "kcov"]
        /\ kcov' \in {"idle", "off"}
        /\ mapped' \in IF kcov' = "idle" THEN BOOLEAN ELSE {FALSE}
     \/ UNCHANGED <<fd, kcov, mapped>>
  /\ Goto("head")
  /\ UNCHANGED <<metricVars, strategy, others, buffer, enabled, prog, res, held, isFinished, generated, unlogged>>

Generate ==
  /\ pc = "head" /\ ~isFinished /\ generated < MaxPrograms
  /\ prog' \in Programs
  /\ generated' = generated + 1
  /\ held' = NoFds /\ res' = NoResult /\ enabled' = FALSE
  /\ Goto("enable")
  /\ UNCHANGED <<metricVars, strategy, fd, others, kcov, mapped, buffer, isFinished, unlogged>>

IsFuzzingDone ==
  /\ pc = "head" /\ isFinished
  /\ Goto("cleanup")
  /\ UNCHANGED <<metricVars, strategy, fd, others, kcovVars, prog, res, held, isFinished, generated, unlogged>>

CleanupKcov ==
  /\ pc = "cleanup"
  /\ fd' = [n \in Fds |-> IF fd[n] = "kcov" THEN "free" ELSE fd[n]]
  /\ kcov' = "off" /\ mapped' = FALSE /\ buffer' = <<>>
  /\ Goto("done")
  /\ UNCHANGED <<metricVars, strategy, others, enabled, prog, res, held, isFinished, generated, unlogged>>

-----------------------------------------------------------------------------
(* ffi_load_ebpf_program and ffi_load_cbpf_program. *)

(* enable_coverage may fail, and the program is loaded without tracing.    *)
Enable ==
  /\ pc = "enable"
  /\ \/ kcov = "idle" /\ kcov' = "tracing" /\ enabled' = TRUE
     \/ UNCHANGED <<kcov, enabled>>
  /\ Goto(IF Ebpf THEN "map" ELSE "pair")
  /\ UNCHANGED <<metricVars, strategy, fd, others, mapped, buffer, prog, res, held, isFinished, generated, unlogged>>

CreateMap ==
  /\ pc = "map"
  /\ Open("map", "map", "load")
  /\ UNCHANGED <<metricVars, strategy, others, kcovVars, prog, res, isFinished, generated, unlogged>>

(* What no longer fits into the buffer is lost. *)
Cut(trace) == SubSeq(trace, 1, IF Len(trace) < BufferSize THEN Len(trace) ELSE BufferSize)

Traced == IF kcov = "tracing" THEN Cut(buffer \o Trace[prog]) ELSE buffer

Result(valid, log) == [valid |-> valid, log |-> log, cov |-> {}, collected |-> FALSE]

(* The log of a load: the verifier explains every verdict, but the kernel  *)
(* may refuse a program before the verifier sees it.                       *)
LoadLogs(valid) == IF valid THEN Logs ELSE Logs \union {NoLog}

LoadProgram ==
  /\ pc = "load"
  /\ IF prog \in Accepted /\ held.map # -1
     THEN Open("prog", "prog", "collect")
     ELSE Goto("collect") /\ UNCHANGED <<fd, held>>
  /\ \E l \in LoadLogs(held'.prog # -1) : res' = Result(held'.prog # -1, l)
  /\ buffer' = Traced
  /\ UNCHANGED <<metricVars, strategy, others, kcov, mapped, enabled, prog, isFinished, generated, unlogged>>

(* socketpair of load_cbpf_program: two descriptors or none.               *)
SocketPair ==
  /\ pc = "pair"
  /\ IF Cardinality(Free) < 2
     THEN /\ Goto("disable") /\ res' = Result(FALSE, NoLog) /\ UNCHANGED <<fd, held>>
     ELSE LET w == Min(Free)
              r == Min(Free \ {w})
          IN  /\ fd' = [fd EXCEPT ![w] = "socket", ![r] = "socket"]
              /\ held' = [held EXCEPT !.write = w, !.read = r]
              /\ Goto("attach") /\ UNCHANGED res
  /\ UNCHANGED <<metricVars, strategy, others, kcovVars, prog, isFinished, generated, unlogged>>

(* The filter is attached, or both sockets are closed again.               *)
AttachFilter ==
  /\ pc = "attach"
  /\ res' = Result(prog \in Accepted, NoLog)
  /\ IF prog \in Accepted
     THEN UNCHANGED <<fd, held>>
     ELSE /\ fd' = [n \in Fds |-> IF n \in {held.write, held.read} THEN "free" ELSE fd[n]]
          /\ held' = NoFds
  /\ buffer' = Traced
  /\ Goto("disable")
  /\ UNCHANGED <<metricVars, strategy, others, kcov, mapped, enabled, prog, isFinished, generated, unlogged>>

FaultyKeepBuffer ==
  /\ pc = "collect" /\ (enabled => mapped)
  /\ IF enabled
     THEN res' = [res EXCEPT !.cov = ToSet(buffer), !.collected = TRUE] /\ UNCHANGED buffer
     ELSE UNCHANGED <<res, buffer>>
  /\ Goto(IF Ebpf THEN "disable" ELSE "record")
  /\ UNCHANGED <<metricVars, strategy, fd, others, kcov, mapped, enabled, prog, held, isFinished, generated, unlogged>>

(* get_coverage empties the buffer.  For eBPF it runs before the tracing   *)
(* ends, for cBPF after it.                                                *)
GetCoverage ==
  /\ pc = "collect" /\ (enabled => mapped)
  /\ IF enabled
     THEN res' = [res EXCEPT !.cov = ToSet(buffer), !.collected = TRUE] /\ buffer' = <<>>
     ELSE UNCHANGED <<res, buffer>>
  /\ Goto(IF Ebpf THEN "disable" ELSE "record")
  /\ UNCHANGED <<metricVars, strategy, fd, others, kcov, mapped, enabled, prog, held, isFinished, generated, unlogged>>

(* It looks for the buffer even where mmap has failed: the process dies    *)
(* with all it has open.                                                   *)
ReadUnmapped ==
  /\ pc = "collect" /\ enabled /\ ~mapped
  /\ fd' = [n \in Fds |-> "free"] /\ others' = {}
  /\ kcov' = "off" /\ buffer' = <<>> /\ enabled' = FALSE
  /\ Goto("done")
  /\ UNCHANGED <<metricVars, strategy, mapped, prog, res, held, isFinished, generated, unlogged>>

Disable ==
  /\ pc = "disable"
  /\ IF enabled
     THEN kcov' = "idle" /\ buffer' = Cut(buffer \o Noise)
     ELSE UNCHANGED <<kcov, buffer>>
  /\ Goto(IF Ebpf THEN "record" ELSE "collect")
  /\ UNCHANGED <<metricVars, strategy, fd, others, mapped, enabled, prog, res, held, isFinished, generated, unlogged>>

-----------------------------------------------------------------------------
(* RecordVerificationResults. *)

Record ==
  /\ pc = "record"
  /\ RecordVerified
  /\ unlogged' = unlogged + (IF res.valid \/ res.log # NoLog THEN 0 ELSE 1)
  /\ Goto(IF res.valid THEN "valid" ELSE "enqueue")
  /\ UNCHANGED <<strategy, fd, others, kcovVars, prog, res, held, isFinished, generated>>

CountValid ==
  /\ pc = "valid"
  /\ RecordValid
  /\ Goto("enqueue")
  /\ UNCHANGED <<strategy, fd, others, kcovVars, prog, res, held, isFinished, generated, unlogged>>

QueueResult ==
  /\ pc = "enqueue"
  /\ Enqueue(res)
  /\ Goto("verified")
  /\ UNCHANGED <<strategy, fd, others, kcovVars, prog, res, held, isFinished, generated, unlogged>>

-----------------------------------------------------------------------------
(* The rest of runEbpf and runCbpf.  The coverage strategy runs a program  *)
(* that is valid, traced and shows something new; the cBPF strategy always *)
(* says yes.  An invalid cBPF result has no program_fd, which reads as 0.       *)

FaultySkipClose ==
  /\ pc = "verified"
  /\ \/ /\ res.valid /\ (Ebpf => res.collected)
        /\ Goto(IF Ebpf THEN "pairs" ELSE "inject") /\ UNCHANGED fd
     \/ /\ Ebpf
        /\ Goto("closemap") /\ UNCHANGED fd
     \/ /\ ~Ebpf /\ ~res.valid
        /\ Goto("head") /\ UNCHANGED fd
  /\ UNCHANGED <<metricVars, strategy, others, kcovVars, prog, res, held, isFinished, generated, unlogged>>

OnVerifyDone ==
  /\ pc = "verified"
  /\ \/ /\ res.valid /\ (Ebpf => res.collected)
        /\ Goto(IF Ebpf THEN "pairs" ELSE "inject") /\ UNCHANGED fd
     \/ /\ Ebpf
        /\ Close(held.prog, "closemap")
     \/ /\ ~Ebpf /\ ~res.valid
        /\ Close(0, "head")
  /\ UNCHANGED <<metricVars, strategy, others, kcovVars, prog, res, held, isFinished, generated, unlogged>>

(* execute_ebpf_program: a socket pair, the program attached, one write.   *)
ExecPair ==
  /\ pc = "pairs"
  /\ IF Cardinality(Free) < 2
     THEN Goto("executed") /\ UNCHANGED <<fd, held>>
     ELSE LET w == Min(Free)
              r == Min(Free \ {w})
          IN  /\ fd' = [fd EXCEPT ![w] = "socket", ![r] = "socket"]
              /\ held' = [held EXCEPT !.write = w, !.read = r]
              /\ Goto("shut")
  /\ UNCHANGED <<metricVars, strategy, others, kcovVars, prog, res, isFinished, generated, unlogged>>

CloseWrite ==
  /\ pc = "shut"
  /\ Close(held.write, "last")
  /\ UNCHANGED <<metricVars, strategy, others, kcovVars, prog, res, held, isFinished, generated, unlogged>>

CloseRead ==
  /\ pc = "last"
  /\ Close(held.read, IF Ebpf THEN "executed" ELSE "head")
  /\ UNCHANGED <<metricVars, strategy, others, kcovVars, prog, res, held, isFinished, generated, unlogged>>

(* execute_cbpf_program writes, closes, reads, closes; a read that times   *)
(* out (the filter dropped the packet) goes to out:, which closes both.    *)
Inject ==
  /\ pc = "inject"
  /\ Goto("shut") \/ Goto("sent")
  /\ UNCHANGED <<metricVars, strategy, fd, others, kcovVars, prog, res, held, isFinished, generated, unlogged>>

Sent ==
  /\ pc = "sent"
  /\ Close(held.write, "answer")
  /\ UNCHANGED <<metricVars, strategy, others, kcovVars, prog, res, held, isFinished, generated, unlogged>>

ReadAnswer ==
  /\ pc = "answer"
  /\ Goto("last") \/ Goto("shut")
  /\ UNCHANGED <<metricVars, strategy, fd, others, kcovVars, prog, res, held, isFinished, generated, unlogged>>

(* OnExecuteDone ends the fuzzing when the map shows an unexpected value.  *)
OnExecuteDone ==
  /\ pc = "executed"
  /\ isFinished' \in BOOLEAN
  /\ Goto("closeprog")
  /\ UNCHANGED <<metricVars, strategy, fd, others, kcovVars, prog, res, held, generated, unlogged>>

(* The deferred calls, last one first. *)
DeferredCloseProg ==
  /\ pc = "closeprog"
  /\ Close(held.prog, "closemap")
  /\ UNCHANGED <<metricVars, strategy, others, kcovVars, prog, res, held, isFinished, generated, unlogged>>

FaultyCleanTwice ==
  /\ pc = "closemap"
  /\ fd' = [n \in Fds |-> IF n \in {held.map, held.prog} THEN "free" ELSE fd[n]]
  /\ Goto("head")
  /\ UNCHANGED <<metricVars, strategy, others, kcovVars, prog, res, held, isFinished, generated, unlogged>>

CleanFdArray ==
  /\ pc = "closemap"
  /\ Close(held.map, "head")
  /\ UNCHANGED <<metricVars, strategy, others, kcovVars, prog, res, held, isFinished, generated, unlogged>>

-----------------------------------------------------------------------------
(* The other threads of the process. *)

OtherOpens ==
  /\ others = {} /\ Free # {} /\ pc # "init"
  /\ fd' = [fd EXCEPT ![Min(Free)] = "other"]
  /\ others' = {Min(Free)}
  /\ UNCHANGED <<metricVars, strategy, pc, kcovVars, prog, res, held, isFinished, generated, unlogged>>

OtherCloses ==
  /\ \E n \in others : fd' = Closed(n) /\ others' = others \ {n}
  /\ UNCHANGED <<metricVars, strategy, pc, kcovVars, prog, res, held, isFinished, generated, unlogged>>

-----------------------------------------------------------------------------
Loop ==
  \/ InitKcov \/ Generate \/ IsFuzzingDone \/ CleanupKcov \/ Enable \/ CreateMap \/ LoadProgram
  \/ SocketPair \/ AttachFilter \/ GetCoverage \/ ReadUnmapped \/ Disable \/ Record \/ CountValid \/ QueueResult
  \/ OnVerifyDone \/ ExecPair \/ CloseWrite \/ CloseRead \/ Inject \/ Sent \/ ReadAnswer
  \/ OnExecuteDone \/ DeferredCloseProg \/ CleanFdArray

(* When RunFuzzer returns, or reading fails, the process ends with all its *)
(* goroutines.                                                             *)
Next ==
  \/ Loop
  \/ pc # "done" /\ (Worker \/ Http) /\ UNCHANGED loopVars
  \/ pc # "done" /\ (OtherOpens \/ OtherCloses)

Spec == Init /\ [][Next]_vars

(* The Go scheduler runs every goroutine that can run, a mutex is handed   *)
(* to those who wait, and a handler that has begun ends.                   *)
WorkerRuns == pc # "done" /\ Worker /\ UNCHANGED loopVars
AnswerRuns == pc # "done" /\ Answer /\ UNCHANGED loopVars

FairSpec ==
  /\ Spec
  /\ SF_vars(Loop)
  /\ SF_vars(WorkerRuns)
  /\ SF_vars(AnswerRuns)

-----------------------------------------------------------------------------
(* Every variable stays in its range; tracing goes on only inside a load. *)
TypeOK ==
  /\ queue \in Seq(Results)
  /\ verdicts \in [Logs -> Nat]
  /\ worker \in WorkerLabels /\ http \in HttpLabels
  /\ metricsLock \in {"free", "http"} /\ coverageLock \in {"free", "http", "worker"}
  /\ pc \in Labels /\ fd \in [Fds -> Uses] /\ others \subseteq Fds
  /\ kcov \in {"off", "idle", "tracing"} /\ mapped \in BOOLEAN /\ enabled \in BOOLEAN
  /\ buffer \in Seq(Addresses) /\ unlogged \in Nat
  /\ held \in [DOMAIN NoFds -> Fds \union {-1}]
  /\ kcov = "tracing" => pc \in {"map", "load", "pair", "attach", "collect", "disable"}

(* A loop that fuzzes eBPF closes no descriptor of another thread, whatever *)
(* fails in between (control.go:145, 156, 166; ebpf.cc:234).                *)
EbpfLeavesOthersAlone == Ebpf => \A n \in others : fd[n] = "other"

(* When the loop comes around, no descriptor of the last program is open,  *)
(* on every path through verification, execution and their failures.       *)
NothingLeaks == pc = "head" => \A n \in Fds : fd[n] \notin {"map", "prog", "socket"}

(* The coverage reported for a program is what its own load covered, plus  *)
(* at most the tail of an ioctl, although one buffer serves all programs   *)
(* and is emptied by none but get_coverage (ffi.cc:67-86); it is reported  *)
(* exactly where the tracing was enabled; and then that of a valid program *)
(* is complete, if what it covers fits behind what the buffer may hold.    *)
CoverageIsOwn ==
  /\ res # NoResult => res.cov \subseteq ToSet(Trace[prog]) \union ToSet(Noise)
  /\ pc = "record" => /\ res.collected = enabled
                      /\ ~enabled => res.cov = {}
  /\ (/\ pc = "record" /\ enabled /\ res.valid
      /\ Len(Noise) + Len(Trace[prog]) <= BufferSize) => ToSet(Trace[prog]) \subseteq res.cov

(* Of the programs that were verified and not valid, those with a log are  *)
(* in the statistics of the verdicts, in the queue, in hand or on their    *)
(* way: none is counted twice or lost between the goroutines.  Those with  *)
(* an empty log are the only ones that are never counted                   *)
(* (metrics_collection.go:91-93).                                          *)
Explained(r) == ~r.valid /\ r.log # NoLog

VerdictsAddUp ==
  LET inQueue == Cardinality({i \in DOMAIN queue : Explained(queue[i])})
      working == IF inHand # NoResult /\ Explained(inHand) THEN 1 ELSE 0
      coming  == IF pc = "valid" \/ (pc = "enqueue" /\ Explained(res)) THEN 1 ELSE 0
  IN  programsVerified - validPrograms - unlogged
        = MapThenSumSet(LAMBDA l : verdicts[l], Logs) + inQueue + working + coming

(* Once it has begun, the fuzzing loop always comes around again: waiting  *)
(* for the locks of the metrics it never meets a goroutine and a handler   *)
(* that wait for each other.                                               *)
LoopComesAround == []<>(pc \in {"init", "head", "done"})

(* What a handler ranges over does not change under it.  Go ends the       *)
(* process when it does.                                                   *)
MapsAreStable ==
  [][/\ http = "index" => coverageCache' = coverageCache
     /\ http = "graph" => history' = history
     /\ http = "errors" => verdicts' = verdicts]_vars
=============================================================================
