----------------------------- MODULE BuzzerProofs -----------------------------
(***************************************************************************)
(* Proofs about BuzzerControl for every set of programs, every trace and   *)
(* every size of the descriptor table.                                     *)
(***************************************************************************)
EXTENDS BuzzerControl, DataInduction

(* The lowest free descriptor is free, and so is the next one.             *)
LEMMA LowestFree ==
  ASSUME MaxFds \in Nat, Free # {}
  PROVE  Min(Free) \in Free /\ Min(Free) \in Fds
<1>1. Free \in SUBSET Nat
  BY DEF Free, Fds
<1>2. \E n \in Free : \A m \in Free : n <= m
  BY <1>1, LeastNat
<1>3. Min(Free) \in Free
  BY <1>2 DEF Min
<1> QED BY <1>3 DEF Free

LEMMA NextFree ==
  ASSUME MaxFds \in Nat, ~(Cardinality(Free) < 2)
  PROVE  /\ Min(Free) \in Free /\ Min(Free) \in Fds
         /\ Min(Free \ {Min(Free)}) \in Free \ {Min(Free)}
         /\ Min(Free \ {Min(Free)}) \in Fds
<1>1. IsFiniteSet(Free) /\ Cardinality(Free) \in Nat
  <2>1. IsFiniteSet(Fds)
    BY FS_Interval DEF Fds
  <2>2. Free \subseteq Fds
    BY DEF Free
  <2> QED BY <2>1, <2>2, FS_Subset, FS_CardinalityType
<1>2. Free # {}
  BY FS_EmptySet
<1>3. Min(Free) \in Free /\ Min(Free) \in Fds
  BY <1>2, LowestFree
<1> DEFINE w == Min(Free)
<1> HIDE DEF w
<1>4. Cardinality(Free \ {w}) = Cardinality(Free) - 1
  BY <1>1, <1>3, FS_RemoveElement DEF w
<1>5. Free \ {w} # {}
  <2> SUFFICES ASSUME Free \ {w} = {} PROVE FALSE
    OBVIOUS
  <2>1. Cardinality(Free \ {w}) = 0
    BY FS_EmptySet
  <2> QED BY <1>1, <1>4, <2>1
<1>6. Free \ {w} \in SUBSET Nat
  BY DEF Free, Fds
<1>7. \E n \in Free \ {w} : \A m \in Free \ {w} : n <= m
  BY <1>5, <1>6, LeastNat
<1>8. Min(Free \ {w}) \in Free \ {w}
  BY <1>7 DEF Min
<1>9. Free \subseteq Fds
  BY DEF Free
<1> QED BY <1>3, <1>8, <1>9 DEF w

-----------------------------------------------------------------------------
(* The goroutines of the metrics leave the loop alone, and keep to the     *)
(* ranges of their own variables.                                          *)
MetricsTyped ==
  /\ queue \in Seq(Results)
  /\ verdicts \in [Logs -> Nat]
  /\ worker \in WorkerLabels /\ http \in HttpLabels
  /\ metricsLock \in {"free", "http"} /\ coverageLock \in {"free", "http", "worker"}
  /\ programsVerified \in Nat /\ validPrograms \in Nat
  /\ inHand \in Results \union {NoResult}
  /\ worker = "sleep" <=> inHand = NoResult

LEMMA MetricsStayTyped ==
  ASSUME MetricsTyped, Worker \/ Http
  PROVE  MetricsTyped'
<1> USE MetricsAssumption DEF MetricsTyped, WorkerLabels, HttpLabels
<1>1. CASE Dequeue
  BY <1>1 DEF Dequeue
<1>2. CASE CountCoverage
  BY <1>2 DEF CountCoverage
<1>3. CASE Addr2Line
  BY <1>3 DEF Addr2Line, data
<1>4. CASE RecordLine
  BY <1>4 DEF RecordLine
<1>5. CASE LinesDone
  BY <1>5 DEF LinesDone, data
<1>6. CASE ProcessLog
  <2>1. verdicts' \in [Logs -> Nat]
    BY <1>6 DEF ProcessLog, Results
  <2> QED BY <1>6, <2>1 DEF ProcessLog
<1>7. CASE Http
  BY <1>7 DEF Http, Answer, GetIndex, GetGraph, GetErrors, IndexDone, LockHistory, UnlockHistory, PageDone, data
<1> QED BY <1>1, <1>2, <1>3, <1>4, <1>5, <1>6, <1>7 DEF Worker

(* A step of the loop leaves the goroutines' variables alone, or records.  *)
LEMMA RecordsStayTyped ==
  ASSUME MetricsTyped,
         UNCHANGED metricVars \/ RecordVerified \/ RecordValid \/ (res \in Results /\ Enqueue(res))
  PROVE  MetricsTyped'
<1> USE DEF MetricsTyped
<1>1. CASE UNCHANGED metricVars
  BY <1>1 DEF metricVars
<1>2. CASE RecordVerified
  BY <1>2 DEF RecordVerified
<1>3. CASE RecordValid
  BY <1>3 DEF RecordValid
<1>4. CASE res \in Results /\ Enqueue(res)
  BY <1>4 DEF Enqueue
<1> QED BY <1>1, <1>2, <1>3, <1>4

-----------------------------------------------------------------------------
(* The loop's own variables, and what is in hand at which line. *)

Unloaded == {"init", "enable", "map", "load", "pair", "attach"}
Loaded == {"collect", "disable", "record", "valid", "enqueue"}

BufferTyped ==
  /\ buffer \in Seq(Addresses)
  /\ mapped \in BOOLEAN /\ enabled \in BOOLEAN
  /\ unlogged \in Nat

LoopTyped ==
  /\ pc \in Labels /\ fd \in [Fds -> Uses] /\ others \subseteq Fds
  /\ kcov \in {"off", "idle", "tracing"} /\ BufferTyped
  /\ held \in [DOMAIN NoFds -> Fds \union {-1}]
  /\ kcov = "tracing" => enabled
  /\ kcov = "tracing" => pc \in IF Ebpf THEN {"map", "load", "collect", "disable"}
                                ELSE {"pair", "attach", "disable"}
  /\ strategy \in Strategies
  /\ prog \in Programs /\ res \in Results \union {NoResult}
  /\ isFinished \in BOOLEAN
  /\ pc \in Unloaded => res = NoResult
  /\ pc \in Loaded => res \in Results
  /\ pc \in {"init", "enable", "map", "pair"} => held = NoFds

Typed == MetricsTyped /\ LoopTyped

LEMMA TypedTypes == Typed => TypeOK
BY DEF Typed, TypeOK, MetricsTyped, LoopTyped, BufferTyped

LEMMA TypedInit == Init => Typed
<1> SUFFICES ASSUME Init PROVE Typed
  OBVIOUS
<1>1. fd \in [Fds -> Uses]
  BY DEF Init, Uses
<1>2. held \in [DOMAIN NoFds -> Fds \union {-1}]
  BY DEF Init, NoFds
<1>3. MetricsTyped
  BY MetricsAssumption DEF Init, MetricsInit, MetricsTyped, WorkerLabels, HttpLabels
<1>4. BufferTyped
  <2>1. buffer = <<>> /\ mapped = FALSE /\ enabled = FALSE /\ unlogged = 0
    BY DEF Init
  <2>2. <<>> \in Seq(Addresses)
    OBVIOUS
  <2> QED BY <2>1, <2>2 DEF BufferTyped
<1> QED BY <1>1, <1>2, <1>3, <1>4 DEF Init, Typed, LoopTyped, Labels, Unloaded, Loaded

\* What the loop does to the metrics, whatever else it does.
LEMMA LoopRecords ==
  ASSUME LoopTyped, Loop
  PROVE  \/ UNCHANGED metricVars \/ RecordVerified \/ RecordValid
         \/ (res \in Results /\ Enqueue(res))
BY DEF LoopTyped, Loaded, Loop, InitKcov, Generate, IsFuzzingDone, CleanupKcov, Enable, CreateMap, LoadProgram,
       SocketPair, AttachFilter, GetCoverage, ReadUnmapped, Disable, Record, CountValid, QueueResult,
       OnVerifyDone, ExecPair, CloseWrite, CloseRead, Inject, Sent, ReadAnswer,
       OnExecuteDone, DeferredCloseProg, CleanFdArray

LEMMA HeldFds ==
  ASSUME LoopTyped
  PROVE  /\ held.map \in Fds \union {-1} /\ held.prog \in Fds \union {-1}
         /\ held.write \in Fds \union {-1} /\ held.read \in Fds \union {-1}
         /\ DOMAIN NoFds = {"map", "prog", "write", "read"}
         /\ NoFds \in [DOMAIN NoFds -> Fds \union {-1}]
BY DEF LoopTyped, NoFds

LEMMA ResultTyped == \A v \in BOOLEAN, l \in Logs \union {NoLog} : Result(v, l) \in Results
BY DEF Result, Results

\* What the cut buffer holds of what was there and of what is added.
LEMMA CutIs ==
  ASSUME NEW old \in Seq(Addresses), NEW new \in Seq(Addresses)
  PROVE  /\ Cut(old \o new) \in Seq(Addresses)
         /\ Len(Cut(old \o new)) <= BufferSize
         /\ Len(Cut(old \o new)) <= Len(old) + Len(new)
         /\ ToSet(Cut(old \o new)) \subseteq ToSet(old) \union ToSet(new)
         /\ Len(old) <= BufferSize => ToSet(old) \subseteq ToSet(Cut(old \o new))
         /\ Len(old) + Len(new) <= BufferSize => ToSet(new) \subseteq ToSet(Cut(old \o new))
<1> DEFINE both == old \o new
           n == IF Len(both) < BufferSize THEN Len(both) ELSE BufferSize
           kept == SubSeq(both, 1, n)
<1>1. /\ both \in Seq(Addresses) /\ Len(both) = Len(old) + Len(new)
      /\ Len(old) \in Nat /\ Len(new) \in Nat
      /\ \A i \in 1 .. Len(old) : both[i] = old[i]
      /\ \A i \in 1 .. Len(new) : both[Len(old) + i] = new[i]
  OBVIOUS
<1>2. \A i \in 1 .. Len(both) : both[i] \in ToSet(old) \union ToSet(new)
  <2> TAKE i \in 1 .. Len(both)
  <2>1. CASE i <= Len(old)
    BY <1>1, <2>1 DEF ToSet
  <2>2. CASE i > Len(old)
    <3>1. i - Len(old) \in 1 .. Len(new) /\ both[Len(old) + (i - Len(old))] = new[i - Len(old)]
      BY <1>1, <2>2
    <3>2. Len(old) + (i - Len(old)) = i
      BY <1>1
    <3>3. new[i - Len(old)] \in ToSet(new)
      BY <3>1 DEF ToSet
    <3> QED BY <3>1, <3>2, <3>3
  <2> QED BY <1>1, <2>1, <2>2
<1>3. n \in Nat /\ n <= BufferSize /\ n <= Len(both)
  BY <1>1, BuzzerAssumption
<1>4. kept = Cut(old \o new)
  BY DEF Cut
<1> HIDE DEF both
<1>5. /\ kept \in Seq(Addresses) /\ Len(kept) = n
      /\ \A i \in 1 .. n : kept[i] = both[i]
  <2> HIDE DEF n
  <2> QED BY <1>1, <1>3
<1> HIDE DEF kept
<1>6. ToSet(kept) = {both[i] : i \in 1 .. n}
  BY <1>5, <1>3 DEF ToSet
<1>7. ToSet(kept) \subseteq ToSet(old) \union ToSet(new)
  BY <1>2, <1>3, <1>6, <1>1
<1>8. ASSUME Len(old) <= BufferSize PROVE ToSet(old) \subseteq ToSet(kept)
  <2>1. \A i \in 1 .. Len(old) : i \in 1 .. n
    BY <1>1, <1>8, BuzzerAssumption
  <2>2. ToSet(old) = {old[i] : i \in 1 .. Len(old)}
    BY DEF ToSet
  <2> QED BY <1>1, <1>6, <2>1, <2>2, Zenon
<1>9. ASSUME Len(old) + Len(new) <= BufferSize PROVE ToSet(new) \subseteq ToSet(kept)
  <2>1. \A i \in 1 .. Len(new) : Len(old) + i \in 1 .. n
    BY <1>1, <1>9, BuzzerAssumption
  <2>2. ToSet(new) = {new[i] : i \in 1 .. Len(new)}
    BY DEF ToSet
  <2> QED BY <1>1, <1>6, <2>1, <2>2, Zenon
<1>10. Len(kept) <= BufferSize /\ Len(kept) <= Len(old) + Len(new)
  BY <1>1, <1>3, <1>5
<1> QED BY <1>4, <1>5, <1>7, <1>8, <1>9, <1>10

LEMMA BufferStaysTyped ==
  ASSUME LoopTyped, Loop
  PROVE  BufferTyped'
<1>1. buffer \in Seq(Addresses) /\ Trace[prog] \in Seq(Addresses) /\ Noise \in Seq(Addresses)
  BY BuzzerAssumption DEF LoopTyped, BufferTyped
<1>2. Traced \in Seq(Addresses)
  BY <1>1, CutIs DEF Traced
<1>3. Cut(buffer \o Noise) \in Seq(Addresses)
  BY <1>1, CutIs
<1>4. buffer' \in {buffer, <<>>, Traced, Cut(buffer \o Noise)}
  BY DEF Loop, InitKcov, Generate, IsFuzzingDone, CleanupKcov, Enable, CreateMap, LoadProgram,
         SocketPair, AttachFilter, GetCoverage, ReadUnmapped, Disable, Record, CountValid, QueueResult,
         OnVerifyDone, ExecPair, CloseWrite, CloseRead, Inject, Sent, ReadAnswer,
         OnExecuteDone, DeferredCloseProg, CleanFdArray, kcovVars
<1>5. <<>> \in Seq(Addresses)
  OBVIOUS
<1>6. mapped' \in BOOLEAN /\ enabled' \in BOOLEAN /\ unlogged' \in Nat
  <2> USE DEF LoopTyped, BufferTyped, kcovVars
  <2>1. CASE InitKcov
    BY <2>1, Zenon DEF InitKcov
  <2>2. CASE Generate \/ CleanupKcov \/ ReadUnmapped
    BY <2>2, Zenon DEF Generate, CleanupKcov, ReadUnmapped
  <2>3. CASE Enable
    BY <2>3, Zenon DEF Enable
  <2>4. CASE Record
    <3>1. unlogged' = unlogged + (IF res.valid \/ res.log # NoLog THEN 0 ELSE 1)
      BY <2>4 DEF Record
    <3>2. UNCHANGED <<mapped, enabled>>
      BY <2>4 DEF Record
    <3>3. unlogged' \in Nat
      BY <3>1
    <3> QED BY <3>2, <3>3
  <2>5. CASE UNCHANGED <<mapped, enabled, unlogged>>
    BY <2>5
  <2> QED BY <2>1, <2>2, <2>3, <2>4, <2>5
          DEF Loop, IsFuzzingDone, CreateMap, LoadProgram, SocketPair, AttachFilter, GetCoverage,
              Disable, CountValid, QueueResult, OnVerifyDone, ExecPair, CloseWrite, CloseRead,
              Inject, Sent, ReadAnswer, OnExecuteDone, DeferredCloseProg, CleanFdArray
<1> QED BY <1>1, <1>2, <1>3, <1>4, <1>5, <1>6 DEF BufferTyped

(* What the steps need of the constants. *)
LEMMA Sizes ==
  /\ MaxFds \in Nat /\ 0 \in Fds
  /\ Strategies \subseteq {"coverage_based", "cbpf_random_instruction"}
BY BuzzerAssumption DEF Fds

LEMMA LoopStaysTyped ==
  ASSUME LoopTyped, Loop
  PROVE  LoopTyped'
<1>0. BufferTyped'
  BY BufferStaysTyped
<1> USE <1>0, Sizes, HeldFds DEF LoopTyped, Labels, Uses, Ebpf, Unloaded, Loaded, Goto, kcovVars
<1>1. CASE InitKcov
  BY <1>1, LowestFree DEF InitKcov
<1>2. CASE Generate
  BY <1>2 DEF Generate
<1>3. CASE IsFuzzingDone \/ CleanupKcov
  BY <1>3 DEF IsFuzzingDone, CleanupKcov
<1>4. CASE Enable
  BY <1>4 DEF Enable
<1>5. CASE CreateMap
  BY <1>5, LowestFree DEF CreateMap, Open
<1>6. CASE LoadProgram
  <2>1. fd' \in [Fds -> Uses] /\ held' \in [DOMAIN NoFds -> Fds \union {-1}]
    BY <1>6, LowestFree DEF LoadProgram, Open
  <2>2. res' \in Results
    <3>1. \E l \in Logs \union {NoLog} : res' = Result(held'.prog # -1, l)
      BY <1>6 DEF LoadProgram, LoadLogs
    <3> QED BY <3>1, ResultTyped
  <2> QED BY <1>6, <2>1, <2>2 DEF LoadProgram, Open
<1>7. CASE SocketPair
  <2>1. fd' \in [Fds -> Uses] /\ held' \in [DOMAIN NoFds -> Fds \union {-1}]
    <3>1. CASE Cardinality(Free) < 2
      BY <1>7, <3>1 DEF SocketPair
    <3>2. CASE ~(Cardinality(Free) < 2)
      <4> DEFINE w == Min(Free)
                 r == Min(Free \ {w})
      <4>1. w \in Fds /\ r \in Fds
        BY <3>2, NextFree
      <4>2. fd' = [fd EXCEPT ![w] = "socket", ![r] = "socket"] /\ held' = [held EXCEPT !.write = w, !.read = r]
        BY <1>7, <3>2 DEF SocketPair
      <4> HIDE DEF w, r
      <4> QED BY <4>1, <4>2
    <3> QED BY <3>1, <3>2
  <2>2. (pc' = "disable" /\ res' \in Results) \/ (pc' = "attach" /\ res' = res)
    <3>1. Result(FALSE, NoLog) \in Results
      BY ResultTyped
    <3> QED BY <1>7, <3>1 DEF SocketPair
  <2> QED BY <1>7, <2>1, <2>2 DEF SocketPair
<1>8. CASE AttachFilter
  <2>1. fd' \in [Fds -> Uses] /\ held' \in [DOMAIN NoFds -> Fds \union {-1}]
    BY <1>8 DEF AttachFilter
  <2>2. res' \in Results
    BY <1>8 DEF AttachFilter, Result, Results
  <2> QED BY <1>8, <2>1, <2>2 DEF AttachFilter
<1>9. CASE GetCoverage
  <2>1. ToSet(buffer) \subseteq Addresses
    BY DEF BufferTyped, ToSet
  <2>2. pc' \in {"disable", "record"} /\ pc = "collect" /\ res \in Results
    BY <1>9 DEF GetCoverage
  <2>3. res' = res \/ res' = [res EXCEPT !.cov = ToSet(buffer), !.collected = TRUE]
    BY <1>9 DEF GetCoverage
  <2>4. res' \in Results
    BY <2>1, <2>2, <2>3 DEF Results
  <2> QED BY <1>9, <2>2, <2>4 DEF GetCoverage
<1>10. CASE Disable
  BY <1>10 DEF Disable
<1>11. CASE Record \/ CountValid \/ QueueResult
  BY <1>11 DEF Record, CountValid, QueueResult
<1>12. CASE OnVerifyDone
  BY <1>12 DEF OnVerifyDone, Close, Closed
<1>13. CASE ExecPair
  <2>1. fd' \in [Fds -> Uses] /\ held' \in [DOMAIN NoFds -> Fds \union {-1}]
    <3>1. CASE Cardinality(Free) < 2
      BY <1>13, <3>1 DEF ExecPair
    <3>2. CASE ~(Cardinality(Free) < 2)
      <4> DEFINE w == Min(Free)
                 r == Min(Free \ {w})
      <4>1. w \in Fds /\ r \in Fds
        BY <3>2, NextFree
      <4>2. fd' = [fd EXCEPT ![w] = "socket", ![r] = "socket"] /\ held' = [held EXCEPT !.write = w, !.read = r]
        BY <1>13, <3>2 DEF ExecPair
      <4> HIDE DEF w, r
      <4> QED BY <4>1, <4>2
    <3> QED BY <3>1, <3>2
  <2> QED BY <1>13, <2>1 DEF ExecPair
<1>14. CASE CloseWrite \/ CloseRead \/ Sent
  BY <1>14 DEF CloseWrite, CloseRead, Sent, Close, Closed
<1>15. CASE Inject \/ ReadAnswer \/ OnExecuteDone
  BY <1>15 DEF Inject, ReadAnswer, OnExecuteDone
<1>16. CASE DeferredCloseProg \/ CleanFdArray
  BY <1>16 DEF DeferredCloseProg, CleanFdArray, Close, Closed
<1>17. CASE ReadUnmapped
  BY <1>17 DEF ReadUnmapped
<1> QED BY <1>1, <1>2, <1>3, <1>4, <1>5, <1>6, <1>7, <1>8, <1>9, <1>10, <1>11, <1>12, <1>13,
           <1>14, <1>15, <1>16, <1>17 DEF Loop

-----------------------------------------------------------------------------
(* Which descriptors are the loop's at which line, in both kinds of run.   *)

MapLines ==
  IF Ebpf THEN {"load", "collect", "disable", "record", "valid", "enqueue", "verified", "pairs",
                "shut", "last", "executed", "closeprog", "closemap"}
  ELSE {}

ProgLines == MapLines \ {"load", "closemap"}

PairLines ==
  IF Ebpf THEN {"shut"}
  ELSE {"attach", "disable", "collect", "record", "valid", "enqueue", "verified",
        "inject", "sent", "shut"}

Lines ==
  {"init", "head", "enable", "collect", "disable", "record", "valid", "enqueue", "verified",
   "shut", "last", "cleanup", "done"} \union
  IF Ebpf THEN {"map", "load", "pairs", "executed", "closeprog", "closemap"}
  ELSE {"pair", "attach", "inject", "sent", "answer"}

(* No descriptor is open that the loop does not know of. *)
OpenAreHeld ==
  \A n \in Fds :
    /\ fd[n] = "map" => n = held.map /\ pc \in MapLines
    /\ fd[n] = "prog" => n = held.prog /\ pc \in ProgLines
    /\ fd[n] = "socket" => \/ pc \in PairLines /\ n \in {held.write, held.read}
                           \/ pc \in {"answer", "last"} /\ n = held.read

(* A filter that was not attached holds no sockets. *)
RefusedHoldsNone ==
  ~Ebpf /\ pc \in {"disable", "collect", "record", "valid", "enqueue", "verified"} /\ ~res.valid
    => held = NoFds

(* What an eBPF loop thinks it holds is what it opened. *)
HeldAreOpen ==
  Ebpf =>
  /\ pc \in MapLines => held.map = -1 \/ fd[held.map] = "map"
  /\ pc = "load" => held.prog = -1
  /\ pc \in ProgLines => held.prog = -1 \/ fd[held.prog] = "prog"
  /\ pc = "shut" => /\ held.write \in Fds /\ fd[held.write] = "socket"
                    /\ held.read # held.write
  /\ pc \in {"shut", "last"} => held.read \in Fds /\ fd[held.read] = "socket"

Descriptors ==
  /\ pc \in Lines /\ OpenAreHeld /\ RefusedHoldsNone /\ HeldAreOpen /\ EbpfLeavesOthersAlone

(* What is in the buffer at which line: between a load and get_coverage    *)
(* what the load covered, otherwise no more than the noise of an ioctl.    *)
CoverageLines == IF Ebpf THEN {"collect"} ELSE {"disable", "collect"}
CoveredLines == IF Ebpf THEN {"disable", "record"} ELSE {"record"}
TracedLines == {"map", "load", "pair", "attach"}

Own == ToSet(Trace[prog])
Fits == Len(Noise) + Len(Trace[prog]) <= BufferSize

Quiet == Len(buffer) <= Len(Noise) /\ ToSet(buffer) \subseteq ToSet(Noise)

BufferIs ==
  /\ pc = "enable" => ~enabled
  /\ pc \in TracedLines /\ enabled => kcov = "tracing"
  /\ Len(buffer) <= BufferSize
  /\ pc \notin CoverageLines \/ ~enabled => Quiet
  /\ Ebpf /\ pc = "disable" /\ enabled => buffer = <<>>
  /\ ToSet(buffer) \subseteq ToSet(Noise) \union Own

Collected ==
  /\ (pc \in CoverageLines /\ enabled /\ res.valid /\ Fits) => Own \subseteq ToSet(buffer)
  /\ pc \in CoverageLines => res.cov = {} /\ res.collected = FALSE
  /\ pc \in CoveredLines => res.collected = enabled /\ (~enabled => res.cov = {})
  /\ (pc \in CoveredLines /\ enabled /\ res.valid /\ Fits) => Own \subseteq res.cov
  /\ res # NoResult => res.cov \subseteq Own \union ToSet(Noise)

Buffers == BufferIs /\ Collected

-----------------------------------------------------------------------------
\* Two descriptors for a socket pair.
LEMMA PairTaken ==
  ASSUME MaxFds \in Nat, ~(Cardinality(Free) < 2), SocketPair \/ ExecPair
  PROVE  \E w, r \in Fds :
           /\ w # r /\ fd[w] = "free" /\ fd[r] = "free"
           /\ fd' = [fd EXCEPT ![w] = "socket", ![r] = "socket"]
           /\ held' = [held EXCEPT !.write = w, !.read = r]
<1> DEFINE w == Min(Free)
           r == Min(Free \ {w})
<1>1. w \in Free /\ w \in Fds /\ r \in Free \ {w} /\ r \in Fds
  BY NextFree
<1>2. /\ fd' = [fd EXCEPT ![w] = "socket", ![r] = "socket"]
      /\ held' = [held EXCEPT !.write = w, !.read = r]
  BY DEF SocketPair, ExecPair
<1> HIDE DEF w, r
<1> QED BY <1>1, <1>2 DEF Free

LEMMA NoSuchFd == -1 \notin Fds
BY DEF Fds

LEMMA DescriptorsLoop ==
  ASSUME LoopTyped, Descriptors, Loop
  PROVE  Descriptors'
<1> USE Sizes, HeldFds, NoSuchFd
    DEF LoopTyped, Descriptors, Lines, OpenAreHeld, RefusedHoldsNone, HeldAreOpen,
        EbpfLeavesOthersAlone, MapLines, ProgLines, PairLines, Ebpf, Free, Goto
<1>1. CASE InitKcov
  <2>1. /\ pc = "init" /\ pc' = "head" /\ UNCHANGED <<strategy, others, res, held>>
        /\ fd' = fd \/ (Free # {} /\ fd' = [fd EXCEPT ![Min(Free)] = "kcov"])
    BY <1>1 DEF InitKcov
  <2> QED BY <2>1, LowestFree
<1>2. CASE Generate
  BY <1>2 DEF Generate, NoFds
<1>3. CASE IsFuzzingDone \/ CleanupKcov
  BY <1>3 DEF IsFuzzingDone, CleanupKcov
<1>4. CASE Enable
  BY <1>4 DEF Enable, NoFds
<1>5. CASE CreateMap
  BY <1>5, LowestFree DEF CreateMap, Open, NoFds
<1>6. CASE LoadProgram
  <2> USE <1>6
  <2>1. CASE UNCHANGED fd /\ (held' = held \/ held' = [held EXCEPT !.prog = -1])
    BY <2>1 DEF LoadProgram, Open
  <2>2. CASE \E n \in Fds : /\ fd[n] = "free" /\ fd' = [fd EXCEPT ![n] = "prog"]
                            /\ held' = [held EXCEPT !.prog = n]
    <3> PICK n \in Fds : /\ fd[n] = "free" /\ fd' = [fd EXCEPT ![n] = "prog"]
                         /\ held' = [held EXCEPT !.prog = n]
      BY <2>2
    <3> QED BY DEF LoadProgram, Open
  <2> QED BY <2>1, <2>2, LowestFree DEF LoadProgram, Open
<1>7. CASE SocketPair
  <2>1. CASE Cardinality(Free) < 2
    BY <1>7, <2>1 DEF SocketPair, NoFds
  <2>2. CASE ~(Cardinality(Free) < 2)
    <3> PICK w \in Fds, r \in Fds :
           /\ w # r /\ fd[w] = "free" /\ fd[r] = "free"
           /\ fd' = [fd EXCEPT ![w] = "socket", ![r] = "socket"]
           /\ held' = [held EXCEPT !.write = w, !.read = r]
      BY <1>7, <2>2, PairTaken
    <3> QED BY <1>7, <2>2 DEF SocketPair, NoFds
  <2> QED BY <2>1, <2>2
<1>8. CASE AttachFilter
  <2>1. CASE prog \in Accepted
    <3>1. res'.valid = TRUE /\ UNCHANGED <<fd, held, strategy, others>> /\ pc = "attach" /\ pc' = "disable"
      BY <1>8, <2>1 DEF AttachFilter, Result
    <3> QED BY <3>1
  <2>2. CASE prog \notin Accepted
    <3>1. /\ fd' = [n \in Fds |-> IF n \in {held.write, held.read} THEN "free" ELSE fd[n]]
          /\ held' = NoFds /\ UNCHANGED <<strategy, others>> /\ pc = "attach" /\ pc' = "disable"
      BY <1>8, <2>2 DEF AttachFilter
    <3> QED BY <3>1
  <2> QED BY <2>1, <2>2
<1>9. CASE GetCoverage
  <2>1. res'.valid = res.valid
    BY <1>9 DEF GetCoverage, Results, Loaded
  <2> QED BY <1>9, <2>1 DEF GetCoverage
<1>10. CASE Disable
  BY <1>10 DEF Disable
<1>11. CASE Record \/ CountValid \/ QueueResult
  BY <1>11 DEF Record, CountValid, QueueResult
<1>12. CASE OnVerifyDone
  <2>1. CASE UNCHANGED fd /\ pc' = (IF Ebpf THEN "pairs" ELSE "inject")
    BY <1>12, <2>1 DEF OnVerifyDone
  <2>2. CASE Ebpf /\ Close(held.prog, "closemap")
    <3>1. /\ pc = "verified" /\ pc' = "closemap" /\ UNCHANGED <<held, strategy, others, res>>
         /\ \A m \in Fds : fd'[m] = IF m = held.prog THEN "free" ELSE fd[m]
      BY <1>12, <2>2 DEF OnVerifyDone, Close, Closed
    <3>2. OpenAreHeld'
      BY <2>2, <3>1
    <3>3. HeldAreOpen' /\ RefusedHoldsNone' /\ pc' \in Lines'
      BY <2>2, <3>1
    <3>4. EbpfLeavesOthersAlone'
      <4>1. Ebpf /\ (held.prog = -1 \/ fd[held.prog] = "prog") /\ \A m \in others : m \in Fds /\ fd[m] = "other"
        BY <2>2, <3>1
      <4>2. ASSUME NEW m \in others PROVE fd'[m] = "other"
        BY <3>1, <4>1
      <4> QED BY <3>1, <4>2
    <3> QED BY <3>2, <3>3, <3>4
  <2>3. CASE ~Ebpf /\ ~res.valid /\ Close(0, "head")
    <3>1. /\ pc = "verified" /\ held = NoFds /\ pc' = "head" /\ UNCHANGED <<held, strategy, others, res>>
         /\ \A m \in Fds : fd'[m] = IF m = 0 THEN "free" ELSE fd[m]
      BY <1>12, <2>3 DEF OnVerifyDone, Close, Closed
    <3>2. OpenAreHeld'
      <4>1. held.write = -1 /\ held.read = -1
        BY <3>1 DEF NoFds
      <4> QED BY <2>3, <3>1, <4>1
    <3>3. HeldAreOpen' /\ RefusedHoldsNone' /\ pc' \in Lines'
      BY <2>3, <3>1
    <3>4. EbpfLeavesOthersAlone'
      BY <2>3, <3>1
    <3> QED BY <3>2, <3>3, <3>4
  <2> QED BY <1>12, <2>1, <2>2, <2>3 DEF OnVerifyDone
<1>13. CASE ExecPair
  <2>1. CASE Cardinality(Free) < 2
    BY <1>13, <2>1 DEF ExecPair
  <2>2. CASE ~(Cardinality(Free) < 2)
    <3> PICK w \in Fds, r \in Fds :
           /\ w # r /\ fd[w] = "free" /\ fd[r] = "free"
           /\ fd' = [fd EXCEPT ![w] = "socket", ![r] = "socket"]
           /\ held' = [held EXCEPT !.write = w, !.read = r]
      BY <1>13, <2>2, PairTaken
    <3> QED BY <1>13, <2>2 DEF ExecPair
  <2> QED BY <2>1, <2>2
<1>14. CASE CloseWrite \/ CloseRead \/ Sent
  BY <1>14 DEF CloseWrite, CloseRead, Sent, Close, Closed
<1>15. CASE Inject \/ ReadAnswer \/ OnExecuteDone
  BY <1>15 DEF Inject, ReadAnswer, OnExecuteDone
<1>16. CASE DeferredCloseProg
  <2>1. /\ pc = "closeprog" /\ pc' = "closemap" /\ UNCHANGED <<held, strategy, others, res>>
       /\ \A m \in Fds : fd'[m] = IF m = held.prog THEN "free" ELSE fd[m]
    BY <1>16 DEF DeferredCloseProg, Close, Closed
  <2>2. OpenAreHeld'
    BY <2>1
  <2>3. HeldAreOpen' /\ RefusedHoldsNone' /\ pc' \in Lines'
    BY <2>1
  <2>4. EbpfLeavesOthersAlone'
    <3>1. Ebpf /\ (held.prog = -1 \/ fd[held.prog] = "prog") /\ \A m \in others : m \in Fds /\ fd[m] = "other"
      BY <2>1
    <3>2. ASSUME NEW m \in others PROVE fd'[m] = "other"
      BY <2>1, <3>1
    <3> QED BY <2>1, <3>2
  <2> QED BY <2>2, <2>3, <2>4
<1>17. CASE CleanFdArray
  <2>1. /\ pc = "closemap" /\ pc' = "head" /\ UNCHANGED <<held, strategy, others, res>>
       /\ \A m \in Fds : fd'[m] = IF m = held.map THEN "free" ELSE fd[m]
    BY <1>17 DEF CleanFdArray, Close, Closed
  <2>2. OpenAreHeld'
    BY <2>1
  <2>3. HeldAreOpen' /\ RefusedHoldsNone' /\ pc' \in Lines'
    BY <2>1
  <2>4. EbpfLeavesOthersAlone'
    <3>1. Ebpf /\ (held.map = -1 \/ fd[held.map] = "map") /\ \A m \in others : m \in Fds /\ fd[m] = "other"
      BY <2>1
    <3>2. ASSUME NEW m \in others PROVE fd'[m] = "other"
      BY <2>1, <3>1
    <3> QED BY <2>1, <3>2
  <2> QED BY <2>2, <2>3, <2>4
<1>18. CASE ReadUnmapped
  BY <1>18 DEF ReadUnmapped
<1> QED BY <1>1, <1>2, <1>3, <1>4, <1>5, <1>6, <1>7, <1>8, <1>9, <1>10, <1>11, <1>12, <1>13,
           <1>14, <1>15, <1>16, <1>17, <1>18 DEF Loop

\* Another thread gets a free descriptor, and gives back what it got.
LEMMA DescriptorsOthers ==
  ASSUME LoopTyped, Descriptors, OtherOpens \/ OtherCloses
  PROVE  LoopTyped' /\ Descriptors'
<1> USE Sizes DEF LoopTyped, Uses, Ebpf, EbpfLeavesOthersAlone, Descriptors
<1>1. CASE OtherOpens
  <2> DEFINE w == Min(Free)
  <2>1. w \in Fds /\ fd[w] = "free"
    BY <1>1, LowestFree DEF OtherOpens, Free
  <2>2. /\ fd' = [fd EXCEPT ![w] = "other"] /\ others = {} /\ others' = {w}
        /\ UNCHANGED <<strategy, pc, kcov, mapped, buffer, enabled, prog, res, held, isFinished, generated, unlogged>>
    BY <1>1 DEF OtherOpens, kcovVars
  <2> HIDE DEF w
  <2>3. LoopTyped'
    <3>1. BufferTyped'
      BY <2>2 DEF BufferTyped
    <3> QED BY <2>1, <2>2, <3>1
  <2>4. pc' \in Lines' /\ OpenAreHeld' /\ RefusedHoldsNone' /\ HeldAreOpen'
    BY <2>1, <2>2 DEF Lines, OpenAreHeld, RefusedHoldsNone, HeldAreOpen, MapLines, ProgLines, PairLines
  <2>5. EbpfLeavesOthersAlone'
    BY <2>1, <2>2
  <2> QED BY <2>3, <2>4, <2>5
<1>2. CASE OtherCloses
  <2>1. PICK n \in others : fd' = Closed(n) /\ others' = others \ {n}
    BY <1>2 DEF OtherCloses
  <2>2. UNCHANGED <<strategy, pc, kcov, mapped, buffer, enabled, prog, res, held, isFinished, generated, unlogged>>
    BY <1>2 DEF OtherCloses, kcovVars
  <2>3. n \in Fds /\ fd' \in [Fds -> Uses] /\ \A m \in Fds : fd'[m] = IF m = n THEN "free" ELSE fd[m]
    BY <2>1 DEF Closed
  <2>4. LoopTyped'
    <3>1. BufferTyped'
      BY <2>2 DEF BufferTyped
    <3> QED BY <2>1, <2>2, <2>3, <3>1
  <2>5. Ebpf => fd[n] = "other"
    BY <2>1
  <2>6. pc' \in Lines' /\ OpenAreHeld' /\ RefusedHoldsNone'
    BY <2>2, <2>3 DEF Lines, OpenAreHeld, RefusedHoldsNone, MapLines, ProgLines, PairLines
  <2>7. HeldAreOpen'
    BY <2>2, <2>3, <2>5, HeldFds, NoSuchFd DEF HeldAreOpen, MapLines, ProgLines, PairLines
  <2>8. EbpfLeavesOthersAlone'
    BY <2>1, <2>2, <2>3
  <2> QED BY <2>4, <2>6, <2>7, <2>8
<1> QED BY <1>1, <1>2

LEMMA DescriptorsInit == Init => Descriptors
BY DEF Init, Descriptors, Lines, OpenAreHeld, RefusedHoldsNone, HeldAreOpen, EbpfLeavesOthersAlone, MapLines, ProgLines,
       PairLines

(* The goroutines and handlers of the metrics touch nothing of the loop.   *)
DescriptorsInv == Typed /\ Descriptors

LEMMA DescriptorsInvStep == DescriptorsInv /\ [Next]_vars => DescriptorsInv'
<1> SUFFICES ASSUME DescriptorsInv, [Next]_vars PROVE DescriptorsInv'
  OBVIOUS
<1> USE DEF DescriptorsInv, Typed
<1>1. CASE Loop
  <2>1. MetricsTyped'
    BY <1>1, LoopRecords, RecordsStayTyped
  <2> QED BY <1>1, <2>1, LoopStaysTyped, DescriptorsLoop
<1>2. CASE (Worker \/ Http) /\ UNCHANGED loopVars
  <2>1. LoopTyped' /\ Descriptors'
    BY <1>2 DEF loopVars, kcovVars, BufferTyped, LoopTyped, Descriptors, Lines, OpenAreHeld, RefusedHoldsNone, HeldAreOpen,
                EbpfLeavesOthersAlone, MapLines, ProgLines, PairLines, Ebpf
  <2> QED BY <1>2, <2>1, MetricsStayTyped
<1>3. CASE OtherOpens \/ OtherCloses
  <2>1. UNCHANGED metricVars
    BY <1>3 DEF OtherOpens, OtherCloses
  <2> QED BY <1>3, <2>1, RecordsStayTyped, DescriptorsOthers
<1>4. CASE UNCHANGED vars
  <2>1. LoopTyped' /\ Descriptors'
    BY <1>4 DEF vars, loopVars, kcovVars, BufferTyped, LoopTyped, Descriptors, Lines, OpenAreHeld, RefusedHoldsNone, HeldAreOpen,
                EbpfLeavesOthersAlone, MapLines, ProgLines, PairLines, Ebpf
  <2>2. MetricsTyped'
    BY <1>4, RecordsStayTyped DEF vars
  <2> QED BY <2>1, <2>2
<1> QED BY <1>1, <1>2, <1>3, <1>4 DEF Next

LEMMA DescriptorsInvariant == Spec => []DescriptorsInv
<1>1. Init => DescriptorsInv
  BY TypedInit, DescriptorsInit DEF DescriptorsInv
<1> QED BY <1>1, DescriptorsInvStep, PTL DEF Spec

(* The ranges of the variables of the loop and of the metrics. *)
THEOREM BuzzerTypes == Spec => []TypeOK
<1>1. DescriptorsInv => TypeOK
  BY TypedTypes DEF DescriptorsInv
<1> QED BY <1>1, DescriptorsInvariant, PTL

(* An eBPF run closes no descriptor of another thread, however its opens,  *)
(* loads and executions fail.                                              *)
THEOREM EbpfIsPolite == Spec => []EbpfLeavesOthersAlone
<1>1. DescriptorsInv => EbpfLeavesOthersAlone
  BY DEF DescriptorsInv, Descriptors
<1> QED BY <1>1, DescriptorsInvariant, PTL

(* No descriptor of a program outlives its turn of the loop.               *)
THEOREM LoopLeaksNothing == Spec => []NothingLeaks
<1>1. DescriptorsInv => NothingLeaks
  BY DEF DescriptorsInv, Descriptors, OpenAreHeld, NothingLeaks, MapLines, ProgLines, PairLines
<1> QED BY <1>1, DescriptorsInvariant, PTL

-----------------------------------------------------------------------------
\* The buffer is empty or holds noise when a load begins, so that what is
\* collected after it is of this program.
LEMMA Loads ==
  ASSUME LoopTyped, Quiet, Len(buffer) <= BufferSize, kcov = "tracing" <=> enabled
  PROVE  /\ Len(Traced) <= BufferSize
         /\ ~enabled => Traced = buffer
         /\ ToSet(Traced) \subseteq ToSet(Noise) \union Own
         /\ enabled /\ Fits => Own \subseteq ToSet(Traced)
<1>1. buffer \in Seq(Addresses) /\ Trace[prog] \in Seq(Addresses) /\ Noise \in Seq(Addresses)
  BY BuzzerAssumption DEF LoopTyped, BufferTyped
<1>2. CASE ~enabled
  BY <1>2 DEF Traced, Quiet
<1>3. CASE enabled
  <2>1. Traced = Cut(buffer \o Trace[prog])
    BY <1>3 DEF Traced
  <2>2. Fits => Len(buffer) + Len(Trace[prog]) <= BufferSize
    BY <1>1, BuzzerAssumption DEF Fits, Quiet
  <2> QED BY <1>1, <1>3, <2>1, <2>2, CutIs DEF Own, Quiet
<1> QED BY <1>2, <1>3

LEMMA BuffersLoop ==
  ASSUME LoopTyped, pc \in Lines, Buffers, Loop
  PROVE  Buffers'
<1> USE DEF Lines, Buffers, BufferIs, Collected, CoverageLines, CoveredLines, TracedLines,
        Own, Fits, Quiet, Ebpf, Goto, kcovVars
<1>0. /\ buffer \in Seq(Addresses) /\ Noise \in Seq(Addresses) /\ Trace[prog] \in Seq(Addresses)
      /\ pc \in Unloaded => res = NoResult
      /\ pc \in Loaded => res \in Results
  BY BuzzerAssumption DEF LoopTyped, BufferTyped
<1>k. (kcov = "tracing" => enabled) /\ enabled \in BOOLEAN
  BY DEF LoopTyped, BufferTyped
<1>e. Len(<<>>) = 0 /\ ToSet(<<>>) = {}
  BY DEF ToSet
<1>1. CASE InitKcov
  BY <1>1 DEF InitKcov, Unloaded
<1>2. CASE Generate
  <2>1. /\ res' = NoResult /\ enabled' = FALSE /\ pc = "head" /\ pc' = "enable" /\ NoResult = res'
        /\ UNCHANGED <<strategy, kcov, buffer>>
    BY <1>2 DEF Generate
  <2>2. Quiet
    BY <2>1
  <2> QED BY <2>1, <2>2
<1>3. CASE IsFuzzingDone
  BY <1>3 DEF IsFuzzingDone
<1>4. CASE CleanupKcov
  <2>1. /\ pc = "cleanup" /\ pc' = "done" /\ buffer' = <<>>
        /\ UNCHANGED <<strategy, enabled, prog, res>>
    BY <1>4 DEF CleanupKcov
  <2>2. Len(buffer') = 0 /\ ToSet(buffer') = {} /\ Len(Noise) \in Nat /\ BufferSize \in Nat
    BY <1>0, <1>e, <2>1, BuzzerAssumption
  <2> QED BY <2>1, <2>2
<1>5. CASE Enable
  <2>1. /\ pc = "enable" /\ pc' \in {"map", "pair"} /\ res = NoResult
        /\ UNCHANGED <<strategy, buffer, prog, res>>
    BY <1>0, <1>5 DEF Enable, Unloaded
  <2>2. enabled' => kcov' = "tracing"
    BY <1>k, <1>5, <2>1 DEF Enable, LoopTyped
  <2>3. Quiet
    BY <2>1
  <2> QED BY <2>1, <2>2, <2>3
<1>6. CASE CreateMap
  BY <1>6 DEF CreateMap, Open
<1>7. CASE LoadProgram
  <2>1. /\ pc = "load" /\ pc' = "collect" /\ buffer' = Traced
        /\ UNCHANGED <<strategy, kcov, enabled, prog>>
    BY <1>7 DEF LoadProgram, Open
  <2>2. res'.cov = {} /\ res'.collected = FALSE
    BY <1>7 DEF LoadProgram, Result
  <2>3. kcov = "tracing" <=> enabled
    BY <1>k, <2>1
  <2> QED BY <2>1, <2>2, <2>3, Loads
<1>8. CASE SocketPair
  <2>1. /\ pc = "pair" /\ UNCHANGED <<strategy, kcov, enabled, prog, buffer>>
        /\ \/ pc' = "disable" /\ res' = Result(FALSE, NoLog)
           \/ pc' = "attach" /\ res' = res
    BY <1>8 DEF SocketPair
  <2> QED BY <1>0, <2>1 DEF Result, Unloaded
<1>9. CASE AttachFilter
  <2>1. /\ pc = "attach" /\ pc' = "disable" /\ buffer' = Traced
        /\ UNCHANGED <<strategy, kcov, enabled, prog>>
    BY <1>9 DEF AttachFilter
  <2>2. res'.cov = {} /\ res'.collected = FALSE
    BY <1>9 DEF AttachFilter, Result
  <2>3. kcov = "tracing" <=> enabled
    BY <1>k, <2>1
  <2> QED BY <2>1, <2>2, <2>3, Loads
<1>10. CASE GetCoverage
  <2>1. /\ pc = "collect" /\ pc' = (IF Ebpf THEN "disable" ELSE "record") /\ res \in Results
        /\ UNCHANGED <<strategy, kcov, enabled, prog>>
    BY <1>0, <1>10 DEF GetCoverage, Loaded
  <2>2. CASE enabled
    <3>1. /\ res'.cov = ToSet(buffer) /\ res'.collected = TRUE /\ res'.valid = res.valid
          /\ buffer' = <<>>
      BY <1>10, <2>1, <2>2 DEF GetCoverage, Results
    <3>2. Len(buffer') = 0 /\ ToSet(buffer') = {} /\ Len(Noise) \in Nat /\ BufferSize \in Nat
      BY <1>0, <1>e, <3>1, BuzzerAssumption
    <3>3. BufferIs'
      BY <2>1, <2>2, <3>1, <3>2
    <3>4. Collected'
      BY <2>1, <2>2, <3>1
    <3> QED BY <3>3, <3>4
  <2>3. CASE ~enabled
    <3>1. UNCHANGED <<res, buffer>>
      BY <1>10, <2>3 DEF GetCoverage
    <3>2. /\ Quiet /\ Len(buffer) <= BufferSize /\ res.cov = {} /\ res.collected = FALSE
          /\ enabled = FALSE
      BY <1>k, <2>1, <2>3
    <3>3. BufferIs'
      BY <2>1, <2>3, <3>1, <3>2
    <3>4. Collected'
      BY <2>1, <2>3, <3>1, <3>2
    <3> QED BY <3>3, <3>4
  <2> QED BY <2>2, <2>3
<1>11. CASE Disable
  <2>1. /\ pc = "disable" /\ pc' = (IF Ebpf THEN "record" ELSE "collect") /\ res \in Results
        /\ UNCHANGED <<strategy, enabled, prog, res>>
    BY <1>0, <1>11 DEF Disable, Loaded
  <2>2. CASE enabled
    <3>1. kcov' = "idle" /\ buffer' = Cut(buffer \o Noise)
      BY <1>11, <2>2 DEF Disable
    <3>2. /\ Len(buffer') <= BufferSize /\ Len(buffer') <= Len(buffer) + Len(Noise)
          /\ ToSet(buffer') \subseteq ToSet(buffer) \union ToSet(Noise)
          /\ ToSet(buffer) \subseteq ToSet(buffer')
      BY <1>0, <3>1, CutIs
    <3>3. CASE Ebpf
      <4>1. buffer = <<>>
        BY <2>1, <2>2, <3>3
      <4>2. Len(buffer') <= Len(Noise) /\ ToSet(buffer') \subseteq ToSet(Noise)
        BY <1>0, <1>e, <3>2, <4>1
      <4>3. BufferIs'
        BY <2>1, <2>2, <3>2, <3>3, <4>2
      <4>4. Collected'
        BY <2>1, <2>2, <3>3
      <4> QED BY <4>3, <4>4
    <3>4. CASE ~Ebpf
      BY <2>1, <2>2, <3>1, <3>2, <3>4
    <3> QED BY <3>3, <3>4
  <2>3. CASE ~enabled
    <3>1. UNCHANGED <<kcov, buffer>>
      BY <1>11, <2>3 DEF Disable
    <3> QED BY <2>1, <2>3, <3>1
  <2> QED BY <2>2, <2>3
<1>12. CASE Record \/ CountValid \/ QueueResult
  BY <1>12 DEF Record, CountValid, QueueResult
<1>13. CASE OnVerifyDone \/ ExecPair
  BY <1>13 DEF OnVerifyDone, ExecPair, Close
<1>14. CASE CloseWrite \/ CloseRead \/ Sent \/ Inject \/ ReadAnswer
  BY <1>14 DEF CloseWrite, CloseRead, Sent, Close, Inject, ReadAnswer
<1>15. CASE OnExecuteDone \/ DeferredCloseProg \/ CleanFdArray
  BY <1>15 DEF OnExecuteDone, DeferredCloseProg, CleanFdArray, Close
<1>16. CASE ReadUnmapped
  <2>1. /\ pc = "collect" /\ pc' = "done" /\ buffer' = <<>> /\ enabled' = FALSE
        /\ UNCHANGED <<strategy, prog, res>>
    BY <1>16 DEF ReadUnmapped
  <2>2. Len(buffer') = 0 /\ ToSet(buffer') = {} /\ Len(Noise) \in Nat /\ BufferSize \in Nat
    BY <1>0, <1>e, <2>1, BuzzerAssumption
  <2> QED BY <2>1, <2>2
<1> QED BY <1>1, <1>2, <1>3, <1>4, <1>5, <1>6, <1>7, <1>8, <1>9, <1>10, <1>11, <1>12, <1>13, <1>14, <1>15, <1>16 DEF Loop

BuffersInv == DescriptorsInv /\ Buffers

LEMMA BuffersInvStep == BuffersInv /\ [Next]_vars => BuffersInv'
<1> SUFFICES ASSUME BuffersInv, [Next]_vars PROVE Buffers'
  BY DescriptorsInvStep DEF BuffersInv
<1> USE DEF BuffersInv, DescriptorsInv, Descriptors, Typed
<1>1. CASE Loop
  BY <1>1, BuffersLoop
<1>2. CASE UNCHANGED <<strategy, pc, kcov, buffer, enabled, prog, res>>
  BY <1>2 DEF Buffers, BufferIs, Collected, CoverageLines, CoveredLines, TracedLines, Own, Fits, Quiet, Ebpf
<1> QED BY <1>1, <1>2 DEF Next, OtherOpens, OtherCloses, vars, loopVars, kcovVars

LEMMA BuffersInvariant == Spec => []BuffersInv
<1>1. Init => BuffersInv
  <2>1. Len(<<>>) = 0 /\ ToSet(<<>>) = {} /\ Len(Noise) \in Nat /\ BufferSize \in Nat
    BY BuzzerAssumption DEF ToSet
  <2> QED BY <2>1, TypedInit, DescriptorsInit
          DEF Init, DescriptorsInv, BuffersInv, Buffers, BufferIs, Collected, CoverageLines, CoveredLines,
              TracedLines, Quiet
<1> QED BY <1>1, BuffersInvStep, PTL DEF Spec

(* What is reported of a program is its own coverage, although every       *)
(* program is traced into the same buffer: there is some exactly where the *)
(* tracing was enabled, and a valid program's is whole if it fits.         *)
THEOREM ReportedCoverageIsOwn == Spec => []CoverageIsOwn
<1>1. BuffersInv => CoverageIsOwn
  BY DEF BuffersInv, Buffers, Collected, CoverageIsOwn, CoveredLines, Own, Fits
<1> QED BY <1>1, BuffersInvariant, PTL

-----------------------------------------------------------------------------
(* The verdicts: what is on its way to be counted. *)
Refused == {r \in Results : Explained(r)}

Recorded == pc = "valid" => res.valid

InQueue == Cardinality(Marked(queue, Refused))
Working == IF inHand \in Refused THEN 1 ELSE 0
Coming == IF pc = "valid" \/ (pc = "enqueue" /\ res \in Refused) THEN 1 ELSE 0

AddUp ==
  programsVerified = validPrograms + unlogged + SumOf(verdicts, Logs) + InQueue + Working + Coming

Verdicts == DescriptorsInv /\ Recorded /\ AddUp

(* The property counts the same things. *)
LEMMA VerdictsCount ==
  ASSUME DescriptorsInv
  PROVE  /\ SumOf(verdicts, Logs) \in Nat /\ InQueue \in Nat /\ Working \in Nat /\ Coming \in Nat
         /\ AddUp => VerdictsAddUp
<1> USE DEF DescriptorsInv, Typed, MetricsTyped
<1>0. unlogged \in Nat
  BY DEF LoopTyped, BufferTyped
<1>1. SumOf(verdicts, Logs) \in Nat
  <2>1. \A l \in Logs : verdicts[l] \in Nat
    OBVIOUS
  <2> QED BY <2>1, MetricsAssumption, SumIsCells
<1>2. InQueue \in Nat
  BY MarkedFinite DEF InQueue
<1>3. Marked(queue, Refused) = {i \in DOMAIN queue : Explained(queue[i])}
  BY DEF Marked, Refused
<1>4. Working = IF inHand # NoResult /\ Explained(inHand) THEN 1 ELSE 0
  BY MetricsAssumption DEF Working, Refused
<1>5. Coming = IF pc = "valid" \/ (pc = "enqueue" /\ Explained(res)) THEN 1 ELSE 0
  BY DEF Coming, Refused, LoopTyped, Loaded
<1>6. SumOf(verdicts, Logs) = MapThenSumSet(LAMBDA l : verdicts[l], Logs)
  BY DEF SumOf
<1>7. Working \in Nat /\ Coming \in Nat /\ programsVerified \in Nat /\ validPrograms \in Nat
  BY DEF Working, Coming
<1>8. AddUp => VerdictsAddUp
  BY <1>0, <1>1, <1>2, <1>3, <1>4, <1>5, <1>6, <1>7 DEF AddUp, VerdictsAddUp, InQueue
<1> QED BY <1>1, <1>2, <1>7, <1>8

LEMMA VerdictsInit == Init => Verdicts
<1> SUFFICES ASSUME Init PROVE Recorded /\ AddUp
  BY TypedInit, DescriptorsInit DEF Verdicts, DescriptorsInv
<1>1. Recorded
  BY DEF Init, MetricsInit, Recorded
<1>2. Marked(queue, Refused) = {} /\ InQueue = 0
  BY FS_EmptySet DEF Init, MetricsInit, Marked, InQueue
<1>3. Working = 0 /\ Coming = 0 /\ programsVerified = 0 /\ validPrograms = 0 /\ unlogged = 0
  BY MetricsAssumption DEF Init, MetricsInit, Working, Coming, Refused
<1>4. SumOf(verdicts, Logs) = 0
  <2>1. \A l \in Logs : verdicts[l] = 0
    BY DEF Init, MetricsInit
  <2>2. Cells(verdicts, Logs) = {}
    BY <2>1 DEF Cells
  <2> QED BY <2>1, <2>2, MetricsAssumption, SumIsCells, FS_EmptySet
<1> QED BY <1>1, <1>2, <1>3, <1>4 DEF AddUp

\* The goroutine takes the oldest result, and counts it when it is done.
LEMMA VerdictsWorker ==
  ASSUME Verdicts, Worker, UNCHANGED loopVars
  PROVE  Recorded' /\ AddUp'
<1> USE DEF Verdicts, DescriptorsInv, Typed, MetricsTyped
<1>0. /\ unlogged' = unlogged /\ Coming' = Coming /\ unlogged \in Nat
      /\ SumOf(verdicts, Logs) \in Nat /\ InQueue \in Nat /\ Working \in Nat /\ Coming \in Nat
  BY VerdictsCount DEF loopVars, Coming, LoopTyped, BufferTyped
<1>1. CASE Dequeue
  <2>1. /\ queue # <<>> /\ inHand = NoResult /\ inHand' = Head(queue) /\ queue' = Tail(queue)
        /\ UNCHANGED <<programsVerified, validPrograms, verdicts>>
    BY <1>1 DEF Dequeue
  <2>2. Working = 0
    BY <2>1, MetricsAssumption DEF Working, Refused
  <2>3. InQueue = InQueue' + Working'
    BY <2>1, MarkedTail DEF InQueue, Working
  <2>4. AddUp'
    <3>1. InQueue' \in Nat
      <4>1. queue' \in Seq(Results)
        BY <2>1
      <4>2. Cardinality(Marked(queue', Refused)) \in Nat
        BY <4>1, MarkedFinite
      <4> QED BY <4>2 DEF InQueue
    <3>2. Working' \in Nat
      BY DEF Working
    <3> QED BY <1>0, <2>1, <2>2, <2>3, <3>1, <3>2 DEF AddUp
  <2>5. Recorded'
    BY DEF Recorded, loopVars
  <2> QED BY <2>4, <2>5
<1>2. CASE CountCoverage \/ Addr2Line \/ RecordLine \/ LinesDone
  <2>1. UNCHANGED <<queue, inHand, programsVerified, validPrograms, verdicts>>
    BY <1>2 DEF CountCoverage, Addr2Line, RecordLine, LinesDone, data
  <2> QED BY <1>0, <2>1 DEF AddUp, InQueue, Working, Recorded, loopVars
<1>3. CASE ProcessLog
  <2>1. /\ inHand \in Results /\ inHand' = NoResult /\ Working' = 0
        /\ UNCHANGED <<queue, programsVerified, validPrograms>>
    BY <1>3, MetricsAssumption DEF ProcessLog, Working, Refused
  <2>2. SumOf(verdicts', Logs) = SumOf(verdicts, Logs) + Working
    <3>1. CASE inHand \in Refused
      <4> DEFINE l == inHand.log
      <4>1. l \in Logs /\ l # NoLog
        BY <3>1 DEF Refused, Explained, Results
      <4>2. verdicts' = [verdicts EXCEPT ![l] = @ + 1]
        BY <1>3, <3>1, <4>1 DEF ProcessLog, Refused, Explained
      <4> HIDE DEF l
      <4>3. /\ \A x \in Logs : verdicts[x] \in Nat
            /\ verdicts'[l] = verdicts[l] + 1 /\ \A x \in Logs \ {l} : verdicts'[x] = verdicts[x]
        BY <4>1, <4>2
      <4>4. \A x \in Logs : verdicts'[x] \in Nat
        BY <4>3, <4>1
      <4>5. SumOf(verdicts', Logs) = SumOf(verdicts, Logs) + 1
        BY <4>1, <4>3, <4>4, MetricsAssumption, SumIncrement
      <4> QED BY <3>1, <4>5 DEF Working
    <3>2. CASE inHand \notin Refused
      <4>1. verdicts' = verdicts
        BY <1>3, <2>1, <3>2 DEF ProcessLog, Refused, Explained
      <4>2. Working = 0
        BY <3>2 DEF Working
      <4> QED BY <1>0, <4>1, <4>2
    <3> QED BY <3>1, <3>2
  <2>3. AddUp'
    <3>1. InQueue' = InQueue
      BY <2>1 DEF InQueue
    <3> QED BY <1>0, <2>1, <2>2, <3>1 DEF AddUp
  <2>4. Recorded'
    BY DEF Recorded, loopVars
  <2> QED BY <2>3, <2>4
<1> QED BY <1>1, <1>2, <1>3 DEF Worker

LEMMA VerdictsLoop ==
  ASSUME Verdicts, Loop
  PROVE  Recorded' /\ AddUp'
<1> USE DEF Verdicts, DescriptorsInv, Typed, MetricsTyped
<1>0. /\ SumOf(verdicts, Logs) \in Nat /\ InQueue \in Nat /\ Working \in Nat /\ Coming \in Nat
      /\ unlogged \in Nat
  BY VerdictsCount DEF LoopTyped, BufferTyped
<1>1. CASE Record
  <2>1. /\ pc = "record" /\ pc' = (IF res.valid THEN "valid" ELSE "enqueue")
        /\ programsVerified' = programsVerified + 1
        /\ unlogged' = unlogged + (IF res.valid \/ res.log # NoLog THEN 0 ELSE 1)
        /\ UNCHANGED <<queue, inHand, validPrograms, verdicts, res>>
    BY <1>1 DEF Record, RecordVerified, Goto
  <2>2. res \in Results
    BY <2>1 DEF LoopTyped, Loaded
  <2>3. Coming = 0 /\ unlogged' + Coming' = unlogged + 1
    BY <1>0, <2>1, <2>2 DEF Coming, Refused, Explained
  <2>4. InQueue' = InQueue /\ Working' = Working /\ unlogged' \in Nat /\ Coming' \in Nat
    BY <1>0, <2>1 DEF InQueue, Working, Coming
  <2>5. AddUp'
    <3>1. CASE unlogged' = unlogged /\ Coming' = 1
      BY <1>0, <2>1, <2>3, <2>4, <3>1 DEF AddUp
    <3>2. CASE unlogged' = unlogged + 1 /\ Coming' = 0
      BY <1>0, <2>1, <2>3, <2>4, <3>2 DEF AddUp
    <3>3. CASE res.valid \/ res.log # NoLog
      <4>1. unlogged' = unlogged /\ Coming' = 1
        BY <1>0, <2>1, <2>2, <3>3 DEF Coming, Refused, Explained
      <4> QED BY <3>1, <4>1
    <3>4. CASE ~res.valid /\ res.log = NoLog
      <4>1. unlogged' = unlogged + 1 /\ Coming' = 0
        BY <1>0, <2>1, <2>2, <3>4 DEF Coming, Refused, Explained
      <4> QED BY <3>2, <4>1
    <3> QED BY <2>2, <3>3, <3>4 DEF Results
  <2>6. Recorded'
    BY <2>1 DEF Recorded
  <2> QED BY <2>5, <2>6
<1>2. CASE CountValid
  <2>1. /\ pc = "valid" /\ pc' = "enqueue" /\ res.valid
        /\ validPrograms' = validPrograms + 1
        /\ UNCHANGED <<queue, inHand, programsVerified, verdicts, res, unlogged>>
    BY <1>2 DEF CountValid, RecordValid, Goto, Recorded
  <2>2. Coming = 1 /\ Coming' = 0
    BY <2>1 DEF Coming, Refused, Explained
  <2>3. InQueue' = InQueue /\ Working' = Working
    BY <2>1 DEF InQueue, Working
  <2>4. AddUp'
    BY <1>0, <2>1, <2>2, <2>3 DEF AddUp
  <2>5. Recorded'
    BY <2>1 DEF Recorded
  <2> QED BY <2>4, <2>5
<1>3. CASE QueueResult
  <2>1. /\ pc = "enqueue" /\ pc' = "verified" /\ queue' = Append(queue, res)
        /\ UNCHANGED <<inHand, programsVerified, validPrograms, verdicts, res, unlogged>>
    BY <1>3 DEF QueueResult, Enqueue, Goto
  <2>2. res \in Results
    BY <2>1 DEF LoopTyped, Loaded
  <2>3. InQueue' = InQueue + Coming /\ Coming' = 0
    <3>1. InQueue' = InQueue + IF res \in Refused THEN 1 ELSE 0
      BY <2>1, <2>2, MarkedAppend DEF InQueue
    <3> QED BY <2>1, <3>1 DEF Coming
  <2>4. Working' = Working
    BY <2>1 DEF Working
  <2>5. AddUp'
    BY <1>0, <2>1, <2>3, <2>4 DEF AddUp
  <2>6. Recorded'
    BY <2>1 DEF Recorded
  <2> QED BY <2>5, <2>6
<1>4. CASE /\ UNCHANGED metricVars /\ UNCHANGED unlogged
           /\ pc \notin {"valid", "enqueue"} /\ pc' \notin {"valid", "enqueue"}
  <2>1. InQueue' = InQueue /\ Working' = Working /\ Coming' = 0 /\ Coming = 0
    BY <1>4 DEF InQueue, Working, Coming, metricVars
  <2>2. AddUp'
    BY <1>0, <1>4, <2>1 DEF AddUp, metricVars
  <2>3. Recorded'
    BY <1>4 DEF Recorded
  <2> QED BY <2>2, <2>3
<1>5. CASE LoadProgram \/ GetCoverage \/ ReadUnmapped \/ SocketPair \/ AttachFilter \/ Disable
  BY <1>4, <1>5 DEF LoadProgram, GetCoverage, ReadUnmapped, SocketPair, AttachFilter, Disable, Open, Goto
<1>6. CASE InitKcov \/ Generate \/ IsFuzzingDone \/ CleanupKcov \/ Enable \/ CreateMap
  BY <1>4, <1>6 DEF InitKcov, Generate, IsFuzzingDone, CleanupKcov, Enable, CreateMap, Open, Goto
<1>7. CASE \/ OnVerifyDone \/ ExecPair \/ CloseWrite \/ CloseRead \/ Inject \/ Sent \/ ReadAnswer
           \/ OnExecuteDone \/ DeferredCloseProg \/ CleanFdArray
  BY <1>4, <1>7 DEF OnVerifyDone, ExecPair, CloseWrite, CloseRead, Inject, Sent, ReadAnswer,
                    OnExecuteDone, DeferredCloseProg, CleanFdArray, Close, Goto
<1> QED BY <1>1, <1>2, <1>3, <1>5, <1>6, <1>7 DEF Loop

LEMMA VerdictsStep == Verdicts /\ [Next]_vars => Verdicts'
<1> SUFFICES ASSUME Verdicts, [Next]_vars PROVE Recorded' /\ AddUp'
  BY DescriptorsInvStep DEF Verdicts
<1>1. CASE Loop
  BY <1>1, VerdictsLoop
<1>2. CASE Worker /\ UNCHANGED loopVars
  BY <1>2, VerdictsWorker
<1>3. CASE UNCHANGED <<queue, inHand, programsVerified, validPrograms, verdicts, unlogged, pc, res>>
  BY <1>3 DEF Verdicts, Recorded, AddUp, InQueue, Working, Coming
<1>4. CASE Http /\ UNCHANGED loopVars
  BY <1>3, <1>4 DEF Http, Answer, GetIndex, GetGraph, GetErrors, IndexDone, LockHistory, UnlockHistory,
                    PageDone, data, loopVars
<1>5. CASE OtherOpens \/ OtherCloses \/ UNCHANGED vars
  BY <1>3, <1>5 DEF OtherOpens, OtherCloses, vars, loopVars, metricVars
<1> QED BY <1>1, <1>2, <1>4, <1>5 DEF Next

(* No verdict that has a log is lost or counted twice on its way from the  *)
(* loop through the queue and the goroutine into the statistics, and none  *)
(* without a log is counted.                                               *)
THEOREM EveryVerdictIsSomewhere == Spec => []VerdictsAddUp
<1>1. Verdicts => VerdictsAddUp
  BY VerdictsCount DEF Verdicts
<1> QED BY <1>1, VerdictsInit, VerdictsStep, PTL DEF Spec
=============================================================================
