--------------------------- MODULE VmWatchdogProofs ---------------------------
(***************************************************************************)
(* Theorems about VmWatchdog, for any number of dogs, process ids and      *)
(* failures.                                                               *)
(***************************************************************************)
EXTENDS VmWatchdog, TLAPS

Up(p) == vm[p] \in {"booting", "ready", "hung"}

(* What makes NamedByPidFile inductive when nobody overlaps: one actor is  *)
(* busy, a dog about to kill holds the only QEMU that is up, and a dog     *)
(* about to remove the file has killed it.                                 *)
Alone ==
  /\ \A a, b \in Actors : Busy(a) /\ Busy(b) => a = b
  /\ \A d \in Dogs : pc[d] = "kill" => \A p \in Pids : Up(p) => got[d] = p
  /\ \A d \in Dogs : pc[d] = "rm" => \A p \in Pids : ~Up(p)

Inv == TypeOK /\ (~overlapped => Alone /\ NamedByPidFile)

LEMMA InitInv == Init => Inv
<1> SUFFICES ASSUME Init PROVE Inv
  OBVIOUS
<1>1. \A a \in Actors : pc[a] \in {"new", "idle"}
  BY DEF Init
<1>2. \A p \in Pids : vm[p] = "off"
  BY DEF Init
<1>3. TypeOK
  <2>1. vm \in [Pids -> States] /\ got \in [Actors -> Pids \union {NoPid}]
    BY DEF Init, States
  <2>2. pc \in [Actors -> Labels]
    BY DEF Init, Labels
  <2>3. \A d \in Dogs : pc[d] # "kill"
    BY <1>1 DEF Actors
  <2>4. faults \in 0 .. MaxFaults
    BY VmAssumption DEF Init
  <2>5. overlapped \in BOOLEAN /\ pidFile \in Pids \union {NoPid}
    BY Zenon DEF Init
  <2> QED BY <2>1, <2>2, <2>3, <2>4, <2>5 DEF TypeOK
<1>4. Alone /\ NamedByPidFile
  BY <1>1, <1>2 DEF Alone, NamedByPidFile, Up, Busy, Actors
<1> QED BY <1>3, <1>4 DEF Inv

(* A step of a dog or of the session that moves it keeps the types. *)
LEMMA NextType ==
  ASSUME TypeOK, [Next]_vars
  PROVE  TypeOK'
<1>0. /\ Dogs \subseteq Actors /\ Bench \in Actors /\ NoPid \notin Pids /\ Bench \notin Dogs
      /\ \A f : f < MaxFaults /\ f \in 0 .. MaxFaults => f + 1 \in 0 .. MaxFaults
  BY VmAssumption DEF Actors
<1> USE DEF TypeOK, Goto, Begin, Fault, Labels, States
<1>1. CASE UNCHANGED vars
  BY <1>1 DEF vars
<1>2. ASSUME NEW d \in Dogs, Call(d) PROVE TypeOK'
  BY <1>0, <1>2 DEF Call
<1>3. ASSUME NEW d \in Dogs, Dog(d) PROVE TypeOK'
  <2>1. CASE ProbeOk(d) BY <1>0, <2>1 DEF ProbeOk
  <2>2. CASE ProbeFails(d) BY <1>0, <2>2 DEF ProbeFails
  <2>3. CASE TestPidFile(d) BY <1>0, <2>3 DEF TestPidFile
  <2>4. CASE ReadPid(d) BY <1>0, <2>4 DEF ReadPid
  <2>5. CASE Kill(d) BY <1>0, <2>5 DEF Kill, Terminated
  <2>6. CASE RemovePid(d) BY <1>0, <2>6 DEF RemovePid
  <2>7. CASE Timeout(d) BY <1>0, <2>7 DEF Timeout
  <2>8. CASE Chmod(d) BY <1>0, <2>8 DEF Chmod
  <2>9. CASE Boot(d)
    BY <1>0, <2>9 DEF Boot, CreateOverlay, StartQemu, StartFails, SshAnswers, MountEnds, BootFails, BootSucceeds
  <2> QED BY <1>3, <2>1, <2>2, <2>3, <2>4, <2>5, <2>6, <2>7, <2>8, <2>9 DEF Dog
<1>4. CASE Enter \/ Leave
  BY <1>0, <1>4 DEF Enter, Leave
<1>5. CASE Session
  <2>1. CASE PickPid BY <1>0, <2>1 DEF PickPid
  <2>2. CASE Signal BY <1>0, <2>2 DEF Signal, Terminated
  <2>3. CASE IsGone BY <1>0, <2>3 DEF IsGone
  <2>4. CASE Deadline BY <1>0, <2>4 DEF Deadline
  <2>5. CASE Boot(Bench)
    BY <1>0, <2>5 DEF Boot, CreateOverlay, StartQemu, StartFails, SshAnswers, MountEnds, BootFails, BootSucceeds
  <2> QED BY <1>5, <2>1, <2>2, <2>3, <2>4, <2>5 DEF Session
<1>6. ASSUME NEW p \in Pids, Qemu(p) \/ Fails(p) PROVE TypeOK'
  BY <1>0, <1>6 DEF Qemu, BootDone, Exit, Fails
<1> QED BY <1>1, <1>2, <1>3, <1>4, <1>5, <1>6 DEF Next

(* An actor that starts while another one is busy overlaps with it. *)
LEMMA BeginAlone ==
  ASSUME TypeOK, ~overlapped => Alone /\ NamedByPidFile, ~overlapped',
         NEW a \in Actors, NEW label \in Labels, label \notin {"kill", "rm"}, Begin(a, label)
  PROVE  (Alone /\ NamedByPidFile)'
<1>1. ~overlapped /\ \A b \in Actors \ {a} : ~Busy(b)
  BY DEF Begin, TypeOK
<1>2. UNCHANGED <<vm, pidFile, got>> /\ pc' = [pc EXCEPT ![a] = label]
  BY DEF Begin, Goto
<1>3. \A b \in Actors \ {a} : ~Busy(b)'
  BY <1>1, <1>2 DEF Busy, TypeOK
<1>4. \A d \in Dogs : pc'[d] \in {"kill", "rm"} => pc'[d] = pc[d]
  BY <1>2 DEF TypeOK, Actors
<1> QED BY <1>1, <1>2, <1>3, <1>4 DEF Alone, NamedByPidFile, Up, Busy

(* While an actor is busy nobody else is about to kill or remove. *)
LEMMA BusyAlone ==
  ASSUME TypeOK, Alone, NEW a \in Actors, Busy(a), NEW d \in Dogs, d # a
  PROVE  pc[d] \notin {"kill", "rm"}
  BY DEF Alone, Busy, Actors

(* A busy actor that moves on without a QEMU coming up or the pid file     *)
(* changing.                                                               *)
LEMMA MoveAlone ==
  ASSUME TypeOK, Alone, NamedByPidFile, NEW a \in Actors, Busy(a), NEW label \in Labels,
         label \notin {"kill", "rm"}, Goto(a, label), pidFile' = pidFile,
         \A p \in Pids : Up(p)' => Up(p)
  PROVE  (Alone /\ NamedByPidFile)'
<1>1. \A b \in Actors : Busy(b)' => Busy(b)
  BY DEF Goto, Busy, TypeOK
<1>2. \A d \in Dogs : pc'[d] \notin {"kill", "rm"}
  BY BusyAlone DEF Goto, TypeOK, Actors
<1> QED BY <1>1, <1>2 DEF Alone, NamedByPidFile, Up

LEMMA BootAlone ==
  ASSUME TypeOK, Alone, NamedByPidFile, NEW a \in Actors, Boot(a)
  PROVE  (Alone /\ NamedByPidFile)'
<1> USE DEF Up
<1>1. BootFails(a) \in Labels \ {"kill", "rm"} /\ BootSucceeds(a) \in Labels \ {"kill", "rm"}
  BY DEF BootFails, BootSucceeds, Labels
<1>2. CASE StartQemu(a)
  <2>1. \A b \in Actors : Busy(b)' => Busy(b)
    BY <1>2 DEF StartQemu, Goto, Busy, TypeOK
  <2>2. \A d \in Dogs : pc'[d] \notin {"kill", "rm"}
    BY <1>2, BusyAlone DEF StartQemu, Goto, Busy, TypeOK, Actors
  <2>3. NamedByPidFile'
    BY <1>2 DEF StartQemu, Live, NamedByPidFile, TypeOK
  <2> QED BY <2>1, <2>2, <2>3 DEF Alone
<1>3. CASE CreateOverlay(a)
  BY <1>1, <1>3, MoveAlone DEF CreateOverlay, Busy, Labels
<1>4. CASE StartFails(a)
  BY <1>1, <1>4, MoveAlone DEF StartFails, Busy
<1>5. CASE SshAnswers(a)
  BY <1>1, <1>5, MoveAlone DEF SshAnswers, Busy, Labels
<1>6. CASE MountEnds(a)
  BY <1>1, <1>6, MoveAlone DEF MountEnds, Busy
<1> QED BY <1>2, <1>3, <1>4, <1>5, <1>6 DEF Boot

LEMMA DogAlone ==
  ASSUME TypeOK, Alone, NamedByPidFile, NEW d \in Dogs, Dog(d)
  PROVE  (Alone /\ NamedByPidFile)'
<1>0. d \in Actors /\ d # Bench /\ Dogs \subseteq Actors /\ NoPid \notin Pids
  BY VmAssumption DEF Actors
<1> USE DEF Up
<1>1. CASE ProbeOk(d) BY <1>0, <1>1, MoveAlone DEF ProbeOk, Busy, Labels
<1>2. CASE ProbeFails(d) BY <1>0, <1>2, MoveAlone DEF ProbeFails, Busy, Labels
<1>3. CASE TestPidFile(d) BY <1>0, <1>3, MoveAlone DEF TestPidFile, Busy, Labels
<1>4. CASE ReadPid(d)
  <2>1. \A b \in Actors : Busy(b)' => Busy(b)
    BY <1>0, <1>4 DEF ReadPid, Goto, Busy, TypeOK
  <2>2. \A e \in Dogs \ {d} : pc'[e] \notin {"kill", "rm"}
    BY <1>0, <1>4, BusyAlone DEF ReadPid, Goto, Busy, TypeOK
  <2>3. pc'[d] = "kill" => \A p \in Pids : Up(p)' => got'[d] = p
    BY <1>0, <1>4 DEF ReadPid, NamedByPidFile, TypeOK
  <2>4. pc'[d] # "rm"
    BY <1>0, <1>4 DEF ReadPid, Goto, TypeOK
  <2>5. NamedByPidFile'
    BY <1>4 DEF ReadPid, NamedByPidFile
  <2> QED BY <2>1, <2>2, <2>3, <2>4, <2>5 DEF Alone
<1>5. CASE Kill(d)
  <2>1. \A b \in Actors : Busy(b)' => Busy(b)
    BY <1>0, <1>5 DEF Kill, Goto, Busy, TypeOK
  <2>2. \A e \in Dogs \ {d} : pc'[e] \notin {"kill", "rm"}
    BY <1>0, <1>5, BusyAlone DEF Kill, Goto, Busy, TypeOK
  <2>3. \A p \in Pids : ~Up(p)'
    BY <1>5 DEF Kill, Terminated, Alone, TypeOK
  <2>4. pc'[d] = "rm"
    BY <1>0, <1>5 DEF Kill, Goto, TypeOK
  <2> QED BY <2>1, <2>2, <2>3, <2>4 DEF Alone, NamedByPidFile
<1>6. CASE RemovePid(d)
  <2>1. \A b \in Actors : Busy(b)' => Busy(b)
    BY <1>0, <1>6 DEF RemovePid, Goto, Busy, TypeOK
  <2>2. \A e \in Dogs : pc'[e] \notin {"kill", "rm"}
    BY <1>0, <1>6, BusyAlone DEF RemovePid, Goto, Busy, TypeOK
  <2>3. \A p \in Pids : ~Up(p)'
    BY <1>6 DEF RemovePid, Alone
  <2> QED BY <2>1, <2>2, <2>3 DEF Alone, NamedByPidFile
<1>7. CASE Timeout(d) BY <1>0, <1>7, MoveAlone DEF Timeout, Busy, Labels
<1>8. CASE Chmod(d) BY <1>0, <1>8, MoveAlone DEF Chmod, Busy, Labels
<1>9. CASE Boot(d) BY <1>0, <1>9, BootAlone
<1> QED BY <1>1, <1>2, <1>3, <1>4, <1>5, <1>6, <1>7, <1>8, <1>9 DEF Dog

LEMMA SessionAlone ==
  ASSUME TypeOK, Alone, NamedByPidFile, Session
  PROVE  (Alone /\ NamedByPidFile)'
<1>0. Bench \in Actors
  BY DEF Actors
<1> USE DEF Up
<1>1. CASE PickPid
  <2>1. \A b \in Actors : Busy(b)' => Busy(b)
    BY <1>0, <1>1 DEF PickPid, Goto, Busy, TypeOK
  <2>2. \A d \in Dogs : pc'[d] \notin {"kill", "rm"}
    BY <1>0, <1>1, BusyAlone, VmAssumption DEF PickPid, Goto, Busy, TypeOK, Actors
  <2> QED BY <1>1, <2>1, <2>2 DEF Alone, NamedByPidFile, PickPid
<1>2. CASE Signal BY <1>0, <1>2, MoveAlone DEF Signal, Terminated, Live, Busy, Labels, TypeOK
<1>3. CASE IsGone BY <1>0, <1>3, MoveAlone DEF IsGone, Busy, Labels
<1>4. CASE Deadline BY <1>0, <1>4, MoveAlone DEF Deadline, Busy, Labels, TypeOK
<1>5. CASE Boot(Bench) BY <1>0, <1>5, BootAlone
<1> QED BY <1>1, <1>2, <1>3, <1>4, <1>5 DEF Session

LEMMA VmAlone ==
  ASSUME TypeOK, Alone, NamedByPidFile, NEW p \in Pids, Qemu(p) \/ Fails(p)
  PROVE  (Alone /\ NamedByPidFile)'
<1>1. \A q \in Pids : Up(q)' => Up(q)
  BY DEF Qemu, BootDone, Exit, Fails, Up, TypeOK
<1>2. UNCHANGED <<pc, got>>
  BY DEF Qemu, BootDone, Exit, Fails
<1>3. \A q \in Pids : Up(q)' => pidFile' = q
  BY <1>1 DEF Qemu, BootDone, Exit, Fails, Up, TypeOK, NamedByPidFile
<1> QED BY <1>1, <1>2, <1>3 DEF Alone, NamedByPidFile, Up, Busy

LEMMA NextInv == Inv /\ [Next]_vars => Inv'
<1> SUFFICES ASSUME Inv, [Next]_vars, ~overlapped' PROVE (Alone /\ NamedByPidFile)'
  BY NextType DEF Inv
<1>0. TypeOK /\ (~overlapped => Alone /\ NamedByPidFile)
  BY DEF Inv
<1>1. ASSUME NEW d \in Dogs, Call(d) PROVE (Alone /\ NamedByPidFile)'
  BY <1>0, <1>1, BeginAlone DEF Call, Actors, Labels
<1>2. CASE Enter \/ Leave
  BY <1>0, <1>2, BeginAlone DEF Enter, Leave, Actors, Labels
<1>3. CASE UNCHANGED vars
  BY <1>0, <1>3 DEF vars, Alone, NamedByPidFile, Up, Busy
<1>4. ASSUME NEW d \in Dogs, Dog(d) PROVE (Alone /\ NamedByPidFile)'
  <2>1. ~overlapped
    BY <1>4 DEF Dog, ProbeOk, ProbeFails, TestPidFile, ReadPid, Kill, RemovePid, Timeout, Chmod, Boot,
         CreateOverlay, StartQemu, StartFails, SshAnswers, MountEnds
  <2> QED BY <1>0, <1>4, <2>1, DogAlone
<1>5. CASE Session
  <2>1. ~overlapped
    BY <1>5 DEF Session, PickPid, Signal, IsGone, Deadline, Boot,
         CreateOverlay, StartQemu, StartFails, SshAnswers, MountEnds
  <2> QED BY <1>0, <1>5, <2>1, SessionAlone
<1>6. ASSUME NEW p \in Pids, Qemu(p) \/ Fails(p) PROVE (Alone /\ NamedByPidFile)'
  <2>1. ~overlapped
    BY <1>6 DEF Qemu, BootDone, Exit, Fails
  <2> QED BY <1>0, <1>6, <2>1, VmAlone
<1> QED BY <1>1, <1>2, <1>3, <1>4, <1>5, <1>6 DEF Next

(* The variables have their types, and a dog that kills has a pid. *)
THEOREM TypeCorrect == Spec => []TypeOK
<1>1. Inv => TypeOK
  BY DEF Inv
<1> QED BY <1>1, InitInv, NextInv, PTL DEF Spec

(* As long as the users of the VM come one after another, every QEMU that  *)
(* runs is the one the pid file names, whatever fails in between.          *)
THEOREM NamedUnlessOverlappedHolds == Spec => []NamedUnlessOverlapped
<1>1. Inv => NamedUnlessOverlapped
  BY DEF Inv, NamedUnlessOverlapped
<1> QED BY <1>1, InitInv, NextInv, PTL DEF Spec

-----------------------------------------------------------------------------
(* What the end of a session rests on: the port and the lock of the disk   *)
(* let one QEMU live at a time, and the one the session has signalled is   *)
(* that one as long as nobody else is at the VM.                           *)
OneLive == \A p, q \in Live : p = q

Signalled == pc[Bench] = "gone" => got[Bench] \in Pids /\ \A p \in Live : p = got[Bench]

StopInv == OneLive /\ (~overlapped => Signalled)

(* Only the start of a QEMU brings one to life, and only when none lives.  *)
LEMMA LiveShrinks ==
  ASSUME TypeOK, [Next]_vars
  PROVE  \/ Live' \subseteq Live
         \/ \E a \in Actors : StartQemu(a)
<1>0. Dogs \subseteq Actors /\ Bench \in Actors
  BY DEF Actors
<1> SUFFICES ASSUME ~ \E a \in Actors : StartQemu(a)
             PROVE  \A p \in Pids : vm[p] = "off" => vm'[p] = "off"
  BY DEF Live
<1>1. CASE UNCHANGED vm
  BY <1>1
<1>2. ASSUME NEW d \in Dogs, Kill(d) PROVE \A p \in Pids : vm[p] = "off" => vm'[p] = "off"
  BY <1>2 DEF Kill, Terminated, TypeOK
<1>3. CASE Signal
  BY <1>3 DEF Signal, Terminated, TypeOK
<1>4. CASE Deadline
  BY <1>4 DEF Deadline, TypeOK
<1>5. ASSUME NEW p \in Pids, Qemu(p) \/ Fails(p)
      PROVE  \A q \in Pids : vm[q] = "off" => vm'[q] = "off"
  BY <1>5 DEF Qemu, BootDone, Exit, Fails, TypeOK
<1>6. ASSUME NEW a \in Actors, Boot(a) PROVE UNCHANGED vm
  BY <1>6 DEF Boot, CreateOverlay, StartFails, SshAnswers, MountEnds
<1>7. ASSUME NEW d \in Dogs, Call(d) \/ Dog(d) PROVE UNCHANGED vm \/ Kill(d)
  BY <1>0, <1>6, <1>7 DEF Call, Begin, Dog, ProbeOk, ProbeFails, TestPidFile, ReadPid, RemovePid, Timeout, Chmod
<1>8. ASSUME Enter \/ Leave \/ Session PROVE UNCHANGED vm \/ Signal \/ Deadline
  BY <1>0, <1>6, <1>8 DEF Enter, Leave, Begin, Session, PickPid, IsGone
<1>9. CASE UNCHANGED vars
  BY <1>1, <1>9 DEF vars
<1> QED BY <1>1, <1>2, <1>3, <1>4, <1>5, <1>7, <1>8, <1>9 DEF Next

LEMMA OneLiveNext ==
  ASSUME TypeOK, OneLive, [Next]_vars
  PROVE  OneLive'
<1>1. CASE Live' \subseteq Live
  BY <1>1 DEF OneLive
<1>2. ASSUME NEW a \in Actors, StartQemu(a) PROVE OneLive'
  <2>1. PICK p \in Pids : vm' = [vm EXCEPT ![p] = "booting"]
    BY <1>2 DEF StartQemu
  <2>2. \A q \in Pids : vm[q] = "off"
    BY <1>2 DEF StartQemu, Live
  <2>3. \A q \in Live' : q = p
    BY <2>1, <2>2 DEF Live, TypeOK
  <2> QED BY <2>3 DEF OneLive
<1> QED BY <1>1, <1>2, LiveShrinks

(* Nobody but the session moves it, and it comes to "gone" by a signal.    *)
LEMMA ToGone ==
  ASSUME TypeOK, [Next]_vars, pc'[Bench] = "gone"
  PROVE  \/ pc[Bench] = "gone" /\ got'[Bench] = got[Bench]
         \/ Signal
<1>0. Bench \in Actors /\ Dogs \subseteq Actors /\ Bench \notin Dogs
  BY VmAssumption DEF Actors
<1>1. ASSUME NEW d \in Dogs, Call(d) \/ Dog(d) PROVE pc'[Bench] = pc[Bench] /\ got'[Bench] = got[Bench]
  BY <1>0, <1>1 DEF Call, Begin, Goto, Dog, ProbeOk, ProbeFails, TestPidFile, ReadPid, Kill, RemovePid,
       Timeout, Chmod, Boot, CreateOverlay, StartQemu, StartFails, SshAnswers, MountEnds, TypeOK
<1>2. CASE Enter \/ Leave
  BY <1>0, <1>2 DEF Enter, Leave, Begin, Goto, TypeOK
<1>3. CASE Session
  BY <1>0, <1>3 DEF Session, PickPid, IsGone, Deadline, Boot, CreateOverlay, StartQemu,
       StartFails, SshAnswers, MountEnds, Goto, BootFails, BootSucceeds, TypeOK
<1>4. ASSUME NEW p \in Pids, Qemu(p) \/ Fails(p) PROVE UNCHANGED <<pc, got>>
  BY <1>4 DEF Qemu, BootDone, Exit, Fails
<1> QED BY <1>1, <1>2, <1>3, <1>4 DEF Next, vars

(* The flag of the history never falls.                                    *)
LEMMA OverlapStays ==
  ASSUME TypeOK, [Next]_vars, ~overlapped'
  PROVE  ~overlapped
<1>1. ASSUME NEW d \in Dogs, Call(d) \/ Dog(d) PROVE ~overlapped
  BY <1>1 DEF Call, Begin, Dog, ProbeOk, ProbeFails, TestPidFile, ReadPid, Kill, RemovePid,
       Timeout, Chmod, Boot, CreateOverlay, StartQemu, StartFails, SshAnswers, MountEnds
<1>2. CASE Enter \/ Leave \/ Session
  BY <1>2 DEF Enter, Leave, Begin, Session, PickPid, Signal, IsGone, Deadline, Boot,
       CreateOverlay, StartQemu, StartFails, SshAnswers, MountEnds
<1>3. ASSUME NEW p \in Pids, Qemu(p) \/ Fails(p) PROVE ~overlapped
  BY <1>3 DEF Qemu, BootDone, Exit, Fails
<1> QED BY <1>1, <1>2, <1>3 DEF Next, vars

LEMMA SignalledNext ==
  ASSUME Inv, OneLive, [Next]_vars, ~overlapped', ~overlapped => Signalled
  PROVE  Signalled'
<1>0. TypeOK /\ ~overlapped /\ Alone /\ Signalled /\ Bench \in Actors
  BY OverlapStays DEF Inv, Actors
<1> SUFFICES ASSUME pc'[Bench] = "gone"
             PROVE  got'[Bench] \in Pids /\ \A p \in Live' : p = got'[Bench]
  BY DEF Signalled
<1>1. CASE Signal
  <2>1. got[Bench] \in Live /\ got' = got
    BY <1>0, <1>1 DEF Signal, Goto, TypeOK
  <2>2. Live' \subseteq Live
    BY <1>0, <1>1 DEF Signal, Terminated, Live, TypeOK
  <2> QED BY <2>1, <2>2 DEF OneLive, Live
<1>2. CASE pc[Bench] = "gone" /\ got'[Bench] = got[Bench]
  <2>1. ~ \E a \in Actors : StartQemu(a)
    BY <1>0, <1>2 DEF Alone, Busy, StartQemu
  <2>2. Live' \subseteq Live
    BY <1>0, <2>1, LiveShrinks
  <2> QED BY <1>0, <1>2, <2>2 DEF Signalled
<1> QED BY <1>0, <1>1, <1>2, ToGone

LEMMA InitStop == Init => StopInv
<1> SUFFICES ASSUME Init PROVE StopInv
  OBVIOUS
<1>1. Live = {}
  BY DEF Init, Live
<1>2. pc[Bench] # "gone"
  BY DEF Init, Actors
<1> QED BY <1>1, <1>2 DEF StopInv, OneLive, Signalled

LEMMA NextStop == Inv /\ StopInv /\ [Next]_vars => StopInv'
  BY OneLiveNext, SignalledNext DEF Inv, StopInv

(* The session leaves "gone" when the process has gone or by the SIGKILL.  *)
LEMMA LeavesGone ==
  ASSUME TypeOK, Next, pc[Bench] = "gone", pc'[Bench] = "over"
  PROVE  IsGone \/ Deadline
<1>0. Bench \in Actors /\ Dogs \subseteq Actors /\ Bench \notin Dogs
  BY VmAssumption DEF Actors
<1>1. ASSUME NEW d \in Dogs, Call(d) \/ Dog(d) PROVE pc'[Bench] = pc[Bench]
  BY <1>0, <1>1 DEF Call, Begin, Goto, Dog, ProbeOk, ProbeFails, TestPidFile, ReadPid, Kill, RemovePid,
       Timeout, Chmod, Boot, CreateOverlay, StartQemu, StartFails, SshAnswers, MountEnds, TypeOK
<1>2. CASE Enter \/ Leave
  BY <1>2 DEF Enter, Leave
<1>3. CASE Session
  BY <1>3 DEF Session, PickPid, Signal, Boot, CreateOverlay, StartQemu, StartFails, SshAnswers, MountEnds
<1>4. ASSUME NEW p \in Pids, Qemu(p) \/ Fails(p) PROVE UNCHANGED pc
  BY <1>4 DEF Qemu, BootDone, Exit, Fails
<1> QED BY <1>1, <1>2, <1>3, <1>4 DEF Next

LEMMA StopStep ==
  ASSUME Inv, StopInv, [Next]_vars
  PROVE  [(pc[Bench] = "gone" /\ pc'[Bench] = "over" /\ ~overlapped) => Live' = {}]_vars
<1> SUFFICES ASSUME Next, pc[Bench] = "gone", pc'[Bench] = "over", ~overlapped
             PROVE  Live' = {}
  OBVIOUS
<1>0. TypeOK /\ got[Bench] \in Pids /\ \A p \in Live : p = got[Bench]
  BY DEF Inv, StopInv, Signalled
<1>1. CASE IsGone
  BY <1>0, <1>1 DEF IsGone, Live
<1>2. CASE Deadline
  BY <1>0, <1>2 DEF Deadline, Live, TypeOK
<1> QED BY <1>0, <1>1, <1>2, LeavesGone

(* A session that nobody disturbed leaves no QEMU behind: neither the one  *)
(* that obeyed SIGTERM nor the one that had to be killed                   *)
(* (tools/benchmark_lib.py:119, 133).                                      *)
THEOREM SessionStopsVmHolds == Spec => SessionStopsVm
<1>1. Init => Inv /\ StopInv
  BY InitInv, InitStop
<1>2. Inv /\ StopInv /\ [Next]_vars => (Inv /\ StopInv)'
  BY NextInv, NextStop
<1>3. Inv /\ StopInv /\ [Next]_vars
        => [(pc[Bench] = "gone" /\ pc'[Bench] = "over" /\ ~overlapped) => Live' = {}]_vars
  BY StopStep
<1> QED BY <1>1, <1>2, <1>3, PTL DEF Spec, SessionStopsVm
=============================================================================
