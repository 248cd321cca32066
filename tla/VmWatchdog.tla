------------------------------ MODULE VmWatchdog ------------------------------
(***************************************************************************)
(* The evaluation VM and those who start and stop it:                      *)
(* tools/vm_watchdog.sh (a dog, run by ml/reward.py for every batch whose  *)
(* VM call failed, so by several server threads at once),                  *)
(* fuzzing/run_eval_vm.sh (the boot script) and VMLifecycle of             *)
(* tools/benchmark_lib.py (one benchmark session).  They share one TCP     *)
(* port, one disk overlay and one pid file, and none of them takes a lock. *)
(***************************************************************************)
EXTENDS Naturals, FiniteSets

CONSTANTS
  Dogs,       \* processes that run the watchdog, again and again
  Bench,      \* the benchmark session
  Pids,       \* process ids a QEMU can have; an id is used again after an exit
  NoPid,      \* no pid file, or no pid
  MaxFaults   \* bound on the failures of the VM

ASSUME VmAssumption ==
  /\ Bench \notin Dogs
  /\ NoPid \notin Pids
  /\ MaxFaults \in Nat

Actors == Dogs \union {Bench}

VARIABLES
  vm,         \* per process id: what the QEMU with this id is doing
  pidFile,    \* data/vm.pid
  pc,         \* per actor: its next line
  got,        \* per actor: OLD_PID of the dog, pid in shutdown()
  faults,     \* failures so far
  overlapped  \* history: two actors have been at the VM at the same time

vars == <<vm, pidFile, pc, got, faults, overlapped>>

States == {"off", "booting", "ready", "hung", "exiting"}

Labels == {"idle", "probe", "test", "cat", "kill", "rm", "create", "start", "ssh",
           "mount", "chmod", "new", "body", "pick", "signal", "gone", "over"}

Live == {p \in Pids : vm[p] # "off"}

(* ssh_ok: the forwarded port leads to a guest that answers. *)
Reachable == \E p \in Pids : vm[p] = "ready"

(* An ssh without a ConnectTimeout does not come back from such a guest. *)
Hanging == \E p \in Pids : vm[p] = "hung"

Busy(a) == pc[a] \notin {"idle", "new", "body", "over"}

Init ==
  /\ vm = [p \in Pids |-> "off"]
  /\ pidFile = NoPid
  /\ pc = [a \in Actors |-> IF a = Bench THEN "new" ELSE "idle"]
  /\ got = [a \in Actors |-> NoPid]
  /\ faults = 0
  /\ overlapped = FALSE

Goto(a, label) == pc' = [pc EXCEPT ![a] = label]

Fault == faults < MaxFaults /\ faults' = faults + 1

Begin(a, label) ==
  /\ Goto(a, label)
  /\ overlapped' = (overlapped \/ \E b \in Actors \ {a} : Busy(b))
  /\ UNCHANGED <<vm, pidFile, got, faults>>

-----------------------------------------------------------------------------
(* The watchdog script. *)

Call(d) == pc[d] = "idle" /\ Begin(d, "probe")

ProbeOk(d) ==
  /\ pc[d] = "probe" /\ Reachable
  /\ Goto(d, "idle")
  /\ UNCHANGED <<vm, pidFile, got, faults, overlapped>>

(* A guest that is up may still miss the 3 s of the probe. *)
ProbeFails(d) ==
  /\ pc[d] = "probe"
  /\ IF Reachable THEN Fault ELSE UNCHANGED faults
  /\ Goto(d, "test")
  /\ UNCHANGED <<vm, pidFile, got, overlapped>>

TestPidFile(d) ==
  /\ pc[d] = "test"
  /\ Goto(d, IF pidFile = NoPid THEN "create" ELSE "cat")
  /\ UNCHANGED <<vm, pidFile, got, faults, overlapped>>

(* set -e ends the script when the file is gone by now. *)
ReadPid(d) ==
  /\ pc[d] = "cat"
  /\ Goto(d, IF pidFile = NoPid THEN "idle" ELSE "kill")
  /\ got' = [got EXCEPT ![d] = pidFile]
  /\ UNCHANGED <<vm, pidFile, faults, overlapped>>

FaultyKillZero(p) == vm

Terminated(p) == [vm EXCEPT ![p] = IF vm[p] = "off" THEN "off" ELSE "exiting"]

Kill(d) ==
  /\ pc[d] = "kill"
  /\ vm' = Terminated(got[d])
  /\ Goto(d, "rm")
  /\ UNCHANGED <<pidFile, got, faults, overlapped>>

(* rm -f removes whatever file is there, then the script sleeps 1 s. *)
RemovePid(d) ==
  /\ pc[d] = "rm"
  /\ pidFile' = NoPid
  /\ Goto(d, "create")
  /\ UNCHANGED <<vm, got, faults, overlapped>>

FaultyNoTimeout(d) == FALSE /\ UNCHANGED vars

(* The timeout around the boot script; the QEMU it started is a daemon and *)
(* stays.  A guest that boots does so within the 300 s, or it is a fault.  *)
Timeout(d) ==
  /\ pc[d] \in {"ssh", "mount"}
  /\ IF Reachable \/ \E p \in Pids : vm[p] = "booting" THEN Fault ELSE UNCHANGED faults
  /\ Goto(d, "idle")
  /\ UNCHANGED <<vm, pidFile, got, overlapped>>

(* The last ssh, for which there is no timeout, not that of the script nor  *)
(* one for the connection; its status is ignored.                          *)
Chmod(d) ==
  /\ pc[d] = "chmod" /\ ~Hanging
  /\ Goto(d, "idle")
  /\ UNCHANGED <<vm, pidFile, got, faults, overlapped>>

-----------------------------------------------------------------------------
(* The boot script, run by a dog or by the session.  The dog exits when it  *)
(* fails; the session does not look at its status.                         *)

BootFails(a) == IF a = Bench THEN "body" ELSE "idle"
BootSucceeds(a) == IF a = Bench THEN "body" ELSE "chmod"

(* qemu-img refuses an overlay that a QEMU has locked. *)
CreateOverlay(a) ==
  /\ pc[a] = "create"
  /\ Goto(a, IF Live = {} THEN "start" ELSE BootFails(a))
  /\ UNCHANGED <<vm, pidFile, got, faults, overlapped>>

FaultyNoPidFile(a) ==
  /\ pc[a] = "start" /\ Live = {}
  /\ \E p \in Pids : vm' = [vm EXCEPT ![p] = "booting"]
  /\ Goto(a, "ssh")
  /\ UNCHANGED <<pidFile, got, faults, overlapped>>

(* QEMU fails when the port is taken, else it writes its pid and goes to   *)
(* the background.                                                         *)
StartQemu(a) ==
  /\ pc[a] = "start" /\ Live = {}
  /\ \E p \in Pids :
       /\ vm' = [vm EXCEPT ![p] = "booting"]
       /\ pidFile' = p
  /\ Goto(a, "ssh")
  /\ UNCHANGED <<got, faults, overlapped>>

StartFails(a) ==
  /\ pc[a] = "start" /\ Live # {}
  /\ Goto(a, BootFails(a))
  /\ UNCHANGED <<vm, pidFile, got, faults, overlapped>>

(* The loop polls the port, whichever QEMU is behind it. *)
SshAnswers(a) ==
  /\ pc[a] = "ssh" /\ Reachable
  /\ Goto(a, "mount")
  /\ UNCHANGED <<vm, pidFile, got, faults, overlapped>>

(* The mount is done, or its ssh fails; a hung guest it waits for. *)
MountEnds(a) ==
  /\ pc[a] = "mount" /\ ~Hanging
  /\ \/ Goto(a, BootFails(a))
     \/ Reachable /\ Goto(a, BootSucceeds(a))
  /\ UNCHANGED <<vm, pidFile, got, faults, overlapped>>

-----------------------------------------------------------------------------
(* VMLifecycle. *)

Enter == pc[Bench] = "new" /\ Begin(Bench, "create")

Leave == pc[Bench] = "body" /\ Begin(Bench, "pick")

(* Without a pid file: the pid of the boot script, which has ended. *)
PickPid ==
  /\ pc[Bench] = "pick"
  /\ got' = [got EXCEPT ![Bench] = pidFile]
  /\ Goto(Bench, "signal")
  /\ UNCHANGED <<vm, pidFile, faults, overlapped>>

(* os.kill raises ProcessLookupError when there is no such process. *)
Signal ==
  /\ pc[Bench] = "signal"
  /\ IF got[Bench] \in Live
     THEN vm' = Terminated(got[Bench]) /\ Goto(Bench, "gone")
     ELSE Goto(Bench, "over") /\ UNCHANGED vm
  /\ UNCHANGED <<pidFile, got, faults, overlapped>>

IsGone ==
  /\ pc[Bench] = "gone" /\ got[Bench] \notin Live
  /\ Goto(Bench, "over")
  /\ UNCHANGED <<vm, pidFile, got, faults, overlapped>>

FaultyPatience ==
  /\ pc[Bench] = "gone"
  /\ Goto(Bench, "over")
  /\ UNCHANGED <<vm, pidFile, got, faults, overlapped>>

(* After 10 s: SIGKILL. *)
Deadline ==
  /\ pc[Bench] = "gone"
  /\ vm' = [vm EXCEPT ![got[Bench]] = "off"]
  /\ Goto(Bench, "over")
  /\ UNCHANGED <<pidFile, got, faults, overlapped>>

-----------------------------------------------------------------------------
(* QEMU and its guest. *)

BootDone(p) ==
  /\ vm[p] = "booting"
  /\ vm' = [vm EXCEPT ![p] = "ready"]
  /\ UNCHANGED <<pidFile, pc, got, faults, overlapped>>

(* A QEMU that exits in order removes the pid file it wrote. *)
Exit(p) ==
  /\ vm[p] = "exiting"
  /\ vm' = [vm EXCEPT ![p] = "off"]
  /\ pidFile' = IF pidFile = p THEN NoPid ELSE pidFile
  /\ UNCHANGED <<pc, got, faults, overlapped>>

(* The guest hangs, reboots after a panic, or the host kills its QEMU. *)
Fails(p) ==
  /\ Fault
  /\ \E s \in {"hung", "booting", "off"} :
       /\ vm[p] \in {"booting", "ready"} \/ (vm[p] = "hung" /\ s = "off")
       /\ vm' = [vm EXCEPT ![p] = s]
  /\ UNCHANGED <<pidFile, pc, got, overlapped>>

-----------------------------------------------------------------------------
Boot(a) ==
  \/ CreateOverlay(a) \/ StartQemu(a) \/ StartFails(a) \/ SshAnswers(a) \/ MountEnds(a)

Dog(d) ==
  \/ ProbeOk(d) \/ ProbeFails(d) \/ TestPidFile(d) \/ ReadPid(d) \/ Kill(d)
  \/ RemovePid(d) \/ Timeout(d) \/ Chmod(d) \/ Boot(d)

Session == PickPid \/ Signal \/ IsGone \/ Deadline \/ Boot(Bench)

Qemu(p) == BootDone(p) \/ Exit(p)

Next ==
  \/ \E d \in Dogs : Call(d) \/ Dog(d)
  \/ Enter \/ Leave \/ Session
  \/ \E p \in Pids : Qemu(p) \/ Fails(p)

Spec == Init /\ [][Next]_vars

(* Processes that run are scheduled, a QEMU told to exit exits and a guest *)
(* that can boot boots.  As long as the training goes on a batch that fails *)
(* calls the dog, if only when the dog before it has come back: the local  *)
(* trainer has no other thread.                                            *)
Fairness ==
  /\ \A d \in Dogs : WF_vars(Dog(d))
  /\ WF_vars((\A d \in Dogs : ~Busy(d)) /\ \E d \in Dogs : Call(d))
  /\ WF_vars(Session)
  /\ \A p \in Pids : WF_vars(Qemu(p))

FairSpec == Spec /\ Fairness

-----------------------------------------------------------------------------
(* Types; a dog that kills has a pid to kill, which is what set -e is for. *)
TypeOK ==
  /\ vm \in [Pids -> States]
  /\ pidFile \in Pids \union {NoPid}
  /\ pc \in [Actors -> Labels]
  /\ got \in [Actors -> Pids \union {NoPid}]
  /\ \A d \in Dogs : pc[d] = "kill" => got[d] \in Pids
  /\ faults \in 0 .. MaxFaults
  /\ overlapped \in BOOLEAN

(* Every QEMU that was not told to exit is named by the pid file, so that  *)
(* the next dog reaches it and it can be stopped the way                   *)
(* fuzzing/run_eval_vm.sh:79 says, with kill $(cat data/vm.pid).           *)
NamedByPidFile ==
  \A p \in Pids : vm[p] \in {"booting", "ready", "hung"} => pidFile = p

(* So it is as long as nobody is at the VM at the same time: dogs, and the *)
(* boot and the shutdown of a session, one after another.                  *)
NamedUnlessOverlapped == ~overlapped => NamedByPidFile

(* A session that waited for the process it signalled leaves no QEMU, even *)
(* one that does not follow SIGTERM (tools/benchmark_lib.py:119, 133).     *)
SessionStopsVm ==
  [][(pc[Bench] = "gone" /\ pc'[Bench] = "over" /\ ~overlapped) => Live' = {}]_vars

(* A dog that waits for the answer of a hung guest to its last ssh. *)
Waits(d) == pc[d] = "chmod" /\ Hanging

(* Whatever the VM and the other dogs do, a dog comes back from every run, *)
(* but for one: it waits for ever in the chmod (tools/vm_watchdog.sh:53).  *)
DogsEnd == \A d \in Dogs : []<>(pc[d] = "idle") \/ <>[]Waits(d)

(* The watchdog restarts the VM however it failed, as long as nobody is at *)
(* the VM at the same time and no dog waits for ever.                      *)
RecoversAlone ==
  [](~overlapped) => []<>Reachable \/ \E d \in Dogs : <>[]Waits(d)
=============================================================================
