---------------------------- MODULE RewardServer ----------------------------
(***************************************************************************)
(* ml/reward.py behind tools/reward_server.py.  post_rewards is a plain    *)
(* `def`, so FastAPI runs each request in a thread of its pool, and        *)
(* compute_rewards keeps its running state in module globals that no lock  *)
(* protects.  A step of this module is a stretch of compute_rewards that   *)
(* touches a global at most once: another request may run between any two. *)
(* With one thread the module is the local trainer of ml/rl_grpo.py, which *)
(* calls compute_rewards directly.                                         *)
(*                                                                         *)
(* The server may crash at any step; the state files written every         *)
(* SaveEvery calls are what a restart finds.                               *)
(***************************************************************************)
EXTENDS RewardLadder, Positions

CONSTANTS
  Threads,      \* worker threads of the server
  Batches,      \* the lists of completions a client may post
  SaveEvery,    \* the state files are written every SaveEvery calls (100)
  DecayNum, DecayDen,        \* RL_GLOBAL_DECAY = DecayNum/DecayDen, 1 is off
  MaxRequests, MaxCrashes,   \* bounds of a run
  None          \* no value: an unparseable file, no reply, no key read

ASSUME ServerAssumption ==
  /\ Batches \subseteq Seq(Programs)
  /\ SaveEvery \in Nat \ {0}
  /\ DecayNum \in Nat /\ DecayDen \in Nat \ {0} /\ DecayNum <= DecayDen
  /\ MaxRequests \in Nat /\ MaxCrashes \in Nat
  /\ None \notin PCs

VARIABLES
  \* the globals of ml/reward.py
  pcSet,        \* _pc_set: every counter any program reached
  maxPcs,       \* _max_pcs_seen: the deepest walk
  freq,         \* _global_pc_freq: counter -> hits by ACCEPTED programs
  callCount,    \* _call_count
  lastDepths,   \* _last_pcs_per_program
  lastCounts,   \* _last_verdict_counts
  \* the process and its state files
  up,           \* the server accepts requests
  disk,         \* rl_pc_set, rl_max_pcs_seen and rl_global_pc_freq.json
  \* the locals of compute_rewards, one call per thread
  pc,           \* what the thread does next
  batch,        \* completions; once the VM has answered, at every position the
                \* program whose result is read there
  vmOk,         \* the VM call returned results
  left,         \* positions the current loop has still to visit
  todo,         \* counters the current inner loop has still to visit
  key, val,     \* the counter and the value a read-modify-write has read
  rewards,      \* rewards
  response,     \* the answer of the thread's last request
  \* history: increments of the frontier that were executed, now and as of
  \* the saved frontier; and the bounds
  hits, savedHits, received, crashes

globals == <<pcSet, maxPcs, freq, callCount, lastDepths, lastCounts>>
process == <<up, disk, savedHits, crashes>>
locals  == <<batch, vmOk, left, todo, key, val, rewards>>
vars    == <<globals, process, locals, pc, response, hits, received>>

Labels == {"idle", "vm", "watchdog", "merge", "raise", "raiseStore", "reject", "accept",
           "decay", "decayStore", "bump", "bumpStore", "publish", "publishCounts",
           "count", "countStore", "cadence", "savePcs", "writePcs", "saveMax", "writeMax",
           "saveFreq", "writeFreq", "respond"}

NoCounts == [accepted |-> 0, rejected |-> 0, encode_fail |-> 0, error |-> 0, crash |-> 0]

Init ==
  /\ pcSet = {} /\ maxPcs = 1 /\ freq = [p \in {} |-> 0] /\ callCount = 0
  /\ lastDepths = <<>> /\ lastCounts = NoCounts
  /\ up = TRUE
  \* no file yet: loading keeps the defaults, as loading these values would
  /\ disk = [pcs |-> {}, max |-> 1, freq |-> [p \in {} |-> 0]]
  /\ pc = [t \in Threads |-> "idle"]
  /\ batch = [t \in Threads |-> <<>>] /\ vmOk = [t \in Threads |-> TRUE]
  /\ left = [t \in Threads |-> {}] /\ todo = [t \in Threads |-> {}]
  /\ key = [t \in Threads |-> None] /\ val = [t \in Threads |-> 0]
  /\ rewards = [t \in Threads |-> <<>>]
  /\ response = [t \in Threads |-> None]
  /\ hits = [p \in PCs |-> 0] /\ savedHits = [p \in PCs |-> 0]
  /\ received = 0 /\ crashes = 0

-----------------------------------------------------------------------------
(* Control: where thread t goes, what its loops have left, what it forgets *)
(* once a value it read is stored and once the request is over.            *)

At(t, label) == up /\ pc[t] = label
Goto(t, label) == pc' = [pc EXCEPT ![t] = label]
Visit(t, s) == left' = [left EXCEPT ![t] = s]
Scan(t, s) == todo' = [todo EXCEPT ![t] = s]

Consume(t) == key' = [key EXCEPT ![t] = None] /\ val' = [val EXCEPT ![t] = 0]

Return(t) ==
  /\ Goto(t, "idle")
  /\ batch' = [batch EXCEPT ![t] = <<>>] /\ rewards' = [rewards EXCEPT ![t] = <<>>]
  /\ vmOk' = [vmOk EXCEPT ![t] = TRUE]
  /\ Scan(t, {})
  /\ UNCHANGED <<left, key, val>>

\* i is the next position of the loop over left[t].
NextIs(t, i) == i \in left[t] /\ \A j \in left[t] : i <= j

-----------------------------------------------------------------------------
(* First pass and the VM.                                                  *)

\* A request arrives: the completions are encoded; those that do not encode
\* or fall under the floor keep reward 0, and the VM is called for the others
\* if there are any.
Receive(t, b) ==
  /\ At(t, "idle") /\ received < MaxRequests
  /\ received' = received + 1
  /\ batch' = [batch EXCEPT ![t] = b]
  /\ rewards' = [rewards EXCEPT ![t] = [i \in DOMAIN b |-> 0]]
  /\ response' = [response EXCEPT ![t] = None]
  /\ Goto(t, IF ToValidate(b) = {} THEN "reject" ELSE "vm")
  /\ UNCHANGED <<globals, process, vmOk, left, todo, key, val, hits>>

\* The list that comes back: a result per program that was sent, in that order
\* (KcovValidator!FramingAndOrder).  A program stands for its result.
ResultsOf(b) == ItemsAt(b, ToValidate(b))

\* Numbers the results as they come, not by the positions they were sent from.
FaultyPaired(b, results) == [i \in DOMAIN b |-> IF i \in DOMAIN results THEN results[i] ELSE b[i]]

\* zip(to_validate, results): the result in place k is that of the k-th position
\* that was sent.
Paired(b, results) ==
  LET sent == InOrder(ToValidate(b))
  IN  [i \in DOMAIN b |-> IF i \in ToValidate(b) THEN results[CHOOSE k \in DOMAIN sent : sent[k] = i]
                         ELSE b[i]]

\* _validate_batch_on_vm returns as many results as programs were sent ...
VmAnswers(t) ==
  /\ At(t, "vm")
  /\ Goto(t, "merge") /\ Visit(t, ToValidate(batch[t]))
  /\ batch' = [batch EXCEPT ![t] = Paired(@, ResultsOf(@))]
  /\ UNCHANGED <<globals, process, vmOk, todo, key, val, rewards, response, hits, received>>

\* ... or None, on a timeout, an exit status, or output it cannot use, a list of
\* another length among it.
VmFails(t) ==
  /\ At(t, "vm")
  /\ Goto(t, "watchdog")
  /\ vmOk' = [vmOk EXCEPT ![t] = FALSE]
  /\ UNCHANGED <<globals, process, batch, left, todo, key, val, rewards, response, hits, received>>

\* The watchdog script ends, whatever its exit status; nothing bounds the wait
\* for it.
WatchdogReturns(t) ==
  /\ At(t, "watchdog")
  /\ Goto(t, "reject")
  /\ UNCHANGED <<globals, process, locals, response, hits, received>>

-----------------------------------------------------------------------------
(* The results, in input order: coverage, then the depth record.           *)

\* Assigns the coverage set instead of adding to it.
FaultyOverwrite(t) ==
  /\ At(t, "merge")
  /\ \E i \in left[t] : NextIs(t, i) /\ pcSet' = Covers(batch[t], i)
  /\ Goto(t, "raise")
  /\ UNCHANGED <<maxPcs, freq, callCount, lastDepths, lastCounts, process, locals, response, hits, received>>

MergeCoverage(t) ==
  /\ At(t, "merge")
  /\ \E i \in left[t] : NextIs(t, i) /\ pcSet' = pcSet \cup Covers(batch[t], i)
  /\ Goto(t, "raise")
  /\ UNCHANGED <<maxPcs, freq, callCount, lastDepths, lastCounts, process, locals, response, hits, received>>

\* The test and the assignment of the record are two accesses to the global.
CompareDepth(t) ==
  /\ At(t, "raise")
  /\ \E i \in left[t] :
       /\ NextIs(t, i)
       /\ IF Depth(batch[t], i) > maxPcs
          THEN Goto(t, "raiseStore") /\ UNCHANGED left
          ELSE Goto(t, "merge") /\ Visit(t, left[t] \ {i})
  /\ UNCHANGED <<globals, process, batch, vmOk, todo, key, val, rewards, response, hits, received>>

StoreDepth(t) ==
  /\ At(t, "raiseStore")
  /\ \E i \in left[t] :
       /\ NextIs(t, i)
       /\ maxPcs' = Depth(batch[t], i)
       /\ Visit(t, left[t] \ {i})
  /\ Goto(t, "merge")
  /\ UNCHANGED <<pcSet, freq, callCount, lastDepths, lastCounts, process, batch, vmOk, todo, key, val,
                 rewards, response, hits, received>>

MergeDone(t) ==
  /\ At(t, "merge") /\ left[t] = {}
  /\ Goto(t, "reject") /\ Visit(t, Rejected(batch[t]))
  /\ UNCHANGED <<globals, process, batch, vmOk, todo, key, val, rewards, response, hits, received>>

-----------------------------------------------------------------------------
(* Scoring.                                                                *)

PayRejected(t) ==
  /\ At(t, "reject")
  /\ \E i \in left[t] :
       /\ NextIs(t, i)
       /\ rewards' = [rewards EXCEPT ![t][i] = RejectedReward(Depth(batch[t], i), maxPcs)]
       /\ Visit(t, left[t] \ {i})
  /\ UNCHANGED <<globals, process, pc, batch, vmOk, todo, key, val, response, hits, received>>

\* A failed batch has no accepted program.
RejectedDone(t) ==
  /\ At(t, "reject") /\ left[t] = {}
  /\ IF vmOk[t] /\ Accepted(batch[t]) # {}
     THEN Goto(t, "accept") /\ Visit(t, Accepted(batch[t]))
     ELSE Goto(t, "publish") /\ UNCHANGED left
  /\ UNCHANGED <<globals, process, batch, vmOk, todo, key, val, rewards, response, hits, received>>

\* Never finishes with the first program.
FaultyNoProgress(t) ==
  /\ At(t, "accept")
  /\ \E i \in left[t] :
       NextIs(t, i) /\ rewards' = [rewards EXCEPT ![t][i] = AcceptedReward(freq, batch[t], i)]
  /\ UNCHANGED <<globals, process, pc, batch, vmOk, left, todo, key, val, response, hits, received>>

PayAccepted(t) ==
  /\ At(t, "accept")
  /\ \E i \in left[t] :
       /\ NextIs(t, i)
       /\ rewards' = [rewards EXCEPT ![t][i] = AcceptedReward(freq, batch[t], i)]
       /\ Visit(t, left[t] \ {i})
  /\ UNCHANGED <<globals, process, pc, batch, vmOk, todo, key, val, response, hits, received>>

AcceptedDone(t) ==
  /\ At(t, "accept") /\ left[t] = {}
  /\ Visit(t, Accepted(batch[t]))
  /\ IF DecayNum < DecayDen
     THEN Goto(t, "decay") /\ Scan(t, DOMAIN freq)
     ELSE Goto(t, "bump") /\ UNCHANGED todo
  /\ UNCHANGED <<globals, process, batch, vmOk, key, val, rewards, response, hits, received>>

-----------------------------------------------------------------------------
(* The frontier: ageing, then one increment per program and counter.  Each *)
(* is a read and a write of the dict.                                      *)

ReadFreq(t, label) ==
  /\ \E p \in todo[t] :
       /\ key' = [key EXCEPT ![t] = p]
       /\ val' = [val EXCEPT ![t] = Get(freq, p)]
  /\ Goto(t, label)
  /\ UNCHANGED <<globals, process, batch, vmOk, left, todo, rewards, response, hits, received>>

DecayRead(t) == At(t, "decay") /\ ReadFreq(t, "decayStore")

DecayStore(t) ==
  /\ At(t, "decayStore")
  /\ freq' = Put(freq, key[t], (val[t] * DecayNum) \div DecayDen)
  /\ Scan(t, todo[t] \ {key[t]}) /\ Consume(t)
  /\ Goto(t, "decay")
  /\ UNCHANGED <<pcSet, maxPcs, callCount, lastDepths, lastCounts, process, batch, vmOk, left,
                 rewards, response, hits, received>>

DecayDone(t) ==
  /\ At(t, "decay") /\ todo[t] = {}
  /\ Goto(t, "bump")
  /\ UNCHANGED <<globals, process, locals, response, hits, received>>

BumpProgram(t) ==
  /\ At(t, "bump") /\ todo[t] = {}
  /\ \E i \in left[t] :
       /\ NextIs(t, i)
       /\ Scan(t, Covers(batch[t], i))
       /\ Visit(t, left[t] \ {i})
  /\ UNCHANGED <<globals, process, pc, batch, vmOk, key, val, rewards, response, hits, received>>

BumpRead(t) == At(t, "bump") /\ ReadFreq(t, "bumpStore")

\* Adds the hits of the whole group for every program of it.
FaultyGroupBump(t) ==
  /\ At(t, "bumpStore")
  /\ freq' = Put(freq, key[t], val[t] +
               FreqUnit * Cardinality({i \in Accepted(batch[t]) : key[t] \in Covers(batch[t], i)}))
  /\ hits' = [hits EXCEPT ![key[t]] = @ + 1]
  /\ Scan(t, todo[t] \ {key[t]}) /\ Consume(t)
  /\ Goto(t, "bump")
  /\ UNCHANGED <<pcSet, maxPcs, callCount, lastDepths, lastCounts, process, batch, vmOk, left,
                 rewards, response, received>>

\* Restarts the count at one.
FaultyFirstHit(t) ==
  /\ At(t, "bumpStore")
  /\ freq' = Put(freq, key[t], FreqUnit)
  /\ hits' = [hits EXCEPT ![key[t]] = @ + 1]
  /\ Scan(t, todo[t] \ {key[t]}) /\ Consume(t)
  /\ Goto(t, "bump")
  /\ UNCHANGED <<pcSet, maxPcs, callCount, lastDepths, lastCounts, process, batch, vmOk, left,
                 rewards, response, received>>

BumpStore(t) ==
  /\ At(t, "bumpStore")
  /\ freq' = Put(freq, key[t], val[t] + FreqUnit)
  /\ hits' = [hits EXCEPT ![key[t]] = @ + 1]
  /\ Scan(t, todo[t] \ {key[t]}) /\ Consume(t)
  /\ Goto(t, "bump")
  /\ UNCHANGED <<pcSet, maxPcs, callCount, lastDepths, lastCounts, process, batch, vmOk, left,
                 rewards, response, received>>

BumpDone(t) ==
  /\ At(t, "bump") /\ todo[t] = {} /\ left[t] = {}
  /\ Goto(t, "publish")
  /\ UNCHANGED <<globals, process, locals, response, hits, received>>

-----------------------------------------------------------------------------
(* Telemetry and the call counter.                                         *)

PublishDepths(t) ==
  /\ At(t, "publish")
  /\ lastDepths' = DepthsOf(batch[t], vmOk[t])
  /\ Goto(t, "publishCounts")
  /\ UNCHANGED <<pcSet, maxPcs, freq, callCount, lastCounts, process, locals, response, hits, received>>

PublishCounts(t) ==
  /\ At(t, "publishCounts")
  /\ lastCounts' = Counts(batch[t], vmOk[t])
  /\ Goto(t, "count")
  /\ UNCHANGED <<pcSet, maxPcs, freq, callCount, lastDepths, process, locals, response, hits, received>>

CountRead(t) ==
  /\ At(t, "count")
  /\ val' = [val EXCEPT ![t] = callCount]
  /\ Goto(t, "countStore")
  /\ UNCHANGED <<globals, process, batch, vmOk, left, todo, key, rewards, response, hits, received>>

CountStore(t) ==
  /\ At(t, "countStore")
  /\ callCount' = val[t] + 1
  /\ Consume(t)
  /\ Goto(t, "cadence")
  /\ UNCHANGED <<pcSet, maxPcs, freq, lastDepths, lastCounts, process, batch, vmOk, left, todo, rewards,
                 response, hits, received>>

CheckCadence(t) ==
  /\ At(t, "cadence")
  /\ Goto(t, IF callCount % SaveEvery = 0 THEN "savePcs" ELSE "respond")
  /\ UNCHANGED <<globals, process, locals, response, hits, received>>

-----------------------------------------------------------------------------
(* Saving.  open("w") truncates the file; the content arrives when it is   *)
(* written and closed.                                                     *)

OpenFile(t, from, to, truncated) ==
  /\ At(t, from)
  /\ disk' = truncated
  /\ Goto(t, to)
  /\ UNCHANGED <<globals, up, savedHits, crashes, batch, vmOk, left, key, val, rewards, response,
                 hits, received>>

WriteFile(t, from, to, written) ==
  /\ At(t, from)
  /\ disk' = written
  /\ Goto(t, to) /\ Scan(t, {})
  /\ UNCHANGED <<globals, up, crashes, batch, vmOk, left, key, val, rewards, response, hits, received>>

OpenPcs(t)  == OpenFile(t, "savePcs", "writePcs", [disk EXCEPT !.pcs = None]) /\ UNCHANGED todo
WritePcs(t) == WriteFile(t, "writePcs", "saveMax", [disk EXCEPT !.pcs = pcSet]) /\ UNCHANGED savedHits
OpenMax(t)  == OpenFile(t, "saveMax", "writeMax", [disk EXCEPT !.max = None]) /\ UNCHANGED todo
WriteMax(t) == WriteFile(t, "writeMax", "saveFreq", [disk EXCEPT !.max = maxPcs]) /\ UNCHANGED savedHits

\* The frontier is iterated after the file was opened.
OpenFreq(t) ==
  /\ OpenFile(t, "saveFreq", "writeFreq", [disk EXCEPT !.freq = None])
  /\ Scan(t, DOMAIN freq)

WriteFreq(t) ==
  /\ DOMAIN freq = todo[t]
  /\ WriteFile(t, "writeFreq", "respond", [disk EXCEPT !.freq = freq])
  /\ savedHits' = hits

\* The dict grew under the iteration: RuntimeError, the request fails with
\* status 500 and the file stays as open left it.
WriteFreqRaises(t) ==
  /\ At(t, "writeFreq") /\ DOMAIN freq # todo[t]
  /\ Return(t)
  /\ UNCHANGED <<globals, process, response, hits, received>>

-----------------------------------------------------------------------------
(* The answer.  post_rewards reads the globals again.                      *)

Respond(t) ==
  /\ At(t, "respond")
  /\ response' = [response EXCEPT ![t] =
       [batch |-> batch[t], vmOk |-> vmOk[t], rewards |-> rewards[t],
        cumulative |-> Cardinality(pcSet), depths |-> lastDepths, max |-> maxPcs,
        counts |-> lastCounts, frontier |-> Cardinality(DOMAIN freq)]]
  /\ Return(t)
  /\ UNCHANGED <<globals, process, hits, received>>

-----------------------------------------------------------------------------
(* The process.                                                            *)

\* The server dies: every request dies with it, the files stay as they are.
Crash ==
  /\ up /\ crashes < MaxCrashes
  /\ up' = FALSE /\ crashes' = crashes + 1
  /\ pc' = [t \in Threads |-> "idle"]
  /\ batch' = [t \in Threads |-> <<>>] /\ vmOk' = [t \in Threads |-> TRUE]
  /\ left' = [t \in Threads |-> {}] /\ todo' = [t \in Threads |-> {}]
  /\ key' = [t \in Threads |-> None] /\ val' = [t \in Threads |-> 0]
  /\ rewards' = [t \in Threads |-> <<>>]
  /\ UNCHANGED <<globals, disk, savedHits, response, hits, received>>

\* It starts only if every file parses: json.load raises on the others.
Restart ==
  /\ ~up /\ disk.pcs # None /\ disk.max # None /\ disk.freq # None
  /\ up' = TRUE
  /\ pcSet' = disk.pcs
  /\ maxPcs' = IF disk.max > 1 THEN disk.max ELSE 1
  /\ freq' = disk.freq /\ hits' = savedHits
  /\ callCount' = 0 /\ lastDepths' = <<>> /\ lastCounts' = NoCounts
  /\ UNCHANGED <<disk, savedHits, crashes, pc, locals, response, received>>

-----------------------------------------------------------------------------

Compute(t) ==
  \/ VmAnswers(t) \/ VmFails(t) \/ WatchdogReturns(t)
  \/ MergeCoverage(t) \/ CompareDepth(t) \/ StoreDepth(t) \/ MergeDone(t)
  \/ PayRejected(t) \/ RejectedDone(t) \/ PayAccepted(t) \/ AcceptedDone(t)
  \/ DecayRead(t) \/ DecayStore(t) \/ DecayDone(t)
  \/ BumpProgram(t) \/ BumpRead(t) \/ BumpStore(t) \/ BumpDone(t)
  \/ PublishDepths(t) \/ PublishCounts(t)
  \/ CountRead(t) \/ CountStore(t) \/ CheckCadence(t)
  \/ OpenPcs(t) \/ WritePcs(t) \/ OpenMax(t) \/ WriteMax(t)
  \/ OpenFreq(t) \/ WriteFreq(t) \/ WriteFreqRaises(t)
  \/ Respond(t)

Next ==
  \/ \E t \in Threads : Compute(t) \/ \E b \in Batches : Receive(t, b)
  \/ Crash
  \/ Restart

Spec == Init /\ [][Next]_vars

\* Every thread that can run is eventually scheduled; one that waits for the
\* watchdog cannot (VmWatchdog has the script).
Runnable(t) == pc[t] # "watchdog" /\ Compute(t)
Fairness == \A t \in Threads : WF_vars(Runnable(t))

FairSpec == Spec /\ Fairness

-----------------------------------------------------------------------------
(* Properties.                                                             *)

InProgress == {t \in Threads : pc[t] # "idle"}

\* A frontier counts some of the counters.
IsFrontier(f) == \E D \in SUBSET PCs : f \in [D -> Nat]

\* The types of the variables; a loop visits only positions of its own batch
\* that went to the VM.
TypeOK ==
  /\ pcSet \in SUBSET PCs /\ maxPcs \in Nat \ {0} /\ IsFrontier(freq) /\ callCount \in Nat
  /\ up \in BOOLEAN
  /\ disk = [pcs |-> disk.pcs, max |-> disk.max, freq |-> disk.freq]
  /\ disk.pcs = None \/ disk.pcs \in SUBSET PCs
  /\ disk.max = None \/ disk.max \in Nat \ {0}
  /\ disk.freq = None \/ IsFrontier(disk.freq)
  /\ pc \in [Threads -> Labels]
  /\ batch \in [Threads -> Seq(Programs)] /\ vmOk \in [Threads -> BOOLEAN]
  /\ left \in [Threads -> SUBSET Nat]
  /\ \A t \in Threads : left[t] \subseteq ToValidate(batch[t])
  /\ todo \in [Threads -> SUBSET PCs]
  /\ key \in [Threads -> PCs \cup {None}] /\ val \in [Threads -> Nat]
  /\ rewards \in [Threads -> Seq(Nat)]
  /\ \A t \in Threads : Len(rewards[t]) = Len(batch[t])
  /\ DOMAIN response = Threads
  /\ hits \in [PCs -> Nat] /\ savedHits \in [PCs -> Nat]

\* "valid always beats invalid" (ml/reward.py:7, tests/test_reward.py:178):
\* in the answer to a batch the VM validated, every ACCEPTED program is paid
\* more than every other program, whatever requests ran in between.
ValidBeatsInvalid ==
  \A t \in Threads :
    LET r == response[t] IN
    (r # None /\ r.vmOk) =>
      \A i \in Accepted(r.batch) : \A j \in DOMAIN r.batch \ Accepted(r.batch) :
        r.rewards[i] > r.rewards[j]

\* The frontier holds only counters that the coverage set holds: a program's
\* counters are merged before its hits are counted (ml/reward.py:512, 558),
\* and the files are written in that order too (ml/reward.py:566-568).
FrontierCovered == up => DOMAIN freq \subseteq pcSet

\* However requests interleave, and whatever a crash loses, no counter of the
\* frontier exceeds the increments that were made for it: the global novelty
\* term never punishes a path for hits that did not happen.
FrontierNeverOvercounts ==
  up => \A p \in DOMAIN freq : freq[p] <= FreqUnit * hits[p]

\* "a persistent count of how many times each PC has been hit by an ACCEPTED
\* program" (ml/reward.py:26): with no request in progress and no ageing, the
\* frontier is the exact tally of the increments.
FrontierExact ==
  (up /\ InProgress = {} /\ DecayNum = DecayDen) =>
    \A p \in PCs : Get(freq, p) = FreqUnit * hits[p]

\* A request that was taken up is answered, fails or dies with the server, however
\* the others move the globals under it; the one thing that can keep it for ever
\* is a watchdog that does not come back (ml/reward.py:402-403 has no timeout).
RequestsEnd == \A t \in Threads : []<>(pc[t] = "idle") \/ <>[](pc[t] = "watchdog")

=============================================================================
