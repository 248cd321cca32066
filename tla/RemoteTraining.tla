--------------------------- MODULE RemoteTraining ---------------------------
(***************************************************************************)
(* The remote trainer of ml/rl_grpo.py (_make_remote_reward_fn) against    *)
(* the reward server: one GRPO step at a time, each posting its batch and  *)
(* posting it again when an attempt fails.  requests.post gives up after   *)
(* 60 s or when the connection breaks; the server does not notice and goes *)
(* on with the abandoned request, whose VM call and watchdog may take over *)
(* five minutes.                                                           *)
(***************************************************************************)
EXTENDS RewardServer

CONSTANTS
  MaxSteps,     \* GRPO steps of a run
  MaxTries      \* attempts that fit before the five-minute deadline

ASSUME ClientAssumption == MaxSteps \in Nat /\ MaxTries \in Nat \ {0}

VARIABLES
  client,       \* "sampling", "posting", "waiting", "failed"
  prompt,       \* the completions of the current step
  tries,        \* attempts of the current step that failed
  serving,      \* the thread the current attempt was given to, None if it was lost
  learned       \* answers the trainer has used, one per step done

clientVars == <<client, prompt, tries, serving, learned>>
allVars == <<vars, clientVars>>

RTInit ==
  /\ Init
  /\ client = "sampling" /\ prompt = <<>> /\ tries = 0 /\ serving = None /\ learned = <<>>

\* GRPOTrainer samples the completions of the next step.
Sample(b) ==
  /\ client = "sampling" /\ Len(learned) < MaxSteps
  /\ client' = "posting" /\ prompt' = b /\ tries' = 0
  /\ UNCHANGED <<vars, serving, learned>>

\* The request reaches a thread of the server.
Post(t) ==
  /\ client = "posting"
  /\ Receive(t, prompt)
  /\ client' = "waiting" /\ serving' = t
  /\ UNCHANGED <<prompt, tries, learned>>

\* The request is lost on its way, or the server is down.
PostLost ==
  /\ client = "posting"
  /\ client' = "waiting" /\ serving' = None
  /\ UNCHANGED <<vars, prompt, tries, learned>>

Answered == serving # None /\ pc[serving] = "idle" /\ response[serving] # None

\* Takes whatever answer is at hand.
FaultyAnyAnswer ==
  /\ client = "waiting"
  /\ \E t \in Threads :
       /\ pc[t] = "idle" /\ response[t] # None
       /\ learned' = Append(learned, response[t])
  /\ client' = "sampling" /\ serving' = None
  /\ UNCHANGED <<vars, prompt, tries>>

\* The answer arrives in time; the rewards and the telemetry are taken from it.
TakeAnswer ==
  /\ client = "waiting" /\ Answered
  /\ client' = "sampling" /\ serving' = None
  /\ learned' = Append(learned, response[serving])
  /\ UNCHANGED <<vars, prompt, tries>>

\* Retries without a deadline.
FaultyNoDeadline ==
  /\ client = "waiting"
  /\ client' = "posting"
  /\ serving' = None
  /\ UNCHANGED <<vars, prompt, tries, learned>>

\* The attempt fails: a timeout, a broken connection, status 500, a lost
\* answer.  The next one follows after a delay unless the deadline is near.
AttemptFails ==
  /\ client = "waiting"
  /\ tries' = tries + 1
  /\ client' = IF tries + 1 < MaxTries THEN "posting" ELSE "failed"
  /\ serving' = None
  /\ UNCHANGED <<vars, prompt, learned>>

ClientStep ==
  \/ \E b \in Batches : Sample(b)
  \/ \E t \in Threads : Post(t)
  \/ PostLost \/ TakeAnswer \/ AttemptFails

ServerStep ==
  /\ (\E t \in Threads : Compute(t)) \/ Crash \/ Restart
  /\ UNCHANGED clientVars

RTNext == ClientStep \/ ServerStep

RTSpec == RTInit /\ [][RTNext]_allVars

\* The trainer's one thread runs; so do the server's that do not wait for the
\* watchdog.
RTFairSpec ==
  RTSpec /\ WF_allVars(ClientStep)
         /\ \A t \in Threads : WF_allVars(Runnable(t) /\ UNCHANGED clientVars)

-----------------------------------------------------------------------------
(* Properties.                                                             *)

\* Accepted hits of counter p in a batch, and in the batches of the steps done.
HitsIn(b, p) == {i \in Accepted(b) : p \in Covers(b, i)}
StepHits(p) == UNION {{n} \X HitsIn(learned[n].batch, p) : n \in DOMAIN learned}

\* What the trainer learns from is the reward of its own completions, on the
\* right rung for each: an answer to an abandoned attempt is never taken for
\* the current one (ml/rl_grpo.py:210-223).
LearnsOwnRewards ==
  \A n \in 1 .. Len(learned) :
    LET r == learned[n] IN
    /\ client = "sampling" /\ n = Len(learned) => r.batch = prompt
    /\ \A i \in DOMAIN r.batch :
         IF r.vmOk /\ i \in Accepted(r.batch)
         THEN r.rewards[i] >= W_VALID ELSE r.rewards[i] <= W_REJECT_MAX

\* The frontier has counted every step the trainer has learned from, unless a
\* crash lost it, and each step at most once per try: a retry counts a batch
\* again, nothing else does, and no restart either (ml/rl_grpo.py:214-221,
\* ml/reward.py:558, 114-118).
CountedPerTry ==
  \A p \in PCs :
    /\ crashes = 0 => Cardinality({x \in StepHits(p) : learned[x[1]].vmOk}) <= hits[p]
    /\ hits[p] <= MaxTries * ( Cardinality(StepHits(p))
                   + IF client = "sampling" THEN 0 ELSE Cardinality(HitsIn(prompt, p)) )

\* The trainer is never left waiting: a step ends with rewards or, after its
\* last try, with the RuntimeError (ml/rl_grpo.py:208-221).
StepEnds == client \in {"posting", "waiting"} ~> client \in {"sampling", "failed"}
=============================================================================
