\* The trainer retries an attempt that failed while the server still works on it.
SPECIFICATION RTFairSpec
CONSTANTS
  None = None
  PCs <- MCPCs
  Programs <- MCPrograms
  Outcome <- MCOutcome
  Unit = 12
  FreqUnit = 1
  W_VALID = 12
  W_NOVELTY = 12
  W_GLOBAL = 24
  W_REJECT_MAX = 9
  Threads = {t1, t2}
  Batches <- ShortBatches
  SaveEvery = 5
  DecayNum = 1
  DecayDen = 1
  MaxRequests = 3
  MaxCrashes = 1
  MaxSteps = 2
  MaxTries = 2
INVARIANTS
  LearnsOwnRewards
  CountedPerTry
PROPERTY StepEnds
\* the bound on steps ends every run
CHECK_DEADLOCK FALSE
