\* One step, tried twice: the second try overlaps the abandoned first one.
SPECIFICATION RTSpec
CONSTANTS
  None = None
  PCs <- MCPCs
  Programs <- MCPrograms
  Outcome <- MCOutcome
  Unit = 12
  FreqUnit = 1
  W_VALID = 12
  W_NOVELTY = 12
  W_GLOBAL = 24
  W_REJECT_MAX = 9
  Threads = {t1, t2}
  Batches <- MCBatches
  SaveEvery = 5
  DecayNum = 1
  DecayDen = 1
  MaxRequests = 2
  MaxCrashes = 0
  MaxSteps = 1
  MaxTries = 2
INVARIANT FrontierExact
CHECK_DEADLOCK FALSE
