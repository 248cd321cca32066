\* One request at a time, with crashes between any two steps: the local trainer,
\* and a remote one that loses nothing.
SPECIFICATION Spec
CONSTANTS
  None = None
  PCs <- MCPCs
  Programs <- MCPrograms
  Outcome <- MCOutcome
  Unit = 12
  FreqUnit = 4
  W_VALID = 12
  W_NOVELTY = 12
  W_GLOBAL = 24
  W_REJECT_MAX = 9
  Threads = {t1}
  Batches <- PairBatches
  SaveEvery = 1
  DecayNum = 1
  DecayDen = 1
  MaxRequests = 2
  MaxCrashes = 2
INVARIANTS
  FrontierExact
  FrontierCovered
\* the bound on requests ends every run; a file cut short by a crash stops the server for good
CHECK_DEADLOCK FALSE
