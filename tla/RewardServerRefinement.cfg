\* One request at a time, two batches in a row, ageing on.
SPECIFICATION RSpec
CONSTANTS
  None = None
  PCs <- MCPCs
  Programs <- MCPrograms
  Outcome <- MCOutcome
  Unit = 12
  FreqUnit = 4
  W_VALID = 12
  W_NOVELTY = 12
  W_GLOBAL = 24
  W_REJECT_MAX = 9
  Threads = {t1}
  Batches <- MCBatches
  SaveEvery = 2
  DecayNum = 1
  DecayDen = 2
  MaxRequests = 2
  MaxCrashes = 0
PROPERTY ImplementsPromise
\* the bound on requests ends every run
CHECK_DEADLOCK FALSE
