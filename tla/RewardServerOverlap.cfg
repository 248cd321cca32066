\* Two requests in flight, for the client gave up on one and sent it again, and
\* a server that may die at any step.
SPECIFICATION FairSpec
CONSTANTS
  None = None
  PCs <- MCPCs
  Programs <- MCPrograms
  Outcome <- MCOutcome
  Unit = 12
  FreqUnit = 4
  W_VALID = 12
  W_NOVELTY = 12
  W_GLOBAL = 12
  W_REJECT_MAX = 9
  Threads = {t1, t2}
  Batches <- OverlapBatches
  SaveEvery = 1
  DecayNum = 1
  DecayDen = 2
  MaxRequests = 2
  MaxCrashes = 1
INVARIANTS
  ValidBeatsInvalid
  FrontierNeverOvercounts
PROPERTY RequestsEnd
\* the bound on requests ends every run; a file cut short by a crash stops the server for good
CHECK_DEADLOCK FALSE
