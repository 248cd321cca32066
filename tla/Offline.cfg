\* Every line of work on its own.
SPECIFICATION OfflineSpec
CONSTANTS
  PCs <- MCPCs
  Programs <- MCPrograms
  Outcome <- MCOutcome
  Unit = 12
  FreqUnit = 2
  W_VALID = 12
  W_NOVELTY = 12
  W_GLOBAL = 24
  W_REJECT_MAX = 9
  MaxGroup = 3
  MaxHits = 2
  MaxRecord = 4
  OffMax = 7
  ImmMax = 15
  NoCode = NoCode
  AsmLines <- MCAsmLines
  MaxLines = 2
  LogLines <- MCLogLines
  RlCallers = {c1, c2}
  MaxLog = 4
  MaxSkipped = 1
  RlRuns = 2
  RlBatches = 2
  Texts <- MCTexts
  Kernel <- MCKernel
  NumPrograms = 2
  MinInsns = 3
  MaxOt = 2
  Samples = {"a", "b", "c"}
  Valid = {"a", "b", "c"}
  TraceOf <- MCTraceOf
  Workers = 2
  NovUnit = 60
  Log <- MCLog
  MaxRuns = 2
  Inputs <- MCInputs
  Shuffle <- MCShuffle
  Seed = 42
  Epochs = 2
  SaveSteps = 1
  Encodes = {"a"}
  MaxSft = 2
  Kinds <- MCKinds
  NPrograms = 3
  BatchSize = 2
  ChunkSize = 2
  Replicates = 2
  Points = {1, 2, 9}
  MaxDs = 2
  Adapters <- MCAdapters
  N = 1
  VmUp = {"off", "on"}
  MaxBm = 3
  GrSaveSteps = 2
  GrMaxSteps = 3
  LogVerdicts = {"ACCEPTED", "ENCODE_FAIL"}
  Recent = 2
  MaxGr = 2
  MinSize = 2
  MinRatio = 2
  MinCalib = 1
  Records = {0, 1, 2}
  Sizes = {2, 4}
  MaxMd = 3
INVARIANTS
  GroupNoveltyIsMean
  StaleNeverGains
  RungsAreOrdered
  LogEncodesPerIsa
  SegmentsAreRuns
  ResultsAreOwn
  RowsAreOwn
  RunCompletes
  AdapterSawTrainOnce
  StreamingMatches
  SummaryBacked
  ChartsAreOwn
  AwqIsUsable
PROPERTIES
  RowsSurvive
  
\* a line of work ends when its bounds are reached
CHECK_DEADLOCK FALSE
