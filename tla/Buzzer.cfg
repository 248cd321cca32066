SPECIFICATION FzFairSpec
CONSTANTS
  good = good
  bad = bad
  a1 = a1
  a2 = a2
  a3 = a3
  tail = tail
  Programs <- MCPrograms
  Accepted <- MCAccepted
  Trace <- MCTrace
  Addresses <- MCAddresses
  Noise <- MCNoise
  BufferSize = 3
  Strategies = {"coverage_based", "cbpf_random_instruction"}
  Logs = {"denied"}
  NoLog = NoLog
  NoResult = NoResult
  MaxFds = 6
  MaxPrograms = 2
  Bits = {0, 1}
  CvAddresses <- MCCvAddresses
  MAX_PROG_REUSE = 1
INVARIANTS
  EbpfLeavesOthersAlone
  NothingLeaks
  CoverageIsOwn
  VerdictsAddUp
  TablesExplained
  NoTwins
PROPERTIES
  LoopComesAround
  RunsDry
CHECK_DEADLOCK FALSE
