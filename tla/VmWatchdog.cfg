SPECIFICATION FairSpec
CONSTANTS
  d1 = d1
  d2 = d2
  p1 = p1
  p2 = p2
  Dogs = {d1, d2}
  Bench = Bench
  Pids = {p1, p2}
  NoPid = NoPid
  MaxFaults = 2
INVARIANTS
  NamedUnlessOverlapped
PROPERTIES
  SessionStopsVm
  DogsEnd
  RecoversAlone
\* a guest that hangs can hold every dog for ever
CHECK_DEADLOCK FALSE
