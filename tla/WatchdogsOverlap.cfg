SPECIFICATION Spec
CONSTANTS
  d1 = d1
  d2 = d2
  p1 = p1
  p2 = p2
  Dogs = {d1, d2}
  Bench = Bench
  Pids = {p1, p2}
  NoPid = NoPid
  MaxFaults = 0
INVARIANT
  NamedByPidFile
