SPECIFICATION Spec
CONSTANTS
  Threads = {t1, t2}
  Keys <- TheKeys
  Engines <- TheEngines
  Spans = {s1, s2}
  MaxTime = 1
  MaxCalls = 3
  MaxDepth = 2
  MaxOpen = 2
  MaxViolations = 2
  WordSize = 32
  MallocAlign = 4
  DefaultCapacity = 8
  Capacities = {0, 5}
  Sizes = {0, 1, 3, 8, 31}
  Alignments = {0, 1, 2, 8}
  MaxBlocks = 2
  MaxGiven = 3
INVARIANTS RegistryLive CostsTrue ArenaSound SpansSound DumpedAtExit EngineUsable
SYMMETRY ThreadSymmetry
CHECK_DEADLOCK FALSE
