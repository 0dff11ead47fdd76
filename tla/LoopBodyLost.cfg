SPECIFICATION LoopSpec
CONSTANTS
  MaxParts = 2
  ChunkSize = 2
  Word = 8
  MaxTrips = 7
  Cells = {0, 1, 2, 3, 4, 5, 6, 7}
  Functions <- Rotated
INVARIANT WorkerRunsBody
