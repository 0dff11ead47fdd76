SPECIFICATION ForkJoinSpec
CONSTANTS
  Tasks = {t1, t2}
  Cases <- Pipelines
  Fields <- Structs
  Functions <- Loops
  MaxParts = 2
  ChunkSize = 2
  Word = 8
  MaxTrips = 7
  Cells = {0, 1, 2, 3, 4, 5, 6, 7}
INVARIANTS NoUseAfterFree ExactlyOneFree ExceptionSurfaces
INVARIANTS ParallelIsSerial FrameOutlivesTasks StagesOrdered
INVARIANTS IterationsCovered LoopIsSerial
PROPERTY Released
