SPECIFICATION Spec
CONSTANTS
  NumWorkers = 2
  c1 = c1  c2 = c2  t1 = t1  t2 = t2  t3 = t3  t4 = t4
  Clients = {c1, c2}
  Tasks = {t1}
  Priority <- Normal
  Programs <- StoppedOnce
INVARIANT SnapshotStaysValid
CHECK_DEADLOCK FALSE
