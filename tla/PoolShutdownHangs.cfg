SPECIFICATION FairSpec
CONSTANTS
  NumWorkers = 2
  c1 = c1  c2 = c2  t1 = t1  t2 = t2  t3 = t3  t4 = t4
  Clients = {c1}
  Tasks = {t1, t2}
  Priority <- Normal
  Programs <- NestedAwaitAtShutdown
PROPERTY ClientsReturn
CHECK_DEADLOCK FALSE
