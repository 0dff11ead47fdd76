SPECIFICATION FairSpec
CONSTANTS
  NumWorkers = 2
  c1 = c1  c2 = c2  t1 = t1  t2 = t2  t3 = t3  t4 = t4
  Clients = {c1, c2}
  Tasks = {t1, t2, t3, t4}
  Priority <- Mixed
  Programs <- Served
INVARIANTS NoTaskLost NoAwaitCycle NothingDangles UrgentAhead
PROPERTIES ClientsReturn ImplementsService DetachedFreed
