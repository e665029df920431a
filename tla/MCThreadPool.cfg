\* Three workers, one client, three tasks, some submitted by tasks.
SPECIFICATION FairSpec
CONSTANTS
  Workers = {w1, w2, w3}
  Clients = {c1}
  Tasks = {t1, t2, t3}
  NoTask = NoTask
INVARIANT
  Inv
PROPERTIES
  ImplementsPool
  ShutdownReturns
  OwedTasksRun
