SPECIFICATION Spec
CONSTANTS
  w1 = w1
  w2 = w2
  a = a
  b = b
  c = c
  d = d
  NoTask = NoTask
  Workers <- MCWorkers
  Tasks <- MCTasks
  Children <- MCChildren
INVARIANTS OnePlace NoLostWakeup
PROPERTIES OwnerNeverStuck ImplementsExecutor
