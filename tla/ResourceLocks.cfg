SPECIFICATION LocksSpec
CONSTANTS
  t1 = t1
  t2 = t2
  t3 = t3
  Tasks <- MCTasks
  Keys <- MCKeys
INVARIANTS NoLostWakeup NoCircularWait
PROPERTY EveryoneServed
