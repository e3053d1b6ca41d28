SPECIFICATION Spec
CONSTANTS
  Tasks <- ServerTasks
  Locks <- ServerLockNames
  Programs <- ServerPrograms
INVARIANTS
  NoCircularWait
