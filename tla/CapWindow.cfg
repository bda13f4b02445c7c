SPECIFICATION Spec
CONSTANTS
  MaxI64 = 3
  Amounts = {1, 2}
  Settings <- SomeSettings
  MaxTime = 5
  MaxOperations = 5
INVARIANTS
  CounterIsNetOutflow
  WindowBounded
CHECK_DEADLOCK FALSE
