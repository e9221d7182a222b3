SPECIFICATION DeferredSpec
CONSTANTS
  wide = wide
  heavy = heavy
  light = light
  Jobs = {wide, heavy, light}
  Children <- MCChildren
  SourceBytes <- MCSource
  WorkingBytes <- MCWorking
  Workers = 2
  MaxPending = 2
  MaxSource = 4
  MaxWorking = 4
  Budgets = {2, 8}
INVARIANTS OneOwnerInOrder
PROPERTIES NobodyStarves LayersSettle
CHECK_DEADLOCK FALSE
