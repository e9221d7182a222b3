SPECIFICATION Spec
CONSTANTS
  wide = wide
  heavy = heavy
  l1 = l1
  l2 = l2
  l3 = l3
  l4 = l4
  Jobs = {wide, heavy, l1, l2, l3, l4}
  SourceBytes <- MCSource
  WorkingBytes <- MCWorking
  Workers = 2
  MaxPending = 3
  MaxSource = 4
  MaxWorking = 4
  Budgets = {4}
CONSTRAINT FewOrFlawless
INVARIANTS LedgerExact LimitsHold RevokedNeverRuns NoLostWakeup OvertakingBounded
PROPERTIES ImplementsHandoff
CHECK_DEADLOCK FALSE
