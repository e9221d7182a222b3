SPECIFICATION Spec
CONSTANTS
  Capacity = 2
  GpuBytes <- MCGpuBytes
  HostWork <- MCHostWork
  GpuLimit = 2
  HostLimit = 2
  MaxFaults = 3
  MaxInterrupts = 0
INVARIANTS
  BooksExact TaskJoined OutcomeIsTrue
PROPERTY TaskEnds
