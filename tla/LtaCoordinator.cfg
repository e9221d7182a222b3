SPECIFICATION CoordinatorFairSpec
CONSTANTS
  Work = {1, 2, 3, 4, 5, 6}
  Initial <- RootInitial
  View <- RootView
  Generation <- RootGeneration
  Cost <- RootCost
  Deps <- RootDeps
  TailEligible <- RootEligible
  Devices = {0, 1, 2}
  Owner <- MCOwner
  WorkersPerDevice = 1
  MaxGeneration = 1
  AllowTailAssist = TRUE
  HeadOrder = TRUE
  MaxFailures = 2
  Pending = Pending
  Skipped = Skipped
  Nothing = Nothing
  Stop = Stop
INVARIANTS BooksAreSound SeedsDecide DevicesAreFreeForProjection
PROPERTY Ends
