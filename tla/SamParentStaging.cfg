SPECIFICATION FairSpec
CONSTANTS
  curved = curved
  radial = radial
  flat = flat
  tile = tile
  group = group
  Parents = {curved, radial, flat, tile}
  Children = {group}
  Callers = {curved}
  Lender <- LenderOf
  Base <- BaseOf
  Ask <- AskOf
  Dense <- DenseOfEach
  Mandatory = {curved}
  Allowance = 2
  SdkFloor = 1
  MinExtra = 2
  MaxExtra = 2
  MaxBank = 1
  Headrooms = {5, 14, 40}
  Capacity = 12
  Scopes <- ScopesOf
  Cheap = {flat}
  Tiles = {tile}
  Workers = 3
  DenseLimit = 6
INVARIANTS CreditIsExact
PROPERTIES ProtectionIsKept EveryParentIsPrepared
CHECK_DEADLOCK FALSE
