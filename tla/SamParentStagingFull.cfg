SPECIFICATION FairSpec
CONSTANTS
  curved = curved
  radial = radial
  flat = flat
  tile = tile
  group = group
  Parents = {curved, radial, flat}
  Children = {}
  Callers = {}
  Lender <- NoLender
  Base <- FullBase
  Ask <- NoLender
  Dense <- FullDense
  Mandatory = {}
  Allowance = 2
  SdkFloor = 1
  MinExtra = 4
  MaxExtra = 8
  MaxBank = 0
  Headrooms = {100}
  Capacity = 16
  Scopes <- NoScopes
  Cheap = {flat}
  Tiles = {}
  Workers = 2
  DenseLimit = 100
PROPERTY EveryParentIsPrepared
CHECK_DEADLOCK FALSE
