SPECIFICATION FairSpec
CONSTANTS
  left = left
  middle = middle
  right = right
  Tiles = {left, middle, right}
  Pixels <- Row
  LastFrame = 4
  Advance = 2
  WaveLimit = 3
  Rank <- MCRank
  Overlap <- MCOverlap
  MaxGenerations = 30
  Slots = 2
  Motions <- MCMotions
  Origins <- MCOrigins
INVARIANTS CoverageIsComplete AttemptsGrow
PROPERTIES Deterministic Settles
