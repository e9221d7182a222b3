SPECIFICATION FairSpec
CONSTANTS
  Groups = {front, side, polar}
  MaxPromises = 1
INVARIANTS CreditCoversArrays ShutdownSettles
PROPERTIES RequestsAreAnswered
CHECK_DEADLOCK FALSE
