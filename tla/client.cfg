CONSTANTS
  MaxFrames = 2
SPECIFICATION FairSpec
INVARIANTS TypeOK SessionReady NothingElseLost 
PROPERTIES CommandsComplete FreeReturns
CHECK_DEADLOCK FALSE
