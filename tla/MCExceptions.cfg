SPECIFICATION FairExc
CONSTANTS
  EntryIs = {TRUE, FALSE}
  UsrSp <- MCUsrSp
  MaxEdges = 3
INVARIANTS ContextKept IrqNeverTaken
PROPERTIES InOrder
CHECK_DEADLOCK FALSE
