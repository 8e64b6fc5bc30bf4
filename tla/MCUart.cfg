SPECIFICATION FairUart
CONSTANTS
  MaxChars = 4
  MsgLen = 2
  MaxInterrupts = 2
PROPERTIES AllShown ImplementsConsole
CHECK_DEADLOCK FALSE
