SPECIFICATION FairBoot
CONSTANTS
  Image <- MCImage
  N = 3
  DataStart = 2
  EndByte = 16
  MemWords = 7
  SramWords = 5
  Frame = 2
  UsrStacks <- MCUsrStacks
  UsrFrame = 2
  Media = {"nor", "nand"}
  Vals = {13, 14}
  Junk = 99
  MaxResets = 2
INVARIANTS VectorsIntact
PROPERTIES BootCompletes ImplementsLoader
CHECK_DEADLOCK FALSE
