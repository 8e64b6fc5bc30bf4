SPECIFICATION FairSpec
CONSTANTS
  c1 = c1
  c2 = c2
  c3 = c3
  Clients <- MCTwo
  Procs <- Procs2
  MaxTokens = 2
  MaxSent = 4
  Residue <- EitherResidue
  Eof = TRUE
  Leaving = TRUE
INVARIANTS NoLeak
PROPERTIES PendingAccepted ExitEndsClient
CHECK_DEADLOCK FALSE
