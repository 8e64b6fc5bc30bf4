SPECIFICATION Spec
CONSTANTS
  c1 = c1
  c2 = c2
  c3 = c3
  Clients <- MCThree
  Procs <- Procs4
  MaxTokens = 2
  MaxSent = 4
  Residue <- NoResidue
  Eof = FALSE
  Leaving = FALSE
SYMMETRY Symmetry
INVARIANTS InOrder NoDuplicate
CHECK_DEADLOCK FALSE
