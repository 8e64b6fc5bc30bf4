SPECIFICATION Spec
CONSTANTS
  Heights = {7, 17, 21, 22}
  NoData = NoData
  ListHeight = 2
  Chars = {a}
  BoxWidth = 3
  MAX_LEN = 4
  MaxHscroll = 1
  Root = Main
  Main = Main
  Sub = Sub
  C = C
  D = D
  E = E
  S = S
  X = X
  Y = Y
  a = a
  Listings <- MCListings
  Values <- MCValues
  Strings <- MCStrings
  HelpTexts <- MCHelpTexts
  BoxTexts <- MCBoxTexts
INVARIANTS WindowTrue FieldTrue PageTrue
PROPERTIES ReturnsToPlace
CHECK_DEADLOCK FALSE
