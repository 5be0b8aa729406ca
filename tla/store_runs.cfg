\* Three runs of two tokens over three blocks, 9 to 11, a sheet edited once: what
\* is promoted, what is folded from what, and what a report is made of.
SPECIFICATION Spec
CONSTANTS
  None = None
  crvUSD = crvUSD
  GHO = GHO
  Tokens <- Pair
  Linkable <- Pair
  FirstBlock = 9
  MaxBlock = 11
  Counts = {1, 2}
  MaxRuns = 3
  MaxSheet = 2
INVARIANTS OneOrigin NoUnseenLoss
PROPERTY RefoldSettles
SYMMETRY Alike
CHECK_DEADLOCK FALSE
