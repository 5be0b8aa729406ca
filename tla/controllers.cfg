\* Two runs over a chain that moves, with short walks, late logs, wrong answers.
SPECIFICATION MCSpec
CONSTANTS
  Absent = Absent
  Markets <- TwoMarkets
  Keepers = {"k1", "k2"}
  Others = {"flash"}
  Granted <- Grants
  CollateralOf <- Collaterals
  Worth <- Worths
  LabelRow <- Labels
  Disclosed <- Disclosures
  OracleOf <- Oracles
  Windows <- EmaWindows
  Feeds <- Graphs
  Holders = {"dao", "safe"}
  Delayed = {"dao"}
  Ceilings = {0, 8}
  Misreads <- Errors
  Bound = 12
  One = 16
  Alpha = 8
  Beta = 4
  Paired = 2
  MaxMoves = 2
  MaxSlips = 2
  MaxAssemblies = 2
INVARIANTS TreeCountsEach HeadroomWithin SupplyShownWithin WindowIsMax
CHECK_DEADLOCK FALSE
