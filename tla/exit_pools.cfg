\* Two tokens over four pools: every freeze of them, what two changes of the world
\* make of the runs after it, and the folds of what was promoted after one change, in
\* markets where a pool is out of the ordinary.
SPECIFICATION MCSpec
CONSTANTS
  None = None
  Pools = {1, 2, 3, 4}
  Tokens = {"crv", "gho"}
  KeepersOf <- KeeperPools
  Structural = {4}
  Sizes = {4, 6, 100}
  Floor = 5
  MaxMoves = 2
  Assets = {1, 2, 3, 4, 5}
  Paired <- PairedAssets
  Wide = {3}
  Kind <- Kinds
  Composition <- BasePools
  Points = {50, 100, 200, 500}
  Markets <- MarketsOf
  Venues <- VenuesOf
  Configured <- Rows
  Linked = {4}
INVARIANTS StressInputsTrue FoldHasCause
PROPERTIES FreezeIsShortest GrowthIsNeverPromoted FallIsDisclosed
CONSTRAINT ReadAgain
CHECK_DEADLOCK FALSE
