\* Two runs with up to three failing reads anywhere in them.
SPECIFICATION Spec
CONSTANTS
  None = None
  Facilitators = {"coreMinter", "lidoMinter", "flash", "remote"}
  Answers <- Probes
  Analyst <- Analysts
  PoolOf <- PoolsOf
  Instances = {"core", "lido"}
  Listed <- AsListed
  Address <- ByAddress
  Borrowers = {"ann", "bob"}
  Reserves = {"weth", "usdc", "tbtc", "dust"}
  Filters = {"mint", "borrow"}
  Histories <- TwoHistories
  Window = 2
  Debt <- Debts
  Other <- Others
  Collateral <- Posts
  Price <- Prices
  Unit <- Units
  DefaultUnit = 10
  Label <- Labels
  Gsms = {"gsmUsdc", "gsmUsdt"}
  Wrapper <- Wrappers
  Underlying <- Underlyings
  Converted <- Boxed
  Freezers = {"swap1", "swap2", "executor"}
  FreezerOn <- Roles
  GsmOf <- PointsAt
  LivePowers = {"mint", "set_ceiling", "pause", "freeze_asset", "set_oracle", "set_parameters"}
  Parts = 50
  MaxFails = 3
  MaxRuns = 2
INVARIANTS NeverOverstated GsmSideWhole DebtIsComplete
CHECK_DEADLOCK FALSE
