\* Some thousand books of the three tokens over two pools: when a stress report is
\* promoted, and what its cells say of each other.
SPECIFICATION CellsSpec
CONSTANTS
  Unset = Unset
  One = 100
  Edges <- ThreeEdges
  Discount = 9
  MCR = 110
  Books <- AllBooks
  Curves <- SomeDepths
  Deep90 = {"p1", "p2"}
  ZeroBound = 1
  ReserveLt = 80
  EmodeLt = 93
  Coarse = {"usdt"}
  Volatile = {"eth", "wsteth"}
  LstNodes = {"wsteth"}
  Stable = {"usdt"}
  Exposed = {"usdt"}
INVARIANTS OutcomeHasCause LossNotHidden
CHECK_DEADLOCK FALSE
