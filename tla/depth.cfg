SPECIFICATION SolverSpec
CONSTANTS
    Tol = 2
    MaxIter = 3
    MaxDoublings = 2
    Balances = {2, 3}
    Top = 25
    RoughTop = 8
    Solvable <- MCSolvable
INVARIANTS
    DepthBracketed
    CurveRises
