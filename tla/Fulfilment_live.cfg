\* Liveness: no symmetry, one order each; settlement is not assumed timely.
CONSTANTS
    Users = {u1, u2}
    Orders = {o1}
    Nobody = Nobody
    Variants = {1, 2}
    MaxQty = 1
    InitialStock <- LastUnit
    MaxUses = 0
    PerUserLimit = 0
    StockEdits = {}
    TimelySettlement = FALSE
SPECIFICATION FairSpec
PROPERTIES
    NoStrandedStock
