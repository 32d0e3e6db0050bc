\* One variant with two units, two shoppers, two orders, lines of one or two.
CONSTANTS
    Users = {u1, u2}
    Orders = {o1, o2}
    Nobody = Nobody
    Variants = {2}
    MaxQty = 2
    InitialStock <- ScarceStock
    MaxUses = 0
    PerUserLimit = 0
    StockEdits = {}
    TimelySettlement = TRUE
SPECIFICATION Spec
SYMMETRY ShopSymmetry
INVARIANTS
    NoOversell
    CapturedOrdersHeld
    PaidOrdersHaveTheirStock
    StockConserved
PROPERTIES
    ImplementsInventory
