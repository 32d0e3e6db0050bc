\* Expected violation: a WhatsApp checkout that runs out half way keeps holds.
CONSTANTS
    Users = {u1, u2}
    Orders = {o1, o2}
    Nobody = Nobody
    Variants = {1, 2}
    MaxQty = 1
    InitialStock <- LastUnit
    MaxUses = 0
    PerUserLimit = 0
    StockEdits = {}
    TimelySettlement = TRUE
SPECIFICATION Spec
INVARIANTS
    FailedCheckoutWritesNothing
