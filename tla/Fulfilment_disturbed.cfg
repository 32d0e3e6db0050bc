\* The last unit and a coupon with a single use, wanted by two orders, while
\* payments may settle after the hold lapsed and an admin rewrites the stock.
CONSTANTS
    Users = {u1, u2}
    Orders = {o1, o2}
    Nobody = Nobody
    Variants = {1}
    MaxQty = 1
    InitialStock <- LastUnit
    MaxUses = 1
    PerUserLimit = 1
    StockEdits = {0, 2}
    TimelySettlement = FALSE
SPECIFICATION Spec
SYMMETRY ShopSymmetry
INVARIANTS
    TypeOK
    HoldsFollowOrders
    CouponLimits
PROPERTIES
    StatusFollowsChain
