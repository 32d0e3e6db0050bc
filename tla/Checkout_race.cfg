SPECIFICATION Spec
CONSTANTS
    Variants = {1, 2, 3}
    Stock <- LastUnit
    a = a
    b = b
    c = c
    ca = ca
    cb = cb
    cc = cc
    ra = ra
    rb = rb
    xa = xa
    Carts = {a, b, c}
    Lines <- SharedAndOwn
    Discounted = {a, b, c}
    MaxUses = 1
    Checkouts = {ca, cb, cc}
    Retries = {ra, rb}
    Cancels = {xa}
    Subject <- Busy
CHECK_DEADLOCK FALSE
INVARIANTS HoldsFitStock CouponLimitHolds PendingOrdersKeepHold NoCheckoutDeadlock
