SPECIFICATION Spec
CONSTANTS
    Variants = {1, 2, 3}
    Stock <- LastUnit
    a = a
    b = b
    c = c
    ca = ca
    cb = cb
    cc = cc
    ra = ra
    rb = rb
    xa = xa
    Carts = {a}
    Lines <- SharedAndOwn
    Discounted = {}
    MaxUses = 1
    Checkouts = {ca, cb}
    Retries = {}
    Cancels = {}
    Subject <- Twice
CHECK_DEADLOCK FALSE
INVARIANT HoldsFitStock
