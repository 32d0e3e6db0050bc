\* Expected violation: a settled payment leaves its order awaiting payment.
CONSTANTS
    o1 = o1
    p1 = p1
    paid = paid
    declined = declined
    Orders = {o1}
    Payments = {p1}
    OrderOf <- OneOrder
    Events = {paid, declined}
    PaymentOf <- BothAboutIt
    Verdict <- SecondTry
    Workers = {w1, w2}
    NoEvent = NoEvent
    MaxCopies = 1
    MaxFaults = 0
SPECIFICATION FairSpec
PROPERTIES
    PaidOrdersMoveOn
CHECK_DEADLOCK FALSE
