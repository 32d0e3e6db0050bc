\* Expected violation: the expiry cron overwrites a payment settled meanwhile.
\* A single event, so that nothing but the cron can do it.
CONSTANTS
    o1 = o1
    p1 = p1
    paid = paid
    declined = declined
    Orders = {o1}
    Payments = {p1}
    OrderOf <- OneOrder
    Events = {paid}
    PaymentOf <- BothAboutIt
    Verdict <- SecondTry
    Workers = {w1, w2}
    NoEvent = NoEvent
    MaxCopies = 1
    MaxFaults = 0
SPECIFICATION Spec
PROPERTIES
    CompletedStaysCompleted
CHECK_DEADLOCK FALSE
