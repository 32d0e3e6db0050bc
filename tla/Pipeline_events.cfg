\* Two workers, two events about one link, every job possibly doubled, one fault.
CONSTANTS
    o1 = o1
    p1 = p1
    paid = paid
    declined = declined
    Orders = {o1}
    Payments = {p1}
    OrderOf <- OneOrder
    Events = {paid, declined}
    PaymentOf <- BothAboutIt
    Verdict <- SecondTry
    Workers = {w1, w2}
    NoEvent = NoEvent
    MaxCopies = 1
    MaxFaults = 1
SPECIFICATION FairSpec
INVARIANTS
    AnnouncedByLedger
PROPERTIES
    SettlesOnlyUnsettled
    RecordedIsHandled
CHECK_DEADLOCK FALSE
