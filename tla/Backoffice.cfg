SPECIFICATION Spec
CONSTANTS
    a = a
    b = b
    one = one
    two = two
    three = three
    early = early
    second = second
    third = third
    last = last
    shipped = shipped
    confirmed = confirmed
    local = local
    faraway = faraway
\* Refunds: a payment of two units, three refunds.
    RefundKeys = {a, b, three}
    Captured = 2
    MaxCutOff = 1
\* Sessions
    Holders = {p1}
    Nobody = Nobody
    Tokens = {one, two, three}
    NoToken = NoToken
    Callers = {a, b}
\* Accounts
    MaxAccounts = 3
    Phones = {p1}
    Emails = {e1}
    Nothing = Nothing
    Goods = {g1}
    Liked = {x1}
    Visits = {v1}
    Merges = {a, b}
    MaxRows = 2
\* AddressBook
    Dwellers = {p1, p2}
    MaxAddresses = 2
    Edits = {a, b}
\* Breaker
    Replies = {a, b}
    Threshold = 2
    MaxCount = 5
    MaxOutages = 1
\* Memory
    Turns = {m1, m2, m3, m4, m5}
    NoTurn = NoTurn
    MaxRecent = 10
    SummaryTrigger = 6
    Room = 9
    WideWeight = 6
    MaxTogether = 2
\* Nudges
    Carts = {a, b}
    MaxReturns = 1
    MaxUnheard = 1
    MaxSweepsCut = 1
\* OrderMail
    Letters = {early, second, third, last}
    Kinds = {confirmed, shipped}
    KindOf <- KindOfLetter
    MaxMailCuts = 1
\* Pricing
    CartLines <- SmallCart
    MaxLines = 4
    Offers <- SomeOffers
    NoOffer = NoOffer
    NoCap = NoCap
    Freight = {4900}
    Amounts <- SomeAmounts
\* Shipping
    Cards = {c1, c2}
    CardValues <- SomeCards
    Pincodes = {p1, p2}
    Zones = {local, faraway}
    DefaultZone = faraway
    NoCard = NoCard
    NoPincode = NoPincode
    NoQuote = NoQuote
    NoAmount = NoAmount
    Parcels <- SomeParcels
\* Storefront
    Writers = {w1, w2}
    Readers = {a, b}
    Lines = {n1}
    Absent = Absent
    MaxRevision = 2
    MaxAway = 1
\* CatalogSync
    Products = {x1}
    Jobs = {a, b}
    MaxVersion = 3
    Variants = {v1}
    Whole = Whole
\* Notices
    Staff = {a, b}
    Everyone = Everyone
    Alerts = {early, second}
\* Assistant
    Chats = {a, b}
    NoChat = NoTurn
    Wares = {x1, x2}
    MaxOrders = 2
    MaxActions = 2
    MaxTurnsCut = 1
SYMMETRY Symmetry
\* Refunds are settled, jobs done, bounds used up: a behaviour may end.
CHECK_DEADLOCK FALSE
INVARIANTS
    TypesOK
    RefundsWithinPayment
    MoneyOutIsRecorded
    OneTokenPerLogin
    RevocationsHold
    MergeLosesNothing
    OneDefaultAddress
    BreakerOpensInTime
    TurnsRemembered
    OneNudgePerVisit
    OneMailPerKind
    ChargesAddUp
    WordsSayTheAmount
    CopiesAreCurrent
    SyncStatusIsTrue
    AlertsReachStaff
    OpenLinksHaveRows
PROPERTIES
    StaysRestricted
    RepliesFollowOutcomes
