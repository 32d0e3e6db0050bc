SPECIFICATION Spec
CONSTANTS
    u1 = u1
    Users = {u1}
    Agents = {a1, a2}
    Admins = {a1}
    NoAgent = NoAgent
    Inbound = {m1}
    Sender <- OneSender
    Slots = {w1, w2}
    NoMessage = NoMessage
    MaxCopies = 1
    MaxOps = 2
    MaxFaults = 1
    MaxUnheard = 1
SYMMETRY Symmetry
\* The customer may write no more.
CHECK_DEADLOCK FALSE
INVARIANTS TypeOK LedgerMatchesLog AnsweredOnce ColumnsAgree
