CONSTANTS
    Msg = {1, 2}
    User = {u1, u2}
    Client = {android, ios}
    Ios = {ios}
    None = None
    Limit = 2
    UsersCallsBack = TRUE
    MaxChurn = 2
    MaxFaults = 1
SYMMETRY UserSymmetry
SPECIFICATION Spec
INVARIANTS TypeOK TimerIsSet SentToAll
PROPERTIES OfferedOnce ImplementsDelivery
CHECK_DEADLOCK FALSE
