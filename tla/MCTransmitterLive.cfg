CONSTANTS
    Msg = {1, 2}
    User = {u1}
    Client = {android, ios}
    Ios = {ios}
    None = None
    Limit = 1
    UsersCallsBack = TRUE
    MaxChurn = 0
    MaxFaults = 1
SPECIFICATION FairSpec
PROPERTIES NotificationIsSent ConnectedOrExits
CHECK_DEADLOCK FALSE
