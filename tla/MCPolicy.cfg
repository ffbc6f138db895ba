SPECIFICATION Spec
CONSTANTS
    Orders = {o1}
    Runs = {r1}
    NULL = NULL
    AutoRefundLimit = 2
    MCAmounts = {0, 1, 2, 3}
    MCLimits = {0, 1, 3}
    MCTimes = {0, 1, 2, 3}
    MCWindows = {0, 1, 2}
CHECK_DEADLOCK FALSE
INVARIANTS
    TypeOK
    FollowsDesign
    AllowedIsExecutable
    AskingLessIsNoWorse
    WaitingNeverHelps
