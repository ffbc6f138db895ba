SPECIFICATION Spec
CONSTANTS
    Orders = {o1}
    Runs = {r1}
    NULL = NULL
    MaxVersion = 2
    MaxNow = 1
    CapturedCents = {2}
    DeliveryTimes = {}
    Statuses = {"PAID", "CAPTURED", "REFUNDED"}
    Edited = {"payment"}
    SilentEdits = FALSE
    Actions = {"issue_refund"}
    Amounts = {0, 1}
    Lossy = {"cancel_order", "issue_refund", "create_support_ticket"}
    PermitTTL = 0
    MaxPermits = 1
    MaxCalls = 2
CHECK_DEADLOCK FALSE
INVARIANTS
    NoBareRejectionAfterCommit
