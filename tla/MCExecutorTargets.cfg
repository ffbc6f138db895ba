SPECIFICATION Spec
CONSTANTS
    Orders = {o1, o2}
    Runs = {r1, r2}
    NULL = NULL
    MaxVersion = 1
    MaxNow = 0
    CapturedCents = {2}
    DeliveryTimes = {}
    Statuses = {"PAID", "CAPTURED"}
    Edited = {}
    SilentEdits = FALSE
    Actions = {"cancel_order", "issue_refund", "create_support_ticket"}
    Amounts = {0, 1}
    Lossy = {"cancel_order", "issue_refund", "create_support_ticket"}
    PermitTTL = 0
    MaxPermits = 1
    MaxCalls = 1
CHECK_DEADLOCK FALSE
INVARIANTS
    EveryRowIsAuthorised
PROPERTIES
    KeepsPromise
