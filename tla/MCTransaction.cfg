SPECIFICATION FairTransactionSpec
CONSTANTS
    Orders = {o1}
    Runs = {r1, r2}
    NULL = NULL
    MaxVersion = 2
    MaxNow = 0
    CapturedCents = {2}
    DeliveryTimes = {}
    Statuses = {"PAID", "PREPARING", "CAPTURED"}
    Edited = {"order", "payment"}
    SilentEdits = FALSE
    Actions = {"cancel_order", "issue_refund", "create_support_ticket"}
    Amounts = {1}
    Lossy = {}
    PermitTTL = 0
    MaxPermits = 1
    MaxCalls = 1
CHECK_DEADLOCK FALSE
INVARIANTS
    TransactionTypeOK
    LedgerAgrees
    TraceIsNeverAhead
PROPERTIES
    CommitIsAtomic
    LockIsReleased
    CallsEnd
