SPECIFICATION Spec
CONSTANTS
    Orders = {o1}
    Runs = {r1, r2}
    NULL = NULL
    MaxVersion = 2
    MaxNow = 1
    CapturedCents = {2}
    DeliveryTimes = {}
    Statuses = {"PAID", "CAPTURED", "REFUNDED"}
    Edited = {"payment"}
    SilentEdits = TRUE
    Actions = {"issue_refund"}
    Amounts = {0, 1}
    Lossy = {"cancel_order", "issue_refund", "create_support_ticket"}
    PermitTTL = 0
    MaxPermits = 1
    MaxCalls = 2
CHECK_DEADLOCK FALSE
SYMMETRY Symmetry
INVARIANTS
    TypeOK
    LedgerAgrees
    RefundedOnce
    SpentPermitIsReplayed
    AnswersAreTrue
    AuditCountsLedger
PROPERTIES
    OutdatedIsFinal
    KeepsPromise
