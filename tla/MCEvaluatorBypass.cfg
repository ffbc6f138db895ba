SPECIFICATION EvaluatorSpec
CONSTANTS
    Orders = {o1}
    Runs = {r1}
    NULL = NULL
    MaxVersion = 2
    MaxNow = 0
    CapturedCents = {2}
    DeliveryTimes = {}
    Statuses = {"PAID", "CAPTURED"}
    Edited = {"payment"}
    SilentEdits = FALSE
    Actions = {"issue_refund"}
    Amounts = {1}
    Lossy = {"cancel_order", "issue_refund", "create_support_ticket"}
    PermitTTL = 0
    MaxPermits = 0
    MaxCalls = 0
    AutoRefundLimit = 1
    RefundPolicy <- MCRefundPolicy
    MaxProposals = 2
    Flaky = {"order", "payment", "shipment", "refund_policy"}
    AllowReplan = {TRUE}
    ChainProposals = {FALSE}
    ReplayLast = {FALSE}
    ReadMaxAttempts = 2
    FailureSpecs <- MCOneEdit
CHECK_DEADLOCK FALSE
INVARIANTS
    BypassIsReal
