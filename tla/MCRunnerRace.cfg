SPECIFICATION RunnerSpec
CONSTANTS
    Orders = {o1}
    Runs = {r1, r2}
    NULL = NULL
    MaxVersion = 2
    MaxNow = 1
    CapturedCents = {1, 2}
    DeliveryTimes = {}
    Statuses = {"PAID", "SHIPPED", "PREPARING", "CAPTURED"}
    Edited = {"order"}
    SilentEdits = FALSE
    Actions = {"issue_refund", "cancel_order"}
    Amounts = {0, 2}
    Lossy = {"cancel_order", "issue_refund"}
    PermitTTL = 0
    MaxPermits = 3
    MaxCalls = 0
    AutoRefundLimit = 1
    RefundPolicy <- MCRefundPolicy
    MaxProposals = 1
    Flaky = {}
    AllowReplan = {TRUE}
    ChainProposals = {FALSE}
    ReplayLast = {TRUE}
CHECK_DEADLOCK FALSE
SYMMETRY Symmetry
INVARIANTS
    OnlyStaleOrExpired
PROPERTIES
    PolicyHoldsAtCommit
    AgentMovesAreLegal
    KeepsPromise
