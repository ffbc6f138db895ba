SPECIFICATION FairEvaluatorSpec
CONSTANTS
    Orders = {o1}
    Runs = {r1}
    NULL = NULL
    MaxVersion = 3
    MaxNow = 0
    CapturedCents = {3}
    DeliveryTimes = {}
    Statuses = {"PAID", "SHIPPED", "CAPTURED", "PREPARING"}
    Edited = {"order", "payment", "shipment"}
    SilentEdits = FALSE
    Actions = {"issue_refund", "cancel_order", "create_support_ticket"}
    Amounts = {1, 3}
    Lossy = {"cancel_order", "issue_refund", "create_support_ticket"}
    PermitTTL = 0
    MaxPermits = 0
    MaxCalls = 0
    AutoRefundLimit = 1
    RefundPolicy <- MCRefundPolicy
    MaxProposals = 2
    Flaky = {"order", "payment", "shipment", "refund_policy"}
    AllowReplan = {TRUE, FALSE}
    ChainProposals = {TRUE, FALSE}
    ReplayLast = {TRUE, FALSE}
    ReadMaxAttempts = 2
    FailureSpecs <- MCFailureSpecs
CHECK_DEADLOCK FALSE
INVARIANTS
    RunnerTypeOK
    OutcomeMatchesWrites
    OnlyAnEditCostsTheTicket
    TraceTellsTheLedger
    MutationIsExplained
    StaleShowsTheMove
    ShortOutageIsSurvived
    CrashOnlyLosesTicket
    DatabaseAgrees
    BypassGateIsQuiet
    DuplicatesAreTickets
PROPERTIES
    RunsEnd
