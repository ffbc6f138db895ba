SPECIFICATION FairRunnerSpec
CONSTANTS
    Orders = {o1}
    Runs = {r1}
    NULL = NULL
    MaxVersion = 2
    MaxNow = 0
    CapturedCents = {2}
    DeliveryTimes = {}
    Statuses = {"PAID", "CAPTURED", "PREPARING", "SHIPPED"}
    Edited = {"shipment"}
    SilentEdits = FALSE
    Actions = {"cancel_order"}
    Amounts = {}
    Lossy = {"cancel_order", "issue_refund"}
    PermitTTL = 0
    MaxPermits = 0
    MaxCalls = 0
    AutoRefundLimit = 1
    RefundPolicy <- MCRefundPolicy
    MaxProposals = 1
    Flaky = {"order", "payment", "shipment", "refund_policy"}
    AllowReplan = {FALSE}
    ChainProposals = {FALSE}
    ReplayLast = {FALSE}
CHECK_DEADLOCK FALSE
PROPERTIES
    ShippedIsNotCancelled
