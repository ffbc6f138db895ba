------------------------------- MODULE Policy -------------------------------
(***************************************************************************)
(* The deterministic policy engine, src/app/policy/rules.py: a pure        *)
(* function from a proposal and the snapshot the read tools fetched to a   *)
(* decision.  A record the snapshot lacks is NULL.                         *)
(*                                                                         *)
(* Days and clock ticks are the same unit here; delivered is the time an   *)
(* order was delivered, NULL when it was not.                              *)
(***************************************************************************)
EXTENDS Domain

CONSTANT AutoRefundLimit    \* AUTO_REFUND_LIMIT_CENTS, the fallback limit

ASSUME LimitAssumption == AutoRefundLimit \in Nat \ {0}

Decision == {"allow", "deny", "escalate"}

ReasonCode ==
    { "cancellable_before_shipment", "refundable_within_limits",
      "ticket_requested", "cancel_after_shipment", "order_already_cancelled",
      "payment_already_refunded", "above_auto_refund_limit",
      "amount_exceeds_captured", "outside_return_window",
      "insufficient_information", "invalid_proposal" }

(* The records each action cannot be decided without.                      *)
RequiredRecords(action) ==
    CASE action = "cancel_order"          -> {"order", "shipment"}
      [] action = "issue_refund"          -> {"order", "payment", "refund_policy"}
      [] action = "create_support_ticket" -> {"order"}

CancellableOrderStatuses == {"PAID", "READY_TO_SHIP"}
ShippedOrLater           == {"SHIPPED", "DELIVERED"}

-----------------------------------------------------------------------------

Deny(reason) ==
    [decision |-> "deny", reason |-> reason, max |-> 0,
     resource |-> NULL, version |-> -1]

(* An escalation is aimed at the order, when there is one.                 *)
Escalate(reason, order) ==
    [decision |-> "escalate", reason |-> reason, max |-> 0,
     resource |-> IF order = NULL THEN NULL ELSE Order(order.id),
     version  |-> IF order = NULL THEN -1 ELSE order.version]

Allow(reason, max, resource, version) ==
    [decision |-> "allow", reason |-> reason, max |-> max,
     resource |-> resource, version |-> version]

MissingRecords(proposal, snapshot) ==
    { name \in RequiredRecords(proposal.action) : snapshot[name] = NULL }

-----------------------------------------------------------------------------

EvaluateCancel(proposal, snapshot) ==
    LET order    == snapshot.order
        shipment == snapshot.shipment
    IN  IF order.status = "CANCELLED"
          THEN Deny("order_already_cancelled")
        ELSE IF \/ order.status \in ShippedOrLater
                \/ shipment.status \in ShippedOrLater
          THEN Escalate("cancel_after_shipment", order)
        ELSE IF order.status \in CancellableOrderStatuses
          THEN Allow("cancellable_before_shipment", 0, Order(order.id), order.version)
        ELSE Escalate("cancel_after_shipment", order)

(* A policy row whose limit is 0 falls back to the constant, because the   *)
(* code writes "limit or AUTO_REFUND_LIMIT_CENTS".                         *)
RefundLimit(refund_policy) ==
    IF refund_policy.limit = 0 THEN AutoRefundLimit ELSE refund_policy.limit

(* A mutated form: the operands of the subtraction are swapped.            *)
OutsideWindow_Swapped(order, refund_policy, now) ==
    /\ order.delivered # NULL
    /\ order.delivered - now > refund_policy.window

OutsideWindow(order, refund_policy, now) ==
    /\ order.delivered # NULL
    /\ now - order.delivered > refund_policy.window

(* Mutated forms: the limit is checked before the captured amount; the     *)
(* permit covers the whole payment; the order's version is pinned.         *)
EvaluateRefund_LimitFirst(proposal, snapshot) ==
    LET order   == snapshot.order
        payment == snapshot.payment
        amount  == proposal.amount
    IN  IF payment.status = "REFUNDED"
          THEN Deny("payment_already_refunded")
        ELSE IF amount = NULL \/ amount <= 0
          THEN Deny("invalid_proposal")
        ELSE IF amount > RefundLimit(snapshot.refund_policy)
          THEN Escalate("above_auto_refund_limit", order)
        ELSE IF amount > payment.captured
          THEN Deny("amount_exceeds_captured")
        ELSE IF OutsideWindow(order, snapshot.refund_policy, snapshot.now)
          THEN Escalate("outside_return_window", order)
        ELSE Allow("refundable_within_limits", amount,
                   Payment(payment.order), payment.version)

EvaluateRefund_WholePayment(proposal, snapshot) ==
    IF EvaluateRefund_LimitFirst(proposal, snapshot).decision = "allow"
      THEN Allow("refundable_within_limits", snapshot.payment.captured,
                 Payment(snapshot.payment.order), snapshot.payment.version)
      ELSE EvaluateRefund_LimitFirst(proposal, snapshot)

EvaluateRefund_PinsOrder(proposal, snapshot) ==
    IF EvaluateRefund_LimitFirst(proposal, snapshot).decision = "allow"
      THEN Allow("refundable_within_limits", proposal.amount,
                 Payment(snapshot.payment.order), snapshot.order.version)
      ELSE EvaluateRefund_LimitFirst(proposal, snapshot)

(* A mutated form: a refunded payment is not turned down.                  *)
EvaluateRefund_RefundedAgain(proposal, snapshot) ==
    IF proposal.amount = NULL \/ proposal.amount <= 0
      THEN Deny("invalid_proposal")
    ELSE IF proposal.amount > snapshot.payment.captured
      THEN Deny("amount_exceeds_captured")
    ELSE Allow("refundable_within_limits", proposal.amount,
               Payment(snapshot.payment.order), snapshot.payment.version)

EvaluateRefund(proposal, snapshot) ==
    LET order   == snapshot.order
        payment == snapshot.payment
        amount  == proposal.amount
    IN  IF payment.status = "REFUNDED"
          THEN Deny("payment_already_refunded")
        ELSE IF amount = NULL \/ amount <= 0
          THEN Deny("invalid_proposal")
        ELSE IF amount > payment.captured
          THEN Deny("amount_exceeds_captured")
        ELSE IF amount > RefundLimit(snapshot.refund_policy)
          THEN Escalate("above_auto_refund_limit", order)
        ELSE IF OutsideWindow(order, snapshot.refund_policy, snapshot.now)
          THEN Escalate("outside_return_window", order)
        ELSE Allow("refundable_within_limits", amount,
                   Payment(payment.order), payment.version)

(* A mutated form: a ticket carries the proposal's amount.                 *)
EvaluateTicket_WithAmount(proposal, snapshot) ==
    Allow("ticket_requested", IF proposal.amount = NULL THEN 0 ELSE proposal.amount,
          Order(snapshot.order.id), snapshot.order.version)

EvaluateTicket(proposal, snapshot) ==
    Allow("ticket_requested", 0, Order(snapshot.order.id), snapshot.order.version)

Evaluate(proposal, snapshot) ==
    IF snapshot.read_failures # {} \/ MissingRecords(proposal, snapshot) # {}
      THEN Escalate("insufficient_information", snapshot.order)
    ELSE CASE proposal.action = "cancel_order"  -> EvaluateCancel(proposal, snapshot)
           [] proposal.action = "issue_refund"  -> EvaluateRefund(proposal, snapshot)
           [] proposal.action = "create_support_ticket"
                                                -> EvaluateTicket(proposal, snapshot)
=============================================================================
