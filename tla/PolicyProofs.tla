---------------------------- MODULE PolicyProofs ----------------------------
(***************************************************************************)
(* What Policy decides, proved for any amounts, limits, windows and times. *)
(*                                                                         *)
(* The step of MCPolicy decides once, on inputs that do not change, so     *)
(* each property is one of Evaluate; what it takes is when the cascade of  *)
(* early returns gets as far as each of its ends.                          *)
(***************************************************************************)
EXTENDS MCPolicy, TLAPS

policyVars == <<proposal, snapshot, verdict>>

(* A proposal that passed the schema gate, and records as they are read.   *)
Input(pr, s) ==
    /\ pr \in Proposals(ActionName, Nat)
    /\ DOMAIN s = {"now", "order", "payment", "shipment", "refund_policy", "read_failures"}
    /\ s.now \in Int
    /\ s.order # NULL =>
          s.order \in [id : {pr.order}, status : OrderStatus,
                       delivered : Int \cup {NULL}, version : {1}]
    /\ s.payment # NULL =>
          s.payment \in [order : {pr.order}, status : PaymentStatus,
                         captured : Nat, version : {2}]
    /\ s.shipment # NULL => s.shipment \in [status : ShipmentStatus, version : {3}]
    /\ s.refund_policy # NULL => s.refund_policy \in [limit : Nat, window : Nat]

DecidedOnce ==
    /\ Input(proposal, snapshot)
    /\ verdict # NULL => verdict = Evaluate(proposal, snapshot)

LEMMA DecidedOnceHolds == Spec => []DecidedOnce
<1>1. Init => DecidedOnce
  <2> SUFFICES ASSUME Init PROVE DecidedOnce
    OBVIOUS
  <2>1. proposal \in Proposals(ActionName, Nat) /\ verdict = NULL
    BY MCPolicyAssumption DEF Init, Proposals
  <2>2. snapshot \in [now : MCTimes,
                 order : OrderRecords(proposal.order) \cup {NULL},
                 payment : ReadOf("payment", proposal.action, PaymentRecords(proposal.order)),
                 shipment : ReadOf("shipment", proposal.action, ShipmentRecords),
                 refund_policy : ReadOf("refund_policy", proposal.action, PolicyRecords),
                 read_failures : SUBSET RequiredRecords(proposal.action)]
    BY DEF Init, Snapshots
  <2>3. /\ snapshot.now \in MCTimes
        /\ snapshot.order \in OrderRecords(proposal.order) \cup {NULL}
        /\ snapshot.payment \in PaymentRecords(proposal.order) \cup {NULL}
        /\ snapshot.shipment \in ShipmentRecords \cup {NULL}
        /\ snapshot.refund_policy \in PolicyRecords \cup {NULL}
    BY <2>2 DEF ReadOf
  <2>4. DOMAIN snapshot =
            {"now", "order", "payment", "shipment", "refund_policy", "read_failures"}
    BY <2>2
  <2> QED
    BY <2>1, <2>3, <2>4, MCPolicyAssumption
       DEF DecidedOnce, Input, OrderRecords, PaymentRecords, ShipmentRecords, PolicyRecords
<1>2. DecidedOnce /\ [Next]_policyVars => DecidedOnce'
  <2> SUFFICES ASSUME DecidedOnce, [Next]_policyVars PROVE DecidedOnce'
    OBVIOUS
  <2>1. UNCHANGED <<proposal, snapshot>>
    BY DEF Next, Decide, policyVars
  <2>2. verdict' = verdict \/ verdict' = Evaluate(proposal, snapshot)
    BY DEF Next, Decide, policyVars
  <2> QED
    BY <2>1, <2>2 DEF DecidedOnce
<1> QED
    BY <1>1, <1>2, PTL DEF Spec, policyVars

-----------------------------------------------------------------------------
(* How far the cascade gets.                                               *)

(* Nothing that is required is missing.                                    *)
AllRead(pr, s) == s.read_failures = {} /\ MissingRecords(pr, s) = {}

LEMMA WhatIsRead ==
    ASSUME NEW pr, NEW s, pr.action \in ActionName, AllRead(pr, s)
    PROVE  /\ s.order # NULL
           /\ pr.action = "cancel_order" => s.shipment # NULL
           /\ pr.action = "issue_refund" => s.payment # NULL /\ s.refund_policy # NULL
<1>1. \A name \in RequiredRecords(pr.action) : s[name] # NULL
    BY DEF AllRead, MissingRecords
<1>2. "order" \in RequiredRecords(pr.action)
    BY DEF RequiredRecords, ActionName
<1>3. pr.action = "cancel_order" => "shipment" \in RequiredRecords(pr.action)
    BY DEF RequiredRecords
<1>4. pr.action = "issue_refund" =>
            "payment" \in RequiredRecords(pr.action)
            /\ "refund_policy" \in RequiredRecords(pr.action)
    BY DEF RequiredRecords
<1> QED
    BY <1>1, <1>2, <1>3, <1>4

(* What each action comes to, once its records were read.                  *)
LEMMA EvaluateIs ==
    ASSUME NEW pr, NEW s, pr.action \in ActionName
    PROVE  /\ ~AllRead(pr, s) =>
                Evaluate(pr, s) = Escalate("insufficient_information", s.order)
           /\ AllRead(pr, s) =>
                /\ pr.action = "cancel_order" => Evaluate(pr, s) = EvaluateCancel(pr, s)
                /\ pr.action = "issue_refund" => Evaluate(pr, s) = EvaluateRefund(pr, s)
                /\ pr.action = "create_support_ticket" =>
                        Evaluate(pr, s) = EvaluateTicket(pr, s)
    BY DEF AllRead, Evaluate, ActionName

(* A refund that may be made automatically.                                *)
Refundable(pr, s) ==
    /\ s.payment.status # "REFUNDED"
    /\ pr.amount # NULL /\ pr.amount > 0
    /\ pr.amount <= s.payment.captured
    /\ pr.amount <= RefundLimit(s.refund_policy)
    /\ ~OutsideWindow(s.order, s.refund_policy, s.now)

LEMMA RefundIs ==
    ASSUME NEW pr, NEW s, Input(pr, s), pr.action = "issue_refund", AllRead(pr, s)
    PROVE  LET v == EvaluateRefund(pr, s)
           IN  /\ v.decision = "allow" <=> Refundable(pr, s)
               /\ v.decision = "allow" =>
                    v = Allow("refundable_within_limits", pr.amount,
                              Payment(s.payment.order), s.payment.version)
<1> DEFINE limit == RefundLimit(s.refund_policy)
           outside == OutsideWindow(s.order, s.refund_policy, s.now)
<1>1. s.payment # NULL /\ s.refund_policy # NULL
    BY WhatIsRead DEF ActionName
<1>2. /\ pr.amount \in Nat \cup {NULL}
      /\ s.payment.captured \in Nat
      /\ limit \in Nat
    BY <1>1, LimitAssumption DEF Input, Proposals, RefundLimit
<1> HIDE DEF limit, outside
<1>3. EvaluateRefund(pr, s) =
        IF s.payment.status = "REFUNDED"
          THEN Deny("payment_already_refunded")
        ELSE IF pr.amount = NULL \/ pr.amount <= 0
          THEN Deny("invalid_proposal")
        ELSE IF pr.amount > s.payment.captured
          THEN Deny("amount_exceeds_captured")
        ELSE IF pr.amount > limit
          THEN Escalate("above_auto_refund_limit", s.order)
        ELSE IF outside
          THEN Escalate("outside_return_window", s.order)
        ELSE Allow("refundable_within_limits", pr.amount,
                   Payment(s.payment.order), s.payment.version)
    BY DEF EvaluateRefund, limit, outside
<1>4. /\ \A reason : Deny(reason).decision = "deny"
      /\ \A reason, order : Escalate(reason, order).decision = "escalate"
      /\ \A reason, max, resource, version :
            Allow(reason, max, resource, version).decision = "allow"
    BY DEF Deny, Escalate, Allow
<1> QED
    BY <1>2, <1>3, <1>4 DEF Refundable, limit, outside

LEMMA CancelIs ==
    ASSUME NEW pr, NEW s, Input(pr, s), pr.action = "cancel_order", AllRead(pr, s)
    PROVE  LET v == EvaluateCancel(pr, s)
           IN  /\ v.decision = "allow" <=>
                    /\ s.order.status \in CancellableOrderStatuses
                    /\ s.shipment.status \notin ShippedOrLater
               /\ v.decision = "allow" =>
                    v = Allow("cancellable_before_shipment", 0,
                              Order(s.order.id), s.order.version)
<1>1. EvaluateCancel(pr, s) =
        IF s.order.status = "CANCELLED"
          THEN Deny("order_already_cancelled")
        ELSE IF s.order.status \in ShippedOrLater \/ s.shipment.status \in ShippedOrLater
          THEN Escalate("cancel_after_shipment", s.order)
        ELSE IF s.order.status \in CancellableOrderStatuses
          THEN Allow("cancellable_before_shipment", 0, Order(s.order.id), s.order.version)
        ELSE Escalate("cancel_after_shipment", s.order)
    BY DEF EvaluateCancel
<1>2. /\ \A reason : Deny(reason).decision = "deny"
      /\ \A reason, order : Escalate(reason, order).decision = "escalate"
      /\ \A reason, max, resource, version :
            Allow(reason, max, resource, version).decision = "allow"
    BY DEF Deny, Escalate, Allow
<1>3. s.order.status \in CancellableOrderStatuses =>
            s.order.status # "CANCELLED" /\ s.order.status \notin ShippedOrLater
    BY DEF CancellableOrderStatuses, ShippedOrLater
<1> QED
    BY <1>1, <1>2, <1>3

(* What is allowed was read, and it is one of three.                       *)
Allowable(pr, s) ==
    /\ AllRead(pr, s)
    /\ pr.action = "issue_refund" => Refundable(pr, s)
    /\ pr.action = "cancel_order" =>
          s.order.status \in CancellableOrderStatuses /\ s.shipment.status \notin ShippedOrLater

Granted(pr, s) ==
    CASE pr.action = "issue_refund" ->
            Allow("refundable_within_limits", pr.amount,
                  Payment(s.payment.order), s.payment.version)
      [] pr.action = "cancel_order" ->
            Allow("cancellable_before_shipment", 0, Order(s.order.id), s.order.version)
      [] pr.action = "create_support_ticket" ->
            Allow("ticket_requested", 0, Order(s.order.id), s.order.version)

LEMMA AllowIs ==
    ASSUME NEW pr, NEW s, Input(pr, s)
    PROVE  /\ Evaluate(pr, s).decision = "allow" <=> Allowable(pr, s)
           /\ Allowable(pr, s) => Evaluate(pr, s) = Granted(pr, s)
<1>1. pr.action \in ActionName
    BY DEF Input, Proposals
<1>2. CASE ~AllRead(pr, s)
  <2>1. Evaluate(pr, s) = Escalate("insufficient_information", s.order)
    BY <1>1, <1>2, EvaluateIs
  <2>2. Evaluate(pr, s).decision = "escalate"
    BY <2>1 DEF Escalate
  <2> QED
    BY <1>2, <2>2 DEF Allowable
<1>3. CASE AllRead(pr, s) /\ pr.action = "issue_refund"
    BY <1>1, <1>3, EvaluateIs, RefundIs DEF Allowable, Granted
<1>4. CASE AllRead(pr, s) /\ pr.action = "cancel_order"
    BY <1>1, <1>4, EvaluateIs, CancelIs DEF Allowable, Granted
<1>5. CASE AllRead(pr, s) /\ pr.action = "create_support_ticket"
  <2>1. Evaluate(pr, s) = Allow("ticket_requested", 0, Order(s.order.id), s.order.version)
    BY <1>1, <1>5, EvaluateIs DEF EvaluateTicket
  <2>2. Evaluate(pr, s).decision = "allow"
    BY <2>1 DEF Allow
  <2> QED
    BY <1>5, <2>1, <2>2 DEF Allowable, Granted
<1> QED
    BY <1>1, <1>2, <1>3, <1>4, <1>5 DEF ActionName

-----------------------------------------------------------------------------
(* The properties.                                                         *)

(* What is allowed can be carried out on the rows it was decided from: the *)
(* executor's transition table has the move, the ceiling is within what    *)
(* was captured, the pinned version is that of the row the write tool will *)
(* guard (rules.py _evaluate_refund, _evaluate_cancel; executor.py check 8)*)
THEOREM AllowancesAreExecutable == Spec => []AllowedIsExecutable
<1>1. DecidedOnce => AllowedIsExecutable
  <2> SUFFICES ASSUME DecidedOnce, verdict # NULL, verdict.decision = "allow"
               PROVE  /\ verdict.resource = ResourceOf(proposal.action, proposal.order)
                      /\ verdict.version = (IF Refund THEN snapshot.payment.version
                                                      ELSE snapshot.order.version)
                      /\ Cancel => OrderTransitionAllowed(snapshot.order.status, "CANCELLED")
                      /\ Refund => /\ PaymentTransitionAllowed(snapshot.payment.status, "REFUNDED")
                                   /\ verdict.max <= snapshot.payment.captured
    BY DEF AllowedIsExecutable
  <2>1. Input(proposal, snapshot) /\ proposal.action \in ActionName
    BY DEF DecidedOnce, Input, Proposals
  <2>2. Allowable(proposal, snapshot) /\ verdict = Granted(proposal, snapshot)
    BY <2>1, AllowIs DEF DecidedOnce
  <2>3. /\ snapshot.order # NULL
        /\ proposal.action = "issue_refund" => snapshot.payment # NULL
    BY <2>1, <2>2, WhatIsRead DEF Allowable
  <2>4. CASE Refund
    <3>1. /\ snapshot.payment.order = proposal.order
          /\ snapshot.payment.status = "CAPTURED"
          /\ proposal.amount <= snapshot.payment.captured
      BY <2>1, <2>2, <2>3, <2>4 DEF Allowable, Refundable, Refund, Input, PaymentStatus
    <3>2. verdict = Allow("refundable_within_limits", proposal.amount,
                          Payment(snapshot.payment.order), snapshot.payment.version)
      BY <2>2, <2>4 DEF Granted, Refund
    <3> QED
      BY <2>4, <3>1, <3>2
         DEF Allow, Refund, Cancel, ResourceOf, PaymentTransitionAllowed, PaymentTransitions
  <2>5. CASE ~Refund
    <3>1. snapshot.order.id = proposal.order
      BY <2>1, <2>3 DEF Input
    <3>2. \E reason : verdict = Allow(reason, 0, Order(snapshot.order.id), snapshot.order.version)
      BY <2>1, <2>2, <2>5 DEF Granted, Refund, ActionName
    <3>3. /\ verdict.resource = ResourceOf(proposal.action, proposal.order)
          /\ verdict.version = snapshot.order.version
      BY <2>5, <3>1, <3>2 DEF Allow, Refund, ResourceOf
    <3>4. Cancel => snapshot.order.status \in {"PAID", "READY_TO_SHIP"}
      BY <2>2 DEF Allowable, Cancel, CancellableOrderStatuses
    <3> QED
      BY <2>5, <3>3, <3>4 DEF OrderTransitionAllowed, OrderTransitions
  <2> QED
    BY <2>4, <2>5
<1> QED
    BY <1>1, DecidedOnceHolds, PTL

(* Every decision and reason is of the closed enums, and only an allowed   *)
(* refund carries an amount (rules.py, models/domain.py).                  *)
THEOREM PolicyTypes == Spec => []TypeOK
<1>1. DecidedOnce => TypeOK
  <2> SUFFICES ASSUME DecidedOnce, verdict # NULL
               PROVE  /\ verdict.decision \in Decision
                      /\ verdict.reason \in ReasonCode
                      /\ verdict.max \in Nat
                      /\ verdict.max > 0 => verdict.decision = "allow" /\ Refund
    BY DEF TypeOK
  <2>1. /\ Input(proposal, snapshot) /\ proposal.action \in ActionName
        /\ verdict = Evaluate(proposal, snapshot)
    BY DEF DecidedOnce, Input, Proposals
  <2>2. \/ \E reason \in ReasonCode : verdict = Deny(reason)
        \/ \E reason \in ReasonCode : \E order : verdict = Escalate(reason, order)
        \/ verdict.decision = "allow"
    <3>1. \/ Evaluate(proposal, snapshot).decision = "allow"
          \/ \E reason \in ReasonCode : Evaluate(proposal, snapshot) = Deny(reason)
          \/ \E reason \in ReasonCode : \E order : Evaluate(proposal, snapshot) = Escalate(reason, order)
      <4>1. CASE ~AllRead(proposal, snapshot)
        BY <2>1, <4>1, EvaluateIs DEF ReasonCode
      <4>2. CASE AllRead(proposal, snapshot) /\ proposal.action = "issue_refund"
        <5>1. Evaluate(proposal, snapshot) = EvaluateRefund(proposal, snapshot)
          BY <2>1, <4>2, EvaluateIs
        <5>2. \A reason, max, resource, version :
                Allow(reason, max, resource, version).decision = "allow"
          BY DEF Allow
        <5> QED
          BY <5>1, <5>2 DEF EvaluateRefund, ReasonCode
      <4>3. CASE AllRead(proposal, snapshot) /\ proposal.action = "cancel_order"
        <5>1. Evaluate(proposal, snapshot) = EvaluateCancel(proposal, snapshot)
          BY <2>1, <4>3, EvaluateIs
        <5>2. \A reason, max, resource, version :
                Allow(reason, max, resource, version).decision = "allow"
          BY DEF Allow
        <5> QED
          BY <5>1, <5>2 DEF EvaluateCancel, ReasonCode
      <4>4. CASE AllRead(proposal, snapshot) /\ proposal.action = "create_support_ticket"
        BY <2>1, <4>4, EvaluateIs DEF EvaluateTicket, Allow
      <4> QED
        BY <2>1, <4>1, <4>2, <4>3, <4>4 DEF ActionName
    <3> QED
      BY <2>1, <3>1
  <2>3. CASE verdict.decision = "allow"
    <3>1. Allowable(proposal, snapshot) /\ verdict = Granted(proposal, snapshot)
      BY <2>1, <2>3, AllowIs
    <3>2. proposal.action = "issue_refund" => proposal.amount \in Nat
      BY <2>1, <3>1 DEF Allowable, Refundable, Input, Proposals
    <3> QED
      BY <2>1, <2>3, <3>1, <3>2 DEF Granted, Allow, Decision, ReasonCode, Refund, ActionName
  <2>4. CASE \E reason \in ReasonCode : verdict = Deny(reason)
    BY <2>4 DEF Deny, Decision
  <2>5. CASE \E reason \in ReasonCode : \E order : verdict = Escalate(reason, order)
    BY <2>5 DEF Escalate, Decision
  <2> QED
    BY <2>2, <2>3, <2>4, <2>5
<1> QED
    BY <1>1, DecidedOnceHolds, PTL

(* Asking for less never turns a refund down, and a smaller request gets a *)
(* smaller ceiling, not that of the larger one (rules.py _evaluate_refund).*)
THEOREM SmallerIsNoWorse == Spec => []AskingLessIsNoWorse
<1>1. DecidedOnce => AskingLessIsNoWorse
  <2> SUFFICES ASSUME DecidedOnce, verdict # NULL, verdict.decision = "allow", Refund,
                      NEW less \in 1..proposal.amount
               PROVE  LET other == Evaluate([proposal EXCEPT !.amount = less], snapshot)
                      IN  other.decision = "allow" /\ other.max = less
    BY DEF AskingLessIsNoWorse
  <2>1. Input(proposal, snapshot) /\ Allowable(proposal, snapshot) /\ proposal.action = "issue_refund"
    BY AllowIs DEF DecidedOnce, Refund
  <2>2. PICK other : other = [proposal EXCEPT !.amount = less]
    OBVIOUS
  <2>3. /\ proposal.amount \in Nat
        /\ less \in Nat /\ 0 < less /\ less <= proposal.amount
    BY <2>1 DEF Allowable, Refundable, Input, Proposals
  <2>4. /\ other \in Proposals(ActionName, Nat)
        /\ other.action = "issue_refund"
        /\ other.order = proposal.order
        /\ other.amount = less
    BY <2>1, <2>2, <2>3 DEF Input, Proposals
  <2>5. Input(other, snapshot)
    BY <2>1, <2>4 DEF Input
  <2>6. snapshot.payment # NULL /\ snapshot.refund_policy # NULL
    BY <2>1, WhatIsRead DEF Allowable, ActionName
  <2>7. /\ snapshot.payment.captured \in Nat
        /\ RefundLimit(snapshot.refund_policy) \in Nat
    BY <2>1, <2>6, LimitAssumption DEF Input, RefundLimit
  <2>8. Refundable(other, snapshot)
    BY <2>1, <2>3, <2>4, <2>7, NullAssumption DEF Allowable, Refundable
  <2>9. AllRead(other, snapshot)
    BY <2>1, <2>4 DEF Allowable, AllRead, MissingRecords
  <2>10. Allowable(other, snapshot)
    BY <2>4, <2>8, <2>9 DEF Allowable
  <2>11. /\ Evaluate(other, snapshot).decision = "allow"
         /\ Evaluate(other, snapshot) = Granted(other, snapshot)
    BY <2>5, <2>10, AllowIs
  <2>12. Evaluate(other, snapshot).max = less
    BY <2>4, <2>11 DEF Granted, Allow
  <2> QED
    BY <2>2, <2>11, <2>12
<1> QED
    BY <1>1, DecidedOnceHolds, PTL

(* What is not allowed now is not allowed later on the same records: the   *)
(* return window only closes (rules.py _outside_return_window).            *)
THEOREM WaitingIsNoHelp == Spec => []WaitingNeverHelps
<1>1. DecidedOnce => WaitingNeverHelps
  <2> SUFFICES ASSUME DecidedOnce, verdict # NULL,
                      NEW later \in MCTimes, later >= snapshot.now,
                      Evaluate(proposal, [snapshot EXCEPT !.now = later]).decision = "allow"
               PROVE  verdict.decision = "allow"
    BY DEF WaitingNeverHelps
  <2>1. Input(proposal, snapshot) /\ verdict = Evaluate(proposal, snapshot)
    BY DEF DecidedOnce
  <2>2. PICK s : s = [snapshot EXCEPT !.now = later]
    OBVIOUS
  <2>3. /\ DOMAIN s = DOMAIN snapshot
        /\ s.now = later
        /\ s.order = snapshot.order /\ s.payment = snapshot.payment
        /\ s.shipment = snapshot.shipment /\ s.refund_policy = snapshot.refund_policy
        /\ s.read_failures = snapshot.read_failures
    BY <2>1, <2>2 DEF Input
  <2>4. later \in Int
    BY MCPolicyAssumption
  <2>5. Input(proposal, s)
    BY <2>1, <2>3, <2>4 DEF Input
  <2>6. Allowable(proposal, s)
    BY <2>2, <2>5, AllowIs
  <2>7. MissingRecords(proposal, s) = MissingRecords(proposal, snapshot)
    <3>1. \A name \in RequiredRecords(proposal.action) : s[name] = snapshot[name]
      BY <2>1, <2>3 DEF RequiredRecords, Input, Proposals, ActionName
    <3> QED
      BY <3>1 DEF MissingRecords
  <2>8. AllRead(proposal, snapshot)
    BY <2>3, <2>6, <2>7 DEF Allowable, AllRead
  <2>9. proposal.action = "issue_refund" => Refundable(proposal, snapshot)
    <3> SUFFICES ASSUME proposal.action = "issue_refund" PROVE Refundable(proposal, snapshot)
      OBVIOUS
    <3>1. snapshot.order # NULL /\ snapshot.refund_policy # NULL
      BY <2>8, WhatIsRead DEF ActionName
    <3>2. /\ snapshot.order.delivered \in Int \cup {NULL}
          /\ snapshot.refund_policy.window \in Nat
          /\ snapshot.now \in Int
      BY <2>1, <3>1 DEF Input
    <3>3. Refundable(proposal, s)
      BY <2>6 DEF Allowable
    <3>4. ~OutsideWindow(snapshot.order, snapshot.refund_policy, snapshot.now)
      BY <2>3, <2>4, <3>2, <3>3 DEF Refundable, OutsideWindow
    <3> QED
      BY <2>3, <3>3, <3>4 DEF Refundable
  <2>10. Allowable(proposal, snapshot)
    BY <2>3, <2>6, <2>8, <2>9 DEF Allowable
  <2> QED
    BY <2>1, <2>10, AllowIs
<1> QED
    BY <1>1, DecidedOnceHolds, PTL

LEMMA MinIs ==
    ASSUME NEW S \in SUBSET (1..8), S # {}
    PROVE  Min(S) \in S /\ \A j \in S : Min(S) <= j
<1>1. \E i \in S : \A j \in S : i <= j
  <2> SUFFICES ASSUME \A i \in S : \E j \in S : j < i PROVE FALSE
    OBVIOUS
  <2>1. 1 \notin S
    OBVIOUS
  <2>2. 2 \notin S
    BY <2>1
  <2>3. 3 \notin S
    BY <2>1, <2>2
  <2>4. 4 \notin S
    BY <2>1, <2>2, <2>3
  <2>5. 5 \notin S
    BY <2>1, <2>2, <2>3, <2>4
  <2>6. 6 \notin S
    BY <2>1, <2>2, <2>3, <2>4, <2>5
  <2>7. 7 \notin S
    BY <2>1, <2>2, <2>3, <2>4, <2>5, <2>6
  <2>8. 8 \notin S
    BY <2>1, <2>2, <2>3, <2>4, <2>5, <2>6, <2>7
  <2>9. \A k \in 1..8 : k \in {1, 2, 3, 4, 5, 6, 7, 8}
    OBVIOUS
  <2>10. S \subseteq {1, 2, 3, 4, 5, 6, 7, 8}
    BY <2>9
  <2> QED
    BY <2>1, <2>2, <2>3, <2>4, <2>5, <2>6, <2>7, <2>8, <2>10, Zenon
<1> QED
    BY <1>1 DEF Min

(* The rows of the table, one by one.                                      *)
LEMMA RowsAre ==
    /\ DOMAIN DesignRows = 1..8
    /\ DesignRows[1].when <=>
            /\ Cancel /\ HasOrder /\ snapshot.order.status \in {"PAID", "READY_TO_SHIP"}
            /\ snapshot.shipment # NULL
            /\ snapshot.shipment.status \notin {"SHIPPED", "DELIVERED"}
    /\ DesignRows[1].then = <<"allow", "cancellable_before_shipment">>
    /\ DesignRows[2].when =>
            Cancel /\ HasOrder /\ snapshot.order.status \in {"SHIPPED", "DELIVERED"}
    /\ DesignRows[2].then = <<"escalate", "cancel_after_shipment">>
    /\ DesignRows[3].when => Cancel /\ HasOrder /\ snapshot.order.status = "CANCELLED"
    /\ DesignRows[3].then = <<"deny", "order_already_cancelled">>
    /\ DesignRows[4].when <=> Refund /\ HasPay /\ snapshot.payment.status = "REFUNDED"
    /\ DesignRows[4].then = <<"deny", "payment_already_refunded">>
    /\ DesignRows[5].when <=>
            Refund /\ HasPay /\ Positive /\ proposal.amount > snapshot.payment.captured
    /\ DesignRows[5].then = <<"deny", "amount_exceeds_captured">>
    /\ DesignRows[6].when <=>
            Refund /\ HasPolicy /\ Positive
            /\ proposal.amount > RefundLimit(snapshot.refund_policy)
    /\ DesignRows[6].then = <<"escalate", "above_auto_refund_limit">>
    /\ DesignRows[7].when =>
            /\ Refund /\ HasPolicy /\ HasOrder /\ Positive
            /\ snapshot.order.delivered # NULL
            /\ snapshot.order.delivered + snapshot.refund_policy.window < snapshot.now
    /\ DesignRows[7].then = <<"escalate", "outside_return_window">>
    /\ DesignRows[8].when => Unread
<1>1. DOMAIN DesignRows = 1..8
    BY DEF DesignRows
<1>2. DesignRows[1].when <=>
            /\ Cancel /\ HasOrder /\ snapshot.order.status \in {"PAID", "READY_TO_SHIP"}
            /\ snapshot.shipment # NULL
            /\ snapshot.shipment.status \notin {"SHIPPED", "DELIVERED"}
    BY DEF DesignRows
<1>3. DesignRows[1].then = <<"allow", "cancellable_before_shipment">>
    BY DEF DesignRows
<1>4. DesignRows[2].when =>
            Cancel /\ HasOrder /\ snapshot.order.status \in {"SHIPPED", "DELIVERED"}
    BY DEF DesignRows
<1>5. DesignRows[2].then = <<"escalate", "cancel_after_shipment">>
    BY DEF DesignRows
<1>6. DesignRows[3].when => Cancel /\ HasOrder /\ snapshot.order.status = "CANCELLED"
    BY DEF DesignRows
<1>7. DesignRows[3].then = <<"deny", "order_already_cancelled">>
    BY DEF DesignRows
<1>8. DesignRows[4].when <=> Refund /\ HasPay /\ snapshot.payment.status = "REFUNDED"
    BY DEF DesignRows
<1>9. DesignRows[4].then = <<"deny", "payment_already_refunded">>
    BY DEF DesignRows
<1>10. DesignRows[5].when <=>
            Refund /\ HasPay /\ Positive /\ proposal.amount > snapshot.payment.captured
    BY DEF DesignRows
<1>11. DesignRows[5].then = <<"deny", "amount_exceeds_captured">>
    BY DEF DesignRows
<1>12. DesignRows[6].when <=>
            Refund /\ HasPolicy /\ Positive
            /\ proposal.amount > RefundLimit(snapshot.refund_policy)
    BY DEF DesignRows
<1>13. DesignRows[6].then = <<"escalate", "above_auto_refund_limit">>
    BY DEF DesignRows
<1>14. DesignRows[7].when =>
            /\ Refund /\ HasPolicy /\ HasOrder /\ Positive
            /\ snapshot.order.delivered # NULL
            /\ snapshot.order.delivered + snapshot.refund_policy.window < snapshot.now
    BY DEF DesignRows
<1>15. DesignRows[7].then = <<"escalate", "outside_return_window">>
    BY DEF DesignRows
<1>16. DesignRows[8].when => Unread
    BY DEF DesignRows
<1> QED
    BY <1>1, <1>2, <1>3, <1>4, <1>5, <1>6, <1>7, <1>8, <1>9, <1>10, <1>11, <1>12, <1>13, <1>14, <1>15, <1>16

(* With every record at hand the cascade of early returns has the order of *)
(* the decision table (rules.py evaluate; docs/DESIGN.md section 3).       *)
THEOREM DesignIsFollowed == Spec => []FollowsDesign
<1>1. DecidedOnce => FollowsDesign
  <2> SUFFICES ASSUME DecidedOnce, ~Unread, verdict # NULL, Matching # {}
               PROVE  <<verdict.decision, verdict.reason>> = DesignRows[Min(Matching)].then
    BY DEF FollowsDesign, FollowsTable
  <2>1. /\ Input(proposal, snapshot) /\ proposal.action \in ActionName
        /\ verdict = Evaluate(proposal, snapshot)
    BY DEF DecidedOnce, Input, Proposals
  <2>2. AllRead(proposal, snapshot)
    BY DEF Unread, AllRead
  <2>3. /\ snapshot.order # NULL
        /\ Cancel => snapshot.shipment # NULL
        /\ Refund => snapshot.payment # NULL /\ snapshot.refund_policy # NULL
    BY <2>1, <2>2, WhatIsRead DEF Cancel, Refund
  <2>4. PICK i : i = Min(Matching)
    OBVIOUS
  <2>5. i \in Matching /\ \A j \in Matching : i <= j
    <3>1. Matching \in SUBSET (1..8)
      BY RowsAre DEF Matching
    <3> QED
      BY <2>4, <3>1, MinIs
  <2>6. i \in 1..8 /\ DesignRows[i].when /\ \A j \in 1..8 : j < i => ~DesignRows[j].when
    BY <2>5, RowsAre DEF Matching
  <2>7. Cancel => verdict = EvaluateCancel(proposal, snapshot)
    BY <2>1, <2>2, EvaluateIs DEF Cancel
  <2>8. Refund => verdict = EvaluateRefund(proposal, snapshot)
    BY <2>1, <2>2, EvaluateIs DEF Refund
  <2>9. /\ \A reason : <<Deny(reason).decision, Deny(reason).reason>> = <<"deny", reason>>
        /\ \A reason, order : <<Escalate(reason, order).decision, Escalate(reason, order).reason>>
                = <<"escalate", reason>>
        /\ \A reason, max, resource, version :
                <<Allow(reason, max, resource, version).decision,
                  Allow(reason, max, resource, version).reason>> = <<"allow", reason>>
    BY DEF Deny, Escalate, Allow
  <2>10. /\ Refund => /\ proposal.amount \in Nat \cup {NULL}
                      /\ snapshot.payment.captured \in Nat
                      /\ RefundLimit(snapshot.refund_policy) \in Nat
                      /\ snapshot.refund_policy.window \in Nat
        /\ snapshot.now \in Int /\ snapshot.order.delivered \in Int \cup {NULL}
    BY <2>1, <2>3, LimitAssumption DEF Input, Proposals, RefundLimit
  <2>11. CASE i = 1
    <3>1. verdict = Allow("cancellable_before_shipment", 0, Order(snapshot.order.id),
                          snapshot.order.version)
      BY <2>6, <2>7, <2>11, RowsAre
         DEF EvaluateCancel, CancellableOrderStatuses, ShippedOrLater
    <3> QED
      BY <2>4, <2>9, <2>11, <3>1, RowsAre
  <2>12. CASE i = 2
    <3>1. verdict = Escalate("cancel_after_shipment", snapshot.order)
      BY <2>6, <2>7, <2>12, RowsAre DEF EvaluateCancel, ShippedOrLater
    <3> QED
      BY <2>4, <2>9, <2>12, <3>1, RowsAre
  <2>13. CASE i = 3
    <3>1. verdict = Deny("order_already_cancelled")
      BY <2>6, <2>7, <2>13, RowsAre DEF EvaluateCancel
    <3> QED
      BY <2>4, <2>9, <2>13, <3>1, RowsAre
  <2>14. CASE i = 4
    <3>1. verdict = Deny("payment_already_refunded")
      BY <2>6, <2>8, <2>14, RowsAre DEF EvaluateRefund
    <3> QED
      BY <2>4, <2>9, <2>14, <3>1, RowsAre
  <2>15. CASE i = 5
    <3>1. /\ Refund /\ Positive /\ proposal.amount > snapshot.payment.captured
          /\ snapshot.payment.status # "REFUNDED"
      BY <2>3, <2>6, <2>15, RowsAre DEF HasPay
    <3>2. verdict = Deny("amount_exceeds_captured")
      BY <2>8, <2>10, <3>1 DEF EvaluateRefund, Positive
    <3> QED
      BY <2>4, <2>9, <2>15, <3>2, RowsAre
  <2>16. CASE i = 6
    <3>1. /\ Refund /\ Positive /\ ~(proposal.amount > snapshot.payment.captured)
          /\ snapshot.payment.status # "REFUNDED"
          /\ proposal.amount > RefundLimit(snapshot.refund_policy)
      BY <2>3, <2>6, <2>16, RowsAre DEF HasPay
    <3>2. verdict = Escalate("above_auto_refund_limit", snapshot.order)
      BY <2>8, <2>10, <3>1 DEF EvaluateRefund, Positive
    <3> QED
      BY <2>4, <2>9, <2>16, <3>2, RowsAre
  <2>17. CASE i = 7
    <3>1. /\ Refund /\ Positive /\ ~(proposal.amount > snapshot.payment.captured)
          /\ snapshot.payment.status # "REFUNDED"
          /\ ~(proposal.amount > RefundLimit(snapshot.refund_policy))
          /\ snapshot.order.delivered # NULL
          /\ snapshot.order.delivered + snapshot.refund_policy.window < snapshot.now
      BY <2>3, <2>6, <2>17, RowsAre DEF HasPay, HasPolicy
    <3>2. OutsideWindow(snapshot.order, snapshot.refund_policy, snapshot.now)
      BY <2>10, <3>1 DEF OutsideWindow
    <3>3. verdict = Escalate("outside_return_window", snapshot.order)
      BY <2>8, <2>10, <3>1, <3>2 DEF EvaluateRefund, Positive
    <3> QED
      BY <2>4, <2>9, <2>17, <3>3, RowsAre
  <2>18. i # 8
    BY <2>6, RowsAre
  <2> QED
    BY <2>6, <2>11, <2>12, <2>13, <2>14, <2>15, <2>16, <2>17, <2>18
<1> QED
    BY <1>1, DecidedOnceHolds, PTL
=============================================================================
