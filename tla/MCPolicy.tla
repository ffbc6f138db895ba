------------------------------ MODULE MCPolicy ------------------------------
(***************************************************************************)
(* Every decision of Policy over bounded inputs, compared with the table   *)
(* of docs/DESIGN.md section 3 read as an ordered list of rows, and with   *)
(* itself on neighbouring inputs.                                          *)
(***************************************************************************)
EXTENDS Policy, Sequences, FiniteSets, FiniteSetsExt

CONSTANTS
    MCAmounts,      \* amount_cents and captured_cents to try
    MCLimits,       \* auto_refund_limit_cents to try, 0 among them
    MCTimes,        \* clock readings and delivery times to try
    MCWindows       \* post_delivery_window_days to try

ASSUME MCPolicyAssumption ==
    /\ MCAmounts \subseteq Nat
    /\ MCLimits \subseteq Nat
    /\ MCTimes \subseteq Int
    /\ MCWindows \subseteq Nat

VARIABLES proposal, snapshot, verdict

-----------------------------------------------------------------------------
(* Runner._snapshot: only the records the action needs are read, each read *)
(* may fail or find no row, and the policy row is reached through the      *)
(* order.                                                                  *)

OrderRecords(o) ==
    [id : {o}, status : OrderStatus, delivered : MCTimes \cup {NULL}, version : {1}]

PaymentRecords(o) ==
    [order : {o}, status : PaymentStatus, captured : MCAmounts, version : {2}]

ShipmentRecords == [status : ShipmentStatus, version : {3}]

PolicyRecords == [limit : MCLimits, window : MCWindows]

ReadOf(name, action, records) ==
    IF name \in RequiredRecords(action) THEN records \cup {NULL} ELSE {NULL}

Snapshots(pr) ==
    LET action == pr.action
    IN  { s \in [now : MCTimes,
                 order : OrderRecords(pr.order) \cup {NULL},
                 payment : ReadOf("payment", action, PaymentRecords(pr.order)),
                 shipment : ReadOf("shipment", action, ShipmentRecords),
                 refund_policy : ReadOf("refund_policy", action, PolicyRecords),
                 read_failures : SUBSET RequiredRecords(action)] :
            /\ \A name \in s.read_failures : s[name] = NULL
            /\ s.order = NULL => s.refund_policy = NULL /\ "refund_policy" \notin s.read_failures }

Init ==
    /\ proposal \in Proposals(ActionName, MCAmounts)
    /\ snapshot \in Snapshots(proposal)
    /\ verdict = NULL

Decide ==
    /\ verdict = NULL
    /\ verdict' = Evaluate(proposal, snapshot)
    /\ UNCHANGED <<proposal, snapshot>>

Next == Decide

Spec == Init /\ [][Next]_<<proposal, snapshot, verdict>>

-----------------------------------------------------------------------------
(* The table of DESIGN.md section 3: rows are tried top to bottom and the  *)
(* first match wins.  A row that needs a record that was not read does not *)
(* match.  The stale row is the executor's, the schema row the runner's.   *)

Unread == MissingRecords(proposal, snapshot) # {} \/ snapshot.read_failures # {}

Refund    == proposal.action = "issue_refund"
Cancel    == proposal.action = "cancel_order"
Positive  == proposal.amount # NULL /\ proposal.amount > 0
HasOrder  == snapshot.order # NULL
HasPay    == snapshot.payment # NULL
HasPolicy == snapshot.refund_policy # NULL

DesignRows ==
    << [when |-> /\ Cancel /\ HasOrder /\ snapshot.order.status \in {"PAID", "READY_TO_SHIP"}
                 /\ snapshot.shipment # NULL
                 /\ snapshot.shipment.status \notin {"SHIPPED", "DELIVERED"},
        then |-> <<"allow", "cancellable_before_shipment">>],
       [when |-> Cancel /\ HasOrder /\ snapshot.order.status \in {"SHIPPED", "DELIVERED"},
        then |-> <<"escalate", "cancel_after_shipment">>],
       [when |-> Cancel /\ HasOrder /\ snapshot.order.status = "CANCELLED",
        then |-> <<"deny", "order_already_cancelled">>],
       [when |-> Refund /\ HasPay /\ snapshot.payment.status = "REFUNDED",
        then |-> <<"deny", "payment_already_refunded">>],
       [when |-> Refund /\ HasPay /\ Positive /\ proposal.amount > snapshot.payment.captured,
        then |-> <<"deny", "amount_exceeds_captured">>],
       [when |-> Refund /\ HasPolicy /\ Positive
                 /\ proposal.amount > RefundLimit(snapshot.refund_policy),
        then |-> <<"escalate", "above_auto_refund_limit">>],
       [when |-> /\ Refund /\ HasPolicy /\ HasOrder /\ Positive
                 /\ snapshot.order.delivered # NULL
                 /\ snapshot.order.delivered + snapshot.refund_policy.window < snapshot.now,
        then |-> <<"escalate", "outside_return_window">>],
       [when |-> Unread,
        then |-> <<"escalate", "insufficient_information">>] >>

Matching == { i \in DOMAIN DesignRows : DesignRows[i].when }

FollowsTable ==
    verdict # NULL /\ Matching # {} =>
        <<verdict.decision, verdict.reason>> = DesignRows[Min(Matching)].then

-----------------------------------------------------------------------------
(* Every decision is one of the closed enums, and only an allowed one      *)
(* carries an amount.                                                      *)
TypeOK ==
    verdict # NULL =>
        /\ verdict.decision \in Decision
        /\ verdict.reason \in ReasonCode
        /\ verdict.max \in Nat
        /\ verdict.max > 0 => verdict.decision = "allow" /\ Refund

(* With every record at hand the engine decides as the table of DESIGN.md  *)
(* section 3 does: the cascade of early returns has the rows' order.  A    *)
(* record that could not be read is the table's last row, but rules.py:90  *)
(* tests it first.                                                         *)
FollowsDesign == ~Unread => FollowsTable

(* What is allowed can be carried out on the rows it was decided from: the *)
(* transition table of the executor has the move, the ceiling is within    *)
(* what was captured, and the pinned version is that of the very row the   *)
(* write tool will guard.                                                  *)
AllowedIsExecutable ==
    verdict # NULL /\ verdict.decision = "allow" =>
        /\ verdict.resource = ResourceOf(proposal.action, proposal.order)
        /\ verdict.version = (IF Refund THEN snapshot.payment.version
                                        ELSE snapshot.order.version)
        /\ Cancel => OrderTransitionAllowed(snapshot.order.status, "CANCELLED")
        /\ Refund => /\ PaymentTransitionAllowed(snapshot.payment.status, "REFUNDED")
                     /\ verdict.max <= snapshot.payment.captured

(* Asking for less never turns a refund down, and a smaller request gets a *)
(* smaller ceiling, not the one of the larger request.                     *)
AskingLessIsNoWorse ==
    verdict # NULL /\ verdict.decision = "allow" /\ Refund =>
        \A less \in 1..proposal.amount :
            LET other == Evaluate([proposal EXCEPT !.amount = less], snapshot)
            IN  other.decision = "allow" /\ other.max = less

(* Waiting never helps: what is not allowed now is not allowed later on    *)
(* the same records (the return window only closes).                       *)
WaitingNeverHelps ==
    verdict # NULL /\ verdict.decision # "allow" =>
        \A later \in {t \in MCTimes : t >= snapshot.now} :
            Evaluate(proposal, [snapshot EXCEPT !.now = later]).decision # "allow"
=============================================================================
