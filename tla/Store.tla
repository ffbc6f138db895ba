-------------------------------- MODULE Store --------------------------------
(***************************************************************************)
(* The SQLite world of src/app/models/db.py, the three write tools of      *)
(* src/app/tools/write_tools.py, and what may change a row behind the      *)
(* agent's back (src/simulator/failures.py, StateChange).                  *)
(*                                                                         *)
(* A table is a function whose domain is the set of primary keys it holds. *)
(* A statement that a transaction executes is an operator over primed      *)
(* tables; the transaction is the conjunction (immediate_transaction:      *)
(* nothing inside it is visible until commit, an exception rolls it back). *)
(***************************************************************************)
EXTENDS Domain, Sequences

CONSTANTS
    MaxVersion,     \* bound: rows are edited from outside only below it
    MaxNow,         \* bound: the clock stops there
    CapturedCents,  \* captured_cents a payment may hold
    DeliveryTimes,  \* delivered_at an order may carry, besides NULL
    Statuses,       \* bound: the statuses that seeded rows and edits use
    Edited,         \* bound: the tables edited from outside
    SilentEdits     \* may an edit leave the version alone (bump_version=False)?

ASSUME StoreAssumption ==
    /\ MaxVersion \in Nat
    /\ MaxNow \in Nat
    /\ CapturedCents \subseteq Nat
    /\ DeliveryTimes \subseteq Int
    /\ SilentEdits \in BOOLEAN

VARIABLES
    now,            \* the clock every run reads
    orders,         \* order id   -> [status, delivered, version]
    payments,       \* order id   -> [status, captured, refunded, version]
    shipments,      \* order id   -> [status, version]
    permits,        \* permit id  -> execution_permits row
    records,        \* key        -> execution_records row
    refunds,        \* permit id  -> refunds row (refund_id is ref_<permit id>)
    tickets,        \* permit id  -> support_tickets row (tkt_<permit id>)
    mutation_log    \* Seq of rows, in commit order

resourceVars == <<orders, payments, shipments>>
ledgerVars   == <<permits, records, refunds, tickets, mutation_log>>
storeVars    == <<now, orders, payments, shipments,
                  permits, records, refunds, tickets, mutation_log>>

-----------------------------------------------------------------------------
(* Rows.                                                                   *)

OrderRow    == [status : OrderStatus, delivered : Int \cup {NULL}, version : Nat]
PaymentRow  == [status : PaymentStatus, captured : Nat, refunded : Nat, version : Nat]
ShipmentRow == [status : ShipmentStatus, version : Nat]

(* permit_id_for: the run and its sequence number.                         *)
PermitIds == Runs \X Nat

(* A mutated form: the key leaves the run and the sequence number out.     *)
IdempotencyKeyFor_Shared(p, action, resource) == <<action, resource>>

(* idempotency_key_for: run, sequence, action and resource.                *)
IdempotencyKeyFor(p, action, resource) == <<p, action, resource>>
Keys == PermitIds \X ActionName \X Resources

PermitRow ==
    [action : ActionName, resource : Resources, version : Nat, max : Nat,
     expires : Nat, key : Keys, used : BOOLEAN]

(* ExecutionResult of a commit; created is the id of the row it made.      *)
StoredResult ==
    [action : ActionName, resource : Resources, amount : Nat, created : PermitIds \cup {NULL}]

RefundRow == [order : Orders, amount : Nat]
TicketRow == [order : Orders]

(* by is the permit the row was written under: history, not a column.      *)
LogRow ==
    [run : Runs, action : ActionName, resource : Resources, amount : Nat, by : PermitIds]

(* t holds rows of R under keys of K, any subset of them present.          *)
IsTable(t, K, R) == DOMAIN t \subseteq K /\ t \in [DOMAIN t -> R]

EmptyTable == [k \in {} |-> NULL]

InsertRow(table, key, row) ==
    [k \in DOMAIN table \cup {key} |-> IF k \in DOMAIN table THEN table[k] ELSE row]

-----------------------------------------------------------------------------
(* Reads.  NULL is "no such row".                                          *)

FetchOrder(o) ==
    IF o \in DOMAIN orders
      THEN [id |-> o, status |-> orders[o].status,
            delivered |-> orders[o].delivered, version |-> orders[o].version]
      ELSE NULL

FetchPayment(o) ==
    IF o \in DOMAIN payments
      THEN [order |-> o, status |-> payments[o].status,
            captured |-> payments[o].captured, version |-> payments[o].version]
      ELSE NULL

FetchShipment(o) ==
    IF o \in DOMAIN shipments
      THEN [status |-> shipments[o].status, version |-> shipments[o].version]
      ELSE NULL

MutationLogRows(run) == { i \in DOMAIN mutation_log : mutation_log[i].run = run }

-----------------------------------------------------------------------------
(* The write tools, each run inside the executor's transaction, once its   *)
(* authorization has been found to cover the call (Executor, Covers).      *)

CancellableShipmentStatuses == {"PREPARING", "READY_TO_SHIP"}

LogMutation(run, action, resource, amount, p) ==
    mutation_log' = Append(mutation_log,
        [run |-> run, action |-> action, resource |-> resource,
         amount |-> amount, by |-> p])

(* Mutated forms: the UPDATE is not guarded by the version.                *)
OrderAtVersion_Unguarded(o, version) == o \in DOMAIN orders

PaymentAtVersion_Unguarded(o, version) == o \in DOMAIN payments

(* UPDATE orders ... WHERE order_id = ? AND version = ? matches one row.   *)
OrderAtVersion(o, version) == o \in DOMAIN orders /\ orders[o].version = version

PaymentAtVersion(o, version) == o \in DOMAIN payments /\ payments[o].version = version

(* The shipment follows the order only while it has not left.              *)
CancelShipmentOf(o) ==
    IF o \in DOMAIN shipments /\ shipments[o].status \in CancellableShipmentStatuses
      THEN shipments' = [shipments EXCEPT ![o] =
                            [status |-> "CANCELLED", version |-> @.version + 1]]
      ELSE UNCHANGED shipments

CancelOrder(run, p, o, version) ==
    /\ OrderAtVersion(o, version)
    /\ orders' = [orders EXCEPT ![o].status = "CANCELLED", ![o].version = @ + 1]
    /\ CancelShipmentOf(o)
    /\ LogMutation(run, "cancel_order", Order(o), 0, p)
    /\ UNCHANGED <<payments, refunds, tickets>>

(* Mutated forms: the payment gets a status of the order's enum, which the *)
(* TEXT column takes; the whole payment is booked as refunded; the ledger  *)
(* row names the order instead of the payment.                             *)
IssueRefund_OrderStatus(run, p, o, amount, version) ==
    /\ PaymentAtVersion(o, version)
    /\ p \notin DOMAIN refunds
    /\ payments' = [payments EXCEPT ![o].status = "CANCELLED",
                                    ![o].refunded = @ + amount,
                                    ![o].version = @ + 1]
    /\ refunds' = InsertRow(refunds, p, [order |-> o, amount |-> amount])
    /\ LogMutation(run, "issue_refund", Payment(o), amount, p)
    /\ UNCHANGED <<orders, shipments, tickets>>

IssueRefund_WholePayment(run, p, o, amount, version) ==
    /\ PaymentAtVersion(o, version)
    /\ p \notin DOMAIN refunds
    /\ payments' = [payments EXCEPT ![o].status = "REFUNDED",
                                    ![o].refunded = payments[o].captured,
                                    ![o].version = @ + 1]
    /\ refunds' = InsertRow(refunds, p, [order |-> o, amount |-> amount])
    /\ LogMutation(run, "issue_refund", Payment(o), amount, p)
    /\ UNCHANGED <<orders, shipments, tickets>>

IssueRefund_LogsOrder(run, p, o, amount, version) ==
    /\ PaymentAtVersion(o, version)
    /\ p \notin DOMAIN refunds
    /\ payments' = [payments EXCEPT ![o].status = "REFUNDED",
                                    ![o].refunded = @ + amount,
                                    ![o].version = @ + 1]
    /\ refunds' = InsertRow(refunds, p, [order |-> o, amount |-> amount])
    /\ LogMutation(run, "issue_refund", Order(o), amount, p)
    /\ UNCHANGED <<orders, shipments, tickets>>

IssueRefund(run, p, o, amount, version) ==
    /\ PaymentAtVersion(o, version)
    /\ p \notin DOMAIN refunds
    /\ payments' = [payments EXCEPT ![o].status = "REFUNDED",
                                    ![o].refunded = @ + amount,
                                    ![o].version = @ + 1]
    /\ refunds' = InsertRow(refunds, p, [order |-> o, amount |-> amount])
    /\ LogMutation(run, "issue_refund", Payment(o), amount, p)
    /\ UNCHANGED <<orders, shipments, tickets>>

(* No version guard: a ticket changes no row it could be stale about.      *)
CreateSupportTicket(run, p, o) ==
    /\ o \in DOMAIN orders
    /\ p \notin DOMAIN tickets
    /\ tickets' = InsertRow(tickets, p, [order |-> o])
    /\ LogMutation(run, "create_support_ticket", Order(o), 0, p)
    /\ UNCHANGED <<orders, payments, shipments, refunds>>

-----------------------------------------------------------------------------
(* The world outside the agent.  StateChange may set any editable column;  *)
(* an edit is one UPDATE.  Assumed of the world: a payment that has been   *)
(* refunded is not put back to CAPTURED, and refunded_cents is the agent's.*)

NextVersion(version) ==
    (IF version < MaxVersion THEN {version + 1} ELSE {})
        \cup (IF SilentEdits THEN {version} ELSE {})

EditOrder(o) ==
    /\ "order" \in Edited
    /\ o \in DOMAIN orders
    /\ \E status \in OrderStatus \cap Statuses, delivered \in DeliveryTimes \cup {NULL},
          version \in NextVersion(orders[o].version) :
            orders' = [orders EXCEPT ![o] =
                [status |-> status, delivered |-> delivered, version |-> version]]
    /\ UNCHANGED <<now, payments, shipments, ledgerVars>>

EditPayment(o) ==
    /\ "payment" \in Edited
    /\ o \in DOMAIN payments
    /\ \E status \in {payments[o].status} \cup ({"REFUNDED"} \cap Statuses), captured \in CapturedCents,
          version \in NextVersion(payments[o].version) :
            payments' = [payments EXCEPT ![o].status = status,
                                         ![o].captured = captured,
                                         ![o].version = version]
    /\ UNCHANGED <<now, orders, shipments, ledgerVars>>

EditShipment(o) ==
    /\ "shipment" \in Edited
    /\ o \in DOMAIN shipments
    /\ \E status \in ShipmentStatus \cap Statuses, version \in NextVersion(shipments[o].version) :
            shipments' = [shipments EXCEPT ![o] =
                [status |-> status, version |-> version]]
    /\ UNCHANGED <<now, orders, payments, ledgerVars>>

Tick ==
    /\ now < MaxNow
    /\ now' = now + 1
    /\ UNCHANGED <<resourceVars, ledgerVars>>

WorldStep ==
    \/ \E o \in Orders : EditOrder(o) \/ EditPayment(o) \/ EditShipment(o)
    \/ Tick

-----------------------------------------------------------------------------
(* seed_world: rows start at version 1; an order may be unknown, and may   *)
(* have been seeded without a shipment.                                    *)

StoreInit ==
    /\ now = 0
    /\ \E known \in SUBSET Orders :
            orders \in [known -> [status : OrderStatus \cap Statuses,
                                 delivered : DeliveryTimes \cup {NULL}, version : {1}]]
    /\ payments \in [DOMAIN orders ->
            [status : PaymentStatus \cap Statuses, captured : CapturedCents, refunded : {0}, version : {1}]]
    /\ \E shipped \in SUBSET DOMAIN orders :
            shipments \in [shipped -> [status : ShipmentStatus \cap Statuses, version : {1}]]
    /\ permits = EmptyTable
    /\ records = EmptyTable
    /\ refunds = EmptyTable
    /\ tickets = EmptyTable
    /\ mutation_log = <<>>

StoreTypeOK ==
    /\ now \in 0..MaxNow
    /\ IsTable(orders, Orders, OrderRow)
    /\ IsTable(payments, Orders, PaymentRow)
    /\ IsTable(shipments, Orders, ShipmentRow)
    /\ IsTable(permits, PermitIds, PermitRow)
    /\ IsTable(records, Keys, StoredResult)
    /\ IsTable(refunds, PermitIds, RefundRow)
    /\ IsTable(tickets, PermitIds, TicketRow)
    /\ mutation_log \in Seq(LogRow)
=============================================================================
