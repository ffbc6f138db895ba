-------------------------- MODULE TransactionProofs --------------------------
(***************************************************************************)
(* Transaction implements Executor: whatever the interleaving of the       *)
(* statements, and wherever a process dies, every step is a step of        *)
(* Executor, an interruption that writes nothing, or invisible.  What is   *)
(* proved of the ledger of Executor therefore survives crashes.            *)
(*                                                                         *)
(* The argument: an open transaction sees the tables as they are now, with *)
(* the statements it has executed applied (View), because whoever else     *)
(* writes needs the lock; and the tests its statements have passed still   *)
(* pass (Passed), so at COMMIT they are the guard of Executor's Commit.    *)
(***************************************************************************)
EXTENDS Transaction, ExecutorProofs

(* The place of the INSERT into mutation_log; the record and the used flag *)
(* follow it.                                                              *)
LogAt(action) == IF action = "create_support_ticket" THEN 2 ELSE 3

(* The tables with the statements before the k-th applied.                 *)
OrdersAt(r, k) ==
    IF call[r].proposal.action = "cancel_order" /\ k > 1
      THEN CancelIn(orders, call[r].proposal.order)
      ELSE orders

PaymentsAt(r, k) ==
    IF call[r].proposal.action = "issue_refund" /\ k > 1
      THEN RefundIn(payments, call[r].proposal.order, AmountMoved(call[r].proposal))
      ELSE payments

ShipmentsAt(r, k) ==
    LET o == call[r].proposal.order
    IN  IF /\ call[r].proposal.action = "cancel_order" /\ k > 2
           /\ o \in DOMAIN shipments
           /\ shipments[o].status \in CancellableShipmentStatuses
          THEN CancelIn(shipments, o)
          ELSE shipments

PermitsAt(r, k) ==
    IF k > LogAt(call[r].proposal.action) + 2
      THEN SpendIn(permits, call[r].permit)
      ELSE permits

RecordsAt(r, k) ==
    LET c == call[r]
    IN  IF k > LogAt(c.proposal.action) + 1
          THEN InsertRow(records, c.row.key, ResultOf(c.permit, c.row, c.proposal))
          ELSE records

RefundsAt(r, k) ==
    LET proposal == call[r].proposal
    IN  IF proposal.action = "issue_refund" /\ k > 2
          THEN InsertRow(refunds, call[r].permit,
                         [order |-> proposal.order, amount |-> AmountMoved(proposal)])
          ELSE refunds

TicketsAt(r, k) ==
    IF call[r].proposal.action = "create_support_ticket" /\ k > 1
      THEN InsertRow(tickets, call[r].permit, [order |-> call[r].proposal.order])
      ELSE tickets

MutationLogAt(r, k) ==
    LET c == call[r]
    IN  IF k > LogAt(c.proposal.action)
          THEN Append(mutation_log,
                 [run |-> r, action |-> c.proposal.action, resource |-> c.row.resource,
                  amount |-> AmountMoved(c.proposal), by |-> c.permit])
          ELSE mutation_log

View(r, k) ==
    [orders |-> OrdersAt(r, k), payments |-> PaymentsAt(r, k),
     shipments |-> ShipmentsAt(r, k), permits |-> PermitsAt(r, k),
     records |-> RecordsAt(r, k), refunds |-> RefundsAt(r, k),
     tickets |-> TicketsAt(r, k), mutation_log |-> MutationLogAt(r, k)]

(* The tests that the statements before the k-th have passed.              *)
Passed(r, k) ==
    LET c      == call[r]
        o      == call[r].proposal.order
        action == call[r].proposal.action
    IN  /\ action = "cancel_order" /\ k > 1 => orders[o].version = c.row.version
        /\ action = "issue_refund" /\ k > 1 => payments[o].version = c.row.version
        /\ action = "issue_refund" /\ k > 2 => c.permit \notin DOMAIN refunds
        /\ action = "create_support_ticket" /\ k > 1 => c.permit \notin DOMAIN tickets
        /\ k > LogAt(action) + 1 => c.row.key \notin DOMAIN records

Open(r) ==
    /\ lock = r
    /\ phase[r] = "commit"
    /\ tx[r].at \in 1..(LogAt(call[r].proposal.action) + 3)
    /\ tx[r] = [at |-> tx[r].at, db |-> View(r, tx[r].at)]
    /\ Passed(r, tx[r].at)

TxInv ==
    /\ tx = [r \in Runs |-> tx[r]]
    /\ \A r \in Runs : tx[r] # NoTransaction => Open(r)

(* The row a call is about is there from check 3 on: rows are not deleted. *)
Targeted(r) ==
    LET o == call[r].proposal.order
    IN  IF call[r].proposal.action = "issue_refund"
          THEN o \in DOMAIN payments ELSE o \in DOMAIN orders

CallsTargeted ==
    \A r \in Runs : phase[r] \in {"lookup", "commit", "respond"} => Targeted(r)

(* What Executor's own theorems need of a state.                           *)
Sound == TypeOK /\ LedgerInv /\ CallsTargeted

-----------------------------------------------------------------------------
(* Statements.                                                             *)

LEMMA StatementsAre ==
    /\ Statements("cancel_order") =
        <<"update order", "update shipment", "insert log", "insert record", "set used">>
    /\ Statements("issue_refund") =
        <<"update payment", "insert refund", "insert log", "insert record", "set used">>
    /\ Statements("create_support_ticket") =
        <<"insert ticket", "insert log", "insert record", "set used">>
    BY DEF Statements

LEMMA StatementCount ==
    ASSUME NEW action \in ActionName
    PROVE  Len(Statements(action)) = LogAt(action) + 2
<1>1. action \in {"cancel_order", "issue_refund", "create_support_ticket"}
    BY DEF ActionName
<1>2. /\ Len(Statements("cancel_order")) = 5
      /\ Len(Statements("issue_refund")) = 5
      /\ Len(Statements("create_support_ticket")) = 4
    BY StatementsAre
<1> QED
    BY <1>1, <1>2 DEF LogAt

LEMMA StatementAt ==
    /\ Statements("cancel_order")[1] = "update order"
    /\ Statements("cancel_order")[2] = "update shipment"
    /\ Statements("cancel_order")[3] = "insert log"
    /\ Statements("cancel_order")[4] = "insert record"
    /\ Statements("cancel_order")[5] = "set used"
    /\ Statements("issue_refund")[1] = "update payment"
    /\ Statements("issue_refund")[2] = "insert refund"
    /\ Statements("issue_refund")[3] = "insert log"
    /\ Statements("issue_refund")[4] = "insert record"
    /\ Statements("issue_refund")[5] = "set used"
    /\ Statements("create_support_ticket")[1] = "insert ticket"
    /\ Statements("create_support_ticket")[2] = "insert log"
    /\ Statements("create_support_ticket")[3] = "insert record"
    /\ Statements("create_support_ticket")[4] = "set used"
    BY DEF Statements

(* db and new are views that agree but for one table.                      *)
IsView(db) ==
    db = [orders |-> db.orders, payments |-> db.payments, shipments |-> db.shipments,
          permits |-> db.permits, records |-> db.records, refunds |-> db.refunds,
          tickets |-> db.tickets, mutation_log |-> db.mutation_log]

AgreeBut(db, new, table) ==
    /\ IsView(db)
    /\ IsView(new)
    /\ table # "orders" => new.orders = db.orders
    /\ table # "payments" => new.payments = db.payments
    /\ table # "shipments" => new.shipments = db.shipments
    /\ table # "permits" => new.permits = db.permits
    /\ table # "records" => new.records = db.records
    /\ table # "refunds" => new.refunds = db.refunds
    /\ table # "tickets" => new.tickets = db.tickets
    /\ table # "mutation_log" => new.mutation_log = db.mutation_log

(* What a view consists of.                                                *)
LEMMA ViewFields ==
    ASSUME NEW r, NEW k
    PROVE  /\ IsView(View(r, k))
           /\ View(r, k).orders = OrdersAt(r, k)
           /\ View(r, k).payments = PaymentsAt(r, k)
           /\ View(r, k).shipments = ShipmentsAt(r, k)
           /\ View(r, k).permits = PermitsAt(r, k)
           /\ View(r, k).records = RecordsAt(r, k)
           /\ View(r, k).refunds = RefundsAt(r, k)
           /\ View(r, k).tickets = TicketsAt(r, k)
           /\ View(r, k).mutation_log = MutationLogAt(r, k)
    BY DEF IsView, View

(* Between two statements a table stays, but for the one that is named.    *)
Untouched(r, j, k, table) ==
    /\ table # "orders" => OrdersAt(r, k) = OrdersAt(r, j)
    /\ table # "payments" => PaymentsAt(r, k) = PaymentsAt(r, j)
    /\ table # "shipments" => ShipmentsAt(r, k) = ShipmentsAt(r, j)
    /\ table # "permits" => PermitsAt(r, k) = PermitsAt(r, j)
    /\ table # "records" => RecordsAt(r, k) = RecordsAt(r, j)
    /\ table # "refunds" => RefundsAt(r, k) = RefundsAt(r, j)
    /\ table # "tickets" => TicketsAt(r, k) = TicketsAt(r, j)
    /\ table # "mutation_log" => MutationLogAt(r, k) = MutationLogAt(r, j)

LEMMA ViewsAgree ==
    ASSUME NEW r, NEW j, NEW k, NEW table, Untouched(r, j, k, table)
    PROVE  AgreeBut(View(r, j), View(r, k), table)
<1>1. IsView(View(r, j)) /\ IsView(View(r, k))
    BY ViewFields
<1>2. table # "orders" => View(r, k).orders = View(r, j).orders
    BY ViewFields DEF Untouched
<1>3. table # "payments" => View(r, k).payments = View(r, j).payments
    BY ViewFields DEF Untouched
<1>4. table # "shipments" => View(r, k).shipments = View(r, j).shipments
    BY ViewFields DEF Untouched
<1>5. table # "permits" => View(r, k).permits = View(r, j).permits
    BY ViewFields DEF Untouched
<1>6. table # "records" => View(r, k).records = View(r, j).records
    BY ViewFields DEF Untouched
<1>7. table # "refunds" => View(r, k).refunds = View(r, j).refunds
    BY ViewFields DEF Untouched
<1>8. table # "tickets" => View(r, k).tickets = View(r, j).tickets
    BY ViewFields DEF Untouched
<1>9. table # "mutation_log" => View(r, k).mutation_log = View(r, j).mutation_log
    BY ViewFields DEF Untouched
<1> QED
    BY <1>1, <1>2, <1>3, <1>4, <1>5, <1>6, <1>7, <1>8, <1>9 DEF AgreeBut

(* When a table stays.                                                     *)
LEMMA Unmoved ==
    ASSUME NEW r, NEW j \in Int, NEW k \in Int
    PROVE  LET action == call[r].proposal.action
               log    == LogAt(action)
           IN  /\ (action = "cancel_order" => (j > 1 <=> k > 1)) => OrdersAt(r, k) = OrdersAt(r, j)
               /\ (action = "issue_refund" => (j > 1 <=> k > 1)) => PaymentsAt(r, k) = PaymentsAt(r, j)
               /\ (action = "cancel_order" => (j > 2 <=> k > 2)) => ShipmentsAt(r, k) = ShipmentsAt(r, j)
               /\ (j > log + 2 <=> k > log + 2) => PermitsAt(r, k) = PermitsAt(r, j)
               /\ (j > log + 1 <=> k > log + 1) => RecordsAt(r, k) = RecordsAt(r, j)
               /\ (action = "issue_refund" => (j > 2 <=> k > 2)) => RefundsAt(r, k) = RefundsAt(r, j)
               /\ (action = "create_support_ticket" => (j > 1 <=> k > 1)) => TicketsAt(r, k) = TicketsAt(r, j)
               /\ (j > log <=> k > log) => MutationLogAt(r, k) = MutationLogAt(r, j)
<1>1. (call[r].proposal.action = "cancel_order" => (j > 1 <=> k > 1)) => OrdersAt(r, k) = OrdersAt(r, j)
    BY DEF OrdersAt
<1>2. (call[r].proposal.action = "issue_refund" => (j > 1 <=> k > 1)) => PaymentsAt(r, k) = PaymentsAt(r, j)
    BY DEF PaymentsAt
<1>3. (call[r].proposal.action = "cancel_order" => (j > 2 <=> k > 2)) => ShipmentsAt(r, k) = ShipmentsAt(r, j)
    BY DEF ShipmentsAt
<1>4. (call[r].proposal.action = "issue_refund" => (j > 2 <=> k > 2)) => RefundsAt(r, k) = RefundsAt(r, j)
    BY DEF RefundsAt
<1>5. (call[r].proposal.action = "create_support_ticket" => (j > 1 <=> k > 1))
        => TicketsAt(r, k) = TicketsAt(r, j)
    BY DEF TicketsAt
<1> DEFINE log == LogAt(call[r].proposal.action)
<1>6. (j > log + 2 <=> k > log + 2) => PermitsAt(r, k) = PermitsAt(r, j)
    BY DEF PermitsAt
<1>7. (j > log + 1 <=> k > log + 1) => RecordsAt(r, k) = RecordsAt(r, j)
    BY DEF RecordsAt
<1>8. (j > log <=> k > log) => MutationLogAt(r, k) = MutationLogAt(r, j)
    BY DEF MutationLogAt
<1> QED
    BY <1>1, <1>2, <1>3, <1>4, <1>5, <1>6, <1>7, <1>8

(* A statement changes one table of the view: one lemma for each.          *)
LEMMA UpdateOrderReaches ==
    ASSUME NEW r, NEW db, NEW new, NEW c,
           AgreeBut(db, new, "orders"),
           new.orders =
                  CancelIn(db.orders, c.proposal.order)
    PROVE  Effect(r, "update order", db, c) = new
<1> DEFINE X ==
                CancelIn(db.orders, c.proposal.order)
<1>1. Effect(r, "update order", db, c) = [db EXCEPT !.orders = X]
  BY DEF Effect
<1> HIDE DEF X
<1>2. new.orders = X
  BY DEF X
<1>3. [db EXCEPT !.orders = X] = new
  BY <1>2 DEF AgreeBut, IsView
<1> QED
  BY <1>1, <1>3

LEMMA UpdateShipmentReaches ==
    ASSUME NEW r, NEW db, NEW new, NEW c,
           AgreeBut(db, new, "shipments"),
           new.shipments =
                  IF c.proposal.order \in DOMAIN db.shipments
                    /\ db.shipments[c.proposal.order].status \in CancellableShipmentStatuses
                  THEN CancelIn(db.shipments, c.proposal.order) ELSE db.shipments
    PROVE  Effect(r, "update shipment", db, c) = new
<1>1. CASE c.proposal.order \in DOMAIN db.shipments
              /\ db.shipments[c.proposal.order].status \in CancellableShipmentStatuses
  <2>1. Effect(r, "update shipment", db, c)
          = [db EXCEPT !.shipments = CancelIn(db.shipments, c.proposal.order)]
    BY <1>1 DEF Effect
  <2>2. [db EXCEPT !.shipments = CancelIn(db.shipments, c.proposal.order)] = new
    BY <1>1 DEF AgreeBut, IsView
  <2> QED
    BY <2>1, <2>2
<1>2. CASE ~(c.proposal.order \in DOMAIN db.shipments
              /\ db.shipments[c.proposal.order].status \in CancellableShipmentStatuses)
  <2>1. Effect(r, "update shipment", db, c) = db
    BY <1>2 DEF Effect
  <2>2. db = new
    BY <1>2 DEF AgreeBut, IsView
  <2> QED
    BY <2>1, <2>2
<1> QED
  BY <1>1, <1>2

LEMMA UpdatePaymentReaches ==
    ASSUME NEW r, NEW db, NEW new, NEW c,
           AgreeBut(db, new, "payments"),
           new.payments =
                  RefundIn(db.payments, c.proposal.order, AmountMoved(c.proposal))
    PROVE  Effect(r, "update payment", db, c) = new
<1> DEFINE X ==
                RefundIn(db.payments, c.proposal.order, AmountMoved(c.proposal))
<1>1. Effect(r, "update payment", db, c) = [db EXCEPT !.payments = X]
  BY DEF Effect
<1> HIDE DEF X
<1>2. new.payments = X
  BY DEF X
<1>3. [db EXCEPT !.payments = X] = new
  BY <1>2 DEF AgreeBut, IsView
<1> QED
  BY <1>1, <1>3

LEMMA InsertRefundReaches ==
    ASSUME NEW r, NEW db, NEW new, NEW c,
           AgreeBut(db, new, "refunds"),
           new.refunds =
                  InsertRow(db.refunds, c.permit,
                    [order |-> c.proposal.order, amount |-> AmountMoved(c.proposal)])
    PROVE  Effect(r, "insert refund", db, c) = new
<1> DEFINE X ==
                InsertRow(db.refunds, c.permit,
                  [order |-> c.proposal.order, amount |-> AmountMoved(c.proposal)])
<1>1. Effect(r, "insert refund", db, c) = [db EXCEPT !.refunds = X]
  BY DEF Effect
<1> HIDE DEF X
<1>2. new.refunds = X
  BY DEF X
<1>3. [db EXCEPT !.refunds = X] = new
  BY <1>2 DEF AgreeBut, IsView
<1> QED
  BY <1>1, <1>3

LEMMA InsertTicketReaches ==
    ASSUME NEW r, NEW db, NEW new, NEW c,
           AgreeBut(db, new, "tickets"),
           new.tickets =
                  InsertRow(db.tickets, c.permit, [order |-> c.proposal.order])
    PROVE  Effect(r, "insert ticket", db, c) = new
<1> DEFINE X ==
                InsertRow(db.tickets, c.permit, [order |-> c.proposal.order])
<1>1. Effect(r, "insert ticket", db, c) = [db EXCEPT !.tickets = X]
  BY DEF Effect
<1> HIDE DEF X
<1>2. new.tickets = X
  BY DEF X
<1>3. [db EXCEPT !.tickets = X] = new
  BY <1>2 DEF AgreeBut, IsView
<1> QED
  BY <1>1, <1>3

LEMMA InsertLogReaches ==
    ASSUME NEW r, NEW db, NEW new, NEW c,
           AgreeBut(db, new, "mutation_log"),
           new.mutation_log =
                  Append(db.mutation_log,
                    [run |-> r, action |-> c.proposal.action, resource |-> c.row.resource,
                     amount |-> AmountMoved(c.proposal), by |-> c.permit])
    PROVE  Effect(r, "insert log", db, c) = new
<1> DEFINE X ==
                Append(db.mutation_log,
                  [run |-> r, action |-> c.proposal.action, resource |-> c.row.resource,
                   amount |-> AmountMoved(c.proposal), by |-> c.permit])
<1>1. Effect(r, "insert log", db, c) = [db EXCEPT !.mutation_log = X]
  BY DEF Effect
<1> HIDE DEF X
<1>2. new.mutation_log = X
  BY DEF X
<1>3. [db EXCEPT !.mutation_log = X] = new
  BY <1>2 DEF AgreeBut, IsView
<1> QED
  BY <1>1, <1>3

LEMMA InsertRecordReaches ==
    ASSUME NEW r, NEW db, NEW new, NEW c,
           AgreeBut(db, new, "records"),
           new.records =
                  InsertRow(db.records, c.row.key, ResultOf(c.permit, c.row, c.proposal))
    PROVE  Effect(r, "insert record", db, c) = new
<1> DEFINE X ==
                InsertRow(db.records, c.row.key, ResultOf(c.permit, c.row, c.proposal))
<1>1. Effect(r, "insert record", db, c) = [db EXCEPT !.records = X]
  BY DEF Effect
<1> HIDE DEF X
<1>2. new.records = X
  BY DEF X
<1>3. [db EXCEPT !.records = X] = new
  BY <1>2 DEF AgreeBut, IsView
<1> QED
  BY <1>1, <1>3

LEMMA SetUsedReaches ==
    ASSUME NEW r, NEW db, NEW new, NEW c,
           AgreeBut(db, new, "permits"),
           new.permits =
                  SpendIn(db.permits, c.permit)
    PROVE  Effect(r, "set used", db, c) = new
<1> DEFINE X ==
                SpendIn(db.permits, c.permit)
<1>1. Effect(r, "set used", db, c) = [db EXCEPT !.permits = X]
  BY DEF Effect
<1> HIDE DEF X
<1>2. new.permits = X
  BY DEF X
<1>3. [db EXCEPT !.permits = X] = new
  BY <1>2 DEF AgreeBut, IsView
<1> QED
  BY <1>1, <1>3

(* The views of a transaction that executes cancel_order.                  *)
LEMMA CancelViews ==
    ASSUME NEW r
    PROVE  call[r].proposal.action = "cancel_order" =>
           /\ Effect(r, "update order", View(r, 1), call[r]) = View(r, 2)
           /\ Effect(r, "update shipment", View(r, 2), call[r]) = View(r, 3)
           /\ Effect(r, "insert log", View(r, 3), call[r]) = View(r, 4)
           /\ Effect(r, "insert record", View(r, 4), call[r]) = View(r, 5)
           /\ Effect(r, "set used", View(r, 5), call[r]) = View(r, 6)
<1>1. ASSUME call[r].proposal.action = "cancel_order"
      PROVE  Effect(r, "update order", View(r, 1), call[r]) = View(r, 2)
  <2>1. AgreeBut(View(r, 1), View(r, 2), "orders")
    <3>1. Untouched(r, 1, 2, "orders")
      BY <1>1, Unmoved, 1 \in Int, 2 \in Int DEF Untouched, LogAt
    <3> QED
      BY <3>1, ViewsAgree
  <2>2. View(r, 2).orders =
                  CancelIn(View(r, 1).orders, call[r].proposal.order)
    BY <1>1, ViewFields DEF OrdersAt, LogAt
  <2> QED
    BY <2>1, <2>2, UpdateOrderReaches, Zenon
<1>2. ASSUME call[r].proposal.action = "cancel_order"
      PROVE  Effect(r, "update shipment", View(r, 2), call[r]) = View(r, 3)
  <2>1. AgreeBut(View(r, 2), View(r, 3), "shipments")
    <3>1. Untouched(r, 2, 3, "shipments")
      BY <1>2, Unmoved, 2 \in Int, 3 \in Int DEF Untouched, LogAt
    <3> QED
      BY <3>1, ViewsAgree
  <2>2. View(r, 3).shipments =
                  IF call[r].proposal.order \in DOMAIN View(r, 2).shipments
                    /\ View(r, 2).shipments[call[r].proposal.order].status \in CancellableShipmentStatuses
                  THEN CancelIn(View(r, 2).shipments, call[r].proposal.order) ELSE View(r, 2).shipments
    BY <1>2, ViewFields DEF ShipmentsAt, LogAt
  <2> QED
    BY <2>1, <2>2, UpdateShipmentReaches, Zenon
<1>3. ASSUME call[r].proposal.action = "cancel_order"
      PROVE  Effect(r, "insert log", View(r, 3), call[r]) = View(r, 4)
  <2>1. AgreeBut(View(r, 3), View(r, 4), "mutation_log")
    <3>1. Untouched(r, 3, 4, "mutation_log")
      BY <1>3, Unmoved, 3 \in Int, 4 \in Int DEF Untouched, LogAt
    <3> QED
      BY <3>1, ViewsAgree
  <2>2. View(r, 4).mutation_log =
                  Append(View(r, 3).mutation_log,
                    [run |-> r, action |-> call[r].proposal.action, resource |-> call[r].row.resource,
                     amount |-> AmountMoved(call[r].proposal), by |-> call[r].permit])
    <3>1. LogAt(call[r].proposal.action) = 3
      BY <1>3 DEF LogAt
    <3>2. MutationLogAt(r, 3) = mutation_log
      BY <3>1 DEF MutationLogAt
    <3>3. MutationLogAt(r, 4) =
                  Append(mutation_log,
                    [run |-> r, action |-> call[r].proposal.action, resource |-> call[r].row.resource,
                     amount |-> AmountMoved(call[r].proposal), by |-> call[r].permit])
      BY <3>1 DEF MutationLogAt
    <3> QED
      BY <3>2, <3>3, ViewFields, Zenon
  <2> QED
    BY <2>1, <2>2, InsertLogReaches, Zenon
<1>4. ASSUME call[r].proposal.action = "cancel_order"
      PROVE  Effect(r, "insert record", View(r, 4), call[r]) = View(r, 5)
  <2>1. AgreeBut(View(r, 4), View(r, 5), "records")
    <3>1. Untouched(r, 4, 5, "records")
      BY <1>4, Unmoved, 4 \in Int, 5 \in Int DEF Untouched, LogAt
    <3> QED
      BY <3>1, ViewsAgree
  <2>2. View(r, 5).records =
                  InsertRow(View(r, 4).records, call[r].row.key, ResultOf(call[r].permit, call[r].row, call[r].proposal))
    BY <1>4, ViewFields DEF RecordsAt, LogAt
  <2> QED
    BY <2>1, <2>2, InsertRecordReaches, Zenon
<1>5. ASSUME call[r].proposal.action = "cancel_order"
      PROVE  Effect(r, "set used", View(r, 5), call[r]) = View(r, 6)
  <2>1. AgreeBut(View(r, 5), View(r, 6), "permits")
    <3>1. Untouched(r, 5, 6, "permits")
      BY <1>5, Unmoved, 5 \in Int, 6 \in Int DEF Untouched, LogAt
    <3> QED
      BY <3>1, ViewsAgree
  <2>2. View(r, 6).permits =
                  SpendIn(View(r, 5).permits, call[r].permit)
    BY <1>5, ViewFields DEF PermitsAt, LogAt
  <2> QED
    BY <2>1, <2>2, SetUsedReaches, Zenon
<1> QED
    BY <1>1, <1>2, <1>3, <1>4, <1>5

(* The tests its statements pass stay passed.                              *)
LEMMA CancelPasses ==
    ASSUME NEW r, call[r].proposal.action = "cancel_order"
    PROVE  /\ Passed(r, 1) /\ ~Misses("update order", View(r, 1), call[r]) => Passed(r, 2)
           /\ Passed(r, 2) => Passed(r, 3)
           /\ Passed(r, 3) => Passed(r, 4)
           /\ Passed(r, 4) /\ ~Raises("insert record", View(r, 4), call[r]) => Passed(r, 5)
           /\ Passed(r, 5) => Passed(r, 6)
<1>1. ASSUME Passed(r, 1), ~Misses("update order", View(r, 1), call[r])
      PROVE  Passed(r, 2)
  <2>1. View(r, 1).orders = orders
    BY ViewFields DEF OrdersAt, LogAt
  <2> QED
    BY <1>1, <2>1 DEF Passed, Misses, LogAt
<1>2. Passed(r, 2) => Passed(r, 3)
    BY DEF Passed, LogAt
<1>3. Passed(r, 3) => Passed(r, 4)
    BY DEF Passed, LogAt
<1>4. ASSUME Passed(r, 4), ~Raises("insert record", View(r, 4), call[r])
      PROVE  Passed(r, 5)
  <2>1. View(r, 4).records = records
    BY ViewFields DEF RecordsAt, LogAt
  <2> QED
    BY <1>4, <2>1 DEF Passed, Raises, LogAt
<1>5. Passed(r, 5) => Passed(r, 6)
    BY DEF Passed, LogAt
<1> QED
    BY <1>1, <1>2, <1>3, <1>4, <1>5

(* The views of a transaction that executes issue_refund.                  *)
LEMMA RefundViews ==
    ASSUME NEW r
    PROVE  call[r].proposal.action = "issue_refund" =>
           /\ Effect(r, "update payment", View(r, 1), call[r]) = View(r, 2)
           /\ Effect(r, "insert refund", View(r, 2), call[r]) = View(r, 3)
           /\ Effect(r, "insert log", View(r, 3), call[r]) = View(r, 4)
           /\ Effect(r, "insert record", View(r, 4), call[r]) = View(r, 5)
           /\ Effect(r, "set used", View(r, 5), call[r]) = View(r, 6)
<1>1. ASSUME call[r].proposal.action = "issue_refund"
      PROVE  Effect(r, "update payment", View(r, 1), call[r]) = View(r, 2)
  <2>1. AgreeBut(View(r, 1), View(r, 2), "payments")
    <3>1. Untouched(r, 1, 2, "payments")
      BY <1>1, Unmoved, 1 \in Int, 2 \in Int DEF Untouched, LogAt
    <3> QED
      BY <3>1, ViewsAgree
  <2>2. View(r, 2).payments =
                  RefundIn(View(r, 1).payments, call[r].proposal.order, AmountMoved(call[r].proposal))
    BY <1>1, ViewFields DEF PaymentsAt, LogAt
  <2> QED
    BY <2>1, <2>2, UpdatePaymentReaches, Zenon
<1>2. ASSUME call[r].proposal.action = "issue_refund"
      PROVE  Effect(r, "insert refund", View(r, 2), call[r]) = View(r, 3)
  <2>1. AgreeBut(View(r, 2), View(r, 3), "refunds")
    <3>1. Untouched(r, 2, 3, "refunds")
      BY <1>2, Unmoved, 2 \in Int, 3 \in Int DEF Untouched, LogAt
    <3> QED
      BY <3>1, ViewsAgree
  <2>2. View(r, 3).refunds =
                  InsertRow(View(r, 2).refunds, call[r].permit,
                    [order |-> call[r].proposal.order, amount |-> AmountMoved(call[r].proposal)])
    BY <1>2, ViewFields DEF RefundsAt, LogAt
  <2> QED
    BY <2>1, <2>2, InsertRefundReaches, Zenon
<1>3. ASSUME call[r].proposal.action = "issue_refund"
      PROVE  Effect(r, "insert log", View(r, 3), call[r]) = View(r, 4)
  <2>1. AgreeBut(View(r, 3), View(r, 4), "mutation_log")
    <3>1. Untouched(r, 3, 4, "mutation_log")
      BY <1>3, Unmoved, 3 \in Int, 4 \in Int DEF Untouched, LogAt
    <3> QED
      BY <3>1, ViewsAgree
  <2>2. View(r, 4).mutation_log =
                  Append(View(r, 3).mutation_log,
                    [run |-> r, action |-> call[r].proposal.action, resource |-> call[r].row.resource,
                     amount |-> AmountMoved(call[r].proposal), by |-> call[r].permit])
    <3>1. LogAt(call[r].proposal.action) = 3
      BY <1>3 DEF LogAt
    <3>2. MutationLogAt(r, 3) = mutation_log
      BY <3>1 DEF MutationLogAt
    <3>3. MutationLogAt(r, 4) =
                  Append(mutation_log,
                    [run |-> r, action |-> call[r].proposal.action, resource |-> call[r].row.resource,
                     amount |-> AmountMoved(call[r].proposal), by |-> call[r].permit])
      BY <3>1 DEF MutationLogAt
    <3> QED
      BY <3>2, <3>3, ViewFields, Zenon
  <2> QED
    BY <2>1, <2>2, InsertLogReaches, Zenon
<1>4. ASSUME call[r].proposal.action = "issue_refund"
      PROVE  Effect(r, "insert record", View(r, 4), call[r]) = View(r, 5)
  <2>1. AgreeBut(View(r, 4), View(r, 5), "records")
    <3>1. Untouched(r, 4, 5, "records")
      BY <1>4, Unmoved, 4 \in Int, 5 \in Int DEF Untouched, LogAt
    <3> QED
      BY <3>1, ViewsAgree
  <2>2. View(r, 5).records =
                  InsertRow(View(r, 4).records, call[r].row.key, ResultOf(call[r].permit, call[r].row, call[r].proposal))
    BY <1>4, ViewFields DEF RecordsAt, LogAt
  <2> QED
    BY <2>1, <2>2, InsertRecordReaches, Zenon
<1>5. ASSUME call[r].proposal.action = "issue_refund"
      PROVE  Effect(r, "set used", View(r, 5), call[r]) = View(r, 6)
  <2>1. AgreeBut(View(r, 5), View(r, 6), "permits")
    <3>1. Untouched(r, 5, 6, "permits")
      BY <1>5, Unmoved, 5 \in Int, 6 \in Int DEF Untouched, LogAt
    <3> QED
      BY <3>1, ViewsAgree
  <2>2. View(r, 6).permits =
                  SpendIn(View(r, 5).permits, call[r].permit)
    BY <1>5, ViewFields DEF PermitsAt, LogAt
  <2> QED
    BY <2>1, <2>2, SetUsedReaches, Zenon
<1> QED
    BY <1>1, <1>2, <1>3, <1>4, <1>5

(* The tests its statements pass stay passed.                              *)
LEMMA RefundPasses ==
    ASSUME NEW r, call[r].proposal.action = "issue_refund"
    PROVE  /\ Passed(r, 1) /\ ~Misses("update payment", View(r, 1), call[r]) => Passed(r, 2)
           /\ Passed(r, 2) /\ ~Raises("insert refund", View(r, 2), call[r]) => Passed(r, 3)
           /\ Passed(r, 3) => Passed(r, 4)
           /\ Passed(r, 4) /\ ~Raises("insert record", View(r, 4), call[r]) => Passed(r, 5)
           /\ Passed(r, 5) => Passed(r, 6)
<1>1. ASSUME Passed(r, 1), ~Misses("update payment", View(r, 1), call[r])
      PROVE  Passed(r, 2)
  <2>1. View(r, 1).payments = payments
    BY ViewFields DEF PaymentsAt, LogAt
  <2> QED
    BY <1>1, <2>1 DEF Passed, Misses, LogAt
<1>2. ASSUME Passed(r, 2), ~Raises("insert refund", View(r, 2), call[r])
      PROVE  Passed(r, 3)
  <2>1. View(r, 2).refunds = refunds
    <3>1. RefundsAt(r, 2) = refunds
      BY DEF RefundsAt
    <3> QED
      BY <3>1, ViewFields
  <2> QED
    BY <1>2, <2>1 DEF Passed, Raises, LogAt
<1>3. Passed(r, 3) => Passed(r, 4)
    BY DEF Passed, LogAt
<1>4. ASSUME Passed(r, 4), ~Raises("insert record", View(r, 4), call[r])
      PROVE  Passed(r, 5)
  <2>1. View(r, 4).records = records
    BY ViewFields DEF RecordsAt, LogAt
  <2> QED
    BY <1>4, <2>1 DEF Passed, Raises, LogAt
<1>5. Passed(r, 5) => Passed(r, 6)
    BY DEF Passed, LogAt
<1> QED
    BY <1>1, <1>2, <1>3, <1>4, <1>5

(* The views of a transaction that executes create_support_ticket.         *)
LEMMA TicketViews ==
    ASSUME NEW r
    PROVE  call[r].proposal.action = "create_support_ticket" =>
           /\ Effect(r, "insert ticket", View(r, 1), call[r]) = View(r, 2)
           /\ Effect(r, "insert log", View(r, 2), call[r]) = View(r, 3)
           /\ Effect(r, "insert record", View(r, 3), call[r]) = View(r, 4)
           /\ Effect(r, "set used", View(r, 4), call[r]) = View(r, 5)
<1>1. ASSUME call[r].proposal.action = "create_support_ticket"
      PROVE  Effect(r, "insert ticket", View(r, 1), call[r]) = View(r, 2)
  <2>1. AgreeBut(View(r, 1), View(r, 2), "tickets")
    <3>1. Untouched(r, 1, 2, "tickets")
      BY <1>1, Unmoved, 1 \in Int, 2 \in Int DEF Untouched, LogAt
    <3> QED
      BY <3>1, ViewsAgree
  <2>2. View(r, 2).tickets =
                  InsertRow(View(r, 1).tickets, call[r].permit, [order |-> call[r].proposal.order])
    BY <1>1, ViewFields DEF TicketsAt, LogAt
  <2> QED
    BY <2>1, <2>2, InsertTicketReaches, Zenon
<1>2. ASSUME call[r].proposal.action = "create_support_ticket"
      PROVE  Effect(r, "insert log", View(r, 2), call[r]) = View(r, 3)
  <2>1. AgreeBut(View(r, 2), View(r, 3), "mutation_log")
    <3>1. Untouched(r, 2, 3, "mutation_log")
      BY <1>2, Unmoved, 2 \in Int, 3 \in Int DEF Untouched, LogAt
    <3> QED
      BY <3>1, ViewsAgree
  <2>2. View(r, 3).mutation_log =
                  Append(View(r, 2).mutation_log,
                    [run |-> r, action |-> call[r].proposal.action, resource |-> call[r].row.resource,
                     amount |-> AmountMoved(call[r].proposal), by |-> call[r].permit])
    <3>1. LogAt(call[r].proposal.action) = 2
      BY <1>2 DEF LogAt
    <3>2. MutationLogAt(r, 2) = mutation_log
      BY <3>1 DEF MutationLogAt
    <3>3. MutationLogAt(r, 3) =
                  Append(mutation_log,
                    [run |-> r, action |-> call[r].proposal.action, resource |-> call[r].row.resource,
                     amount |-> AmountMoved(call[r].proposal), by |-> call[r].permit])
      BY <3>1 DEF MutationLogAt
    <3> QED
      BY <3>2, <3>3, ViewFields, Zenon
  <2> QED
    BY <2>1, <2>2, InsertLogReaches, Zenon
<1>3. ASSUME call[r].proposal.action = "create_support_ticket"
      PROVE  Effect(r, "insert record", View(r, 3), call[r]) = View(r, 4)
  <2>1. AgreeBut(View(r, 3), View(r, 4), "records")
    <3>1. Untouched(r, 3, 4, "records")
      BY <1>3, Unmoved, 3 \in Int, 4 \in Int DEF Untouched, LogAt
    <3> QED
      BY <3>1, ViewsAgree
  <2>2. View(r, 4).records =
                  InsertRow(View(r, 3).records, call[r].row.key, ResultOf(call[r].permit, call[r].row, call[r].proposal))
    BY <1>3, ViewFields DEF RecordsAt, LogAt
  <2> QED
    BY <2>1, <2>2, InsertRecordReaches, Zenon
<1>4. ASSUME call[r].proposal.action = "create_support_ticket"
      PROVE  Effect(r, "set used", View(r, 4), call[r]) = View(r, 5)
  <2>1. AgreeBut(View(r, 4), View(r, 5), "permits")
    <3>1. Untouched(r, 4, 5, "permits")
      BY <1>4, Unmoved, 4 \in Int, 5 \in Int DEF Untouched, LogAt
    <3> QED
      BY <3>1, ViewsAgree
  <2>2. View(r, 5).permits =
                  SpendIn(View(r, 4).permits, call[r].permit)
    BY <1>4, ViewFields DEF PermitsAt, LogAt
  <2> QED
    BY <2>1, <2>2, SetUsedReaches, Zenon
<1> QED
    BY <1>1, <1>2, <1>3, <1>4

(* The tests its statements pass stay passed.                              *)
LEMMA TicketPasses ==
    ASSUME NEW r, call[r].proposal.action = "create_support_ticket"
    PROVE  /\ Passed(r, 1) /\ ~Raises("insert ticket", View(r, 1), call[r]) => Passed(r, 2)
           /\ Passed(r, 2) => Passed(r, 3)
           /\ Passed(r, 3) /\ ~Raises("insert record", View(r, 3), call[r]) => Passed(r, 4)
           /\ Passed(r, 4) => Passed(r, 5)
<1>1. ASSUME Passed(r, 1), ~Raises("insert ticket", View(r, 1), call[r])
      PROVE  Passed(r, 2)
  <2>1. View(r, 1).tickets = tickets
    <3>1. TicketsAt(r, 1) = tickets
      BY DEF TicketsAt
    <3> QED
      BY <3>1, ViewFields
  <2> QED
    BY <1>1, <2>1 DEF Passed, Raises, LogAt
<1>2. Passed(r, 2) => Passed(r, 3)
    BY DEF Passed, LogAt
<1>3. ASSUME Passed(r, 3), ~Raises("insert record", View(r, 3), call[r])
      PROVE  Passed(r, 4)
  <2>1. View(r, 3).records = records
    BY ViewFields DEF RecordsAt, LogAt
  <2> QED
    BY <1>3, <2>1 DEF Passed, Raises, LogAt
<1>4. Passed(r, 4) => Passed(r, 5)
    BY DEF Passed, LogAt
<1> QED
    BY <1>1, <1>2, <1>3, <1>4

(* The next statement takes the view one step further, and the tests it    *)
(* passes are those of the tables.                                         *)
LEMMA ViewStep ==
    ASSUME NEW r, NEW k \in 1..(LogAt(call[r].proposal.action) + 2),
           call[r].proposal.action \in ActionName,
           Passed(r, k),
           ~Misses(Statements(call[r].proposal.action)[k], View(r, k), call[r]),
           ~Raises(Statements(call[r].proposal.action)[k], View(r, k), call[r])
    PROVE  /\ Effect(r, Statements(call[r].proposal.action)[k], View(r, k), call[r])
                = View(r, k + 1)
           /\ Passed(r, k + 1)
<1>n. /\ 1 + 1 = 2 /\ 2 + 1 = 3 /\ 3 + 1 = 4 /\ 4 + 1 = 5 /\ 5 + 1 = 6
    OBVIOUS
<1>1. CASE call[r].proposal.action = "cancel_order"
  <2>1. k \in 1..5
    BY <1>1 DEF LogAt
  <2>2. CASE k = 1
    BY <1>n, <1>1, <2>2, StatementAt, CancelViews, CancelPasses, Zenon
  <2>3. CASE k = 2
    BY <1>n, <1>1, <2>3, StatementAt, CancelViews, CancelPasses, Zenon
  <2>4. CASE k = 3
    BY <1>n, <1>1, <2>4, StatementAt, CancelViews, CancelPasses, Zenon
  <2>5. CASE k = 4
    BY <1>n, <1>1, <2>5, StatementAt, CancelViews, CancelPasses, Zenon
  <2>6. CASE k = 5
    BY <1>n, <1>1, <2>6, StatementAt, CancelViews, CancelPasses, Zenon
  <2> QED
    BY <2>1, <2>2, <2>3, <2>4, <2>5, <2>6
<1>2. CASE call[r].proposal.action = "issue_refund"
  <2>1. k \in 1..5
    BY <1>2 DEF LogAt
  <2>2. CASE k = 1
    BY <1>n, <1>2, <2>2, StatementAt, RefundViews, RefundPasses, Zenon
  <2>3. CASE k = 2
    BY <1>n, <1>2, <2>3, StatementAt, RefundViews, RefundPasses, Zenon
  <2>4. CASE k = 3
    BY <1>n, <1>2, <2>4, StatementAt, RefundViews, RefundPasses, Zenon
  <2>5. CASE k = 4
    BY <1>n, <1>2, <2>5, StatementAt, RefundViews, RefundPasses, Zenon
  <2>6. CASE k = 5
    BY <1>n, <1>2, <2>6, StatementAt, RefundViews, RefundPasses, Zenon
  <2> QED
    BY <2>1, <2>2, <2>3, <2>4, <2>5, <2>6
<1>3. CASE call[r].proposal.action = "create_support_ticket"
  <2>1. k \in 1..4
    BY <1>3 DEF LogAt
  <2>2. CASE k = 1
    BY <1>n, <1>3, <2>2, StatementAt, TicketViews, TicketPasses, Zenon
  <2>3. CASE k = 2
    BY <1>n, <1>3, <2>3, StatementAt, TicketViews, TicketPasses, Zenon
  <2>4. CASE k = 3
    BY <1>n, <1>3, <2>4, StatementAt, TicketViews, TicketPasses, Zenon
  <2>5. CASE k = 4
    BY <1>n, <1>3, <2>5, StatementAt, TicketViews, TicketPasses, Zenon
  <2> QED
    BY <2>1, <2>2, <2>3, <2>4, <2>5
<1> QED
    BY <1>1, <1>2, <1>3 DEF ActionName

-----------------------------------------------------------------------------
(* What is proved of Executor holds across interruptions.                  *)

AtomicNext == Next \/ \E r \in Runs : Interrupted(r)

LEMMA InterruptedTypes ==
    ASSUME TypeOK, NEW r \in Runs, Interrupted(r)
    PROVE  TypeOK'
<1>1. CASE Finish(r, "raised", NULL, NULL) /\ UNCHANGED sequence
  <2>1. CallTypeOK'
    BY <1>1, FinishTypes DEF Interrupted, CallTypeOK, TypeOK, AnswerKinds
  <2> QED
    BY <1>1, <2>1 DEF Interrupted, CallTypeOK, TypeOK, storeVars, StoreTypeOK, IsTable
<1>2. CASE Forget(r)
  <2>1. /\ phase' \in [Runs -> Phases]
        /\ call' \in [Runs -> CallRecord \cup {NoCall}]
        /\ answer' \in [Runs -> AnswerRecord \cup {NULL}]
        /\ sequence' \in [Runs -> Nat]
    BY <1>2 DEF Forget, TypeOK, Phases
  <2>2. \A q \in Runs : phase'[q] = "idle" <=> call'[q] = NoCall
    BY <1>2 DEF Forget, TypeOK
  <2> QED
    BY <2>1, <2>2 DEF Interrupted, TypeOK, storeVars, StoreTypeOK, IsTable
<1> QED
    BY <1>1, <1>2 DEF Interrupted

LEMMA InterruptedLedger ==
    ASSUME TypeOK, LedgerInv, NEW r \in Runs, Interrupted(r)
    PROVE  LedgerInv'
<1>1. CallsKnown
    BY DEF LedgerInv
<1>2. UNCHANGED <<permits, records, refunds, tickets, mutation_log>>
    BY DEF Interrupted, storeVars
<1>3. /\ phase' = [phase EXCEPT ![r] = "idle"]
      /\ call' = [call EXCEPT ![r] = NoCall]
    BY DEF Interrupted, Finish, Forget
<1>4. \A q \in Runs \ {r} : phase'[q] = phase[q] /\ call'[q] = call[q]
    BY <1>3 DEF TypeOK
<1>5. phase'[r] = "idle"
    BY <1>3 DEF TypeOK
<1>6. CallsKnown'
    BY <1>1, <1>2, <1>4, <1>5, OthersKnow
<1> QED
    BY <1>2, <1>6, LedgerUntouched

(* No step deletes a row.                                                  *)
LEMMA RowsStay ==
    ASSUME TypeOK, [AtomicNext]_vars
    PROVE  DOMAIN orders' = DOMAIN orders /\ DOMAIN payments' = DOMAIN payments
<1>1. ASSUME UNCHANGED storeVars
      PROVE  DOMAIN orders' = DOMAIN orders /\ DOMAIN payments' = DOMAIN payments
    BY <1>1 DEF storeVars
<1>2. ASSUME NEW r \in Runs, Issue(r)
      PROVE  DOMAIN orders' = DOMAIN orders /\ DOMAIN payments' = DOMAIN payments
    BY <1>2 DEF Issue, IssuePermit, resourceVars
<1>3. ASSUME NEW r \in Runs, Present(r)
      PROVE  DOMAIN orders' = DOMAIN orders /\ DOMAIN payments' = DOMAIN payments
    BY <1>1, <1>3 DEF Present, Load
<1>4. ASSUME NEW r \in Runs, Commit(r)
      PROVE  DOMAIN orders' = DOMAIN orders /\ DOMAIN payments' = DOMAIN payments
    BY <1>4 DEF Commit, WriteTool, CancelOrder, IssueRefund, CreateSupportTicket
<1>5. ASSUME NEW r \in Runs,
             \/ Resolve(r) \/ Lookup(r) \/ CommitStale(r)
             \/ CommitConflict(r) \/ Respond(r) \/ Interrupted(r)
      PROVE  DOMAIN orders' = DOMAIN orders /\ DOMAIN payments' = DOMAIN payments
    BY <1>1, <1>5 DEF Resolve, Lookup, CommitStale, CommitConflict, Respond, Interrupted
<1>6. ASSUME WorldStep
      PROVE  DOMAIN orders' = DOMAIN orders /\ DOMAIN payments' = DOMAIN payments
    BY <1>6 DEF WorldStep, EditOrder, EditPayment, EditShipment, Tick, resourceVars
<1>7. CASE UNCHANGED vars
    BY <1>1, <1>7 DEF vars
<1> QED
    BY <1>2, <1>3, <1>4, <1>5, <1>6, <1>7 DEF AtomicNext, Next, CallStep

(* A call that goes on keeps what it is about; one that starts is at       *)
(* "resolve", and check 3 finds the row or ends it.                        *)
LEMMA TargetsStay ==
    ASSUME TypeOK, CallsTargeted, [AtomicNext]_vars
    PROVE  CallsTargeted'
<1> DEFINE Same(q) == phase'[q] = phase[q] /\ call'[q] = call[q]
           Past(q) == phase'[q] \in {"lookup", "commit", "respond"}
<1>1. DOMAIN orders' = DOMAIN orders /\ DOMAIN payments' = DOMAIN payments
    BY RowsStay
<1>2. ASSUME NEW q \in Runs, Past(q),
             /\ call'[q].proposal = call[q].proposal
             /\ phase[q] \in {"lookup", "commit", "respond"}
      PROVE  Targeted(q)'
    BY <1>1, <1>2 DEF CallsTargeted, Targeted
<1>3. ASSUME NEW r \in Runs, \A q \in Runs \ {r} : Same(q), Past(r) => Targeted(r)'
      PROVE  CallsTargeted'
  <2> SUFFICES ASSUME NEW q \in Runs, Past(q) PROVE Targeted(q)'
    BY DEF CallsTargeted
  <2>1. CASE q = r
    BY <1>3, <2>1
  <2>2. CASE q # r
    BY <1>2, <1>3, <2>2
  <2> QED
    BY <2>1, <2>2
<1>4. ASSUME UNCHANGED <<phase, call>> PROVE CallsTargeted'
    BY <1>1, <1>4 DEF CallsTargeted, Targeted
<1>5. ASSUME NEW r \in Runs, Present(r) PROVE CallsTargeted'
  <2>1. PICK p, proposal : Load(r, p, proposal)
    BY <1>5 DEF Present
  <2>2. CASE GoTo(r, "resolve")
    <3>1. \A q \in Runs \ {r} : Same(q)
      BY <2>1 DEF Load, GoTo, TypeOK
    <3>2. ~Past(r)
      BY <2>2 DEF GoTo, TypeOK
    <3> QED
      BY <1>3, <3>1, <3>2
  <2>3. CASE UNCHANGED <<phase, call>>
    BY <1>4, <2>3
  <2> QED
    BY <2>1, <2>2, <2>3 DEF Load
<1>6. ASSUME NEW r \in Runs,
             /\ phase' = [phase EXCEPT ![r] = "idle"]
             /\ call' = [call EXCEPT ![r] = NoCall]
      PROVE  CallsTargeted'
  <2>1. (\A q \in Runs \ {r} : Same(q)) /\ ~Past(r)
    BY <1>6 DEF TypeOK
  <2> QED
    BY <1>3, <2>1
<1>7. ASSUME NEW r \in Runs, Resolve(r) PROVE CallsTargeted'
  <2> DEFINE target == ResolveTarget(call[r].proposal)
  <2>1. CASE \E reason : Reject(r, reason)
    BY <1>6, <2>1 DEF Reject, Finish
  <2>2. CASE /\ target # NULL
             /\ GoTo(r, "lookup")
             /\ call' = [call EXCEPT ![r].target = target]
    <3>1. \A q \in Runs \ {r} : Same(q)
      BY <2>2 DEF GoTo, TypeOK
    <3>2. call'[r].proposal = call[r].proposal
      <4>1. call[r] \in CallRecord
        BY <1>7, InHand DEF Resolve, CallTypeOK, TypeOK
      <4> HIDE DEF target
      <4> QED
        BY <2>2, <4>1 DEF TypeOK, CallRecord
    <3>3. Targeted(r)
      BY <2>2 DEF ResolveTarget, Targeted
    <3>4. Targeted(r)'
      BY <1>1, <3>2, <3>3 DEF Targeted
    <3> QED
      BY <1>3, <3>1, <3>4
  <2> QED
    BY <1>7, <2>1, <2>2 DEF Resolve
<1>8. ASSUME NEW r \in Runs, phase[r] \in {"lookup", "commit"},
             \E next : GoTo(r, next), UNCHANGED call
      PROVE  CallsTargeted'
  <2>1. \A q \in Runs \ {r} : Same(q)
    BY <1>8 DEF GoTo, TypeOK
  <2>2. Past(r) => Targeted(r)'
    BY <1>2, <1>8
  <2> QED
    BY <1>3, <2>1, <2>2
<1>9. ASSUME NEW r \in Runs, Lookup(r) PROVE CallsTargeted'
    BY <1>6, <1>8, <1>9 DEF Lookup, Reject, Finish
<1>10. ASSUME NEW r \in Runs, Commit(r) PROVE CallsTargeted'
    BY <1>8, <1>10 DEF Commit
<1>11. ASSUME NEW r \in Runs,
              CommitStale(r) \/ CommitConflict(r) \/ Respond(r) \/ Interrupted(r)
       PROVE  CallsTargeted'
    BY <1>6, <1>11
    DEF CommitStale, CommitConflict, Respond, Interrupted, Forget, Reject, Finish
<1>12. ASSUME \/ UNCHANGED vars
              \/ WorldStep /\ UNCHANGED executorVars
              \/ \E r \in Runs : Issue(r)
       PROVE  CallsTargeted'
    BY <1>4, <1>12 DEF vars, executorVars, Issue
<1> QED
    BY <1>5, <1>7, <1>9, <1>10, <1>11, <1>12 DEF AtomicNext, Next, CallStep

LEMMA SoundInit == Init => Sound
<1> SUFFICES ASSUME Init PROVE Sound
    OBVIOUS
<1>1. CallsTargeted
    BY DEF Init, ExecutorInit, CallsTargeted
<1> QED
    BY <1>1, InitTypes, LedgerInvInit DEF Sound

LEMMA SoundNext == Sound /\ [AtomicNext]_vars => Sound'
<1> SUFFICES ASSUME Sound, [AtomicNext]_vars PROVE Sound'
    OBVIOUS
<1>1. CallsTargeted'
    BY TargetsStay DEF Sound
<1>2. CASE [Next]_vars
    BY <1>1, <1>2, NextTypes, LedgerInvNext DEF Sound
<1>3. ASSUME NEW r \in Runs, Interrupted(r) PROVE Sound'
    BY <1>1, <1>3, InterruptedTypes, InterruptedLedger DEF Sound
<1> QED
    BY <1>2, <1>3 DEF AtomicNext

-----------------------------------------------------------------------------
(* Open transactions.                                                      *)

TablesStay == UNCHANGED resourceVars /\ UNCHANGED ledgerVars

LEMMA OpenStays ==
    ASSUME NEW q, Open(q), TablesStay, UNCHANGED lock, tx'[q] = tx[q],
           phase'[q] = phase[q], call'[q] = call[q]
    PROVE  Open(q)'
<1>1. \A k : View(q, k)' = View(q, k)
    BY DEF View, TablesStay, resourceVars, ledgerVars, OrdersAt, PaymentsAt, ShipmentsAt, PermitsAt,
           RecordsAt, RefundsAt, TicketsAt, MutationLogAt
<1>2. \A k : Passed(q, k)' <=> Passed(q, k)
    BY DEF Passed, TablesStay, resourceVars, ledgerVars
<1> QED
    BY <1>1, <1>2 DEF Open

(* Whoever holds the lock, nobody else has a transaction open.             *)
LEMMA OnlyTheHolder ==
    ASSUME TxInv, NEW r, lock = r, NEW q \in Runs, q # r
    PROVE  tx[q] = NoTransaction
    BY DEF TxInv, Open

LEMMA NobodyHolds ==
    ASSUME TxInv, lock = NULL, NEW q \in Runs
    PROVE  tx[q] = NoTransaction
    BY NullAssumption DEF TxInv, Open

(* A step of r that leaves the tables and everybody else's transaction     *)
(* alone keeps the invariant, if it keeps that of r.                       *)
LEMMA TxLocal ==
    ASSUME TxInv, NEW r \in Runs, TablesStay, NEW mine,
           tx' = [tx EXCEPT ![r] = mine],
           \A q \in Runs \ {r} : /\ tx[q] # NoTransaction => lock' = lock
                                 /\ phase'[q] = phase[q]
                                 /\ call'[q] = call[q],
           mine # NoTransaction => Open(r)'
    PROVE  TxInv'
<1>1. tx' = [q \in Runs |-> tx'[q]]
    BY DEF TxInv
<1>2. ASSUME NEW q \in Runs, tx'[q] # NoTransaction PROVE Open(q)'
  <2>1. CASE q = r
    BY <1>2, <2>1 DEF TxInv
  <2>2. CASE q # r
    <3>1. tx'[q] = tx[q] /\ tx[q] # NoTransaction
      BY <1>2, <2>2 DEF TxInv
    <3>2. Open(q)
      BY <3>1 DEF TxInv
    <3>3. lock' = lock /\ phase'[q] = phase[q] /\ call'[q] = call[q]
      BY <2>2, <3>1
    <3> QED
      BY <3>1, <3>2, <3>3, OpenStays
  <2> QED
    BY <2>1, <2>2
<1> QED
    BY <1>1, <1>2 DEF TxInv

(* When nobody has a transaction open afterwards there is nothing to keep. *)
LEMMA TxNone ==
    ASSUME TxInv, \A q \in Runs : tx'[q] = NoTransaction,
           UNCHANGED tx \/ \E r \in Runs : \E mine : tx' = [tx EXCEPT ![r] = mine]
    PROVE  TxInv'
<1>1. tx' = [q \in Runs |-> tx'[q]]
    BY DEF TxInv
<1> QED
    BY <1>1 DEF TxInv

LEMMA BeginOpens ==
    ASSUME TypeOK, TxInv, NEW r \in Runs, Begin(r)
    PROVE  TxInv'
<1>1. tx' = [tx EXCEPT ![r] = [at |-> 1, db |-> Tables]]
    BY DEF Begin
<1>2. tx'[r] = [at |-> 1, db |-> Tables]
    BY <1>1 DEF TxInv
<1>3. UNCHANGED vars /\ lock' = r /\ phase[r] = "commit" /\ lock = NULL
    BY DEF Begin
<1>4. View(r, 1)' = Tables
  <2>1. LogAt(call[r].proposal.action) \in {2, 3}
    BY DEF LogAt
  <2> QED
    BY <1>3, <2>1 DEF View, Tables, vars, storeVars, executorVars,
                      OrdersAt, PaymentsAt, ShipmentsAt, PermitsAt,
                      RecordsAt, RefundsAt, TicketsAt, MutationLogAt
<1>5. Passed(r, 1)'
    BY <1>3 DEF Passed, LogAt, vars, executorVars
<1>6. Open(r)'
  <2>1. tx'[r].at = 1
    BY <1>2
  <2>2. 1 \in 1..(LogAt(call'[r].proposal.action) + 3)
    BY DEF LogAt
  <2> QED
    BY <1>2, <1>3, <1>4, <1>5, <2>1, <2>2 DEF Open, vars, executorVars
<1>7. \A q \in Runs \ {r} : tx[q] = NoTransaction
    BY <1>3, NobodyHolds
<1>8. TablesStay
    BY <1>3 DEF TablesStay, vars, storeVars, resourceVars, ledgerVars
<1> QED
    BY <1>1, <1>3, <1>6, <1>7, <1>8, TxLocal DEF vars, executorVars

LEMMA StatementKeeps ==
    ASSUME TypeOK, TxInv, NEW r \in Runs, Statement(r)
    PROVE  TxInv'
<1> DEFINE action == call[r].proposal.action
           k == tx[r].at
<1>1. /\ Open(r)
      /\ UNCHANGED vars
      /\ UNCHANGED lock
    BY DEF Statement, TxInv
<1>2. action \in ActionName
    BY <1>1, InHand DEF Open, TypeOK, CallTypeOK
<1>3. /\ k \in 1..(LogAt(action) + 2)
      /\ ~Misses(Statements(action)[k], View(r, k), call[r])
      /\ ~Raises(Statements(action)[k], View(r, k), call[r])
  <2>1. tx[r].db = View(r, k) /\ k \in 1..(LogAt(action) + 3)
    BY <1>1 DEF Open
  <2>2. ~(k > LogAt(action) + 2)
    BY <1>2, StatementCount DEF Statement, Done
  <2>3. LogAt(action) \in Nat
    BY DEF LogAt
  <2> HIDE DEF k, action
  <2>4. k \in 1..(LogAt(action) + 2)
    BY <2>1, <2>2, <2>3
  <2> USE DEF k, action
  <2> QED
    BY <2>1, <2>4 DEF Statement, NextStatement
<1>4. /\ Effect(r, Statements(action)[k], View(r, k), call[r]) = View(r, k + 1)
      /\ Passed(r, k + 1)
    BY <1>1, <1>2, <1>3, ViewStep DEF Open
<1>5. tx' = [tx EXCEPT ![r] = [at |-> k + 1, db |-> View(r, k + 1)]]
  <2>1. tx[r].db = View(r, k)
    BY <1>1 DEF Open
  <2> QED
    BY <1>4, <2>1 DEF Statement, NextStatement
<1>6. tx'[r] = [at |-> k + 1, db |-> View(r, k + 1)]
    BY <1>5 DEF TxInv
<1>7. TablesStay
    BY <1>1 DEF TablesStay, vars, storeVars, resourceVars, ledgerVars
<1>8. \A j : View(r, j)' = View(r, j) /\ (Passed(r, j)' <=> Passed(r, j))
    BY <1>1 DEF View, Passed, vars, storeVars, executorVars,
                OrdersAt, PaymentsAt, ShipmentsAt, PermitsAt,
                RecordsAt, RefundsAt, TicketsAt, MutationLogAt
<1>9. Open(r)'
  <2>1. tx'[r].at = k + 1
    BY <1>6
  <2>2. k + 1 \in 1..(LogAt(action) + 3)
    BY <1>3 DEF LogAt
  <2> QED
    BY <1>1, <1>4, <1>6, <1>8, <2>1, <2>2 DEF Open, vars, executorVars
<1> QED
    BY <1>1, <1>5, <1>7, <1>9, TxLocal DEF vars, executorVars

(* At COMMIT the view is what Executor's Commit makes of the tables, and   *)
(* the tests passed are its guards.                                        *)
LEMMA CancelledShipment ==
    ASSUME NEW f, NEW K, f \in [K -> ShipmentRow], NEW o \in K
    PROVE  [f EXCEPT ![o] = [status |-> "CANCELLED", version |-> @.version + 1]]
                = CancelIn(f, o)
    BY DEF CancelIn, ShipmentRow

LEMMA CommitMaps ==
    ASSUME Sound, TxInv, NEW r \in Runs, CommitTransaction(r)
    PROVE  Commit(r)
<1> DEFINE c == call[r]
           o == call[r].proposal.order
           action == call[r].proposal.action
           n == LogAt(action) + 3
<1>1. Open(r)
    BY DEF CommitTransaction, TxInv
<1>2. action \in ActionName /\ c \in CallRecord
    BY <1>1, InHand DEF Open, Sound, TypeOK, CallTypeOK
<1>3. tx[r].at = n
  <2>1. tx[r].at \in 1..n /\ tx[r].at > LogAt(action) + 2
    BY <1>1, <1>2, StatementCount DEF Open, CommitTransaction, Done
  <2> QED
    BY <2>1 DEF LogAt
<1>4. tx[r].db = View(r, n) /\ Passed(r, n)
    BY <1>1, <1>3 DEF Open
<1>5. /\ c.row.resource = ResourceOf(action, o)
      /\ Targeted(r)
      /\ Covers(c.row, c.proposal)
    BY <1>1 DEF Open, Sound, LedgerInv, CallsKnown, CallKnown, CallsTargeted,
                Covers, ResourceOf
<1>6. LogAt(action) \in {2, 3} /\ (LogAt(action) = 2 <=> action = "create_support_ticket")
    BY DEF LogAt
<1>7. /\ orders' = IF action = "cancel_order" THEN CancelIn(orders, o) ELSE orders
      /\ payments' = IF action = "issue_refund"
                       THEN RefundIn(payments, o, AmountMoved(c.proposal)) ELSE payments
      /\ shipments' = IF /\ action = "cancel_order"
                         /\ o \in DOMAIN shipments
                         /\ shipments[o].status \in CancellableShipmentStatuses
                        THEN CancelIn(shipments, o) ELSE shipments
      /\ permits' = SpendIn(permits, c.permit)
      /\ records' = InsertRow(records, c.row.key, ResultOf(c.permit, c.row, c.proposal))
      /\ refunds' = IF action = "issue_refund"
                      THEN InsertRow(refunds, c.permit,
                                [order |-> o, amount |-> AmountMoved(c.proposal)])
                      ELSE refunds
      /\ tickets' = IF action = "create_support_ticket"
                      THEN InsertRow(tickets, c.permit, [order |-> o]) ELSE tickets
      /\ mutation_log' = Append(mutation_log,
                [run |-> r, action |-> action, resource |-> c.row.resource,
                 amount |-> AmountMoved(c.proposal), by |-> c.permit])
  <2>1. Publish(View(r, n))
    BY <1>4 DEF CommitTransaction
  <2> QED
    BY <1>6, <2>1 DEF Publish, View, LogAt,
                      OrdersAt, PaymentsAt, ShipmentsAt, PermitsAt,
                      RecordsAt, RefundsAt, TicketsAt, MutationLogAt
<1>8. c.row.key \notin DOMAIN records
    BY <1>4, <1>6 DEF Passed
<1>9. WriteTool(r, c.permit, c.row, c.proposal)
  <2>1. CASE action = "cancel_order"
    <3>1. OrderAtVersion(o, c.row.version)
      BY <1>4, <1>5, <1>6, <2>1 DEF Passed, Targeted, OrderAtVersion
    <3>2. CancelShipmentOf(o)
      <4>1. shipments \in [DOMAIN shipments -> ShipmentRow]
        BY DEF Sound, TypeOK, StoreTypeOK, IsTable
      <4>2. CASE o \in DOMAIN shipments /\ shipments[o].status \in CancellableShipmentStatuses
        <5>1. shipments' = CancelIn(shipments, o)
          BY <1>7, <2>1, <4>2
        <5>2. CancelIn(shipments, o) =
                [shipments EXCEPT ![o] = [status |-> "CANCELLED", version |-> @.version + 1]]
          BY <4>1, <4>2, CancelledShipment
        <5> QED
          BY <4>2, <5>1, <5>2 DEF CancelShipmentOf
      <4>3. CASE ~(o \in DOMAIN shipments /\ shipments[o].status \in CancellableShipmentStatuses)
        BY <1>7, <4>3 DEF CancelShipmentOf
      <4> QED
        BY <4>2, <4>3
    <3>3. LogMutation(r, "cancel_order", Order(o), 0, c.permit)
      BY <1>5, <1>7, <2>1 DEF LogMutation, ResourceOf, AmountMoved
    <3> QED
      BY <1>5, <1>7, <2>1, <3>1, <3>2, <3>3 DEF WriteTool, CancelOrder, CancelIn
  <2>2. CASE action = "issue_refund"
    <3>1. PaymentAtVersion(o, c.row.version) /\ c.permit \notin DOMAIN refunds
      BY <1>4, <1>5, <1>6, <2>2 DEF Passed, Targeted, PaymentAtVersion
    <3>2. AmountMoved(c.proposal) = AmountOf(c.proposal)
      BY <2>2 DEF AmountMoved
    <3>3. LogMutation(r, "issue_refund", Payment(o), AmountOf(c.proposal), c.permit)
      BY <1>5, <1>7, <2>2, <3>2 DEF LogMutation, ResourceOf
    <3> QED
      BY <1>5, <1>7, <2>2, <3>1, <3>2, <3>3 DEF WriteTool, IssueRefund, RefundIn
  <2>3. CASE action = "create_support_ticket"
    <3>1. o \in DOMAIN orders /\ c.permit \notin DOMAIN tickets
      BY <1>4, <1>5, <1>6, <2>3 DEF Passed, Targeted
    <3>2. LogMutation(r, "create_support_ticket", Order(o), 0, c.permit)
      BY <1>5, <1>7, <2>3 DEF LogMutation, ResourceOf, AmountMoved
    <3> QED
      BY <1>5, <1>7, <2>3, <3>1, <3>2 DEF WriteTool, CreateSupportTicket
  <2> QED
    BY <1>2, <2>1, <2>2, <2>3 DEF ActionName
<1> QED
    BY <1>1, <1>7, <1>8, <1>9 DEF Open, Commit, CommitTransaction, SpendIn

(* The guarded UPDATE is the first statement of its transaction.           *)
LEMMA GuardComesFirst ==
    ASSUME NEW action \in ActionName, NEW k \in 1..(LogAt(action) + 2)
    PROVE  /\ Statements(action)[k] = "update order" => action = "cancel_order" /\ k = 1
           /\ Statements(action)[k] = "update payment" => action = "issue_refund" /\ k = 1
<1>1. CASE action = "cancel_order"
  <2>1. k \in {1, 2, 3, 4, 5}
    BY <1>1 DEF LogAt
  <2> QED
    BY <1>1, <2>1, StatementAt
<1>2. CASE action = "issue_refund"
  <2>1. k \in {1, 2, 3, 4, 5}
    BY <1>2 DEF LogAt
  <2> QED
    BY <1>2, <2>1, StatementAt
<1>3. CASE action = "create_support_ticket"
  <2>1. k \in {1, 2, 3, 4}
    BY <1>3 DEF LogAt
  <2> QED
    BY <1>3, <2>1, StatementAt
<1> QED
    BY <1>1, <1>2, <1>3 DEF ActionName

(* A guard that fails inside a transaction fails of the tables.            *)
LEMMA StaleMaps ==
    ASSUME Sound, TxInv, NEW r \in Runs, RollbackStale(r)
    PROVE  CommitStale(r)
<1> DEFINE o == call[r].proposal.order
           action == call[r].proposal.action
           k == tx[r].at
<1>1. /\ Open(r)
      /\ Misses(NextStatement(r), tx[r].db, call[r])
    BY DEF RollbackStale, TxInv
<1>2. action \in ActionName
    BY <1>1, InHand DEF Open, Sound, TypeOK, CallTypeOK
<1>3. tx[r].db = View(r, k) /\ k \in 1..(LogAt(action) + 3)
    BY <1>1 DEF Open
<1>4. k \in 1..(LogAt(action) + 2)
  <2>1. ~(k > LogAt(action) + 2)
    BY <1>2, StatementCount DEF RollbackStale, Done
  <2>2. LogAt(action) \in Nat
    BY DEF LogAt
  <2> HIDE DEF k, action
  <2> QED
    BY <1>3, <2>1, <2>2
<1>5. ~GuardMatches(call[r].row, call[r].proposal)
  <2>1. CASE NextStatement(r) = "update order"
    <3>1. action = "cancel_order" /\ k = 1
      BY <1>2, <1>4, <2>1, GuardComesFirst DEF NextStatement
    <3>2. View(r, 1).orders = orders
      BY ViewFields DEF OrdersAt
    <3>3. orders[o].version # call[r].row.version
      BY <1>1, <1>3, <2>1, <3>1, <3>2 DEF Misses
    <3> QED
      BY <3>1, <3>3 DEF GuardMatches, OrderAtVersion
  <2>2. CASE NextStatement(r) = "update payment"
    <3>1. action = "issue_refund" /\ k = 1
      BY <1>2, <1>4, <2>2, GuardComesFirst DEF NextStatement
    <3>2. View(r, 1).payments = payments
      BY ViewFields DEF PaymentsAt
    <3>3. payments[o].version # call[r].row.version
      BY <1>1, <1>3, <2>2, <3>1, <3>2 DEF Misses
    <3> QED
      BY <3>1, <3>3 DEF GuardMatches, PaymentAtVersion
  <2> QED
    BY <1>1, <2>1, <2>2 DEF Misses
<1> QED
    BY <1>1, <1>5 DEF Open, RollbackStale, Rollback, CommitStale, storeVars,
                      resourceVars, ledgerVars
-----------------------------------------------------------------------------
(* Every step of Transaction, seen from outside.                           *)

(* A run without a transaction takes a step of its own: nobody's changes.  *)
LEMMA TxIdle ==
    ASSUME TxInv, NEW r \in Runs, tx[r] = NoTransaction, TablesStay, UNCHANGED <<lock, tx>>,
           \A q \in Runs \ {r} : phase'[q] = phase[q] /\ call'[q] = call[q]
    PROVE  TxInv'
<1>1. tx' = [tx EXCEPT ![r] = NoTransaction]
    BY DEF TxInv
<1> QED
    BY <1>1, TxLocal

LEMMA TablesOf ==
    ASSUME UNCHANGED storeVars PROVE TablesStay
    BY DEF TablesStay, storeVars, resourceVars, ledgerVars

(* The steps that end the transaction of r leave none open.                *)
LEMMA Closes ==
    ASSUME TxInv, NEW r \in Runs, tx[r] # NoTransaction, Close(r)
    PROVE  TxInv'
<1>1. lock = r
    BY DEF TxInv, Open
<1>2. tx' = [tx EXCEPT ![r] = NoTransaction]
    BY DEF Close
<1>3. \A q \in Runs : tx'[q] = NoTransaction
    BY <1>1, <1>2, OnlyTheHolder DEF TxInv
<1> QED
    BY <1>2, <1>3, TxNone

LEMMA BusyMaps ==
    ASSUME Sound, TxInv, NEW r \in Runs, Busy(r)
    PROVE  Interrupted(r) /\ TxInv'
<1>1. Interrupted(r)
    BY DEF Busy, Interrupted
<1>2. \A q \in Runs \ {r} : phase'[q] = phase[q] /\ call'[q] = call[q]
    BY DEF Busy, Finish, Sound, TypeOK
<1> QED
    BY <1>1, <1>2, TxIdle, TablesOf DEF Busy

LEMMA ConflictMaps ==
    ASSUME TxInv, NEW r \in Runs, RollbackConflict(r)
    PROVE  Interrupted(r) /\ TxInv'
<1>1. phase[r] = "commit"
    BY DEF RollbackConflict, TxInv, Open
<1>2. Interrupted(r)
    BY <1>1
    DEF RollbackConflict, Rollback, Interrupted, storeVars, resourceVars, ledgerVars
<1> QED
    BY <1>2, Closes DEF RollbackConflict, Rollback

LEMMA RestartMaps ==
    ASSUME Sound, TxInv, NEW r \in Runs, Restart(r)
    PROVE  Interrupted(r) /\ TxInv'
<1>1. Interrupted(r)
    BY DEF Restart, DropTransaction, Interrupted, storeVars, resourceVars, ledgerVars
<1>2. \A q \in Runs \ {r} : phase'[q] = phase[q] /\ call'[q] = call[q]
    BY DEF Restart, Forget, Sound, TypeOK
<1>3. \A q \in Runs \ {r} : tx[q] # NoTransaction => lock' = lock
    BY DEF TxInv, Open, Restart, DropTransaction
<1>4. TablesStay /\ tx' = [tx EXCEPT ![r] = NoTransaction]
    BY DEF Restart, DropTransaction, TablesStay
<1> QED
    BY <1>1, <1>2, <1>3, <1>4, TxLocal

(* The steps of a call outside its transaction are those of Executor.      *)
LEMMA PlainStepKeeps ==
    ASSUME Sound, TxInv, NEW r \in Runs, UNCHANGED <<lock, tx>>,
           Resolve(r) \/ Lookup(r) \/ Respond(r) \/ Present(r)
    PROVE  TxInv'
<1>1. phase[r] # "commit"
    BY DEF Resolve, Lookup, Respond, Present, Load
<1>2. tx[r] = NoTransaction
    BY <1>1 DEF TxInv, Open
<1>3. UNCHANGED storeVars
    BY DEF Resolve, Lookup, Respond, Present, Load
<1>4. \A q \in Runs \ {r} : phase'[q] = phase[q] /\ call'[q] = call[q]
  <2>1. CASE Resolve(r)
    BY <2>1 DEF Resolve, Reject, Finish, GoTo, Sound, TypeOK
  <2>2. CASE Lookup(r)
    BY <2>2 DEF Lookup, Reject, Finish, GoTo, Sound, TypeOK
  <2>3. CASE Respond(r)
    BY <2>3 DEF Respond, Finish, Sound, TypeOK
  <2>4. CASE Present(r)
    BY <2>4 DEF Present, Load, GoTo, Sound, TypeOK
  <2> QED
    BY <2>1, <2>2, <2>3, <2>4
<1> QED
    BY <1>2, <1>3, <1>4, TxIdle, TablesOf

(* Whoever writes outside a transaction finds none open.                   *)
LEMMA OtherWriterKeeps ==
    ASSUME TxInv, lock = NULL, UNCHANGED <<lock, tx>>
    PROVE  TxInv'
<1>1. \A q \in Runs : tx'[q] = NoTransaction
    BY NobodyHolds
<1> QED
    BY <1>1, TxNone

(* Time passes, or nothing happens.                                        *)
LEMMA QuietKeeps ==
    ASSUME TxInv, TablesStay, UNCHANGED <<executorVars, lock, tx>>
    PROVE  TxInv'
<1>1. ASSUME NEW q \in Runs, tx'[q] # NoTransaction PROVE Open(q)'
    BY <1>1, OpenStays DEF TxInv, executorVars
<1> QED
    BY <1>1 DEF TxInv

LEMMA StepMaps ==
    Sound /\ TxInv /\ [TransactionNext]_transactionVars => [AtomicNext]_vars /\ TxInv'
<1> SUFFICES ASSUME Sound, TxInv, [TransactionNext]_transactionVars
             PROVE  [AtomicNext]_vars /\ TxInv'
    OBVIOUS
<1>1. ASSUME NEW r \in Runs, TransactionStep(r) PROVE [AtomicNext]_vars /\ TxInv'
  <2>1. CASE Begin(r)
    BY <2>1, BeginOpens DEF Begin, Sound
  <2>2. CASE Busy(r)
    BY <2>2, BusyMaps DEF AtomicNext
  <2>3. CASE Statement(r)
    BY <2>3, StatementKeeps DEF Statement, Sound
  <2>4. CASE RollbackStale(r)
    BY <2>4, StaleMaps, Closes DEF AtomicNext, Next, CallStep, RollbackStale, Rollback
  <2>5. CASE RollbackConflict(r)
    BY <2>5, ConflictMaps DEF AtomicNext
  <2>6. CASE CommitTransaction(r)
    BY <2>6, CommitMaps, Closes DEF AtomicNext, Next, CallStep, CommitTransaction
  <2>7. CASE (Resolve(r) \/ Lookup(r) \/ Respond(r)) /\ UNCHANGED <<lock, tx>>
    BY <2>7, PlainStepKeeps DEF AtomicNext, Next, CallStep
  <2> QED
    BY <1>1, <2>1, <2>2, <2>3, <2>4, <2>5, <2>6, <2>7 DEF TransactionStep
<1>2. ASSUME NEW r \in Runs, Restart(r) PROVE [AtomicNext]_vars /\ TxInv'
    BY <1>2, RestartMaps DEF AtomicNext
<1>3. ASSUME NEW r \in Runs, Present(r), UNCHANGED <<lock, tx>>
      PROVE  [AtomicNext]_vars /\ TxInv'
    BY <1>3, PlainStepKeeps DEF AtomicNext, Next
<1>4. ASSUME NEW r \in Runs, Issue(r), lock = NULL, UNCHANGED <<lock, tx>>
      PROVE  [AtomicNext]_vars /\ TxInv'
    BY <1>4, OtherWriterKeeps DEF AtomicNext, Next
<1>5. ASSUME Tick, UNCHANGED <<executorVars, lock, tx>>
      PROVE  [AtomicNext]_vars /\ TxInv'
    BY <1>5, QuietKeeps DEF AtomicNext, Next, WorldStep, Tick, TablesStay
<1>6. ASSUME WorldStep, lock = NULL, UNCHANGED <<executorVars, lock, tx>>
      PROVE  [AtomicNext]_vars /\ TxInv'
    BY <1>6, OtherWriterKeeps DEF AtomicNext, Next
<1>7. CASE UNCHANGED transactionVars
  <2>1. UNCHANGED vars /\ UNCHANGED <<executorVars, lock, tx>> /\ TablesStay
    BY <1>7, TablesOf DEF transactionVars, vars
  <2> QED
    BY <2>1, QuietKeeps
<1> QED
    BY <1>1, <1>2, <1>3, <1>4, <1>5, <1>6, <1>7 DEF TransactionNext

LEMMA TransactionInitInv == TransactionInit => Init /\ Sound /\ TxInv
    BY SoundInit DEF TransactionInit, TxInv

LEMMA StepKeepsAll ==
    Sound /\ TxInv /\ [TransactionNext]_transactionVars
        => [AtomicNext]_vars /\ (Sound /\ TxInv)'
    BY StepMaps, SoundNext

(* Transaction implements Executor with interruptions: to everybody else   *)
(* _commit is one step or none (db.py immediate_transaction).              *)
THEOREM AtomicCommit == TransactionSpec => CommitIsAtomic
<1>1. TransactionInit => Init /\ Sound /\ TxInv
    BY TransactionInitInv
<1>2. Sound /\ TxInv /\ [TransactionNext]_transactionVars
        => [AtomicNext]_vars /\ (Sound /\ TxInv)'
    BY StepKeepsAll
<1>3. [AtomicNext]_vars <=> [Next \/ \E r \in Runs : Interrupted(r)]_vars
    BY DEF AtomicNext
<1> QED
    BY <1>1, <1>2, <1>3, PTL DEF TransactionSpec, CommitIsAtomic

(* Somebody who holds the lock has a transaction open.                     *)
LockInv ==
    /\ lock \in Runs \cup {NULL}
    /\ \A r \in Runs : lock = r => tx[r] # NoTransaction

(* Begin takes the lock and opens the transaction, the end of it gives     *)
(* back both, and nobody else touches either.                              *)
LEMMA LockInvNext ==
    ASSUME TxInv, LockInv, [TransactionNext]_transactionVars
    PROVE  LockInv'
<1>0. tx = [q \in Runs |-> tx[q]]
    BY DEF TxInv
<1>1. ASSUME NEW r \in Runs, Begin(r) PROVE LockInv'
  <2>1. lock' = r /\ tx'[r] = [at |-> 1, db |-> Tables]
    BY <1>0, <1>1 DEF Begin
  <2>2. tx'[r] # NoTransaction
    BY <2>1 DEF NoTransaction
  <2> QED
    BY <2>1, <2>2 DEF LockInv
<1>2. ASSUME NEW r \in Runs, Statement(r) PROVE LockInv'
  <2>1. UNCHANGED lock /\ tx[r].at >= 1 /\ tx[r].at \in Int
    BY <1>2 DEF Statement, TxInv, Open, LogAt
  <2>2. \E db : tx' = [tx EXCEPT ![r] = [at |-> tx[r].at + 1, db |-> db]]
    BY <1>2 DEF Statement
  <2>3. tx'[r].at # 0 /\ \A q \in Runs \ {r} : tx'[q] = tx[q]
    BY <1>0, <2>1, <2>2
  <2> QED
    BY <2>1, <2>3 DEF LockInv, NoTransaction
<1>3. ASSUME NEW r \in Runs, Close(r) PROVE LockInv'
    BY <1>3, NullAssumption DEF Close, LockInv
<1>4. ASSUME NEW r \in Runs, Restart(r) PROVE LockInv'
  <2>1. /\ lock' = IF lock = r THEN NULL ELSE lock
        /\ \A q \in Runs \ {r} : tx'[q] = tx[q]
    BY <1>0, <1>4 DEF Restart, DropTransaction
  <2> QED
    BY <2>1, NullAssumption DEF LockInv
<1>5. ASSUME UNCHANGED <<lock, tx>> PROVE LockInv'
    BY <1>5 DEF LockInv
<1> QED
    BY <1>1, <1>2, <1>3, <1>4, <1>5
    DEF TransactionNext, TransactionStep, Busy, RollbackStale, RollbackConflict, Rollback,
        CommitTransaction, transactionVars

(* A transaction is open exactly for the holder of the write lock, inside  *)
(* _commit, so two are never open at once (BEGIN IMMEDIATE).               *)
THEOREM OneWriter == TransactionSpec => []TransactionTypeOK
<1>1. TransactionInit => LockInv
    BY NullAssumption DEF TransactionInit, LockInv
<1>2. Sound /\ TxInv /\ LockInv => TransactionTypeOK
  <2> SUFFICES ASSUME Sound, TxInv, LockInv PROVE TransactionTypeOK
    OBVIOUS
  <2>1. \A r \in Runs : tx[r] # NoTransaction => phase[r] = "commit" /\ lock = r
    BY DEF TxInv, Open
  <2> QED
    BY <2>1 DEF TransactionTypeOK, Sound, LockInv
<1>3. TxInv /\ LockInv /\ [TransactionNext]_transactionVars => LockInv'
    BY LockInvNext
<1> QED
    BY <1>1, <1>2, <1>3, TransactionInitInv, StepKeepsAll, PTL DEF TransactionSpec

(* The tables agree with each other at every instant another connection or *)
(* a restarted process can look at them (db.py:6-9).                       *)
THEOREM LedgerSurvives == TransactionSpec => []LedgerAgrees
<1>1. Sound => LedgerAgrees
    BY DEF Sound, LedgerInv
<1> QED
    BY <1>1, TransactionInitInv, StepKeepsAll, PTL DEF TransactionSpec

(* An interruption writes nothing, and no refund call goes on past it.     *)
LEMMA InterruptedRefunds ==
    ASSUME TypeOK, RefundInv, NEW r \in Runs, Interrupted(r)
    PROVE  RefundInv'
<1>1. UNCHANGED <<payments, mutation_log>>
    BY DEF Interrupted, storeVars
<1>2. \A q \in Runs : phase'[q] \in {"lookup", "commit"} =>
                phase'[q] = phase[q] /\ call'[q] = call[q]
    BY DEF Interrupted, Finish, Forget, TypeOK
<1> QED
    BY <1>1, <1>2, StillPinned, RefundUntouched DEF RefundInv

(* A payment is refunded once across crashes, restarts and retries with a  *)
(* permit that was issued before (write_tools.issue_refund).               *)
THEOREM OneRefundSurvives == TransactionSpec => []RefundedOnce
<1>1. TransactionInit => Sound /\ TxInv /\ RefundInv
    BY TransactionInitInv, RefundInvInit
<1>2. Sound /\ TxInv /\ RefundInv /\ [TransactionNext]_transactionVars
        => (Sound /\ TxInv)' /\ RefundInv'
  <2> SUFFICES ASSUME Sound, TxInv, RefundInv, [TransactionNext]_transactionVars
               PROVE  (Sound /\ TxInv)' /\ RefundInv'
    OBVIOUS
  <2>1. [AtomicNext]_vars /\ (Sound /\ TxInv)'
    BY StepKeepsAll
  <2>2. CASE [Next]_vars
    BY <2>1, <2>2, RefundInvNext DEF Sound
  <2>3. ASSUME NEW r \in Runs, Interrupted(r) PROVE RefundInv'
    BY <2>3, InterruptedRefunds DEF Sound
  <2> QED
    BY <2>1, <2>2, <2>3 DEF AtomicNext
<1>3. RefundInv => RefundedOnce
    BY DEF RefundInv
<1> QED
    BY <1>1, <1>2, <1>3, PTL DEF TransactionSpec

(* No run has told more than its rows say, the event it is about to write  *)
(* included.                                                               *)
NeverAhead == \A q \in Runs : Told(q) <= Cardinality(MutationLogRows(q))

LEMMA NeverAheadNext ==
    ASSUME Sound, NeverAhead, [AtomicNext]_vars
    PROVE  NeverAhead'
<1> SUFFICES ASSUME NEW q \in Runs
             PROVE  Told(q)' <= Cardinality(MutationLogRows(q)')
    BY DEF NeverAhead
<1>1. /\ Told(q) <= Cardinality(MutationLogRows(q))
      /\ Told(q) \in Nat
      /\ Cardinality(MutationLogRows(q)) \in Nat
    BY RowsAreCounted DEF NeverAhead, Told, Sound, TypeOK
<1>2. CASE [Next]_vars
    BY <1>1, <1>2, ToldStep DEF Sound
<1>3. ASSUME NEW r \in Runs, Interrupted(r)
      PROVE  Told(q)' <= Cardinality(MutationLogRows(q)')
  <2>1. MutationLogRows(q)' = MutationLogRows(q)
    BY <1>3 DEF Interrupted, storeVars, MutationLogRows
  <2>2. phase'[q] = "respond" => phase[q] = "respond"
    BY <1>3 DEF Interrupted, Finish, Forget, Sound, TypeOK
  <2>3. emitted'[q] = emitted[q] /\ emitted[q] \in Nat
    BY <1>3 DEF Interrupted, Sound, TypeOK
  <2> QED
    BY <1>1, <2>1, <2>2, <2>3 DEF Told
<1> QED
    BY <1>2, <1>3 DEF AtomicNext

(* A death between COMMIT and the event leaves the trace short of the      *)
(* ledger, and nothing ever puts it ahead (executor.py:88-90).             *)
THEOREM TraceStaysBehind == TransactionSpec => []TraceIsNeverAhead
<1>1. TransactionInit => Sound /\ TxInv /\ NeverAhead
  <2>1. Init => NeverAhead
    BY NothingTold DEF NeverAhead
  <2> QED
    BY <2>1, TransactionInitInv
<1>2. Sound /\ TxInv /\ NeverAhead /\ [TransactionNext]_transactionVars
        => (Sound /\ TxInv)' /\ NeverAhead'
    BY StepKeepsAll, NeverAheadNext
<1>3. Sound /\ NeverAhead => TraceIsNeverAhead
  <2> SUFFICES ASSUME Sound, NeverAhead, NEW q \in Runs
               PROVE  emitted[q] <= Cardinality(MutationLogRows(q))
    BY DEF TraceIsNeverAhead
  <2>1. /\ Told(q) <= Cardinality(MutationLogRows(q))
        /\ Cardinality(MutationLogRows(q)) \in Nat
        /\ emitted[q] \in Nat
    BY RowsAreCounted DEF NeverAhead, Sound, TypeOK
  <2> QED
    BY <2>1 DEF Told
<1> QED
    BY <1>1, <1>2, <1>3, PTL DEF TransactionSpec
=============================================================================
