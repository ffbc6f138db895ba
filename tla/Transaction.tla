----------------------------- MODULE Transaction -----------------------------
(***************************************************************************)
(* Executor._commit one SQL statement at a time: BEGIN IMMEDIATE takes the *)
(* only write lock of the database, each statement changes the private     *)
(* view of the transaction, COMMIT publishes it, and an exception rolls it *)
(* back (db.immediate_transaction).  A process may die between any two     *)
(* statements and be started again under the same run id; the rows it      *)
(* committed and its trace file survive, its locals do not.                *)
(*                                                                         *)
(* Executor has the transaction as the one step Commit.  CommitIsAtomic    *)
(* says that this is all anybody else can see of it.                       *)
(***************************************************************************)
EXTENDS Executor

VARIABLES
    lock,   \* the run whose connection holds the write lock, NULL when free
    tx      \* run -> its open transaction: the next statement and its view

transactionVars == <<vars, lock, tx>>

NoTransaction == [at |-> 0, db |-> NULL]

(* What a transaction sees and changes.                                    *)
Tables ==
    [orders |-> orders, payments |-> payments, shipments |-> shipments,
     permits |-> permits, records |-> records, refunds |-> refunds,
     tickets |-> tickets, mutation_log |-> mutation_log]

Publish(db) ==
    /\ orders' = db.orders
    /\ payments' = db.payments
    /\ shipments' = db.shipments
    /\ permits' = db.permits
    /\ records' = db.records
    /\ refunds' = db.refunds
    /\ tickets' = db.tickets
    /\ mutation_log' = db.mutation_log

-----------------------------------------------------------------------------
(* The statements of _commit: those of the write tool, the execution       *)
(* record, the used flag.                                                  *)

Statements(action) ==
    CASE action = "cancel_order" ->
            <<"update order", "update shipment", "insert log", "insert record", "set used">>
      [] action = "issue_refund" ->
            <<"update payment", "insert refund", "insert log", "insert record", "set used">>
      [] action = "create_support_ticket" ->
            <<"insert ticket", "insert log", "insert record", "set used">>

NextStatement(r) == Statements(call[r].proposal.action)[tx[r].at]

Done(r) == tx[r].at > Len(Statements(call[r].proposal.action))

(* A guarded UPDATE that matches no row raises StaleResource.              *)
Misses(statement, db, c) ==
    \/ /\ statement = "update order"
       /\ db.orders[c.proposal.order].version # c.row.version
    \/ /\ statement = "update payment"
       /\ db.payments[c.proposal.order].version # c.row.version

(* The write tool raises PermitRequired at its first statement (asked here *)
(* at each: the answer does not change), an INSERT whose primary key is    *)
(* taken raises sqlite3.IntegrityError.                                    *)
Raises(statement, db, c) ==
    \/ ~Covers(c.row, c.proposal)
    \/ statement = "insert refund" /\ c.permit \in DOMAIN db.refunds
    \/ statement = "insert ticket" /\ c.permit \in DOMAIN db.tickets
    \/ statement = "insert record" /\ c.row.key \in DOMAIN db.records

(* The table that an UPDATE leaves.                                        *)
CancelIn(table, o) == [table EXCEPT ![o].status = "CANCELLED", ![o].version = @ + 1]

RefundIn(table, o, amount) ==
    [table EXCEPT ![o].status = "REFUNDED", ![o].refunded = @ + amount, ![o].version = @ + 1]

SpendIn(table, p) == [table EXCEPT ![p].used = TRUE]

Effect(r, statement, db, c) ==
    LET o == c.proposal.order
        amount == AmountMoved(c.proposal)
    IN  CASE statement = "update order" ->
                [db EXCEPT !.orders = CancelIn(@, o)]
          [] statement = "update shipment" ->
                IF o \in DOMAIN db.shipments
                    /\ db.shipments[o].status \in CancellableShipmentStatuses
                  THEN [db EXCEPT !.shipments = CancelIn(@, o)]
                  ELSE db
          [] statement = "update payment" ->
                [db EXCEPT !.payments = RefundIn(@, o, amount)]
          [] statement = "insert refund" ->
                [db EXCEPT !.refunds = InsertRow(@, c.permit, [order |-> o, amount |-> amount])]
          [] statement = "insert ticket" ->
                [db EXCEPT !.tickets = InsertRow(@, c.permit, [order |-> o])]
          [] statement = "insert log" ->
                [db EXCEPT !.mutation_log = Append(@,
                    [run |-> r, action |-> c.proposal.action, resource |-> c.row.resource,
                     amount |-> amount, by |-> c.permit])]
          [] statement = "insert record" ->
                [db EXCEPT !.records = InsertRow(@, c.row.key, ResultOf(c.permit, c.row, c.proposal))]
          [] statement = "set used" ->
                [db EXCEPT !.permits = SpendIn(@, c.permit)]

-----------------------------------------------------------------------------
(* BEGIN IMMEDIATE.  Whoever else holds the lock, the statement waits, and *)
(* after sqlite3.connect's five seconds raises OperationalError; nothing   *)
(* is open then and the exception leaves execute().                        *)

(* A mutated form: a deferred BEGIN takes no lock.                         *)
Begin_Deferred(r) ==
    /\ phase[r] = "commit"
    /\ tx[r] = NoTransaction
    /\ tx' = [tx EXCEPT ![r] = [at |-> 1, db |-> Tables]]
    /\ UNCHANGED <<vars, lock>>

Begin(r) ==
    /\ phase[r] = "commit"
    /\ tx[r] = NoTransaction
    /\ lock = NULL
    /\ lock' = r
    /\ tx' = [tx EXCEPT ![r] = [at |-> 1, db |-> Tables]]
    /\ UNCHANGED vars

Busy(r) ==
    /\ phase[r] = "commit"
    /\ tx[r] = NoTransaction
    /\ lock # NULL
    /\ Finish(r, "raised", NULL, NULL)
    /\ UNCHANGED <<storeVars, sequence, emitted, calls, lock, tx>>

Statement(r) ==
    /\ tx[r] # NoTransaction
    /\ ~Done(r)
    /\ ~Misses(NextStatement(r), tx[r].db, call[r])
    /\ ~Raises(NextStatement(r), tx[r].db, call[r])
    /\ tx' = [tx EXCEPT ![r] = [at |-> @.at + 1, db |-> Effect(r, NextStatement(r), @.db, call[r])]]
    /\ UNCHANGED <<vars, lock>>

(* The transaction ends and the lock is free.                              *)
Close(r) ==
    /\ tx' = [tx EXCEPT ![r] = NoTransaction]
    /\ lock' = NULL

(* A mutated form: the lock is not given back.                             *)
Rollback_KeepsLock(r) ==
    /\ tx' = [tx EXCEPT ![r] = NoTransaction]
    /\ UNCHANGED <<resourceVars, ledgerVars, lock>>

Rollback(r) == UNCHANGED <<resourceVars, ledgerVars>> /\ Close(r)

RollbackStale(r) ==
    /\ tx[r] # NoTransaction
    /\ ~Done(r)
    /\ Covers(call[r].row, call[r].proposal)
    /\ Misses(NextStatement(r), tx[r].db, call[r])
    /\ Rollback(r)
    /\ Reject(r, "stale_resource_version")
    /\ UNCHANGED <<now, sequence, emitted, calls>>

(* A mutated form: an error of the database is answered by trying again.   *)
RollbackConflict_Retries(r) ==
    /\ tx[r] # NoTransaction
    /\ ~Done(r)
    /\ Raises(NextStatement(r), tx[r].db, call[r])
    /\ Rollback(r)
    /\ UNCHANGED <<now, executorVars>>

RollbackConflict(r) ==
    /\ tx[r] # NoTransaction
    /\ ~Done(r)
    /\ Raises(NextStatement(r), tx[r].db, call[r])
    /\ Rollback(r)
    /\ Finish(r, "raised", NULL, NULL)
    /\ UNCHANGED <<now, sequence, emitted, calls>>

CommitTransaction(r) ==
    /\ tx[r] # NoTransaction
    /\ Done(r)
    /\ Publish(tx[r].db)
    /\ Close(r)
    /\ GoTo(r, "respond")
    /\ UNCHANGED <<now, call, answer, sequence, emitted, calls>>

-----------------------------------------------------------------------------
(* The process of a run dies inside execute() and is started again.  Its   *)
(* connection is gone, so SQLite drops an open transaction and its lock;   *)
(* the new issuer counts from zero.  A permit id it then issues again is   *)
(* already there, and the INSERT is refused.                               *)

(* A mutated form: statements were not in a transaction.                   *)
DropTransaction_KeepsWrites(r) ==
    /\ IF tx[r] = NoTransaction THEN UNCHANGED <<resourceVars, ledgerVars>> ELSE Publish(tx[r].db)
    /\ tx' = [tx EXCEPT ![r] = NoTransaction]
    /\ lock' = IF lock = r THEN NULL ELSE lock

DropTransaction(r) ==
    /\ UNCHANGED <<resourceVars, ledgerVars>>
    /\ tx' = [tx EXCEPT ![r] = NoTransaction]
    /\ lock' = IF lock = r THEN NULL ELSE lock

(* What only the memory of the process held.                               *)
Forget(r) ==
    /\ phase' = [phase EXCEPT ![r] = "idle"]
    /\ call' = [call EXCEPT ![r] = NoCall]
    /\ answer' = [answer EXCEPT ![r] = NULL]
    /\ sequence' = [sequence EXCEPT ![r] = 0]

Restart(r) ==
    /\ phase[r] # "idle"
    /\ DropTransaction(r)
    /\ Forget(r)
    /\ UNCHANGED <<now, emitted, calls>>

-----------------------------------------------------------------------------
(* Any other write to the database waits for the lock as well: the INSERT  *)
(* of a permit, and an edit by somebody else's connection.                 *)

TransactionInit ==
    /\ Init
    /\ lock = NULL
    /\ tx = [r \in Runs |-> NoTransaction]

TransactionStep(r) ==
    \/ Begin(r)
    \/ Busy(r)
    \/ Statement(r)
    \/ RollbackStale(r)
    \/ RollbackConflict(r)
    \/ CommitTransaction(r)
    \/ (Resolve(r) \/ Lookup(r) \/ Respond(r)) /\ UNCHANGED <<lock, tx>>

TransactionNext ==
    \/ \E r \in Runs :
         \/ TransactionStep(r)
         \/ Restart(r)
         \/ Present(r) /\ UNCHANGED <<lock, tx>>
         \/ Issue(r) /\ lock = NULL /\ UNCHANGED <<lock, tx>>
    \/ /\ Tick \/ (WorldStep /\ lock = NULL)
       /\ UNCHANGED <<executorVars, lock, tx>>

TransactionSpec == TransactionInit /\ [][TransactionNext]_transactionVars

(* A living process goes on with its call; nothing makes it die.           *)
FairTransactionSpec ==
    TransactionSpec /\ \A r \in Runs : WF_transactionVars(TransactionStep(r))

-----------------------------------------------------------------------------
(* Properties.                                                             *)

(* Only the holder of the lock has a transaction open.                     *)
TransactionTypeOK ==
    /\ TypeOK
    /\ lock \in Runs \cup {NULL}
    /\ \A r \in Runs :
        /\ tx[r] # NoTransaction => phase[r] = "commit"
        /\ tx[r] # NoTransaction <=> lock = r

(* A call that ends with nothing written: it raised, or its process died   *)
(* and the run was started again.                                          *)
Interrupted(r) ==
    /\ phase[r] # "idle"
    /\ \/ /\ Finish(r, "raised", NULL, NULL)
          /\ UNCHANGED sequence
       \/ Forget(r)
    /\ UNCHANGED <<storeVars, emitted, calls>>

(* db.py: "A single write transaction. Nothing inside it is visible until  *)
(* commit."  To everybody else the five statements are the one step Commit *)
(* of Executor, checked and written at one instant; a call that is cut off *)
(* anywhere, by a lock timeout, an exception or the end of its process,    *)
(* has written nothing.                                                    *)
CommitIsAtomic == Init /\ [][Next \/ \E r \in Runs : Interrupted(r)]_vars

(* Across deaths and restarts the trace never claims a mutation that the   *)
(* ledger lacks: a death after COMMIT leaves it short, never ahead         *)
(* (executor.py:88-90 emits after _commit has returned).                   *)
TraceIsNeverAhead ==
    \A r \in Runs : emitted[r] <= Cardinality(MutationLogRows(r))

(* Two calls never wait for each other: the lock is always given back.     *)
LockIsReleased == lock # NULL ~> lock = NULL

(* A call of execute() returns, raises or dies with its process, whatever  *)
(* the world and the other runs do in between: a lock that somebody else   *)
(* holds, a guard that no longer matches and a row that another run has    *)
(* inserted first all end it (executor.py:221-275).                        *)
CallsEnd == \A r \in Runs : phase[r] # "idle" ~> phase[r] = "idle"
=============================================================================
