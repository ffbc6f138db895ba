------------------------------ MODULE Executor ------------------------------
(***************************************************************************)
(* The permit boundary: src/app/executor/permits.py issues permits,        *)
(* src/app/executor/executor.py is the only component that may spend one.  *)
(*                                                                         *)
(* A run holds one connection and makes one call at a time.  execute()     *)
(* reads the permit, then the target row and the clock, then the execution *)
(* record, each in a statement of its own outside any transaction; another *)
(* connection, or the world, may act between any two of them.  Only the    *)
(* last step is one atomic transaction.                                    *)
(***************************************************************************)
EXTENDS Store, FiniteSets

CONSTANTS
    Actions,            \* bound: the write actions the instance uses
    Amounts,            \* amounts a proposal or a permit may carry
    Lossy,              \* actions whose response may be lost after the commit
    PermitTTL,          \* PERMIT_TTL_SECONDS
    MaxPermits,         \* bound: permits one run issues
    MaxCalls            \* bound: execute() calls one run makes

ASSUME ExecutorAssumption ==
    /\ Actions \subseteq ActionName
    /\ Amounts \subseteq Nat
    /\ Lossy \subseteq ActionName
    /\ PermitTTL \in Nat
    /\ MaxPermits \in Nat
    /\ MaxCalls \in Nat

VARIABLES
    sequence,   \* run -> PermitIssuer._sequence
    phase,      \* run -> where its execute() call stands
    call,       \* run -> the arguments and the locals of that call
    answer,     \* run -> how the last call ended, NULL before it has
    emitted,    \* run -> how many mutation_committed events it has written
    calls       \* run -> how many calls it has made (bounds the model)

executorVars == <<sequence, phase, call, answer, emitted, calls>>
vars == <<storeVars, executorVars>>

Phases == {"idle", "resolve", "lookup", "commit", "respond"}

(* Executor._Target.                                                       *)
Target == [resource : Resources, version : Nat,
           status : OrderStatus \cup PaymentStatus]

ASSUME RowAssumption ==
    /\ NULL \notin PermitRow
    /\ NULL \notin Target

-----------------------------------------------------------------------------
(* How a call ends.  spent keeps what the call's local permit.used held.   *)

AnswerKinds == {"committed", "replayed", "rejected", "lost", "raised"}

RejectionReasons ==
    { "permit_missing", "permit_action_mismatch", "permit_resource_mismatch",
      "permit_expired", "permit_already_used", "permit_amount_exceeded",
      "stale_resource_version", "transition_not_allowed" }

ASSUME ReasonAssumption == NULL \notin RejectionReasons

NoCall == [permit |-> NULL, proposal |-> NULL, row |-> NULL, target |-> NULL]

Answer(kind, reason, result, p, spent) ==
    [kind |-> kind, reason |-> reason, result |-> result, permit |-> p, spent |-> spent]

Finish(r, kind, reason, result) ==
    /\ answer' = [answer EXCEPT ![r] =
            Answer(kind, reason, result, call[r].permit, call[r].row.used)]
    /\ phase' = [phase EXCEPT ![r] = "idle"]
    /\ call' = [call EXCEPT ![r] = NoCall]

Reject(r, reason) == Finish(r, "rejected", reason, NULL)

GoTo(r, next) == phase' = [phase EXCEPT ![r] = next]

-----------------------------------------------------------------------------
(* PermitIssuer.issue_permit: its own transaction.  Whoever calls it read  *)
(* the row's version at some earlier time.  Its parameters idempotency_key *)
(* and ttl_seconds have their defaults: no caller in app/ passes them.     *)

NewPermit(action, o, version, max, seq, r) ==
    [action  |-> action, resource |-> ResourceOf(action, o),
     version |-> version, max |-> max, expires |-> now + PermitTTL,
     key     |-> IdempotencyKeyFor(<<r, seq>>, action, ResourceOf(action, o)),
     used    |-> FALSE]

IssuePermit(r, action, o, version, max) ==
    LET seq == sequence[r] + 1
    IN  /\ sequence' = [sequence EXCEPT ![r] = seq]
        /\ permits' = InsertRow(permits, <<r, seq>>,
                                NewPermit(action, o, version, max, seq, r))
        /\ UNCHANGED <<now, resourceVars, records, refunds, tickets, mutation_log>>

VersionOf(action, o) ==
    IF action = "issue_refund"
      THEN IF o \in DOMAIN payments THEN payments[o].version ELSE 0
      ELSE IF o \in DOMAIN orders THEN orders[o].version ELSE 0

Issue(r) ==
    /\ phase[r] = "idle"
    /\ sequence[r] < MaxPermits
    /\ \E action \in Actions, o \in Orders, max \in Amounts :
         \E version \in 1..VersionOf(action, o) :
            IssuePermit(r, action, o, version, max)
    /\ UNCHANGED <<phase, call, answer, emitted, calls>>

-----------------------------------------------------------------------------
(* execute(permit_id, proposal): load_permit, then checks 1 and 2.  The    *)
(* permit id is looked up as given: no column ties a permit to its bearer. *)

Load(r, p, proposal) ==
    LET row == IF p \in DOMAIN permits THEN permits[p] ELSE NULL
    IN  /\ phase[r] = "idle"
        /\ IF row # NULL /\ row.action = proposal.action
             THEN /\ GoTo(r, "resolve")
                  /\ call' = [call EXCEPT ![r] =
                        [permit |-> p, proposal |-> proposal,
                         row |-> row, target |-> NULL]]
                  /\ answer' = [answer EXCEPT ![r] = NULL]
             ELSE /\ answer' = [answer EXCEPT ![r] =
                        IF row = NULL
                          THEN Answer("rejected", "permit_missing", NULL, p, FALSE)
                          ELSE Answer("rejected", "permit_action_mismatch", NULL,
                                      p, row.used)]
                  /\ UNCHANGED <<phase, call>>
        /\ UNCHANGED <<storeVars, sequence, emitted>>

Present(r) ==
    /\ calls[r] < MaxCalls
    /\ calls' = [calls EXCEPT ![r] = @ + 1]
    /\ \E p \in DOMAIN permits \cup {NULL}, proposal \in Proposals(Actions, Amounts) :
            Load(r, p, proposal)

(* _resolve_target, then checks 3 and 4.                                   *)
ResolveTarget(proposal) ==
    LET o == proposal.order
    IN  IF proposal.action = "issue_refund"
          THEN IF o \in DOMAIN payments
                 THEN [resource |-> Payment(o), version |-> payments[o].version,
                       status |-> payments[o].status]
                 ELSE NULL
          ELSE IF o \in DOMAIN orders
                 THEN [resource |-> Order(o), version |-> orders[o].version,
                       status |-> orders[o].status]
                 ELSE NULL

Resolve(r) ==
    LET target == ResolveTarget(call[r].proposal)
    IN  /\ phase[r] = "resolve"
        /\ IF target = NULL \/ target.resource # call[r].row.resource
             THEN Reject(r, "permit_resource_mismatch")
           ELSE IF now > call[r].row.expires
             THEN Reject(r, "permit_expired")
           ELSE /\ GoTo(r, "lookup")
                /\ call' = [call EXCEPT ![r].target = target]
                /\ UNCHANGED answer
        /\ UNCHANGED <<storeVars, sequence, emitted, calls>>

-----------------------------------------------------------------------------
(* _stored_result, then checks 5 to 9.  A used permit or a moved version   *)
(* is also what a successful execution leaves behind, so the stored result *)
(* is preferred to either rejection.                                       *)

TransitionAllowed(action, target) ==
    CASE action = "cancel_order" ->
            OrderTransitionAllowed(target.status, "CANCELLED")
      [] action = "issue_refund" ->
            PaymentTransitionAllowed(target.status, "REFUNDED")
      [] action = "create_support_ticket" -> TRUE

(* amount_cents or 0                                                       *)
AmountOf(proposal) == IF proposal.amount = NULL THEN 0 ELSE proposal.amount

(* The first check that fails, NULL when none does.                        *)
FirstFailedCheck(permit, proposal, target) ==
    IF permit.used THEN "permit_already_used"
    ELSE IF AmountOf(proposal) > permit.max THEN "permit_amount_exceeded"
    ELSE IF target.version # permit.version THEN "stale_resource_version"
    ELSE IF ~TransitionAllowed(proposal.action, target) THEN "transition_not_allowed"
    ELSE NULL

(* Mutated forms: a used permit is rejected before its record is asked     *)
(* for; a replay is announced as a fresh commit.                           *)
Lookup_UsedFirst(r) ==
    LET permit == call[r].row
        failed == FirstFailedCheck(permit, call[r].proposal, call[r].target)
    IN  /\ phase[r] = "lookup"
        /\ IF failed # NULL
             THEN Reject(r, failed)
           ELSE IF permit.key \in DOMAIN records
             THEN Finish(r, "replayed", "idempotent_replay", records[permit.key])
           ELSE GoTo(r, "commit") /\ UNCHANGED <<call, answer>>
        /\ UNCHANGED <<storeVars, sequence, emitted, calls>>

Lookup_AnnouncesReplay(r) ==
    LET permit == call[r].row
        stored == permit.key \in DOMAIN records
        failed == FirstFailedCheck(permit, call[r].proposal, call[r].target)
    IN  /\ phase[r] = "lookup"
        /\ IF stored /\ failed # "permit_amount_exceeded"
             THEN /\ Finish(r, "replayed", "idempotent_replay", records[permit.key])
                  /\ emitted' = [emitted EXCEPT ![r] = @ + 1]
           ELSE /\ UNCHANGED emitted
                /\ IF failed # NULL
                     THEN Reject(r, failed)
                     ELSE GoTo(r, "commit") /\ UNCHANGED <<call, answer>>
        /\ UNCHANGED <<storeVars, sequence, calls>>

Lookup(r) ==
    LET permit   == call[r].row
        proposal == call[r].proposal
        stored   == permit.key \in DOMAIN records
        failed   == FirstFailedCheck(permit, proposal, call[r].target)
    IN  /\ phase[r] = "lookup"
        /\ IF stored /\ failed # "permit_amount_exceeded"
             THEN Finish(r, "replayed", "idempotent_replay", records[permit.key])
           ELSE IF failed # NULL
             THEN Reject(r, failed)
           ELSE GoTo(r, "commit") /\ UNCHANGED <<call, answer>>
        /\ UNCHANGED <<storeVars, sequence, emitted, calls>>

-----------------------------------------------------------------------------
(* _commit: one BEGIN IMMEDIATE transaction of the write tool, the         *)
(* execution record and the used flag.                                     *)

CreatedId(action, p) == IF action = "cancel_order" THEN NULL ELSE p

(* create_support_ticket and cancel_order report an amount of 0.           *)
AmountMoved(proposal) ==
    IF proposal.action = "issue_refund" THEN AmountOf(proposal) ELSE 0

ResultOf(p, permit, proposal) ==
    [action  |-> proposal.action, resource |-> permit.resource,
     amount  |-> AmountMoved(proposal), created |-> CreatedId(proposal.action, p)]

(* _require and the ceiling of issue_refund: the WriteAuthorization, which *)
(* is the permit's, covers the call.  A refund is handed the permit's own  *)
(* payment id, so that its resource is not compared with anything else.    *)
Covers(permit, proposal) ==
    /\ permit.action = proposal.action
    /\ IF proposal.action = "issue_refund"
         THEN AmountOf(proposal) <= permit.max
         ELSE permit.resource = Order(proposal.order)

WriteTool(r, p, permit, proposal) ==
    /\ Covers(permit, proposal)
    /\ \/ /\ proposal.action = "cancel_order"
          /\ CancelOrder(r, p, proposal.order, permit.version)
       \/ /\ proposal.action = "issue_refund"
          /\ IssueRefund(r, p, proposal.order, AmountOf(proposal), permit.version)
       \/ /\ proposal.action = "create_support_ticket"
          /\ CreateSupportTicket(r, p, proposal.order)

(* A mutated form: the used flag is not part of the transaction.           *)
Commit_LeavesUnused(r) ==
    LET p        == call[r].permit
        permit   == call[r].row
        proposal == call[r].proposal
    IN  /\ phase[r] = "commit"
        /\ permit.key \notin DOMAIN records
        /\ WriteTool(r, p, permit, proposal)
        /\ records' = InsertRow(records, permit.key, ResultOf(p, permit, proposal))
        /\ GoTo(r, "respond")
        /\ UNCHANGED <<permits, now, call, answer, sequence, emitted, calls>>

Commit(r) ==
    LET p        == call[r].permit
        permit   == call[r].row
        proposal == call[r].proposal
    IN  /\ phase[r] = "commit"
        /\ permit.key \notin DOMAIN records
        /\ WriteTool(r, p, permit, proposal)
        /\ records' = InsertRow(records, permit.key, ResultOf(p, permit, proposal))
        /\ permits' = [permits EXCEPT ![p].used = TRUE]
        /\ GoTo(r, "respond")
        /\ UNCHANGED <<now, call, answer, sequence, emitted, calls>>

(* The version-guarded UPDATE matched no row: StaleResource, rolled back.  *)
GuardMatches(permit, proposal) ==
    CASE proposal.action = "cancel_order" ->
            OrderAtVersion(proposal.order, permit.version)
      [] proposal.action = "issue_refund" ->
            PaymentAtVersion(proposal.order, permit.version)
      [] proposal.action = "create_support_ticket" -> TRUE

CommitStale(r) ==
    /\ phase[r] = "commit"
    /\ Covers(call[r].row, call[r].proposal)
    /\ ~GuardMatches(call[r].row, call[r].proposal)
    /\ Reject(r, "stale_resource_version")
    /\ UNCHANGED <<storeVars, sequence, emitted, calls>>

PrimaryKeyTaken(p, permit, proposal) ==
    \/ permit.key \in DOMAIN records
    \/ proposal.action = "issue_refund" /\ p \in DOMAIN refunds
    \/ proposal.action = "create_support_ticket" /\ p \in DOMAIN tickets

(* PermitRequired before any statement, or sqlite3.IntegrityError from an  *)
(* INSERT whose primary key is taken: rolled back and not caught, so the   *)
(* exception leaves execute().                                             *)
CommitRaises(p, permit, proposal) ==
    \/ ~Covers(permit, proposal)
    \/ GuardMatches(permit, proposal) /\ PrimaryKeyTaken(p, permit, proposal)

CommitConflict(r) ==
    /\ phase[r] = "commit"
    /\ CommitRaises(call[r].permit, call[r].row, call[r].proposal)
    /\ Finish(r, "raised", NULL, NULL)
    /\ UNCHANGED <<storeVars, sequence, emitted, calls>>

(* Back in execute(): the audit event, then the answer, unless the         *)
(* response is lost on the way (ResponseTimeout).                          *)
Respond(r) ==
    /\ phase[r] = "respond"
    /\ emitted' = [emitted EXCEPT ![r] = @ + 1]
    /\ \E kind \in {"committed", "lost"} :
         /\ kind = "lost" => call[r].proposal.action \in Lossy
         /\ Finish(r, kind, NULL,
                   ResultOf(call[r].permit, call[r].row, call[r].proposal))
    /\ UNCHANGED <<storeVars, sequence, calls>>

-----------------------------------------------------------------------------

ExecutorInit ==
    /\ sequence = [r \in Runs |-> 0]
    /\ phase = [r \in Runs |-> "idle"]
    /\ call = [r \in Runs |-> NoCall]
    /\ answer = [r \in Runs |-> NULL]
    /\ emitted = [r \in Runs |-> 0]
    /\ calls = [r \in Runs |-> 0]

Init == StoreInit /\ ExecutorInit

CallStep(r) ==
    \/ Resolve(r)
    \/ Lookup(r)
    \/ Commit(r)
    \/ CommitStale(r)
    \/ CommitConflict(r)
    \/ Respond(r)

Next ==
    \/ \E r \in Runs : Issue(r) \/ Present(r) \/ CallStep(r)
    \/ WorldStep /\ UNCHANGED executorVars

Spec == Init /\ [][Next]_vars

-----------------------------------------------------------------------------
(* Properties.                                                             *)

CallRecord ==
    [permit : PermitIds, proposal : Proposals(ActionName, Nat),
     row : PermitRow, target : Target \cup {NULL}]

AnswerRecord ==
    [kind : AnswerKinds, reason : RejectionReasons \cup {"idempotent_replay", NULL},
     result : StoredResult \cup {NULL}, permit : PermitIds \cup {NULL}, spent : BOOLEAN]

(* Every variable keeps its type: rows hold statuses of the closed enums,  *)
(* and a run is between two steps of execute() only with a call in hand.   *)
TypeOK ==
    /\ StoreTypeOK
    /\ sequence \in [Runs -> Nat]
    /\ phase \in [Runs -> Phases]
    /\ call \in [Runs -> CallRecord \cup {NoCall}]
    /\ \A r \in Runs : phase[r] = "idle" <=> call[r] = NoCall
    /\ answer \in [Runs -> AnswerRecord \cup {NULL}]
    /\ emitted \in [Runs -> Nat]
    /\ calls \in [Runs -> Nat]

(* The permit table, the execution records, the two tables of created rows *)
(* and the ledger tell one story: a permit is used exactly when one row of *)
(* the ledger was written under it, exactly when its idempotency key has a *)
(* record, and record, created row and ledger row agree with each other.   *)
(* Every commit writes all of them, so a crash or a rejection between two  *)
(* of them would break it (db.py:6-9, executor.py _commit).                *)
LedgerAgrees ==
    /\ \A i, j \in DOMAIN mutation_log :
            mutation_log[i].by = mutation_log[j].by => i = j
    /\ \A i \in DOMAIN mutation_log :
         LET row == mutation_log[i]
         IN  /\ row.by \in DOMAIN permits
             /\ permits[row.by].used
             /\ permits[row.by].key \in DOMAIN records
             /\ records[permits[row.by].key] =
                    [action |-> row.action, resource |-> row.resource,
                     amount |-> row.amount, created |-> CreatedId(row.action, row.by)]
             /\ row.action = "issue_refund" =>
                    /\ row.by \in DOMAIN refunds
                    /\ row.resource = Payment(refunds[row.by].order)
                    /\ row.amount = refunds[row.by].amount
             /\ row.action = "create_support_ticket" =>
                    /\ row.by \in DOMAIN tickets
                    /\ row.resource = Order(tickets[row.by].order)
    /\ \A p \in DOMAIN permits :
            (permits[p].used \/ permits[p].key \in DOMAIN records
                \/ p \in DOMAIN refunds \/ p \in DOMAIN tickets)
            => \E i \in DOMAIN mutation_log : mutation_log[i].by = p

(* No row of the ledger goes beyond its permit: same action, same row, no  *)
(* more than the ceiling, although the checks and the write are separate   *)
(* statements and other calls run in between (executor.py checks 2, 3, 6). *)
EveryRowIsAuthorised ==
    \A i \in DOMAIN mutation_log :
        LET row == mutation_log[i]  permit == permits[row.by]
        IN  /\ row.action = permit.action
            /\ row.resource = permit.resource
            /\ row.amount <= permit.max

RefundRowsOf(o) ==
    { i \in DOMAIN mutation_log : mutation_log[i].action = "issue_refund"
                                 /\ mutation_log[i].resource = Payment(o) }

(* A payment is refunded at most once however many permits were issued for *)
(* it and however the calls interleave, and refunded_cents is exactly what *)
(* the ledger says was paid (write_tools.issue_refund).                    *)
RefundedOnce ==
    \A o \in DOMAIN payments :
        /\ \A i, j \in RefundRowsOf(o) : i = j
        /\ \A i \in RefundRowsOf(o) : /\ payments[o].refunded = mutation_log[i].amount
                                      /\ payments[o].status = "REFUNDED"
        /\ RefundRowsOf(o) = {} => payments[o].refunded = 0

(* The agent changes a status only along the transition tables, although   *)
(* the table is consulted on a row read before the transaction: the        *)
(* version guard is what makes the earlier answer still true (DESIGN.md    *)
(* section 1: "A transition not in these tables is rejected").             *)
AgentMovesAreLegal ==
    [][ mutation_log' # mutation_log =>
          /\ \A o \in DOMAIN orders :
                \/ orders'[o].status = orders[o].status
                \/ OrderTransitionAllowed(orders[o].status, orders'[o].status)
          /\ \A o \in DOMAIN payments :
                \/ payments'[o].status = payments[o].status
                \/ PaymentTransitionAllowed(payments[o].status, payments'[o].status) ]_vars

Outdated(p) ==
    \/ /\ permits[p].action = "cancel_order"
       /\ \E o \in DOMAIN orders : /\ permits[p].resource = Order(o)
                                   /\ orders[o].version > permits[p].version
    \/ /\ permits[p].action = "issue_refund"
       /\ \E o \in DOMAIN payments : /\ permits[p].resource = Payment(o)
                                     /\ payments[o].version > permits[p].version

(* A permit whose row has moved on without it is dead: whatever is checked *)
(* before or presented later, an unused outdated permit never becomes used *)
(* (README: "the policy pins the version").                                *)
OutdatedIsFinal ==
    [][ \A p \in DOMAIN permits :
            Outdated(p) /\ ~permits[p].used => ~permits'[p].used ]_vars

(* DESIGN.md section 3a: a permit presented after its commit is answered   *)
(* with the stored result; permit_already_used is reserved for a used      *)
(* permit with no record, a state no execution produces.  The exceptions   *)
(* are a proposal that does not match the permit and an expired permit.    *)
SpentPermitIsReplayed ==
    \A r \in Runs : answer[r] # NULL /\ answer[r].spent =>
        \/ answer[r].kind = "replayed"
        \/ answer[r].reason \in {"permit_action_mismatch",
                                 "permit_resource_mismatch", "permit_expired"}

(* Whatever a caller is told was done is in the ledger, done under the     *)
(* permit it presented: a first answer and every replay of it are the same *)
(* result (executor.py _stored_result).                                    *)
AnswersAreTrue ==
    \A r \in Runs : answer[r] # NULL /\ answer[r].result # NULL =>
        \E i \in DOMAIN mutation_log :
            /\ mutation_log[i].by = answer[r].permit
            /\ mutation_log[i].action = answer[r].result.action
            /\ mutation_log[i].resource = answer[r].result.resource
            /\ mutation_log[i].amount = answer[r].result.amount

(* audit.py:7-8: the mutation_committed events of a run count its rows of  *)
(* mutation_log.  The event follows the COMMIT, so a run that is between   *)
(* the two has one row more, and a replay must not add an event.           *)
AuditCountsLedger ==
    \A r \in Runs :
        Cardinality(MutationLogRows(r)) =
            emitted[r] + (IF phase[r] = "respond" THEN 1 ELSE 0)

(* What DESIGN.md section 3a and the README say without exception: a       *)
(* permit that was spent is never answered with a bare rejection by the    *)
(* same request.  Expiry is checked before the stored result is looked up. *)
NoBareRejectionAfterCommit ==
    \A r \in Runs : answer[r] # NULL /\ answer[r].spent =>
        answer[r].reason # "permit_expired"

(* Executor implements the promise of PermitBoundary.                      *)
Boundary == INSTANCE PermitBoundary WITH
    PermitNames <- Runs \X (1..MaxPermits),
    Ceilings <- Amounts,
    grants <- [p \in DOMAIN permits |->
                 [action |-> permits[p].action, resource |-> permits[p].resource,
                  max |-> permits[p].max]],
    ledger <- [i \in DOMAIN mutation_log |->
                 [by |-> mutation_log[i].by, action |-> mutation_log[i].action,
                  resource |-> mutation_log[i].resource,
                  amount |-> mutation_log[i].amount]],
    refunded <- [o \in DOMAIN payments |-> payments[o].refunded]

(* Every execution is one of the abstract boundary's: at-most-once use of  *)
(* a grant, within its ceiling, one refund per payment.                    *)
KeepsPromise == Boundary!BoundarySpec
=============================================================================
