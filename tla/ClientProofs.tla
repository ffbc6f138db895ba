---------------------------- MODULE ClientProofs ----------------------------
(***************************************************************************)
(* What the executor keeps whoever calls it: a client may have a permit    *)
(* issued for any action, order, version and ceiling, and may present any  *)
(* permit with any proposal.  The runner is one such client, the bounded   *)
(* callers of Executor another.                                            *)
(*                                                                         *)
(* Then what holds of the rows themselves: they are never deleted, their   *)
(* versions never go back, and unless an edit leaves the version alone a   *)
(* row that still has the version somebody read still is what he read.     *)
(***************************************************************************)
EXTENDS ExecutorProofs, SequenceTheorems

ClientIssue(r) ==
    /\ \E action \in ActionName, o \in Orders, version \in Nat, max \in Nat :
            IssuePermit(r, action, o, version, max)
    /\ UNCHANGED <<phase, call, answer, emitted, calls>>

ClientPresent(r) ==
    /\ \E p \in PermitIds \cup {NULL}, proposal \in Proposals(ActionName, Nat) :
            Load(r, p, proposal)
    /\ calls' \in [Runs -> Nat]

ClientNext ==
    \/ \E r \in Runs : ClientIssue(r) \/ ClientPresent(r) \/ CallStep(r)
    \/ WorldStep /\ UNCHANGED executorVars

(* Everything the theorems about the ledger rest on.                       *)
Kept == TypeOK /\ LedgerInv /\ RefundInv /\ AnswersOK /\ AuditCountsLedger

-----------------------------------------------------------------------------
(* The callers of Executor are clients.                                    *)
LEMMA PresentIsClient ==
    ASSUME TypeOK, NEW r \in Runs, Present(r)
    PROVE  ClientPresent(r)
<1>1. PICK p \in DOMAIN permits \cup {NULL}, proposal \in Proposals(Actions, Amounts) :
            Load(r, p, proposal)
    BY DEF Present
<1>2. p \in PermitIds \cup {NULL}
    BY DEF TypeOK, StoreTypeOK, IsTable
<1>3. proposal \in Proposals(ActionName, Nat)
    BY ExecutorAssumption, Zenon DEF Proposals
<1>4. calls' \in [Runs -> Nat]
    BY DEF Present, TypeOK
<1> QED
    BY <1>1, <1>2, <1>3, <1>4 DEF ClientPresent

LEMMA NextIsClient == TypeOK /\ [Next]_vars => [ClientNext]_vars
<1> SUFFICES ASSUME TypeOK, [Next]_vars PROVE [ClientNext]_vars
    OBVIOUS
<1>1. ASSUME NEW r \in Runs, Issue(r) PROVE ClientIssue(r)
  <2>1. PICK action \in Actions, o \in Orders, max \in Amounts :
            \E version \in 1..VersionOf(action, o) :
                IssuePermit(r, action, o, version, max)
    BY <1>1 DEF Issue
  <2>2. action \in ActionName /\ max \in Nat
    BY ExecutorAssumption
  <2>3. PICK version \in Nat : IssuePermit(r, action, o, version, max)
    BY <2>1, VersionTypes
  <2> QED
    BY <1>1, <2>2, <2>3 DEF Issue, ClientIssue
<1> QED
    BY <1>1, PresentIsClient DEF Next, ClientNext

LEMMA KeptInit == Init => Kept
<1> SUFFICES ASSUME Init PROVE Kept
    OBVIOUS
<1>1. AnswersOK
    BY DEF Init, ExecutorInit, AnswersOK, AnswerIsTrue, AnswerReplays
<1>2. AuditCountsLedger
    BY NothingTold DEF AuditCountsLedger, Told
<1> QED
    BY <1>1, <1>2, InitTypes, LedgerInvInit, RefundInvInit DEF Kept

(* The steps of a call and of the world are those of Executor.             *)
LEMMA KeptByNext == Kept /\ [Next]_vars => Kept'
<1> SUFFICES ASSUME Kept, [Next]_vars PROVE Kept'
    OBVIOUS
<1>1. AuditCountsLedger'
  <2> SUFFICES ASSUME NEW q \in Runs
               PROVE  Cardinality(MutationLogRows(q)') = Told(q)'
    BY DEF AuditCountsLedger, Told
  <2>1. Cardinality(MutationLogRows(q)) = Told(q)
    BY DEF Kept, AuditCountsLedger, Told
  <2> QED
    BY <2>1, ToldStep DEF Kept
<1> QED
    BY <1>1, NextTypes, LedgerInvNext, RefundInvNext, AnswersNext DEF Kept

(* Issuing a permit touches no payment, no row of the ledger and no call.  *)
LEMMA KeptByIssue ==
    ASSUME Kept, NEW r \in Runs, ClientIssue(r)
    PROVE  Kept'
<1>1. PICK action \in ActionName, o \in Orders, version \in Nat, max \in Nat :
            IssuePermit(r, action, o, version, max)
    BY DEF ClientIssue
<1>2. UNCHANGED <<phase, call, answer, emitted, calls>>
    BY DEF ClientIssue
<1>3. UNCHANGED <<payments, mutation_log>>
    BY <1>1 DEF IssuePermit, resourceVars
<1>4. TypeOK' /\ LedgerInv'
    BY <1>1, <1>2, IssueTypes, IssueLedger DEF Kept
<1>5. RefundInv'
    BY <1>2, <1>3, StillPinned, RefundUntouched DEF Kept, RefundInv
<1>6. AnswersOK'
    BY <1>2, <1>3, NoAnswer DEF Kept
<1>7. AuditCountsLedger'
    BY <1>2, <1>3 DEF Kept, AuditCountsLedger, MutationLogRows
<1> QED
    BY <1>4, <1>5, <1>6, <1>7 DEF Kept

(* Presenting a permit writes nothing, and no call is past check 2 by it.  *)
LEMMA KeptByPresent ==
    ASSUME Kept, NEW r \in Runs, ClientPresent(r)
    PROVE  Kept'
<1>1. PICK p \in PermitIds \cup {NULL}, proposal \in Proposals(ActionName, Nat) :
            Load(r, p, proposal)
    BY DEF ClientPresent
<1>2. UNCHANGED storeVars /\ calls' \in [Runs -> Nat]
    BY <1>1 DEF Load, ClientPresent
<1>3. TypeOK'
    BY <1>1, <1>2, LoadTypes DEF Kept, TypeOK, CallTypeOK
<1>4. LedgerInv'
    BY <1>1, <1>2, LoadKnown, LedgerUntouched DEF Kept, LedgerInv, storeVars
<1>5. \A q \in Runs : phase'[q] \in {"lookup", "commit"} =>
                phase'[q] = phase[q] /\ call'[q] = call[q]
    BY <1>1 DEF Load, GoTo, Kept, TypeOK
<1>6. RefundInv'
    BY <1>2, <1>5, StillPinned, RefundUntouched DEF Kept, RefundInv, storeVars
<1>7. AnswersOK'
    BY <1>1, LoadAnswers DEF Kept
<1>8. AuditCountsLedger'
  <2>1. \A q \in Runs : phase'[q] = "respond" <=> phase[q] = "respond"
    BY <1>1 DEF Load, GoTo, Kept, TypeOK
  <2>2. UNCHANGED <<mutation_log, emitted>>
    BY <1>1 DEF Load, storeVars
  <2> QED
    BY <2>1, <2>2 DEF Kept, AuditCountsLedger, MutationLogRows
<1> QED
    BY <1>3, <1>4, <1>6, <1>7, <1>8 DEF Kept

LEMMA KeptNext == Kept /\ [ClientNext]_vars => Kept'
<1> SUFFICES ASSUME Kept, [ClientNext]_vars PROVE Kept'
    OBVIOUS
<1>1. ASSUME NEW r \in Runs, CallStep(r) PROVE Kept'
    BY <1>1, KeptByNext DEF Next
<1>2. ASSUME WorldStep, UNCHANGED executorVars PROVE Kept'
    BY <1>2, KeptByNext DEF Next
<1>3. ASSUME UNCHANGED vars PROVE Kept'
    BY <1>3, KeptByNext
<1> QED
    BY <1>1, <1>2, <1>3, KeptByIssue, KeptByPresent DEF ClientNext

-----------------------------------------------------------------------------
(* Rows and their versions.                                                *)

(* No order and no payment is deleted, and no version goes back.           *)
VersionsGrow ==
    /\ DOMAIN orders' = DOMAIN orders
    /\ DOMAIN payments' = DOMAIN payments
    /\ \A o \in DOMAIN orders : /\ orders[o].version \in Nat
                                /\ orders'[o].version \in Nat
                                /\ orders[o].version <= orders'[o].version
    /\ \A o \in DOMAIN payments : /\ payments[o].version \in Nat
                                  /\ payments'[o].version \in Nat
                                  /\ payments[o].version <= payments'[o].version

(* A row that keeps its version stays as it is.                            *)
VersionsTell ==
    /\ \A o \in DOMAIN orders :
            orders'[o].version = orders[o].version => orders'[o] = orders[o]
    /\ \A o \in DOMAIN payments :
            payments'[o].version = payments[o].version => payments'[o] = payments[o]

(* A table of which one row is replaced by a row of a later version.       *)
LEMMA OneRowMoves ==
    ASSUME NEW table, NEW new, NEW e \in DOMAIN table, NEW row,
           new = [table EXCEPT ![e] = row],
           \A o \in DOMAIN table : table[o].version \in Nat,
           row.version \in Nat, table[e].version <= row.version
    PROVE  /\ DOMAIN new = DOMAIN table
           /\ \A o \in DOMAIN table : /\ table[o].version \in Nat
                                      /\ new[o].version \in Nat
                                      /\ table[o].version <= new[o].version
           /\ table[e].version < row.version =>
                \A o \in DOMAIN table :
                    new[o].version = table[o].version => new[o] = table[o]
<1>1. /\ DOMAIN new = DOMAIN table
      /\ \A o \in DOMAIN table : new[o] = IF o = e THEN row ELSE table[o]
    OBVIOUS
<1>2. \A o \in DOMAIN table : /\ table[o].version \in Nat
                              /\ new[o].version \in Nat
                              /\ table[o].version <= new[o].version
  <2> TAKE o \in DOMAIN table
  <2>1. CASE o = e
    BY <1>1, <2>1
  <2>2. CASE o # e
    <3>1. new[o] = table[o]
      BY <1>1, <2>2
    <3> QED
      BY <3>1
  <2> QED
    BY <2>1, <2>2
<1>3. ASSUME table[e].version < row.version, NEW o \in DOMAIN table,
             new[o].version = table[o].version
      PROVE  new[o] = table[o]
  <2>1. CASE o = e
    BY <1>1, <1>3, <2>1
  <2>2. CASE o # e
    BY <1>1, <2>2
  <2> QED
    BY <2>1, <2>2
<1> QED
    BY <1>1, <1>2, <1>3

LEMMA VersionsAreNats ==
    ASSUME TypeOK
    PROVE  /\ \A o \in DOMAIN orders : orders[o].version \in Nat
           /\ \A o \in DOMAIN payments : payments[o].version \in Nat
    BY DEF TypeOK, StoreTypeOK, IsTable, OrderRow, PaymentRow

(* A step that leaves both tables alone.                                   *)
LEMMA RowsAlone ==
    ASSUME TypeOK, UNCHANGED <<orders, payments>>
    PROVE  VersionsGrow /\ VersionsTell
    BY VersionsAreNats DEF VersionsGrow, VersionsTell

(* A write of the executor moves the version of the row it writes.         *)
LEMMA CommitMovesOn ==
    ASSUME TypeOK, NEW r \in Runs, Commit(r)
    PROVE  VersionsGrow /\ VersionsTell
<1> DEFINE o == call[r].proposal.order
           v == call[r].row.version
<1>1. ASSUME NEW p, CancelOrder(r, p, o, v) PROVE VersionsGrow /\ VersionsTell
  <2> DEFINE row == [orders[o] EXCEPT !.status = "CANCELLED",
                                      !.version = orders[o].version + 1]
  <2>1. /\ o \in DOMAIN orders /\ orders[o] \in OrderRow
        /\ UNCHANGED payments
        /\ orders' = [orders EXCEPT ![o] = row]
    BY <1>1 DEF CancelOrder, OrderAtVersion, TypeOK, StoreTypeOK, IsTable
  <2>2. row.version = orders[o].version + 1
    BY <2>1 DEF OrderRow
  <2> HIDE DEF row, o
  <2> QED
    BY <2>1, <2>2, VersionsAreNats, OneRowMoves DEF VersionsGrow, VersionsTell
<1>2. ASSUME NEW p, NEW amount, IssueRefund(r, p, o, amount, v)
      PROVE  VersionsGrow /\ VersionsTell
  <2> DEFINE row == [payments[o] EXCEPT !.status = "REFUNDED",
                                        !.refunded = payments[o].refunded + amount,
                                        !.version = payments[o].version + 1]
  <2>1. /\ o \in DOMAIN payments /\ payments[o] \in PaymentRow
        /\ UNCHANGED orders
        /\ payments' = [payments EXCEPT ![o] = row]
    BY <1>2 DEF IssueRefund, PaymentAtVersion, TypeOK, StoreTypeOK, IsTable
  <2>2. row.version = payments[o].version + 1
    BY <2>1 DEF PaymentRow
  <2> HIDE DEF row, o
  <2> QED
    BY <2>1, <2>2, VersionsAreNats, OneRowMoves DEF VersionsGrow, VersionsTell
<1>3. ASSUME NEW p, CreateSupportTicket(r, p, o) PROVE VersionsGrow /\ VersionsTell
    BY <1>3, RowsAlone DEF CreateSupportTicket
<1> QED
    BY <1>1, <1>2, <1>3 DEF Commit, WriteTool

(* So does an edit, unless it is one that leaves the version alone.        *)
LEMMA WorldMovesOn ==
    ASSUME TypeOK, WorldStep
    PROVE  VersionsGrow /\ (~SilentEdits => VersionsTell)
<1>1. ASSUME NEW e \in Orders, EditOrder(e)
      PROVE  VersionsGrow /\ (~SilentEdits => VersionsTell)
  <2>1. PICK status \in OrderStatus \cap Statuses, delivered \in DeliveryTimes \cup {NULL},
             version \in NextVersion(orders[e].version) :
                orders' = [orders EXCEPT ![e] =
                    [status |-> status, delivered |-> delivered, version |-> version]]
    BY <1>1 DEF EditOrder
  <2> DEFINE row == [status |-> status, delivered |-> delivered, version |-> version]
  <2>2. /\ e \in DOMAIN orders
        /\ UNCHANGED payments
        /\ orders' = [orders EXCEPT ![e] = row]
        /\ row.version = version
    BY <1>1, <2>1 DEF EditOrder
  <2>3. /\ version \in Nat
        /\ orders[e].version <= version
        /\ ~SilentEdits => orders[e].version < version
    BY <2>2, VersionsAreNats DEF NextVersion
  <2> HIDE DEF row
  <2> QED
    BY <2>2, <2>3, VersionsAreNats, OneRowMoves DEF VersionsGrow, VersionsTell
<1>2. ASSUME NEW e \in Orders, EditPayment(e)
      PROVE  VersionsGrow /\ (~SilentEdits => VersionsTell)
  <2>1. PICK status \in {payments[e].status} \cup ({"REFUNDED"} \cap Statuses),
             captured \in CapturedCents,
             version \in NextVersion(payments[e].version) :
                payments' = [payments EXCEPT ![e].status = status,
                                             ![e].captured = captured,
                                             ![e].version = version]
    BY <1>2 DEF EditPayment
  <2> DEFINE row == [payments[e] EXCEPT !.status = status, !.captured = captured,
                                        !.version = version]
  <2>2. /\ e \in DOMAIN payments
        /\ payments[e] \in PaymentRow
        /\ UNCHANGED orders
        /\ payments' = [payments EXCEPT ![e] = row]
    BY <1>2, <2>1 DEF EditPayment, TypeOK, StoreTypeOK, IsTable
  <2>3. row.version = version
    BY <2>2 DEF PaymentRow
  <2>4. /\ version \in Nat
        /\ payments[e].version <= version
        /\ ~SilentEdits => payments[e].version < version
    BY <2>2, VersionsAreNats DEF NextVersion
  <2> HIDE DEF row
  <2> QED
    BY <2>2, <2>3, <2>4, VersionsAreNats, OneRowMoves DEF VersionsGrow, VersionsTell
<1>3. ASSUME NEW e \in Orders, EditShipment(e)
      PROVE  VersionsGrow /\ (~SilentEdits => VersionsTell)
    BY <1>3, RowsAlone DEF EditShipment
<1>4. ASSUME Tick
      PROVE  VersionsGrow /\ (~SilentEdits => VersionsTell)
    BY <1>4, RowsAlone DEF Tick, resourceVars
<1> QED
    BY <1>1, <1>2, <1>3, <1>4 DEF WorldStep

(* Nothing else moves a row.                                               *)
LEMMA RowsMoveOn ==
    ASSUME TypeOK, [ClientNext]_vars
    PROVE  VersionsGrow /\ (~SilentEdits => VersionsTell)
<1>1. ASSUME NEW r \in Runs, ClientIssue(r) \/ ClientPresent(r)
      PROVE  UNCHANGED <<orders, payments>>
    BY <1>1 DEF ClientIssue, IssuePermit, resourceVars, ClientPresent, Load, storeVars
<1>2. ASSUME NEW r \in Runs,
             Resolve(r) \/ Lookup(r) \/ CommitStale(r) \/ CommitConflict(r) \/ Respond(r)
      PROVE  UNCHANGED <<orders, payments>>
    BY <1>2 DEF Resolve, Lookup, CommitStale, CommitConflict, Respond, storeVars
<1>3. ASSUME UNCHANGED vars PROVE UNCHANGED <<orders, payments>>
    BY <1>3 DEF vars, storeVars
<1> QED
    BY <1>1, <1>2, <1>3, RowsAlone, CommitMovesOn, WorldMovesOn DEF ClientNext, CallStep

-----------------------------------------------------------------------------
(* One run at a time.                                                      *)

(* A step of one run is no step of another.                                *)
LEMMA OthersStandStill ==
    ASSUME TypeOK, NEW r \in Runs, ClientIssue(r) \/ ClientPresent(r) \/ CallStep(r),
           NEW q \in Runs \ {r}
    PROVE  /\ phase'[q] = phase[q]
           /\ call'[q] = call[q]
           /\ answer'[q] = answer[q]
           /\ sequence'[q] = sequence[q]
<1> USE DEF TypeOK
<1>1. CASE ClientIssue(r)
    BY <1>1 DEF ClientIssue, IssuePermit
<1>2. CASE ClientPresent(r)
    BY <1>2 DEF ClientPresent, Load, GoTo
<1>3. CASE Resolve(r)
    BY <1>3 DEF Resolve, Reject, Finish, GoTo
<1>4. CASE Lookup(r)
    BY <1>4 DEF Lookup, Reject, Finish, GoTo
<1>5. CASE Commit(r)
    BY <1>5 DEF Commit, GoTo
<1>6. CASE CommitStale(r) \/ CommitConflict(r)
    BY <1>6 DEF CommitStale, CommitConflict, Reject, Finish
<1>7. CASE Respond(r)
    BY <1>7 DEF Respond, Finish
<1> QED
    BY <1>1, <1>2, <1>3, <1>4, <1>5, <1>6, <1>7 DEF CallStep

(* The call of r is over, and what it answers is known.                    *)
CallEnds(r, kind, reason, result) ==
    /\ phase'[r] = "idle"
    /\ call'[r] = NoCall
    /\ answer'[r] = Answer(kind, reason, result, call[r].permit, call[r].row.used)

LEMMA FinishEnds ==
    ASSUME TypeOK, NEW r \in Runs, NEW kind, NEW reason, NEW result,
           Finish(r, kind, reason, result)
    PROVE  CallEnds(r, kind, reason, result)
    BY DEF Finish, CallEnds, TypeOK

(* Check 3 and 4 end the call, or the target is in hand.                   *)
LEMMA ResolveDoes ==
    ASSUME TypeOK, NEW r \in Runs, Resolve(r)
    PROVE  LET target == ResolveTarget(call[r].proposal)
           IN  /\ phase[r] = "resolve"
               /\ UNCHANGED storeVars
               /\ UNCHANGED <<sequence, emitted, calls>>
               /\ \/ /\ target = NULL \/ target.resource # call[r].row.resource
                     /\ CallEnds(r, "rejected", "permit_resource_mismatch", NULL)
                  \/ /\ now > call[r].row.expires
                     /\ CallEnds(r, "rejected", "permit_expired", NULL)
                  \/ /\ target # NULL
                     /\ target \in Target
                     /\ target.resource = call[r].row.resource
                     /\ ~(now > call[r].row.expires)
                     /\ phase'[r] = "lookup"
                     /\ call'[r].permit = call[r].permit
                     /\ call'[r].proposal = call[r].proposal
                     /\ call'[r].row = call[r].row
                     /\ call'[r].target = target
                     /\ answer'[r] = answer[r]
<1> DEFINE target == ResolveTarget(call[r].proposal)
<1>1. phase[r] = "resolve" /\ UNCHANGED storeVars /\ UNCHANGED <<sequence, emitted, calls>>
    BY DEF Resolve
<1>2. ASSUME NEW reason, Reject(r, reason) PROVE CallEnds(r, "rejected", reason, NULL)
    BY <1>2, FinishEnds DEF Reject
<1>3. call[r] \in CallRecord /\ target \in Target \cup {NULL}
    BY <1>1, InHand, TargetTypes DEF TypeOK, CallTypeOK
<1>4. ASSUME target # NULL, target.resource = call[r].row.resource,
             GoTo(r, "lookup"), call' = [call EXCEPT ![r].target = target], UNCHANGED answer
      PROVE  /\ target \in Target
             /\ phase'[r] = "lookup"
             /\ call'[r].permit = call[r].permit
             /\ call'[r].proposal = call[r].proposal
             /\ call'[r].row = call[r].row
             /\ call'[r].target = target
             /\ answer'[r] = answer[r]
  <2>1. call'[r] = [call[r] EXCEPT !.target = target]
    BY <1>4 DEF TypeOK
  <2> QED
    BY <1>3, <1>4, <2>1 DEF GoTo, TypeOK, CallRecord
<1> HIDE DEF target
<1>5. \/ (target = NULL \/ target.resource # call[r].row.resource)
            /\ Reject(r, "permit_resource_mismatch")
      \/ now > call[r].row.expires /\ Reject(r, "permit_expired")
      \/ /\ target # NULL /\ target.resource = call[r].row.resource
         /\ ~(now > call[r].row.expires)
         /\ GoTo(r, "lookup") /\ call' = [call EXCEPT ![r].target = target]
         /\ UNCHANGED answer
    BY DEF Resolve, target
<1> QED
    BY <1>1, <1>2, <1>4, <1>5 DEF target

(* The lookup ends the call, or all checks are passed and nothing is       *)
(* stored under the key.                                                   *)
LEMMA LookupDoes ==
    ASSUME TypeOK, NEW r \in Runs, Lookup(r)
    PROVE  LET permit == call[r].row
               failed == FirstFailedCheck(permit, call[r].proposal, call[r].target)
           IN  /\ phase[r] = "lookup"
               /\ UNCHANGED storeVars
               /\ UNCHANGED <<sequence, emitted, calls>>
               /\ \/ /\ permit.key \in DOMAIN records
                     /\ failed # "permit_amount_exceeded"
                     /\ CallEnds(r, "replayed", "idempotent_replay", records[permit.key])
                  \/ /\ failed # NULL
                     /\ permit.key \in DOMAIN records => failed = "permit_amount_exceeded"
                     /\ CallEnds(r, "rejected", failed, NULL)
                  \/ /\ failed = NULL
                     /\ permit.key \notin DOMAIN records
                     /\ phase'[r] = "commit"
                     /\ call'[r] = call[r]
                     /\ answer'[r] = answer[r]
<1> DEFINE permit == call[r].row
           failed == FirstFailedCheck(permit, call[r].proposal, call[r].target)
<1>1. phase[r] = "lookup" /\ UNCHANGED storeVars /\ UNCHANGED <<sequence, emitted, calls>>
    BY DEF Lookup
<1>2. ASSUME NEW kind, NEW reason, NEW result, Finish(r, kind, reason, result)
      PROVE  CallEnds(r, kind, reason, result)
    BY <1>2, FinishEnds
<1>3. ASSUME GoTo(r, "commit"), UNCHANGED <<call, answer>>
      PROVE  phase'[r] = "commit" /\ call'[r] = call[r] /\ answer'[r] = answer[r]
    BY <1>3 DEF GoTo, TypeOK
<1>4. NULL # "permit_amount_exceeded"
    BY ReasonAssumption DEF RejectionReasons
<1> HIDE DEF failed
<1> QED
    BY <1>1, <1>2, <1>3, <1>4 DEF Lookup, Reject, failed

(* A call that passed checks 5 to 9.                                       *)
LEMMA PassedChecks ==
    ASSUME NEW permit, NEW proposal, NEW target,
           FirstFailedCheck(permit, proposal, target) = NULL
    PROVE  /\ ~permit.used
           /\ ~(AmountOf(proposal) > permit.max)
           /\ target.version = permit.version
           /\ TransitionAllowed(proposal.action, target)
<1>1. /\ NULL # "permit_already_used" /\ NULL # "permit_amount_exceeded"
      /\ NULL # "stale_resource_version" /\ NULL # "transition_not_allowed"
    BY ReasonAssumption DEF RejectionReasons
<1>2. ~permit.used /\ ~(AmountOf(proposal) > permit.max)
    BY <1>1, Zenon DEF FirstFailedCheck
<1> QED
    BY <1>1, <1>2, Zenon DEF FirstFailedCheck

(* The three steps that end a call that got as far as the commit.          *)
LEMMA EndDoes ==
    ASSUME TypeOK, NEW r \in Runs
    PROVE  /\ CommitStale(r) => /\ ~GuardMatches(call[r].row, call[r].proposal)
                                /\ CallEnds(r, "rejected", "stale_resource_version", NULL)
           /\ CommitConflict(r) =>
                /\ CommitRaises(call[r].permit, call[r].row, call[r].proposal)
                /\ CallEnds(r, "raised", NULL, NULL)
           /\ Respond(r) =>
                \E kind \in {"committed", "lost"} :
                    CallEnds(r, kind, NULL,
                             ResultOf(call[r].permit, call[r].row, call[r].proposal))
           /\ CommitStale(r) \/ CommitConflict(r) => phase[r] = "commit"
           /\ Respond(r) => phase[r] = "respond"
           /\ CommitStale(r) \/ CommitConflict(r) \/ Respond(r) => UNCHANGED storeVars
<1>1. CommitStale(r) => CallEnds(r, "rejected", "stale_resource_version", NULL)
    BY FinishEnds DEF CommitStale, Reject
<1>2. CommitConflict(r) => CallEnds(r, "raised", NULL, NULL)
    BY FinishEnds DEF CommitConflict
<1>3. Respond(r) => \E kind \in {"committed", "lost"} :
            CallEnds(r, kind, NULL, ResultOf(call[r].permit, call[r].row, call[r].proposal))
    BY FinishEnds DEF Respond
<1> QED
    BY <1>1, <1>2, <1>3 DEF CommitStale, CommitConflict, Respond

-----------------------------------------------------------------------------
(* What a call read of its target.                                         *)

(* The target is no newer than its row; if it is as new as the row, and    *)
(* edits move versions, the row still has the status that was read.        *)
SeenIn(target, row) ==
    /\ target.version <= row.version
    /\ ~SilentEdits /\ target.version = row.version => target.status = row.status

CallSaw(r) ==
    LET o == call[r].proposal.order  target == call[r].target
    IN  /\ target \in Target
        /\ IF call[r].proposal.action = "issue_refund"
             THEN o \in DOMAIN payments /\ SeenIn(target, payments[o])
             ELSE o \in DOMAIN orders /\ SeenIn(target, orders[o])
        /\ phase[r] = "commit" =>
                FirstFailedCheck(call[r].row, call[r].proposal, target) = NULL

CallsSaw == \A r \in Runs : phase[r] \in {"lookup", "commit"} => CallSaw(r)

(* What was seen in a row stays so while rows move on.                     *)
LEMMA StillSeen ==
    ASSUME NEW target \in Target, NEW row, NEW new,
           row.version \in Nat, new.version \in Nat, row.version <= new.version,
           ~SilentEdits /\ new.version = row.version => new = row,
           SeenIn(target, row)
    PROVE  SeenIn(target, new)
<1>1. target.version \in Nat
    BY DEF Target
<1> QED
    BY <1>1 DEF SeenIn

LEMMA StillSaw ==
    ASSUME VersionsGrow, ~SilentEdits => VersionsTell, NEW r,
           CallSaw(r), phase'[r] = phase[r], call'[r] = call[r]
    PROVE  CallSaw(r)'
<1> DEFINE o == call[r].proposal.order
           target == call[r].target
<1>1. target \in Target
    BY DEF CallSaw
<1>2. ASSUME o \in DOMAIN payments, SeenIn(target, payments[o])
      PROVE  o \in DOMAIN payments' /\ SeenIn(target, payments'[o])
    BY <1>1, <1>2, StillSeen DEF VersionsGrow, VersionsTell
<1>3. ASSUME o \in DOMAIN orders, SeenIn(target, orders[o])
      PROVE  o \in DOMAIN orders' /\ SeenIn(target, orders'[o])
    BY <1>1, <1>3, StillSeen DEF VersionsGrow, VersionsTell
<1> QED
    BY <1>1, <1>2, <1>3 DEF CallSaw, SeenIn

(* Check 3 reads the row as it is.                                         *)
LEMMA TargetIsSeen ==
    ASSUME TypeOK, NEW proposal \in Proposals(ActionName, Nat),
           ResolveTarget(proposal) # NULL
    PROVE  LET o == proposal.order  target == ResolveTarget(proposal)
           IN  IF proposal.action = "issue_refund"
                 THEN o \in DOMAIN payments /\ SeenIn(target, payments[o])
                 ELSE o \in DOMAIN orders /\ SeenIn(target, orders[o])
<1>1. CASE proposal.action = "issue_refund"
    BY <1>1, VersionsAreNats DEF ResolveTarget, SeenIn
<1>2. CASE proposal.action # "issue_refund"
    BY <1>2, VersionsAreNats DEF ResolveTarget, SeenIn
<1> QED
    BY <1>1, <1>2

LEMMA CallsSawNext ==
    ASSUME TypeOK, CallsSaw, [ClientNext]_vars
    PROVE  CallsSaw'
<1> SUFFICES ASSUME NEW q \in Runs, phase'[q] \in {"lookup", "commit"}
             PROVE  CallSaw(q)'
    BY DEF CallsSaw
<1>0. VersionsGrow /\ (~SilentEdits => VersionsTell)
    BY RowsMoveOn
<1>1. CASE phase'[q] = phase[q] /\ call'[q] = call[q]
    BY <1>0, <1>1, StillSaw DEF CallsSaw
<1>2. CASE Resolve(q)
  <2> DEFINE target == ResolveTarget(call[q].proposal)
  <2>1. /\ target # NULL /\ target \in Target
        /\ phase'[q] = "lookup"
        /\ call'[q].proposal = call[q].proposal
        /\ call'[q].target = target
        /\ UNCHANGED storeVars
    BY <1>2, ResolveDoes DEF CallEnds
  <2>2. call[q].proposal \in Proposals(ActionName, Nat)
    BY <1>2, InHand DEF Resolve, TypeOK, CallTypeOK
  <2>3. LET o == call[q].proposal.order
        IN  IF call[q].proposal.action = "issue_refund"
              THEN o \in DOMAIN payments /\ SeenIn(target, payments[o])
              ELSE o \in DOMAIN orders /\ SeenIn(target, orders[o])
    BY <2>1, <2>2, TargetIsSeen
  <2> HIDE DEF target
  <2> QED
    BY <2>1, <2>3 DEF CallSaw, SeenIn, storeVars
<1>3. CASE Lookup(q)
  <2>1. /\ FirstFailedCheck(call[q].row, call[q].proposal, call[q].target) = NULL
        /\ phase[q] = "lookup"
        /\ phase'[q] = "commit"
        /\ call'[q] = call[q]
        /\ UNCHANGED storeVars
    BY <1>3, LookupDoes DEF CallEnds
  <2>2. CallSaw(q)
    BY <2>1 DEF CallsSaw
  <2> QED
    BY <2>1, <2>2 DEF CallSaw, SeenIn, storeVars
<1>4. ASSUME NEW r \in Runs, ClientIssue(r) \/ ClientPresent(r) \/ CallStep(r), r # q
      PROVE  phase'[q] = phase[q] /\ call'[q] = call[q]
    BY <1>4, OthersStandStill
<1>5. ASSUME ClientIssue(q) \/ ClientPresent(q)
      PROVE  phase'[q] = phase[q] /\ call'[q] = call[q]
    BY <1>5 DEF ClientIssue, ClientPresent, Load, GoTo, TypeOK
<1>6. ASSUME Commit(q) \/ CommitStale(q) \/ CommitConflict(q) \/ Respond(q)
      PROVE  FALSE
    BY <1>6, EndDoes DEF Commit, GoTo, TypeOK, CallEnds
<1>7. ASSUME (WorldStep /\ UNCHANGED executorVars) \/ UNCHANGED vars
      PROVE  phase'[q] = phase[q] /\ call'[q] = call[q]
    BY <1>7 DEF executorVars, vars
<1> QED
    BY <1>1, <1>2, <1>3, <1>4, <1>5, <1>6, <1>7 DEF ClientNext, CallStep

(* A write moves a status along its table: the row still has the version   *)
(* at which the table was asked.                                           *)
LegalMove ==
    /\ \A o \in DOMAIN orders :
          \/ orders'[o].status = orders[o].status
          \/ OrderTransitionAllowed(orders[o].status, orders'[o].status)
    /\ \A o \in DOMAIN payments :
          \/ payments'[o].status = payments[o].status
          \/ PaymentTransitionAllowed(payments[o].status, payments'[o].status)

LEMMA CommitIsLegal ==
    ASSUME ~SilentEdits, TypeOK, CallsSaw, NEW r \in Runs, Commit(r)
    PROVE  LegalMove
<1> DEFINE o == call[r].proposal.order
           target == call[r].target
           v == call[r].row.version
<1>1. CallSaw(r) /\ phase[r] = "commit"
    BY DEF Commit, CallsSaw
<1>2. target.version = v /\ TransitionAllowed(call[r].proposal.action, target)
    BY <1>1, PassedChecks DEF CallSaw
<1>3. CASE call[r].proposal.action = "cancel_order"
  <2>1. /\ o \in DOMAIN orders
        /\ orders[o].version = v
        /\ orders' = [orders EXCEPT ![o].status = "CANCELLED", ![o].version = @ + 1]
        /\ UNCHANGED payments
    BY <1>3 DEF Commit, WriteTool, CancelOrder, OrderAtVersion
  <2>2. orders \in [DOMAIN orders -> OrderRow] /\ orders[o] \in OrderRow
    BY <2>1 DEF TypeOK, StoreTypeOK, IsTable
  <2>3. /\ orders'[o].status = "CANCELLED"
        /\ \A x \in DOMAIN orders : x # o => orders'[x] = orders[x]
    BY <2>1, <2>2 DEF OrderRow
  <2>4. target.status = orders[o].status
    BY <1>1, <1>2, <1>3, <2>1 DEF CallSaw, SeenIn
  <2>5. OrderTransitionAllowed(orders[o].status, "CANCELLED")
    BY <1>2, <1>3, <2>4 DEF TransitionAllowed
  <2> QED
    BY <2>1, <2>3, <2>5 DEF LegalMove
<1>4. CASE call[r].proposal.action = "issue_refund"
  <2>1. /\ o \in DOMAIN payments
        /\ payments[o].version = v
        /\ payments' = [payments EXCEPT ![o].status = "REFUNDED",
                                        ![o].refunded = @ + AmountOf(call[r].proposal),
                                        ![o].version = @ + 1]
        /\ UNCHANGED orders
    BY <1>4 DEF Commit, WriteTool, IssueRefund, PaymentAtVersion
  <2>2. payments \in [DOMAIN payments -> PaymentRow] /\ payments[o] \in PaymentRow
    BY <2>1 DEF TypeOK, StoreTypeOK, IsTable
  <2>3. /\ payments'[o].status = "REFUNDED"
        /\ \A x \in DOMAIN payments : x # o => payments'[x] = payments[x]
    BY <2>1, <2>2 DEF PaymentRow
  <2>4. target.status = payments[o].status
    BY <1>1, <1>2, <1>4, <2>1 DEF CallSaw, SeenIn
  <2>5. PaymentTransitionAllowed(payments[o].status, "REFUNDED")
    BY <1>2, <1>4, <2>4 DEF TransitionAllowed
  <2> QED
    BY <2>1, <2>3, <2>5 DEF LegalMove
<1>5. CASE call[r].proposal.action = "create_support_ticket"
    BY <1>5 DEF Commit, WriteTool, CreateSupportTicket, LegalMove
<1> QED
    BY <1>3, <1>4, <1>5 DEF Commit, WriteTool

(* Nothing but a commit writes a row of the ledger.                        *)
LEMMA OnlyCommitsWrite ==
    ASSUME [ClientNext]_vars, mutation_log' # mutation_log
    PROVE  \E r \in Runs : Commit(r)
<1>1. ASSUME NEW r \in Runs,
             \/ ClientIssue(r) \/ ClientPresent(r) \/ Resolve(r) \/ Lookup(r)
             \/ CommitStale(r) \/ CommitConflict(r) \/ Respond(r)
      PROVE  UNCHANGED mutation_log
    BY <1>1 DEF ClientIssue, IssuePermit, ClientPresent, Load, Resolve, Lookup,
                CommitStale, CommitConflict, Respond, storeVars
<1>2. ASSUME WorldStep PROVE UNCHANGED mutation_log
    BY <1>2 DEF WorldStep, EditOrder, EditPayment, EditShipment, Tick, ledgerVars
<1>3. ASSUME UNCHANGED vars PROVE UNCHANGED mutation_log
    BY <1>3 DEF vars, storeVars
<1> QED
    BY <1>1, <1>2, <1>3 DEF ClientNext, CallStep

LEMMA CallsSawInit == Init => CallsSaw
    BY DEF Init, ExecutorInit, CallsSaw

(* The agent changes a status only along the transition tables, although   *)
(* check 8 asks them about a row read before the transaction: where every  *)
(* edit moves the version, the guarded UPDATE vouches for the earlier      *)
(* answer (executor.py check 8, write_tools.py WHERE version = ?).         *)
THEOREM MovesAreLegal ==
    ASSUME ~SilentEdits
    PROVE  Spec => AgentMovesAreLegal
<1>1. Init => TypeOK /\ CallsSaw
    BY InitTypes, CallsSawInit
<1>2. TypeOK /\ CallsSaw /\ [Next]_vars => TypeOK' /\ CallsSaw'
    BY NextTypes, NextIsClient, CallsSawNext
<1>3. TypeOK /\ CallsSaw /\ [Next]_vars => (mutation_log' # mutation_log => LegalMove)
    BY NextIsClient, OnlyCommitsWrite, CommitIsLegal
<1>4. TypeOK /\ CallsSaw /\ [Next]_vars
        => [ mutation_log' # mutation_log => LegalMove ]_vars
    BY <1>3
<1>5. Spec => [][ mutation_log' # mutation_log => LegalMove ]_vars
    BY <1>1, <1>2, <1>4, PTL DEF Spec
<1> QED
    BY <1>5 DEF AgentMovesAreLegal, LegalMove

-----------------------------------------------------------------------------
(* The promise of PermitBoundary.                                          *)

(* What the boundary sees of the tables.                                   *)
Grants ==
    [p \in DOMAIN permits |->
        [action |-> permits[p].action, resource |-> permits[p].resource,
         max |-> permits[p].max]]

Ledger ==
    [i \in DOMAIN mutation_log |->
        [by |-> mutation_log[i].by, action |-> mutation_log[i].action,
         resource |-> mutation_log[i].resource, amount |-> mutation_log[i].amount]]

Refunded == [o \in DOMAIN payments |-> payments[o].refunded]

LEMMA PromiseInit == Init => Boundary!BoundaryInit
<1> SUFFICES ASSUME Init PROVE Boundary!BoundaryInit
    OBVIOUS
<1>1. DOMAIN permits = {} /\ mutation_log = <<>>
    BY DEF Init, StoreInit, EmptyTable
<1>2. Grants = [p \in {} |-> NULL]
    BY <1>1 DEF Grants
<1>3. Ledger = <<>>
    BY <1>1 DEF Ledger
<1>4. DOMAIN payments \in SUBSET Orders /\ Refunded = [o \in DOMAIN payments |-> 0]
  <2>1. \A o \in DOMAIN payments : payments[o].refunded = 0
    BY DEF Init, StoreInit
  <2>2. DOMAIN payments \in SUBSET Orders
    BY InitTypes DEF TypeOK, StoreTypeOK, IsTable
  <2> QED
    BY <2>1, <2>2 DEF Refunded
<1> QED
    BY <1>2, <1>3, <1>4, Zenon DEF Boundary!BoundaryInit, Grants, Ledger, Refunded

(* A step that grants nothing, writes no row and pays nothing back.        *)
LEMMA PromiseStutters ==
    ASSUME Grants' = Grants, Ledger' = Ledger, Refunded' = Refunded
    PROVE  UNCHANGED Boundary!boundaryVars
    BY DEF Boundary!boundaryVars, Grants, Ledger, Refunded

(* The same names in the module of the promise.                            *)
LEMMA SameNames ==
    /\ Boundary!ActionName = ActionName
    /\ Boundary!Resources = Resources
    /\ \A o : Boundary!Payment(o) = Payment(o)
    BY DEF Boundary!ActionName, Boundary!Resources, Boundary!Payment,
           ActionName, Resources, Payment

LEMMA PromiseGrant ==
    ASSUME NEW p \in Runs \X (1..MaxPermits), NEW action \in ActionName,
           NEW resource \in Resources, NEW max \in Amounts,
           p \notin DOMAIN permits,
           Grants' = [q \in DOMAIN Grants \cup {p} |->
                        IF q = p
                        THEN [action |-> action, resource |-> resource, max |-> max]
                        ELSE Grants[q]],
           Ledger' = Ledger, Refunded' = Refunded
    PROVE  Boundary!BoundaryNext
<1> DEFINE grant == [action |-> action, resource |-> resource, max |-> max]
<1>1. p \notin DOMAIN Grants
    BY DEF Grants
<1>2. Boundary!Grant(p, grant)
    BY <1>1, Zenon DEF Boundary!Grant, Grants, Ledger, Refunded
<1> QED
    BY <1>2, SameNames DEF Boundary!BoundaryNext

(* What was done under p, as the ledger of the promise shows it.           *)
Entry(p, amount) ==
    [by |-> p, action |-> permits[p].action,
     resource |-> permits[p].resource, amount |-> amount]

LEMMA PromiseAct ==
    ASSUME NEW p \in DOMAIN permits,
           permits[p].action # "issue_refund",
           \A i \in DOMAIN mutation_log : mutation_log[i].by # p,
           Ledger' = Append(Ledger, Entry(p, 0)),
           Grants' = Grants, Refunded' = Refunded
    PROVE  Boundary!BoundaryNext
<1>1. p \in DOMAIN Grants /\ Grants[p].action # "issue_refund"
    BY DEF Grants
<1>2. Boundary!Row(p, 0) = Entry(p, 0)
    BY DEF Boundary!Row, Entry
<1>3. ~Boundary!Spent(p)
    BY DEF Boundary!Spent
<1> QED
    BY <1>1, <1>2, <1>3, Zenon
    DEF Boundary!BoundaryNext, Boundary!Spend, Boundary!Act, Grants, Ledger, Refunded

LEMMA PromiseRefund ==
    ASSUME NEW p \in DOMAIN permits, NEW o \in DOMAIN payments, NEW amount \in Nat,
           permits[p].action = "issue_refund", permits[p].resource = Payment(o),
           permits[p].max \in Nat, amount <= permits[p].max,
           \A i \in DOMAIN mutation_log : mutation_log[i].by # p,
           RefundRowsOf(o) = {},
           Ledger' = Append(Ledger, Entry(p, amount)),
           Grants' = Grants,
           Refunded' = [Refunded EXCEPT ![o] = @ + amount]
    PROVE  Boundary!BoundaryNext
<1>1. /\ p \in DOMAIN Grants
      /\ Grants[p].action = "issue_refund"
      /\ Grants[p].resource = Boundary!Payment(o)
      /\ amount <= Grants[p].max
      /\ amount \in 0..Grants[p].max
    BY SameNames DEF Grants
<1>2. Boundary!Row(p, amount) = Entry(p, amount)
    BY DEF Boundary!Row, Entry
<1>3. ~Boundary!Spent(p) /\ ~Boundary!PaidBack(o)
    BY SameNames DEF Boundary!Spent, Boundary!PaidBack, RefundRowsOf
<1>4. o \in DOMAIN Refunded
    BY DEF Refunded
<1>5. Boundary!Refund(p, o, amount)
    BY <1>1, <1>2, <1>3, Zenon DEF Boundary!Refund, Grants, Ledger, Refunded
<1>6. Boundary!Spend(p)
    BY <1>1, <1>3, <1>4, <1>5, Zenon DEF Boundary!Spend, Grants, Refunded
<1> QED
    BY <1>1, <1>6, Zenon DEF Boundary!BoundaryNext, Grants

(* A new permit is a grant; a permit whose id was taken is none.           *)
LEMMA PromisePermit ==
    ASSUME NEW r \in Runs, sequence[r] + 1 \in 1..MaxPermits,
           NEW action \in ActionName, NEW o \in Orders, NEW version, NEW max \in Amounts,
           IssuePermit(r, action, o, version, max)
    PROVE  [Boundary!BoundaryNext]_Boundary!boundaryVars
<1> DEFINE p == <<r, sequence[r] + 1>>
           row == NewPermit(action, o, version, max, sequence[r] + 1, r)
           grant == [action |-> action, resource |-> ResourceOf(action, o), max |-> max]
<1>1. /\ permits' = InsertRow(permits, p, row)
      /\ UNCHANGED <<payments, mutation_log>>
    BY DEF IssuePermit, resourceVars
<1>2. p \in Runs \X (1..MaxPermits)
    OBVIOUS
<1>3. ResourceOf(action, o) \in Resources
    BY DEF ResourceOf, Order, Payment, Resources
<1>4. row.action = action /\ row.resource = ResourceOf(action, o) /\ row.max = max
    BY DEF NewPermit
<1>5. Ledger' = Ledger /\ Refunded' = Refunded
    BY <1>1 DEF Ledger, Refunded
<1> HIDE DEF p, row
<1>6. CASE p \in DOMAIN permits
  <2>1. DOMAIN permits' = DOMAIN permits /\ \A q \in DOMAIN permits : permits'[q] = permits[q]
    BY <1>1, <1>6 DEF InsertRow
  <2>2. Grants' = Grants
    BY <2>1 DEF Grants
  <2> QED
    BY <1>5, <2>2, PromiseStutters
<1>7. CASE p \notin DOMAIN permits
  <2>1. /\ DOMAIN permits' = DOMAIN permits \cup {p}
        /\ \A q \in DOMAIN permits : permits'[q] = permits[q]
        /\ permits'[p] = row
    BY <1>1, <1>7, Zenon DEF InsertRow
  <2>2. Grants' = [q \in DOMAIN Grants \cup {p} |-> IF q = p THEN grant ELSE Grants[q]]
    BY <1>4, <1>7, <2>1 DEF Grants
  <2>3. Boundary!BoundaryNext
    BY <1>2, <1>3, <1>5, <1>7, <2>2, PromiseGrant
  <2> QED
    BY <2>3
<1> QED
    BY <1>6, <1>7

LEMMA PromiseIssue ==
    ASSUME TypeOK, NEW r \in Runs, Issue(r)
    PROVE  [Boundary!BoundaryNext]_Boundary!boundaryVars
<1>1. PICK action \in Actions, o \in Orders, max \in Amounts :
            \E version \in 1..VersionOf(action, o) :
                IssuePermit(r, action, o, version, max)
    BY DEF Issue
<1>2. PICK version : IssuePermit(r, action, o, version, max)
    BY <1>1
<1>3. sequence[r] + 1 \in 1..MaxPermits /\ action \in ActionName
    BY ExecutorAssumption DEF Issue, TypeOK
<1> QED
    BY <1>2, <1>3, PromisePermit

(* A commit is a spending of its permit: the grant was not spent before,   *)
(* a refund is within its ceiling and the first of its payment.            *)
LEMMA PromiseCommit ==
    ASSUME TypeOK, LedgerInv, RefundInv, NEW r \in Runs, Commit(r)
    PROVE  [Boundary!BoundaryNext]_Boundary!boundaryVars
<1> DEFINE p == call[r].permit
           permit == call[r].row
           proposal == call[r].proposal
           o == proposal.order
           amount == AmountMoved(proposal)
           row == [run |-> r, action |-> proposal.action, resource |-> permit.resource,
                   amount |-> amount, by |-> p]
           entry == Entry(p, amount)
<1>1. PICK n, row0 : CommitWrites(r, n, row0)
    BY CommitDoes DEF LedgerInv
<1>2. CallKnown(r) /\ phase[r] = "commit"
    BY DEF Commit, LedgerInv, CallsKnown
<1>3. /\ p \in DOMAIN permits
      /\ permits[p].action = proposal.action
      /\ permits[p].resource = permit.resource
      /\ permits[p].max = permit.max
      /\ permit.resource = ResourceOf(proposal.action, o)
      /\ permit.key = permits[p].key
      /\ permit.key \notin DOMAIN records
      /\ AmountOf(proposal) <= permit.max
    BY <1>2 DEF CallKnown, Commit
<1>4. Grants' = Grants
  <2>1. /\ DOMAIN permits' = DOMAIN permits
        /\ \A q \in DOMAIN permits : /\ permits'[q].action = permits[q].action
                                     /\ permits'[q].resource = permits[q].resource
                                     /\ permits'[q].max = permits[q].max
    BY <1>1 DEF CommitWrites
  <2> QED
    BY <2>1 DEF Grants
<1>5. \A i \in DOMAIN mutation_log : mutation_log[i].by # p
  <2>1. permits[p].key \notin DOMAIN records
    BY <1>3
  <2>2. LedgerAgrees
    BY DEF LedgerInv
  <2> HIDE DEF p
  <2> QED
    BY <2>1, <2>2 DEF LedgerAgrees
<1>6. Ledger' = Append(Ledger, entry)
  <2>1. mutation_log' = Append(mutation_log, row)
    BY <1>3, WriteLogs DEF Commit, LogMutation
  <2>2. mutation_log \in Seq(LogRow)
    BY DEF TypeOK, StoreTypeOK
  <2> DEFINE m == Len(mutation_log)
  <2>3. m \in Nat /\ DOMAIN mutation_log = 1..m
    BY <2>2
  <2>4. /\ DOMAIN mutation_log' = 1..(m + 1)
        /\ \A i \in 1..m : mutation_log'[i] = mutation_log[i]
        /\ mutation_log'[m + 1] = row
    <3> HIDE DEF row
    <3> QED
      BY <2>1, <2>2
  <2> HIDE DEF m
  <2>5. DOMAIN Ledger = 1..m
    BY <2>3 DEF Ledger
  <2>6. PICK S : Ledger \in Seq(S) /\ entry \in S
    <3> DEFINE T == {Ledger[i] : i \in 1..m} \cup {entry}
    <3>1. Ledger \in [1..m -> T]
      BY <2>3 DEF Ledger
    <3>2. Ledger \in Seq(T)
      BY <2>3, <3>1, SeqDef
    <3> QED
      BY <3>2
  <2>7. Len(Ledger) = m
    BY <2>3, <2>5, <2>6, LenProperties
  <2>8. /\ DOMAIN Ledger' = 1..(m + 1)
        /\ \A i \in 1..m : Ledger'[i] = Ledger[i]
        /\ Ledger'[m + 1] = entry
        /\ Ledger' = [i \in 1..(m + 1) |-> Ledger'[i]]
    BY <1>3, <2>3, <2>4 DEF Ledger, Entry
  <2> HIDE DEF entry
  <2>9. /\ Append(Ledger, entry) \in Seq(S)
        /\ Len(Append(Ledger, entry)) = m + 1
        /\ \A i \in 1..m : Append(Ledger, entry)[i] = Ledger[i]
        /\ Append(Ledger, entry)[m + 1] = entry
    BY <2>3, <2>6, <2>7, AppendProperties
  <2>10. Append(Ledger, entry) = [i \in 1..(m + 1) |-> Append(Ledger, entry)[i]]
    BY <2>9, LenProperties
  <2> QED
    BY <2>3, <2>8, <2>9, <2>10
<1>9. CASE proposal.action # "issue_refund"
  <2>1. UNCHANGED payments
    BY <1>9 DEF Commit, WriteTool, CancelOrder, CreateSupportTicket
  <2>2. Refunded' = Refunded
    BY <2>1 DEF Refunded
  <2>3. amount = 0
    BY <1>9 DEF AmountMoved
  <2>4. Boundary!BoundaryNext
    <3>1. permits[p].action # "issue_refund"
      BY <1>3, <1>9
    <3> HIDE DEF p
    <3> QED
      BY <1>3, <1>4, <1>5, <1>6, <2>2, <2>3, <3>1, PromiseAct
  <2> QED
    BY <2>4
<1>10. CASE proposal.action = "issue_refund"
  <2>1. /\ o \in DOMAIN payments
        /\ payments[o].version = permit.version
        /\ payments' = [payments EXCEPT ![o].status = "REFUNDED",
                                        ![o].refunded = @ + AmountOf(proposal),
                                        ![o].version = @ + 1]
    BY <1>10 DEF Commit, WriteTool, IssueRefund, PaymentAtVersion
  <2>2. payments \in [DOMAIN payments -> PaymentRow] /\ payments[o] \in PaymentRow
    BY <2>1 DEF TypeOK, StoreTypeOK, IsTable
  <2>3. /\ DOMAIN payments' = DOMAIN payments
        /\ \A x \in DOMAIN payments : x # o => payments'[x] = payments[x]
        /\ payments'[o].refunded = payments[o].refunded + AmountOf(proposal)
    BY <2>1, <2>2 DEF PaymentRow
  <2>4. amount = AmountOf(proposal) /\ amount \in Nat /\ permit.max \in Nat
    BY <1>2, <1>10, InHand DEF AmountMoved, TypeOK, CallTypeOK, PermitRow
  <2>5. RefundRowsOf(o) = {}
    <3>1. CallPinned(r)
      BY <1>2, <1>10 DEF RefundInv, CallsPinned
    <3>2. ~(payments[o].version < payments[o].version)
      BY <2>2 DEF PaymentRow
    <3> QED
      BY <1>2, <2>1, <3>1, <3>2 DEF CallPinned
  <2>6. Refunded' = [Refunded EXCEPT ![o] = @ + amount]
    BY <2>1, <2>3, <2>4 DEF Refunded
  <2>7. /\ permits[p].action = "issue_refund"
        /\ permits[p].resource = Payment(o)
        /\ permits[p].max \in Nat
        /\ amount <= permits[p].max
    BY <1>3, <1>10, <2>4 DEF ResourceOf
  <2>8. Boundary!BoundaryNext
    <3> HIDE DEF p, o, amount
    <3> QED
      BY <1>3, <1>4, <1>5, <1>6, <2>1, <2>4, <2>5, <2>6, <2>7, PromiseRefund
  <2> QED
    BY <2>8
<1> QED
    BY <1>9, <1>10

(* The steps that any client's behaviour has, but for a new permit.        *)
LEMMA PromiseClient ==
    ASSUME TypeOK, LedgerInv, RefundInv,
           \/ \E r \in Runs : ClientPresent(r) \/ CallStep(r)
           \/ WorldStep
           \/ UNCHANGED vars
    PROVE  [Boundary!BoundaryNext]_Boundary!boundaryVars
<1>1. ASSUME UNCHANGED <<permits, mutation_log>>, Refunded' = Refunded
      PROVE  UNCHANGED Boundary!boundaryVars
    BY <1>1, PromiseStutters DEF Grants, Ledger
<1>2. ASSUME NEW r \in Runs,
             ClientPresent(r) \/ Resolve(r) \/ Lookup(r) \/ CommitStale(r)
               \/ CommitConflict(r) \/ Respond(r)
      PROVE  UNCHANGED <<permits, mutation_log, payments>>
    BY <1>2 DEF ClientPresent, Load, Resolve, Lookup, CommitStale, CommitConflict, Respond, storeVars
<1>3. ASSUME WorldStep PROVE UNCHANGED <<permits, mutation_log>> /\ Refunded' = Refunded
  <2>1. ASSUME NEW e \in Orders, EditPayment(e) PROVE Refunded' = Refunded
    <3>1. PICK status \in {payments[e].status} \cup ({"REFUNDED"} \cap Statuses),
               captured \in CapturedCents, version \in NextVersion(payments[e].version) :
                payments' = [payments EXCEPT ![e].status = status,
                                             ![e].captured = captured,
                                             ![e].version = version]
      BY <2>1, Zenon DEF EditPayment
    <3>2. /\ e \in DOMAIN payments
          /\ payments \in [DOMAIN payments -> PaymentRow]
          /\ payments[e] \in PaymentRow
      BY <2>1 DEF EditPayment, TypeOK, StoreTypeOK, IsTable
    <3>3. /\ DOMAIN payments' = DOMAIN payments
          /\ \A o \in DOMAIN payments : o # e => payments'[o] = payments[o]
          /\ payments'[e].refunded = payments[e].refunded
      BY <3>1, <3>2 DEF PaymentRow
    <3> QED
      BY <3>2, <3>3 DEF Refunded
  <2> QED
    BY <1>3, <2>1
    DEF WorldStep, EditOrder, EditPayment, EditShipment, Tick, ledgerVars, resourceVars, Refunded
<1>4. ASSUME UNCHANGED vars PROVE UNCHANGED <<permits, mutation_log, payments>>
    BY <1>4 DEF vars, storeVars
<1>5. ASSUME UNCHANGED payments PROVE Refunded' = Refunded
    BY <1>5 DEF Refunded
<1> QED
    BY <1>1, <1>2, <1>3, <1>4, <1>5, PromiseCommit DEF CallStep

LEMMA PromiseNext ==
    TypeOK /\ LedgerInv /\ RefundInv /\ [Next]_vars
        => [Boundary!BoundaryNext]_Boundary!boundaryVars
<1> SUFFICES ASSUME TypeOK, LedgerInv, RefundInv, [Next]_vars
             PROVE  [Boundary!BoundaryNext]_Boundary!boundaryVars
    OBVIOUS
<1>1. ASSUME NEW r \in Runs, Present(r) PROVE ClientPresent(r)
    BY <1>1, PresentIsClient
<1> QED
    BY <1>1, PromiseIssue, PromiseClient DEF Next

(* Executor implements PermitBoundary: the keys, records, versions and     *)
(* flags of execute() and _commit amount to no more than this, that a      *)
(* grant is spent at most once and within its ceiling, and that a payment  *)
(* is paid back at most once and by what the ledger says.                  *)
THEOREM PromiseKept == Spec => KeepsPromise
<1>1. Init => Boundary!BoundaryInit
    BY PromiseInit
<1>2. Init => TypeOK /\ LedgerInv /\ RefundInv
    BY InitTypes, LedgerInvInit, RefundInvInit
<1>3. TypeOK /\ LedgerInv /\ RefundInv /\ [Next]_vars
        => TypeOK' /\ LedgerInv' /\ RefundInv'
    BY NextTypes, LedgerInvNext, RefundInvNext
<1>4. TypeOK /\ LedgerInv /\ RefundInv /\ [Next]_vars
        => [Boundary!BoundaryNext]_Boundary!boundaryVars
    BY PromiseNext
<1> QED
    BY <1>1, <1>2, <1>3, <1>4, PTL DEF Spec, KeepsPromise, Boundary!BoundarySpec
=============================================================================
