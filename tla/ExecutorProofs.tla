--------------------------- MODULE ExecutorProofs ---------------------------
(***************************************************************************)
(* What the executor keeps and writes, proved for any orders, runs,        *)
(* amounts, clock and TTL: the state keeps its types, the tables agree, no *)
(* row goes beyond its permit, a payment is refunded once, and what a      *)
(* caller is told is so.                                                   *)
(*                                                                         *)
(* LedgerAgrees and RefundedOnce speak of tables only, and a commit acts   *)
(* on what its call read several steps earlier.  They become inductive     *)
(* with what a call in progress still knows (CallKnown, CallPinned) and    *)
(* with keys that are derived from permit ids (PermitsKnown, RowsKnown).   *)
(***************************************************************************)
EXTENDS Executor, TLAPS, FiniteSetTheorems


-----------------------------------------------------------------------------
(* Tables.                                                                 *)

(* A table stays a table when a row of its type is inserted.               *)
LEMMA TableInsert ==
    ASSUME NEW K, NEW R, NEW table, NEW key \in K, NEW row \in R, IsTable(table, K, R)
    PROVE  IsTable(InsertRow(table, key, row), K, R)
    BY DEF IsTable, InsertRow

(* A table stays a table when a row of it is replaced by one of its type.  *)
LEMMA TableUpdate ==
    ASSUME NEW K, NEW R, NEW table, NEW key \in DOMAIN table, NEW row \in R,
           IsTable(table, K, R)
    PROVE  IsTable([table EXCEPT ![key] = row], K, R)
    BY DEF IsTable

-----------------------------------------------------------------------------
(* Type correctness.                                                       *)

(* The rows a seeded world starts with have their types.                   *)
LEMMA InitTypes == Init => TypeOK
<1> SUFFICES ASSUME Init PROVE TypeOK
    OBVIOUS
<1>1. StoreTypeOK
  <2> USE DEF Init, StoreInit
  <2>1. now \in 0..MaxNow
    BY StoreAssumption
  <2>2. IsTable(orders, Orders, OrderRow)
    <3> DEFINE R == [status : OrderStatus \cap Statuses,
                     delivered : DeliveryTimes \cup {NULL}, version : {1}]
    <3>1. R \subseteq OrderRow
      <4>1. OrderStatus \cap Statuses \subseteq OrderStatus /\ {1} \subseteq Nat
        OBVIOUS
      <4>2. DeliveryTimes \subseteq Int
        BY StoreAssumption
      <4>3. DeliveryTimes \cup {NULL} \subseteq Int \cup {NULL}
        BY <4>2, Zenon
      <4> QED
        BY <4>1, <4>3, Zenon DEF OrderRow
    <3>2. PICK known \in SUBSET Orders : orders \in [known -> R]
      OBVIOUS
    <3> HIDE DEF R
    <3> QED
      BY <3>1, <3>2 DEF IsTable
  <2>3. IsTable(payments, Orders, PaymentRow)
    <3> DEFINE R == [status : PaymentStatus \cap Statuses, captured : CapturedCents,
                     refunded : {0}, version : {1}]
    <3>1. R \subseteq PaymentRow
      <4>1. /\ PaymentStatus \cap Statuses \subseteq PaymentStatus
            /\ CapturedCents \subseteq Nat
            /\ {0} \subseteq Nat
            /\ {1} \subseteq Nat
        BY StoreAssumption
      <4> QED
        BY <4>1, Zenon DEF PaymentRow
    <3>2. payments \in [DOMAIN orders -> R]
      OBVIOUS
    <3> HIDE DEF R
    <3> QED
      BY <2>2, <3>1, <3>2 DEF IsTable
  <2>4. IsTable(shipments, Orders, ShipmentRow)
    BY <2>2 DEF IsTable, ShipmentRow
  <2>5. /\ IsTable(permits, PermitIds, PermitRow)
        /\ IsTable(records, Keys, StoredResult)
        /\ IsTable(refunds, PermitIds, RefundRow)
        /\ IsTable(tickets, PermitIds, TicketRow)
    BY DEF IsTable, EmptyTable
  <2>6. mutation_log \in Seq(LogRow)
    OBVIOUS
  <2> QED
    BY <2>1, <2>2, <2>3, <2>4, <2>5, <2>6 DEF StoreTypeOK
<1>2. ExecutorInit
    BY DEF Init
<1>3. QED
    BY <1>1, <1>2 DEF TypeOK, ExecutorInit, Phases

(* Issuing a permit, whatever its caller read, keeps the types.            *)
LEMMA IssueTypes ==
    ASSUME TypeOK, NEW r \in Runs, NEW action \in ActionName, NEW o \in Orders,
           NEW version \in Nat, NEW max \in Nat,
           IssuePermit(r, action, o, version, max),
           UNCHANGED <<phase, call, answer, emitted, calls>>
    PROVE  TypeOK'
<1> DEFINE seq == sequence[r] + 1
           row == NewPermit(action, o, version, max, seq, r)
<1>1. seq \in Nat /\ <<r, seq>> \in PermitIds
    BY DEF TypeOK, PermitIds
<1>2. ResourceOf(action, o) \in Resources
    BY DEF ResourceOf, Order, Payment, Resources
<1>3. row \in PermitRow
  <2>1. <<<<r, seq>>, action, ResourceOf(action, o)>> \in Keys
    BY <1>1, <1>2 DEF Keys
  <2>2. now + PermitTTL \in Nat
    BY StoreAssumption, ExecutorAssumption DEF TypeOK, StoreTypeOK
  <2> HIDE DEF seq
  <2> QED
    BY <1>2, <2>1, <2>2 DEF NewPermit, PermitRow, IdempotencyKeyFor
<1>4. IsTable(permits', PermitIds, PermitRow)
  <2> HIDE DEF row
  <2>1. permits' = InsertRow(permits, <<r, seq>>, row)
    BY DEF IssuePermit, row
  <2> HIDE DEF seq
  <2> QED
    BY <1>1, <1>3, <2>1, TableInsert DEF TypeOK, StoreTypeOK
<1>5. sequence' \in [Runs -> Nat]
    BY <1>1 DEF IssuePermit, TypeOK
<1>6. UNCHANGED <<now, orders, payments, shipments, records, refunds, tickets, mutation_log>>
    BY DEF IssuePermit, resourceVars
<1> QED
    BY <1>4, <1>5, <1>6 DEF TypeOK, StoreTypeOK

(* What the world does between two steps keeps the types.                  *)
LEMMA WorldTypes ==
    ASSUME TypeOK, WorldStep, UNCHANGED executorVars
    PROVE  TypeOK'
<1> SUFFICES StoreTypeOK'
    BY DEF TypeOK, executorVars
<1> USE DEF TypeOK, StoreTypeOK
<1>1. ASSUME NEW o \in Orders, EditOrder(o)
      PROVE  StoreTypeOK'
  <2>1. PICK status \in OrderStatus \cap Statuses, delivered \in DeliveryTimes \cup {NULL},
             version \in NextVersion(orders[o].version) :
                orders' = [orders EXCEPT ![o] =
                    [status |-> status, delivered |-> delivered, version |-> version]]
    BY <1>1 DEF EditOrder
  <2>2. o \in DOMAIN orders /\ orders[o] \in OrderRow
    BY <1>1 DEF EditOrder, IsTable
  <2>3. version \in Nat
    BY <2>2 DEF NextVersion, OrderRow
  <2>4. [status |-> status, delivered |-> delivered, version |-> version] \in OrderRow
    BY <2>3, StoreAssumption DEF OrderRow
  <2>5. IsTable(orders', Orders, OrderRow)
    BY <2>1, <2>2, <2>4, TableUpdate
  <2> QED
    BY <1>1, <2>5 DEF EditOrder, ledgerVars
<1>2. ASSUME NEW o \in Orders, EditPayment(o)
      PROVE  StoreTypeOK'
  <2>1. PICK status \in {payments[o].status} \cup ({"REFUNDED"} \cap Statuses),
             captured \in CapturedCents,
             version \in NextVersion(payments[o].version) :
                payments' = [payments EXCEPT ![o].status = status,
                                             ![o].captured = captured,
                                             ![o].version = version]
    BY <1>2 DEF EditPayment
  <2>2. o \in DOMAIN payments /\ payments[o] \in PaymentRow
    BY <1>2 DEF EditPayment, IsTable
  <2>3. version \in Nat
    BY <2>2 DEF NextVersion, PaymentRow
  <2>4. status \in PaymentStatus
    BY <2>2 DEF PaymentRow, PaymentStatus
  <2> DEFINE row == [payments[o] EXCEPT !.status = status, !.captured = captured,
                                        !.version = version]
  <2>5. row \in PaymentRow
    BY <2>2, <2>3, <2>4, StoreAssumption DEF PaymentRow
  <2>6. payments' = [payments EXCEPT ![o] = row]
    BY <2>1
  <2> HIDE DEF row
  <2>7. IsTable(payments', Orders, PaymentRow)
    BY <2>2, <2>5, <2>6, TableUpdate
  <2> QED
    BY <1>2, <2>7 DEF EditPayment, ledgerVars
<1>3. ASSUME NEW o \in Orders, EditShipment(o)
      PROVE  StoreTypeOK'
  <2>1. PICK status \in ShipmentStatus \cap Statuses,
             version \in NextVersion(shipments[o].version) :
                shipments' = [shipments EXCEPT ![o] =
                    [status |-> status, version |-> version]]
    BY <1>3 DEF EditShipment
  <2>2. o \in DOMAIN shipments /\ shipments[o] \in ShipmentRow
    BY <1>3 DEF EditShipment, IsTable
  <2>3. [status |-> status, version |-> version] \in ShipmentRow
    BY <2>2 DEF NextVersion, ShipmentRow
  <2>4. IsTable(shipments', Orders, ShipmentRow)
    BY <2>1, <2>2, <2>3, TableUpdate
  <2> QED
    BY <1>3, <2>4 DEF EditShipment, ledgerVars
<1>4. ASSUME Tick PROVE StoreTypeOK'
  <2>1. now' \in 0..MaxNow
    BY <1>4, StoreAssumption DEF Tick
  <2> QED
    BY <1>4, <2>1 DEF Tick, resourceVars, ledgerVars
<1> QED
    BY <1>1, <1>2, <1>3, <1>4 DEF WorldStep

(* The part of TypeOK that the steps of a call change.                     *)
CallTypeOK ==
    /\ phase \in [Runs -> Phases]
    /\ call \in [Runs -> CallRecord \cup {NoCall}]
    /\ \A r \in Runs : phase[r] = "idle" <=> call[r] = NoCall
    /\ answer \in [Runs -> AnswerRecord \cup {NULL}]

(* A call that has begun has its permit, proposal and row in hand.         *)
LEMMA InHand ==
    ASSUME CallTypeOK, NEW r \in Runs, phase[r] # "idle"
    PROVE  /\ call[r] \in CallRecord
           /\ call[r].permit \in PermitIds
           /\ call[r].proposal \in Proposals(ActionName, Nat)
           /\ call[r].proposal.action \in ActionName
           /\ call[r].proposal.order \in Orders
           /\ AmountOf(call[r].proposal) \in Nat
           /\ call[r].row \in PermitRow
           /\ call[r].target \in Target \cup {NULL}
<1>1. call[r] \in CallRecord
    BY DEF CallTypeOK
<1>2. call[r].proposal \in Proposals(ActionName, Nat)
    BY <1>1 DEF CallRecord
<1>3. AmountOf(call[r].proposal) \in Nat
    BY <1>2 DEF Proposals, AmountOf
<1> QED
    BY <1>1, <1>2, <1>3 DEF CallRecord, Proposals

(* No call record is the empty one: a permit id is never None.             *)
LEMMA CallIsNotEmpty == CallRecord \cap {NoCall} = {}
    BY NullAssumption DEF CallRecord, NoCall, PermitIds

(* The end of a call keeps the types of its locals.                        *)
LEMMA FinishTypes ==
    ASSUME CallTypeOK, NEW r \in Runs, phase[r] # "idle",
           NEW kind \in AnswerKinds,
           NEW reason \in RejectionReasons \cup {"idempotent_replay", NULL},
           NEW result \in StoredResult \cup {NULL},
           Finish(r, kind, reason, result)
    PROVE  CallTypeOK'
<1> USE DEF CallTypeOK
<1> DEFINE a == Answer(kind, reason, result, call[r].permit, call[r].row.used)
<1>1. call[r].permit \in PermitIds /\ call[r].row.used \in BOOLEAN
    BY InHand DEF PermitRow
<1>2. a \in AnswerRecord
    BY <1>1 DEF Answer, AnswerRecord
<1> HIDE DEF a
<1>3. /\ answer' = [answer EXCEPT ![r] = a]
      /\ phase' = [phase EXCEPT ![r] = "idle"]
      /\ call' = [call EXCEPT ![r] = NoCall]
    BY DEF Finish, a
<1>4. /\ phase' \in [Runs -> Phases]
      /\ call' \in [Runs -> CallRecord \cup {NoCall}]
      /\ answer' \in [Runs -> AnswerRecord \cup {NULL}]
    BY <1>2, <1>3 DEF Phases
<1>5. \A q \in Runs : phase'[q] = "idle" <=> call'[q] = NoCall
    BY <1>3
<1> QED
    BY <1>4, <1>5

(* The target of a proposal has its type.                                  *)
LEMMA TargetTypes ==
    ASSUME StoreTypeOK, NEW proposal \in Proposals(ActionName, Nat)
    PROVE  ResolveTarget(proposal) \in Target \cup {NULL}
<1> DEFINE o == proposal.order
<1>1. o \in Orders
    BY DEF Proposals
<1>2. /\ o \in DOMAIN payments => payments[o] \in PaymentRow
      /\ o \in DOMAIN orders => orders[o] \in OrderRow
    BY DEF StoreTypeOK, IsTable
<1>3. o \in DOMAIN payments =>
        [resource |-> Payment(o), version |-> payments[o].version,
         status |-> payments[o].status] \in Target
    BY <1>1, <1>2 DEF PaymentRow, Target, Payment, Resources
<1>4. o \in DOMAIN orders =>
        [resource |-> Order(o), version |-> orders[o].version,
         status |-> orders[o].status] \in Target
    BY <1>1, <1>2 DEF OrderRow, Target, Order, Resources
<1> QED
    BY <1>3, <1>4 DEF ResolveTarget

(* The result a commit stores has its type.                                *)
LEMMA ResultTypes ==
    ASSUME NEW p \in PermitIds, NEW permit \in PermitRow,
           NEW proposal \in Proposals(ActionName, Nat)
    PROVE  ResultOf(p, permit, proposal) \in StoredResult
<1>1. AmountMoved(proposal) \in Nat
    BY DEF AmountMoved, AmountOf, Proposals
<1>2. CreatedId(proposal.action, p) \in PermitIds \cup {NULL}
    BY DEF CreatedId
<1>3. proposal.action \in ActionName /\ permit.resource \in Resources
    BY DEF Proposals, PermitRow
<1> QED
    BY <1>1, <1>2, <1>3 DEF ResultOf, StoredResult

(* Presenting a permit, known or not, keeps the types.                     *)
LEMMA LoadTypes ==
    ASSUME TypeOK, NEW r \in Runs, NEW p \in PermitIds \cup {NULL},
           NEW proposal \in Proposals(ActionName, Nat), Load(r, p, proposal)
    PROVE  CallTypeOK' /\ StoreTypeOK' /\ UNCHANGED <<sequence, emitted>>
<1> DEFINE row == IF p \in DOMAIN permits THEN permits[p] ELSE NULL
<1> USE DEF TypeOK, CallTypeOK
<1>1. StoreTypeOK' /\ UNCHANGED <<sequence, emitted>>
    BY DEF Load, storeVars, StoreTypeOK, IsTable
<1>2. CASE row # NULL /\ row.action = proposal.action
  <2> DEFINE c == [permit |-> p, proposal |-> proposal, row |-> row, target |-> NULL]
  <2>1. p \in DOMAIN permits /\ p \in PermitIds /\ row \in PermitRow
    BY <1>2 DEF StoreTypeOK, IsTable
  <2>2. c \in CallRecord
    BY <2>1 DEF CallRecord
  <2>3. /\ phase' = [phase EXCEPT ![r] = "resolve"]
        /\ call' = [call EXCEPT ![r] = c]
        /\ answer' = [answer EXCEPT ![r] = NULL]
    BY <1>2 DEF Load, GoTo
  <2> HIDE DEF c
  <2>4. /\ phase' \in [Runs -> Phases]
        /\ call' \in [Runs -> CallRecord \cup {NoCall}]
        /\ answer' \in [Runs -> AnswerRecord \cup {NULL}]
    BY <2>2, <2>3 DEF Phases
  <2>5. \A q \in Runs : phase'[q] = "idle" <=> call'[q] = NoCall
    BY <2>2, <2>3, CallIsNotEmpty
  <2> QED
    BY <1>1, <2>4, <2>5
<1>3. CASE ~(row # NULL /\ row.action = proposal.action)
  <2> DEFINE a == IF row = NULL
                    THEN Answer("rejected", "permit_missing", NULL, p, FALSE)
                    ELSE Answer("rejected", "permit_action_mismatch", NULL, p, row.used)
  <2>1. row # NULL => row.used \in BOOLEAN
    BY DEF StoreTypeOK, IsTable, PermitRow
  <2>2. a \in AnswerRecord
    BY <2>1 DEF Answer, AnswerRecord, AnswerKinds, RejectionReasons
  <2>3. answer' = [answer EXCEPT ![r] = a] /\ UNCHANGED <<phase, call>>
    BY <1>3 DEF Load
  <2> HIDE DEF a
  <2> QED
    BY <1>1, <2>2, <2>3
<1> QED
    BY <1>2, <1>3

(* Going on inside a call keeps the types.                                 *)
LEMMA ProceedTypes ==
    ASSUME CallTypeOK, NEW r \in Runs, phase[r] # "idle",
           NEW next \in Phases \ {"idle"}, GoTo(r, next), NEW c \in CallRecord,
           call' = [call EXCEPT ![r] = c], UNCHANGED answer
    PROVE  CallTypeOK'
<1> USE DEF CallTypeOK
<1>1. phase' = [phase EXCEPT ![r] = next]
    BY DEF GoTo
<1>2. phase' \in [Runs -> Phases] /\ call' \in [Runs -> CallRecord \cup {NoCall}]
    BY <1>1
<1>3. \A q \in Runs : phase'[q] = "idle" <=> call'[q] = NoCall
    BY <1>1, CallIsNotEmpty
<1> QED
    BY <1>2, <1>3

(* Checks 3 and 4 keep the types.                                          *)
LEMMA ResolveTypes ==
    ASSUME TypeOK, NEW r \in Runs, Resolve(r)
    PROVE  CallTypeOK'
<1> DEFINE target == ResolveTarget(call[r].proposal)
<1>1. CallTypeOK /\ StoreTypeOK /\ phase[r] # "idle"
    BY DEF TypeOK, CallTypeOK, Resolve
<1>2. target \in Target \cup {NULL}
    BY <1>1, InHand, TargetTypes
<1>3. \A reason \in {"permit_resource_mismatch", "permit_expired"} :
            Reject(r, reason) => CallTypeOK'
    BY <1>1, FinishTypes DEF Reject, AnswerKinds, RejectionReasons
<1>4. ASSUME GoTo(r, "lookup"), call' = [call EXCEPT ![r].target = target],
             UNCHANGED answer
      PROVE  CallTypeOK'
  <2> DEFINE c == [call[r] EXCEPT !.target = target]
  <2>1. c \in CallRecord
    BY <1>1, <1>2, InHand DEF CallRecord
  <2>2. call' = [call EXCEPT ![r] = c]
    BY <1>4
  <2> HIDE DEF c
  <2> QED
    BY <1>1, <1>4, <2>1, <2>2, ProceedTypes DEF Phases
<1> HIDE DEF target
<1> QED
    BY <1>3, <1>4 DEF Resolve, target

(* Checks 5 to 9 fail for one of the reasons the schema lists.             *)
LEMMA FailureHasReason ==
    ASSUME NEW permit, NEW proposal, NEW target
    PROVE  FirstFailedCheck(permit, proposal, target) \in
                {"permit_already_used", "permit_amount_exceeded",
                 "stale_resource_version", "transition_not_allowed", NULL}
    BY DEF FirstFailedCheck

(* The lookup of the stored result keeps the types.                        *)
LEMMA LookupTypes ==
    ASSUME TypeOK, NEW r \in Runs, Lookup(r)
    PROVE  CallTypeOK'
<1> DEFINE permit == call[r].row
           stored == permit.key \in DOMAIN records
           failed == FirstFailedCheck(permit, call[r].proposal, call[r].target)
<1>1. CallTypeOK /\ StoreTypeOK /\ phase[r] # "idle"
    BY DEF TypeOK, CallTypeOK, Lookup
<1>2. ASSUME stored, Finish(r, "replayed", "idempotent_replay", records[permit.key])
      PROVE  CallTypeOK'
  <2>1. records[permit.key] \in StoredResult
    BY <1>1, <1>2 DEF StoreTypeOK, IsTable
  <2> QED
    BY <1>1, <1>2, <2>1, FinishTypes DEF AnswerKinds
<1>3. ASSUME failed # NULL, Reject(r, failed)
      PROVE  CallTypeOK'
  <2>1. failed \in RejectionReasons
    BY <1>3, FailureHasReason DEF RejectionReasons
  <2> QED
    BY <1>1, <1>3, <2>1, FinishTypes DEF Reject, AnswerKinds
<1>4. ASSUME GoTo(r, "commit"), UNCHANGED <<call, answer>>
      PROVE  CallTypeOK'
  <2>1. call' = [call EXCEPT ![r] = call[r]] /\ call[r] \in CallRecord
    BY <1>1, <1>4, InHand DEF CallTypeOK
  <2> QED
    BY <1>1, <1>4, <2>1, ProceedTypes DEF Phases
<1> QED
    BY <1>2, <1>3, <1>4 DEF Lookup

(* A row of the ledger has its type.                                       *)
LEMMA LogTypes ==
    ASSUME mutation_log \in Seq(LogRow), NEW run \in Runs, NEW action \in ActionName,
           NEW resource \in Resources, NEW amount \in Nat, NEW p \in PermitIds,
           LogMutation(run, action, resource, amount, p)
    PROVE  mutation_log' \in Seq(LogRow)
<1> DEFINE row == [run |-> run, action |-> action, resource |-> resource,
                   amount |-> amount, by |-> p]
<1>1. row \in LogRow
    BY DEF LogRow
<1>2. mutation_log' = Append(mutation_log, row)
    BY DEF LogMutation
<1> HIDE DEF row
<1> QED
    BY <1>1, <1>2

(* The write tools keep the types of the tables they write.                *)
LEMMA WriteTypes ==
    ASSUME StoreTypeOK, NEW r \in Runs, NEW p \in PermitIds, NEW permit \in PermitRow,
           NEW proposal \in Proposals(ActionName, Nat), WriteTool(r, p, permit, proposal)
    PROVE  /\ IsTable(orders', Orders, OrderRow)
           /\ IsTable(payments', Orders, PaymentRow)
           /\ IsTable(shipments', Orders, ShipmentRow)
           /\ IsTable(refunds', PermitIds, RefundRow)
           /\ IsTable(tickets', PermitIds, TicketRow)
           /\ mutation_log' \in Seq(LogRow)
<1> DEFINE o == proposal.order
           amount == AmountOf(proposal)
<1>1. /\ o \in Orders
      /\ amount \in Nat
      /\ Order(o) \in Resources
      /\ Payment(o) \in Resources
    BY DEF Proposals, AmountOf, Order, Payment, Resources
<1>2. CASE CancelOrder(r, p, o, permit.version)
  <2>1. o \in DOMAIN orders /\ orders[o] \in OrderRow
    BY <1>2 DEF CancelOrder, OrderAtVersion, StoreTypeOK, IsTable
  <2>2. IsTable(orders', Orders, OrderRow)
    <3> DEFINE row == [orders[o] EXCEPT !.status = "CANCELLED",
                                        !.version = orders[o].version + 1]
    <3>0. orders[o].version + 1 \in Nat /\ "CANCELLED" \in OrderStatus
      BY <2>1 DEF OrderRow, OrderStatus
    <3>1. row \in OrderRow
      BY <2>1, <3>0, Zenon DEF OrderRow
    <3>2. orders' = [orders EXCEPT ![o] = row]
      BY <1>2, <2>1 DEF CancelOrder
    <3> HIDE DEF row
    <3> QED
      BY <2>1, <3>1, <3>2, TableUpdate DEF StoreTypeOK
  <2>3. IsTable(shipments', Orders, ShipmentRow)
    <3>1. CASE o \in DOMAIN shipments
               /\ shipments[o].status \in CancellableShipmentStatuses
      <4> DEFINE row == [status |-> "CANCELLED", version |-> shipments[o].version + 1]
      <4>1. shipments[o] \in ShipmentRow
        BY <3>1 DEF StoreTypeOK, IsTable
      <4>2. row \in ShipmentRow
        BY <4>1 DEF ShipmentRow, ShipmentStatus
      <4>3. shipments' = [shipments EXCEPT ![o] = row]
        BY <1>2, <3>1 DEF CancelOrder, CancelShipmentOf
      <4> HIDE DEF row
      <4> QED
        BY <3>1, <4>2, <4>3, TableUpdate DEF StoreTypeOK
    <3>2. CASE ~(o \in DOMAIN shipments
                 /\ shipments[o].status \in CancellableShipmentStatuses)
      BY <1>2, <3>2 DEF CancelOrder, CancelShipmentOf, StoreTypeOK
    <3> QED
      BY <3>1, <3>2
  <2>4. mutation_log' \in Seq(LogRow)
    BY <1>1, <1>2, LogTypes DEF CancelOrder, StoreTypeOK, ActionName
  <2> QED
    BY <1>2, <2>2, <2>3, <2>4 DEF CancelOrder, StoreTypeOK
<1>3. CASE IssueRefund(r, p, o, amount, permit.version)
  <2>1. o \in DOMAIN payments /\ payments[o] \in PaymentRow
    BY <1>3 DEF IssueRefund, PaymentAtVersion, StoreTypeOK, IsTable
  <2>2. IsTable(payments', Orders, PaymentRow)
    <3> DEFINE row == [payments[o] EXCEPT !.status = "REFUNDED",
                                          !.refunded = payments[o].refunded + amount,
                                          !.version = payments[o].version + 1]
    <3>0. /\ payments[o].version + 1 \in Nat
          /\ payments[o].refunded + amount \in Nat
          /\ "REFUNDED" \in PaymentStatus
      BY <1>1, <2>1 DEF PaymentRow, PaymentStatus
    <3>1. row \in PaymentRow
      BY <2>1, <3>0, Zenon DEF PaymentRow
    <3>2. payments' = [payments EXCEPT ![o] = row]
      BY <1>3, <2>1 DEF IssueRefund
    <3> HIDE DEF row
    <3> QED
      BY <2>1, <3>1, <3>2, TableUpdate DEF StoreTypeOK
  <2>3. IsTable(refunds', PermitIds, RefundRow)
    <3>1. [order |-> o, amount |-> amount] \in RefundRow
      BY <1>1 DEF RefundRow
    <3> QED
      BY <1>3, <3>1, TableInsert DEF IssueRefund, StoreTypeOK
  <2>4. mutation_log' \in Seq(LogRow)
    BY <1>1, <1>3, LogTypes DEF IssueRefund, StoreTypeOK, ActionName
  <2> QED
    BY <1>3, <2>2, <2>3, <2>4 DEF IssueRefund, StoreTypeOK
<1>4. CASE CreateSupportTicket(r, p, o)
  <2>1. IsTable(tickets', PermitIds, TicketRow)
    <3>1. [order |-> o] \in TicketRow
      BY <1>1 DEF TicketRow
    <3> QED
      BY <1>4, <3>1, TableInsert DEF CreateSupportTicket, StoreTypeOK
  <2>2. mutation_log' \in Seq(LogRow)
    BY <1>1, <1>4, LogTypes DEF CreateSupportTicket, StoreTypeOK, ActionName
  <2> QED
    BY <1>4, <2>1, <2>2 DEF CreateSupportTicket, StoreTypeOK
<1> QED
    BY <1>2, <1>3, <1>4 DEF WriteTool

(* A commit keeps the types.                                               *)
LEMMA CommitTypes ==
    ASSUME TypeOK, NEW r \in Runs, Commit(r)
    PROVE  TypeOK'
<1> DEFINE p == call[r].permit
           permit == call[r].row
           proposal == call[r].proposal
           result == ResultOf(p, permit, proposal)
<1>1. CallTypeOK /\ StoreTypeOK /\ phase[r] # "idle"
    BY DEF TypeOK, CallTypeOK, Commit
<1>2. /\ call[r] \in CallRecord
      /\ p \in PermitIds
      /\ permit \in PermitRow
      /\ proposal \in Proposals(ActionName, Nat)
    BY <1>1, InHand
<1>3. result \in StoredResult
    BY <1>2, ResultTypes
<1>4. IsTable(records', Keys, StoredResult)
  <2>1. permit.key \in Keys
    BY <1>2 DEF PermitRow
  <2> HIDE DEF result
  <2>2. records' = InsertRow(records, permit.key, result)
    BY DEF Commit, result
  <2> QED
    BY <1>1, <1>3, <2>1, <2>2, TableInsert DEF StoreTypeOK
<1>5. IsTable(permits', PermitIds, PermitRow)
  <2>1. CASE p \in DOMAIN permits
    <3> DEFINE row == [permits[p] EXCEPT !.used = TRUE]
    <3>1. row \in PermitRow
      BY <1>1, <2>1 DEF StoreTypeOK, IsTable, PermitRow
    <3>2. permits' = [permits EXCEPT ![p] = row]
      BY DEF Commit
    <3> HIDE DEF row
    <3> QED
      BY <1>1, <2>1, <3>1, <3>2, TableUpdate DEF StoreTypeOK
  <2>2. CASE p \notin DOMAIN permits
    BY <1>1, <2>2 DEF StoreTypeOK, IsTable, Commit
  <2> QED
    BY <2>1, <2>2
<1>6. StoreTypeOK'
  <2>1. WriteTool(r, p, permit, proposal) /\ UNCHANGED now
    BY DEF Commit
  <2>2. /\ IsTable(orders', Orders, OrderRow)
        /\ IsTable(payments', Orders, PaymentRow)
        /\ IsTable(shipments', Orders, ShipmentRow)
        /\ IsTable(refunds', PermitIds, RefundRow)
        /\ IsTable(tickets', PermitIds, TicketRow)
        /\ mutation_log' \in Seq(LogRow)
    BY <1>1, <1>2, <2>1, WriteTypes
  <2> QED
    BY <1>1, <1>4, <1>5, <2>1, <2>2 DEF StoreTypeOK
<1>7. CallTypeOK'
  <2>1. call' = [call EXCEPT ![r] = call[r]] /\ GoTo(r, "respond") /\ UNCHANGED answer
    BY <1>1 DEF Commit, CallTypeOK
  <2> QED
    BY <1>1, <1>2, <2>1, ProceedTypes DEF Phases
<1> QED
    BY <1>6, <1>7 DEF TypeOK, CallTypeOK, Commit

(* The two ways a commit is rolled back, and the answer to one that went   *)
(* through, keep the types.                                                *)
LEMMA EndTypes ==
    ASSUME TypeOK, NEW r \in Runs, CommitStale(r) \/ CommitConflict(r) \/ Respond(r)
    PROVE  CallTypeOK'
<1>1. CallTypeOK /\ phase[r] # "idle"
    BY DEF TypeOK, CallTypeOK, CommitStale, CommitConflict, Respond
<1>2. ASSUME CommitStale(r) PROVE CallTypeOK'
    BY <1>1, <1>2, FinishTypes DEF CommitStale, Reject, AnswerKinds, RejectionReasons
<1>3. ASSUME CommitConflict(r) PROVE CallTypeOK'
    BY <1>1, <1>3, FinishTypes DEF CommitConflict, AnswerKinds
<1>4. ASSUME Respond(r) PROVE CallTypeOK'
  <2> DEFINE result == ResultOf(call[r].permit, call[r].row, call[r].proposal)
  <2>1. result \in StoredResult
    BY <1>1, InHand, ResultTypes
  <2> HIDE DEF result
  <2>2. PICK kind \in {"committed", "lost"} : Finish(r, kind, NULL, result)
    BY <1>4 DEF Respond, result
  <2> QED
    BY <1>1, <2>1, <2>2, FinishTypes DEF AnswerKinds
<1> QED
    BY <1>2, <1>3, <1>4

(* Every step of a call keeps the types.                                   *)
LEMMA CallStepTypes ==
    ASSUME TypeOK, NEW r \in Runs, CallStep(r)
    PROVE  TypeOK'
<1>1. ASSUME Resolve(r) PROVE TypeOK'
    BY <1>1, ResolveTypes DEF TypeOK, CallTypeOK, Resolve, storeVars, StoreTypeOK, IsTable
<1>2. ASSUME Lookup(r) PROVE TypeOK'
    BY <1>2, LookupTypes DEF TypeOK, CallTypeOK, Lookup, storeVars, StoreTypeOK, IsTable
<1>3. ASSUME Commit(r) PROVE TypeOK'
    BY <1>3, CommitTypes
<1>4. ASSUME CommitStale(r) PROVE TypeOK'
    BY <1>4, EndTypes DEF TypeOK, CallTypeOK, CommitStale, storeVars, StoreTypeOK, IsTable
<1>5. ASSUME CommitConflict(r) PROVE TypeOK'
    BY <1>5, EndTypes DEF TypeOK, CallTypeOK, CommitConflict, storeVars, StoreTypeOK, IsTable
<1>6. ASSUME Respond(r) PROVE TypeOK'
  <2>1. emitted' \in [Runs -> Nat]
    BY <1>6 DEF Respond, TypeOK
  <2> QED
    BY <1>6, <2>1, EndTypes DEF TypeOK, CallTypeOK, Respond, storeVars, StoreTypeOK, IsTable
<1> QED
    BY <1>1, <1>2, <1>3, <1>4, <1>5, <1>6 DEF CallStep

(* A run may be handed any version its caller read: it is a natural.       *)
LEMMA VersionTypes ==
    ASSUME TypeOK, NEW action, NEW o
    PROVE  VersionOf(action, o) \in Nat
<1>1. /\ o \in DOMAIN payments => payments[o].version \in Nat
      /\ o \in DOMAIN orders => orders[o].version \in Nat
    BY DEF TypeOK, StoreTypeOK, IsTable, PaymentRow, OrderRow
<1> QED
    BY <1>1 DEF VersionOf

(* TypeOK is inductive.                                                    *)
LEMMA NextTypes == TypeOK /\ [Next]_vars => TypeOK'
<1> SUFFICES ASSUME TypeOK, [Next]_vars PROVE TypeOK'
    OBVIOUS
<1>1. ASSUME NEW r \in Runs, Issue(r) PROVE TypeOK'
  <2>1. PICK action \in Actions, o \in Orders, max \in Amounts :
            \E version \in 1..VersionOf(action, o) :
                IssuePermit(r, action, o, version, max)
    BY <1>1 DEF Issue
  <2>2. action \in ActionName /\ max \in Nat
    BY ExecutorAssumption
  <2>3. PICK version \in Nat : IssuePermit(r, action, o, version, max)
    BY <2>1, VersionTypes
  <2> QED
    BY <1>1, <2>2, <2>3, IssueTypes DEF Issue
<1>2. ASSUME NEW r \in Runs, Present(r) PROVE TypeOK'
  <2>1. PICK p \in DOMAIN permits \cup {NULL}, proposal \in Proposals(Actions, Amounts) :
            Load(r, p, proposal)
    BY <1>2 DEF Present
  <2>2. p \in PermitIds \cup {NULL}
    BY DEF TypeOK, StoreTypeOK, IsTable
  <2>3. proposal \in Proposals(ActionName, Nat)
    BY ExecutorAssumption, Zenon DEF Proposals
  <2>4. calls' \in [Runs -> Nat]
    BY <1>2 DEF Present, TypeOK
  <2> QED
    BY <2>1, <2>2, <2>3, <2>4, LoadTypes DEF TypeOK, CallTypeOK
<1>3. ASSUME NEW r \in Runs, CallStep(r) PROVE TypeOK'
    BY <1>3, CallStepTypes
<1>4. ASSUME WorldStep, UNCHANGED executorVars PROVE TypeOK'
    BY <1>4, WorldTypes
<1>5. ASSUME UNCHANGED vars PROVE TypeOK'
    BY <1>5 DEF vars, executorVars, storeVars, TypeOK, StoreTypeOK, IsTable
<1> QED
    BY <1>1, <1>2, <1>3, <1>4, <1>5 DEF Next

(* In every state of every execution rows, permits, calls and answers have *)
(* the types the schema and the enums give them (schemas.py, domain.py).   *)
THEOREM TypeCorrect == Spec => []TypeOK
<1>1. Init => TypeOK
    BY InitTypes
<1>2. TypeOK /\ [Next]_vars => TypeOK'
    BY NextTypes
<1> QED
    BY <1>1, <1>2, PTL DEF Spec

-----------------------------------------------------------------------------
(* The strengthenings of the ledger's invariants.                          *)


(* The key of a permit is derived from its id.  Nothing is said of the     *)
(* counter that ids are made from: a process that was started again counts *)
(* from zero, and the permits it issued before stay as they are.           *)
PermitsKnown ==
    \A p \in DOMAIN permits :
        permits[p].key = <<p, permits[p].action, permits[p].resource>>

(* Nothing was written for a permit that was not issued.                   *)
RowsKnown ==
    /\ \A k \in DOMAIN records : k[1] \in DOMAIN permits
    /\ DOMAIN refunds \subseteq DOMAIN permits
    /\ DOMAIN tickets \subseteq DOMAIN permits

(* What a call knows: its row is the permit's but for a used flag that may *)
(* have been set since, and the checks it has passed still hold of it.     *)
CallKnown(r) ==
    LET p == call[r].permit  row == call[r].row  proposal == call[r].proposal
    IN  /\ p \in DOMAIN permits
        /\ row.key = permits[p].key
        /\ row.action = permits[p].action
        /\ row.resource = permits[p].resource
        /\ row.version = permits[p].version
        /\ row.max = permits[p].max
        /\ row.used => permits[p].used
        /\ row.action = proposal.action
        /\ phase[r] \in {"lookup", "commit", "respond"} =>
                row.resource = ResourceOf(proposal.action, proposal.order)
        /\ phase[r] \in {"commit", "respond"} =>
                ~row.used /\ AmountOf(proposal) <= row.max
        /\ phase[r] = "respond" =>
                /\ row.key \in DOMAIN records
                /\ records[row.key] = ResultOf(p, row, proposal)

(* Every call in progress knows this.                                      *)
CallsKnown == \A r \in Runs : phase[r] # "idle" => CallKnown(r)

(* The ledger and everything a commit relies on when it adds to it.        *)
LedgerInv ==
    PermitsKnown /\ RowsKnown /\ CallsKnown /\ LedgerAgrees /\ EveryRowIsAuthorised

(* The target a refund call read is not newer than the payment, and older  *)
(* if it was seen CAPTURED and has been refunded since.                    *)
CallPinned(r) ==
    LET o == call[r].proposal.order  target == call[r].target
    IN  /\ o \in DOMAIN payments
        /\ target \in Target
        /\ target.version <= payments[o].version
        /\ target.status = "CAPTURED" /\ RefundRowsOf(o) # {} =>
                target.version < payments[o].version
        /\ phase[r] = "commit" =>
                target.version = call[r].row.version /\ target.status = "CAPTURED"

(* Every refund call past check 4 is pinned.                               *)
CallsPinned ==
    \A r \in Runs :
        phase[r] \in {"lookup", "commit"} /\ call[r].proposal.action = "issue_refund"
            => CallPinned(r)

(* The payments, and everything a refund relies on when it commits.        *)
RefundInv == CallsPinned /\ RefundedOnce

-----------------------------------------------------------------------------
(* The ledger invariant.                                                   *)

(* It holds of a world in which nothing has run.                           *)
LEMMA LedgerInvInit == Init => LedgerInv
<1> SUFFICES ASSUME Init PROVE LedgerInv
    OBVIOUS
<1>1. /\ DOMAIN permits = {} /\ DOMAIN records = {}
      /\ DOMAIN refunds = {} /\ DOMAIN tickets = {}
      /\ mutation_log = <<>> /\ DOMAIN mutation_log = {}
    BY DEF Init, StoreInit, EmptyTable
<1>2. \A r \in Runs : phase[r] = "idle"
    BY DEF Init, ExecutorInit
<1> QED
    BY <1>1, <1>2 DEF LedgerInv, PermitsKnown, RowsKnown, CallsKnown,
                      LedgerAgrees, EveryRowIsAuthorised

(* A step that leaves permits and ledger alone keeps it, if it keeps what  *)
(* the calls in progress know.                                             *)
LEMMA LedgerUntouched ==
    ASSUME LedgerInv, UNCHANGED <<permits, records, refunds, tickets, mutation_log>>,
           CallsKnown'
    PROVE  LedgerInv'
<1>1. PermitsKnown' /\ RowsKnown'
    BY DEF LedgerInv, PermitsKnown, RowsKnown
<1>2. LedgerAgrees'
    BY DEF LedgerInv, LedgerAgrees
<1>3. EveryRowIsAuthorised'
    BY DEF LedgerInv, EveryRowIsAuthorised
<1> QED
    BY <1>1, <1>2, <1>3 DEF LedgerInv

(* A step of one run that writes no table leaves what the others know.     *)
LEMMA OthersKnow ==
    ASSUME CallsKnown, NEW r \in Runs, UNCHANGED <<permits, records>>,
           \A q \in Runs \ {r} : phase'[q] = phase[q] /\ call'[q] = call[q],
           phase'[r] # "idle" => CallKnown(r)'
    PROVE  CallsKnown'
<1> SUFFICES ASSUME NEW q \in Runs, phase'[q] # "idle" PROVE CallKnown(q)'
    BY DEF CallsKnown
<1>1. CASE q = r
    BY <1>1
<1>2. CASE q # r
  <2>1. phase'[q] = phase[q] /\ call'[q] = call[q] /\ CallKnown(q)
    BY <1>2 DEF CallsKnown
  <2> QED
    BY <2>1 DEF CallKnown
<1> QED
    BY <1>1, <1>2

(* The end of a call.                                                      *)
LEMMA FinishKnown ==
    ASSUME TypeOK, CallsKnown, NEW r \in Runs, UNCHANGED <<permits, records>>,
           NEW kind, NEW reason, NEW result, Finish(r, kind, reason, result)
    PROVE  CallsKnown'
<1>1. phase' = [phase EXCEPT ![r] = "idle"] /\ call' = [call EXCEPT ![r] = NoCall]
    BY DEF Finish
<1>2. phase'[r] = "idle"
    BY <1>1 DEF TypeOK
<1>3. \A q \in Runs \ {r} : phase'[q] = phase[q] /\ call'[q] = call[q]
    BY <1>1 DEF TypeOK
<1> QED
    BY <1>2, <1>3, OthersKnow

(* execute() begins: the row just read is the permit's.                    *)
LEMMA LoadKnown ==
    ASSUME TypeOK, CallsKnown, NEW r \in Runs, NEW p, NEW proposal, Load(r, p, proposal)
    PROVE  CallsKnown'
<1> DEFINE row == IF p \in DOMAIN permits THEN permits[p] ELSE NULL
<1>1. UNCHANGED <<permits, records>>
    BY DEF Load, storeVars
<1>2. CASE row # NULL /\ row.action = proposal.action
  <2> DEFINE c == [permit |-> p, proposal |-> proposal, row |-> row, target |-> NULL]
  <2>1. p \in DOMAIN permits /\ row = permits[p]
    BY <1>2
  <2>2. phase' = [phase EXCEPT ![r] = "resolve"] /\ call' = [call EXCEPT ![r] = c]
    BY <1>2 DEF Load, GoTo
  <2>3. /\ phase'[r] = "resolve" /\ call'[r] = c
        /\ \A q \in Runs \ {r} : phase'[q] = phase[q] /\ call'[q] = call[q]
    BY <2>2 DEF TypeOK
  <2>4. CallKnown(r)'
    BY <1>1, <1>2, <2>1, <2>3 DEF CallKnown
  <2> QED
    BY <1>1, <2>3, <2>4, OthersKnow
<1>3. CASE ~(row # NULL /\ row.action = proposal.action)
  <2>1. UNCHANGED <<phase, call>>
    BY <1>3 DEF Load
  <2> QED
    BY <1>1, <2>1 DEF CallsKnown, CallKnown
<1> QED
    BY <1>2, <1>3

(* Check 3: the target found is the row the permit names.                  *)
LEMMA ResolveKnown ==
    ASSUME TypeOK, CallsKnown, NEW r \in Runs, Resolve(r)
    PROVE  CallsKnown'
<1> DEFINE target == ResolveTarget(call[r].proposal)
<1>1. UNCHANGED <<permits, records>> /\ CallKnown(r)
    BY DEF Resolve, storeVars, CallsKnown
<1>2. \A reason : Reject(r, reason) => CallsKnown'
    BY <1>1, FinishKnown DEF Reject
<1>3. ASSUME target # NULL, target.resource = call[r].row.resource,
             GoTo(r, "lookup"), call' = [call EXCEPT ![r].target = target]
      PROVE  CallsKnown'
  <2>1. target.resource = ResourceOf(call[r].proposal.action, call[r].proposal.order)
    BY <1>3 DEF ResolveTarget, ResourceOf
  <2>2. /\ phase'[r] = "lookup" /\ call'[r] = [call[r] EXCEPT !.target = target]
        /\ \A q \in Runs \ {r} : phase'[q] = phase[q] /\ call'[q] = call[q]
    BY <1>3 DEF TypeOK, GoTo
  <2>3. call[r] \in CallRecord
    BY InHand DEF TypeOK, CallTypeOK, Resolve
  <2>4. /\ call'[r].permit = call[r].permit
        /\ call'[r].row = call[r].row
        /\ call'[r].proposal = call[r].proposal
    BY <2>2, <2>3 DEF CallRecord
  <2>5. CallKnown(r)'
    BY <1>1, <1>3, <2>1, <2>2, <2>4, ZenonT(90) DEF CallKnown
  <2> QED
    BY <1>1, <2>2, <2>5, OthersKnow
<1> HIDE DEF target
<1> QED
    BY <1>2, <1>3 DEF Resolve, target

(* Checks 5 to 9: a call that reaches the commit has an unused permit row  *)
(* and asks for no more than its ceiling.                                  *)
LEMMA LookupKnown ==
    ASSUME TypeOK, CallsKnown, NEW r \in Runs, Lookup(r)
    PROVE  CallsKnown'
<1> DEFINE permit == call[r].row
           proposal == call[r].proposal
           failed == FirstFailedCheck(permit, proposal, call[r].target)
<1>1. UNCHANGED <<permits, records>> /\ CallKnown(r)
    BY DEF Lookup, storeVars, CallsKnown
<1>2. \A kind, reason, result : Finish(r, kind, reason, result) => CallsKnown'
    BY <1>1, FinishKnown
<1>3. ASSUME failed = NULL, GoTo(r, "commit"), UNCHANGED <<call, answer>>
      PROVE  CallsKnown'
  <2>1. phase[r] = "lookup" /\ permit \in PermitRow /\ AmountOf(proposal) \in Nat
    BY InHand DEF TypeOK, CallTypeOK, Lookup
  <2>2. ~permit.used /\ AmountOf(proposal) <= permit.max
    <3>1. NULL # "permit_already_used" /\ NULL # "permit_amount_exceeded"
      BY ReasonAssumption DEF RejectionReasons
    <3>2. ~permit.used
      BY <1>3, <3>1, Zenon DEF FirstFailedCheck
    <3>3. ~(AmountOf(proposal) > permit.max)
      BY <1>3, <3>1, <3>2, Zenon DEF FirstFailedCheck
    <3> QED
      BY <2>1, <3>2, <3>3 DEF PermitRow
  <2>3. /\ phase'[r] = "commit" /\ call' = call
        /\ \A q \in Runs \ {r} : phase'[q] = phase[q]
    BY <1>3 DEF TypeOK, GoTo
  <2>4. CallKnown(r)'
    BY <1>1, <2>1, <2>2, <2>3 DEF CallKnown
  <2> QED
    BY <1>1, <2>3, <2>4, OthersKnow
<1> QED
    BY <1>2, <1>3 DEF Lookup, Reject

(* A new permit has an id and a key that nothing was written under; one    *)
(* whose id is taken is not inserted.                                      *)
LEMMA IssueLedger ==
    ASSUME TypeOK, LedgerInv, NEW r \in Runs, NEW action \in ActionName,
           NEW o \in Orders, NEW version \in Nat, NEW max \in Nat,
           IssuePermit(r, action, o, version, max), UNCHANGED <<phase, call>>
    PROVE  LedgerInv'
<1> DEFINE p == <<r, sequence[r] + 1>>
           row == NewPermit(action, o, version, max, sequence[r] + 1, r)
<1> USE DEF LedgerInv
<1>1. /\ permits' = InsertRow(permits, p, row)
      /\ UNCHANGED <<records, refunds, tickets, mutation_log>>
    BY DEF IssuePermit
<1>2. CASE p \in DOMAIN permits
  <2>1. permits' = permits
    <3> HIDE DEF row, p
    <3>1. DOMAIN permits' = DOMAIN permits
      BY <1>1, <1>2 DEF InsertRow
    <3>2. \A q \in DOMAIN permits : permits'[q] = permits[q]
      BY <1>1 DEF InsertRow
    <3>3. permits' = [q \in DOMAIN permits |-> permits[q]]
      BY <1>1, <1>2, <3>1, <3>2, Zenon DEF InsertRow
    <3> QED
      BY <3>3 DEF TypeOK, StoreTypeOK, IsTable
  <2>2. CallsKnown'
    BY <1>1, <2>1 DEF CallsKnown, CallKnown
  <2> QED
    BY <1>1, <2>1, <2>2, LedgerUntouched
<1>3. CASE p \notin DOMAIN permits
  <2>1. /\ row.key = <<p, row.action, row.resource>>
        /\ row.used = FALSE
    BY DEF NewPermit, IdempotencyKeyFor
  <2> HIDE DEF row, p
  <2>2. /\ DOMAIN permits' = DOMAIN permits \cup {p}
        /\ \A q \in DOMAIN permits : permits'[q] = permits[q]
        /\ permits'[p] = row
    BY <1>1, <1>3, Zenon DEF InsertRow
  <2>3. row.key \notin DOMAIN records /\ p \notin DOMAIN refunds /\ p \notin DOMAIN tickets
    BY <1>3, <2>1 DEF RowsKnown
  <2>4. PermitsKnown'
    BY <2>1, <2>2 DEF PermitsKnown
  <2>5. RowsKnown'
    BY <1>1, <2>2 DEF RowsKnown
  <2>6. CallsKnown'
    BY <1>1, <2>2 DEF CallsKnown, CallKnown
  <2>7. LedgerAgrees'
    <3> DEFINE log == mutation_log
    <3>1. \A i \in DOMAIN log : log[i].by \in DOMAIN permits
      BY DEF LedgerAgrees
    <3>2. \A q \in DOMAIN permits' :
              (permits'[q].used \/ permits'[q].key \in DOMAIN records
                  \/ q \in DOMAIN refunds \/ q \in DOMAIN tickets)
              => q \in DOMAIN permits
      BY <2>1, <2>2, <2>3
    <3> QED
      BY <1>1, <2>2, <3>1, <3>2 DEF LedgerAgrees
  <2>8. EveryRowIsAuthorised'
    <3>1. \A i \in DOMAIN mutation_log : mutation_log[i].by \in DOMAIN permits
      BY DEF LedgerAgrees
    <3> QED
      BY <1>1, <2>2, <3>1 DEF EveryRowIsAuthorised
  <2> QED
    BY <2>4, <2>5, <2>6, <2>7, <2>8
<1> QED
    BY <1>2, <1>3

(* Whichever tool a commit runs, it logs one row for the permit's target,  *)
(* and creates a refund or a ticket for the actions that have one.         *)
LEMMA WriteLogs ==
    ASSUME NEW r, NEW p, NEW permit, NEW proposal,
           permit.resource = ResourceOf(proposal.action, proposal.order),
           WriteTool(r, p, permit, proposal)
    PROVE  /\ LogMutation(r, proposal.action, permit.resource, AmountMoved(proposal), p)
           /\ refunds' = IF proposal.action = "issue_refund"
                           THEN InsertRow(refunds, p,
                                    [order |-> proposal.order, amount |-> AmountMoved(proposal)])
                           ELSE refunds
           /\ tickets' = IF proposal.action = "create_support_ticket"
                           THEN InsertRow(tickets, p, [order |-> proposal.order])
                           ELSE tickets
           /\ proposal.action = "issue_refund" => p \notin DOMAIN refunds
           /\ proposal.action = "create_support_ticket" => p \notin DOMAIN tickets
<1>1. CASE proposal.action = "cancel_order"
    BY <1>1 DEF WriteTool, CancelOrder, ResourceOf, AmountMoved
<1>2. CASE proposal.action = "issue_refund"
    BY <1>2 DEF WriteTool, IssueRefund, ResourceOf, AmountMoved
<1>3. CASE proposal.action = "create_support_ticket"
    BY <1>3 DEF WriteTool, CreateSupportTicket, ResourceOf, AmountMoved
<1> QED
    BY <1>1, <1>2, <1>3 DEF WriteTool

(* What an appended log looks like.                                        *)
LEMMA Appended ==
    ASSUME NEW S, NEW log \in Seq(S), NEW row
    PROVE  LET n == Len(log) + 1
           IN  /\ n \notin DOMAIN log
               /\ DOMAIN Append(log, row) = DOMAIN log \cup {n}
               /\ \A i \in DOMAIN log : Append(log, row)[i] = log[i]
               /\ Append(log, row)[n] = row
    OBVIOUS

(* Everything a commit writes, in one place.                               *)
CommitWrites(r, n, row) ==
    LET p == call[r].permit  permit == call[r].row  proposal == call[r].proposal
    IN  /\ p \in DOMAIN permits
        /\ permit.key = permits[p].key
        /\ permit.key \notin DOMAIN records
        /\ n \notin DOMAIN mutation_log
        /\ DOMAIN mutation_log' = DOMAIN mutation_log \cup {n}
        /\ \A i \in DOMAIN mutation_log : mutation_log'[i] = mutation_log[i]
        /\ mutation_log'[n] = row
        /\ row.by = p
        /\ row.action = proposal.action
        /\ row.resource = permit.resource
        /\ row.amount = AmountMoved(proposal)
        /\ DOMAIN permits' = DOMAIN permits
        /\ \A q \in DOMAIN permits : /\ permits'[q].key = permits[q].key
                                     /\ permits'[q].action = permits[q].action
                                     /\ permits'[q].resource = permits[q].resource
                                     /\ permits'[q].version = permits[q].version
                                     /\ permits'[q].max = permits[q].max
                                     /\ q # p => permits'[q].used = permits[q].used
        /\ permits'[p].used
        /\ DOMAIN records' = DOMAIN records \cup {permit.key}
        /\ \A k \in DOMAIN records : records'[k] = records[k]
        /\ records'[permit.key] = ResultOf(p, permit, proposal)
        /\ DOMAIN refunds' = DOMAIN refunds \cup
                (IF proposal.action = "issue_refund" THEN {p} ELSE {})
        /\ \A q \in DOMAIN refunds : refunds'[q] = refunds[q]
        /\ proposal.action = "issue_refund" =>
                refunds'[p] = [order |-> proposal.order, amount |-> AmountMoved(proposal)]
        /\ DOMAIN tickets' = DOMAIN tickets \cup
                (IF proposal.action = "create_support_ticket" THEN {p} ELSE {})
        /\ \A q \in DOMAIN tickets : tickets'[q] = tickets[q]
        /\ proposal.action = "create_support_ticket" =>
                tickets'[p] = [order |-> proposal.order]

(* A commit writes all of it.                                              *)
LEMMA CommitDoes ==
    ASSUME TypeOK, CallsKnown, NEW r \in Runs, Commit(r)
    PROVE  \E n, row : CommitWrites(r, n, row)
<1> DEFINE p == call[r].permit
           permit == call[r].row
           proposal == call[r].proposal
           result == ResultOf(p, permit, proposal)
           n == Len(mutation_log) + 1
           row == [run |-> r, action |-> proposal.action, resource |-> permit.resource,
                   amount |-> AmountMoved(proposal), by |-> p]
           refund == [order |-> proposal.order, amount |-> AmountMoved(proposal)]
           ticket == [order |-> proposal.order]
<1>1. /\ CallKnown(r)
      /\ phase[r] = "commit"
      /\ WriteTool(r, p, permit, proposal)
      /\ permit.key \notin DOMAIN records
    BY DEF Commit, CallsKnown
<1>2. /\ p \in DOMAIN permits
      /\ permit.key = permits[p].key
      /\ permit.resource = ResourceOf(proposal.action, proposal.order)
    BY <1>1 DEF CallKnown
<1>3. /\ LogMutation(r, proposal.action, permit.resource, AmountMoved(proposal), p)
      /\ refunds' = IF proposal.action = "issue_refund"
                      THEN InsertRow(refunds, p, refund) ELSE refunds
      /\ tickets' = IF proposal.action = "create_support_ticket"
                      THEN InsertRow(tickets, p, ticket) ELSE tickets
      /\ proposal.action = "issue_refund" => p \notin DOMAIN refunds
      /\ proposal.action = "create_support_ticket" => p \notin DOMAIN tickets
    BY <1>1, <1>2, WriteLogs
<1>4. /\ n \notin DOMAIN mutation_log
      /\ DOMAIN mutation_log' = DOMAIN mutation_log \cup {n}
      /\ \A i \in DOMAIN mutation_log : mutation_log'[i] = mutation_log[i]
      /\ mutation_log'[n] = row
  <2>1. mutation_log' = Append(mutation_log, row) /\ mutation_log \in Seq(LogRow)
    BY <1>3 DEF LogMutation, TypeOK, StoreTypeOK
  <2> HIDE DEF row
  <2> QED
    BY <2>1, Appended
<1>5. /\ DOMAIN permits' = DOMAIN permits
      /\ \A q \in DOMAIN permits : /\ permits'[q].key = permits[q].key
                                   /\ permits'[q].action = permits[q].action
                                   /\ permits'[q].resource = permits[q].resource
                                   /\ permits'[q].version = permits[q].version
                                   /\ permits'[q].max = permits[q].max
                                   /\ q # p => permits'[q].used = permits[q].used
      /\ permits'[p].used
  <2>1. permits' = [permits EXCEPT ![p].used = TRUE]
    BY DEF Commit
  <2>2. permits \in [DOMAIN permits -> PermitRow]
    BY DEF TypeOK, StoreTypeOK, IsTable
  <2>3. \A q \in DOMAIN permits :
            permits'[q] = IF q = p THEN [permits[q] EXCEPT !.used = TRUE] ELSE permits[q]
    BY <2>1, <2>2
  <2>4. \A q \in DOMAIN permits : permits[q] \in PermitRow
    BY <2>2
  <2> QED
    BY <1>2, <2>1, <2>2, <2>3, <2>4 DEF PermitRow
<1>6. /\ DOMAIN records' = DOMAIN records \cup {permit.key}
      /\ \A k \in DOMAIN records : records'[k] = records[k]
      /\ records'[permit.key] = result
  <2>1. records' = InsertRow(records, permit.key, result)
    BY DEF Commit
  <2> HIDE DEF result
  <2> QED
    BY <1>1, <2>1, Zenon DEF InsertRow
<1>7. /\ DOMAIN refunds' = DOMAIN refunds \cup
                (IF proposal.action = "issue_refund" THEN {p} ELSE {})
      /\ \A q \in DOMAIN refunds : refunds'[q] = refunds[q]
      /\ proposal.action = "issue_refund" => refunds'[p] = refund
  <2> HIDE DEF refund
  <2> QED
    BY <1>3 DEF InsertRow
<1>8. /\ DOMAIN tickets' = DOMAIN tickets \cup
                (IF proposal.action = "create_support_ticket" THEN {p} ELSE {})
      /\ \A q \in DOMAIN tickets : tickets'[q] = tickets[q]
      /\ proposal.action = "create_support_ticket" => tickets'[p] = ticket
  <2> HIDE DEF ticket
  <2> QED
    BY <1>3 DEF InsertRow
<1>9. CommitWrites(r, n, row)
  <2> HIDE DEF n
  <2> QED
    BY <1>1, <1>2, <1>4, <1>5, <1>6, <1>7, <1>8 DEF CommitWrites
<1> QED
    BY <1>9

(* A commit keeps the ledger invariant.  The permit's key was free, so no  *)
(* row of the ledger was written under the permit before.                  *)
LEMMA CommitLedger ==
    ASSUME TypeOK, LedgerInv, NEW r \in Runs, Commit(r)
    PROVE  LedgerInv'
<1> DEFINE p == call[r].permit
           permit == call[r].row
           proposal == call[r].proposal
<1> USE DEF LedgerInv
<1>1. PICK n, row : CommitWrites(r, n, row)
    BY CommitDoes
<1>2. CallKnown(r) /\ phase[r] = "commit"
    BY DEF Commit, CallsKnown
<1>p. /\ p \in DOMAIN permits
      /\ permit.key = permits[p].key
      /\ DOMAIN permits' = DOMAIN permits
      /\ \A q \in DOMAIN permits : /\ permits'[q].key = permits[q].key
                                   /\ permits'[q].action = permits[q].action
                                   /\ permits'[q].resource = permits[q].resource
                                   /\ permits'[q].version = permits[q].version
                                   /\ permits'[q].max = permits[q].max
                                   /\ permits[q].used => permits'[q].used
                                   /\ permits'[q].used => permits[q].used \/ q = p
      /\ permits'[p].used
    BY <1>1 DEF CommitWrites
<1>l. /\ DOMAIN mutation_log' = DOMAIN mutation_log \cup {n}
      /\ \A i \in DOMAIN mutation_log : mutation_log'[i] = mutation_log[i]
      /\ mutation_log'[n] = row
      /\ row.by = p
      /\ row.action = proposal.action
      /\ row.resource = permit.resource
      /\ row.amount = AmountMoved(proposal)
    BY <1>1 DEF CommitWrites
<1>k. /\ permit.key \notin DOMAIN records
      /\ DOMAIN records' = DOMAIN records \cup {permit.key}
      /\ \A k \in DOMAIN records : records'[k] = records[k]
      /\ records'[permit.key] = ResultOf(p, permit, proposal)
    BY <1>1 DEF CommitWrites
<1>3. \A q \in DOMAIN permits : permits[q].key = permit.key => q = p
    BY <1>1 DEF CommitWrites, PermitsKnown
<1>4. PermitsKnown' /\ RowsKnown'
  <2>2. permit.key[1] = p
    BY <1>1 DEF CommitWrites, PermitsKnown
  <2>3. PermitsKnown'
    BY <1>1 DEF CommitWrites, PermitsKnown
  <2>4. RowsKnown'
    BY <1>1, <2>2 DEF CommitWrites, RowsKnown
  <2> QED
    BY <2>3, <2>4
<1>5. CallsKnown'
  <2>1. phase' = [phase EXCEPT ![r] = "respond"] /\ UNCHANGED call
    BY DEF Commit, GoTo
  <2> SUFFICES ASSUME NEW q \in Runs, phase'[q] # "idle" PROVE CallKnown(q)'
    BY DEF CallsKnown
  <2>2. CASE q = r
    <3>1. phase'[r] = "respond" /\ call'[r] = call[r]
      BY <2>1 DEF TypeOK
    <3>2. /\ permit.action = permits[p].action
          /\ permit.resource = permits[p].resource
          /\ permit.version = permits[p].version
          /\ permit.max = permits[p].max
          /\ permit.action = proposal.action
          /\ permit.resource = ResourceOf(proposal.action, proposal.order)
          /\ AmountOf(proposal) <= permit.max
      BY <1>2 DEF CallKnown
    <3>3. ~permit.used
      BY <1>2 DEF CallKnown
    <3>4. /\ p \in DOMAIN permits'
          /\ permit.key = permits'[p].key
          /\ permit.action = permits'[p].action
          /\ permit.resource = permits'[p].resource
          /\ permit.version = permits'[p].version
          /\ permit.max = permits'[p].max
      BY <1>p, <3>2
    <3>5. permit.key \in DOMAIN records' /\ records'[permit.key] = ResultOf(p, permit, proposal)
      BY <1>k
    <3>6. CallKnown(r)'
      BY <3>1, <3>2, <3>3, <3>4, <3>5, Zenon DEF CallKnown
    <3> QED
      BY <2>2, <3>6
  <2>3. CASE q # r
    <3>1. phase'[q] = phase[q] /\ call'[q] = call[q] /\ CallKnown(q)
      BY <2>1, <2>3 DEF TypeOK, CallsKnown
    <3>2. call[q].row.used => permits'[call[q].permit].used
      BY <1>p, <3>1, Zenon DEF CallKnown
    <3>3. /\ call[q].permit \in DOMAIN permits'
          /\ call[q].row.key = permits'[call[q].permit].key
          /\ call[q].row.action = permits'[call[q].permit].action
          /\ call[q].row.resource = permits'[call[q].permit].resource
          /\ call[q].row.version = permits'[call[q].permit].version
          /\ call[q].row.max = permits'[call[q].permit].max
      BY <1>p, <3>1, Zenon DEF CallKnown
    <3>4. phase[q] = "respond" =>
            /\ call[q].row.key \in DOMAIN records'
            /\ records'[call[q].row.key] =
                    ResultOf(call[q].permit, call[q].row, call[q].proposal)
      BY <1>k, <3>1, Zenon DEF CallKnown
    <3> QED
      BY <3>1, <3>2, <3>3, <3>4, Zenon DEF CallKnown
  <2> QED
    BY <2>2, <2>3
<1>o. \A i \in DOMAIN mutation_log :
        /\ mutation_log[i].by \in DOMAIN permits
        /\ permits[mutation_log[i].by].used
        /\ permits[mutation_log[i].by].key \in DOMAIN records
    BY Zenon DEF LedgerAgrees
<1>r. \A i \in DOMAIN mutation_log :
        records[permits[mutation_log[i].by].key] =
            [action |-> mutation_log[i].action, resource |-> mutation_log[i].resource,
             amount |-> mutation_log[i].amount,
             created |-> CreatedId(mutation_log[i].action, mutation_log[i].by)]
    BY Zenon DEF LedgerAgrees
<1>t. \A i \in DOMAIN mutation_log :
        /\ mutation_log[i].action = "issue_refund" =>
              /\ mutation_log[i].by \in DOMAIN refunds
              /\ mutation_log[i].resource = Payment(refunds[mutation_log[i].by].order)
              /\ mutation_log[i].amount = refunds[mutation_log[i].by].amount
        /\ mutation_log[i].action = "create_support_ticket" =>
              /\ mutation_log[i].by \in DOMAIN tickets
              /\ mutation_log[i].resource = Order(tickets[mutation_log[i].by].order)
    BY Zenon DEF LedgerAgrees
<1>6. \A i \in DOMAIN mutation_log : mutation_log[i].by # p
    BY <1>p, <1>k, <1>o
<1>7. LedgerAgrees'
  <2>1. \A i, j \in DOMAIN mutation_log' :
            mutation_log'[i].by = mutation_log'[j].by => i = j
    BY <1>1, <1>6 DEF LedgerAgrees, CommitWrites
  <2>2. \A i \in DOMAIN mutation_log' :
         LET e == mutation_log'[i]
         IN  /\ e.by \in DOMAIN permits'
             /\ permits'[e.by].used
             /\ permits'[e.by].key \in DOMAIN records'
             /\ records'[permits'[e.by].key] =
                    [action |-> e.action, resource |-> e.resource,
                     amount |-> e.amount, created |-> CreatedId(e.action, e.by)]
    <3> SUFFICES ASSUME NEW i \in DOMAIN mutation_log'
                 PROVE  LET e == mutation_log'[i]
                        IN  /\ e.by \in DOMAIN permits'
                            /\ permits'[e.by].used
                            /\ permits'[e.by].key \in DOMAIN records'
                            /\ records'[permits'[e.by].key] =
                                 [action |-> e.action, resource |-> e.resource,
                                  amount |-> e.amount,
                                  created |-> CreatedId(e.action, e.by)]
      OBVIOUS
    <3>1. CASE i = n
      BY <1>1, <3>1 DEF CommitWrites, ResultOf
    <3>2. CASE i \in DOMAIN mutation_log
      BY <1>p, <1>l, <1>k, <1>o, <1>r, <3>2
    <3> QED
      BY <1>l, <3>1, <3>2
  <2>3. \A i \in DOMAIN mutation_log' :
         LET e == mutation_log'[i]
         IN  /\ e.action = "issue_refund" =>
                    /\ e.by \in DOMAIN refunds'
                    /\ e.resource = Payment(refunds'[e.by].order)
                    /\ e.amount = refunds'[e.by].amount
             /\ e.action = "create_support_ticket" =>
                    /\ e.by \in DOMAIN tickets'
                    /\ e.resource = Order(tickets'[e.by].order)
    <3> SUFFICES ASSUME NEW i \in DOMAIN mutation_log'
                 PROVE  LET e == mutation_log'[i]
                        IN  /\ e.action = "issue_refund" =>
                                  /\ e.by \in DOMAIN refunds'
                                  /\ e.resource = Payment(refunds'[e.by].order)
                                  /\ e.amount = refunds'[e.by].amount
                            /\ e.action = "create_support_ticket" =>
                                  /\ e.by \in DOMAIN tickets'
                                  /\ e.resource = Order(tickets'[e.by].order)
      OBVIOUS
    <3>1. CASE i = n
      <4>1. permit.resource = ResourceOf(proposal.action, proposal.order)
        BY <1>2 DEF CallKnown
      <4> QED
        BY <1>1, <3>1, <4>1 DEF CommitWrites, ResourceOf
    <3>2. CASE i \in DOMAIN mutation_log
      <4>1. /\ \A q \in DOMAIN refunds : q \in DOMAIN refunds' /\ refunds'[q] = refunds[q]
            /\ \A q \in DOMAIN tickets : q \in DOMAIN tickets' /\ tickets'[q] = tickets[q]
        BY <1>1 DEF CommitWrites
      <4> QED
        BY <1>l, <1>t, <3>2, <4>1
    <3> QED
      BY <1>l, <3>1, <3>2
  <2>4. \A q \in DOMAIN permits' :
            (permits'[q].used \/ permits'[q].key \in DOMAIN records'
                \/ q \in DOMAIN refunds' \/ q \in DOMAIN tickets')
            => \E i \in DOMAIN mutation_log' : mutation_log'[i].by = q
    <3> SUFFICES ASSUME NEW q \in DOMAIN permits',
                        permits'[q].used \/ permits'[q].key \in DOMAIN records'
                            \/ q \in DOMAIN refunds' \/ q \in DOMAIN tickets'
                 PROVE  \E i \in DOMAIN mutation_log' : mutation_log'[i].by = q
      OBVIOUS
    <3>1. CASE q = p
      BY <1>1, <3>1 DEF CommitWrites
    <3>2. CASE q # p
      <4>1. /\ q \in DOMAIN permits
            /\ permits[q].used \/ permits[q].key \in DOMAIN records
                 \/ q \in DOMAIN refunds \/ q \in DOMAIN tickets
        BY <1>1, <1>3, <3>2 DEF CommitWrites
      <4>2. PICK i \in DOMAIN mutation_log : mutation_log[i].by = q
        BY <4>1 DEF LedgerAgrees
      <4> QED
        BY <1>1, <4>2 DEF CommitWrites
    <3> QED
      BY <3>1, <3>2
  <2> QED
    BY <2>1, <2>2, <2>3, <2>4 DEF LedgerAgrees
<1>8. EveryRowIsAuthorised'
  <2> SUFFICES ASSUME NEW i \in DOMAIN mutation_log'
               PROVE  LET e == mutation_log'[i]
                      IN  /\ e.action = permits'[e.by].action
                          /\ e.resource = permits'[e.by].resource
                          /\ e.amount <= permits'[e.by].max
    BY DEF EveryRowIsAuthorised
  <2>1. CASE i = n
    <3>1. permit.max \in Nat /\ AmountOf(proposal) \in Nat
      BY <1>2, InHand DEF TypeOK, CallTypeOK, PermitRow
    <3>2. AmountMoved(proposal) <= permit.max
      BY <1>2, <3>1 DEF CallKnown, AmountMoved
    <3>3. /\ proposal.action = permits[p].action
          /\ permit.resource = permits[p].resource
          /\ permit.max = permits[p].max
      BY <1>2 DEF CallKnown
    <3> QED
      BY <1>p, <1>l, <2>1, <3>2, <3>3
  <2>2. CASE i \in DOMAIN mutation_log
    BY <1>p, <1>l, <1>o, <2>2 DEF EveryRowIsAuthorised
  <2> QED
    BY <1>l, <2>1, <2>2
<1> QED
    BY <1>4, <1>5, <1>7, <1>8

(* What a run has in hand is a function of its phase, its call and two     *)
(* tables: a step that leaves those alone leaves it known.                 *)
LEMMA StillKnown ==
    ASSUME CallsKnown, UNCHANGED <<phase, call, permits, records>>
    PROVE  CallsKnown'
    BY DEF CallsKnown, CallKnown

(* Every step keeps the ledger invariant.                                  *)
LEMMA LedgerInvNext == TypeOK /\ LedgerInv /\ [Next]_vars => LedgerInv'
<1> SUFFICES ASSUME TypeOK, LedgerInv, [Next]_vars PROVE LedgerInv'
    OBVIOUS
<1>c. CallsKnown
    BY DEF LedgerInv
<1>1. ASSUME NEW r \in Runs, Issue(r) PROVE LedgerInv'
  <2>1. PICK action \in Actions, o \in Orders, max \in Amounts :
            \E version \in 1..VersionOf(action, o) :
                IssuePermit(r, action, o, version, max)
    BY <1>1 DEF Issue
  <2>2. action \in ActionName /\ max \in Nat
    BY ExecutorAssumption
  <2>3. PICK version \in Nat : IssuePermit(r, action, o, version, max)
    BY <2>1, VersionTypes
  <2> QED
    BY <1>1, <2>2, <2>3, IssueLedger DEF Issue
<1>2. ASSUME NEW r \in Runs, Present(r) PROVE LedgerInv'
  <2>1. PICK p \in DOMAIN permits \cup {NULL}, proposal \in Proposals(Actions, Amounts) :
            Load(r, p, proposal)
    BY <1>2 DEF Present
  <2>2. CallsKnown'
    BY <1>c, <2>1, LoadKnown
  <2> QED
    BY <2>1, <2>2, LedgerUntouched DEF Load, storeVars
<1>3. ASSUME NEW r \in Runs, Resolve(r) PROVE LedgerInv'
    BY <1>c, <1>3, ResolveKnown, LedgerUntouched DEF Resolve, storeVars
<1>4. ASSUME NEW r \in Runs, Lookup(r) PROVE LedgerInv'
    BY <1>c, <1>4, LookupKnown, LedgerUntouched DEF Lookup, storeVars
<1>5. ASSUME NEW r \in Runs, Commit(r) PROVE LedgerInv'
    BY <1>5, CommitLedger
<1>6. ASSUME NEW r \in Runs, CommitStale(r) \/ CommitConflict(r) \/ Respond(r)
      PROVE  LedgerInv'
  <2>1. UNCHANGED storeVars /\ UNCHANGED sequence
    BY <1>6 DEF CommitStale, CommitConflict, Respond
  <2>2. \E kind, reason, result : Finish(r, kind, reason, result)
    BY <1>6 DEF CommitStale, CommitConflict, Respond, Reject
  <2>3. CallsKnown'
    BY <1>c, <2>1, <2>2, FinishKnown DEF storeVars
  <2> QED
    BY <2>1, <2>3, LedgerUntouched DEF storeVars
<1>7. ASSUME WorldStep, UNCHANGED executorVars PROVE LedgerInv'
  <2>1. UNCHANGED ledgerVars
    BY <1>7 DEF WorldStep, EditOrder, EditPayment, EditShipment, Tick
  <2> QED
    BY <1>c, <1>7, <2>1, StillKnown, LedgerUntouched DEF ledgerVars, executorVars
<1>8. ASSUME UNCHANGED vars PROVE LedgerInv'
    BY <1>c, <1>8, StillKnown, LedgerUntouched DEF vars, storeVars, executorVars
<1> QED
    BY <1>1, <1>2, <1>3, <1>4, <1>5, <1>6, <1>7, <1>8 DEF Next, CallStep

(* The ledger invariant holds in every state of every execution.           *)
LEMMA LedgerInvHolds == Spec => [](TypeOK /\ LedgerInv)
<1>1. Init => TypeOK /\ LedgerInv
    BY InitTypes, LedgerInvInit
<1>2. TypeOK /\ LedgerInv /\ [Next]_vars => TypeOK' /\ LedgerInv'
    BY NextTypes, LedgerInvNext
<1> QED
    BY <1>1, <1>2, PTL DEF Spec

(* Permits, execution records, created rows and mutation_log tell one      *)
(* story in every state: a commit writes all of them or none (_commit).    *)
THEOREM LedgerConsistent == Spec => []LedgerAgrees
<1>1. LedgerInv => LedgerAgrees
    BY DEF LedgerInv
<1> QED
    BY <1>1, LedgerInvHolds, PTL

(* Nothing is written beyond what a permit names, although another call    *)
(* may run between the checks and the write (_run_checks, _commit).        *)
THEOREM Authorised == Spec => []EveryRowIsAuthorised
<1>1. LedgerInv => EveryRowIsAuthorised
    BY DEF LedgerInv
<1> QED
    BY <1>1, LedgerInvHolds, PTL

-----------------------------------------------------------------------------
(* The version a permit pins.                                              *)

(* A permit whose row has moved on never becomes used: only the call that  *)
(* holds a permit sets its flag, and its write is guarded by the version.  *)
THEOREM OutdatedStaysUnused == Spec => OutdatedIsFinal
<1>1. ASSUME TypeOK, LedgerInv, [Next]_vars,
             NEW p \in DOMAIN permits, Outdated(p), ~permits[p].used
      PROVE  ~permits'[p].used
  <2>1. ASSUME NEW r \in Runs, Commit(r) PROVE ~permits'[p].used
    <3>1. PICK n, row : CommitWrites(r, n, row)
      BY <1>1, <2>1, CommitDoes DEF LedgerInv
    <3>2. p # call[r].permit
      <4> SUFFICES ASSUME p = call[r].permit PROVE FALSE
        OBVIOUS
      <4>1. CallKnown(r) /\ WriteTool(r, p, call[r].row, call[r].proposal)
        BY <1>1, <2>1 DEF Commit, LedgerInv, CallsKnown
      <4>2. /\ permits[p].version = call[r].row.version
            /\ permits[p].action = call[r].proposal.action
            /\ permits[p].resource =
                    ResourceOf(call[r].proposal.action, call[r].proposal.order)
        BY <2>1, <4>1 DEF CallKnown, Commit
      <4>3. CASE call[r].proposal.action = "cancel_order"
        <5>1. /\ orders[call[r].proposal.order].version = permits[p].version
              /\ permits[p].resource = Order(call[r].proposal.order)
          BY <4>1, <4>2, <4>3 DEF WriteTool, CancelOrder, OrderAtVersion, ResourceOf
        <5>2. PICK o \in DOMAIN orders : /\ permits[p].resource = Order(o)
                                         /\ orders[o].version > permits[p].version
          BY <1>1, <4>2, <4>3 DEF Outdated
        <5>3. o = call[r].proposal.order
          BY <5>1, <5>2 DEF Order
        <5>4. orders[o].version \in Nat
          BY <1>1 DEF TypeOK, StoreTypeOK, IsTable, OrderRow
        <5> QED
          BY <5>1, <5>2, <5>3, <5>4
      <4>4. CASE call[r].proposal.action = "issue_refund"
        <5>1. /\ payments[call[r].proposal.order].version = permits[p].version
              /\ permits[p].resource = Payment(call[r].proposal.order)
          BY <4>1, <4>2, <4>4 DEF WriteTool, IssueRefund, PaymentAtVersion, ResourceOf
        <5>2. PICK o \in DOMAIN payments : /\ permits[p].resource = Payment(o)
                                           /\ payments[o].version > permits[p].version
          BY <1>1, <4>2, <4>4 DEF Outdated
        <5>3. o = call[r].proposal.order
          BY <5>1, <5>2 DEF Payment
        <5>4. payments[o].version \in Nat
          BY <1>1 DEF TypeOK, StoreTypeOK, IsTable, PaymentRow
        <5> QED
          BY <5>1, <5>2, <5>3, <5>4
      <4>5. CASE call[r].proposal.action = "create_support_ticket"
        BY <1>1, <4>2, <4>5 DEF Outdated
      <4> QED
        BY <4>1, <4>3, <4>4, <4>5 DEF WriteTool
    <3> QED
      BY <1>1, <3>1, <3>2 DEF CommitWrites
  <2>2. ASSUME NEW r \in Runs, Issue(r) PROVE ~permits'[p].used
    <3>1. \E key, row : permits' = InsertRow(permits, key, row)
      BY <2>2 DEF Issue, IssuePermit
    <3> QED
      BY <1>1, <3>1 DEF InsertRow
  <2>3. ASSUME UNCHANGED permits PROVE ~permits'[p].used
    BY <1>1, <2>3
  <2>4. ASSUME NEW r \in Runs,
               Present(r) \/ Resolve(r) \/ Lookup(r) \/ CommitStale(r)
                 \/ CommitConflict(r) \/ Respond(r)
        PROVE  UNCHANGED permits
    BY <2>4 DEF Present, Load, Resolve, Lookup, CommitStale, CommitConflict, Respond, storeVars
  <2>5. ASSUME WorldStep PROVE UNCHANGED permits
    BY <2>5 DEF WorldStep, EditOrder, EditPayment, EditShipment, Tick, ledgerVars
  <2>6. ASSUME UNCHANGED vars PROVE UNCHANGED permits
    BY <2>6 DEF vars, storeVars
  <2> QED
    BY <1>1, <2>1, <2>2, <2>3, <2>4, <2>5, <2>6 DEF Next, CallStep
<1>2. TypeOK /\ LedgerInv /\ [Next]_vars
        => [ \A p \in DOMAIN permits :
                Outdated(p) /\ ~permits[p].used => ~permits'[p].used ]_vars
    BY <1>1
<1> QED
    BY <1>2, LedgerInvHolds, PTL DEF Spec, OutdatedIsFinal

-----------------------------------------------------------------------------
(* One refund per payment.                                                 *)

(* It holds of a world in which nothing has run.                           *)
LEMMA RefundInvInit == Init => RefundInv
<1> SUFFICES ASSUME Init PROVE RefundInv
    OBVIOUS
<1>1. CallsPinned
    BY DEF Init, ExecutorInit, CallsPinned
<1>2. \A o : RefundRowsOf(o) = {}
    BY DEF Init, StoreInit, RefundRowsOf
<1>3. \A o \in DOMAIN payments : payments[o].refunded = 0
    BY DEF Init, StoreInit
<1> QED
    BY <1>1, <1>2, <1>3 DEF RefundInv, RefundedOnce

(* A step that leaves the payments and the ledger alone keeps it, if what  *)
(* it does to the calls does.                                              *)
LEMMA RefundUntouched ==
    ASSUME RefundInv, UNCHANGED <<payments, mutation_log>>, CallsPinned'
    PROVE  RefundInv'
    BY DEF RefundInv, RefundedOnce, RefundRowsOf

(* A step after which the only refund calls past check 4 are those that    *)
(* were there before keeps what they saw.                                  *)
LEMMA StillPinned ==
    ASSUME CallsPinned, UNCHANGED <<payments, mutation_log>>,
           \A r \in Runs : phase'[r] \in {"lookup", "commit"} =>
                phase'[r] = phase[r] /\ call'[r] = call[r]
    PROVE  CallsPinned'
<1> SUFFICES ASSUME NEW r \in Runs, phase'[r] \in {"lookup", "commit"},
                    call'[r].proposal.action = "issue_refund"
             PROVE  CallPinned(r)'
    BY DEF CallsPinned
<1>1. CallPinned(r) /\ phase'[r] = phase[r] /\ call'[r] = call[r]
    BY DEF CallsPinned
<1> QED
    BY <1>1 DEF CallPinned, RefundRowsOf

(* The target of a refund is read as the payment is now; if it is read as  *)
(* CAPTURED, there has been no refund.                                     *)
LEMMA ResolvePinned ==
    ASSUME TypeOK, RefundInv, NEW r \in Runs, Resolve(r)
    PROVE  CallsPinned'
<1> DEFINE target == ResolveTarget(call[r].proposal)
           o == call[r].proposal.order
<1>1. UNCHANGED <<payments, mutation_log>> /\ CallsPinned /\ RefundedOnce
    BY DEF Resolve, storeVars, RefundInv
<1>2. ASSUME NEW reason, Reject(r, reason) PROVE CallsPinned'
  <2>1. \A q \in Runs : phase'[q] \in {"lookup", "commit"} =>
                phase'[q] = phase[q] /\ call'[q] = call[q]
    BY <1>2 DEF Reject, Finish, TypeOK
  <2> QED
    BY <1>1, <2>1, StillPinned
<1>3. ASSUME target # NULL, GoTo(r, "lookup"),
             call' = [call EXCEPT ![r].target = target]
      PROVE  CallsPinned'
  <2>1. call[r] \in CallRecord
    BY InHand DEF TypeOK, CallTypeOK, Resolve
  <2>2. /\ phase'[r] = "lookup" /\ call'[r] = [call[r] EXCEPT !.target = target]
        /\ \A q \in Runs \ {r} : phase'[q] = phase[q] /\ call'[q] = call[q]
    BY <1>3 DEF TypeOK, GoTo
  <2>3. call'[r].proposal = call[r].proposal /\ call'[r].target = target
    BY <2>1, <2>2 DEF CallRecord
  <2> SUFFICES ASSUME NEW q \in Runs, phase'[q] \in {"lookup", "commit"},
                      call'[q].proposal.action = "issue_refund"
               PROVE  CallPinned(q)'
    BY DEF CallsPinned
  <2>4. CASE q = r
    <3>1. /\ o \in DOMAIN payments
          /\ target.version = payments[o].version
          /\ target.status = payments[o].status
      BY <1>3, <2>3, <2>4 DEF ResolveTarget
    <3>2. payments[o].version \in Nat
      BY <3>1 DEF TypeOK, StoreTypeOK, IsTable, PaymentRow
    <3>3. target.status = "CAPTURED" => RefundRowsOf(o) = {}
      BY <1>1, <3>1 DEF RefundedOnce
    <3>4. \A x : RefundRowsOf(x)' = RefundRowsOf(x)
      BY <1>1 DEF RefundRowsOf
    <3>0. target \in Target
      BY <1>3, <2>1, TargetTypes DEF TypeOK, CallRecord
    <3> HIDE DEF target
    <3>5. CallPinned(r)'
      BY <1>1, <2>2, <2>3, <3>0, <3>1, <3>2, <3>3, <3>4 DEF CallPinned, RefundRowsOf
    <3> QED
      BY <2>4, <3>5
  <2>5. CASE q # r
    <3>1. CallPinned(q) /\ phase'[q] = phase[q] /\ call'[q] = call[q]
      BY <1>1, <2>2, <2>5 DEF CallsPinned
    <3> QED
      BY <1>1, <3>1 DEF CallPinned, RefundRowsOf
  <2> QED
    BY <2>4, <2>5
<1> HIDE DEF target
<1> QED
    BY <1>2, <1>3 DEF Resolve, target

(* A refund that passes checks 5 to 9 saw the version its permit pins, on  *)
(* a payment that was CAPTURED.                                            *)
LEMMA LookupPinned ==
    ASSUME TypeOK, RefundInv, NEW r \in Runs, Lookup(r)
    PROVE  CallsPinned'
<1> DEFINE permit == call[r].row
           proposal == call[r].proposal
           target == call[r].target
           failed == FirstFailedCheck(permit, proposal, target)
<1>1. UNCHANGED <<payments, mutation_log>> /\ CallsPinned
    BY DEF Lookup, storeVars, RefundInv
<1>2. ASSUME NEW kind, NEW reason, NEW result, Finish(r, kind, reason, result)
      PROVE  CallsPinned'
  <2>1. \A q \in Runs : phase'[q] \in {"lookup", "commit"} =>
                phase'[q] = phase[q] /\ call'[q] = call[q]
    BY <1>2 DEF Finish, TypeOK
  <2> QED
    BY <1>1, <2>1, StillPinned
<1>3. ASSUME failed = NULL, GoTo(r, "commit"), UNCHANGED call
      PROVE  CallsPinned'
  <2>1. /\ NULL # "permit_already_used" /\ NULL # "permit_amount_exceeded"
        /\ NULL # "stale_resource_version" /\ NULL # "transition_not_allowed"
    BY ReasonAssumption DEF RejectionReasons
  <2>2. ~permit.used /\ ~(AmountOf(proposal) > permit.max)
    BY <1>3, <2>1, Zenon DEF FirstFailedCheck
  <2>3. target.version = permit.version /\ TransitionAllowed(proposal.action, target)
    BY <1>3, <2>1, <2>2, Zenon DEF FirstFailedCheck
  <2>4. proposal.action = "issue_refund" => target.status = "CAPTURED"
    BY <2>3 DEF TransitionAllowed, PaymentTransitionAllowed, PaymentTransitions
  <2>5. /\ phase[r] = "lookup" /\ phase'[r] = "commit"
        /\ \A q \in Runs \ {r} : phase'[q] = phase[q]
    BY <1>3 DEF TypeOK, GoTo, Lookup
  <2> SUFFICES ASSUME NEW q \in Runs, phase'[q] \in {"lookup", "commit"},
                      call'[q].proposal.action = "issue_refund"
               PROVE  CallPinned(q)'
    BY DEF CallsPinned
  <2>6. CASE q = r
    <3>1. CallPinned(r)
      BY <1>1, <1>3, <2>5, <2>6 DEF CallsPinned
    <3> QED
      BY <1>1, <1>3, <2>3, <2>4, <2>5, <2>6, <3>1 DEF CallPinned, RefundRowsOf
  <2>7. CASE q # r
    <3>1. CallPinned(q) /\ phase'[q] = phase[q]
      BY <1>1, <1>3, <2>5, <2>7 DEF CallsPinned
    <3> QED
      BY <1>1, <1>3, <3>1 DEF CallPinned, RefundRowsOf
  <2> QED
    BY <2>6, <2>7
<1> QED
    BY <1>2, <1>3 DEF Lookup, Reject

(* The world may mark a payment REFUNDED, never unmark it, and a version   *)
(* never goes back, whether or not the edit bumps it.                      *)
LEMMA WorldPinned ==
    ASSUME TypeOK, RefundInv, WorldStep, UNCHANGED executorVars
    PROVE  RefundInv'
<1>1. CallsPinned /\ RefundedOnce /\ UNCHANGED <<phase, call, mutation_log>>
    BY DEF RefundInv, executorVars, WorldStep, EditOrder, EditPayment, EditShipment,
           Tick, ledgerVars
<1>2. \A x : RefundRowsOf(x)' = RefundRowsOf(x)
    BY <1>1 DEF RefundRowsOf
<1>3. CASE UNCHANGED payments
    BY <1>1, <1>3, StillPinned, RefundUntouched
<1>4. ASSUME NEW e \in Orders, EditPayment(e) PROVE RefundInv'
  <2>1. PICK status \in {payments[e].status} \cup ({"REFUNDED"} \cap Statuses),
             captured \in CapturedCents,
             version \in NextVersion(payments[e].version) :
                payments' = [payments EXCEPT ![e].status = status,
                                             ![e].captured = captured,
                                             ![e].version = version]
    BY <1>4 DEF EditPayment
  <2>2. /\ e \in DOMAIN payments
        /\ payments \in [DOMAIN payments -> PaymentRow]
        /\ payments[e] \in PaymentRow
    BY <1>4 DEF EditPayment, TypeOK, StoreTypeOK, IsTable
  <2>3. payments[e].version \in Nat /\ version \in Nat /\ payments[e].version <= version
    BY <2>2 DEF PaymentRow, NextVersion
  <2>4. /\ DOMAIN payments' = DOMAIN payments
        /\ \A o \in DOMAIN payments : o # e => payments'[o] = payments[o]
        /\ payments'[e].status = status
        /\ payments'[e].version = version
        /\ payments'[e].refunded = payments[e].refunded
    BY <2>1, <2>2 DEF PaymentRow
  <2>5. \A o \in DOMAIN payments :
            /\ payments'[o].refunded = payments[o].refunded
            /\ payments[o].status = "REFUNDED" => payments'[o].status = "REFUNDED"
            /\ payments[o].version <= payments'[o].version
            /\ payments[o].version \in Nat /\ payments'[o].version \in Nat
    <3> SUFFICES ASSUME NEW o \in DOMAIN payments
                 PROVE  /\ payments'[o].refunded = payments[o].refunded
                        /\ payments[o].status = "REFUNDED" => payments'[o].status = "REFUNDED"
                        /\ payments[o].version <= payments'[o].version
                        /\ payments[o].version \in Nat /\ payments'[o].version \in Nat
      OBVIOUS
    <3>1. CASE o = e
      BY <2>1, <2>3, <2>4, <3>1
    <3>2. CASE o # e
      BY <2>2, <2>4, <3>2 DEF PaymentRow
    <3> QED
      BY <3>1, <3>2
  <2>6. RefundedOnce'
    BY <1>1, <1>2, <2>4, <2>5 DEF RefundedOnce
  <2>7. CallsPinned'
    <3> SUFFICES ASSUME NEW q \in Runs, phase[q] \in {"lookup", "commit"},
                        call[q].proposal.action = "issue_refund"
                 PROVE  CallPinned(q)'
      BY <1>1 DEF CallsPinned
    <3> DEFINE o == call[q].proposal.order
    <3>1. CallPinned(q)
      BY <1>1 DEF CallsPinned
    <3>2. call[q].target.version \in Nat
      BY <3>1 DEF CallPinned, Target
    <3> QED
      BY <1>1, <1>2, <2>4, <2>5, <3>1, <3>2 DEF CallPinned
  <2> QED
    BY <2>6, <2>7 DEF RefundInv
<1> QED
    BY <1>3, <1>4 DEF WorldStep, EditOrder, EditShipment, Tick, resourceVars

(* A refund commits at the version its call saw, on a payment it saw       *)
(* CAPTURED: there has been no refund of it, and every other call that saw *)
(* it CAPTURED is now behind.                                              *)
LEMMA CommitPinned ==
    ASSUME TypeOK, LedgerInv, RefundInv, NEW r \in Runs, Commit(r)
    PROVE  RefundInv'
<1> DEFINE p == call[r].permit
           permit == call[r].row
           proposal == call[r].proposal
           o == proposal.order
<1>1. PICK n, row : CommitWrites(r, n, row)
    BY CommitDoes DEF LedgerInv
<1>2. /\ CallsPinned /\ RefundedOnce
      /\ phase[r] = "commit"
      /\ phase' = [phase EXCEPT ![r] = "respond"]
      /\ UNCHANGED call
      /\ WriteTool(r, p, permit, proposal)
    BY DEF RefundInv, Commit, GoTo
<1>3. /\ n \notin DOMAIN mutation_log
      /\ DOMAIN mutation_log' = DOMAIN mutation_log \cup {n}
      /\ \A i \in DOMAIN mutation_log : mutation_log'[i] = mutation_log[i]
      /\ mutation_log'[n] = row
      /\ row.action = proposal.action
      /\ row.resource = permit.resource
      /\ row.amount = AmountMoved(proposal)
    BY <1>1 DEF CommitWrites
<1>4. permit.resource = ResourceOf(proposal.action, o)
    BY <1>2 DEF LedgerInv, CallsKnown, CallKnown
<1>5. \A q \in Runs : phase'[q] \in {"lookup", "commit"} => q # r /\ phase'[q] = phase[q]
    BY <1>2 DEF TypeOK
<1>6. CASE proposal.action # "issue_refund"
  <2>1. UNCHANGED payments
    BY <1>2, <1>6 DEF WriteTool, CancelOrder, CreateSupportTicket
  <2>2. \A x : RefundRowsOf(x)' = RefundRowsOf(x)
    BY <1>3, <1>6 DEF RefundRowsOf
  <2>3. RefundedOnce'
    BY <1>2, <1>3, <2>1, <2>2 DEF RefundedOnce, RefundRowsOf
  <2>4. CallsPinned'
    <3> SUFFICES ASSUME NEW q \in Runs, phase'[q] \in {"lookup", "commit"},
                        call'[q].proposal.action = "issue_refund"
                 PROVE  CallPinned(q)'
      BY DEF CallsPinned
    <3>1. CallPinned(q) /\ phase'[q] = phase[q]
      BY <1>2, <1>5 DEF CallsPinned
    <3> QED
      BY <1>2, <2>1, <2>2, <3>1 DEF CallPinned
  <2> QED
    BY <2>3, <2>4 DEF RefundInv
<1>7. CASE proposal.action = "issue_refund"
  <2> DEFINE amount == AmountOf(proposal)
  <2>1. /\ o \in DOMAIN payments
        /\ payments[o].version = permit.version
        /\ payments' = [payments EXCEPT ![o].status = "REFUNDED",
                                        ![o].refunded = @ + amount,
                                        ![o].version = @ + 1]
    BY <1>2, <1>7 DEF WriteTool, IssueRefund, PaymentAtVersion
  <2>2. payments \in [DOMAIN payments -> PaymentRow] /\ payments[o] \in PaymentRow
    BY <2>1 DEF TypeOK, StoreTypeOK, IsTable
  <2>3. /\ DOMAIN payments' = DOMAIN payments
        /\ \A x \in DOMAIN payments : x # o => payments'[x] = payments[x]
        /\ payments'[o].status = "REFUNDED"
        /\ payments'[o].refunded = payments[o].refunded + amount
        /\ payments'[o].version = payments[o].version + 1
    BY <2>1, <2>2 DEF PaymentRow
  <2>4. /\ payments[o].version \in Nat
        /\ amount \in Nat
    BY <1>2, <2>2, InHand DEF PaymentRow, TypeOK, CallTypeOK
  <2>5. RefundRowsOf(o) = {} /\ payments[o].refunded = 0
    <3>1. CallPinned(r)
      BY <1>2, <1>7 DEF CallsPinned
    <3>2. ~(payments[o].version < payments[o].version)
      BY <2>4
    <3>3. RefundRowsOf(o) = {}
      BY <1>2, <2>1, <3>1, <3>2 DEF CallPinned
    <3> QED
      BY <1>2, <2>1, <3>3 DEF RefundedOnce
  <2>6. /\ RefundRowsOf(o)' = {n}
        /\ \A x : x # o => RefundRowsOf(x)' = RefundRowsOf(x)
        /\ row.amount = amount
    <3>1. row.action = "issue_refund" /\ row.resource = Payment(o) /\ row.amount = amount
      BY <1>3, <1>4, <1>7 DEF ResourceOf, AmountMoved
    <3>2. \A x : Payment(x) = Payment(o) => x = o
      BY DEF Payment
    <3>3. \A i \in DOMAIN mutation_log' : i \in RefundRowsOf(o)' <=> i = n
      BY <1>2, <1>3, <2>5, <3>1 DEF RefundRowsOf
    <3>4. RefundRowsOf(o)' = {n}
      BY <1>2, <1>3, <3>1, <3>3 DEF RefundRowsOf
    <3>5. \A x : x # o => RefundRowsOf(x)' = RefundRowsOf(x)
      BY <1>3, <3>1, <3>2 DEF RefundRowsOf
    <3> QED
      BY <3>1, <3>4, <3>5
  <2>7. RefundedOnce'
    <3> SUFFICES ASSUME NEW x \in DOMAIN payments'
                 PROVE  (/\ \A i, j \in RefundRowsOf(x) : i = j
                         /\ \A i \in RefundRowsOf(x) :
                                /\ payments[x].refunded = mutation_log[i].amount
                                /\ payments[x].status = "REFUNDED"
                         /\ RefundRowsOf(x) = {} => payments[x].refunded = 0)'
      BY DEF RefundedOnce
    <3>1. CASE x = o
      <4>1. payments'[o].refunded = mutation_log'[n].amount
        BY <1>3, <2>3, <2>4, <2>5, <2>6
      <4>2. RefundRowsOf(x)' = {n}
        BY <1>2, <2>6, <3>1
      <4> QED
        BY <2>3, <3>1, <4>1, <4>2
    <3>2. CASE x # o
      <4>1. /\ RefundRowsOf(x)' = RefundRowsOf(x)
            /\ payments'[x] = payments[x] /\ x \in DOMAIN payments
            /\ \A i \in RefundRowsOf(x) : mutation_log'[i] = mutation_log[i]
        BY <1>3, <2>3, <2>6, <3>2 DEF RefundRowsOf
      <4> QED
        BY <1>2, <4>1 DEF RefundedOnce
    <3> QED
      BY <3>1, <3>2
  <2>8. CallsPinned'
    <3> SUFFICES ASSUME NEW q \in Runs, phase'[q] \in {"lookup", "commit"},
                        call'[q].proposal.action = "issue_refund"
                 PROVE  CallPinned(q)'
      BY DEF CallsPinned
    <3> DEFINE x == call[q].proposal.order
               target == call[q].target
    <3>1. CallPinned(q) /\ phase'[q] = phase[q] /\ call'[q] = call[q]
      BY <1>2, <1>5 DEF CallsPinned
    <3>2. target \in Target /\ target.version \in Nat
      BY <3>1 DEF CallPinned, Target
    <3>3. CASE x = o
      <4>1. target.version < payments'[o].version
        BY <2>3, <2>4, <3>1, <3>2, <3>3 DEF CallPinned
      <4>2. target.version <= payments'[o].version
        BY <2>3, <2>4, <3>2, <4>1
      <4> QED
        BY <2>3, <3>1, <3>3, <4>1, <4>2 DEF CallPinned
    <3>4. CASE x # o
      <4>1. payments'[x] = payments[x] /\ RefundRowsOf(x)' = RefundRowsOf(x)
        BY <2>3, <2>6, <3>1, <3>4 DEF CallPinned
      <4> QED
        BY <1>2, <2>3, <3>1, <4>1 DEF CallPinned
    <3> QED
      BY <3>3, <3>4
  <2> QED
    BY <2>7, <2>8 DEF RefundInv
<1> QED
    BY <1>6, <1>7

(* Every step keeps the refund invariant.                                  *)
LEMMA RefundInvNext == TypeOK /\ LedgerInv /\ RefundInv /\ [Next]_vars => RefundInv'
<1> SUFFICES ASSUME TypeOK, LedgerInv, RefundInv, [Next]_vars PROVE RefundInv'
    OBVIOUS
<1>p. CallsPinned
    BY DEF RefundInv
<1>1. ASSUME UNCHANGED <<payments, mutation_log>>,
             \A q \in Runs : phase'[q] \in {"lookup", "commit"} =>
                phase'[q] = phase[q] /\ call'[q] = call[q]
      PROVE  RefundInv'
    BY <1>p, <1>1, StillPinned, RefundUntouched
<1>2. ASSUME NEW r \in Runs, Issue(r) PROVE RefundInv'
    BY <1>1, <1>2 DEF Issue, IssuePermit, resourceVars
<1>3. ASSUME NEW r \in Runs, Present(r) PROVE RefundInv'
  <2>1. UNCHANGED <<payments, mutation_log>>
    BY <1>3 DEF Present, Load, storeVars
  <2>2. \A q \in Runs : phase'[q] \in {"lookup", "commit"} =>
                phase'[q] = phase[q] /\ call'[q] = call[q]
    BY <1>3 DEF Present, Load, GoTo, TypeOK
  <2> QED
    BY <1>1, <2>1, <2>2
<1>4. ASSUME NEW r \in Runs, Resolve(r) PROVE RefundInv'
    BY <1>4, ResolvePinned, RefundUntouched DEF Resolve, storeVars
<1>5. ASSUME NEW r \in Runs, Lookup(r) PROVE RefundInv'
    BY <1>5, LookupPinned, RefundUntouched DEF Lookup, storeVars
<1>6. ASSUME NEW r \in Runs, Commit(r) PROVE RefundInv'
    BY <1>6, CommitPinned
<1>7. ASSUME NEW r \in Runs, CommitStale(r) \/ CommitConflict(r) \/ Respond(r)
      PROVE  RefundInv'
  <2>1. UNCHANGED <<payments, mutation_log>>
    BY <1>7 DEF CommitStale, CommitConflict, Respond, storeVars
  <2>2. \E kind, reason, result : Finish(r, kind, reason, result)
    BY <1>7 DEF CommitStale, CommitConflict, Respond, Reject
  <2>3. \A q \in Runs : phase'[q] \in {"lookup", "commit"} =>
                phase'[q] = phase[q] /\ call'[q] = call[q]
    BY <2>2 DEF Finish, TypeOK
  <2> QED
    BY <1>1, <2>1, <2>3
<1>8. ASSUME WorldStep, UNCHANGED executorVars PROVE RefundInv'
    BY <1>8, WorldPinned
<1>9. ASSUME UNCHANGED vars PROVE RefundInv'
    BY <1>1, <1>9 DEF vars, storeVars, executorVars
<1> QED
    BY <1>2, <1>3, <1>4, <1>5, <1>6, <1>7, <1>8, <1>9 DEF Next, CallStep

(* A payment is refunded at most once, by what the ledger shows, however   *)
(* many permits name it and however calls and edits interleave.            *)
THEOREM OneRefund == Spec => []RefundedOnce
<1>1. Init => TypeOK /\ LedgerInv /\ RefundInv
    BY InitTypes, LedgerInvInit, RefundInvInit
<1>2. TypeOK /\ LedgerInv /\ RefundInv /\ [Next]_vars
        => TypeOK' /\ LedgerInv' /\ RefundInv'
    BY NextTypes, LedgerInvNext, RefundInvNext
<1>3. RefundInv => RefundedOnce
    BY DEF RefundInv
<1> QED
    BY <1>1, <1>2, <1>3, PTL DEF Spec

-----------------------------------------------------------------------------
(* What a caller is told.                                                  *)

(* An answer that names a result names a row of the ledger.                *)
AnswerIsTrue(a) ==
    a # NULL /\ a.result # NULL =>
        \E i \in DOMAIN mutation_log :
            /\ mutation_log[i].by = a.permit
            /\ mutation_log[i].action = a.result.action
            /\ mutation_log[i].resource = a.result.resource
            /\ mutation_log[i].amount = a.result.amount

(* A permit that was spent when it was presented is answered with its      *)
(* record, or with a rejection that does not look at it.                   *)
AnswerReplays(a) ==
    a # NULL /\ a.spent =>
        \/ a.kind = "replayed"
        \/ a.reason \in {"permit_action_mismatch",
                          "permit_resource_mismatch", "permit_expired"}

(* Both, of every run's last answer.                                       *)
AnswersOK == \A r \in Runs : AnswerIsTrue(answer[r]) /\ AnswerReplays(answer[r])

(* The ledger only grows, so an answer stays true.                         *)
LEMMA StillTrue ==
    ASSUME NEW a, AnswerIsTrue(a),
           \A i \in DOMAIN mutation_log :
                i \in DOMAIN mutation_log' /\ mutation_log'[i] = mutation_log[i]
    PROVE  a # NULL /\ a.result # NULL =>
        \E i \in DOMAIN mutation_log' :
            /\ mutation_log'[i].by = a.permit
            /\ mutation_log'[i].action = a.result.action
            /\ mutation_log'[i].resource = a.result.resource
            /\ mutation_log'[i].amount = a.result.amount
    BY DEF AnswerIsTrue

(* The record stored under a permit's key is what the ledger says was done *)
(* under that permit.                                                      *)
LEMMA RecordIsTrue ==
    ASSUME LedgerInv, NEW p \in DOMAIN permits, permits[p].key \in DOMAIN records
    PROVE  \E i \in DOMAIN mutation_log :
            /\ mutation_log[i].by = p
            /\ mutation_log[i].action = records[permits[p].key].action
            /\ mutation_log[i].resource = records[permits[p].key].resource
            /\ mutation_log[i].amount = records[permits[p].key].amount
<1>1. PICK i \in DOMAIN mutation_log : mutation_log[i].by = p
    BY DEF LedgerInv, LedgerAgrees
<1>2. records[permits[p].key] =
        [action |-> mutation_log[i].action, resource |-> mutation_log[i].resource,
         amount |-> mutation_log[i].amount,
         created |-> CreatedId(mutation_log[i].action, mutation_log[i].by)]
    BY <1>1, Zenon DEF LedgerInv, LedgerAgrees
<1> QED
    BY <1>1, <1>2

(* A step that answers nobody.                                             *)
LEMMA NoAnswer ==
    ASSUME AnswersOK, UNCHANGED answer,
           \A i \in DOMAIN mutation_log :
                i \in DOMAIN mutation_log' /\ mutation_log'[i] = mutation_log[i]
    PROVE  AnswersOK'
<1> SUFFICES ASSUME NEW r \in Runs
             PROVE  AnswerIsTrue(answer[r])' /\ AnswerReplays(answer[r])'
    BY DEF AnswersOK
<1>1. AnswerIsTrue(answer[r]) /\ AnswerReplays(answer[r]) /\ answer'[r] = answer[r]
    BY DEF AnswersOK
<1>2. AnswerReplays(answer[r])'
    BY <1>1 DEF AnswerReplays
<1>3. AnswerIsTrue(answer[r])'
    BY <1>1, StillTrue DEF AnswerIsTrue
<1> QED
    BY <1>2, <1>3

(* A step that answers one run, truly, and writes nothing.                 *)
LEMMA NewAnswer ==
    ASSUME TypeOK, AnswersOK, UNCHANGED mutation_log, NEW r \in Runs, NEW a,
           AnswerIsTrue(a), AnswerReplays(a), answer' = [answer EXCEPT ![r] = a]
    PROVE  AnswersOK'
<1> SUFFICES ASSUME NEW q \in Runs
             PROVE  AnswerIsTrue(answer[q])' /\ AnswerReplays(answer[q])'
    BY DEF AnswersOK
<1>1. answer'[q] = IF q = r THEN a ELSE answer[q]
    BY DEF TypeOK
<1>2. AnswerIsTrue(answer'[q]) /\ AnswerReplays(answer'[q])
    BY <1>1 DEF AnswersOK
<1> QED
    BY <1>2 DEF AnswerIsTrue, AnswerReplays

(* A call that ends keeps the answers true if its own is.                  *)
LEMMA FinishAnswers ==
    ASSUME TypeOK, AnswersOK, UNCHANGED mutation_log, NEW r \in Runs,
           NEW kind, NEW reason, NEW result, Finish(r, kind, reason, result),
           AnswerIsTrue(Answer(kind, reason, result, call[r].permit, call[r].row.used)),
           AnswerReplays(Answer(kind, reason, result, call[r].permit, call[r].row.used))
    PROVE  AnswersOK'
    BY NewAnswer DEF Finish

(* A call that ends without a result and without a spent permit.           *)
LEMMA PlainEnd ==
    ASSUME TypeOK, AnswersOK, UNCHANGED mutation_log, NEW r \in Runs,
           NEW kind, NEW reason, Finish(r, kind, reason, NULL),
           \/ ~call[r].row.used
           \/ reason \in {"permit_action_mismatch", "permit_resource_mismatch",
                          "permit_expired"}
    PROVE  AnswersOK'
    BY FinishAnswers DEF Answer, AnswerIsTrue, AnswerReplays

(* Checks 1 and 2 answer truly.                                            *)
LEMMA LoadAnswers ==
    ASSUME TypeOK, AnswersOK, NEW r \in Runs, NEW p, NEW proposal, Load(r, p, proposal)
    PROVE  AnswersOK'
<1> DEFINE row == IF p \in DOMAIN permits THEN permits[p] ELSE NULL
           a == IF row = NULL
                  THEN Answer("rejected", "permit_missing", NULL, p, FALSE)
                  ELSE Answer("rejected", "permit_action_mismatch", NULL, p, row.used)
<1>1. UNCHANGED mutation_log
    BY DEF Load, storeVars
<1>2. AnswerIsTrue(NULL) /\ AnswerReplays(NULL)
    BY DEF AnswerIsTrue, AnswerReplays
<1>3. AnswerIsTrue(a) /\ AnswerReplays(a)
    BY DEF AnswerIsTrue, AnswerReplays, Answer
<1>4. answer' = [answer EXCEPT ![r] = NULL] \/ answer' = [answer EXCEPT ![r] = a]
    BY DEF Load
<1> HIDE DEF a
<1> QED
    BY <1>1, <1>2, <1>3, <1>4, NewAnswer

(* A used permit has a record, so checks 5 to 9 never reject it.           *)
LEMMA LookupAnswers ==
    ASSUME TypeOK, LedgerInv, AnswersOK, NEW r \in Runs, Lookup(r)
    PROVE  AnswersOK'
<1> DEFINE p == call[r].permit
           permit == call[r].row
           stored == permit.key \in DOMAIN records
           failed == FirstFailedCheck(permit, call[r].proposal, call[r].target)
<1>1. UNCHANGED mutation_log /\ phase[r] = "lookup"
    BY DEF Lookup, storeVars
<1>2. CallKnown(r)
    BY <1>1 DEF LedgerInv, CallsKnown
<1>3. /\ p \in DOMAIN permits
      /\ permit.key = permits[p].key
      /\ permit.used => permits[p].used
    BY <1>2 DEF CallKnown
<1>4. ASSUME stored, Finish(r, "replayed", "idempotent_replay", records[permit.key])
      PROVE  AnswersOK'
  <2> DEFINE result == records[permit.key]
             a == Answer("replayed", "idempotent_replay", result, p, permit.used)
  <2>1. /\ a.permit = p /\ a.result = result /\ a.kind = "replayed"
    BY DEF Answer
  <2>2. \E i \in DOMAIN mutation_log :
            /\ mutation_log[i].by = p
            /\ mutation_log[i].action = result.action
            /\ mutation_log[i].resource = result.resource
            /\ mutation_log[i].amount = result.amount
    BY <1>3, <1>4, RecordIsTrue
  <2>3. AnswerIsTrue(a) /\ AnswerReplays(a)
    <3> HIDE DEF a, result
    <3> QED
      BY <2>1, <2>2 DEF AnswerIsTrue, AnswerReplays
  <2> QED
    BY <1>1, <1>4, <2>3, FinishAnswers
<1>5. ASSUME ~(stored /\ failed # "permit_amount_exceeded"), Reject(r, failed)
      PROVE  AnswersOK'
  <2>1. ~permit.used
    <3> SUFFICES ASSUME permit.used PROVE FALSE
      OBVIOUS
    <3>1. failed = "permit_already_used"
      BY Zenon DEF FirstFailedCheck
    <3>2. PICK i \in DOMAIN mutation_log : mutation_log[i].by = p
      <4>1. permits[p].used
        BY <1>3
      <4> QED
        BY <1>3, <4>1, Zenon DEF LedgerInv, LedgerAgrees
    <3>3. permits[p].key \in DOMAIN records
      BY <3>2, Zenon DEF LedgerInv, LedgerAgrees
    <3>4. stored
      BY <1>3, <3>3
    <3> QED
      BY <1>5, <3>1, <3>4
  <2> HIDE DEF failed
  <2> QED
    BY <1>1, <1>5, <2>1, PlainEnd DEF Reject
<1>6. ASSUME UNCHANGED answer PROVE AnswersOK'
    BY <1>1, <1>6, NoAnswer
<1> HIDE DEF failed
<1> QED
    BY <1>4, <1>5, <1>6 DEF Lookup, failed

(* Every step keeps the answers true.                                      *)
LEMMA AnswersNext == TypeOK /\ LedgerInv /\ AnswersOK /\ [Next]_vars => AnswersOK'
<1> SUFFICES ASSUME TypeOK, LedgerInv, AnswersOK, [Next]_vars PROVE AnswersOK'
    OBVIOUS
<1>1. ASSUME UNCHANGED <<answer, mutation_log>> PROVE AnswersOK'
    BY <1>1, NoAnswer
<1>2. ASSUME NEW r \in Runs, Issue(r) PROVE AnswersOK'
    BY <1>1, <1>2 DEF Issue, IssuePermit
<1>3. ASSUME NEW r \in Runs, Present(r) PROVE AnswersOK'
    BY <1>3, LoadAnswers DEF Present
<1>4. ASSUME NEW r \in Runs, Resolve(r) PROVE AnswersOK'
  <2>1. UNCHANGED mutation_log
    BY <1>4 DEF Resolve, storeVars
  <2>2. \/ \E reason \in {"permit_resource_mismatch", "permit_expired"} :
                Finish(r, "rejected", reason, NULL)
        \/ UNCHANGED answer
    BY <1>4 DEF Resolve, Reject
  <2> QED
    BY <1>1, <2>1, <2>2, PlainEnd
<1>5. ASSUME NEW r \in Runs, Lookup(r) PROVE AnswersOK'
    BY <1>5, LookupAnswers
<1>6. ASSUME NEW r \in Runs, Commit(r) PROVE AnswersOK'
  <2>1. PICK n, row : CommitWrites(r, n, row)
    BY <1>6, CommitDoes DEF LedgerInv
  <2>2. UNCHANGED answer
    BY <1>6 DEF Commit
  <2> QED
    BY <2>1, <2>2, NoAnswer DEF CommitWrites
<1>7. ASSUME NEW r \in Runs, CommitStale(r) \/ CommitConflict(r) PROVE AnswersOK'
  <2>1. UNCHANGED mutation_log /\ phase[r] = "commit"
    BY <1>7 DEF CommitStale, CommitConflict, storeVars
  <2>2. ~call[r].row.used
    BY <2>1 DEF LedgerInv, CallsKnown, CallKnown
  <2>3. \E kind, reason : Finish(r, kind, reason, NULL)
    BY <1>7 DEF CommitStale, CommitConflict, Reject
  <2> QED
    BY <2>1, <2>2, <2>3, PlainEnd
<1>8. ASSUME NEW r \in Runs, Respond(r) PROVE AnswersOK'
  <2> DEFINE p == call[r].permit
             result == ResultOf(p, call[r].row, call[r].proposal)
  <2>1. UNCHANGED mutation_log /\ phase[r] = "respond"
    BY <1>8 DEF Respond, storeVars
  <2>2. /\ ~call[r].row.used
        /\ p \in DOMAIN permits
        /\ permits[p].key \in DOMAIN records
        /\ records[permits[p].key] = result
    <3>1. CallKnown(r)
      BY <2>1 DEF LedgerInv, CallsKnown
    <3> QED
      BY <2>1, <3>1 DEF CallKnown
  <2>3. PICK kind : Finish(r, kind, NULL, result)
    BY <1>8 DEF Respond
  <2> DEFINE a == Answer(kind, NULL, result, p, call[r].row.used)
  <2>4. a.permit = p /\ a.result = result /\ a.spent = call[r].row.used
    BY DEF Answer
  <2>5. \E i \in DOMAIN mutation_log :
            /\ mutation_log[i].by = p
            /\ mutation_log[i].action = result.action
            /\ mutation_log[i].resource = result.resource
            /\ mutation_log[i].amount = result.amount
    <3> HIDE DEF result
    <3> QED
      BY <2>2, RecordIsTrue
  <2>6. AnswerIsTrue(a) /\ AnswerReplays(a)
    <3> HIDE DEF a, result
    <3> QED
      BY <2>2, <2>4, <2>5 DEF AnswerIsTrue, AnswerReplays
  <2> HIDE DEF result
  <2> QED
    BY <2>1, <2>3, <2>6, FinishAnswers
<1>9. ASSUME WorldStep, UNCHANGED executorVars PROVE AnswersOK'
    BY <1>1, <1>9 DEF WorldStep, EditOrder, EditPayment, EditShipment, Tick,
                      ledgerVars, executorVars
<1>10. ASSUME UNCHANGED vars PROVE AnswersOK'
    BY <1>1, <1>10 DEF vars, storeVars, executorVars
<1> QED
    BY <1>2, <1>3, <1>4, <1>5, <1>6, <1>7, <1>8, <1>9, <1>10 DEF Next, CallStep

(* They are true in every state of every execution.                        *)
LEMMA AnswersHold == Spec => []AnswersOK
<1>1. Init => AnswersOK
    BY DEF Init, ExecutorInit, AnswersOK, AnswerIsTrue, AnswerReplays
<1>2. Init => TypeOK /\ LedgerInv
    BY InitTypes, LedgerInvInit
<1>3. TypeOK /\ LedgerInv /\ AnswersOK /\ [Next]_vars
        => TypeOK' /\ LedgerInv' /\ AnswersOK'
    BY NextTypes, LedgerInvNext, AnswersNext
<1> QED
    BY <1>1, <1>2, <1>3, PTL DEF Spec

(* Whatever a caller is told was done, first or on a replay, is a row of   *)
(* the ledger written under the permit it presented (_stored_result).      *)
THEOREM TrueAnswers == Spec => []AnswersAreTrue
<1>1. AnswersOK => AnswersAreTrue
    BY DEF AnswersOK, AnswerIsTrue, AnswersAreTrue
<1> QED
    BY <1>1, AnswersHold, PTL

(* A spent permit is replayed unless an earlier check turns the call away: *)
(* check 5, permit_already_used, is never what a caller is told.           *)
THEOREM SpentIsReplayed == Spec => []SpentPermitIsReplayed
<1>1. AnswersOK => SpentPermitIsReplayed
    BY DEF AnswersOK, AnswerReplays, SpentPermitIsReplayed
<1> QED
    BY <1>1, AnswersHold, PTL
-----------------------------------------------------------------------------
(* The trace and the ledger.                                               *)

(* What run q has announced, the event it is about to write included.      *)
Told(q) == emitted[q] + (IF phase[q] = "respond" THEN 1 ELSE 0)

LEMMA RowsAreCounted ==
    ASSUME TypeOK, NEW q
    PROVE  IsFiniteSet(MutationLogRows(q)) /\ Cardinality(MutationLogRows(q)) \in Nat
<1>1. MutationLogRows(q) \in SUBSET (1..Len(mutation_log))
    BY DEF MutationLogRows, TypeOK, StoreTypeOK
<1>2. Len(mutation_log) \in Int
    BY DEF TypeOK, StoreTypeOK
<1>3. IsFiniteSet(1..Len(mutation_log))
    BY <1>2, FS_Interval
<1> QED
    BY <1>1, <1>3, FS_Subset, FS_CardinalityType

(* A commit adds one row, to those of the run that commits.                *)
LEMMA CommitCounts ==
    ASSUME TypeOK, LedgerInv, NEW r \in Runs, Commit(r)
    PROVE  /\ Cardinality(MutationLogRows(r)') = Cardinality(MutationLogRows(r)) + 1
           /\ \A q \in Runs \ {r} : MutationLogRows(q)' = MutationLogRows(q)
<1> DEFINE n == Len(mutation_log) + 1
           row == [run |-> r, action |-> call[r].proposal.action,
                   resource |-> call[r].row.resource,
                   amount |-> AmountMoved(call[r].proposal), by |-> call[r].permit]
<1>1. call[r].row.resource = ResourceOf(call[r].proposal.action, call[r].proposal.order)
    BY DEF Commit, LedgerInv, CallsKnown, CallKnown
<1>2. mutation_log' = Append(mutation_log, row)
    BY <1>1, WriteLogs DEF Commit, LogMutation
<1>3. /\ n \notin DOMAIN mutation_log
      /\ DOMAIN mutation_log' = DOMAIN mutation_log \cup {n}
      /\ \A i \in DOMAIN mutation_log : mutation_log'[i] = mutation_log[i]
      /\ mutation_log'[n] = row
  <2>1. mutation_log \in Seq(LogRow)
    BY DEF TypeOK, StoreTypeOK
  <2> HIDE DEF row
  <2> QED
    BY <1>2, <2>1, Appended
<1>4. MutationLogRows(r)' = MutationLogRows(r) \cup {n} /\ n \notin MutationLogRows(r)
    BY <1>3 DEF MutationLogRows
<1>5. \A q \in Runs \ {r} : MutationLogRows(q)' = MutationLogRows(q)
    BY <1>3 DEF MutationLogRows
<1>6. IsFiniteSet(MutationLogRows(r))
    BY RowsAreCounted
<1> HIDE DEF n
<1> QED
    BY <1>4, <1>5, <1>6, FS_AddElement

(* A step leaves what a run has told and its rows alone, or adds one each. *)
LEMMA ToldStep ==
    ASSUME TypeOK, LedgerInv, [Next]_vars, NEW q \in Runs
    PROVE  \/ Told(q)' = Told(q) /\ MutationLogRows(q)' = MutationLogRows(q)
           \/ /\ Told(q)' = Told(q) + 1
              /\ Cardinality(MutationLogRows(q)') = Cardinality(MutationLogRows(q)) + 1
<1> DEFINE Quiet == Told(q)' = Told(q) /\ MutationLogRows(q)' = MutationLogRows(q)
<1>1. ASSUME UNCHANGED <<mutation_log, emitted>>,
             phase'[q] = "respond" <=> phase[q] = "respond"
      PROVE  Quiet
    BY <1>1 DEF Told, MutationLogRows
<1>2. ASSUME NEW r \in Runs, Issue(r) PROVE Quiet
    BY <1>1, <1>2 DEF Issue, IssuePermit
<1>3. ASSUME NEW r \in Runs, Present(r) PROVE Quiet
    BY <1>1, <1>3 DEF Present, Load, GoTo, storeVars, TypeOK
<1>4. ASSUME NEW r \in Runs, Resolve(r) PROVE Quiet
    BY <1>1, <1>4 DEF Resolve, Reject, Finish, GoTo, storeVars, TypeOK
<1>5. ASSUME NEW r \in Runs, Lookup(r) PROVE Quiet
    BY <1>1, <1>5 DEF Lookup, Reject, Finish, GoTo, storeVars, TypeOK
<1>6. ASSUME NEW r \in Runs, CommitStale(r) \/ CommitConflict(r) PROVE Quiet
    BY <1>1, <1>6 DEF CommitStale, CommitConflict, Reject, Finish, storeVars, TypeOK
<1>7. ASSUME NEW r \in Runs, Commit(r)
      PROVE  \/ Quiet
             \/ /\ Told(q)' = Told(q) + 1
                /\ Cardinality(MutationLogRows(q)') = Cardinality(MutationLogRows(q)) + 1
  <2>1. CASE q = r
    <3>1. Told(r)' = Told(r) + 1
      BY <1>7 DEF Told, Commit, GoTo, TypeOK
    <3> QED
      BY <1>7, <2>1, <3>1, CommitCounts
  <2>2. CASE q # r
    <3>1. Told(q)' = Told(q)
      BY <1>7, <2>2 DEF Told, Commit, GoTo, TypeOK
    <3> QED
      BY <1>7, <2>2, <3>1, CommitCounts
  <2> QED
    BY <2>1, <2>2
<1>8. ASSUME NEW r \in Runs, Respond(r) PROVE Quiet
  <2>1. Told(q)' = Told(q)
    BY <1>8 DEF Told, Respond, Finish, TypeOK
  <2> QED
    BY <1>8, <2>1 DEF Respond, storeVars, MutationLogRows
<1>9. ASSUME WorldStep, UNCHANGED executorVars PROVE Quiet
  <2>1. UNCHANGED mutation_log
    BY <1>9 DEF WorldStep, EditOrder, EditPayment, EditShipment, Tick, ledgerVars
  <2> QED
    BY <1>1, <1>9, <2>1 DEF executorVars
<1>10. ASSUME UNCHANGED vars PROVE Quiet
    BY <1>1, <1>10 DEF vars, storeVars, executorVars
<1> QED
    BY <1>2, <1>3, <1>4, <1>5, <1>6, <1>7, <1>8, <1>9, <1>10 DEF Next, CallStep

LEMMA NothingTold ==
    ASSUME Init, NEW q \in Runs
    PROVE  Told(q) = 0 /\ Cardinality(MutationLogRows(q)) = 0
<1>1. MutationLogRows(q) = {}
    BY DEF Init, StoreInit, MutationLogRows
<1> QED
    BY <1>1, FS_EmptySet DEF Init, ExecutorInit, Told

(* The mutation_committed events of a run and its rows of mutation_log are *)
(* equal in number, but for the one event that follows a COMMIT            *)
(* (audit.py:7-8, executor.py execute).                                    *)
THEOREM TraceCounts == Spec => []AuditCountsLedger
<1>1. Init => AuditCountsLedger
    BY NothingTold DEF AuditCountsLedger, Told
<1>2. TypeOK /\ LedgerInv /\ AuditCountsLedger /\ [Next]_vars => AuditCountsLedger'
  <2> SUFFICES ASSUME TypeOK, LedgerInv, AuditCountsLedger, [Next]_vars, NEW q \in Runs
               PROVE  Cardinality(MutationLogRows(q)') = Told(q)'
    BY DEF AuditCountsLedger, Told
  <2>1. Cardinality(MutationLogRows(q)) = Told(q)
    BY DEF AuditCountsLedger, Told
  <2> QED
    BY <2>1, ToldStep
<1> QED
    BY <1>1, <1>2, LedgerInvHolds, PTL DEF Spec
=============================================================================
