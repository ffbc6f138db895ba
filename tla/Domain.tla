------------------------------- MODULE Domain -------------------------------
(***************************************************************************)
(* The closed domain model of the refund agent: the status values a row    *)
(* may hold, the transitions the executor may perform, the three write     *)
(* actions a planner may name, and the identities the other modules use.   *)
(*                                                                         *)
(* src/app/models/domain.py and src/app/models/schemas.py.                 *)
(***************************************************************************)
EXTENDS Integers

CONSTANTS
    Orders,     \* order ids; each has at most one payment and one shipment
    Runs,       \* run ids; a run owns one connection, one issuer, one executor
    NULL        \* Python's None

ASSUME NullAssumption ==
    /\ NULL \notin Int
    /\ NULL \notin Orders
    /\ NULL \notin Runs
    /\ NULL \notin Runs \X Nat

-----------------------------------------------------------------------------
(* Row statuses and the transitions between them.                          *)

OrderStatus ==
    {"PAID", "READY_TO_SHIP", "SHIPPED", "DELIVERED", "CANCELLED"}

PaymentStatus == {"CAPTURED", "REFUNDED"}

ShipmentStatus ==
    {"PREPARING", "READY_TO_SHIP", "SHIPPED", "DELIVERED", "CANCELLED"}

OrderTransitions ==
    { <<"PAID", "READY_TO_SHIP">>, <<"PAID", "CANCELLED">>,
      <<"READY_TO_SHIP", "SHIPPED">>, <<"READY_TO_SHIP", "CANCELLED">>,
      <<"SHIPPED", "DELIVERED">> }

PaymentTransitions == { <<"CAPTURED", "REFUNDED">> }

OrderTransitionAllowed(current, target) ==
    <<current, target>> \in OrderTransitions

PaymentTransitionAllowed(current, target) ==
    <<current, target>> \in PaymentTransitions

-----------------------------------------------------------------------------
(* Write actions, and the row each is aimed at.                            *)

ActionName == {"cancel_order", "issue_refund", "create_support_ticket"}

Order(o)   == <<"order", o>>
Payment(o) == <<"payment", o>>

Resources == {"order", "payment"} \X Orders

(* The row an action is authorised against: a refund pins the payment,     *)
(* the two other actions pin the order (Executor._resolve_target).         *)
ResourceOf(action, o) ==
    IF action = "issue_refund" THEN Payment(o) ELSE Order(o)

(* What a planner may ask for, once it has passed the schema gate.         *)
Proposals(actions, amounts) ==
    [action : actions, order : Orders, amount : amounts \cup {NULL}]
=============================================================================
