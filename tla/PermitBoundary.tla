--------------------------- MODULE PermitBoundary ---------------------------
(***************************************************************************)
(* What the permit boundary promises, with none of its machinery: no       *)
(* idempotency keys, no versions, no expiry, no execution records.  A      *)
(* permit is a grant; the ledger records what was done under grants, each  *)
(* grant at most once, never more than it allows, and a payment is paid    *)
(* back at most once, by exactly the amount the ledger shows.              *)
(***************************************************************************)
EXTENDS Domain, Sequences

CONSTANTS
    PermitNames,    \* the permits that may ever be granted
    Ceilings        \* the amounts a grant may allow

VARIABLES
    grants,     \* permit id -> [action, resource, max], as issued
    ledger,     \* what was done, in order
    refunded    \* order id -> cents paid back

boundaryVars == <<grants, ledger, refunded>>

Spent(p)     == \E i \in DOMAIN ledger : ledger[i].by = p
PaidBack(o)  == \E i \in DOMAIN ledger : /\ ledger[i].action = "issue_refund"
                                        /\ ledger[i].resource = Payment(o)

Grant(p, grant) ==
    /\ p \notin DOMAIN grants
    /\ grants' = [q \in DOMAIN grants \cup {p} |-> IF q = p THEN grant ELSE grants[q]]
    /\ UNCHANGED <<ledger, refunded>>

Row(p, amount) ==
    [by |-> p, action |-> grants[p].action,
     resource |-> grants[p].resource, amount |-> amount]

(* Cancel the order, or open a ticket: no money moves.                     *)
Act(p) ==
    /\ grants[p].action # "issue_refund"
    /\ ledger' = Append(ledger, Row(p, 0))
    /\ UNCHANGED refunded

Refund(p, o, amount) ==
    /\ grants[p].action = "issue_refund"
    /\ grants[p].resource = Payment(o)
    /\ amount <= grants[p].max
    /\ ~PaidBack(o)
    /\ ledger' = Append(ledger, Row(p, amount))
    /\ refunded' = [refunded EXCEPT ![o] = @ + amount]

Spend(p) ==
    /\ ~Spent(p)
    /\ \/ Act(p)
       \/ \E o \in DOMAIN refunded : \E amount \in 0..grants[p].max :
                Refund(p, o, amount)
    /\ UNCHANGED grants

BoundaryInit ==
    /\ grants = [p \in {} |-> NULL]
    /\ ledger = <<>>
    /\ \E known \in SUBSET Orders : refunded = [o \in known |-> 0]

BoundaryNext ==
    \/ \E p \in PermitNames, action \in ActionName, resource \in Resources, max \in Ceilings :
            Grant(p, [action |-> action, resource |-> resource, max |-> max])
    \/ \E p \in DOMAIN grants : Spend(p)

BoundarySpec == BoundaryInit /\ [][BoundaryNext]_boundaryVars
=============================================================================
