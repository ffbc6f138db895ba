---------------------------- MODULE RunnerProofs ----------------------------
(***************************************************************************)
(* What a run does with the executor, proved for any orders, runs, prices, *)
(* scripts and clocks.                                                     *)
(*                                                                         *)
(* A run is a client of the executor, so all that ClientProofs keeps it    *)
(* keeps.  What its own properties need besides is what the locals of      *)
(* Runner.run still say about the tables: a snapshot, a verdict and a      *)
(* permit pin a version, and a row that still has the pinned version still *)
(* is what the policy was shown (Pinned).                                  *)
(***************************************************************************)
EXTENDS Runner, ClientProofs

AgentFields ==
    { "step", "attempt", "chained", "retried", "left", "replan", "chain", "replay",
      "proposal", "snapshot", "verdict", "last", "outcome", "reason", "report" }

Asked == Proposals(ActionName, Nat)

(* The steps at which a proposal is in hand.                               *)
Reading  == {"order", "payment", "shipment", "refund_policy", "decide"}
Spending == {"execute", "executing"}
Ticketing == {"ticket", "ticketing"}
AtWork   == Reading \cup {"issue", "escalate"} \cup Spending \cup Ticketing

AgentTyped(a) ==
    /\ DOMAIN a = AgentFields
    /\ a.step \in Steps
    /\ a.attempt \in 1..2
    /\ a.outcome \in Outcome
    /\ a.left \in 0..MaxProposals
    /\ a.step \in AtWork => a.proposal \in Asked
    /\ a.step = "propose" => a.snapshot = NoSnapshot
    /\ a.step \in Spending => a.last.proposal = a.proposal
    /\ a.step \in {"replay", "replaying"} => a.last # NULL

(* The permit of the last attempt is the run's own, and was issued for the *)
(* proposal it is presented with.                                          *)
LastKnown(r) ==
    LET last == agent[r].last  permit == permits[last.permit]
    IN  /\ last \in [permit : PermitIds, proposal : Asked]
        /\ last.permit \in DOMAIN permits
        /\ last.permit[1] = r
        /\ permit.action = last.proposal.action
        /\ permit.resource = ResourceOf(permit.action, last.proposal.order)
        /\ permit.action = "issue_refund" => permit.max = AmountOf(last.proposal)

(* So is the permit of a ticket, and it is another one.                    *)
TicketKnown(r) ==
    LET p == <<r, sequence[r]>>
    IN  /\ p \in DOMAIN permits
        /\ agent[r].last # NULL => agent[r].last.permit # p
        /\ permits[p].action = "create_support_ticket"
        /\ permits[p].resource = Order(agent[r].proposal.order)
        /\ permits[p].max = 0

(* A call is made with one of the two.                                     *)
CallOwned(r) ==
    \/ /\ agent[r].step \in {"executing", "replaying"}
       /\ call[r].permit = agent[r].last.permit
       /\ call[r].proposal = agent[r].last.proposal
    \/ /\ agent[r].step = "ticketing"
       /\ call[r].permit = <<r, sequence[r]>>
       /\ call[r].proposal = TicketProposal(agent[r].proposal.order)

AgentKnown(r) ==
    /\ AgentTyped(agent[r])
    /\ agent[r].last # NULL \/ agent[r].step \in Spending => LastKnown(r)
    /\ agent[r].step \in Ticketing => TicketKnown(r)
    /\ phase[r] # "idle" => CallOwned(r)

(* A number is used for one permit.                                        *)
NumbersGrow == \A p \in DOMAIN permits : p[2] <= sequence[p[1]]

AgentInv ==
    /\ DOMAIN agent = Runs
    /\ NumbersGrow
    /\ \A r \in Runs : AgentKnown(r)

-----------------------------------------------------------------------------
(* What was decided, and on which version of which row.                    *)

Pinned(action, o, version, max) ==
    /\ version \in Nat
    /\ max \in Nat
    /\ action \in {"cancel_order", "create_support_ticket"} =>
          o \in DOMAIN orders /\ version <= orders[o].version
    /\ action = "cancel_order" /\ ~SilentEdits /\ version = orders[o].version =>
          orders[o].status \in CancellableOrderStatuses
    /\ action = "issue_refund" =>
          /\ o \in DOMAIN payments
          /\ version <= payments[o].version
          /\ max > 0
          /\ max <= RefundLimit(RefundPolicy)
          /\ ~SilentEdits /\ version = payments[o].version =>
                payments[o].status = "CAPTURED" /\ max <= payments[o].captured

OrderSeen(o, row) ==
    /\ row.status \in OrderStatus
    /\ row.version \in Nat
    /\ o \in DOMAIN orders
    /\ row.version <= orders[o].version
    /\ ~SilentEdits /\ row.version = orders[o].version => row.status = orders[o].status

PaymentSeen(o, row) ==
    /\ row.status \in PaymentStatus
    /\ row.captured \in Nat
    /\ row.version \in Nat
    /\ o \in DOMAIN payments
    /\ row.version <= payments[o].version
    /\ ~SilentEdits /\ row.version = payments[o].version =>
            row.status = payments[o].status /\ row.captured = payments[o].captured

SnapshotFields ==
    {"now", "order", "payment", "shipment", "refund_policy", "read_failures"}

(* The records of a snapshot are rows as they were.                        *)
SnapshotKnown(a) ==
    LET s == a.snapshot  o == a.proposal.order
    IN  /\ DOMAIN s = SnapshotFields
        /\ s.order # NULL => OrderSeen(o, s.order)
        /\ s.payment # NULL => PaymentSeen(o, s.payment)
        /\ s.refund_policy # NULL => s.refund_policy = RefundPolicy

VerdictKnown(a) ==
    LET action == a.proposal.action
    IN  /\ Pinned(action, a.proposal.order, a.verdict.version, a.verdict.max)
        /\ action = "issue_refund" => a.verdict.max = AmountOf(a.proposal)

PermitPinned(p) ==
    LET permit == permits[p]
    IN  /\ permit.resource = ResourceOf(permit.action, permit.resource[2])
        /\ Pinned(permit.action, permit.resource[2], permit.version, permit.max)
        /\ PermitTTL <= permit.expires

PinInv ==
    /\ \A p \in DOMAIN permits : PermitPinned(p)
    /\ \A r \in Runs :
          /\ agent[r].step \in Reading => SnapshotKnown(agent[r])
          /\ agent[r].step = "issue" => VerdictKnown(agent[r])

-----------------------------------------------------------------------------
(* How a call may end.                                                     *)

Fits(p, proposal) == AmountOf(proposal) <= permits[p].max

(* A row that still has the version the permit pins still allows the move; *)
(* nothing was done under the permit of a call that is about to commit.    *)
CallSound(r) ==
    /\ phase[r] \in {"lookup", "commit"} /\ ~SilentEdits
            /\ call[r].target.version = call[r].row.version =>
                TransitionAllowed(call[r].proposal.action, call[r].target)
    /\ phase[r] = "commit" => call[r].row.key \notin DOMAIN records

(* The amount of a spent permit was within it, and so is that of a permit  *)
(* left behind for another proposal.                                       *)
LastFits(r) ==
    LET a == agent[r]
    IN  a.last # NULL \/ a.step \in Spending =>
          /\ permits[a.last.permit].used => Fits(a.last.permit, a.last.proposal)
          /\ a.step = "propose" \/ a.last.proposal # a.proposal =>
                Fits(a.last.permit, a.last.proposal)

AnswerSound(r) ==
    answer[r] # NULL =>
        /\ answer[r].kind # "raised"
        /\ answer[r].kind = "rejected" =>
              \/ answer[r].reason \in {"stale_resource_version", "permit_expired"}
              \/ SilentEdits /\ answer[r].reason = "transition_not_allowed"
              \/ /\ answer[r].reason = "permit_amount_exceeded"
                 /\ agent[r].proposal.action # "issue_refund"
                 /\ AmountOf(agent[r].proposal) > 0
                 /\ agent[r].step \in {"executing", "replay", "replaying", "verify",
                                       "finished", "crashed"}
        /\ agent[r].step = "executing" /\ phase[r] = "idle" =>
              /\ answer[r].kind # "rejected" => permits[agent[r].last.permit].used
              /\ answer[r].reason = "stale_resource_version" =>
                    Fits(agent[r].last.permit, agent[r].last.proposal)

CallInv ==
    \A r \in Runs :
        CallSound(r) /\ LastFits(r) /\ AnswerSound(r)

-----------------------------------------------------------------------------
(* What a run that does not chain has written, step by step.               *)

(* The permits a run has spent: one for each row it wrote.                 *)
SpentBy(r) == { p \in DOMAIN permits : p[1] = r /\ permits[p].used }

(* The agent writes rows of its own ledger only.                           *)
RowsOwned == \A i \in DOMAIN mutation_log : mutation_log[i].by[1] = mutation_log[i].run

(* What a call copied from its permit, and what it read after.             *)
CallDates(r) ==
    /\ phase[r] # "idle" => call[r].row.expires = permits[call[r].permit].expires
    /\ phase[r] \in {"lookup", "commit"} => call[r].row.version <= call[r].target.version

(* A permit under which execute() will not write any more.                 *)
Dead(p, proposal) ==
    \/ ~Fits(p, proposal)
    \/ now > permits[p].expires
    \/ VersionOf(proposal.action, proposal.order) > permits[p].version

LastDead(r) ==
    agent[r].last # NULL => Dead(agent[r].last.permit, agent[r].last.proposal)

Before == {"propose"} \cup Reading \cup {"issue", "escalate"}
After  == {"replay", "replaying", "verify"}

(* The permit in hand is the only one the run may have spent; it is spent  *)
(* if its response was lost, and dead if its execution was rejected.       *)
Spends(r) ==
    LET a == agent[r]
    IN  /\ SpentBy(r) \subseteq {a.last.permit}
        /\ a.retried => a.last.permit \in SpentBy(r)
        /\ ~a.retried /\ (a.step = "execute" \/ phase[r] \in {"resolve", "lookup", "commit"})
              => SpentBy(r) = {}
        /\ a.step = "executing" /\ phase[r] = "idle" /\ answer[r] # NULL
              /\ answer[r].kind = "rejected" => SpentBy(r) = {} /\ LastDead(r)

(* The outcome is what the run has written, and a replay adds nothing.     *)
Settled(r) ==
    LET a == agent[r]
    IN  /\ a.outcome = "denied" => SpentBy(r) = {}
        /\ a.outcome = "escalated" => \A p, q \in SpentBy(r) :
                p = q /\ permits[p].action = "create_support_ticket"
        /\ a.outcome = "completed" => SpentBy(r) = {a.last.permit}
        /\ a.outcome # "completed" =>
              /\ LastDead(r)
              /\ a.step = "replaying" =>
                    /\ phase[r] # "commit"
                    /\ phase[r] = "lookup" =>
                          FirstFailedCheck(call[r].row, call[r].proposal, call[r].target) # NULL

Reported(r) ==
    LET report == agent[r].report
    IN  /\ report.outcome = "denied" => report.mutation_count = 0
        /\ report.outcome = "escalated" =>
                report.mutation_count = report.tickets /\ report.tickets <= 1
        /\ report.outcome = "completed" =>
                report.mutation_count = 1 /\ agent[r].last.permit \in SpentBy(r)

Written(r) ==
    LET a == agent[r]
    IN  /\ a.step \in Before \cup Spending \cup Ticketing => ~a.chained
        /\ a.step \in Before \cup Ticketing => LastDead(r)
        /\ a.step \in Before \cup {"ticket"} => SpentBy(r) = {}
        /\ a.step = "ticketing" => SpentBy(r) \subseteq {<<r, sequence[r]>>}
        /\ a.step \in Spending => Spends(r)
        /\ a.step \in After => Settled(r)
        /\ a.step = "finished" => Reported(r)

NothingLost(r) ==
    Lossy = {} => /\ ~agent[r].retried
                  /\ answer[r] # NULL => answer[r].kind # "lost"

WriteInv ==
    /\ RowsOwned
    /\ \A r \in Runs : /\ CallDates(r)
                       /\ NothingLost(r)
                       /\ ~agent[r].chain => Written(r)

-----------------------------------------------------------------------------
(* How the locals of a run move on.                                        *)

(* The fields that the operators on a run's record leave alone.            *)
SameScript(a, b) ==
    /\ DOMAIN b = AgentFields
    /\ b.replan = a.replan
    /\ b.chain = a.chain
    /\ b.replay = a.replay
    /\ b.retried = a.retried
    /\ b.last = a.last

(* A stale attempt ends the run, breaks the chain, goes round again, or    *)
(* is escalated.                                                           *)
LEMMA StaleAttemptDoes ==
    ASSUME NEW a, DOMAIN a = AgentFields
    PROVE  LET b == StaleAttempt(a)
           IN  \/ b = Ended(a, "denied", "stale_resource_version")
               \/ /\ SameScript(a, b)
                  /\ b.outcome = a.outcome
                  /\ b.chained = a.chained
                  /\ b.left = a.left
                  /\ b.proposal = a.proposal
                  /\ \/ /\ a.chained
                        /\ b.step = AfterLoops(a)
                        /\ b.attempt = a.attempt
                     \/ /\ b.step = "propose"
                        /\ b.snapshot = NoSnapshot
                        /\ b.attempt = 2
                     \/ /\ b.step = "escalate"
                        /\ b.attempt = a.attempt
    BY DEF AgentFields, SameScript, StaleAttempt

LEMMA AfterLoopsIs ==
    ASSUME NEW a
    PROVE  /\ AfterLoops(a) \in {"replay", "verify"}
           /\ AfterLoops(a) = "replay" => a.last # NULL
    BY DEF AfterLoops

(* A move of one run is no move of another.                                *)
LEMMA MoveDoes ==
    ASSUME DOMAIN agent = Runs, NEW r \in Runs, NEW a, Move(r, a)
    PROVE  /\ DOMAIN agent' = Runs
           /\ agent'[r] = a
           /\ \A q \in Runs \ {r} : agent'[q] = agent[q]
    BY DEF Move

-----------------------------------------------------------------------------
(* Permits stay as they were issued, but for the used flag.                *)
PermitsStay ==
    \A p \in DOMAIN permits :
        /\ p \in DOMAIN permits'
        /\ permits'[p].action = permits[p].action
        /\ permits'[p].resource = permits[p].resource
        /\ permits'[p].version = permits[p].version
        /\ permits'[p].max = permits[p].max
        /\ permits'[p].expires = permits[p].expires
        /\ permits'[p].key = permits[p].key
        /\ permits[p].used => permits'[p].used

LEMMA IssueDoes ==
    ASSUME TypeOK, NumbersGrow, NEW r \in Runs, NEW action, NEW o, NEW version, NEW max,
           IssuePermit(r, action, o, version, max)
    PROVE  LET p == <<r, sequence[r] + 1>>
           IN  /\ p \notin DOMAIN permits
               /\ DOMAIN permits' = DOMAIN permits \cup {p}
               /\ \A q \in DOMAIN permits : permits'[q] = permits[q]
               /\ permits'[p] = NewPermit(action, o, version, max, sequence[r] + 1, r)
               /\ sequence'[r] = sequence[r] + 1
               /\ \A q \in Runs \ {r} : sequence'[q] = sequence[q]
               /\ UNCHANGED <<now, orders, payments, shipments,
                              records, refunds, tickets, mutation_log>>
               /\ NumbersGrow'
               /\ PermitsStay
<1> DEFINE p == <<r, sequence[r] + 1>>
           row == NewPermit(action, o, version, max, sequence[r] + 1, r)
<1>1. /\ permits' = InsertRow(permits, p, row)
      /\ sequence' = [sequence EXCEPT ![r] = sequence[r] + 1]
      /\ UNCHANGED <<now, orders, payments, shipments,
                     records, refunds, tickets, mutation_log>>
    BY DEF IssuePermit, resourceVars
<1>2. sequence \in [Runs -> Nat] /\ DOMAIN permits \subseteq Runs \X Nat
    BY DEF TypeOK, StoreTypeOK, IsTable, PermitIds
<1>3. /\ sequence'[r] = sequence[r] + 1
      /\ \A q \in Runs \ {r} : sequence'[q] = sequence[q]
    BY <1>1, <1>2
<1>4. p[1] = r /\ p[2] = sequence[r] + 1 /\ sequence[r] \in Nat
    BY <1>2
<1>5. p \notin DOMAIN permits
    BY <1>4 DEF NumbersGrow
<1> HIDE DEF p, row
<1>6. /\ DOMAIN permits' = DOMAIN permits \cup {p}
      /\ \A q \in DOMAIN permits : permits'[q] = permits[q]
      /\ permits'[p] = row
    BY <1>1, <1>5, Zenon DEF InsertRow
<1>7. NumbersGrow'
  <2> SUFFICES ASSUME NEW q \in DOMAIN permits' PROVE q[2] <= sequence'[q[1]]
    BY DEF NumbersGrow
  <2>1. CASE q = p
    BY <1>3, <1>4, <2>1
  <2>2. CASE q \in DOMAIN permits
    <3>1. q[2] <= sequence[q[1]] /\ q[1] \in Runs /\ q[2] \in Nat
      BY <1>2, <2>2 DEF NumbersGrow
    <3>2. sequence[q[1]] <= sequence'[q[1]] /\ sequence[q[1]] \in Nat /\ sequence'[q[1]] \in Nat
      BY <1>2, <1>3, <1>4, <3>1
    <3> QED
      BY <3>1, <3>2
  <2> QED
    BY <1>6, <2>1, <2>2
<1>8. PermitsStay
    BY <1>6 DEF PermitsStay
<1> QED
    BY <1>1, <1>3, <1>5, <1>6, <1>7, <1>8 DEF p, row

(* The permit that a run gets next, as it asked for it.                    *)
LEMMA IssuedAs ==
    ASSUME TypeOK, NumbersGrow, NEW r \in Runs, NEW action, NEW o, NEW version, NEW max,
           IssuePermit(r, action, o, version, max), NEW p, p = <<r, sequence[r] + 1>>
    PROVE  /\ sequence'[r] = sequence[r] + 1
           /\ p = <<r, sequence'[r]>>
           /\ permits'[p].action = action
           /\ permits'[p].version = version
           /\ ~permits'[p].used
<1>1. sequence'[r] = sequence[r] + 1
    BY IssueDoes
<1>2. permits'[p] = NewPermit(action, o, version, max, sequence[r] + 1, r)
    BY IssueDoes
<1> QED
    BY <1>1, <1>2 DEF NewPermit

LEMMA CommitSpends ==
    ASSUME TypeOK, LedgerInv, NEW r \in Runs, Commit(r)
    PROVE  PermitsStay /\ DOMAIN permits' = DOMAIN permits
<1> DEFINE p == call[r].permit
<1>1. p \in DOMAIN permits
    BY DEF LedgerInv, CallsKnown, CallKnown, Commit
<1>2. permits' = [permits EXCEPT ![p].used = TRUE]
    BY DEF Commit
<1>3. permits \in [DOMAIN permits -> PermitRow]
    BY DEF TypeOK, StoreTypeOK, IsTable
<1> HIDE DEF p
<1>4. /\ DOMAIN permits' = DOMAIN permits
      /\ \A q \in DOMAIN permits : q # p => permits'[q] = permits[q]
      /\ permits'[p] = [permits[p] EXCEPT !.used = TRUE]
    BY <1>1, <1>2, <1>3
<1>5. permits[p] \in PermitRow
    BY <1>1, <1>3
<1> QED
    BY <1>4, <1>5 DEF PermitsStay, PermitRow

(* Whatever is presented, and whatever the world does, no permit changes.  *)
LEMMA PermitsKept ==
    ASSUME TypeOK, LedgerInv,
           \/ \E r \in Runs : CallStep(r)
           \/ WorldStep
           \/ UNCHANGED permits
    PROVE  PermitsStay /\ DOMAIN permits' = DOMAIN permits
<1>1. ASSUME UNCHANGED permits PROVE PermitsStay /\ DOMAIN permits' = DOMAIN permits
    BY <1>1 DEF PermitsStay
<1>2. ASSUME WorldStep PROVE UNCHANGED permits
    BY <1>2 DEF WorldStep, EditOrder, EditPayment, EditShipment, Tick, ledgerVars
<1>3. ASSUME NEW r \in Runs,
             Resolve(r) \/ Lookup(r) \/ CommitStale(r) \/ CommitConflict(r) \/ Respond(r)
      PROVE  UNCHANGED permits
    BY <1>3 DEF Resolve, Lookup, CommitStale, CommitConflict, Respond, storeVars
<1> QED
    BY <1>1, <1>2, <1>3, CommitSpends DEF CallStep

(* A permit in the table is loaded.                                        *)
LEMMA LoadDoes ==
    ASSUME TypeOK, NEW r \in Runs, NEW p \in DOMAIN permits, NEW proposal,
           permits[p].action = proposal.action, Load(r, p, proposal)
    PROVE  /\ phase[r] = "idle"
           /\ phase'[r] = "resolve"
           /\ call'[r] = [permit |-> p, proposal |-> proposal,
                          row |-> permits[p], target |-> NULL]
           /\ answer'[r] = NULL
           /\ UNCHANGED storeVars
           /\ UNCHANGED <<sequence, emitted>>
<1>1. permits[p] # NULL
    BY RowAssumption DEF TypeOK, StoreTypeOK, IsTable
<1> QED
    BY <1>1 DEF Load, GoTo, TypeOK

(* A call keeps its permit and its proposal as long as it lasts.           *)
LEMMA CallGoesOn ==
    ASSUME TypeOK, NEW r \in Runs, CallStep(r)
    PROVE  /\ phase[r] # "idle"
           /\ sequence' = sequence
           /\ phase'[r] # "idle" => /\ call'[r].permit = call[r].permit
                                    /\ call'[r].proposal = call[r].proposal
<1>1. ASSUME Commit(r)
      PROVE  phase[r] = "commit" /\ phase'[r] = "respond" /\ call'[r] = call[r]
                /\ sequence' = sequence
    BY <1>1 DEF Commit, GoTo, TypeOK
<1>2. ASSUME CommitStale(r) \/ CommitConflict(r) \/ Respond(r)
      PROVE  phase[r] # "idle" /\ phase'[r] = "idle" /\ sequence' = sequence
    BY <1>2, EndDoes DEF CallEnds, CommitStale, CommitConflict, Respond
<1> QED
    BY <1>1, <1>2, ResolveDoes, LookupDoes DEF CallStep, CallEnds

-----------------------------------------------------------------------------
(* What the policy decides.                                                *)

LEMMA Decides ==
    ASSUME NEW proposal \in Asked, NEW s
    PROVE  Evaluate(proposal, s).decision \in {"allow", "deny", "escalate"}
<1>1. proposal.action \in {"cancel_order", "issue_refund", "create_support_ticket"}
    BY DEF Asked, Proposals, ActionName
<1> USE DEF Deny, Escalate, Allow
<1>2. EvaluateCancel(proposal, s).decision \in {"allow", "deny", "escalate"}
    BY DEF EvaluateCancel
<1>3. EvaluateRefund(proposal, s).decision \in {"allow", "deny", "escalate"}
    BY DEF EvaluateRefund
<1>4. EvaluateTicket(proposal, s).decision \in {"allow", "deny", "escalate"}
    BY DEF EvaluateTicket
<1> QED
    BY <1>1, <1>2, <1>3, <1>4 DEF Evaluate

(* What must have been in the snapshot of a proposal that is allowed, and  *)
(* what it is allowed.                                                     *)
LEMMA AllowMeans ==
    ASSUME NEW proposal \in Asked, NEW s, Evaluate(proposal, s).decision = "allow"
    PROVE  LET verdict == Evaluate(proposal, s)
           IN  /\ s.order # NULL
               /\ proposal.action # "issue_refund" =>
                    verdict.version = s.order.version /\ verdict.max = 0
               /\ proposal.action = "cancel_order" =>
                    s.order.status \in CancellableOrderStatuses
               /\ proposal.action = "issue_refund" =>
                    /\ s.payment # NULL /\ s.refund_policy # NULL
                    /\ s.payment.status # "REFUNDED"
                    /\ proposal.amount # NULL
                    /\ ~(proposal.amount <= 0)
                    /\ ~(proposal.amount > s.payment.captured)
                    /\ ~(proposal.amount > RefundLimit(s.refund_policy))
                    /\ verdict.version = s.payment.version
                    /\ verdict.max = proposal.amount
<1> DEFINE verdict == Evaluate(proposal, s)
<1>1. proposal.action \in {"cancel_order", "issue_refund", "create_support_ticket"}
    BY DEF Asked, Proposals, ActionName
<1>2. /\ \A reason : Deny(reason).decision # "allow"
      /\ \A reason, order : Escalate(reason, order).decision # "allow"
      /\ \A reason, max, resource, version :
            /\ Allow(reason, max, resource, version).max = max
            /\ Allow(reason, max, resource, version).version = version
    BY DEF Deny, Escalate, Allow
<1>3. MissingRecords(proposal, s) = {}
    BY <1>2 DEF Evaluate
<1>4. \A name \in RequiredRecords(proposal.action) : s[name] # NULL
    BY <1>3 DEF MissingRecords
<1>5. s.order # NULL
    BY <1>1, <1>4 DEF RequiredRecords
<1>6. CASE proposal.action = "cancel_order"
  <2>1. verdict = EvaluateCancel(proposal, s)
    BY <1>2, <1>6 DEF Evaluate
  <2> QED
    BY <1>2, <1>5, <1>6, <2>1 DEF EvaluateCancel
<1>7. CASE proposal.action = "issue_refund"
  <2>1. verdict = EvaluateRefund(proposal, s)
    BY <1>2, <1>7 DEF Evaluate
  <2>2. s.payment # NULL /\ s.refund_policy # NULL
    BY <1>4, <1>7 DEF RequiredRecords
  <2> QED
    BY <1>2, <1>5, <1>7, <2>1, <2>2 DEF EvaluateRefund
<1>8. CASE proposal.action = "create_support_ticket"
  <2>1. verdict = EvaluateTicket(proposal, s)
    BY <1>2, <1>8 DEF Evaluate
  <2> QED
    BY <1>2, <1>5, <1>8, <2>1 DEF EvaluateTicket
<1> QED
    BY <1>1, <1>6, <1>7, <1>8

-----------------------------------------------------------------------------
(* What was pinned stays pinned while rows move on.                        *)

LEMMA PinStays ==
    ASSUME VersionsGrow, ~SilentEdits => VersionsTell,
           NEW action, NEW o, NEW version, NEW max, Pinned(action, o, version, max)
    PROVE  Pinned(action, o, version, max)'
<1>1. ASSUME o \in DOMAIN orders, version \in Nat, version <= orders[o].version
      PROVE  /\ o \in DOMAIN orders'
             /\ version <= orders'[o].version
             /\ ~SilentEdits /\ version = orders'[o].version =>
                    version = orders[o].version /\ orders'[o] = orders[o]
    BY <1>1 DEF VersionsGrow, VersionsTell
<1>2. ASSUME o \in DOMAIN payments, version \in Nat, version <= payments[o].version
      PROVE  /\ o \in DOMAIN payments'
             /\ version <= payments'[o].version
             /\ ~SilentEdits /\ version = payments'[o].version =>
                    version = payments[o].version /\ payments'[o] = payments[o]
    BY <1>2 DEF VersionsGrow, VersionsTell
<1> QED
    BY <1>1, <1>2 DEF Pinned

LEMMA OrderStays ==
    ASSUME VersionsGrow, ~SilentEdits => VersionsTell,
           NEW o, NEW row, OrderSeen(o, row)
    PROVE  OrderSeen(o, row)'
    BY DEF VersionsGrow, VersionsTell, OrderSeen

LEMMA PaymentStays ==
    ASSUME VersionsGrow, ~SilentEdits => VersionsTell,
           NEW o, NEW row, PaymentSeen(o, row)
    PROVE  PaymentSeen(o, row)'
    BY DEF VersionsGrow, VersionsTell, PaymentSeen

LEMMA SnapshotStays ==
    ASSUME VersionsGrow, ~SilentEdits => VersionsTell, NEW q,
           agent'[q] = agent[q], SnapshotKnown(agent[q])
    PROVE  SnapshotKnown(agent[q])'
<1> DEFINE s == agent[q].snapshot
           o == agent[q].proposal.order
<1>1. OrderSeen(o, s.order) => OrderSeen(o, s.order)'
    BY OrderStays DEF OrderSeen, VersionsGrow, VersionsTell
<1>2. PaymentSeen(o, s.payment) => PaymentSeen(o, s.payment)'
    BY PaymentStays DEF PaymentSeen, VersionsGrow, VersionsTell
<1> QED
    BY <1>1, <1>2 DEF SnapshotKnown, OrderSeen, PaymentSeen

LEMMA VerdictStays ==
    ASSUME VersionsGrow, ~SilentEdits => VersionsTell, NEW q,
           agent'[q] = agent[q], VerdictKnown(agent[q])
    PROVE  VerdictKnown(agent[q])'
<1> DEFINE a == agent[q]
<1>1. PICK action, o, version, max :
            /\ action = a.proposal.action /\ o = a.proposal.order
            /\ version = a.verdict.version /\ max = a.verdict.max
    OBVIOUS
<1>2. Pinned(action, o, version, max)'
    BY <1>1, PinStays DEF VerdictKnown
<1> QED
    BY <1>1, <1>2 DEF VerdictKnown, Pinned

LEMMA PermitPinStays ==
    ASSUME VersionsGrow, ~SilentEdits => VersionsTell, PermitsStay,
           NEW p \in DOMAIN permits, PermitPinned(p)
    PROVE  PermitPinned(p)'
<1>1. PICK action, o, version, max :
            /\ action = permits[p].action /\ o = permits[p].resource[2]
            /\ version = permits[p].version /\ max = permits[p].max
    OBVIOUS
<1>2. Pinned(action, o, version, max)'
    BY <1>1, PinStays DEF PermitPinned
<1>3. /\ permits'[p].action = action /\ permits'[p].resource[2] = o
      /\ permits'[p].version = version /\ permits'[p].max = max
      /\ permits'[p].resource = permits[p].resource
      /\ permits'[p].expires = permits[p].expires
    BY <1>1 DEF PermitsStay
<1>4. permits'[p].resource = ResourceOf(action, o) /\ PermitTTL <= permits'[p].expires
    BY <1>1, <1>3 DEF PermitPinned
<1> QED
    BY <1>2, <1>3, <1>4 DEF PermitPinned, Pinned, ResourceOf

-----------------------------------------------------------------------------
(* The steps of a run, one lemma each.                                     *)

OnlyOf(r) ==
    /\ DOMAIN agent' = Runs
    /\ \A q \in Runs \ {r} : agent'[q] = agent[q]

SameAttempt(a, b) ==
    /\ SameScript(a, b)
    /\ b.outcome = a.outcome
    /\ b.chained = a.chained
    /\ b.attempt = a.attempt
    /\ b.left = a.left
    /\ b.proposal = a.proposal

(* The attempt is over; after a success the chain may go on.               *)
AttemptEnds(a, b, outcome) ==
    /\ SameScript(a, b)
    /\ b.outcome = outcome
    /\ b.chained = TRUE
    /\ b.attempt = 1
    /\ b.snapshot = NoSnapshot
    /\ b.left \in 0..MaxProposals
    /\ b.left <= a.left
    /\ b.proposal = a.proposal
    /\ b.step \in {"propose", "replay", "verify"}
    /\ b.step = "propose" => outcome = "completed" /\ a.chain
    /\ b.step = "replay" => a.last # NULL

LEMMA EndedEnds ==
    ASSUME NEW a, DOMAIN a = AgentFields, a.left \in 0..MaxProposals,
           NEW outcome, NEW reason
    PROVE  AttemptEnds(a, Ended(a, outcome, reason), outcome)
<1> DEFINE b == Ended(a, outcome, reason)
           next == IF a.chain /\ outcome = "completed" /\ a.left > 0
                     THEN "propose" ELSE AfterLoops(a)
<1>1. /\ AfterLoops(a) \in {"replay", "verify"}
      /\ AfterLoops(a) = "replay" => a.last # NULL
    BY AfterLoopsIs
<1>2. /\ next \in {"propose", "replay", "verify"}
      /\ next = "propose" => outcome = "completed" /\ a.chain
      /\ next = "replay" => a.last # NULL
    BY <1>1
<1>3. /\ SameScript(a, b)
      /\ b.outcome = outcome /\ b.chained = TRUE /\ b.attempt = 1
      /\ b.left = a.left /\ b.proposal = a.proposal /\ b.snapshot = NoSnapshot
    BY DEF AgentFields, SameScript, Ended
<1>4. b.step = next
    BY DEF AgentFields, Ended
<1> HIDE DEF b, next
<1>5. b.left \in 0..MaxProposals /\ b.left <= a.left
    BY <1>3, RunnerAssumption
<1>6. AttemptEnds(a, b, outcome)
    BY <1>2, <1>3, <1>4, <1>5 DEF AttemptEnds
<1> QED
    BY <1>6 DEF b

LEMMA ProposeDoes ==
    ASSUME AgentInv, NEW r \in Runs, Propose(r)
    PROVE  LET a == agent[r]  b == agent'[r]
           IN  /\ a.step = "propose"
               /\ UNCHANGED vars
               /\ OnlyOf(r)
               /\ \/ AttemptEnds(a, b, "denied")
                  \/ /\ SameScript(a, b)
                     /\ b.step = "order"
                     /\ b.proposal \in Asked
                     /\ b.proposal \in Proposals(Actions, Amounts)
                     /\ b.snapshot = a.snapshot
                     /\ b.outcome = a.outcome
                     /\ b.chained = a.chained
                     /\ b.attempt = a.attempt
                     /\ b.left \in 0..MaxProposals
                     /\ b.left + 1 = a.left
<1> DEFINE a == agent[r]
           left == IF a.left > 0 THEN a.left - 1 ELSE 0
           c == [a EXCEPT !.left = left]
<1>1. DOMAIN agent = Runs /\ DOMAIN a = AgentFields /\ a.left \in 0..MaxProposals
    BY DEF AgentInv, AgentKnown, AgentTyped
<1>2. left \in 0..MaxProposals /\ left <= a.left /\ (a.left > 0 => left + 1 = a.left)
    BY <1>1, RunnerAssumption
<1>3. a.step = "propose" /\ UNCHANGED vars
    BY DEF Propose
<1> HIDE DEF a, left
<1>4. DOMAIN c = AgentFields /\ c.left = left /\ c.last = a.last /\ c.chain = a.chain
        /\ c.replan = a.replan /\ c.replay = a.replay /\ c.retried = a.retried
        /\ c.proposal = a.proposal
    BY <1>1 DEF AgentFields
<1>5. ASSUME NEW reason, Move(r, Ended(c, "denied", reason))
      PROVE  OnlyOf(r) /\ AttemptEnds(a, agent'[r], "denied")
  <2>1. AttemptEnds(c, Ended(c, "denied", reason), "denied")
    BY <1>2, <1>4, EndedEnds
  <2>2. OnlyOf(r) /\ agent'[r] = Ended(c, "denied", reason)
    BY <1>1, <1>5, MoveDoes DEF OnlyOf
  <2>3. agent'[r].left <= a.left
    BY <1>1, <1>2, <1>4, <2>1, <2>2, RunnerAssumption DEF AttemptEnds
  <2> HIDE DEF c
  <2> QED
    BY <1>4, <2>1, <2>2, <2>3 DEF AttemptEnds, SameScript
<1>6. ASSUME NEW proposal \in Proposals(Actions, Amounts),
             Move(r, [a EXCEPT !.left = left, !.proposal = proposal, !.step = "order"])
      PROVE  LET b == agent'[r]
             IN  /\ OnlyOf(r)
                 /\ SameScript(a, b)
                 /\ b.step = "order"
                 /\ b.proposal \in Asked
                 /\ b.proposal \in Proposals(Actions, Amounts)
                 /\ b.snapshot = a.snapshot
                 /\ b.outcome = a.outcome
                 /\ b.chained = a.chained
                 /\ b.attempt = a.attempt
                 /\ b.left = left
  <2>1. proposal \in Asked
    BY ExecutorAssumption, Zenon DEF Proposals, Asked
  <2>2. OnlyOf(r) /\ agent'[r] = [a EXCEPT !.left = left, !.proposal = proposal, !.step = "order"]
    BY <1>1, <1>6, MoveDoes DEF OnlyOf
  <2> QED
    BY <1>1, <1>2, <2>1, <2>2 DEF SameScript, AgentFields
<1>7. \/ \E reason : Move(r, Ended(c, "denied", reason))
      \/ a.left > 0 /\ \E proposal \in Proposals(Actions, Amounts) :
            Move(r, [a EXCEPT !.left = left, !.proposal = proposal, !.step = "order"])
    BY Zenon DEF Propose, a, left
<1> HIDE DEF c
<1> QED
    BY <1>2, <1>3, <1>5, <1>6, <1>7 DEF a

LEMMA DecideDoes ==
    ASSUME AgentInv, NEW r \in Runs, Decide(r)
    PROVE  LET a == agent[r]  b == agent'[r]
               snapshot == [a.snapshot EXCEPT !.now = now]
               verdict == Evaluate(a.proposal, snapshot)
           IN  /\ a.step = "decide"
               /\ UNCHANGED vars
               /\ OnlyOf(r)
               /\ \/ AttemptEnds(a, b, "denied")
                  \/ /\ b.step = "escalate" /\ SameAttempt(a, b)
                     /\ verdict.decision = "escalate"
                  \/ /\ b.step = "issue" /\ SameAttempt(a, b)
                     /\ verdict.decision = "allow"
                     /\ b.verdict = verdict
<1> DEFINE a == agent[r]
           verdict == Evaluate(a.proposal, [a.snapshot EXCEPT !.now = now])
<1>1. /\ DOMAIN agent = Runs /\ DOMAIN a = AgentFields /\ a.left \in 0..MaxProposals
      /\ a.step = "decide" => a.proposal \in Asked
    BY DEF AgentInv, AgentKnown, AgentTyped, AtWork, Reading
<1>2. a.step = "decide" /\ UNCHANGED vars
    BY DEF Decide
<1>3. verdict.decision \in {"allow", "deny", "escalate"}
    BY <1>1, <1>2, Decides
<1>4. \/ /\ verdict.decision = "deny"
         /\ Move(r, Ended(a, "denied", verdict.reason))
      \/ /\ verdict.decision = "escalate"
         /\ Move(r, [a EXCEPT !.step = "escalate", !.reason = verdict.reason])
      \/ /\ verdict.decision = "allow"
         /\ Move(r, [a EXCEPT !.step = "issue", !.verdict = verdict, !.snapshot = NoSnapshot])
  <2> DEFINE v == verdict
             next == CASE v.decision = "deny"     -> Ended(a, "denied", v.reason)
                       [] v.decision = "escalate" ->
                            [a EXCEPT !.step = "escalate", !.reason = v.reason]
                       [] v.decision = "allow"    ->
                            [a EXCEPT !.step = "issue", !.verdict = v,
                                      !.snapshot = NoSnapshot]
  <2>1. Move(r, next)
    BY DEF Decide
  <2> HIDE DEF verdict, a
  <2>2. CASE v.decision = "deny"
    <3>1. next = Ended(a, "denied", v.reason)
      BY <2>2
    <3> QED
      BY <2>1, <2>2, <3>1
  <2>3. CASE v.decision = "escalate"
    <3>1. next = [a EXCEPT !.step = "escalate", !.reason = v.reason]
      BY <2>3
    <3> QED
      BY <2>1, <2>3, <3>1
  <2>4. CASE v.decision = "allow"
    <3>1. next = [a EXCEPT !.step = "issue", !.verdict = v, !.snapshot = NoSnapshot]
      BY <2>4
    <3> QED
      BY <2>1, <2>4, <3>1
  <2> QED
    BY <1>3, <2>2, <2>3, <2>4
<1> HIDE DEF a, verdict
<1>5. ASSUME NEW c, Move(r, c) PROVE OnlyOf(r) /\ agent'[r] = c
    BY <1>1, <1>5, MoveDoes DEF OnlyOf
<1>6. ASSUME Move(r, Ended(a, "denied", verdict.reason))
      PROVE  OnlyOf(r) /\ AttemptEnds(a, agent'[r], "denied")
    BY <1>1, <1>5, <1>6, EndedEnds
<1>7. ASSUME NEW reason, Move(r, [a EXCEPT !.step = "escalate", !.reason = reason])
      PROVE  OnlyOf(r) /\ agent'[r].step = "escalate" /\ SameAttempt(a, agent'[r])
  <2>1. OnlyOf(r) /\ agent'[r] = [a EXCEPT !.step = "escalate", !.reason = reason]
    BY <1>5, <1>7
  <2> QED
    BY <1>1, <2>1 DEF SameAttempt, SameScript, AgentFields
<1>8. ASSUME Move(r, [a EXCEPT !.step = "issue", !.verdict = verdict, !.snapshot = NoSnapshot])
      PROVE  /\ OnlyOf(r)
             /\ agent'[r].step = "issue"
             /\ agent'[r].verdict = verdict
             /\ SameAttempt(a, agent'[r])
  <2>1. /\ OnlyOf(r)
        /\ agent'[r] = [a EXCEPT !.step = "issue", !.verdict = verdict,
                                 !.snapshot = NoSnapshot]
    BY <1>5, <1>8
  <2> QED
    BY <1>1, <2>1 DEF SameAttempt, SameScript, AgentFields
<1> QED
    BY <1>2, <1>4, <1>6, <1>7, <1>8 DEF a, verdict

ReadSteps == {"order", "payment", "shipment", "refund_policy"}

LEMMA ReadDoes ==
    ASSUME AgentInv, NEW r \in Runs, ReadRecord(r)
    PROVE  LET a == agent[r]  b == agent'[r]
           IN  /\ a.step \in ReadSteps
               /\ UNCHANGED vars
               /\ OnlyOf(r)
               /\ SameAttempt(a, b)
               /\ b.step \in Reading
               /\ \/ b.snapshot = [a.snapshot EXCEPT ![a.step] = Fetch(a.step, a.proposal.order)]
                  \/ \E failed : b.snapshot = [a.snapshot EXCEPT !.read_failures = failed]
<1> DEFINE a == agent[r]
<1>1. /\ DOMAIN agent = Runs /\ DOMAIN a = AgentFields
      /\ a.step \in AtWork => a.proposal \in Asked
    BY DEF AgentInv, AgentKnown, AgentTyped
<1>2. PICK name \in ReadSteps : Read(r, name)
    BY DEF ReadRecord, ReadSteps
<1>3. a.step = name /\ UNCHANGED vars
    BY <1>2 DEF Read
<1>4. a.proposal.action \in {"cancel_order", "issue_refund", "create_support_ticket"}
    BY <1>1, <1>3 DEF Asked, Proposals, ActionName, AtWork, Reading, ReadSteps
<1>5. \A order : NextRead(a.proposal.action, name, order) \in Reading
    BY <1>4 DEF NextRead, Reading, ReadSteps
<1>6. PICK s : /\ \/ s = [a.snapshot EXCEPT ![name] = Fetch(name, a.proposal.order)]
                  \/ \E failed : s = [a.snapshot EXCEPT !.read_failures = failed]
               /\ Move(r, [a EXCEPT !.snapshot = s,
                        !.step = NextRead(a.proposal.action, name, s.order)])
    BY <1>2, Zenon DEF Read
<1> HIDE DEF a
<1>7. PICK next \in Reading : Move(r, [a EXCEPT !.snapshot = s, !.step = next])
    BY <1>5, <1>6
<1>8. OnlyOf(r) /\ agent'[r] = [a EXCEPT !.snapshot = s, !.step = next]
    BY <1>1, <1>7, MoveDoes DEF OnlyOf
<1>9. agent'[r].step = next /\ agent'[r].snapshot = s /\ SameAttempt(a, agent'[r])
    BY <1>1, <1>8 DEF SameAttempt, SameScript, AgentFields
<1> QED
    BY <1>2, <1>3, <1>6, <1>8, <1>9, Zenon DEF a

LEMMA AuthoriseDoes ==
    ASSUME AgentInv, NEW r \in Runs, Authorise(r)
    PROVE  LET a == agent[r]  b == agent'[r]
           IN  /\ a.step = "issue"
               /\ IssuePermit(r, a.proposal.action, a.proposal.order,
                              a.verdict.version, a.verdict.max)
               /\ UNCHANGED <<phase, call, answer, emitted, calls>>
               /\ OnlyOf(r)
               /\ DOMAIN b = AgentFields
               /\ b.step = "execute"
               /\ b.retried = FALSE
               /\ b.last = [permit |-> <<r, sequence[r] + 1>>, proposal |-> a.proposal]
               /\ b.outcome = a.outcome /\ b.chained = a.chained /\ b.attempt = a.attempt
               /\ b.left = a.left /\ b.proposal = a.proposal /\ b.chain = a.chain
<1> DEFINE a == agent[r]
           last == [permit |-> <<r, sequence[r] + 1>>, proposal |-> a.proposal]
<1>1. DOMAIN agent = Runs /\ DOMAIN a = AgentFields
    BY DEF AgentInv, AgentKnown, AgentTyped
<1>2. Move(r, [a EXCEPT !.step = "execute", !.retried = FALSE, !.last = last])
    BY DEF Authorise
<1>3. /\ a.step = "issue"
      /\ IssuePermit(r, a.proposal.action, a.proposal.order, a.verdict.version, a.verdict.max)
      /\ UNCHANGED <<phase, call, answer, emitted, calls>>
    BY DEF Authorise
<1> HIDE DEF a, last
<1>4. OnlyOf(r) /\ agent'[r] = [a EXCEPT !.step = "execute", !.retried = FALSE, !.last = last]
    BY <1>1, <1>2, MoveDoes DEF OnlyOf
<1>5. /\ DOMAIN agent'[r] = AgentFields /\ agent'[r].step = "execute"
      /\ agent'[r].retried = FALSE /\ agent'[r].last = last
      /\ agent'[r].outcome = a.outcome /\ agent'[r].chained = a.chained
      /\ agent'[r].attempt = a.attempt /\ agent'[r].left = a.left
      /\ agent'[r].proposal = a.proposal /\ agent'[r].chain = a.chain
    BY <1>1, <1>4 DEF AgentFields
<1> QED
    BY <1>3, <1>4, <1>5 DEF a, last

(* The three steps that call execute().                                    *)
LEMMA ExecuteDoes ==
    ASSUME AgentInv, NEW r \in Runs, NEW step, NEW p, NEW proposal, NEW waiting,
           Execute(r, step, p, proposal, waiting)
    PROVE  /\ agent[r].step = step
           /\ Load(r, p, proposal)
           /\ calls' = calls
           /\ OnlyOf(r)
           /\ agent'[r].step = waiting
           /\ SameAttempt(agent[r], agent'[r])
           /\ agent'[r].snapshot = agent[r].snapshot
<1> DEFINE a == agent[r]
<1>1. DOMAIN agent = Runs /\ DOMAIN a = AgentFields
    BY DEF AgentInv, AgentKnown, AgentTyped
<1>2. /\ a.step = step /\ Load(r, p, proposal) /\ calls' = calls
      /\ Move(r, [a EXCEPT !.step = waiting])
    BY DEF Execute, Goto
<1> HIDE DEF a
<1>3. OnlyOf(r) /\ agent'[r] = [a EXCEPT !.step = waiting]
    BY <1>1, <1>2, MoveDoes DEF OnlyOf
<1>4. /\ agent'[r].step = waiting /\ SameAttempt(a, agent'[r])
      /\ agent'[r].snapshot = a.snapshot
    BY <1>1, <1>3 DEF SameAttempt, SameScript, AgentFields
<1> QED
    BY <1>2, <1>3, <1>4 DEF a

(* How a stale attempt may go on, when it does not end denied.             *)
StaleGoesOn(a, b) ==
    /\ SameScript(a, b)
    /\ b.outcome = a.outcome
    /\ b.chained = a.chained
    /\ b.left = a.left
    /\ b.proposal = a.proposal
    /\ \/ /\ a.chained
          /\ b.step \in {"replay", "verify"}
          /\ b.step = "replay" => a.last # NULL
          /\ b.attempt = a.attempt
       \/ /\ b.step = "propose"
          /\ b.snapshot = NoSnapshot
          /\ b.attempt = 2
       \/ /\ b.step = "escalate"
          /\ b.attempt = a.attempt

LEMMA AfterExecuteDoes ==
    ASSUME AgentInv, NEW r \in Runs, AfterExecute(r)
    PROVE  LET a == agent[r]  b == agent'[r]
               kind == answer[r].kind  reason == answer[r].reason
           IN  /\ a.step = "executing" /\ phase[r] = "idle" /\ answer[r] # NULL
               /\ UNCHANGED vars
               /\ OnlyOf(r)
               /\ \/ /\ kind = "lost" /\ ~a.retried
                     /\ b.step = "execute" /\ b.retried = TRUE
                     /\ DOMAIN b = AgentFields
                     /\ b.last = a.last /\ b.proposal = a.proposal
                     /\ b.outcome = a.outcome /\ b.chained = a.chained
                     /\ b.attempt = a.attempt /\ b.left = a.left /\ b.chain = a.chain
                  \/ kind \in {"lost", "raised"} /\ b.step = "crashed" /\ SameAttempt(a, b)
                  \/ kind \in {"committed", "replayed"} /\ AttemptEnds(a, b, "completed")
                  \/ /\ kind \notin {"lost", "raised", "committed", "replayed"}
                     /\ \/ AttemptEnds(a, b, "denied")
                        \/ reason = "stale_resource_version" /\ StaleGoesOn(a, b)
<1> DEFINE a == agent[r]
           kind == answer[r].kind
           reason == answer[r].reason
<1>1. DOMAIN agent = Runs /\ DOMAIN a = AgentFields /\ a.left \in 0..MaxProposals
    BY DEF AgentInv, AgentKnown, AgentTyped
<1>2. a.step = "executing" /\ phase[r] = "idle" /\ answer[r] # NULL /\ UNCHANGED vars
    BY DEF AfterExecute, Answered
<1>3. \/ /\ kind = "lost" /\ ~a.retried
         /\ Move(r, [a EXCEPT !.step = "execute", !.retried = TRUE])
      \/ /\ kind \in {"lost", "raised"}
         /\ Move(r, [a EXCEPT !.step = "crashed"])
      \/ /\ kind \in {"committed", "replayed"}
         /\ Move(r, Ended(a, "completed", a.verdict.reason))
      \/ /\ kind \notin {"lost", "raised", "committed", "replayed"}
         /\ \/ reason = "stale_resource_version" /\ Move(r, StaleAttempt(a))
            \/ Move(r, Ended(a, "denied", reason))
    BY Zenon DEF AfterExecute
<1> HIDE DEF a, kind, reason
<1>4. ASSUME NEW c, Move(r, c) PROVE OnlyOf(r) /\ agent'[r] = c
    BY <1>1, <1>4, MoveDoes DEF OnlyOf
<1>5. ASSUME Move(r, [a EXCEPT !.step = "execute", !.retried = TRUE])
      PROVE  LET b == agent'[r]
             IN  /\ OnlyOf(r)
                 /\ b.step = "execute" /\ b.retried = TRUE
                 /\ DOMAIN b = AgentFields
                 /\ b.last = a.last /\ b.proposal = a.proposal
                 /\ b.outcome = a.outcome /\ b.chained = a.chained
                 /\ b.attempt = a.attempt /\ b.left = a.left /\ b.chain = a.chain
  <2>1. OnlyOf(r) /\ agent'[r] = [a EXCEPT !.step = "execute", !.retried = TRUE]
    BY <1>4, <1>5
  <2> QED
    BY <1>1, <2>1 DEF AgentFields
<1>6. ASSUME Move(r, [a EXCEPT !.step = "crashed"])
      PROVE  OnlyOf(r) /\ agent'[r].step = "crashed" /\ SameAttempt(a, agent'[r])
  <2>1. OnlyOf(r) /\ agent'[r] = [a EXCEPT !.step = "crashed"]
    BY <1>4, <1>6
  <2> QED
    BY <1>1, <2>1 DEF SameAttempt, SameScript, AgentFields
<1>7. ASSUME NEW outcome, NEW why, Move(r, Ended(a, outcome, why))
      PROVE  OnlyOf(r) /\ AttemptEnds(a, agent'[r], outcome)
    BY <1>1, <1>4, <1>7, EndedEnds
<1>8. ASSUME Move(r, StaleAttempt(a))
      PROVE  OnlyOf(r) /\ (AttemptEnds(a, agent'[r], "denied") \/ StaleGoesOn(a, agent'[r]))
  <2>1. OnlyOf(r) /\ agent'[r] = StaleAttempt(a)
    BY <1>4, <1>8
  <2>2. AttemptEnds(a, Ended(a, "denied", "stale_resource_version"), "denied")
    BY <1>1, EndedEnds
  <2>3. AfterLoops(a) \in {"replay", "verify"} /\ (AfterLoops(a) = "replay" => a.last # NULL)
    BY AfterLoopsIs
  <2> DEFINE b == StaleAttempt(a)
  <2>4. b = Ended(a, "denied", "stale_resource_version") \/ StaleGoesOn(a, b)
    BY <1>1, <2>3, StaleAttemptDoes DEF StaleGoesOn
  <2> HIDE DEF b
  <2> QED
    BY <2>1, <2>2, <2>4 DEF b
<1> QED
    BY <1>2, <1>3, <1>5, <1>6, <1>7, <1>8 DEF a, kind, reason

LEMMA EscalateDoes ==
    ASSUME AgentInv, NEW r \in Runs, BeginEscalation(r)
    PROVE  LET a == agent[r]  b == agent'[r]  o == a.proposal.order
           IN  /\ a.step = "escalate"
               /\ OnlyOf(r)
               /\ \/ /\ o \in DOMAIN orders
                     /\ IssuePermit(r, "create_support_ticket", o, orders[o].version, 0)
                     /\ UNCHANGED <<phase, call, answer, emitted, calls>>
                     /\ b.step = "ticket"
                     /\ SameAttempt(a, b)
                  \/ UNCHANGED vars /\ AttemptEnds(a, b, "escalated")
<1> DEFINE a == agent[r]
           o == a.proposal.order
<1>1. DOMAIN agent = Runs /\ DOMAIN a = AgentFields /\ a.left \in 0..MaxProposals
    BY DEF AgentInv, AgentKnown, AgentTyped
<1>2. /\ a.step = "escalate"
      /\ \/ /\ o \in DOMAIN orders
            /\ IssuePermit(r, "create_support_ticket", o, orders[o].version, 0)
            /\ UNCHANGED <<phase, call, answer, emitted, calls>>
            /\ Move(r, [a EXCEPT !.step = "ticket"])
         \/ UNCHANGED vars /\ Move(r, Ended(a, "escalated", a.reason))
    BY DEF BeginEscalation, Goto, Escalated
<1> HIDE DEF a, o
<1>3. ASSUME Move(r, [a EXCEPT !.step = "ticket"])
      PROVE  OnlyOf(r) /\ agent'[r].step = "ticket" /\ SameAttempt(a, agent'[r])
  <2>1. OnlyOf(r) /\ agent'[r] = [a EXCEPT !.step = "ticket"]
    BY <1>1, <1>3, MoveDoes DEF OnlyOf
  <2> QED
    BY <1>1, <2>1 DEF SameAttempt, SameScript, AgentFields
<1>4. ASSUME Move(r, Ended(a, "escalated", a.reason))
      PROVE  OnlyOf(r) /\ AttemptEnds(a, agent'[r], "escalated")
    BY <1>1, <1>4, MoveDoes, EndedEnds DEF OnlyOf
<1> QED
    BY <1>2, <1>3, <1>4 DEF a, o

(* The steps that only go on to another step.                              *)
LEMMA GotoMoves ==
    ASSUME AgentInv, NEW r \in Runs, NEW step, Goto(r, step)
    PROVE  /\ OnlyOf(r)
           /\ agent'[r].step = step
           /\ SameAttempt(agent[r], agent'[r])
<1> DEFINE a == agent[r]
<1>1. DOMAIN agent = Runs /\ DOMAIN a = AgentFields
    BY DEF AgentInv, AgentKnown, AgentTyped
<1>2. Move(r, [a EXCEPT !.step = step])
    BY DEF Goto
<1> HIDE DEF a
<1>3. OnlyOf(r) /\ agent'[r] = [a EXCEPT !.step = step]
    BY <1>1, <1>2, MoveDoes DEF OnlyOf
<1>4. agent'[r].step = step /\ SameAttempt(a, agent'[r])
    BY <1>1, <1>3 DEF SameAttempt, SameScript, AgentFields
<1> QED
    BY <1>3, <1>4 DEF a

LEMMA AfterTicketDoes ==
    ASSUME AgentInv, NEW r \in Runs, AfterTicket(r)
    PROVE  LET a == agent[r]  b == agent'[r]
           IN  /\ a.step = "ticketing" /\ phase[r] = "idle" /\ answer[r] # NULL
               /\ UNCHANGED vars
               /\ OnlyOf(r)
               /\ \/ b.step = "crashed" /\ SameAttempt(a, b)
                  \/ AttemptEnds(a, b, "escalated")
<1> DEFINE a == agent[r]
<1>1. DOMAIN agent = Runs /\ DOMAIN a = AgentFields /\ a.left \in 0..MaxProposals
    BY DEF AgentInv, AgentKnown, AgentTyped
<1>2. /\ a.step = "ticketing" /\ phase[r] = "idle" /\ answer[r] # NULL /\ UNCHANGED vars
      /\ Goto(r, "crashed") \/ Move(r, Ended(a, "escalated", a.reason))
    BY DEF AfterTicket, Answered, Escalated
<1> HIDE DEF a
<1>3. ASSUME Move(r, Ended(a, "escalated", a.reason))
      PROVE  OnlyOf(r) /\ AttemptEnds(a, agent'[r], "escalated")
    BY <1>1, <1>3, MoveDoes, EndedEnds DEF OnlyOf
<1>4. ASSUME Goto(r, "crashed")
      PROVE  OnlyOf(r) /\ agent'[r].step = "crashed" /\ SameAttempt(a, agent'[r])
    BY <1>4, GotoMoves DEF a
<1> QED
    BY <1>2, <1>3, <1>4 DEF a

LEMMA AfterReplayDoes ==
    ASSUME AgentInv, NEW r \in Runs, AfterReplay(r)
    PROVE  /\ agent[r].step = "replaying" /\ phase[r] = "idle" /\ answer[r] # NULL
           /\ UNCHANGED vars
           /\ OnlyOf(r)
           /\ agent'[r].step \in {"crashed", "verify"}
           /\ SameAttempt(agent[r], agent'[r])
<1>1. PICK step \in {"crashed", "verify"} : Goto(r, step)
    BY DEF AfterReplay
<1> QED
    BY <1>1, GotoMoves DEF AfterReplay, Answered

LEMMA VerifyDoes ==
    ASSUME AgentInv, NEW r \in Runs, Verify(r)
    PROVE  /\ agent[r].step = "verify"
           /\ UNCHANGED vars
           /\ OnlyOf(r)
           /\ agent'[r].step = "finished"
           /\ agent'[r].report = Report(r)
           /\ SameAttempt(agent[r], agent'[r])
<1> DEFINE a == agent[r]
           report == Report(r)
<1>1. DOMAIN agent = Runs /\ DOMAIN a = AgentFields
    BY DEF AgentInv, AgentKnown, AgentTyped
<1>2. a.step = "verify" /\ UNCHANGED vars
      /\ Move(r, [a EXCEPT !.step = "finished", !.report = report])
    BY DEF Verify
<1> HIDE DEF a, report
<1>3. OnlyOf(r) /\ agent'[r] = [a EXCEPT !.step = "finished", !.report = report]
    BY <1>1, <1>2, MoveDoes DEF OnlyOf
<1>4. /\ agent'[r].step = "finished" /\ agent'[r].report = report
      /\ SameAttempt(a, agent'[r])
    BY <1>1, <1>3 DEF SameAttempt, SameScript, AgentFields
<1> QED
    BY <1>2, <1>3, <1>4 DEF a, report

-----------------------------------------------------------------------------
(* A run is a client of the executor.                                      *)

LEMMA ExecuteIsClient ==
    ASSUME TypeOK, NEW r \in Runs, NEW p \in PermitIds, NEW proposal \in Asked,
           Load(r, p, proposal), calls' = calls
    PROVE  ClientPresent(r)
    BY DEF ClientPresent, TypeOK, Asked

(* Whoever is at the step of presenting a permit holds one.                *)
LEMMA HasPermit ==
    ASSUME AgentInv, NEW r \in Runs
    PROVE  /\ agent[r].step \in Spending \cup {"replay", "replaying"} => LastKnown(r)
           /\ agent[r].step \in Ticketing => TicketKnown(r)
           /\ agent[r].step \in AtWork => agent[r].proposal \in Asked
    BY DEF AgentInv, AgentKnown, AgentTyped

LEMMA TicketIsAsked ==
    ASSUME NEW o \in Orders
    PROVE  TicketProposal(o) \in Asked
    BY DEF TicketProposal, Asked, Proposals, ActionName

(* A run presents permits of its own, with the proposals they were issued  *)
(* for.                                                                    *)
LEMMA PresentIsCall ==
    ASSUME TypeOK, AgentInv, NEW r \in Runs, Present1(r) \/ Replay(r) \/ PresentTicket(r)
    PROVE  ClientPresent(r)
<1>1. ASSUME Present1(r) \/ Replay(r) PROVE ClientPresent(r)
  <2>1. /\ agent[r].step \in {"execute", "replay"}
        /\ Load(r, agent[r].last.permit, agent[r].last.proposal)
        /\ calls' = calls
    BY <1>1, ExecuteDoes DEF Present1, Replay
  <2>2. agent[r].last.permit \in PermitIds /\ agent[r].last.proposal \in Asked
    BY <2>1, HasPermit DEF LastKnown, Spending
  <2> QED
    BY <2>1, <2>2, ExecuteIsClient
<1>2. ASSUME PresentTicket(r) PROVE ClientPresent(r)
  <2>1. /\ agent[r].step = "ticket"
        /\ Load(r, <<r, sequence[r]>>, TicketProposal(agent[r].proposal.order))
        /\ calls' = calls
    BY <1>2, ExecuteDoes DEF PresentTicket
  <2>2. <<r, sequence[r]>> \in PermitIds
    BY DEF TypeOK, PermitIds
  <2>3. agent[r].proposal \in Asked
    BY <2>1, HasPermit DEF AtWork, Ticketing
  <2>4. TicketProposal(agent[r].proposal.order) \in Asked
    BY <2>3, TicketIsAsked DEF Asked, Proposals
  <2> QED
    BY <2>1, <2>2, <2>4, ExecuteIsClient
<1> QED
    BY <1>1, <1>2

LEMMA RunIsClient ==
    ASSUME TypeOK, AgentInv, PinInv, NEW r \in Runs, RunStep(r)
    PROVE  ClientIssue(r) \/ ClientPresent(r) \/ CallStep(r) \/ UNCHANGED vars
<1>1. ASSUME Authorise(r) PROVE ClientIssue(r)
  <2>1. /\ agent[r].step = "issue"
        /\ IssuePermit(r, agent[r].proposal.action, agent[r].proposal.order,
                       agent[r].verdict.version, agent[r].verdict.max)
        /\ UNCHANGED <<phase, call, answer, emitted, calls>>
    BY <1>1, AuthoriseDoes
  <2>2. agent[r].proposal \in Asked
    BY <2>1, HasPermit DEF AtWork
  <2>3. agent[r].proposal.action \in ActionName /\ agent[r].proposal.order \in Orders
    BY <2>2 DEF Asked, Proposals
  <2>4. agent[r].verdict.version \in Nat /\ agent[r].verdict.max \in Nat
    BY <2>1 DEF PinInv, VerdictKnown, Pinned
  <2> QED
    BY <2>1, <2>3, <2>4 DEF ClientIssue
<1>2. ASSUME BeginEscalation(r) PROVE ClientIssue(r) \/ UNCHANGED vars
  <2> DEFINE o == agent[r].proposal.order
  <2>1. CASE /\ o \in DOMAIN orders
             /\ IssuePermit(r, "create_support_ticket", o, orders[o].version, 0)
             /\ UNCHANGED <<phase, call, answer, emitted, calls>>
    <3>1. o \in Orders /\ orders[o].version \in Nat /\ "create_support_ticket" \in ActionName
      BY <2>1, VersionsAreNats DEF TypeOK, StoreTypeOK, IsTable, ActionName
    <3> QED
      BY <2>1, <3>1 DEF ClientIssue
  <2> QED
    BY <1>2, <2>1, EscalateDoes
<1>3. ASSUME \/ Propose(r) \/ ReadRecord(r) \/ Decide(r) \/ AfterExecute(r)
             \/ AfterTicket(r) \/ AfterReplay(r) \/ Verify(r)
      PROVE  UNCHANGED vars
    BY <1>3, ProposeDoes, ReadDoes, DecideDoes, AfterExecuteDoes, AfterTicketDoes,
       AfterReplayDoes, VerifyDoes
<1> QED
    BY <1>1, <1>2, <1>3, PresentIsCall DEF RunStep

LEMMA RunnerIsClient ==
    ASSUME TypeOK, AgentInv, PinInv, [RunnerNext]_runnerVars
    PROVE  [ClientNext]_vars
<1>1. ASSUME NEW r \in Runs, RunStep(r) PROVE [ClientNext]_vars
    BY <1>1, RunIsClient DEF ClientNext
<1>2. ASSUME WorldStep, UNCHANGED <<executorVars, agent>> PROVE ClientNext
    BY <1>2 DEF ClientNext
<1>3. ASSUME UNCHANGED runnerVars PROVE UNCHANGED vars
    BY <1>3 DEF runnerVars
<1> QED
    BY <1>1, <1>2, <1>3 DEF RunnerNext

-----------------------------------------------------------------------------
(* What a run knows of its permits and of its call.                        *)

LEMMA LastStays ==
    ASSUME PermitsStay, NEW r, agent'[r].last = agent[r].last, LastKnown(r)
    PROVE  LastKnown(r)'
    BY DEF PermitsStay, LastKnown

LEMMA TicketStays ==
    ASSUME PermitsStay, NEW r, sequence'[r] = sequence[r], TicketKnown(r),
           agent'[r].proposal = agent[r].proposal, agent'[r].last = agent[r].last
    PROVE  TicketKnown(r)'
    BY DEF PermitsStay, TicketKnown

(* A run that does not move.                                               *)
LEMMA Waits ==
    ASSUME PermitsStay, NEW r, AgentKnown(r),
           agent'[r] = agent[r], sequence'[r] = sequence[r],
           phase'[r] # "idle" => /\ phase[r] # "idle"
                                 /\ call'[r].permit = call[r].permit
                                 /\ call'[r].proposal = call[r].proposal
    PROVE  AgentKnown(r)'
<1>1. LastKnown(r) => LastKnown(r)'
    BY LastStays
<1>2. TicketKnown(r) => TicketKnown(r)'
    BY TicketStays
<1>3. CallOwned(r) => phase'[r] = "idle" \/ CallOwned(r)'
    BY DEF CallOwned, AgentKnown
<1>4. AgentTyped(agent[r])'
    BY DEF AgentKnown, AgentTyped
<1> QED
    BY <1>1, <1>2, <1>3, <1>4 DEF AgentKnown

(* A run that moves on without a permit and without a call.                *)
LEMMA MovesOn ==
    ASSUME NEW r, AgentKnown(r), UNCHANGED vars, phase[r] = "idle",
           AgentTyped(agent'[r]),
           agent'[r].last = agent[r].last,
           agent'[r].step \in Spending => agent[r].step \in Spending,
           agent'[r].step \notin Ticketing
    PROVE  AgentKnown(r)'
<1>1. UNCHANGED permits /\ phase'[r] = "idle"
    BY DEF vars, storeVars, executorVars
<1>2. LastKnown(r) => LastKnown(r)'
    BY <1>1, LastStays DEF PermitsStay
<1> QED
    BY <1>1, <1>2 DEF AgentKnown, AgentTyped

(* Outside execute() no call is in progress.                               *)
LEMMA NoCallOutside ==
    ASSUME NEW r, AgentKnown(r),
           agent[r].step \notin {"executing", "ticketing", "replaying"}
    PROVE  phase[r] = "idle"
    BY DEF AgentKnown, CallOwned

LEMMA OverIsTyped ==
    ASSUME NEW a, NEW b, AgentTyped(a), NEW outcome \in Outcome, AttemptEnds(a, b, outcome)
    PROVE  AgentTyped(b) /\ b.last = a.last /\ b.step \notin AtWork
    BY DEF AttemptEnds, SameScript, AgentTyped, AtWork, Reading, Spending, Ticketing, Steps

LEMMA SameIsTyped ==
    ASSUME NEW a, NEW b, AgentTyped(a), SameAttempt(a, b),
           b.step \in Steps \ {"propose", "replay", "replaying"},
           b.step \in AtWork => a.step \in AtWork,
           b.step \in Spending => a.step \in Spending
    PROVE  AgentTyped(b) /\ b.last = a.last
    BY DEF SameAttempt, SameScript, AgentTyped

(* One lemma for each kind of step.                                        *)
AgentMoves(r) ==
    /\ PermitsStay
    /\ NumbersGrow'
    /\ OnlyOf(r)
    /\ AgentKnown(r)'

LEMMA QuietMoves ==
    ASSUME AgentInv, NEW r \in Runs, UNCHANGED vars, OnlyOf(r), AgentKnown(r)'
    PROVE  AgentMoves(r)
    BY DEF AgentMoves, AgentInv, NumbersGrow, PermitsStay, vars, storeVars, executorVars

LEMMA LocalSteps ==
    ASSUME AgentInv, NEW r \in Runs,
           \/ Propose(r) \/ ReadRecord(r) \/ Decide(r) \/ AfterExecute(r)
           \/ AfterTicket(r) \/ AfterReplay(r) \/ Verify(r)
    PROVE  AgentMoves(r)
<1> DEFINE a == agent[r]
           b == agent'[r]
<1>1. AgentKnown(r) /\ AgentTyped(a)
    BY DEF AgentInv, AgentKnown
<1>2. ASSUME NEW outcome \in Outcome, AttemptEnds(a, b, outcome),
             UNCHANGED vars, OnlyOf(r), phase[r] = "idle"
      PROVE  AgentMoves(r)
  <2>1. AgentTyped(b) /\ b.last = a.last /\ b.step \notin AtWork
    BY <1>1, <1>2, OverIsTyped
  <2> QED
    BY <1>1, <1>2, <2>1, MovesOn, QuietMoves DEF AtWork
<1>3. ASSUME SameAttempt(a, b), UNCHANGED vars, OnlyOf(r), phase[r] = "idle",
             b.step \in Steps \ ({"propose", "replay", "replaying"} \cup Spending \cup Ticketing),
             b.step \in AtWork => a.step \in AtWork
      PROVE  AgentMoves(r)
  <2>1. AgentTyped(b) /\ b.last = a.last
    BY <1>1, <1>3, SameIsTyped
  <2> QED
    BY <1>1, <1>3, <2>1, MovesOn, QuietMoves
<1> USE DEF Outcome, Steps, AtWork, Reading, Spending, Ticketing, ReadSteps
<1>4. CASE Propose(r)
  <2>1. phase[r] = "idle"
    BY <1>1, <1>4, ProposeDoes, NoCallOutside
  <2>2. CASE AttemptEnds(a, b, "denied")
    BY <1>2, <1>4, <2>1, <2>2, ProposeDoes
  <2>3. CASE /\ SameScript(a, b)
             /\ b.step = "order"
             /\ b.proposal \in Asked
             /\ b.snapshot = a.snapshot
             /\ b.outcome = a.outcome
             /\ b.chained = a.chained
             /\ b.attempt = a.attempt
             /\ b.left \in 0..MaxProposals
    <3>1. AgentTyped(b) /\ b.last = a.last
      BY <1>1, <2>3 DEF AgentTyped, SameScript
    <3> QED
      BY <1>1, <1>4, <2>1, <2>3, <3>1, ProposeDoes, MovesOn, QuietMoves
  <2> QED
    BY <1>4, <2>2, <2>3, ProposeDoes
<1>5. CASE ReadRecord(r)
  <2>1. phase[r] = "idle"
    BY <1>1, <1>5, ReadDoes, NoCallOutside
  <2> QED
    BY <1>3, <1>5, <2>1, ReadDoes
<1>6. CASE Decide(r)
  <2>1. phase[r] = "idle"
    BY <1>1, <1>6, DecideDoes, NoCallOutside
  <2> QED
    BY <1>2, <1>3, <1>6, <2>1, DecideDoes
<1>7. CASE AfterExecute(r)
  <2>1. a.step = "executing" /\ phase[r] = "idle" /\ UNCHANGED vars /\ OnlyOf(r)
    BY <1>7, AfterExecuteDoes
  <2>2. CASE /\ b.step = "execute" /\ b.retried = TRUE
             /\ DOMAIN b = AgentFields
             /\ b.last = a.last /\ b.proposal = a.proposal
             /\ b.outcome = a.outcome /\ b.chained = a.chained
             /\ b.attempt = a.attempt /\ b.left = a.left /\ b.chain = a.chain
    <3>1. AgentTyped(b)
      BY <1>1, <2>1, <2>2 DEF AgentTyped
    <3> QED
      BY <1>1, <2>1, <2>2, <3>1, MovesOn, QuietMoves
  <2>3. CASE b.step = "crashed" /\ SameAttempt(a, b)
    BY <1>3, <2>1, <2>3
  <2>4. CASE AttemptEnds(a, b, "completed") \/ AttemptEnds(a, b, "denied")
    BY <1>2, <2>1, <2>4
  <2>5. CASE StaleGoesOn(a, b)
    <3>1. AgentTyped(b)
      BY <1>1, <2>1, <2>5 DEF AgentTyped, StaleGoesOn, SameScript
    <3>2. b.last = a.last /\ b.step \notin Spending \cup Ticketing
      BY <2>5 DEF StaleGoesOn, SameScript
    <3> QED
      BY <1>1, <2>1, <3>1, <3>2, MovesOn, QuietMoves
  <2> QED
    BY <1>7, <2>2, <2>3, <2>4, <2>5, AfterExecuteDoes
<1>8. CASE AfterTicket(r)
    BY <1>2, <1>3, <1>8, AfterTicketDoes
<1>9. CASE AfterReplay(r)
    BY <1>3, <1>9, AfterReplayDoes
<1>10. CASE Verify(r)
  <2>1. phase[r] = "idle"
    BY <1>1, <1>10, VerifyDoes, NoCallOutside
  <2> QED
    BY <1>3, <1>10, <2>1, VerifyDoes
<1> QED
    BY <1>4, <1>5, <1>6, <1>7, <1>8, <1>9, <1>10

LEMMA AuthoriseMoves ==
    ASSUME TypeOK, AgentInv, NEW r \in Runs, Authorise(r),
           VerdictKnown(agent[r])
    PROVE  AgentMoves(r)
<1> DEFINE a == agent[r]
           b == agent'[r]
           p == <<r, sequence[r] + 1>>
<1>1. AgentKnown(r) /\ AgentTyped(a)
    BY DEF AgentInv, AgentKnown
<1>2. /\ a.step = "issue"
      /\ IssuePermit(r, a.proposal.action, a.proposal.order, a.verdict.version, a.verdict.max)
      /\ UNCHANGED <<phase, call, answer, emitted, calls>>
      /\ OnlyOf(r)
      /\ DOMAIN b = AgentFields
      /\ b.step = "execute"
      /\ b.last = [permit |-> p, proposal |-> a.proposal]
      /\ b.outcome = a.outcome /\ b.attempt = a.attempt
      /\ b.left = a.left /\ b.proposal = a.proposal
    BY AuthoriseDoes
<1>3. /\ DOMAIN permits' = DOMAIN permits \cup {p}
      /\ permits'[p] = NewPermit(a.proposal.action, a.proposal.order, a.verdict.version,
                                 a.verdict.max, sequence[r] + 1, r)
      /\ NumbersGrow'
      /\ PermitsStay
    BY <1>2, IssueDoes DEF AgentInv
<1>4. phase'[r] = "idle"
    BY <1>1, <1>2, NoCallOutside
<1>5. a.proposal \in Asked /\ p \in PermitIds /\ p[1] = r
    BY <1>1, <1>2 DEF AgentTyped, AtWork, TypeOK, PermitIds
<1>6. AgentTyped(b)
    BY <1>1, <1>2, <1>5 DEF AgentTyped, AtWork, Reading, Spending, Ticketing, Steps
<1>7. LastKnown(r)'
  <2> HIDE DEF p, a
  <2>1. b.last \in [permit : PermitIds, proposal : Asked]
    BY <1>2, <1>5
  <2>2. b.last.permit = p /\ b.last.proposal = a.proposal
    BY <1>2
  <2>3. /\ permits'[p].action = a.proposal.action
        /\ permits'[p].resource = ResourceOf(a.proposal.action, a.proposal.order)
        /\ permits'[p].max = a.verdict.max
    BY <1>3 DEF NewPermit
  <2>4. a.proposal.action = "issue_refund" => a.verdict.max = AmountOf(a.proposal)
    BY DEF VerdictKnown, a
  <2> QED
    BY <1>3, <1>5, <2>1, <2>2, <2>3, <2>4 DEF LastKnown
<1> HIDE DEF p
<1> QED
    BY <1>2, <1>3, <1>4, <1>6, <1>7 DEF AgentMoves, AgentKnown, Ticketing

LEMMA EscalationMoves ==
    ASSUME TypeOK, AgentInv, NEW r \in Runs, BeginEscalation(r)
    PROVE  AgentMoves(r)
<1> DEFINE a == agent[r]
           b == agent'[r]
           o == a.proposal.order
           p == <<r, sequence[r] + 1>>
<1>1. AgentKnown(r) /\ AgentTyped(a)
    BY DEF AgentInv, AgentKnown
<1>2. a.step = "escalate" /\ OnlyOf(r)
    BY EscalateDoes
<1>3. phase[r] = "idle"
    BY <1>1, <1>2, NoCallOutside
<1>4. CASE UNCHANGED vars /\ AttemptEnds(a, b, "escalated")
  <2>1. AgentTyped(b) /\ b.last = a.last /\ b.step \notin AtWork
    BY <1>1, <1>4, OverIsTyped DEF Outcome
  <2> QED
    BY <1>1, <1>2, <1>3, <1>4, <2>1, MovesOn, QuietMoves DEF AtWork
<1>5. CASE /\ o \in DOMAIN orders
           /\ IssuePermit(r, "create_support_ticket", o, orders[o].version, 0)
           /\ UNCHANGED <<phase, call, answer, emitted, calls>>
           /\ b.step = "ticket"
           /\ SameAttempt(a, b)
  <2>1. /\ p \notin DOMAIN permits
        /\ DOMAIN permits' = DOMAIN permits \cup {p}
        /\ permits'[p] = NewPermit("create_support_ticket", o, orders[o].version, 0,
                                   sequence[r] + 1, r)
        /\ sequence'[r] = sequence[r] + 1
        /\ NumbersGrow'
        /\ PermitsStay
    BY <1>5, IssueDoes DEF AgentInv
  <2>2. AgentTyped(b) /\ b.last = a.last
    BY <1>1, <1>2, <1>5, SameIsTyped DEF Steps, AtWork, Ticketing, Spending
  <2>3. TicketKnown(r)'
    <3>1. b.proposal.order = o
      BY <1>5 DEF SameAttempt
    <3>2. /\ permits'[p].action = "create_support_ticket"
          /\ permits'[p].resource = Order(o)
          /\ permits'[p].max = 0
      BY <2>1 DEF NewPermit, ResourceOf
    <3>3. p = <<r, sequence'[r]>> /\ p \in DOMAIN permits'
      BY <2>1
    <3>4. b.last # NULL => b.last.permit # p
      BY <1>1, <2>1, <2>2 DEF AgentKnown, LastKnown
    <3> HIDE DEF p, o
    <3> QED
      BY <3>1, <3>2, <3>3, <3>4 DEF TicketKnown
  <2>4. LastKnown(r) => LastKnown(r)'
    BY <2>1, <2>2, LastStays
  <2>5. phase'[r] = "idle"
    BY <1>3, <1>5
  <2> QED
    BY <1>1, <1>2, <1>5, <2>1, <2>2, <2>3, <2>4, <2>5 DEF AgentMoves, AgentKnown, Spending
<1> QED
    BY <1>4, <1>5, EscalateDoes

LEMMA PresentMoves ==
    ASSUME TypeOK, AgentInv, NEW r \in Runs, Present1(r) \/ PresentTicket(r) \/ Replay(r)
    PROVE  AgentMoves(r)
<1> DEFINE a == agent[r]
           b == agent'[r]
<1>1. AgentKnown(r) /\ AgentTyped(a)
    BY DEF AgentInv, AgentKnown
<1>2. ASSUME NEW p \in DOMAIN permits, NEW proposal,
             permits[p].action = proposal.action, Load(r, p, proposal)
      PROVE  /\ phase'[r] = "resolve"
             /\ call'[r].permit = p /\ call'[r].proposal = proposal
             /\ UNCHANGED storeVars /\ sequence' = sequence
  <2>1. /\ phase'[r] = "resolve"
        /\ call'[r] = [permit |-> p, proposal |-> proposal,
                       row |-> permits[p], target |-> NULL]
        /\ UNCHANGED storeVars
        /\ sequence' = sequence
    BY <1>2, LoadDoes
  <2> QED
    BY <2>1
<1>3. ASSUME UNCHANGED storeVars, sequence' = sequence
      PROVE  UNCHANGED permits /\ PermitsStay /\ NumbersGrow'
    BY <1>3 DEF storeVars, PermitsStay, AgentInv, NumbersGrow
<1>4. CASE Present1(r) \/ Replay(r)
  <2>1. /\ a.step \in {"execute", "replay"}
        /\ Load(r, a.last.permit, a.last.proposal)
        /\ OnlyOf(r)
        /\ b.step = IF a.step = "execute" THEN "executing" ELSE "replaying"
        /\ SameAttempt(a, b)
    BY <1>4, ExecuteDoes DEF Present1, Replay
  <2>2. LastKnown(r)
    BY <2>1, HasPermit DEF Spending
  <2>3. /\ phase'[r] = "resolve"
        /\ call'[r].permit = a.last.permit /\ call'[r].proposal = a.last.proposal
        /\ UNCHANGED storeVars /\ sequence' = sequence
    BY <1>2, <2>1, <2>2 DEF LastKnown
  <2>4. b.last = a.last /\ b.proposal = a.proposal
    BY <2>1 DEF SameAttempt, SameScript
  <2>5. LastKnown(r)'
    BY <1>3, <2>2, <2>3, <2>4, LastStays
  <2>6. AgentTyped(b)
    BY <1>1, <2>1, <2>4 DEF AgentTyped, SameAttempt, SameScript, AtWork, Reading, Spending,
                            Ticketing, Steps
  <2>7. CallOwned(r)'
    BY <2>1, <2>3, <2>4 DEF CallOwned
  <2> QED
    BY <1>3, <2>1, <2>3, <2>5, <2>6, <2>7 DEF AgentMoves, AgentKnown, Ticketing
<1>5. CASE PresentTicket(r)
  <2> DEFINE p == <<r, sequence[r]>>
             proposal == TicketProposal(a.proposal.order)
  <2>1. /\ a.step = "ticket"
        /\ Load(r, p, proposal)
        /\ OnlyOf(r)
        /\ b.step = "ticketing"
        /\ SameAttempt(a, b)
    BY <1>5, ExecuteDoes DEF PresentTicket
  <2>2. TicketKnown(r)
    BY <2>1, HasPermit DEF Ticketing
  <2>3. /\ phase'[r] = "resolve"
        /\ call'[r].permit = p /\ call'[r].proposal = proposal
        /\ UNCHANGED storeVars /\ sequence' = sequence
    <3>1. p \in DOMAIN permits /\ permits[p].action = proposal.action
      BY <2>2 DEF TicketKnown, TicketProposal
    <3> HIDE DEF p, proposal
    <3> QED
      BY <1>2, <2>1, <3>1
  <2>4. b.last = a.last /\ b.proposal = a.proposal
    BY <2>1 DEF SameAttempt, SameScript
  <2>5. TicketKnown(r)' /\ (LastKnown(r) => LastKnown(r)')
    BY <1>3, <2>2, <2>3, <2>4, LastStays, TicketStays
  <2>6. AgentTyped(b)
    BY <1>1, <2>1, SameIsTyped DEF Steps, AtWork, Ticketing, Spending
  <2>7. CallOwned(r)'
    BY <2>1, <2>3, <2>4 DEF CallOwned
  <2> QED
    BY <1>1, <1>3, <2>1, <2>3, <2>4, <2>5, <2>6, <2>7
       DEF AgentMoves, AgentKnown, Spending
<1> QED
    BY <1>4, <1>5

LEMMA CallMoves ==
    ASSUME TypeOK, LedgerInv, AgentInv, NEW r \in Runs, CallStep(r), UNCHANGED agent
    PROVE  AgentMoves(r)
<1>1. PermitsStay /\ DOMAIN permits' = DOMAIN permits
    BY PermitsKept
<1>2. /\ sequence' = sequence
      /\ phase'[r] # "idle" => /\ phase[r] # "idle"
                               /\ call'[r].permit = call[r].permit
                               /\ call'[r].proposal = call[r].proposal
    BY CallGoesOn
<1>3. AgentKnown(r)'
    BY <1>1, <1>2, Waits DEF AgentInv
<1> QED
    BY <1>1, <1>2, <1>3 DEF AgentMoves, AgentInv, NumbersGrow, OnlyOf

LEMMA RunMoves ==
    ASSUME TypeOK, LedgerInv, AgentInv, PinInv, NEW r \in Runs, RunStep(r)
    PROVE  AgentMoves(r)
<1>1. ASSUME Authorise(r) PROVE VerdictKnown(agent[r])
    BY <1>1, AuthoriseDoes DEF PinInv
<1> QED
    BY <1>1, LocalSteps, AuthoriseMoves, EscalationMoves, PresentMoves, CallMoves DEF RunStep

LEMMA AgentInvNext ==
    ASSUME TypeOK, LedgerInv, AgentInv, PinInv, [RunnerNext]_runnerVars
    PROVE  AgentInv' /\ PermitsStay
<1>1. ASSUME NEW r \in Runs, RunStep(r) PROVE AgentInv' /\ PermitsStay
  <2>1. AgentMoves(r)
    BY <1>1, RunMoves
  <2>2. ASSUME NEW q \in Runs, q # r PROVE AgentKnown(q)'
    <3>1. agent'[q] = agent[q]
      BY <2>1, <2>2 DEF AgentMoves, OnlyOf
    <3>2. CASE ClientIssue(r) \/ ClientPresent(r) \/ CallStep(r)
      BY <2>1, <2>2, <3>1, <3>2, OthersStandStill, Waits DEF AgentMoves, AgentInv
    <3>3. CASE UNCHANGED vars
      BY <2>1, <3>1, <3>3, Waits DEF AgentMoves, AgentInv, vars, executorVars
    <3> QED
      BY <1>1, <3>2, <3>3, RunIsClient
  <2> QED
    BY <2>1, <2>2 DEF AgentMoves, AgentInv, OnlyOf
<1>2. ASSUME WorldStep \/ UNCHANGED permits, UNCHANGED <<executorVars, agent>>
      PROVE  AgentInv' /\ PermitsStay
  <2>1. PermitsStay /\ DOMAIN permits' = DOMAIN permits
    BY <1>2, PermitsKept
  <2>2. ASSUME NEW q \in Runs PROVE AgentKnown(q)'
    BY <1>2, <2>1, Waits DEF AgentInv, executorVars
  <2> QED
    BY <1>2, <2>1, <2>2 DEF AgentInv, NumbersGrow, executorVars
<1>3. ASSUME UNCHANGED runnerVars PROVE UNCHANGED permits /\ UNCHANGED <<executorVars, agent>>
    BY <1>3 DEF runnerVars, vars, storeVars, executorVars
<1> QED
    BY <1>1, <1>2, <1>3 DEF RunnerNext

LEMMA AgentInvInit == RunnerInit => AgentInv
<1> SUFFICES ASSUME RunnerInit PROVE AgentInv
    OBVIOUS
<1>1. DOMAIN agent = Runs /\ DOMAIN permits = {} /\ \A r \in Runs : phase[r] = "idle"
    BY DEF RunnerInit, Init, StoreInit, ExecutorInit, EmptyTable
<1>2. ASSUME NEW r \in Runs PROVE AgentKnown(r)
  <2>1. PICK left \in 0..MaxProposals, replan \in AllowReplan,
             chain \in ChainProposals, replay \in ReplayLast :
            agent[r] = Fresh(left, replan, chain, replay)
    BY DEF RunnerInit
  <2>2. /\ DOMAIN agent[r] = AgentFields /\ agent[r].step = "propose"
        /\ agent[r].attempt = 1 /\ agent[r].outcome = "denied" /\ agent[r].left = left
        /\ agent[r].snapshot = NoSnapshot /\ agent[r].last = NULL
    BY <2>1 DEF Fresh, AgentFields
  <2>3. AgentTyped(agent[r])
    BY <2>2 DEF AgentTyped, Steps, Outcome, AtWork, Reading, Spending, Ticketing
  <2> QED
    BY <1>1, <2>2, <2>3 DEF AgentKnown, Spending, Ticketing
<1> QED
    BY <1>1, <1>2 DEF AgentInv, NumbersGrow

-----------------------------------------------------------------------------
(* What is pinned.                                                         *)

LEMMA IssuePins ==
    ASSUME TypeOK, NumbersGrow, NEW r \in Runs, NEW action, NEW o, NEW version, NEW max,
           IssuePermit(r, action, o, version, max), Pinned(action, o, version, max),
           \A p \in DOMAIN permits : PermitPinned(p)
    PROVE  \A p \in DOMAIN permits' : PermitPinned(p)'
<1>0. PICK new : new = <<r, sequence[r] + 1>>
    OBVIOUS
<1>1. /\ DOMAIN permits' = DOMAIN permits \cup {new}
      /\ \A q \in DOMAIN permits : permits'[q] = permits[q]
      /\ permits'[new] = NewPermit(action, o, version, max, sequence[r] + 1, r)
      /\ UNCHANGED <<orders, payments>>
    BY <1>0, IssueDoes
<1>2. /\ permits'[new].action = action /\ permits'[new].resource = ResourceOf(action, o)
      /\ permits'[new].version = version /\ permits'[new].max = max
      /\ permits'[new].expires = now + PermitTTL
    BY <1>1 DEF NewPermit
<1>3. ResourceOf(action, o)[2] = o
    BY DEF ResourceOf, Order, Payment
<1>4. PermitTTL <= now + PermitTTL
    BY ExecutorAssumption, StoreAssumption DEF TypeOK, StoreTypeOK
<1>5. PermitPinned(new)'
    BY <1>1, <1>2, <1>3, <1>4 DEF PermitPinned, Pinned
<1>6. ASSUME NEW q \in DOMAIN permits PROVE PermitPinned(q)'
    BY <1>1, <1>6 DEF PermitPinned, Pinned
<1> QED
    BY <1>1, <1>5, <1>6

(* Once a snapshot is allowed, so is what the permit will say.             *)
LEMMA AllowedIsKnown ==
    ASSUME NEW a, NEW b, a.proposal \in Asked, SnapshotKnown(a),
           b.proposal = a.proposal,
           b.verdict = Evaluate(a.proposal, [a.snapshot EXCEPT !.now = now]),
           b.verdict.decision = "allow"
    PROVE  VerdictKnown(b)
<1> DEFINE s == [a.snapshot EXCEPT !.now = now]
           proposal == a.proposal
           verdict == b.verdict
           o == proposal.order
<1>1. s.order = a.snapshot.order /\ s.payment = a.snapshot.payment
        /\ s.refund_policy = a.snapshot.refund_policy
    BY DEF SnapshotKnown, SnapshotFields
<1>2. Evaluate(proposal, s).decision = "allow" /\ verdict = Evaluate(proposal, s)
    OBVIOUS
<1> HIDE DEF s
<1>3. /\ s.order # NULL
      /\ proposal.action # "issue_refund" =>
           verdict.version = s.order.version /\ verdict.max = 0
      /\ proposal.action = "cancel_order" => s.order.status \in CancellableOrderStatuses
      /\ proposal.action = "issue_refund" =>
           /\ s.payment # NULL /\ s.refund_policy # NULL
           /\ s.payment.status # "REFUNDED"
           /\ proposal.amount # NULL
           /\ ~(proposal.amount <= 0)
           /\ ~(proposal.amount > s.payment.captured)
           /\ ~(proposal.amount > RefundLimit(s.refund_policy))
           /\ verdict.version = s.payment.version
           /\ verdict.max = proposal.amount
    BY <1>2, AllowMeans
<1>4. OrderSeen(o, s.order)
    BY <1>1, <1>3 DEF SnapshotKnown
<1>5. proposal.action \in ActionName /\ proposal.amount \in Nat \cup {NULL}
    BY DEF Asked, Proposals
<1>6. CASE proposal.action # "issue_refund"
    BY <1>3, <1>4, <1>6 DEF VerdictKnown, Pinned, OrderSeen
<1>7. CASE proposal.action = "issue_refund"
  <2>1. PaymentSeen(o, s.payment) /\ s.refund_policy = RefundPolicy
    BY <1>1, <1>3, <1>7 DEF SnapshotKnown
  <2>2. RefundLimit(RefundPolicy) \in Nat
    BY RunnerAssumption, LimitAssumption DEF RefundLimit
  <2>3. s.payment.status = "CAPTURED"
    BY <1>3, <1>7, <2>1 DEF PaymentSeen, PaymentStatus
  <2>4. /\ verdict.version = s.payment.version /\ verdict.max = proposal.amount
        /\ proposal.amount \in Nat /\ proposal.amount > 0
        /\ proposal.amount <= s.payment.captured
        /\ proposal.amount <= RefundLimit(RefundPolicy)
    BY <1>3, <1>5, <1>7, <2>1, <2>2 DEF PaymentSeen
  <2>5. AmountOf(proposal) = proposal.amount
    BY <1>3, <1>7 DEF AmountOf
  <2>6. Pinned("issue_refund", o, verdict.version, verdict.max)
    BY <2>1, <2>2, <2>3, <2>4 DEF Pinned, PaymentSeen
  <2> QED
    BY <1>7, <2>4, <2>5, <2>6 DEF VerdictKnown
<1> QED
    BY <1>6, <1>7

(* What a read adds to a snapshot is the row as it is.                     *)
LEMMA ReadIsSeen ==
    ASSUME TypeOK, NEW a, NEW b, a.proposal \in Asked, SnapshotKnown(a),
           b.proposal = a.proposal, NEW name \in ReadSteps,
           \/ b.snapshot = [a.snapshot EXCEPT ![name] = Fetch(name, a.proposal.order)]
           \/ \E failed : b.snapshot = [a.snapshot EXCEPT !.read_failures = failed]
    PROVE  SnapshotKnown(b)
<1> DEFINE o == a.proposal.order
           s == a.snapshot
<1>1. DOMAIN s = SnapshotFields
    BY DEF SnapshotKnown
<1>2. CASE \E failed : b.snapshot = [s EXCEPT !.read_failures = failed]
  <2>1. /\ DOMAIN b.snapshot = SnapshotFields
        /\ b.snapshot.order = s.order
        /\ b.snapshot.payment = s.payment
        /\ b.snapshot.refund_policy = s.refund_policy
    BY <1>1, <1>2 DEF SnapshotFields
  <2> QED
    BY <2>1 DEF SnapshotKnown
<1>3. CASE b.snapshot = [s EXCEPT ![name] = Fetch(name, o)]
  <2>1. FetchOrder(o) # NULL => OrderSeen(o, FetchOrder(o))
    BY DEF FetchOrder, OrderSeen, TypeOK, StoreTypeOK, IsTable, OrderRow
  <2>2. FetchPayment(o) # NULL => PaymentSeen(o, FetchPayment(o))
    BY DEF FetchPayment, PaymentSeen, TypeOK, StoreTypeOK, IsTable, PaymentRow
  <2>3. /\ DOMAIN b.snapshot = SnapshotFields
        /\ \A field \in SnapshotFields :
              b.snapshot[field] = IF field = name THEN Fetch(name, o) ELSE s[field]
    BY <1>1, <1>3 DEF SnapshotFields, ReadSteps
  <2>4. b.snapshot.order = IF name = "order" THEN FetchOrder(o) ELSE s.order
    BY <2>3 DEF Fetch, SnapshotFields
  <2>5. b.snapshot.payment = IF name = "payment" THEN FetchPayment(o) ELSE s.payment
    BY <2>3 DEF Fetch, SnapshotFields
  <2>6. b.snapshot.refund_policy = IF name = "refund_policy" THEN RefundPolicy
                                     ELSE s.refund_policy
    BY <2>3 DEF Fetch, SnapshotFields
  <2> QED
    BY <2>1, <2>2, <2>3, <2>4, <2>5, <2>6 DEF SnapshotKnown
<1> QED
    BY <1>2, <1>3

(* A run knows what it decided, and on what.                               *)
Decided(r) ==
    /\ agent[r].step \in Reading => SnapshotKnown(agent[r])
    /\ agent[r].step = "issue" => VerdictKnown(agent[r])

LEMMA DecidedStays ==
    ASSUME VersionsGrow, ~SilentEdits => VersionsTell, NEW q,
           agent'[q] = agent[q], Decided(q)
    PROVE  Decided(q)'
    BY SnapshotStays, VerdictStays DEF Decided

LEMMA RunDecides ==
    ASSUME TypeOK, AgentInv, PinInv, NEW r \in Runs, RunStep(r),
           VersionsGrow, ~SilentEdits => VersionsTell
    PROVE  Decided(r)'
<1> DEFINE a == agent[r]
           b == agent'[r]
<1>1. Decided(r) /\ AgentTyped(a)
    BY DEF AgentInv, AgentKnown, PinInv, Decided
<1>2. ASSUME b.step \notin Reading \cup {"issue"} PROVE Decided(r)'
    BY <1>2 DEF Decided
<1>3. ASSUME NEW outcome, AttemptEnds(a, b, outcome) PROVE Decided(r)'
    BY <1>2, <1>3 DEF AttemptEnds, Reading
<1>4. CASE Propose(r)
  <2>1. CASE b.step = "order" /\ b.snapshot = a.snapshot
    <3>1. b.snapshot = NoSnapshot
      BY <1>1, <1>4, <2>1, ProposeDoes DEF AgentTyped
    <3>2. SnapshotKnown(agent[r])'
      BY <3>1 DEF SnapshotKnown, NoSnapshot, SnapshotFields
    <3> QED
      BY <2>1, <3>2 DEF Decided, SnapshotKnown, OrderSeen, PaymentSeen
  <2> QED
    BY <1>3, <1>4, <2>1, ProposeDoes
<1>5. CASE ReadRecord(r)
  <2>1. /\ a.step \in ReadSteps /\ UNCHANGED vars /\ SameAttempt(a, b) /\ b.step \in Reading
        /\ \/ b.snapshot = [a.snapshot EXCEPT ![a.step] = Fetch(a.step, a.proposal.order)]
           \/ \E failed : b.snapshot = [a.snapshot EXCEPT !.read_failures = failed]
    BY <1>5, ReadDoes
  <2>2. SnapshotKnown(a) /\ a.proposal \in Asked /\ b.proposal = a.proposal
    BY <1>1, <2>1 DEF Decided, AgentTyped, AtWork, Reading, ReadSteps, SameAttempt
  <2>3. SnapshotKnown(b)
    BY <2>1, <2>2, ReadIsSeen
  <2>4. UNCHANGED <<orders, payments>>
    BY <2>1 DEF vars, storeVars
  <2> QED
    BY <2>1, <2>3, <2>4 DEF Decided, SnapshotKnown, OrderSeen, PaymentSeen, Reading
<1>6. CASE Decide(r)
  <2>1. CASE b.step = "escalate"
    BY <1>2, <2>1 DEF Reading
  <2>2. CASE /\ b.step = "issue" /\ SameAttempt(a, b)
             /\ Evaluate(a.proposal, [a.snapshot EXCEPT !.now = now]).decision = "allow"
             /\ b.verdict = Evaluate(a.proposal, [a.snapshot EXCEPT !.now = now])
    <3>1. SnapshotKnown(a) /\ a.proposal \in Asked /\ b.proposal = a.proposal
      BY <1>1, <1>6, <2>2, DecideDoes DEF Decided, AgentTyped, AtWork, Reading, SameAttempt
    <3>2. VerdictKnown(b)
      BY <2>2, <3>1, AllowedIsKnown
    <3>3. UNCHANGED <<orders, payments>>
      BY <1>6, DecideDoes DEF vars, storeVars
    <3> QED
      BY <2>2, <3>2, <3>3 DEF Decided, VerdictKnown, Pinned, Reading
  <2> QED
    BY <1>3, <1>6, <2>1, <2>2, DecideDoes
<1>7. CASE Authorise(r)
    BY <1>2, <1>7, AuthoriseDoes DEF Reading
<1>8. CASE AfterExecute(r)
  <2>1. CASE b.step \in {"execute", "crashed"}
    BY <1>2, <2>1 DEF Reading
  <2>2. CASE StaleGoesOn(a, b)
    BY <1>2, <2>2 DEF StaleGoesOn, Reading
  <2> QED
    BY <1>3, <1>8, <2>1, <2>2, AfterExecuteDoes
<1>9. CASE BeginEscalation(r)
  <2>1. CASE b.step = "ticket"
    BY <1>2, <2>1 DEF Reading
  <2> QED
    BY <1>3, <1>9, <2>1, EscalateDoes
<1>10. CASE Present1(r) \/ PresentTicket(r) \/ Replay(r)
  <2>1. b.step \in {"executing", "ticketing", "replaying"}
    BY <1>10, ExecuteDoes DEF Present1, PresentTicket, Replay
  <2> QED
    BY <1>2, <2>1 DEF Reading
<1>11. CASE AfterTicket(r)
  <2>1. CASE b.step = "crashed"
    BY <1>2, <2>1 DEF Reading
  <2> QED
    BY <1>3, <1>11, <2>1, AfterTicketDoes
<1>12. CASE AfterReplay(r)
    BY <1>2, <1>12, AfterReplayDoes DEF Reading
<1>13. CASE Verify(r)
    BY <1>2, <1>13, VerifyDoes DEF Reading
<1>14. CASE CallStep(r) /\ UNCHANGED agent
    BY <1>1, <1>14, DecidedStays
<1> QED
    BY <1>4, <1>5, <1>6, <1>7, <1>8, <1>9, <1>10, <1>11, <1>12, <1>13, <1>14 DEF RunStep

LEMMA PermitsStayPinned ==
    ASSUME TypeOK, LedgerInv, AgentInv, PinInv, [RunnerNext]_runnerVars
    PROVE  \A p \in DOMAIN permits' : PermitPinned(p)'
<1>1. VersionsGrow /\ (~SilentEdits => VersionsTell)
    BY RunnerIsClient, RowsMoveOn
<1>2. ASSUME PermitsStay, DOMAIN permits' = DOMAIN permits
      PROVE  \A p \in DOMAIN permits' : PermitPinned(p)'
    BY <1>1, <1>2, PermitPinStays DEF PinInv
<1>3. ASSUME NEW r \in Runs, Authorise(r)
      PROVE  \A p \in DOMAIN permits' : PermitPinned(p)'
  <2>1. VerdictKnown(agent[r])
    BY <1>3, AuthoriseDoes DEF PinInv
  <2>2. PICK action, o, version, max :
            IssuePermit(r, action, o, version, max) /\ Pinned(action, o, version, max)
    BY <1>3, <2>1, AuthoriseDoes DEF VerdictKnown
  <2> QED
    BY <2>2, IssuePins DEF PinInv, AgentInv
<1>4. ASSUME NEW r \in Runs, NEW o \in DOMAIN orders,
             IssuePermit(r, "create_support_ticket", o, orders[o].version, 0)
      PROVE  \A p \in DOMAIN permits' : PermitPinned(p)'
  <2>1. Pinned("create_support_ticket", o, orders[o].version, 0)
    BY VersionsAreNats DEF Pinned
  <2> QED
    BY <1>4, <2>1, IssuePins DEF PinInv, AgentInv
<1>5. ASSUME NEW r \in Runs,
             \/ Propose(r) \/ ReadRecord(r) \/ Decide(r) \/ AfterExecute(r)
             \/ AfterTicket(r) \/ AfterReplay(r) \/ Verify(r)
             \/ Present1(r) \/ PresentTicket(r) \/ Replay(r)
      PROVE  UNCHANGED permits
    BY <1>5, ProposeDoes, ReadDoes, DecideDoes, AfterExecuteDoes, AfterTicketDoes,
       AfterReplayDoes, VerifyDoes, ExecuteDoes
       DEF Present1, PresentTicket, Replay, Load, vars, storeVars
<1>6. ASSUME NEW r \in Runs, BeginEscalation(r)
      PROVE  \A p \in DOMAIN permits' : PermitPinned(p)'
    BY <1>2, <1>4, <1>6, EscalateDoes, PermitsKept DEF vars, storeVars
<1>7. ASSUME NEW r \in Runs, RunStep(r)
      PROVE  \A p \in DOMAIN permits' : PermitPinned(p)'
    BY <1>2, <1>3, <1>5, <1>6, <1>7, PermitsKept DEF RunStep
<1>8. UNCHANGED runnerVars => UNCHANGED permits
    BY DEF runnerVars, vars, storeVars
<1> QED
    BY <1>2, <1>7, <1>8, PermitsKept DEF RunnerNext

LEMMA PinInvNext ==
    ASSUME TypeOK, LedgerInv, AgentInv, PinInv, [RunnerNext]_runnerVars
    PROVE  PinInv'
<1>1. VersionsGrow /\ (~SilentEdits => VersionsTell)
    BY RunnerIsClient, RowsMoveOn
<1>2. ASSUME NEW q \in Runs PROVE Decided(q)'
  <2>1. CASE RunStep(q)
    BY <1>1, <2>1, RunDecides
  <2>2. CASE agent'[q] = agent[q]
    BY <1>1, <2>2, DecidedStays DEF PinInv, Decided
  <2>3. ASSUME NEW r \in Runs, RunStep(r), r # q PROVE agent'[q] = agent[q]
    BY <2>3, RunMoves DEF AgentMoves, OnlyOf
  <2> QED
    BY <2>1, <2>2, <2>3 DEF RunnerNext, runnerVars
<1> QED
    BY <1>2, PermitsStayPinned DEF PinInv, Decided

LEMMA PinInvInit == RunnerInit => PinInv
<1> SUFFICES ASSUME RunnerInit PROVE PinInv
    OBVIOUS
<1>1. DOMAIN permits = {}
    BY DEF RunnerInit, Init, StoreInit, EmptyTable
<1>2. ASSUME NEW r \in Runs PROVE agent[r].step = "propose"
    BY DEF RunnerInit, Fresh
<1> QED
    BY <1>1, <1>2 DEF PinInv, Reading

-----------------------------------------------------------------------------
(* What every run keeps.                                                   *)

Base == Kept /\ CallsSaw /\ AgentInv /\ PinInv

LEMMA BaseInit == RunnerInit => Base
    BY KeptInit, CallsSawInit, AgentInvInit, PinInvInit DEF RunnerInit, Base

LEMMA BaseNext == Base /\ [RunnerNext]_runnerVars => Base'
<1> SUFFICES ASSUME Base, [RunnerNext]_runnerVars PROVE Base'
    OBVIOUS
<1>1. TypeOK /\ LedgerInv /\ AgentInv /\ PinInv /\ CallsSaw
    BY DEF Base, Kept
<1>2. [ClientNext]_vars
    BY <1>1, RunnerIsClient
<1>3. Kept' /\ CallsSaw'
    BY <1>1, <1>2, KeptNext, CallsSawNext DEF Base
<1>4. AgentInv' /\ PinInv'
    BY <1>1, AgentInvNext, PinInvNext
<1> QED
    BY <1>3, <1>4 DEF Base

LEMMA BaseHolds == RunnerSpec => []Base
<1> QED
    BY BaseInit, BaseNext, PTL DEF RunnerSpec

(* The locals of a run keep their types, a run is inside execute() exactly *)
(* while it waits for an answer, it presents only permits that were issued,*)
(* and it makes at most two attempts at a proposal (runner.py _attempt).   *)
THEOREM RunTypes == RunnerSpec => []RunnerTypeOK
<1>1. Base => RunnerTypeOK
  <2> SUFFICES ASSUME Base, NEW r \in Runs
               PROVE  /\ TypeOK
                      /\ agent[r].step \in Steps
                      /\ agent[r].attempt \in 1..2
                      /\ agent[r].outcome \in Outcome
                      /\ agent[r].left \in 0..MaxProposals
                      /\ agent[r].last # NULL => agent[r].last.permit \in DOMAIN permits
                      /\ phase[r] # "idle" =>
                            agent[r].step \in {"executing", "ticketing", "replaying"}
    BY DEF RunnerTypeOK, Base, Kept
  <2>1. TypeOK /\ AgentKnown(r)
    BY DEF Base, Kept, AgentInv
  <2> QED
    BY <2>1 DEF AgentKnown, AgentTyped, LastKnown, CallOwned
<1> QED
    BY <1>1, BaseHolds, PTL

(* All that the executor promises its callers it keeps for the runner: the *)
(* tables agree, no row goes beyond its permit, a payment is refunded once *)
(* (executor.py, write_tools.py, called from runner.py).                   *)
THEOREM RunsKeepLedger ==
    RunnerSpec => [](LedgerAgrees /\ EveryRowIsAuthorised /\ RefundedOnce)
<1>1. Base => LedgerAgrees /\ EveryRowIsAuthorised /\ RefundedOnce
    BY DEF Base, Kept, LedgerInv, RefundInv
<1> QED
    BY <1>1, BaseHolds, PTL

(* A row is written by the commit of one call.                             *)
LEMMA RowWritten ==
    ASSUME TypeOK, CallsKnown, NEW r \in Runs, Commit(r)
    PROVE  LET row == mutation_log'[Len(mutation_log')]  proposal == call[r].proposal
           IN  /\ row.action = proposal.action
               /\ row.resource = ResourceOf(proposal.action, proposal.order)
               /\ row.amount = AmountMoved(proposal)
               /\ row.run = r
               /\ row.by = call[r].permit
<1> DEFINE p == call[r].permit
           permit == call[r].row
           proposal == call[r].proposal
           row == [run |-> r, action |-> proposal.action, resource |-> permit.resource,
                   amount |-> AmountMoved(proposal), by |-> p]
<1>1. permit.resource = ResourceOf(proposal.action, proposal.order)
    BY DEF CallsKnown, CallKnown, Commit
<1>2. mutation_log' = Append(mutation_log, row)
    BY <1>1, WriteLogs DEF Commit, LogMutation
<1>3. mutation_log \in Seq(LogRow)
    BY DEF TypeOK, StoreTypeOK
<1>4. ASSUME NEW new, mutation_log' = Append(mutation_log, new)
      PROVE  mutation_log'[Len(mutation_log')] = new
    BY <1>3, <1>4
<1>5. mutation_log'[Len(mutation_log')] = row
  <2> HIDE DEF row
  <2> QED
    BY <1>2, <1>4
<1> QED
    BY <1>1, <1>5

(* A write lands on the row as it was when the policy allowed it.          *)
LEMMA CommitIsPinned ==
    ASSUME ~SilentEdits, Base, NEW r \in Runs, Commit(r)
    PROVE  LET proposal == call[r].proposal  o == proposal.order
           IN  /\ proposal.action = "issue_refund" =>
                    /\ payments[o].status = "CAPTURED"
                    /\ AmountOf(proposal) \in 1..payments[o].captured
                    /\ AmountOf(proposal) <= RefundLimit(RefundPolicy)
               /\ proposal.action = "cancel_order" =>
                    orders[o].status \in CancellableOrderStatuses
<1> DEFINE p == call[r].permit
           proposal == call[r].proposal
           o == proposal.order
           row == call[r].row
<1>1. TypeOK /\ AgentKnown(r) /\ CallKnown(r) /\ phase[r] = "commit"
    BY DEF Base, Kept, AgentInv, LedgerInv, CallsKnown, Commit
<1>2. CallOwned(r)
    BY <1>1 DEF AgentKnown
<1>3. /\ p \in DOMAIN permits /\ PermitPinned(p)
      /\ row.version = permits[p].version
      /\ permits[p].action = proposal.action
      /\ permits[p].resource = ResourceOf(proposal.action, o)
    BY <1>1 DEF CallKnown, Base, PinInv
<1>4. permits[p].resource[2] = o
    BY <1>3 DEF ResourceOf, Order, Payment
<1>5. Pinned(proposal.action, o, row.version, permits[p].max)
    BY <1>3, <1>4 DEF PermitPinned
<1>6. CASE proposal.action = "issue_refund"
  <2>1. payments[o].version = row.version
    BY <1>6 DEF Commit, WriteTool, IssueRefund, PaymentAtVersion
  <2>2. permits[p].max = AmountOf(proposal)
    <3>1. agent[r].step \in {"executing", "replaying"} /\ p = agent[r].last.permit
            /\ proposal = agent[r].last.proposal
      BY <1>2, <1>6 DEF CallOwned, TicketProposal
    <3>2. LastKnown(r)
      BY <3>1, HasPermit DEF Base, Spending
    <3> QED
      BY <1>3, <1>6, <3>1, <3>2 DEF LastKnown
  <2>3. payments[o].captured \in Nat /\ permits[p].max \in Nat
    BY <1>1, <1>5, <1>6 DEF Pinned, TypeOK, StoreTypeOK, IsTable, PaymentRow
  <2> QED
    BY <1>5, <1>6, <2>1, <2>2, <2>3 DEF Pinned
<1>7. CASE proposal.action = "cancel_order"
  <2>1. orders[o].version = row.version
    BY <1>7 DEF Commit, WriteTool, CancelOrder, OrderAtVersion
  <2> QED
    BY <1>5, <1>7, <2>1 DEF Pinned
<1> QED
    BY <1>6, <1>7

(* Whatever the policy allowed a write for is still so when it commits,    *)
(* however long the run took and whoever moved: the version the policy     *)
(* pinned is the one the guarded UPDATE finds, and where every edit moves  *)
(* the version that makes the row the one the policy saw (rules.py,        *)
(* permits.py, write_tools.py; README, TOCTOU defence).                    *)
THEOREM PolicyStillHolds ==
    ASSUME ~SilentEdits
    PROVE  RunnerSpec => PolicyHoldsAtCommit
<1> DEFINE A == mutation_log' # mutation_log =>
          LET row == mutation_log'[Len(mutation_log')]
              o   == row.resource[2]
          IN  /\ row.action = "issue_refund" =>
                    /\ payments[o].status = "CAPTURED"
                    /\ row.amount \in 1..payments[o].captured
                    /\ row.amount <= RefundLimit(RefundPolicy)
              /\ row.action = "cancel_order" =>
                    orders[o].status \in CancellableOrderStatuses
<1>1. Base /\ [RunnerNext]_runnerVars => A
  <2> SUFFICES ASSUME Base, [RunnerNext]_runnerVars, mutation_log' # mutation_log
               PROVE  A
    OBVIOUS
  <2>1. PICK r \in Runs : Commit(r)
    BY RunnerIsClient, OnlyCommitsWrite DEF Base, Kept
  <2> DEFINE row == mutation_log'[Len(mutation_log')]
             proposal == call[r].proposal
  <2>2. /\ row.action = proposal.action
        /\ row.resource = ResourceOf(proposal.action, proposal.order)
        /\ row.amount = AmountMoved(proposal)
    BY <2>1, RowWritten DEF Base, Kept, LedgerInv
  <2>3. row.resource[2] = proposal.order
    BY <2>2 DEF ResourceOf, Order, Payment
  <2>4. row.action = "issue_refund" => row.amount = AmountOf(proposal)
    BY <2>2 DEF AmountMoved
  <2>5. /\ proposal.action = "issue_refund" =>
              /\ payments[proposal.order].status = "CAPTURED"
              /\ AmountOf(proposal) \in 1..payments[proposal.order].captured
              /\ AmountOf(proposal) <= RefundLimit(RefundPolicy)
        /\ proposal.action = "cancel_order" =>
              orders[proposal.order].status \in CancellableOrderStatuses
    BY <2>1, CommitIsPinned
  <2> HIDE DEF row, proposal
  <2>6. /\ row.action = "issue_refund" =>
              /\ payments[row.resource[2]].status = "CAPTURED"
              /\ row.amount \in 1..payments[row.resource[2]].captured
              /\ row.amount <= RefundLimit(RefundPolicy)
        /\ row.action = "cancel_order" =>
              orders[row.resource[2]].status \in CancellableOrderStatuses
    BY <2>2, <2>3, <2>4, <2>5
  <2> QED
    BY <2>6 DEF row
<1>2. Base /\ [RunnerNext]_runnerVars => [A]_runnerVars
    BY <1>1
<1> HIDE DEF A
<1>3. RunnerSpec => [][A]_runnerVars
    BY <1>2, BaseInit, BaseNext, PTL DEF RunnerSpec
<1> QED
    BY <1>3 DEF PolicyHoldsAtCommit, A

(* A run changes a status only along the transition tables (executor.py    *)
(* check 8, called from runner.py).                                        *)
THEOREM RunMovesAreLegal ==
    ASSUME ~SilentEdits
    PROVE  RunnerSpec => AgentMovesAreLegal
<1> DEFINE A == mutation_log' # mutation_log => LegalMove
<1>1. Base /\ [RunnerNext]_runnerVars => A
    BY RunnerIsClient, OnlyCommitsWrite, CommitIsLegal DEF Base, Kept
<1>2. Base /\ [RunnerNext]_runnerVars => [A]_vars
    BY <1>1
<1> HIDE DEF A
<1>3. RunnerSpec => [][A]_vars
    BY <1>2, BaseInit, BaseNext, PTL DEF RunnerSpec
<1> QED
    BY <1>3 DEF AgentMovesAreLegal, A, LegalMove

-----------------------------------------------------------------------------
(* How a call may end.                                                     *)

CallFacts(r) == CallSound(r) /\ LastFits(r) /\ AnswerSound(r)

(* What a call in progress was authorised to do.                           *)
LEMMA CallIs ==
    ASSUME Base, NEW r \in Runs, phase[r] # "idle"
    PROVE  LET p == call[r].permit  row == call[r].row  proposal == call[r].proposal
               o == proposal.order
           IN  /\ p \in DOMAIN permits
               /\ p[1] = r
               /\ proposal \in Asked
               /\ row \in PermitRow
               /\ AmountOf(proposal) \in Nat
               /\ row.key = permits[p].key
               /\ row.action = proposal.action
               /\ row.max = permits[p].max
               /\ row.version = permits[p].version
               /\ row.used => permits[p].used
               /\ row.resource = ResourceOf(proposal.action, o)
               /\ proposal.action = "issue_refund" => AmountOf(proposal) = row.max
               /\ agent[r].step = "ticketing" => AmountOf(proposal) = 0
               /\ Pinned(proposal.action, o, row.version, row.max)
<1> DEFINE p == call[r].permit
           row == call[r].row
           proposal == call[r].proposal
           o == proposal.order
<1>1. TypeOK /\ AgentKnown(r) /\ CallKnown(r)
    BY DEF Base, Kept, AgentInv, LedgerInv, CallsKnown
<1>2. row \in PermitRow /\ proposal \in Asked /\ AmountOf(proposal) \in Nat
    BY <1>1, InHand DEF TypeOK, CallTypeOK, Asked
<1>3. /\ p \in DOMAIN permits
      /\ row.key = permits[p].key
      /\ row.action = proposal.action
      /\ row.action = permits[p].action
      /\ row.resource = permits[p].resource
      /\ row.max = permits[p].max
      /\ row.version = permits[p].version
      /\ row.used => permits[p].used
    BY <1>1 DEF CallKnown
<1>4. /\ p[1] = r
      /\ row.resource = ResourceOf(proposal.action, o)
      /\ proposal.action = "issue_refund" => AmountOf(proposal) = row.max
      /\ agent[r].step = "ticketing" => AmountOf(proposal) = 0
  <2>1. CASE /\ agent[r].step \in {"executing", "replaying"}
             /\ p = agent[r].last.permit
             /\ proposal = agent[r].last.proposal
    <3>1. LastKnown(r)
      BY <2>1, HasPermit DEF Base, Spending
    <3> QED
      BY <1>3, <2>1, <3>1 DEF LastKnown
  <2>2. CASE /\ agent[r].step = "ticketing"
             /\ p = <<r, sequence[r]>>
             /\ proposal = TicketProposal(agent[r].proposal.order)
    <3>1. TicketKnown(r)
      BY <2>2, HasPermit DEF Base, Ticketing
    <3>2. proposal.action = "create_support_ticket" /\ o = agent[r].proposal.order
            /\ AmountOf(proposal) = 0
      BY <2>2 DEF TicketProposal, AmountOf
    <3>3. p[1] = r
      BY <2>2
    <3> QED
      BY <1>3, <2>2, <3>1, <3>2, <3>3 DEF TicketKnown, ResourceOf
  <2> QED
    BY <1>1, <2>1, <2>2 DEF AgentKnown, CallOwned
<1>5. PermitPinned(p)
    BY <1>3 DEF Base, PinInv
<1>6. row.resource[2] = o
    BY <1>4 DEF ResourceOf, Order, Payment
<1>7. Pinned(proposal.action, o, row.version, row.max)
    BY <1>3, <1>5, <1>6 DEF PermitPinned
<1> HIDE DEF p, row, proposal, o
<1>8. /\ p \in DOMAIN permits
      /\ p[1] = r
      /\ proposal \in Asked
      /\ row \in PermitRow
      /\ AmountOf(proposal) \in Nat
      /\ row.key = permits[p].key
      /\ row.action = proposal.action
      /\ row.max = permits[p].max
      /\ row.version = permits[p].version
      /\ row.used => permits[p].used
      /\ row.resource = ResourceOf(proposal.action, o)
      /\ proposal.action = "issue_refund" => AmountOf(proposal) = row.max
      /\ agent[r].step = "ticketing" => AmountOf(proposal) = 0
      /\ Pinned(proposal.action, o, row.version, row.max)
    BY <1>2, <1>3, <1>4, <1>7
<1> QED
    BY <1>8 DEF p, row, proposal, o

(* A row with the pinned version may be written.                           *)
LEMMA PinnedMayMove ==
    ASSUME ~SilentEdits, NEW proposal \in Asked, NEW version, NEW max,
           Pinned(proposal.action, proposal.order, version, max),
           ResolveTarget(proposal).version = version
    PROVE  TransitionAllowed(proposal.action, ResolveTarget(proposal))
<1> DEFINE o == proposal.order
<1>1. proposal.action \in ActionName
    BY DEF Asked, Proposals
<1>2. CASE proposal.action = "cancel_order"
  <2>1. o \in DOMAIN orders /\ ResolveTarget(proposal).version = orders[o].version
          /\ ResolveTarget(proposal).status = orders[o].status
    BY <1>2 DEF Pinned, ResolveTarget
  <2>2. orders[o].status \in {"PAID", "READY_TO_SHIP"}
    BY <1>2, <2>1 DEF Pinned, CancellableOrderStatuses
  <2> QED
    BY <1>2, <2>1, <2>2 DEF TransitionAllowed, OrderTransitionAllowed, OrderTransitions
<1>3. CASE proposal.action = "issue_refund"
  <2>1. o \in DOMAIN payments /\ ResolveTarget(proposal).version = payments[o].version
          /\ ResolveTarget(proposal).status = payments[o].status
    BY <1>3 DEF Pinned, ResolveTarget
  <2>2. payments[o].status = "CAPTURED"
    BY <1>3, <2>1 DEF Pinned
  <2> QED
    BY <1>3, <2>1, <2>2 DEF TransitionAllowed, PaymentTransitionAllowed, PaymentTransitions
<1>4. CASE proposal.action = "create_support_ticket"
    BY <1>4 DEF TransitionAllowed
<1> QED
    BY <1>1, <1>2, <1>3, <1>4 DEF ActionName

(* The target of a call is there, and is what its permit is for.           *)
LEMMA TargetIsThere ==
    ASSUME TypeOK, NEW proposal \in Asked, NEW version, NEW max,
           Pinned(proposal.action, proposal.order, version, max)
    PROVE  /\ ResolveTarget(proposal) # NULL
           /\ ResolveTarget(proposal).resource = ResourceOf(proposal.action, proposal.order)
<1> DEFINE target == ResolveTarget(proposal)
<1>1. proposal.action \in ActionName
    BY DEF Asked, Proposals
<1>2. /\ target.resource = ResourceOf(proposal.action, proposal.order)
      /\ target \in Target
  <2>1. CASE proposal.action = "issue_refund"
    <3>1. proposal.order \in DOMAIN payments
      BY <2>1 DEF Pinned
    <3> QED
      BY <2>1, <3>1 DEF ResolveTarget, ResourceOf, Target, Payment, Resources, TypeOK,
                        StoreTypeOK, IsTable, PaymentRow
  <2>2. CASE proposal.action # "issue_refund"
    <3>1. proposal.order \in DOMAIN orders
      BY <1>1, <2>2 DEF Pinned, ActionName
    <3> QED
      BY <2>2, <3>1 DEF ResolveTarget, ResourceOf, Target, Order, Resources, TypeOK,
                        StoreTypeOK, IsTable, OrderRow
  <2> QED
    BY <2>1, <2>2
<1> QED
    BY <1>2, RowAssumption

(* A permit whose key has a record was used, and so was one that made a    *)
(* refund or a ticket.                                                     *)
LEMMA WrittenIsUsed ==
    ASSUME LedgerInv, NEW p \in DOMAIN permits
    PROVE  /\ permits[p].key \in DOMAIN records => permits[p].used
           /\ permits[p].used \/ p \in DOMAIN refunds \/ p \in DOMAIN tickets
                => permits[p].key \in DOMAIN records
    BY DEF LedgerInv, LedgerAgrees

(* A run writes under permits of its own only.                             *)
OwnWrites(r) ==
    \A p \in DOMAIN permits : p[1] # r =>
        /\ permits'[p].used => permits[p].used
        /\ permits[p].key \in DOMAIN records' => permits[p].key \in DOMAIN records

LEMMA CommitWritesOwn ==
    ASSUME Base, NEW r \in Runs, Commit(r)
    PROVE  OwnWrites(r)
<1> SUFFICES ASSUME NEW q \in DOMAIN permits, q[1] # r
             PROVE  /\ permits'[q].used => permits[q].used
                    /\ permits[q].key \in DOMAIN records' =>
                            permits[q].key \in DOMAIN records
    BY DEF OwnWrites
<1> DEFINE p == call[r].permit
<1>1. p \in DOMAIN permits /\ p[1] = r /\ call[r].row.key = permits[p].key
    BY CallIs DEF Commit
<1>2. permits[q].key # permits[p].key
    BY <1>1 DEF Base, Kept, LedgerInv, PermitsKnown
<1>3. PICK n, row : CommitWrites(r, n, row)
    BY CommitDoes DEF Base, Kept, LedgerInv
<1> QED
    BY <1>1, <1>2, <1>3 DEF CommitWrites

LEMMA RunWritesOwn ==
    ASSUME Base, NEW r \in Runs, RunStep(r)
    PROVE  OwnWrites(r)
<1>1. ASSUME UNCHANGED <<permits, records>> PROVE OwnWrites(r)
    BY <1>1 DEF OwnWrites
<1>2. ASSUME ClientIssue(r) PROVE OwnWrites(r)
  <2>1. PICK action, o, version, max : IssuePermit(r, action, o, version, max)
    BY <1>2 DEF ClientIssue
  <2>2. UNCHANGED records /\ \A q \in DOMAIN permits : permits'[q] = permits[q]
    BY <2>1, IssueDoes DEF Base, Kept, AgentInv
  <2> QED
    BY <2>2 DEF OwnWrites
<1>3. ASSUME ClientPresent(r) \/ UNCHANGED vars PROVE UNCHANGED <<permits, records>>
    BY <1>3 DEF ClientPresent, Load, vars, storeVars
<1>4. ASSUME Resolve(r) \/ Lookup(r) \/ CommitStale(r) \/ CommitConflict(r) \/ Respond(r)
      PROVE  UNCHANGED <<permits, records>>
    BY <1>4 DEF Resolve, Lookup, CommitStale, CommitConflict, Respond, storeVars
<1> QED
    BY <1>1, <1>2, <1>3, <1>4, RunIsClient, CommitWritesOwn DEF CallStep, Base, Kept

(* What stands still stays as sound as it was.                             *)
LEMMA CallFactsStay ==
    ASSUME PermitsStay, NEW q, AgentKnown(q), CallFacts(q),
           agent'[q] = agent[q], phase'[q] = phase[q], call'[q] = call[q],
           answer'[q] = answer[q],
           phase[q] = "commit" /\ call[q].row.key \in DOMAIN records'
                => call[q].row.key \in DOMAIN records,
           LastKnown(q) /\ permits'[agent[q].last.permit].used
                => permits[agent[q].last.permit].used
    PROVE  CallFacts(q)'
<1>1. CallSound(q)'
    BY DEF CallFacts, CallSound
<1>2. ASSUME LastKnown(q)
      PROVE  /\ permits'[agent[q].last.permit].used <=> permits[agent[q].last.permit].used
             /\ permits'[agent[q].last.permit].max = permits[agent[q].last.permit].max
    BY <1>2 DEF LastKnown, PermitsStay
<1>3. agent[q].last # NULL \/ agent[q].step \in Spending => LastKnown(q)
    BY DEF AgentKnown
<1>4. LastFits(q)'
    BY <1>2, <1>3 DEF CallFacts, LastFits, Fits
<1>5. AnswerSound(q)'
    BY <1>2, <1>3 DEF CallFacts, AnswerSound, Fits, Spending
<1> QED
    BY <1>1, <1>4, <1>5 DEF CallFacts

(* A call answers as its permit says.  What may end it early is the clock  *)
(* or the version, or the amount of a cancel or a ticket.                  *)
Answers(r) ==
    LET a == answer'[r]
    IN  /\ a.kind # "raised"
        /\ a.kind = "rejected" =>
              \/ a.reason = "permit_expired" /\ now > call[r].row.expires
              \/ /\ a.reason = "stale_resource_version"
                 /\ Fits(call[r].permit, call[r].proposal)
                 /\ phase[r] \in {"lookup", "commit"}
              \/ SilentEdits /\ a.reason = "transition_not_allowed"
              \/ /\ a.reason = "permit_amount_exceeded"
                 /\ call[r].proposal.action # "issue_refund"
                 /\ AmountOf(call[r].proposal) > 0
                 /\ ~Fits(call[r].permit, call[r].proposal)
                 /\ agent[r].step # "ticketing"
        /\ a.kind # "rejected" => /\ permits[call[r].permit].used
                                  /\ a.reason # "stale_resource_version"
        /\ a.reason = "stale_resource_version" => Fits(call[r].permit, call[r].proposal)

LEMMA ResolveAnswers ==
    ASSUME Base, NEW r \in Runs, Resolve(r)
    PROVE  \/ phase'[r] = "idle" /\ Answers(r)
           \/ /\ phase'[r] = "lookup"
              /\ answer'[r] = answer[r]
              /\ call'[r].target = ResolveTarget(call[r].proposal)
              /\ call'[r].row = call[r].row
              /\ call'[r].proposal = call[r].proposal
<1> DEFINE p == call[r].permit
           row == call[r].row
           proposal == call[r].proposal
           target == ResolveTarget(proposal)
<1>1. TypeOK /\ phase[r] # "idle"
    BY DEF Base, Kept, Resolve
<1>2. /\ proposal \in Asked
      /\ row.resource = ResourceOf(proposal.action, proposal.order)
      /\ Pinned(proposal.action, proposal.order, row.version, row.max)
    BY <1>1, CallIs
<1>3. target # NULL /\ target.resource = row.resource
    BY <1>1, <1>2, TargetIsThere
<1> HIDE DEF target
<1>4. \/ now > row.expires /\ CallEnds(r, "rejected", "permit_expired", NULL)
      \/ /\ phase'[r] = "lookup"
         /\ call'[r].proposal = proposal
         /\ call'[r].row = row
         /\ call'[r].target = target
         /\ answer'[r] = answer[r]
    BY <1>1, <1>3, ResolveDoes DEF target
<1>5. ASSUME now > row.expires, CallEnds(r, "rejected", "permit_expired", NULL)
      PROVE  phase'[r] = "idle" /\ Answers(r)
    BY <1>5 DEF CallEnds, Answers, Answer
<1> QED
    BY <1>4, <1>5 DEF target

LEMMA FailedChecks ==
    ASSUME NEW permit \in PermitRow, NEW proposal, AmountOf(proposal) \in Nat, NEW target,
           FirstFailedCheck(permit, proposal, target) # NULL, ~permit.used
    PROVE  LET failed == FirstFailedCheck(permit, proposal, target)
           IN  \/ failed = "permit_amount_exceeded" /\ AmountOf(proposal) > permit.max
               \/ /\ failed = "stale_resource_version" /\ AmountOf(proposal) <= permit.max
                  /\ target.version # permit.version
               \/ /\ failed = "transition_not_allowed" /\ AmountOf(proposal) <= permit.max
                  /\ target.version = permit.version
                  /\ ~TransitionAllowed(proposal.action, target)
<1>1. permit.max \in Nat
    BY DEF PermitRow
<1>2. AmountOf(proposal) <= permit.max <=> ~(AmountOf(proposal) > permit.max)
    BY <1>1
<1> QED
    BY <1>2, Zenon DEF FirstFailedCheck

LEMMA LookupAnswersSound ==
    ASSUME Base, NEW r \in Runs, CallSound(r), Lookup(r)
    PROVE  \/ phase'[r] = "idle" /\ Answers(r)
           \/ /\ phase'[r] = "commit" /\ call'[r] = call[r] /\ answer'[r] = answer[r]
              /\ call[r].row.key \notin DOMAIN records
<1> DEFINE p == call[r].permit
           row == call[r].row
           proposal == call[r].proposal
           target == call[r].target
           failed == FirstFailedCheck(row, proposal, target)
<1>1. TypeOK /\ LedgerInv /\ phase[r] = "lookup"
    BY DEF Base, Kept, Lookup
<1>2. /\ p \in DOMAIN permits
      /\ row \in PermitRow
      /\ AmountOf(proposal) \in Nat
      /\ row.key = permits[p].key
      /\ row.max = permits[p].max
      /\ row.used => permits[p].used
      /\ proposal.action = "issue_refund" => AmountOf(proposal) = row.max
      /\ agent[r].step = "ticketing" => AmountOf(proposal) = 0
    BY <1>1, CallIs
<1>3. row.max \in Nat /\ (Fits(p, proposal) <=> AmountOf(proposal) <= row.max)
    BY <1>2 DEF PermitRow, Fits
<1>4. /\ row.key \in DOMAIN records => permits[p].used
      /\ row.used => row.key \in DOMAIN records
    BY <1>1, <1>2, WrittenIsUsed
<1>5. ~SilentEdits /\ target.version = row.version =>
            TransitionAllowed(proposal.action, target)
    BY <1>1 DEF CallSound
<1>6. row.used => failed = "permit_already_used"
    BY DEF FirstFailedCheck
<1>7. failed # NULL /\ ~row.used =>
        \/ failed = "permit_amount_exceeded" /\ AmountOf(proposal) > row.max
        \/ failed = "stale_resource_version" /\ AmountOf(proposal) <= row.max
        \/ /\ failed = "transition_not_allowed"
           /\ target.version = row.version
           /\ ~TransitionAllowed(proposal.action, target)
    BY <1>2, FailedChecks
<1>8. \/ /\ row.key \in DOMAIN records
         /\ CallEnds(r, "replayed", "idempotent_replay", records[row.key])
      \/ /\ failed # NULL
         /\ row.key \in DOMAIN records => failed = "permit_amount_exceeded"
         /\ CallEnds(r, "rejected", failed, NULL)
      \/ /\ row.key \notin DOMAIN records
         /\ phase'[r] = "commit"
         /\ call'[r] = call[r]
         /\ answer'[r] = answer[r]
    BY <1>1, LookupDoes
<1> HIDE DEF p, row, proposal, target, failed
<1>9. ASSUME row.key \in DOMAIN records,
             CallEnds(r, "replayed", "idempotent_replay", records[row.key])
      PROVE  phase'[r] = "idle" /\ Answers(r)
  <2>1. phase'[r] = "idle" /\ answer'[r].kind = "replayed"
          /\ answer'[r].reason = "idempotent_replay"
    BY <1>9 DEF CallEnds, Answer
  <2> QED
    BY <1>4, <1>9, <2>1 DEF Answers, p
<1>10. ASSUME failed # NULL, row.key \in DOMAIN records => failed = "permit_amount_exceeded",
              CallEnds(r, "rejected", failed, NULL)
       PROVE  phase'[r] = "idle" /\ Answers(r)
  <2>1. phase'[r] = "idle" /\ answer'[r].kind = "rejected" /\ answer'[r].reason = failed
    BY <1>10 DEF CallEnds, Answer
  <2>2. ~row.used
    BY <1>4, <1>6, <1>10
  <2>3. \/ failed = "permit_amount_exceeded" /\ AmountOf(proposal) > row.max
        \/ failed = "stale_resource_version" /\ AmountOf(proposal) <= row.max
        \/ failed = "transition_not_allowed" /\ SilentEdits
    BY <1>5, <1>7, <1>10, <2>2
  <2>4. CASE failed = "permit_amount_exceeded" /\ AmountOf(proposal) > row.max
    <3>1. ~Fits(p, proposal) /\ AmountOf(proposal) > 0 /\ proposal.action # "issue_refund"
            /\ agent[r].step # "ticketing"
      BY <1>2, <1>3, <2>4
    <3> QED
      BY <2>1, <2>4, <3>1 DEF Answers, p, proposal
  <2>5. CASE failed = "stale_resource_version" /\ AmountOf(proposal) <= row.max
    BY <1>1, <1>3, <2>1, <2>5 DEF Answers, p, proposal
  <2>6. CASE failed = "transition_not_allowed" /\ SilentEdits
    BY <2>1, <2>6 DEF Answers
  <2> QED
    BY <2>3, <2>4, <2>5, <2>6
<1> QED
    BY <1>8, <1>9, <1>10 DEF row

LEMMA NoKeyIsTaken ==
    ASSUME Base, NEW r \in Runs, CallSound(r)
    PROVE  ~CommitConflict(r)
<1> SUFFICES ASSUME CommitConflict(r) PROVE FALSE
    OBVIOUS
<1>1. phase[r] = "commit" /\ CommitRaises(call[r].permit, call[r].row, call[r].proposal)
    BY DEF CommitConflict
<1>2. call[r].permit \in DOMAIN permits /\ call[r].row.key = permits[call[r].permit].key
    BY <1>1, CallIs
<1>3. call[r].row.key \notin DOMAIN records
    BY <1>1 DEF CallSound
<1>4. Covers(call[r].row, call[r].proposal)
    BY <1>1 DEF Base, Kept, LedgerInv, CallsKnown, CallKnown, Covers, ResourceOf
<1> QED
    BY <1>1, <1>2, <1>3, <1>4, WrittenIsUsed DEF CommitRaises, PrimaryKeyTaken, Base, Kept

LEMMA EndAnswers ==
    ASSUME Base, NEW r \in Runs, CallSound(r), CommitStale(r) \/ Respond(r)
    PROVE  phase'[r] = "idle" /\ Answers(r)
<1> DEFINE p == call[r].permit
           row == call[r].row
           proposal == call[r].proposal
<1>1. TypeOK /\ LedgerInv /\ phase[r] \in {"commit", "respond"}
    BY DEF Base, Kept, CommitStale, Respond
<1>2. /\ p \in DOMAIN permits
      /\ row.key = permits[p].key
      /\ row.max = permits[p].max
    BY <1>1, CallIs
<1>3. CallKnown(r)
    BY <1>1 DEF LedgerInv, CallsKnown
<1>4. Fits(p, proposal)
    BY <1>1, <1>2, <1>3 DEF CallKnown, Fits
<1>5. CASE CommitStale(r)
  <2>1. phase[r] = "commit" /\ CallEnds(r, "rejected", "stale_resource_version", NULL)
    BY <1>1, <1>5, EndDoes
  <2>2. /\ phase'[r] = "idle"
        /\ answer'[r].kind = "rejected" /\ answer'[r].reason = "stale_resource_version"
    BY <2>1 DEF CallEnds, Answer
  <2> QED
    BY <1>4, <2>1, <2>2 DEF Answers
<1>6. CASE Respond(r)
  <2>1. PICK kind \in {"committed", "lost"} :
            CallEnds(r, kind, NULL, ResultOf(p, row, proposal))
    BY <1>1, <1>6, EndDoes
  <2>2. phase'[r] = "idle" /\ answer'[r].kind = kind /\ answer'[r].reason = NULL
    BY <2>1 DEF CallEnds, Answer
  <2>3. phase[r] = "respond"
    BY <1>6 DEF Respond
  <2>4. permits[p].used
    BY <1>1, <1>2, <1>3, <2>3, WrittenIsUsed DEF CallKnown
  <2>5. NULL # "stale_resource_version"
    BY ReasonAssumption DEF RejectionReasons
  <2> QED
    BY <2>2, <2>4, <2>5 DEF Answers
<1> QED
    BY <1>5, <1>6

LEMMA CommitAnswers ==
    ASSUME Base, NEW r \in Runs, Commit(r)
    PROVE  phase[r] = "commit" /\ phase'[r] = "respond" /\ answer'[r] = answer[r]
    BY DEF Base, Kept, TypeOK, Commit, GoTo

(* One more step of a call, and it is still sound or its answer is.        *)
LEMMA CallFactsByCall ==
    ASSUME Base, NEW r \in Runs, CallFacts(r), CallStep(r), UNCHANGED agent
    PROVE  CallFacts(r)'
<1> DEFINE a == agent[r]
           p == call[r].permit
           proposal == call[r].proposal
<1>1. TypeOK /\ LedgerInv /\ AgentKnown(r) /\ phase[r] # "idle"
    BY CallGoesOn DEF Base, Kept, AgentInv
<1>2. PermitsStay
    BY <1>1, PermitsKept
<1>3. CallOwned(r)
    BY <1>1 DEF AgentKnown
<1>4. \/ phase'[r] = "idle" /\ Answers(r)
      \/ /\ phase'[r] = "lookup"
         /\ answer'[r] = answer[r]
         /\ call'[r].target = ResolveTarget(proposal)
         /\ call'[r].row = call[r].row
         /\ call'[r].proposal = proposal
      \/ /\ phase'[r] = "commit" /\ answer'[r] = answer[r]
         /\ phase[r] = "lookup" /\ call'[r] = call[r]
         /\ call[r].row.key \notin DOMAIN records /\ UNCHANGED records
      \/ phase'[r] = "respond" /\ answer'[r] = answer[r]
  <2>1. Lookup(r) => phase[r] = "lookup" /\ UNCHANGED records
    BY DEF Lookup, storeVars
  <2> QED
    BY <2>1, ResolveAnswers, LookupAnswersSound, EndAnswers, NoKeyIsTaken, CommitAnswers
       DEF CallStep, CallFacts
<1>5. CallSound(r)'
  <2>1. CASE phase'[r] = "lookup"
    <3>1. /\ proposal \in Asked
          /\ Pinned(proposal.action, proposal.order, call[r].row.version, call[r].row.max)
      BY <1>1, CallIs
    <3>2. ~SilentEdits /\ ResolveTarget(proposal).version = call[r].row.version =>
                TransitionAllowed(proposal.action, ResolveTarget(proposal))
      BY <3>1, PinnedMayMove
    <3> HIDE DEF proposal
    <3>3. /\ call'[r].target = ResolveTarget(proposal)
          /\ call'[r].row = call[r].row
          /\ call'[r].proposal = proposal
      BY <1>4, <2>1
    <3> QED
      BY <2>1, <3>2, <3>3 DEF CallSound
  <2>2. CASE phase'[r] = "commit"
    BY <1>4, <2>2 DEF CallSound, CallFacts
  <2>3. CASE phase'[r] \in {"idle", "respond"}
    BY <2>3 DEF CallSound
  <2> QED
    BY <1>4, <2>1, <2>2, <2>3
<1>6. LastFits(r)'
  <2> SUFFICES ASSUME a.last # NULL \/ a.step \in Spending
               PROVE  /\ permits'[a.last.permit].used => Fits(a.last.permit, a.last.proposal)'
                      /\ a.step = "propose" \/ a.last.proposal # a.proposal =>
                            Fits(a.last.permit, a.last.proposal)'
    BY DEF LastFits, Fits, Spending
  <2>1. LastKnown(r)
    BY <1>1 DEF AgentKnown
  <2>2. /\ a.last.permit \in DOMAIN permits
        /\ Fits(a.last.permit, a.last.proposal) => Fits(a.last.permit, a.last.proposal)'
    BY <1>2, <2>1 DEF LastKnown, PermitsStay, Fits
  <2>3. a.step = "propose" \/ a.last.proposal # a.proposal =>
            Fits(a.last.permit, a.last.proposal)
    BY DEF CallFacts, LastFits
  <2>4. permits[a.last.permit].used => Fits(a.last.permit, a.last.proposal)
    BY DEF CallFacts, LastFits
  <2>5. ASSUME permits'[a.last.permit].used, ~permits[a.last.permit].used
        PROVE  Fits(a.last.permit, a.last.proposal)
    <3>1. Commit(r)
      BY <1>1, <2>2, <2>5 DEF CallStep, Resolve, Lookup, CommitStale, CommitConflict,
                              Respond, storeVars
    <3>2. a.last.permit = p
      BY <2>2, <2>5, <3>1, CommitDoes DEF CommitWrites, LedgerInv, Base, Kept
    <3>3. proposal = a.last.proposal
      <4>1. a.step # "ticketing"
        <5>1. SUFFICES ASSUME a.step = "ticketing" PROVE FALSE
          OBVIOUS
        <5>2. p = <<r, sequence[r]>> /\ TicketKnown(r)
          BY <1>1, <1>3, <5>1, HasPermit DEF CallOwned, Ticketing, Base
        <5> QED
          BY <3>2, <5>1, <5>2 DEF TicketKnown, Spending
      <4> QED
        BY <1>3, <4>1 DEF CallOwned
    <3>4. CallKnown(r) /\ phase[r] = "commit"
      BY <1>1, <3>1 DEF LedgerInv, CallsKnown, Commit
    <3>5. call[r].row.max = permits[p].max
      BY <1>1, CallIs
    <3> QED
      BY <3>2, <3>3, <3>4, <3>5 DEF CallKnown, Fits
  <2> QED
    BY <2>2, <2>3, <2>4, <2>5
<1>7. AnswerSound(r)'
  <2>1. CASE phase'[r] # "idle"
    <3>1. answer'[r] = answer[r]
      BY <1>4, <2>1
    <3>2. answer[r] # NULL =>
            /\ answer[r].kind # "raised"
            /\ answer[r].kind = "rejected" =>
                  \/ answer[r].reason \in {"stale_resource_version", "permit_expired"}
                  \/ SilentEdits /\ answer[r].reason = "transition_not_allowed"
                  \/ /\ answer[r].reason = "permit_amount_exceeded"
                     /\ agent[r].proposal.action # "issue_refund"
                     /\ AmountOf(agent[r].proposal) > 0
                     /\ agent[r].step \in {"executing", "replay", "replaying", "verify",
                                           "finished", "crashed"}
      BY DEF CallFacts, AnswerSound
    <3> QED
      BY <2>1, <3>1, <3>2 DEF AnswerSound
  <2>2. CASE phase'[r] = "idle"
    <3>1. Answers(r)
      BY <1>4, <2>2
    <3>2. CASE a.step = "ticketing"
      BY <3>1, <3>2 DEF Answers, AnswerSound
    <3>3. CASE /\ a.step \in {"executing", "replaying"}
               /\ p = a.last.permit
               /\ proposal = a.last.proposal
      <4>1. LastKnown(r)
        BY <3>3, HasPermit DEF Base, Spending
      <4>2. ~Fits(p, proposal) => proposal = a.proposal
        <5>1. a.last # NULL \/ a.step \in Spending
          BY <1>1, <3>3 DEF AgentKnown, AgentTyped, Spending
        <5> QED
          BY <3>3, <5>1 DEF CallFacts, LastFits
      <4>3. /\ permits[a.last.permit].used => permits'[a.last.permit].used
            /\ Fits(a.last.permit, a.last.proposal) =>
                    Fits(a.last.permit, a.last.proposal)'
        <5>1. /\ permits[a.last.permit].used => permits'[a.last.permit].used
              /\ permits'[a.last.permit].max = permits[a.last.permit].max
          BY <1>2, <4>1 DEF LastKnown, PermitsStay
        <5> QED
          BY <5>1 DEF Fits
      <4> QED
        BY <3>1, <3>3, <4>2, <4>3 DEF Answers, AnswerSound
    <3> QED
      BY <1>3, <3>2, <3>3 DEF CallOwned
  <2> QED
    BY <2>1, <2>2
<1> QED
    BY <1>5, <1>6, <1>7 DEF CallFacts

(* The steps at which an amount that was refused may still be told.        *)
StillTold == {"executing", "replay", "replaying", "verify", "finished", "crashed"}

(* A step of the run itself, between two calls.                            *)
LEMMA CallFactsByMove ==
    ASSUME NEW r, AgentKnown(r), CallFacts(r), PermitsStay,
           LastKnown(r) => permits'[agent[r].last.permit].used =
                                permits[agent[r].last.permit].used,
           phase'[r] = "idle", answer'[r] = answer[r],
           agent'[r].last = agent[r].last,
           agent'[r].step \in Spending => agent[r].step \in Spending,
           agent'[r].step # "executing",
           (agent[r].last # NULL \/ agent[r].step \in Spending)
              /\ (agent'[r].step = "propose" \/ agent'[r].proposal # agent[r].proposal)
                => Fits(agent[r].last.permit, agent[r].last.proposal),
           answer[r].kind = "rejected" /\ answer[r].reason = "permit_amount_exceeded"
              /\ agent[r].step \in StillTold
                => agent'[r].proposal = agent[r].proposal /\ agent'[r].step \in StillTold
    PROVE  CallFacts(r)'
<1> DEFINE a == agent[r]
           b == agent'[r]
<1>1. CallSound(r)'
    BY DEF CallSound
<1>2. LastFits(r)'
  <2> SUFFICES ASSUME b.last # NULL \/ b.step \in Spending
               PROVE  LET last == agent[r].last
                      IN  /\ permits'[b.last.permit].used => Fits(last.permit, last.proposal)'
                          /\ b.step = "propose" \/ b.last.proposal # b.proposal =>
                                Fits(last.permit, last.proposal)'
    BY DEF LastFits, Fits, Spending
  <2>1. LastKnown(r) /\ (a.last # NULL \/ a.step \in Spending)
    BY DEF AgentKnown
  <2>2. /\ permits[a.last.permit].used => Fits(a.last.permit, a.last.proposal)
        /\ a.last.proposal # a.proposal => Fits(a.last.permit, a.last.proposal)
    BY <2>1 DEF CallFacts, LastFits
  <2>3. permits'[a.last.permit].max = permits[a.last.permit].max
    BY <2>1 DEF LastKnown, PermitsStay
  <2> QED
    BY <2>1, <2>2, <2>3 DEF Fits
<1>3. AnswerSound(r)'
    BY DEF CallFacts, AnswerSound, StillTold
<1> QED
    BY <1>1, <1>2, <1>3 DEF CallFacts

LEMMA CallFactsByLocal ==
    ASSUME Base, NEW r \in Runs, CallFacts(r),
           \/ Propose(r) \/ ReadRecord(r) \/ Decide(r) \/ AfterExecute(r)
           \/ AfterTicket(r) \/ AfterReplay(r) \/ Verify(r)
    PROVE  CallFacts(r)'
<1> DEFINE a == agent[r]
           b == agent'[r]
<1>1. AgentKnown(r) /\ AgentTyped(a) /\ AgentInv
    BY DEF Base, AgentInv, AgentKnown
<1>2. UNCHANGED vars
    BY <1>1, ProposeDoes, ReadDoes, DecideDoes, AfterExecuteDoes, AfterTicketDoes,
       AfterReplayDoes, VerifyDoes
<1>3. UNCHANGED permits /\ phase' = phase /\ answer' = answer /\ PermitsStay
    BY <1>2 DEF vars, storeVars, executorVars, PermitsStay
<1>4. ASSUME phase[r] = "idle",
             b.last = a.last,
             b.step \in Spending => a.step \in Spending,
             b.step # "executing",
             (a.last # NULL \/ a.step \in Spending)
                /\ (b.step = "propose" \/ b.proposal # a.proposal)
                => Fits(a.last.permit, a.last.proposal),
             answer[r].kind = "rejected" /\ answer[r].reason = "permit_amount_exceeded"
                /\ a.step \in StillTold => b.proposal = a.proposal /\ b.step \in StillTold
      PROVE  CallFacts(r)'
    BY <1>1, <1>3, <1>4, CallFactsByMove
<1>5. ASSUME NEW outcome, AttemptEnds(a, b, outcome), phase[r] = "idle",
             b.step = "propose" /\ (a.last # NULL \/ a.step \in Spending)
                => Fits(a.last.permit, a.last.proposal),
             a.step \in StillTold /\ answer[r].kind = "rejected" => b.step # "propose"
      PROVE  CallFacts(r)'
    BY <1>4, <1>5 DEF AttemptEnds, SameScript, Spending, StillTold
<1>6. ASSUME SameAttempt(a, b), phase[r] = "idle",
             b.step \notin Spending \cup {"propose"},
             a.step \in StillTold => b.step \in StillTold
      PROVE  CallFacts(r)'
    BY <1>4, <1>6 DEF SameAttempt, SameScript, Spending
<1>7. CASE Propose(r)
  <2>1. phase[r] = "idle" /\ a.step = "propose"
    BY <1>1, <1>7, ProposeDoes, NoCallOutside
  <2>2. a.last # NULL => Fits(a.last.permit, a.last.proposal)
    BY <2>1 DEF CallFacts, LastFits
  <2>3. CASE AttemptEnds(a, b, "denied")
    BY <1>5, <2>1, <2>2, <2>3 DEF StillTold, AttemptEnds
  <2>4. CASE SameScript(a, b) /\ b.step = "order"
    BY <1>4, <2>1, <2>2, <2>4 DEF SameScript, StillTold, Spending
  <2> QED
    BY <1>1, <1>7, <2>3, <2>4, ProposeDoes
<1>8. CASE ReadRecord(r)
  <2>1. phase[r] = "idle" /\ a.step \in ReadSteps /\ SameAttempt(a, b) /\ b.step \in Reading
    BY <1>1, <1>8, ReadDoes, NoCallOutside DEF ReadSteps
  <2> QED
    BY <1>6, <2>1 DEF Reading, Spending, StillTold, ReadSteps
<1>9. CASE Decide(r)
  <2>1. phase[r] = "idle" /\ a.step = "decide"
    BY <1>1, <1>9, DecideDoes, NoCallOutside
  <2>2. CASE AttemptEnds(a, b, "denied")
    BY <1>5, <2>1, <2>2 DEF StillTold, AttemptEnds
  <2>3. CASE b.step \in {"escalate", "issue"} /\ SameAttempt(a, b)
    BY <1>6, <2>1, <2>3 DEF StillTold, Spending
  <2> QED
    BY <1>1, <1>9, <2>2, <2>3, DecideDoes
<1>10. CASE AfterExecute(r)
  <2>1. a.step = "executing" /\ phase[r] = "idle" /\ answer[r] # NULL
    BY <1>1, <1>10, AfterExecuteDoes
  <2>2. /\ answer[r].kind # "rejected" => permits[a.last.permit].used
        /\ answer[r].reason = "stale_resource_version" =>
                Fits(a.last.permit, a.last.proposal)
    BY <2>1 DEF CallFacts, AnswerSound
  <2>3. permits[a.last.permit].used => Fits(a.last.permit, a.last.proposal)
    BY <2>1 DEF CallFacts, LastFits, Spending
  <2>4. CASE /\ answer[r].kind = "lost" /\ b.step = "execute"
             /\ b.last = a.last /\ b.proposal = a.proposal
    BY <1>4, <2>1, <2>4 DEF Spending
  <2>5. CASE b.step = "crashed" /\ SameAttempt(a, b)
    BY <1>6, <2>1, <2>5 DEF StillTold, Spending
  <2>6. CASE answer[r].kind \in {"committed", "replayed"} /\ AttemptEnds(a, b, "completed")
    BY <1>5, <2>1, <2>2, <2>3, <2>6
  <2>7. CASE AttemptEnds(a, b, "denied")
    BY <1>5, <2>1, <2>7 DEF AttemptEnds
  <2>8. CASE answer[r].reason = "stale_resource_version" /\ StaleGoesOn(a, b)
    BY <1>4, <2>1, <2>2, <2>8 DEF StaleGoesOn, SameScript, Spending
  <2> QED
    BY <1>1, <1>10, <2>4, <2>5, <2>6, <2>7, <2>8, AfterExecuteDoes
<1>11. CASE AfterTicket(r)
  <2>1. a.step = "ticketing" /\ phase[r] = "idle"
    BY <1>1, <1>11, AfterTicketDoes
  <2>2. CASE AttemptEnds(a, b, "escalated")
    BY <1>5, <2>1, <2>2 DEF AttemptEnds
  <2>3. CASE b.step = "crashed" /\ SameAttempt(a, b)
    BY <1>6, <2>1, <2>3 DEF StillTold, Spending
  <2> QED
    BY <1>1, <1>11, <2>2, <2>3, AfterTicketDoes
<1>12. CASE AfterReplay(r)
    BY <1>1, <1>6, <1>12, AfterReplayDoes DEF StillTold, Spending
<1>13. CASE Verify(r)
  <2>1. phase[r] = "idle"
    BY <1>1, <1>13, VerifyDoes, NoCallOutside
  <2> QED
    BY <1>1, <1>6, <1>13, <2>1, VerifyDoes DEF StillTold, Spending
<1> QED
    BY <1>7, <1>8, <1>9, <1>10, <1>11, <1>12, <1>13

LEMMA CallFactsByIssue ==
    ASSUME Base, NEW r \in Runs, CallFacts(r), Authorise(r) \/ BeginEscalation(r)
    PROVE  CallFacts(r)'
<1> DEFINE a == agent[r]
           b == agent'[r]
           p == <<r, sequence[r] + 1>>
<1>1. AgentKnown(r) /\ AgentTyped(a) /\ AgentInv /\ TypeOK /\ NumbersGrow
    BY DEF Base, Kept, AgentInv, AgentKnown
<1>2. a.step \in {"issue", "escalate"}
    BY <1>1, AuthoriseDoes, EscalateDoes
<1>3. phase[r] = "idle"
    BY <1>1, <1>2, NoCallOutside
<1>4. CASE Authorise(r)
  <2>1. /\ b.step = "execute"
        /\ b.last = [permit |-> p, proposal |-> a.proposal]
        /\ b.proposal = a.proposal
        /\ phase' = phase /\ answer' = answer
        /\ IssuePermit(r, a.proposal.action, a.proposal.order, a.verdict.version, a.verdict.max)
    BY <1>1, <1>4, AuthoriseDoes
  <2>2. ~permits'[p].used
    <3>1. TypeOK /\ NumbersGrow
      BY <1>1
    <3> QED
      BY <2>1, <3>1, IssuedAs
  <2> HIDE DEF p
  <2>3. LastFits(r)'
    BY <2>1, <2>2 DEF LastFits
  <2>4. AnswerSound(r)'
    BY <1>2, <2>1 DEF CallFacts, AnswerSound
  <2> QED
    BY <1>3, <2>1, <2>3, <2>4 DEF CallFacts, CallSound
<1>5. CASE BeginEscalation(r)
  <2>1. CASE UNCHANGED vars /\ AttemptEnds(a, b, "escalated")
    <3>1. UNCHANGED permits /\ phase' = phase /\ answer' = answer /\ PermitsStay
      BY <2>1 DEF vars, storeVars, executorVars, PermitsStay
    <3> QED
      BY <1>1, <1>2, <1>3, <2>1, <3>1, CallFactsByMove
         DEF AttemptEnds, SameScript, Spending, StillTold
  <2>2. CASE /\ a.proposal.order \in DOMAIN orders
             /\ IssuePermit(r, "create_support_ticket", a.proposal.order,
                            orders[a.proposal.order].version, 0)
             /\ UNCHANGED <<phase, call, answer, emitted, calls>>
             /\ b.step = "ticket"
             /\ SameAttempt(a, b)
    <3>1. PermitsStay /\ \A q \in DOMAIN permits : permits'[q] = permits[q]
      BY <1>1, <2>2, IssueDoes
    <3>2. LastKnown(r) => permits'[a.last.permit].used = permits[a.last.permit].used
      BY <3>1 DEF LastKnown
    <3> QED
      BY <1>1, <1>2, <1>3, <2>2, <3>1, <3>2, CallFactsByMove
         DEF SameAttempt, SameScript, Spending, StillTold
  <2> QED
    BY <1>1, <1>5, <2>1, <2>2, EscalateDoes
<1> QED
    BY <1>4, <1>5

(* A permit is presented, and the call is under way.                       *)
LEMMA PresentDoes ==
    ASSUME Base, NEW r \in Runs, Present1(r) \/ PresentTicket(r) \/ Replay(r)
    PROVE  LET a == agent[r]  b == agent'[r]
           IN  /\ SameAttempt(a, b)
               /\ UNCHANGED <<storeVars, sequence>>
               /\ phase'[r] = "resolve"
               /\ answer'[r] = NULL
               /\ \/ /\ Present1(r) /\ a.step = "execute" /\ b.step = "executing"
                     /\ call'[r].permit = a.last.permit
                  \/ /\ Replay(r) /\ a.step = "replay" /\ b.step = "replaying"
                     /\ call'[r].permit = a.last.permit
                  \/ /\ PresentTicket(r) /\ a.step = "ticket" /\ b.step = "ticketing"
                     /\ call'[r].permit = <<r, sequence[r]>>
<1> DEFINE a == agent[r]
           b == agent'[r]
<1>1. AgentInv /\ TypeOK
    BY DEF Base, Kept
<1>2. SameAttempt(a, b)
    BY <1>1, ExecuteDoes DEF Present1, PresentTicket, Replay
<1>3. ASSUME NEW p \in DOMAIN permits, NEW proposal, permits[p].action = proposal.action,
             Load(r, p, proposal)
      PROVE  /\ phase'[r] = "resolve" /\ answer'[r] = NULL
             /\ UNCHANGED <<storeVars, sequence>>
             /\ call'[r].permit = p
  <2>1. /\ phase'[r] = "resolve" /\ answer'[r] = NULL
        /\ UNCHANGED storeVars
        /\ UNCHANGED <<sequence, emitted>>
        /\ call'[r] = [permit |-> p, proposal |-> proposal, row |-> permits[p], target |-> NULL]
    BY <1>1, <1>3, LoadDoes
  <2> QED
    BY <2>1
<1>4. CASE Present1(r) \/ Replay(r)
  <2>1. /\ \/ Present1(r) /\ a.step = "execute" /\ b.step = "executing"
           \/ Replay(r) /\ a.step = "replay" /\ b.step = "replaying"
        /\ Load(r, a.last.permit, a.last.proposal)
    BY <1>1, <1>4, ExecuteDoes DEF Present1, Replay
  <2>2. LastKnown(r)
    BY <1>1, <2>1, HasPermit DEF Spending
  <2>3. /\ phase'[r] = "resolve" /\ answer'[r] = NULL
        /\ UNCHANGED <<storeVars, sequence>>
        /\ call'[r].permit = a.last.permit
    BY <1>3, <2>1, <2>2 DEF LastKnown
  <2> QED
    BY <1>2, <2>1, <2>3
<1>5. CASE PresentTicket(r)
  <2> DEFINE p == <<r, sequence[r]>>
             proposal == TicketProposal(a.proposal.order)
  <2>1. a.step = "ticket" /\ b.step = "ticketing" /\ Load(r, p, proposal)
    BY <1>1, <1>5, ExecuteDoes DEF PresentTicket
  <2>2. p \in DOMAIN permits /\ permits[p].action = proposal.action
    BY <1>1, <2>1, HasPermit DEF TicketKnown, TicketProposal, Ticketing
  <2> HIDE DEF p, proposal
  <2>3. /\ phase'[r] = "resolve" /\ answer'[r] = NULL
        /\ UNCHANGED <<storeVars, sequence>>
        /\ call'[r].permit = p
    BY <1>3, <2>1, <2>2
  <2> QED
    BY <1>2, <1>5, <2>1, <2>3 DEF p
<1> QED
    BY <1>4, <1>5

LEMMA CallFactsByPresent ==
    ASSUME Base, NEW r \in Runs, CallFacts(r), Present1(r) \/ PresentTicket(r) \/ Replay(r)
    PROVE  CallFacts(r)'
<1> DEFINE a == agent[r]
           b == agent'[r]
<1>1. /\ SameAttempt(a, b)
      /\ b.step \in {"executing", "ticketing", "replaying"}
      /\ b.step = "executing" => a.step = "execute"
      /\ phase'[r] = "resolve" /\ answer'[r] = NULL
      /\ UNCHANGED storeVars
    BY PresentDoes
<1>2. LastFits(r)'
    BY <1>1 DEF CallFacts, LastFits, Fits, SameAttempt, SameScript, Spending, storeVars
<1> QED
    BY <1>1, <1>2 DEF CallFacts, CallSound, AnswerSound

(* While r takes a step the other runs stand still.                        *)
LEMMA OthersKeepStill ==
    ASSUME Base, NEW r \in Runs, RunStep(r), NEW q \in Runs \ {r}
    PROVE  /\ agent'[q] = agent[q]
           /\ phase'[q] = phase[q]
           /\ call'[q] = call[q]
           /\ answer'[q] = answer[q]
           /\ sequence'[q] = sequence[q]
<1>1. TypeOK /\ LedgerInv /\ AgentInv /\ PinInv
    BY DEF Base, Kept
<1>2. agent'[q] = agent[q]
    BY <1>1, RunMoves DEF AgentMoves, OnlyOf
<1>3. CASE ClientIssue(r) \/ ClientPresent(r) \/ CallStep(r)
    BY <1>1, <1>2, <1>3, OthersStandStill
<1>4. CASE UNCHANGED vars
    BY <1>2, <1>4 DEF vars, executorVars
<1> QED
    BY <1>1, <1>3, <1>4, RunIsClient

LEMMA CallInvNext ==
    ASSUME Base, CallInv, [RunnerNext]_runnerVars
    PROVE  CallInv'
<1>1. AgentInv /\ PermitsStay
    BY AgentInvNext DEF Base, Kept
<1>2. SUFFICES ASSUME NEW q \in Runs PROVE CallFacts(q)'
    BY DEF CallInv, CallFacts
<1>3. CallFacts(q) /\ AgentKnown(q)
    BY <1>1 DEF CallInv, CallFacts, AgentInv
<1>4. CASE RunStep(q)
    BY <1>3, <1>4, CallFactsByLocal, CallFactsByIssue, CallFactsByPresent, CallFactsByCall
       DEF RunStep
<1>5. ASSUME NEW r \in Runs, RunStep(r), r # q PROVE CallFacts(q)'
  <2>1. OwnWrites(r)
    BY <1>5, RunWritesOwn
  <2>2. LastKnown(q) => /\ permits'[agent[q].last.permit].used
                             => permits[agent[q].last.permit].used
    BY <1>5, <2>1 DEF LastKnown, OwnWrites
  <2>3. phase[q] = "commit" =>
            call[q].permit \in DOMAIN permits /\ call[q].permit[1] = q
              /\ call[q].row.key = permits[call[q].permit].key
    BY CallIs
  <2>4. phase[q] = "commit" /\ call[q].row.key \in DOMAIN records'
            => call[q].row.key \in DOMAIN records
    BY <1>5, <2>1, <2>3 DEF OwnWrites
  <2>5. /\ agent'[q] = agent[q] /\ phase'[q] = phase[q]
        /\ call'[q] = call[q] /\ answer'[q] = answer[q]
    BY <1>5, OthersKeepStill
  <2> QED
    BY <1>1, <1>3, <2>2, <2>4, <2>5, CallFactsStay
<1>6. CASE (WorldStep /\ UNCHANGED <<executorVars, agent>>) \/ UNCHANGED runnerVars
  <2>1. UNCHANGED <<permits, records>> /\ UNCHANGED <<phase, call, answer, agent>>
    BY <1>6 DEF WorldStep, EditOrder, EditPayment, EditShipment, Tick, ledgerVars,
                runnerVars, vars, storeVars, executorVars
  <2> QED
    BY <1>1, <1>3, <2>1, CallFactsStay
<1> QED
    BY <1>4, <1>5, <1>6 DEF RunnerNext

LEMMA CallInvInit == RunnerInit => CallInv
<1> SUFFICES ASSUME RunnerInit, NEW r \in Runs PROVE CallFacts(r)
    BY DEF CallInv, CallFacts
<1>1. phase[r] = "idle" /\ answer[r] = NULL
    BY DEF RunnerInit, Init, ExecutorInit
<1>2. agent[r].step = "propose" /\ agent[r].last = NULL
    BY DEF RunnerInit, Fresh
<1> QED
    BY <1>1, <1>2 DEF CallFacts, CallSound, LastFits, AnswerSound, Spending

LEMMA CallInvHolds == RunnerSpec => [](Base /\ CallInv)
<1> QED
    BY BaseInit, BaseNext, CallInvInit, CallInvNext, PTL DEF RunnerSpec

(* Of the executor's nine checks a run meets the expiry and the version    *)
(* only, but for a cancel or a ticket that names an amount: what was asked *)
(* for, what was decided and what the permit says agree on all the rest,   *)
(* and where every edit moves the version the transition table agrees with *)
(* the policy (executor.py, _checks; runner.py, _execute_allowed).         *)
THEOREM OnlyStaleOrExpiredHolds ==
    ASSUME ~SilentEdits
    PROVE  RunnerSpec => []OnlyStaleOrExpired
<1>1. CallInv => OnlyStaleOrExpired
    BY DEF CallInv, AnswerSound, OnlyStaleOrExpired
<1> QED
    BY <1>1, CallInvHolds, PTL

-----------------------------------------------------------------------------
(* What a run has written.                                                 *)

(* A step spends at most the permit of its own call, when that commits.    *)
LEMMA SpentMoves ==
    ASSUME Base, NEW r \in Runs, RunStep(r)
    PROVE  /\ \A q \in Runs \ {r} : SpentBy(q)' = SpentBy(q)
           /\ \/ SpentBy(r)' = SpentBy(r)
              \/ /\ Commit(r)
                 /\ SpentBy(r)' = SpentBy(r) \cup {call[r].permit}
<1>1. TypeOK /\ LedgerInv /\ NumbersGrow
    BY DEF Base, Kept, AgentInv
<1>2. ASSUME UNCHANGED permits, NEW q PROVE SpentBy(q)' = SpentBy(q)
    BY <1>2 DEF SpentBy
<1>3. ASSUME ClientIssue(r), NEW q PROVE SpentBy(q)' = SpentBy(q)
  <2>1. PICK action, o, version, max : IssuePermit(r, action, o, version, max)
    BY <1>3 DEF ClientIssue
  <2> DEFINE p == <<r, sequence[r] + 1>>
  <2>2. /\ DOMAIN permits' = DOMAIN permits \cup {p}
        /\ \A s \in DOMAIN permits : permits'[s] = permits[s]
        /\ permits'[p] = NewPermit(action, o, version, max, sequence[r] + 1, r)
    BY <1>1, <2>1, IssueDoes
  <2>3. ~permits'[p].used
    BY <2>2 DEF NewPermit
  <2> HIDE DEF p
  <2> QED
    BY <2>2, <2>3 DEF SpentBy
<1>4. ASSUME Commit(r)
      PROVE  /\ SpentBy(r)' = SpentBy(r) \cup {call[r].permit}
             /\ \A q \in Runs \ {r} : SpentBy(q)' = SpentBy(q)
  <2>1. call[r].permit \in DOMAIN permits /\ call[r].permit[1] = r
    BY <1>4, CallIs DEF Commit
  <2>2. PICK n, row : CommitWrites(r, n, row)
    BY <1>1, <1>4, CommitDoes DEF LedgerInv
  <2> DEFINE p == call[r].permit
  <2>3. /\ DOMAIN permits' = DOMAIN permits
        /\ \A s \in DOMAIN permits : s # p => permits'[s].used = permits[s].used
        /\ permits'[p].used
    BY <2>2 DEF CommitWrites
  <2> HIDE DEF p
  <2>4. ASSUME NEW q PROVE SpentBy(q)' = IF q = r THEN SpentBy(q) \cup {p} ELSE SpentBy(q)
    BY <2>1, <2>3 DEF SpentBy, p
  <2> QED
    BY <2>4 DEF p
<1>5. ASSUME Resolve(r) \/ Lookup(r) \/ CommitStale(r) \/ CommitConflict(r) \/ Respond(r)
      PROVE  UNCHANGED permits
    BY <1>5 DEF Resolve, Lookup, CommitStale, CommitConflict, Respond, storeVars
<1>6. ASSUME ClientPresent(r) \/ UNCHANGED vars PROVE UNCHANGED permits
    BY <1>6 DEF ClientPresent, Load, vars, storeVars
<1>7. CASE CallStep(r)
    BY <1>2, <1>4, <1>5, <1>7 DEF CallStep
<1> QED
    BY <1>1, <1>2, <1>3, <1>6, <1>7, RunIsClient DEF Base

(* Nothing but a step of a run spends a permit.                            *)
LEMMA WorldSpendsNone ==
    ASSUME WorldStep \/ UNCHANGED vars, NEW r
    PROVE  SpentBy(r)' = SpentBy(r)
<1>1. UNCHANGED permits
    BY DEF WorldStep, EditOrder, EditPayment, EditShipment, Tick, ledgerVars, vars, storeVars
<1> QED
    BY <1>1 DEF SpentBy

(* The clock does not go back.                                             *)
LEMMA ClockMovesOn ==
    ASSUME TypeOK, [ClientNext]_vars
    PROVE  now \in 0..MaxNow /\ now' \in Nat /\ now <= now'
<1>1. now \in 0..MaxNow /\ MaxNow \in Nat
    BY StoreAssumption DEF TypeOK, StoreTypeOK
<1>2. ASSUME NEW r \in Runs, ClientIssue(r) \/ ClientPresent(r) \/ CallStep(r)
      PROVE  UNCHANGED now
    BY <1>2 DEF ClientIssue, IssuePermit, ClientPresent, Load, CallStep, Resolve, Lookup,
                Commit, CommitStale, CommitConflict, Respond, storeVars
<1>3. WorldStep => UNCHANGED now \/ now' = now + 1
    BY DEF WorldStep, EditOrder, EditPayment, EditShipment, Tick
<1>4. UNCHANGED vars => UNCHANGED now
    BY DEF vars, storeVars
<1>5. UNCHANGED now \/ now' = now + 1
    BY <1>2, <1>3, <1>4 DEF ClientNext
<1> QED
    BY <1>1, <1>5

(* A row that has left a permit behind stays ahead of it.                  *)
LEMMA MovedOn ==
    ASSUME TypeOK, VersionsGrow, NEW p \in DOMAIN permits, NEW proposal, PermitPinned(p),
           permits[p].action = proposal.action,
           permits[p].resource = ResourceOf(proposal.action, proposal.order),
           VersionOf(proposal.action, proposal.order) > permits[p].version
    PROVE  VersionOf(proposal.action, proposal.order)' > permits[p].version
<1> DEFINE o == proposal.order
<1>1. permits[p].version \in Nat /\ permits[p].action \in ActionName
    BY DEF TypeOK, StoreTypeOK, IsTable, PermitRow
<1>2. permits[p].resource[2] = o
    BY DEF ResourceOf, Order, Payment
<1>3. IF proposal.action = "issue_refund" THEN o \in DOMAIN payments ELSE o \in DOMAIN orders
    BY <1>1, <1>2 DEF PermitPinned, Pinned, ActionName
<1>4. CASE proposal.action = "issue_refund"
  <2>1. payments[o].version <= payments'[o].version /\ o \in DOMAIN payments'
          /\ payments[o].version \in Nat /\ payments'[o].version \in Nat
    BY <1>3, <1>4 DEF VersionsGrow
  <2> QED
    BY <1>1, <1>3, <1>4, <2>1 DEF VersionOf
<1>5. CASE proposal.action # "issue_refund"
  <2>1. orders[o].version <= orders'[o].version /\ o \in DOMAIN orders'
          /\ orders[o].version \in Nat /\ orders'[o].version \in Nat
    BY <1>3, <1>5 DEF VersionsGrow
  <2> QED
    BY <1>1, <1>3, <1>5, <2>1 DEF VersionOf
<1> QED
    BY <1>4, <1>5

(* What is dead stays dead: an amount and a limit do not change, a clock   *)
(* and a version do not go back.                                           *)
LEMMA DeadStays ==
    ASSUME TypeOK, [ClientNext]_vars, PermitsStay, NEW p \in DOMAIN permits, NEW proposal,
           Dead(p, proposal), PermitPinned(p),
           permits[p].action = proposal.action,
           permits[p].resource = ResourceOf(proposal.action, proposal.order)
    PROVE  Dead(p, proposal)'
<1>1. /\ permits'[p].max = permits[p].max
      /\ permits'[p].expires = permits[p].expires
      /\ permits'[p].version = permits[p].version
    BY DEF PermitsStay
<1>2. /\ permits[p].expires \in Nat /\ permits[p].version \in Nat
      /\ permits[p].action \in ActionName
    BY DEF TypeOK, StoreTypeOK, IsTable, PermitRow
<1>3. now \in Nat /\ now' \in Nat /\ now <= now'
    BY ClockMovesOn
<1>4. VersionsGrow
    BY RowsMoveOn
<1>5. VersionOf(proposal.action, proposal.order) > permits[p].version =>
            VersionOf(proposal.action, proposal.order)' > permits[p].version
    BY <1>4, MovedOn
<1>6. now > permits[p].expires => now' > permits[p].expires
    BY <1>2, <1>3
<1> QED
    BY <1>1, <1>5, <1>6 DEF Dead, Fits

(* So it does for the permit of the last attempt.                          *)
LEMMA LastDeadStays ==
    ASSUME Base, [RunnerNext]_runnerVars, NEW r \in Runs, LastDead(r),
           agent'[r].last = agent[r].last
    PROVE  LastDead(r)'
<1>1. TypeOK /\ LedgerInv /\ AgentInv /\ PinInv /\ PermitsStay /\ [ClientNext]_vars
    BY RunnerIsClient, AgentInvNext DEF Base, Kept
<1>2. SUFFICES ASSUME agent[r].last # NULL PROVE LastDead(r)'
    BY DEF LastDead
<1>3. PICK last : last = agent[r].last
    OBVIOUS
<1>4. /\ last.permit \in DOMAIN permits
      /\ permits[last.permit].action = last.proposal.action
      /\ permits[last.permit].resource =
            ResourceOf(last.proposal.action, last.proposal.order)
      /\ PermitPinned(last.permit)
    BY <1>1, <1>2, <1>3 DEF AgentInv, AgentKnown, LastKnown, PinInv
<1>5. Dead(last.permit, last.proposal)
    BY <1>2, <1>3 DEF LastDead
<1>6. Dead(last.permit, last.proposal)'
    BY <1>1, <1>4, <1>5, DeadStays
<1>7. last = agent'[r].last
    BY <1>3
<1> QED
    BY <1>6, <1>7 DEF LastDead

(* The dates of a call, whoever moves.                                     *)
LEMMA CallDatesStay ==
    ASSUME Base, PermitsStay, NEW q \in Runs, CallDates(q),
           phase'[q] = phase[q], call'[q] = call[q]
    PROVE  CallDates(q)'
<1>1. phase[q] # "idle" => call[q].permit \in DOMAIN permits
    BY CallIs
<1> QED
    BY <1>1 DEF CallDates, PermitsStay

LEMMA CallDatesByCall ==
    ASSUME Base, NEW r \in Runs, CallDates(r), CallStep(r)
    PROVE  CallDates(r)'
<1> DEFINE p == call[r].permit
           row == call[r].row
           proposal == call[r].proposal
<1>1. TypeOK /\ LedgerInv /\ phase[r] # "idle"
    BY CallGoesOn DEF Base, Kept
<1>2. /\ PermitsStay
      /\ phase'[r] # "idle" => call'[r].permit = p /\ call'[r].proposal = proposal
    BY <1>1, PermitsKept, CallGoesOn
<1>3. CASE Resolve(r)
  <2>1. CASE phase'[r] = "idle"
    BY <2>1 DEF CallDates
  <2>2. CASE /\ phase'[r] = "lookup"
             /\ call'[r].target = ResolveTarget(proposal)
             /\ call'[r].row = row
    <3>1. /\ p \in DOMAIN permits
          /\ proposal \in Asked
          /\ Pinned(proposal.action, proposal.order, row.version, row.max)
      BY <1>1, CallIs
    <3>2. row.version <= ResolveTarget(proposal).version
      BY <3>1 DEF Pinned, ResolveTarget, Asked, Proposals, ActionName
    <3>3. permits'[p].expires = permits[p].expires
      BY <1>2, <3>1 DEF PermitsStay
    <3> QED
      BY <1>1, <1>2, <2>2, <3>2, <3>3 DEF CallDates
  <2> QED
    BY <1>3, <2>1, <2>2, ResolveAnswers
<1>4. CASE Lookup(r)
  <2>1. CASE phase'[r] = "idle"
    BY <2>1 DEF CallDates
  <2>2. CASE phase[r] = "lookup" /\ call'[r] = call[r]
    <3>1. p \in DOMAIN permits
      BY <1>1, CallIs
    <3>2. permits'[p].expires = permits[p].expires
      BY <1>2, <3>1 DEF PermitsStay
    <3> QED
      BY <1>1, <2>2, <3>2 DEF CallDates
  <2> QED
    BY <1>1, <1>4, <2>1, <2>2, LookupDoes DEF CallEnds
<1>5. CASE Commit(r)
  <2>1. phase'[r] = "respond" /\ call'[r] = call[r]
    BY <1>5, CommitAnswers DEF Commit
  <2>2. p \in DOMAIN permits
    BY <1>1, CallIs
  <2>3. permits'[p].expires = permits[p].expires
    BY <1>2, <2>2 DEF PermitsStay
  <2> QED
    BY <1>1, <2>1, <2>3 DEF CallDates
<1>6. CASE CommitStale(r) \/ CommitConflict(r) \/ Respond(r)
  <2>1. phase'[r] = "idle"
    BY <1>1, <1>6, EndDoes DEF CallEnds
  <2> QED
    BY <2>1 DEF CallDates
<1> QED
    BY <1>3, <1>4, <1>5, <1>6 DEF CallStep

LEMMA CallDatesNext ==
    ASSUME Base, [RunnerNext]_runnerVars, NEW q \in Runs, CallDates(q)
    PROVE  CallDates(q)'
<1>1. TypeOK /\ LedgerInv /\ AgentInv /\ PinInv /\ PermitsStay
    BY AgentInvNext DEF Base, Kept
<1>2. ASSUME phase'[q] = phase[q], call'[q] = call[q] PROVE CallDates(q)'
    BY <1>1, <1>2, CallDatesStay
<1>3. CASE ClientIssue(q)
    BY <1>2, <1>3 DEF ClientIssue
<1>4. CASE ClientPresent(q)
  <2>1. PICK p, proposal : Load(q, p, proposal)
    BY <1>4 DEF ClientPresent
  <2>2. \/ phase'[q] = phase[q] /\ call'[q] = call[q]
        \/ /\ phase'[q] = "resolve"
           /\ p \in DOMAIN permits
           /\ call'[q] = [permit |-> p, proposal |-> proposal,
                          row |-> permits[p], target |-> NULL]
           /\ UNCHANGED permits
    BY <1>1, <2>1 DEF Load, GoTo, TypeOK, storeVars
  <2> QED
    BY <1>2, <2>2 DEF CallDates
<1>5. CASE CallStep(q)
    BY <1>5, CallDatesByCall
<1>6. CASE UNCHANGED vars \/ UNCHANGED runnerVars \/ UNCHANGED executorVars
    BY <1>2, <1>6 DEF vars, runnerVars, executorVars
<1>7. ASSUME NEW r \in Runs, RunStep(r), r # q PROVE CallDates(q)'
    BY <1>2, <1>7, OthersKeepStill
<1>8. CASE RunStep(q)
    BY <1>1, <1>3, <1>4, <1>5, <1>6, <1>8, RunIsClient
<1> QED
    BY <1>6, <1>7, <1>8 DEF RunnerNext

(* A rejection for the version says that the row has left the permit       *)
(* behind, and that nothing was written under it.                          *)
LEMMA StaleIsOutdated ==
    ASSUME Base, NEW r \in Runs, CallSound(r), CallDates(r), CallStep(r),
           phase'[r] = "idle", answer'[r].kind = "rejected",
           answer'[r].reason = "stale_resource_version"
    PROVE  LET proposal == call[r].proposal
           IN  /\ VersionOf(proposal.action, proposal.order) > permits[call[r].permit].version
               /\ call[r].row.key \notin DOMAIN records
<1> DEFINE p == call[r].permit
           row == call[r].row
           proposal == call[r].proposal
           o == proposal.order
<1>1. TypeOK /\ LedgerInv /\ phase[r] # "idle"
    BY CallGoesOn DEF Base, Kept
<1>2. /\ p \in DOMAIN permits
      /\ row \in PermitRow
      /\ proposal \in Asked
      /\ row.key = permits[p].key
      /\ row.version = permits[p].version
      /\ Pinned(proposal.action, o, row.version, row.max)
    BY <1>1, CallIs
<1>3. row.key \notin DOMAIN records => ~permits[p].used
    BY <1>1, <1>2, WrittenIsUsed
<1>4. /\ \A e \in DOMAIN orders : orders[e].version \in Nat
      /\ \A e \in DOMAIN payments : payments[e].version \in Nat
    BY <1>1, VersionsAreNats
<1>5. CASE Lookup(r)
  <2> DEFINE target == call[r].target
             failed == FirstFailedCheck(row, proposal, target)
  <2>1. /\ failed = "stale_resource_version"
        /\ row.key \in DOMAIN records => failed = "permit_amount_exceeded"
        /\ phase[r] = "lookup"
    <3>1. \/ CallEnds(r, "replayed", "idempotent_replay", records[row.key])
          \/ /\ row.key \in DOMAIN records => failed = "permit_amount_exceeded"
             /\ CallEnds(r, "rejected", failed, NULL)
          \/ phase'[r] = "commit"
      BY <1>1, <1>5, LookupDoes
    <3>2. phase[r] = "lookup"
      BY <1>5 DEF Lookup
    <3> HIDE DEF failed
    <3> QED
      BY <3>1, <3>2 DEF CallEnds, Answer
  <2>2. row.key \notin DOMAIN records /\ target.version # row.version
    <3>1. row.key \notin DOMAIN records
      <4> HIDE DEF failed
      <4> QED
        BY <2>1
    <3>2. ~row.used /\ AmountOf(proposal) \in Nat
      BY <1>1, <1>3, <3>1, CallIs
    <3>3. failed # NULL
      BY <2>1, ReasonAssumption DEF RejectionReasons
    <3> HIDE DEF failed
    <3> QED
      BY <1>2, <2>1, <3>1, <3>2, <3>3, FailedChecks DEF failed
  <2>3. row.version <= target.version /\ CallSaw(r)
    BY <2>1 DEF CallDates, Base, CallsSaw
  <2>4. target.version \in Nat /\ row.version \in Nat
    BY <1>2, <2>3 DEF CallSaw, Target, PermitRow
  <2>5. /\ target.version <= VersionOf(proposal.action, o)
        /\ VersionOf(proposal.action, o) \in Nat
    BY <1>4, <2>3 DEF CallSaw, SeenIn, VersionOf
  <2> HIDE DEF target, row
  <2>6. VersionOf(proposal.action, o) > row.version
    BY <2>2, <2>3, <2>4, <2>5
  <2> QED
    BY <1>2, <2>2, <2>6 DEF row
<1>6. CASE CommitStale(r)
  <2>1. phase[r] = "commit" /\ ~GuardMatches(row, proposal)
    BY <1>6 DEF CommitStale
  <2>2. row.key \notin DOMAIN records
    BY <2>1 DEF CallSound
  <2>3. proposal.action \in ActionName /\ row.version \in Nat
    BY <1>2 DEF Asked, Proposals, PermitRow
  <2>4. CASE proposal.action = "issue_refund"
    <3>1. o \in DOMAIN payments /\ row.version <= payments[o].version
      BY <1>2, <2>4 DEF Pinned
    <3>2. payments[o].version # row.version
      BY <2>1, <2>4, <3>1 DEF GuardMatches, PaymentAtVersion
    <3> QED
      BY <1>2, <1>4, <2>2, <2>3, <2>4, <3>1, <3>2 DEF VersionOf
  <2>5. CASE proposal.action = "cancel_order"
    <3>1. o \in DOMAIN orders /\ row.version <= orders[o].version
      BY <1>2, <2>5 DEF Pinned
    <3>2. orders[o].version # row.version
      BY <2>1, <2>5, <3>1 DEF GuardMatches, OrderAtVersion
    <3> QED
      BY <1>2, <1>4, <2>2, <2>3, <2>5, <3>1, <3>2 DEF VersionOf
  <2>6. proposal.action # "create_support_ticket"
    BY <2>1 DEF GuardMatches
  <2> QED
    BY <2>3, <2>4, <2>5, <2>6 DEF ActionName
<1>7. CASE Resolve(r)
  <2>1. \/ CallEnds(r, "rejected", "permit_resource_mismatch", NULL)
        \/ CallEnds(r, "rejected", "permit_expired", NULL)
        \/ phase'[r] = "lookup"
    BY <1>1, <1>7, ResolveDoes
  <2> QED
    BY <2>1 DEF CallEnds, Answer
<1>8. CASE Commit(r) \/ CommitConflict(r) \/ Respond(r)
  <2>1. ~Commit(r)
    BY CommitAnswers
  <2>2. /\ CommitConflict(r) => CallEnds(r, "raised", NULL, NULL)
        /\ Respond(r) => \E kind \in {"committed", "lost"} :
              CallEnds(r, kind, NULL, ResultOf(p, row, proposal))
    BY <1>1, EndDoes
  <2> QED
    BY <1>8, <2>1, <2>2 DEF CallEnds, Answer
<1> QED
    BY <1>5, <1>6, <1>7, <1>8 DEF CallStep

(* A rejection says that the permit is dead.  That of a spent permit is    *)
(* for the clock only, as its record answers for it otherwise.             *)
LEMMA RejectedIsDead ==
    ASSUME ~SilentEdits, Base, NEW r \in Runs, CallSound(r), CallDates(r), CallStep(r),
           phase'[r] = "idle", answer'[r].kind = "rejected"
    PROVE  LET p == call[r].permit  proposal == call[r].proposal
           IN  /\ Dead(p, proposal)
               /\ permits[p].used => now > permits[p].expires \/ ~Fits(p, proposal)
<1> DEFINE p == call[r].permit
           row == call[r].row
           proposal == call[r].proposal
           o == proposal.order
           Goal == /\ Dead(p, proposal)
                   /\ permits[p].used => now > permits[p].expires \/ ~Fits(p, proposal)
<1>1. TypeOK /\ LedgerInv /\ phase[r] # "idle"
    BY CallGoesOn DEF Base, Kept
<1>2. /\ p \in DOMAIN permits
      /\ row \in PermitRow
      /\ proposal \in Asked
      /\ row.key = permits[p].key
      /\ row.version = permits[p].version
      /\ row.expires = permits[p].expires
      /\ Pinned(proposal.action, o, row.version, row.max)
    BY <1>1, CallIs DEF CallDates
<1>3. Answers(r)
  <2>1. ~Commit(r)
    BY CommitAnswers
  <2> QED
    BY <2>1, ResolveAnswers, LookupAnswersSound, EndAnswers, NoKeyIsTaken DEF CallStep
<1>4. row.key \notin DOMAIN records => ~permits[p].used
    BY <1>1, <1>2, WrittenIsUsed
<1>5. CASE now > row.expires
    BY <1>2, <1>5 DEF Dead
<1>6. CASE ~Fits(p, proposal)
    BY <1>6 DEF Dead
<1>7. CASE answer'[r].reason = "stale_resource_version"
    BY <1>2, <1>4, <1>7, StaleIsOutdated DEF Dead
<1> QED
    BY <1>3, <1>5, <1>6, <1>7 DEF Answers

(* A run writes under permits of its own.                                  *)
LEMMA RowsOwnedNext ==
    ASSUME Base, RowsOwned, [RunnerNext]_runnerVars
    PROVE  RowsOwned'
<1>1. TypeOK /\ LedgerInv /\ [ClientNext]_vars
    BY RunnerIsClient DEF Base, Kept
<1>2. CASE mutation_log' = mutation_log
    BY <1>2 DEF RowsOwned
<1>3. ASSUME NEW r \in Runs, Commit(r) PROVE RowsOwned'
  <2> DEFINE n == Len(mutation_log) + 1
             row == [run |-> r, action |-> call[r].proposal.action,
                     resource |-> call[r].row.resource,
                     amount |-> AmountMoved(call[r].proposal), by |-> call[r].permit]
  <2>1. call[r].row.resource = ResourceOf(call[r].proposal.action, call[r].proposal.order)
      BY <1>1, <1>3 DEF Commit, LedgerInv, CallsKnown, CallKnown
  <2>2. mutation_log' = Append(mutation_log, row)
      BY <1>3, <2>1, WriteLogs DEF Commit, LogMutation
  <2>3. row.by[1] = row.run
      BY <1>3, CallIs DEF Commit
  <2>4. /\ DOMAIN mutation_log' = DOMAIN mutation_log \cup {n}
        /\ \A i \in DOMAIN mutation_log : mutation_log'[i] = mutation_log[i]
        /\ mutation_log'[n] = row
    <3>1. mutation_log \in Seq(LogRow)
      BY <1>1 DEF TypeOK, StoreTypeOK
    <3> HIDE DEF row
    <3> QED
      BY <2>2, <3>1, Appended
  <2> HIDE DEF n, row
  <2> QED
      BY <2>3, <2>4 DEF RowsOwned
<1> QED
    BY <1>1, <1>2, <1>3, OnlyCommitsWrite

(* A response is sent or lost, no rejection.                               *)
LEMMA RespondTells ==
    ASSUME TypeOK, NEW r \in Runs, Respond(r)
    PROVE  /\ answer'[r].kind # "rejected"
           /\ answer'[r].kind = "lost" => call[r].proposal.action \in Lossy
<1>1. PICK kind \in {"committed", "lost"} :
            \E result : /\ Finish(r, kind, NULL, result)
                        /\ kind = "lost" => call[r].proposal.action \in Lossy
    BY DEF Respond
<1>2. answer'[r].kind = kind
  <2>1. PICK result : Finish(r, kind, NULL, result)
    BY <1>1
  <2>2. CallEnds(r, kind, NULL, result)
    BY <2>1, FinishEnds
  <2> QED
    BY <2>2 DEF CallEnds, Answer
<1> QED
    BY <1>1, <1>2

(* Where no response can be lost, none is.                                 *)
LEMMA AnswerIsNotLost ==
    ASSUME Lossy = {}, Base, NEW r \in Runs, RunStep(r),
           answer[r] # NULL => answer[r].kind # "lost"
    PROVE  answer'[r] # NULL => answer'[r].kind # "lost"
<1>1. TypeOK /\ AgentInv /\ PinInv
    BY DEF Base, Kept
<1>2. CASE ClientIssue(r) \/ UNCHANGED vars
    BY <1>2 DEF ClientIssue, vars, executorVars
<1>3. CASE ClientPresent(r)
  <2>1. PICK p, proposal : Load(r, p, proposal)
    BY <1>3 DEF ClientPresent
  <2> QED
    BY <1>1, <2>1 DEF Load, TypeOK, Answer
<1>4. CASE Resolve(r) \/ Lookup(r) \/ CommitStale(r) \/ CommitConflict(r)
    BY <1>1, <1>4 DEF Resolve, Lookup, CommitStale, CommitConflict, Reject, Finish, Answer, TypeOK
<1>5. CASE Commit(r)
    BY <1>5, CommitAnswers
<1>6. CASE Respond(r)
    BY <1>1, <1>6, RespondTells
<1> QED
    BY <1>1, <1>2, <1>3, <1>4, <1>5, <1>6, RunIsClient DEF CallStep

LEMMA NothingLostNext ==
    ASSUME Base, [RunnerNext]_runnerVars, NEW q \in Runs, NothingLost(q)
    PROVE  NothingLost(q)'
<1>1. SUFFICES ASSUME Lossy = {}, ~agent[q].retried,
                      answer[q] # NULL => answer[q].kind # "lost"
               PROVE  /\ ~agent'[q].retried
                      /\ answer'[q] # NULL => answer'[q].kind # "lost"
    BY DEF NothingLost
<1>2. AgentInv
    BY DEF Base
<1>3. ASSUME RunStep(q) PROVE ~agent'[q].retried
  <2>1. ASSUME SameScript(agent[q], agent'[q]) PROVE ~agent'[q].retried
    BY <1>1, <2>1 DEF SameScript
  <2>2. CASE Propose(q) \/ ReadRecord(q) \/ Decide(q)
    BY <1>2, <2>1, <2>2, ProposeDoes, ReadDoes, DecideDoes DEF AttemptEnds, SameAttempt
  <2>3. CASE Authorise(q)
    BY <1>2, <2>3, AuthoriseDoes
  <2>4. CASE Present1(q) \/ PresentTicket(q) \/ Replay(q)
    BY <1>2, <2>1, <2>4, ExecuteDoes DEF Present1, PresentTicket, Replay, SameAttempt
  <2>5. CASE AfterExecute(q)
    BY <1>1, <1>2, <2>1, <2>5, AfterExecuteDoes DEF AttemptEnds, SameAttempt, StaleGoesOn
  <2>6. CASE BeginEscalation(q) \/ AfterTicket(q) \/ AfterReplay(q) \/ Verify(q)
    BY <1>2, <2>1, <2>6, EscalateDoes, AfterTicketDoes, AfterReplayDoes, VerifyDoes
       DEF AttemptEnds, SameAttempt
  <2>7. CASE UNCHANGED agent
    BY <1>1, <2>7
  <2> QED
    BY <1>3, <2>2, <2>3, <2>4, <2>5, <2>6, <2>7 DEF RunStep
<1>4. ASSUME NEW r \in Runs, RunStep(r), r # q
      PROVE  agent'[q] = agent[q] /\ answer'[q] = answer[q]
    BY <1>4, OthersKeepStill
<1>5. CASE UNCHANGED <<agent, answer>>
    BY <1>1, <1>5
<1>6. UNCHANGED runnerVars \/ UNCHANGED <<executorVars, agent>> => UNCHANGED <<agent, answer>>
    BY DEF runnerVars, vars, executorVars
<1> QED
    BY <1>1, <1>3, <1>4, <1>5, <1>6, AnswerIsNotLost DEF RunnerNext

(* What others do, and what the world does, changes nothing of it.         *)
LEMMA WrittenStays ==
    ASSUME Base, [RunnerNext]_runnerVars, NEW q \in Runs, Written(q),
           agent'[q] = agent[q], phase'[q] = phase[q], call'[q] = call[q],
           answer'[q] = answer[q], sequence'[q] = sequence[q],
           SpentBy(q)' = SpentBy(q)
    PROVE  Written(q)'
<1>1. PermitsStay
    BY AgentInvNext DEF Base, Kept
<1>2. LastDead(q) => LastDead(q)'
    BY LastDeadStays
<1>3. Spends(q) => Spends(q)'
    BY <1>2 DEF Spends
<1>4. Settled(q) => Settled(q)'
  <2>1. \A p \in SpentBy(q) : permits'[p].action = permits[p].action
    BY <1>1 DEF SpentBy, PermitsStay
  <2> QED
    BY <1>2, <2>1 DEF Settled
<1>5. Reported(q) => Reported(q)'
    BY DEF Reported
<1> QED
    BY <1>2, <1>3, <1>4, <1>5 DEF Written

(* The rows of a run and the permits it spent.                             *)
LEMMA RowsAreSpent ==
    ASSUME LedgerInv, RowsOwned, NEW r
    PROVE  /\ \A i \in MutationLogRows(r) : mutation_log[i].by \in SpentBy(r)
           /\ \A p \in SpentBy(r) : \E i \in MutationLogRows(r) : mutation_log[i].by = p
           /\ \A i, j \in MutationLogRows(r) : mutation_log[i].by = mutation_log[j].by => i = j
           /\ TicketsOf(r) \subseteq SpentBy(r)
           /\ \A p \in SpentBy(r) :
                permits[p].action = "create_support_ticket" => p \in TicketsOf(r)
<1>1. /\ \A i, j \in DOMAIN mutation_log : mutation_log[i].by = mutation_log[j].by => i = j
      /\ \A i \in DOMAIN mutation_log : mutation_log[i].by \in DOMAIN permits
      /\ \A i \in DOMAIN mutation_log : permits[mutation_log[i].by].used
      /\ \A i \in DOMAIN mutation_log :
            mutation_log[i].action = "create_support_ticket" =>
                mutation_log[i].by \in DOMAIN tickets
      /\ \A p \in DOMAIN permits : permits[p].used \/ p \in DOMAIN tickets =>
            \E i \in DOMAIN mutation_log : mutation_log[i].by = p
    BY DEF LedgerInv, LedgerAgrees
<1>2. \A i \in DOMAIN mutation_log : mutation_log[i].action = permits[mutation_log[i].by].action
    BY DEF LedgerInv, EveryRowIsAuthorised
<1>3. DOMAIN tickets \subseteq DOMAIN permits
    BY DEF LedgerInv, RowsKnown
<1>4. \A i \in MutationLogRows(r) : mutation_log[i].by \in SpentBy(r)
    BY <1>1 DEF RowsOwned, MutationLogRows, SpentBy
<1>5. \A p \in SpentBy(r) : \E i \in MutationLogRows(r) : mutation_log[i].by = p
    BY <1>1 DEF RowsOwned, MutationLogRows, SpentBy
<1>6. TicketsOf(r) \subseteq SpentBy(r)
    BY <1>1, <1>3 DEF TicketsOf, SpentBy
<1>7. ASSUME NEW p \in SpentBy(r), permits[p].action = "create_support_ticket"
      PROVE  p \in TicketsOf(r)
  <2>1. PICK i \in MutationLogRows(r) : mutation_log[i].by = p
    BY <1>5
  <2>2. i \in DOMAIN mutation_log /\ p[1] = r
    BY DEF MutationLogRows, SpentBy
  <2> QED
    BY <1>1, <1>2, <1>7, <2>1, <2>2 DEF TicketsOf
<1> QED
    BY <1>1, <1>4, <1>5, <1>6, <1>7 DEF MutationLogRows

(* So the report counts what the outcome says.                             *)
LEMMA ReportTells ==
    ASSUME LedgerInv, RowsOwned, NEW r, Settled(r)
    PROVE  LET report == Report(r)
           IN  /\ report.outcome = "denied" => report.mutation_count = 0
               /\ report.outcome = "escalated" =>
                        report.mutation_count = report.tickets /\ report.tickets <= 1
               /\ report.outcome = "completed" =>
                        report.mutation_count = 1 /\ agent[r].last.permit \in SpentBy(r)
<1> DEFINE rows == MutationLogRows(r)
           mine == SpentBy(r)
<1>1. /\ \A i \in rows : mutation_log[i].by \in mine
      /\ \A p \in mine : \E i \in rows : mutation_log[i].by = p
      /\ \A i, j \in rows : mutation_log[i].by = mutation_log[j].by => i = j
      /\ TicketsOf(r) \subseteq mine
      /\ \A p \in mine : permits[p].action = "create_support_ticket" => p \in TicketsOf(r)
    BY RowsAreSpent
<1> HIDE DEF rows, mine
<1>2. ASSUME mine = {} PROVE Cardinality(rows) = 0 /\ Cardinality(TicketsOf(r)) = 0
  <2>1. rows = {} /\ TicketsOf(r) = {}
    BY <1>1, <1>2
  <2> QED
    BY <2>1, FS_EmptySet
<1>3. ASSUME NEW p, mine = {p} PROVE Cardinality(rows) = 1
  <2>1. PICK i \in rows : mutation_log[i].by = p
    BY <1>1, <1>3
  <2>2. rows = {i}
    BY <1>1, <1>3, <2>1
  <2> QED
    BY <2>2, FS_Singleton
<1>4. ASSUME NEW p, mine = {p}, permits[p].action = "create_support_ticket"
      PROVE  Cardinality(TicketsOf(r)) = 1
  <2>1. TicketsOf(r) = {p}
    BY <1>1, <1>4
  <2> QED
    BY <2>1, FS_Singleton
<1>5. /\ agent[r].outcome = "denied" => mine = {}
      /\ agent[r].outcome = "escalated" => \A p, q \in mine :
                p = q /\ permits[p].action = "create_support_ticket"
      /\ agent[r].outcome = "completed" => mine = {agent[r].last.permit}
    BY DEF Settled, mine
<1>6. CASE agent[r].outcome = "escalated"
  <2>1. CASE mine = {}
    BY <1>2, <1>6, <2>1 DEF Report, rows
  <2>2. CASE mine # {}
    <3>1. PICK p \in mine : TRUE
      BY <2>2
    <3>2. mine = {p} /\ permits[p].action = "create_support_ticket"
      BY <1>5, <1>6
    <3>3. Cardinality(rows) = 1 /\ Cardinality(TicketsOf(r)) = 1
      BY <1>3, <1>4, <3>2
    <3> QED
      BY <1>6, <3>3 DEF Report, rows
  <2> QED
    BY <2>1, <2>2
<1>7. CASE agent[r].outcome # "escalated"
    BY <1>2, <1>3, <1>5, <1>7 DEF Report, rows, mine
<1> QED
    BY <1>6, <1>7

(* A run goes on to, or comes back to, a step before its next permit.      *)
LEMMA WrittenBefore ==
    ASSUME NEW r, agent'[r].step \in Before, ~agent'[r].chained,
           LastDead(r)', SpentBy(r)' = {}
    PROVE  Written(r)'
    BY DEF Written, Before, After, Spending, Ticketing, Reading

(* It has an outcome, and nothing to do but the replay.                    *)
LEMMA WrittenAfter ==
    ASSUME NEW r, agent'[r].step \in {"replay", "verify"},
           agent'[r].outcome = "denied" => SpentBy(r)' = {},
           agent'[r].outcome = "escalated" => \A p, q \in SpentBy(r)' :
                p = q /\ permits'[p].action = "create_support_ticket",
           agent'[r].outcome = "completed" => SpentBy(r)' = {agent'[r].last.permit},
           agent'[r].outcome # "completed" => LastDead(r)'
    PROVE  Written(r)'
<1>1. Settled(r)'
    BY DEF Settled
<1> QED
    BY <1>1 DEF Written, Before, After, Spending, Ticketing, Reading

LEMMA WrittenByLocal ==
    ASSUME Base, CallInv, RowsOwned, [RunnerNext]_runnerVars, NEW r \in Runs,
           ~agent[r].chain, Written(r),
           \/ Propose(r) \/ ReadRecord(r) \/ Decide(r) \/ AfterExecute(r)
           \/ AfterTicket(r) \/ AfterReplay(r) \/ Verify(r)
    PROVE  Written(r)'
<1> DEFINE a == agent[r]
           b == agent'[r]
<1>1. AgentKnown(r) /\ AgentTyped(a) /\ AgentInv /\ LedgerInv /\ TypeOK
    BY DEF Base, Kept, AgentInv, AgentKnown
<1>2. UNCHANGED permits /\ phase' = phase /\ SpentBy(r)' = SpentBy(r)
  <2>1. UNCHANGED vars
    BY <1>1, ProposeDoes, ReadDoes, DecideDoes, AfterExecuteDoes, AfterTicketDoes,
       AfterReplayDoes, VerifyDoes
  <2> QED
    BY <2>1 DEF vars, storeVars, executorVars, SpentBy
<1>3. LastDead(r) /\ b.last = a.last => LastDead(r)'
    BY LastDeadStays
<1>4. ASSUME b.step \in Before, ~b.chained, b.last = a.last, LastDead(r), SpentBy(r) = {}
      PROVE  Written(r)'
    BY <1>2, <1>3, <1>4, WrittenBefore
<1>5. ASSUME NEW outcome, AttemptEnds(a, b, outcome),
             outcome = "denied" => SpentBy(r) = {},
             outcome = "escalated" => \A p, q \in SpentBy(r) :
                p = q /\ permits[p].action = "create_support_ticket",
             outcome = "completed" => SpentBy(r) = {a.last.permit},
             outcome # "completed" => LastDead(r)
      PROVE  Written(r)'
  <2>1. b.outcome = outcome /\ b.last = a.last /\ b.step \in {"replay", "verify"}
    BY <1>5 DEF AttemptEnds, SameScript
  <2> QED
    BY <1>2, <1>3, <1>5, <2>1, WrittenAfter
<1>6. ASSUME b.step = "crashed" PROVE Written(r)'
    BY <1>6 DEF Written, Before, After, Spending, Ticketing, Reading
<1>7. a.step \in Before => LastDead(r) /\ SpentBy(r) = {} /\ ~a.chained
    BY DEF Written
<1>8. CASE Propose(r)
  <2>1. a.step = "propose"
    BY <1>1, <1>8, ProposeDoes
  <2>2. CASE AttemptEnds(a, b, "denied")
    BY <1>5, <1>7, <2>1, <2>2 DEF Before
  <2>3. CASE SameScript(a, b) /\ b.step = "order" /\ b.chained = a.chained
    BY <1>4, <1>7, <2>1, <2>3 DEF Before, Reading, SameScript
  <2> QED
    BY <1>1, <1>8, <2>2, <2>3, ProposeDoes
<1>9. CASE ReadRecord(r)
  <2>1. a.step \in ReadSteps /\ SameAttempt(a, b) /\ b.step \in Reading
    BY <1>1, <1>9, ReadDoes
  <2> QED
    BY <1>4, <1>7, <2>1 DEF Before, Reading, ReadSteps, SameAttempt, SameScript
<1>10. CASE Decide(r)
  <2>1. a.step = "decide"
    BY <1>1, <1>10, DecideDoes
  <2>2. CASE AttemptEnds(a, b, "denied")
    BY <1>5, <1>7, <2>1, <2>2 DEF Before, Reading
  <2>3. CASE b.step \in {"escalate", "issue"} /\ SameAttempt(a, b)
    BY <1>4, <1>7, <2>1, <2>3 DEF Before, Reading, SameAttempt, SameScript
  <2> QED
    BY <1>1, <1>10, <2>2, <2>3, DecideDoes
<1>11. CASE AfterExecute(r)
  <2>1. a.step = "executing" /\ phase[r] = "idle" /\ answer[r] # NULL
    BY <1>1, <1>11, AfterExecuteDoes
  <2>2. Spends(r) /\ ~a.chained /\ LastKnown(r)
    BY <1>1, <2>1, HasPermit DEF Written, Spending
  <2>3. answer[r].kind # "rejected" => a.last.permit \in SpentBy(r)
    BY <2>1, <2>2 DEF CallInv, AnswerSound, LastKnown, SpentBy
  <2>4. answer[r].kind = "rejected" => SpentBy(r) = {} /\ LastDead(r)
    BY <2>1, <2>2 DEF Spends
  <2>5. SpentBy(r) \subseteq {a.last.permit}
    BY <2>2 DEF Spends
  <2>6. answer[r].kind \in AnswerKinds
    BY <1>1, <2>1 DEF TypeOK, AnswerRecord
  <2>7. CASE /\ answer[r].kind = "lost" /\ b.step = "execute" /\ b.retried = TRUE
             /\ b.last = a.last /\ b.chained = a.chained
    <3>1. Spends(r)'
      BY <1>2, <2>1, <2>3, <2>5, <2>7 DEF Spends
    <3> QED
      BY <2>2, <2>7, <3>1 DEF Written, Before, After, Spending, Ticketing, Reading
  <2>8. CASE answer[r].kind \in {"committed", "replayed"} /\ AttemptEnds(a, b, "completed")
    BY <1>5, <2>3, <2>5, <2>8
  <2>9. CASE /\ answer[r].kind \notin {"lost", "raised", "committed", "replayed"}
             /\ AttemptEnds(a, b, "denied")
    BY <1>5, <2>4, <2>6, <2>9 DEF AnswerKinds
  <2>10. CASE /\ answer[r].kind \notin {"lost", "raised", "committed", "replayed"}
              /\ StaleGoesOn(a, b)
    <3>1. SpentBy(r) = {} /\ LastDead(r)
      BY <2>4, <2>6, <2>10 DEF AnswerKinds
    <3>2. b.step \in Before /\ ~b.chained /\ b.last = a.last
      BY <2>2, <2>10 DEF StaleGoesOn, SameScript, Before
    <3> QED
      BY <1>4, <3>1, <3>2
  <2>11. CASE b.step = "crashed"
    BY <1>6, <2>11
  <2> QED
    BY <1>1, <1>11, <2>7, <2>8, <2>9, <2>10, <2>11, AfterExecuteDoes
<1>12. CASE AfterTicket(r)
  <2>1. a.step = "ticketing" /\ TicketKnown(r)
    BY <1>1, <1>12, AfterTicketDoes, HasPermit DEF Ticketing
  <2>2. LastDead(r) /\ SpentBy(r) \subseteq {<<r, sequence[r]>>}
    BY <2>1 DEF Written, Ticketing
  <2>3. \A p, q \in SpentBy(r) : p = q /\ permits[p].action = "create_support_ticket"
    BY <2>1, <2>2 DEF TicketKnown
  <2>4. CASE AttemptEnds(a, b, "escalated")
    BY <1>5, <2>2, <2>3, <2>4
  <2> QED
    BY <1>1, <1>6, <1>12, <2>4, AfterTicketDoes
<1>13. CASE AfterReplay(r)
  <2>1. a.step = "replaying" /\ b.step \in {"crashed", "verify"} /\ SameAttempt(a, b)
    BY <1>1, <1>13, AfterReplayDoes
  <2>2. CASE b.step = "verify"
    <3>1. b.outcome = a.outcome /\ b.last = a.last
      BY <2>1 DEF SameAttempt, SameScript
    <3>2. Settled(r)
      BY <2>1 DEF Written, After
    <3> QED
      BY <1>2, <1>3, <2>2, <3>1, <3>2, WrittenAfter DEF Settled
  <2> QED
    BY <1>6, <2>1, <2>2
<1>14. CASE Verify(r)
  <2>1. a.step = "verify" /\ b.step = "finished" /\ b.report = Report(r) /\ b.last = a.last
    BY <1>1, <1>14, VerifyDoes DEF SameAttempt, SameScript
  <2>2. Settled(r)
    BY <2>1 DEF Written, After
  <2>3. Reported(r)'
    BY <1>1, <1>2, <2>1, <2>2, ReportTells DEF Reported
  <2> QED
    BY <2>1, <2>3 DEF Written, Before, After, Spending, Ticketing, Reading
<1> QED
    BY <1>8, <1>9, <1>10, <1>11, <1>12, <1>13, <1>14

LEMMA WrittenByIssue ==
    ASSUME Base, [RunnerNext]_runnerVars, NEW r \in Runs, ~agent[r].chain, Written(r),
           Authorise(r) \/ BeginEscalation(r), SpentBy(r)' = SpentBy(r)
    PROVE  Written(r)'
<1> DEFINE a == agent[r]
           b == agent'[r]
<1>1. AgentInv
    BY DEF Base
<1>2. a.step \in {"issue", "escalate"}
    BY <1>1, AuthoriseDoes, EscalateDoes
<1>3. LastDead(r) /\ SpentBy(r) = {} /\ ~a.chained
    BY <1>2 DEF Written, Before
<1>4. b.last = a.last => LastDead(r)'
    BY <1>3, LastDeadStays
<1>5. CASE Authorise(r)
  <2>1. b.step = "execute" /\ b.retried = FALSE /\ b.chained = a.chained
    BY <1>1, <1>5, AuthoriseDoes
  <2>2. Spends(r)'
    BY <1>3, <2>1 DEF Spends
  <2> QED
    BY <1>3, <2>1, <2>2 DEF Written, Before, After, Spending, Ticketing, Reading
<1>6. CASE BeginEscalation(r)
  <2>1. CASE b.step = "ticket" /\ SameAttempt(a, b)
    <3>1. b.last = a.last /\ b.chained = a.chained
      BY <2>1 DEF SameAttempt, SameScript
    <3> QED
      BY <1>3, <1>4, <2>1, <3>1 DEF Written, Before, After, Spending, Ticketing, Reading
  <2>2. CASE AttemptEnds(a, b, "escalated")
    <3>1. b.last = a.last /\ b.outcome = "escalated" /\ b.step \in {"replay", "verify"}
      BY <2>2 DEF AttemptEnds, SameScript
    <3> QED
      BY <1>3, <1>4, <3>1, WrittenAfter
  <2> QED
    BY <1>1, <1>6, <2>1, <2>2, EscalateDoes
<1> QED
    BY <1>5, <1>6

LEMMA WrittenByPresent ==
    ASSUME Base, [RunnerNext]_runnerVars, NEW r \in Runs, ~agent[r].chain, Written(r),
           Present1(r) \/ PresentTicket(r) \/ Replay(r), SpentBy(r)' = SpentBy(r)
    PROVE  Written(r)'
<1> DEFINE a == agent[r]
           b == agent'[r]
<1>1. AgentKnown(r) /\ AgentInv /\ TypeOK
    BY DEF Base, Kept, AgentInv
<1>2. SameAttempt(a, b) /\ b.last = a.last /\ b.chained = a.chained /\ b.outcome = a.outcome
        /\ b.retried = a.retried
    BY <1>1, ExecuteDoes DEF Present1, PresentTicket, Replay, SameAttempt, SameScript
<1>3. LastDead(r) => LastDead(r)'
    BY <1>2, LastDeadStays
<1>4. ASSUME NEW p, NEW proposal, Load(r, p, proposal)
      PROVE  phase'[r] # "commit" /\ phase'[r] # "lookup" /\ sequence' = sequence
                /\ UNCHANGED permits
  <2>1. phase[r] = "idle" /\ (phase'[r] = "resolve" \/ phase'[r] = phase[r])
    BY <1>1, <1>4 DEF Load, GoTo, TypeOK
  <2> QED
    BY <1>4, <2>1 DEF Load, storeVars
<1>5. CASE Present1(r)
  <2>1. /\ a.step = "execute" /\ b.step = "executing"
        /\ Load(r, a.last.permit, a.last.proposal)
    BY <1>1, <1>5, ExecuteDoes DEF Present1
  <2>2. Spends(r) /\ ~a.chained
    BY <2>1 DEF Written, Spending
  <2>3. phase'[r] = "resolve"
    <3>1. LastKnown(r)
      BY <1>1, <2>1, HasPermit DEF Spending
    <3> QED
      BY <1>1, <2>1, <3>1, LoadDoes DEF LastKnown
  <2>4. Spends(r)'
    BY <1>2, <2>1, <2>2, <2>3 DEF Spends
  <2> QED
    BY <1>2, <2>1, <2>2, <2>4 DEF Written, Before, After, Spending, Ticketing, Reading
<1>6. CASE PresentTicket(r)
  <2>1. /\ a.step = "ticket" /\ b.step = "ticketing"
        /\ Load(r, <<r, sequence[r]>>, TicketProposal(a.proposal.order))
    BY <1>1, <1>6, ExecuteDoes DEF PresentTicket
  <2>2. LastDead(r) /\ SpentBy(r) = {} /\ ~a.chained
    BY <2>1 DEF Written, Ticketing
  <2> QED
    BY <1>2, <1>3, <2>1, <2>2 DEF Written, Before, After, Spending, Ticketing, Reading
<1>7. CASE Replay(r)
  <2>1. /\ a.step = "replay" /\ b.step = "replaying"
        /\ Load(r, a.last.permit, a.last.proposal)
    BY <1>1, <1>7, ExecuteDoes DEF Replay
  <2>2. Settled(r)
    BY <2>1 DEF Written, After
  <2>3. phase'[r] # "commit" /\ phase'[r] # "lookup" /\ UNCHANGED permits
    BY <1>4, <2>1
  <2>4. Settled(r)'
    BY <1>2, <1>3, <2>1, <2>2, <2>3 DEF Settled
  <2> QED
    BY <2>1, <2>4 DEF Written, Before, After, Spending, Ticketing, Reading
<1> QED
    BY <1>5, <1>6, <1>7

(* A check fails for a used permit, an amount or a version.                *)
LEMMA CheckFails ==
    ASSUME NEW permit \in PermitRow, NEW proposal, AmountOf(proposal) \in Nat, NEW target,
           ~(AmountOf(proposal) <= permit.max) \/ target.version # permit.version
    PROVE  FirstFailedCheck(permit, proposal, target) # NULL
<1>1. permit.max \in Nat
    BY DEF PermitRow
<1>2. AmountOf(proposal) <= permit.max <=> ~(AmountOf(proposal) > permit.max)
    BY <1>1
<1>3. /\ NULL # "permit_already_used" /\ NULL # "permit_amount_exceeded"
      /\ NULL # "stale_resource_version"
    BY ReasonAssumption DEF RejectionReasons
<1> QED
    BY <1>2, <1>3, Zenon DEF FirstFailedCheck

(* A dead permit that is presented again does not get as far as a commit.  *)
LEMMA DeadIsRejected ==
    ASSUME Base, NEW r \in Runs, CallDates(r), Resolve(r), phase'[r] = "lookup",
           Dead(call[r].permit, call[r].proposal)
    PROVE  FirstFailedCheck(call'[r].row, call'[r].proposal, call'[r].target) # NULL
<1> DEFINE p == call[r].permit
           row == call[r].row
           proposal == call[r].proposal
           o == proposal.order
           target == ResolveTarget(proposal)
<1>1. TypeOK /\ phase[r] = "resolve"
    BY DEF Base, Kept, Resolve
<1>2. /\ call'[r].proposal = proposal
      /\ call'[r].row = row
      /\ call'[r].target = target
      /\ ~(now > row.expires)
    BY <1>1, ResolveDoes DEF CallEnds
<1>3. /\ row \in PermitRow
      /\ AmountOf(proposal) \in Nat
      /\ proposal.action \in ActionName
      /\ row.max = permits[p].max
      /\ row.version = permits[p].version
      /\ row.expires = permits[p].expires
      /\ Pinned(proposal.action, o, row.version, row.max)
    BY <1>1, CallIs DEF CallDates, Asked, Proposals
<1>4. ~(AmountOf(proposal) <= row.max) \/ VersionOf(proposal.action, o) > row.version
    BY <1>2, <1>3 DEF Dead, Fits
<1>5. target.version = VersionOf(proposal.action, o) /\ target.version \in Nat
  <2>1. /\ \A e \in DOMAIN orders : orders[e].version \in Nat
        /\ \A e \in DOMAIN payments : payments[e].version \in Nat
    BY <1>1, VersionsAreNats
  <2> QED
    BY <1>3, <2>1 DEF Pinned, ResolveTarget, VersionOf, ActionName
<1>6. row.version \in Nat
    BY <1>3 DEF PermitRow
<1> HIDE DEF p, row, proposal, o, target
<1>7. ~(AmountOf(proposal) <= row.max) \/ target.version # row.version
    BY <1>4, <1>5, <1>6
<1>8. FirstFailedCheck(row, proposal, target) # NULL
    BY <1>3, <1>7, CheckFails
<1> QED
    BY <1>2, <1>8

(* The clock does not outrun a permit, or no response is lost.             *)
RetriesInTime == Lossy = {} \/ MaxNow <= PermitTTL

LEMMA WrittenByCall ==
    ASSUME ~SilentEdits, RetriesInTime, Base, CallInv, WriteInv, [RunnerNext]_runnerVars,
           NEW r \in Runs, ~agent[r].chain, CallStep(r), UNCHANGED agent
    PROVE  Written(r)'
<1> DEFINE a == agent[r]
           p == call[r].permit
           proposal == call[r].proposal
<1>1. TypeOK /\ LedgerInv /\ AgentKnown(r) /\ AgentTyped(a) /\ PermitsStay /\ CallOwned(r)
        /\ phase[r] # "idle" /\ sequence' = sequence
    BY CallGoesOn, AgentInvNext DEF Base, Kept, AgentInv, AgentKnown
<1>2. CallFacts(r) /\ CallDates(r) /\ NothingLost(r) /\ Written(r)
    BY DEF CallInv, CallFacts, WriteInv
<1>3. LastDead(r) => LastDead(r)'
    BY LastDeadStays
<1>4. SpentBy(r)' = SpentBy(r) \/ (Commit(r) /\ SpentBy(r)' = SpentBy(r) \cup {p})
  <2>1. RunStep(r)
    BY DEF RunStep
  <2> QED
    BY <2>1, SpentMoves
<1>5. Commit(r) => phase[r] = "commit" /\ phase'[r] = "respond"
    BY CommitAnswers
<1>6. CASE a.step = "executing"
  <2>1. p = a.last.permit /\ proposal = a.last.proposal /\ LastKnown(r)
    BY <1>1, <1>6 DEF CallOwned, AgentKnown, Spending
  <2>2. Spends(r) /\ ~a.chained
    BY <1>2, <1>6 DEF Written, Spending
  <2>3. SpentBy(r)' \subseteq {a.last.permit} /\ SpentBy(r) \subseteq SpentBy(r)'
    BY <1>4, <2>1, <2>2 DEF Spends
  <2>4. ASSUME ~a.retried, phase'[r] \in {"resolve", "lookup", "commit"}
        PROVE  SpentBy(r)' = {}
    <3>1. phase[r] \in {"resolve", "lookup", "commit"}
      <4>1. phase[r] # "respond"
        <5>1. ASSUME Respond(r) PROVE phase'[r] = "idle"
          BY <1>1, <5>1, EndDoes DEF CallEnds
        <5> QED
          BY <2>4, <5>1 DEF CallStep, Resolve, Lookup, Commit, CommitStale, CommitConflict
      <4> QED
        BY <1>1, <4>1 DEF TypeOK, Phases
    <3> QED
      BY <1>4, <1>5, <2>2, <2>4, <3>1 DEF Spends
  <2>5. ASSUME phase'[r] = "idle", answer'[r].kind = "rejected"
        PROVE  SpentBy(r)' = {} /\ LastDead(r)'
    <3>1. /\ Dead(p, proposal)
          /\ permits[p].used => now > permits[p].expires \/ ~Fits(p, proposal)
      BY <1>2, <2>5, RejectedIsDead DEF CallFacts
    <3>2. LastDead(r)
      BY <2>1, <3>1 DEF LastDead
    <3>3. a.retried => permits[p].used
      BY <2>1, <2>2 DEF Spends, SpentBy
    <3>4. permits[p].used => Fits(p, proposal)
      BY <1>2, <1>6, <2>1 DEF CallFacts, LastFits, Spending
    <3>5. ~a.retried
      <4>1. SUFFICES ASSUME a.retried PROVE FALSE
        OBVIOUS
      <4>2. now > permits[p].expires
        BY <3>1, <3>3, <3>4, <4>1
      <4>3. MaxNow <= PermitTTL
        BY <1>2, <4>1 DEF RetriesInTime, NothingLost
      <4>4. PermitTTL <= permits[p].expires /\ permits[p].expires \in Nat
        BY <1>1, <2>1 DEF LastKnown, Base, PinInv, PermitPinned, TypeOK, StoreTypeOK,
                          IsTable, PermitRow
      <4>5. now \in 0..MaxNow /\ MaxNow \in Nat /\ PermitTTL \in Nat
        BY <1>1, StoreAssumption, ExecutorAssumption DEF TypeOK, StoreTypeOK
      <4> QED
        BY <4>2, <4>3, <4>4, <4>5
    <3>6. phase[r] \in {"resolve", "lookup", "commit"}
      <4>1. phase[r] # "respond"
        <5>1. ~Respond(r)
          BY <1>1, <2>5, RespondTells
        <5> QED
          BY <2>5, <5>1 DEF CallStep, Resolve, Lookup, Commit, CommitStale, CommitConflict
      <4> QED
        BY <1>1, <4>1 DEF TypeOK, Phases
    <3>7. SpentBy(r) = {}
      BY <2>2, <3>5, <3>6 DEF Spends
    <3> QED
      BY <1>3, <1>4, <1>5, <2>5, <3>2, <3>7
  <2>6. Spends(r)'
    BY <1>6, <2>2, <2>3, <2>4, <2>5 DEF Spends
  <2> QED
    BY <1>6, <2>2, <2>6 DEF Written, Before, After, Spending, Ticketing, Reading
<1>7. CASE a.step = "ticketing"
  <2>1. p = <<r, sequence[r]>>
    BY <1>1, <1>7 DEF CallOwned
  <2>2. LastDead(r) /\ SpentBy(r) \subseteq {<<r, sequence[r]>>} /\ ~a.chained
    BY <1>2, <1>7 DEF Written, Ticketing
  <2>3. SpentBy(r)' \subseteq {<<r, sequence'[r]>>}
    BY <1>1, <1>4, <2>1, <2>2
  <2> QED
    BY <1>3, <1>7, <2>2, <2>3 DEF Written, Before, After, Spending, Ticketing, Reading
<1>8. CASE a.step = "replaying"
  <2>1. p = a.last.permit /\ proposal = a.last.proposal /\ a.last # NULL
    BY <1>1, <1>8 DEF CallOwned, AgentTyped
  <2>2. Settled(r)
    BY <1>2, <1>8 DEF Written, After
  <2>3. a.outcome = "completed" => SpentBy(r)' = {a.last.permit}
    BY <1>4, <2>1, <2>2 DEF Settled
  <2>4. ASSUME a.outcome # "completed"
        PROVE  /\ SpentBy(r)' = SpentBy(r)
               /\ LastDead(r)'
               /\ phase'[r] # "commit"
               /\ phase'[r] = "lookup" =>
                    FirstFailedCheck(call'[r].row, call'[r].proposal, call'[r].target) # NULL
    <3>1. /\ LastDead(r) /\ phase[r] # "commit"
          /\ phase[r] = "lookup" =>
                FirstFailedCheck(call[r].row, call[r].proposal, call[r].target) # NULL
      BY <1>8, <2>2, <2>4 DEF Settled
    <3>2. Dead(p, proposal)
      BY <2>1, <3>1 DEF LastDead
    <3>3. CASE Resolve(r)
      <4>1. phase'[r] # "commit"
        BY <1>1, <3>3, ResolveDoes DEF CallEnds
      <4> QED
        BY <1>2, <1>3, <1>4, <1>5, <3>1, <3>2, <3>3, <4>1, DeadIsRejected
    <3>4. CASE Lookup(r)
      <4>1. phase[r] = "lookup" /\ phase'[r] = "idle"
        BY <1>1, <3>1, <3>4, LookupDoes DEF CallEnds
      <4> QED
        BY <1>3, <1>4, <1>5, <3>1, <4>1
    <3>5. CASE Respond(r)
      <4>1. phase'[r] = "idle"
        BY <1>1, <3>5, EndDoes DEF CallEnds
      <4> QED
        BY <1>3, <1>4, <3>1, <4>1 DEF Commit
    <3> QED
      BY <3>1, <3>3, <3>4, <3>5 DEF CallStep, Commit, CommitStale, CommitConflict
  <2>5. ASSUME a.outcome = "escalated"
        PROVE  \A s, t \in SpentBy(r)' :
                    s = t /\ permits'[s].action = "create_support_ticket"
    <3>1. SpentBy(r)' = SpentBy(r)
      BY <2>4, <2>5
    <3>2. \A s \in SpentBy(r) : permits'[s].action = permits[s].action
      BY <1>1 DEF SpentBy, PermitsStay
    <3> QED
      BY <2>2, <2>5, <3>1, <3>2 DEF Settled
  <2>6. a.outcome = "denied" => SpentBy(r)' = {}
    BY <2>2, <2>4 DEF Settled
  <2>7. Settled(r)'
    BY <2>3, <2>4, <2>5, <2>6 DEF Settled
  <2> QED
    BY <1>8, <2>7 DEF Written, Before, After, Spending, Ticketing, Reading
<1> QED
    BY <1>1, <1>6, <1>7, <1>8 DEF CallOwned

LEMMA WriteInvNext ==
    ASSUME ~SilentEdits, RetriesInTime, Base, CallInv, WriteInv, [RunnerNext]_runnerVars
    PROVE  WriteInv'
<1>1. RowsOwned'
    BY RowsOwnedNext DEF WriteInv
<1>2. \A q \in Runs : CallDates(q)' /\ NothingLost(q)'
    BY CallDatesNext, NothingLostNext DEF WriteInv
<1>3. TypeOK /\ AgentInv /\ PinInv
    BY DEF Base, Kept
<1>4. SUFFICES ASSUME NEW q \in Runs, ~agent'[q].chain PROVE Written(q)'
    BY <1>1, <1>2 DEF WriteInv
<1>5. CASE RunStep(q)
  <2>1. ~agent[q].chain
    <3>1. ASSUME SameScript(agent[q], agent'[q]) PROVE ~agent[q].chain
      BY <1>4, <3>1 DEF SameScript
    <3>2. CASE Propose(q) \/ ReadRecord(q) \/ Decide(q)
      BY <1>3, <3>1, <3>2, ProposeDoes, ReadDoes, DecideDoes DEF AttemptEnds, SameAttempt
    <3>3. CASE Authorise(q)
      BY <1>3, <1>4, <3>3, AuthoriseDoes
    <3>4. CASE Present1(q) \/ PresentTicket(q) \/ Replay(q)
      BY <1>3, <3>1, <3>4, ExecuteDoes DEF Present1, PresentTicket, Replay, SameAttempt
    <3>5. CASE AfterExecute(q)
      BY <1>3, <1>4, <3>1, <3>5, AfterExecuteDoes DEF AttemptEnds, SameAttempt, StaleGoesOn
    <3>6. CASE BeginEscalation(q) \/ AfterTicket(q) \/ AfterReplay(q) \/ Verify(q)
      BY <1>3, <3>1, <3>6, EscalateDoes, AfterTicketDoes, AfterReplayDoes, VerifyDoes
         DEF AttemptEnds, SameAttempt
    <3>7. CASE UNCHANGED agent
      BY <1>4, <3>7
    <3> QED
      BY <1>5, <3>2, <3>3, <3>4, <3>5, <3>6, <3>7 DEF RunStep
  <2>2. Written(q)
    BY <2>1 DEF WriteInv
  <2>3. CASE CallStep(q) /\ UNCHANGED agent
    BY <2>1, <2>3, WrittenByCall
  <2>4. CASE Authorise(q) \/ BeginEscalation(q) \/ Present1(q) \/ PresentTicket(q) \/ Replay(q)
    <3>1. phase[q] = "idle"
      <4>1. agent[q].step \in {"issue", "escalate", "execute", "ticket", "replay"}
        BY <1>3, <2>4, AuthoriseDoes, EscalateDoes, ExecuteDoes
           DEF Present1, PresentTicket, Replay
      <4> QED
        BY <1>3, <4>1, NoCallOutside DEF AgentInv
    <3>2. SpentBy(q)' = SpentBy(q)
      BY <1>5, <3>1, SpentMoves DEF Commit
    <3> QED
      BY <2>1, <2>2, <2>4, <3>2, WrittenByIssue, WrittenByPresent
  <2> QED
    BY <1>5, <2>1, <2>2, <2>3, <2>4, WrittenByLocal DEF RunStep, WriteInv
<1>6. ASSUME NEW r \in Runs, RunStep(r), r # q PROVE Written(q)'
  <2>1. /\ agent'[q] = agent[q] /\ phase'[q] = phase[q] /\ call'[q] = call[q]
        /\ answer'[q] = answer[q] /\ sequence'[q] = sequence[q]
        /\ SpentBy(q)' = SpentBy(q)
    BY <1>6, OthersKeepStill, SpentMoves
  <2> QED
    BY <1>4, <2>1, WrittenStays DEF WriteInv
<1>7. CASE (WorldStep /\ UNCHANGED <<executorVars, agent>>) \/ UNCHANGED runnerVars
  <2>1. UNCHANGED <<agent, phase, call, answer, sequence>>
    BY <1>7 DEF runnerVars, vars, executorVars
  <2>2. SpentBy(q)' = SpentBy(q)
    BY <1>7, WorldSpendsNone DEF runnerVars
  <2> QED
    BY <1>4, <2>1, <2>2, WrittenStays DEF WriteInv
<1> QED
    BY <1>5, <1>6, <1>7 DEF RunnerNext

LEMMA WriteInvInit == RunnerInit => WriteInv
<1> SUFFICES ASSUME RunnerInit PROVE WriteInv
    OBVIOUS
<1>1. DOMAIN permits = {} /\ DOMAIN mutation_log = {}
    BY DEF RunnerInit, Init, StoreInit, EmptyTable
<1>2. ASSUME NEW r \in Runs
      PROVE  /\ phase[r] = "idle" /\ answer[r] = NULL
             /\ agent[r].step = "propose" /\ agent[r].last = NULL
             /\ agent[r].retried = FALSE /\ agent[r].chained = FALSE
    BY DEF RunnerInit, Init, ExecutorInit, Fresh
<1>3. ASSUME NEW r \in Runs PROVE Written(r)
    BY <1>1, <1>2 DEF Written, LastDead, SpentBy, Before, After, Spending, Ticketing, Reading
<1> QED
    BY <1>1, <1>2, <1>3 DEF WriteInv, RowsOwned, CallDates, NothingLost

(* What a run that does not chain reports is what it wrote: nothing when   *)
(* it was denied, at most its ticket when it was escalated, one row and    *)
(* that of its last permit when it completed (runner.py _verify, _report). *)
(* Every edit moves the version; and no response is lost, or no permit     *)
(* expires: a lost response that is retried past the permit's TTL is       *)
(* reported as denied although the row is there (executor.py:126).         *)
THEOREM OutcomesMatchWrites ==
    ASSUME ~SilentEdits, RetriesInTime
    PROVE  RunnerSpec => []OutcomeMatchesWrites
<1> DEFINE Inv == Base /\ CallInv /\ WriteInv
<1>1. RunnerInit => Inv
    BY BaseInit, CallInvInit, WriteInvInit
<1>2. Inv /\ [RunnerNext]_runnerVars => Inv'
    BY BaseNext, CallInvNext, WriteInvNext
<1>3. Inv => OutcomeMatchesWrites
  <2> SUFFICES ASSUME WriteInv, NEW r \in Runs, agent[r].step = "finished", ~agent[r].chain
               PROVE  LET report == agent[r].report
                      IN  /\ report.outcome = "denied" => report.mutation_count = 0
                          /\ report.outcome = "escalated" =>
                                  /\ report.mutation_count = report.tickets
                                  /\ report.tickets <= 1
                          /\ report.outcome = "completed" =>
                                  /\ report.mutation_count = 1
                                  /\ permits[agent[r].last.permit].used
    BY DEF OutcomeMatchesWrites, Finished
  <2>1. Reported(r)
    BY DEF WriteInv, Written
  <2> QED
    BY <2>1 DEF Reported, SpentBy
<1> HIDE DEF Inv
<1> QED
    BY <1>1, <1>2, <1>3, PTL DEF RunnerSpec

-----------------------------------------------------------------------------
(* What a lost response and an escalation leave behind.                    *)

(* Nothing more is written under the permit of the last attempt.           *)
LastOver(r) ==
    LET last == agent[r].last
    IN  last # NULL =>
            permits[last.permit].used \/ Dead(last.permit, last.proposal)

(* A permit that was presented before is not committed, hence no response  *)
(* to it is lost.                                                          *)
Repeats(r) ==
    \/ agent[r].step = "replaying"
    \/ agent[r].step = "executing" /\ agent[r].retried
    =>  /\ phase[r] \in {"idle", "resolve", "lookup"}
        /\ phase[r] = "lookup" =>
              \/ permits[agent[r].last.permit].used
              \/ FirstFailedCheck(call[r].row, call[r].proposal, call[r].target) # NULL
        /\ phase[r] = "idle" /\ answer[r] # NULL => answer[r].kind # "lost"

(* What became of the ticket of an escalation.                             *)
TicketSpent(r) == permits[<<r, sequence[r]>>].used
TicketDead(r)  == Dead(<<r, sequence[r]>>, TicketProposal(agent[r].proposal.order))

TicketTold(r) ==
    agent[r].step = "ticketing" /\ phase[r] = "idle" /\ answer[r] # NULL =>
        /\ answer[r].permit = <<r, sequence[r]>>
        /\ IF answer[r].kind = "rejected" THEN TicketDead(r) ELSE TicketSpent(r)

Done == After \cup {"finished"}

TicketSettled(r) ==
    /\ agent[r].outcome = "escalated" => agent[r].step \in Done \cup {"crashed"}
    /\ agent[r].outcome = "escalated" /\ agent[r].step \in Done =>
          \/ agent[r].proposal.order \notin DOMAIN orders
          \/ TicketKnown(r) /\ (TicketSpent(r) \/ TicketDead(r))

(* A run that crashed was waiting for its ticket, which is there.          *)
CrashTold(r) ==
    agent[r].step = "crashed" =>
        /\ answer[r].kind = "lost"
        /\ answer[r].permit = <<r, sequence[r]>>
        /\ TicketKnown(r) /\ TicketSpent(r)

Spendable(r) ==
    /\ agent[r].step \notin Spending => LastOver(r)
    /\ agent[r].step \in Spending /\ agent[r].retried =>
            permits[agent[r].last.permit].used
    /\ agent[r].step = "executing" /\ phase[r] = "idle" /\ answer[r] # NULL
          /\ answer[r].kind = "rejected" => LastOver(r)

Fate(r) ==
    Spendable(r) /\ Repeats(r) /\ TicketTold(r) /\ TicketSettled(r) /\ CrashTold(r)

LossInv == \A r \in Runs : CallDates(r) /\ Fate(r)

(* A permit that is over stays so.                                         *)
LEMMA LastOverStays ==
    ASSUME Base, [RunnerNext]_runnerVars, NEW r \in Runs, LastOver(r),
           agent'[r].last = agent[r].last
    PROVE  LastOver(r)'
<1>1. TypeOK /\ AgentInv /\ PinInv /\ PermitsStay /\ [ClientNext]_vars
    BY RunnerIsClient, AgentInvNext DEF Base, Kept
<1>2. SUFFICES ASSUME agent[r].last # NULL PROVE LastOver(r)'
    BY DEF LastOver
<1>3. PICK last : last = agent[r].last
    OBVIOUS
<1>4. /\ last.permit \in DOMAIN permits
      /\ permits[last.permit].action = last.proposal.action
      /\ permits[last.permit].resource =
            ResourceOf(last.proposal.action, last.proposal.order)
      /\ PermitPinned(last.permit)
    BY <1>1, <1>2, <1>3 DEF AgentInv, AgentKnown, LastKnown, PinInv
<1>5. permits[last.permit].used => permits'[last.permit].used
    BY <1>1, <1>4 DEF PermitsStay
<1>6. Dead(last.permit, last.proposal) => Dead(last.permit, last.proposal)'
    BY <1>1, <1>4, DeadStays
<1>7. permits[last.permit].used \/ Dead(last.permit, last.proposal)
    BY <1>2, <1>3 DEF LastOver
<1>8. last = agent'[r].last
    BY <1>3
<1> QED
    BY <1>5, <1>6, <1>7, <1>8 DEF LastOver

(* So does the permit of a ticket, and no order comes or goes.             *)
LEMMA TicketStands ==
    ASSUME Base, [RunnerNext]_runnerVars, NEW r \in Runs, TicketKnown(r),
           sequence'[r] = sequence[r],
           agent'[r].proposal = agent[r].proposal, agent'[r].last = agent[r].last
    PROVE  /\ TicketKnown(r)'
           /\ TicketSpent(r) => TicketSpent(r)'
           /\ TicketDead(r) => TicketDead(r)'
<1>1. TypeOK /\ PinInv /\ PermitsStay /\ [ClientNext]_vars
    BY RunnerIsClient, AgentInvNext DEF Base, Kept
<1> DEFINE p == <<r, sequence[r]>>
           proposal == TicketProposal(agent[r].proposal.order)
<1>2. /\ p \in DOMAIN permits
      /\ permits[p].action = proposal.action
      /\ permits[p].resource = ResourceOf(proposal.action, proposal.order)
      /\ PermitPinned(p)
    BY <1>1 DEF TicketKnown, TicketProposal, ResourceOf, PinInv
<1>3. TicketKnown(r)'
    BY <1>1, TicketStays
<1>4. TicketSpent(r) => TicketSpent(r)'
    BY <1>1, <1>2 DEF TicketSpent, PermitsStay
<1>5. Dead(p, proposal) => Dead(p, proposal)'
  <2> HIDE DEF p, proposal
  <2>1. ASSUME NEW q \in DOMAIN permits, NEW asked, Dead(q, asked), PermitPinned(q),
               permits[q].action = asked.action,
               permits[q].resource = ResourceOf(asked.action, asked.order)
        PROVE  Dead(q, asked)'
    BY <1>1, <2>1, DeadStays
  <2>2. PICK q, asked : q = p /\ asked = proposal
    OBVIOUS
  <2>3. Dead(q, asked) => Dead(q, asked)'
    BY <1>2, <2>1, <2>2
  <2>4. p' = p /\ proposal' = proposal
    BY DEF p, proposal, TicketProposal
  <2> QED
    BY <2>2, <2>3, <2>4 DEF Dead, Fits
<1>6. p' = p /\ proposal' = proposal
    BY DEF TicketProposal
<1> QED
    BY <1>3, <1>4, <1>5, <1>6 DEF TicketDead

(* Others move.                                                            *)
LEMMA FateStays ==
    ASSUME Base, [RunnerNext]_runnerVars, NEW q \in Runs, Fate(q),
           agent'[q] = agent[q], phase'[q] = phase[q], call'[q] = call[q],
           answer'[q] = answer[q], sequence'[q] = sequence[q]
    PROVE  Fate(q)'
<1>1. /\ AgentKnown(q) /\ PermitsStay
      /\ DOMAIN orders' = DOMAIN orders
  <2>1. TypeOK /\ AgentInv /\ PinInv /\ PermitsStay /\ [ClientNext]_vars
    BY RunnerIsClient, AgentInvNext DEF Base, Kept
  <2>2. VersionsGrow
    BY <2>1, RowsMoveOn
  <2> QED
    BY <2>1, <2>2 DEF AgentInv, VersionsGrow
<1>2. LastOver(q) => LastOver(q)'
    BY LastOverStays
<1>3. LastKnown(q) => (permits[agent[q].last.permit].used =>
                            permits'[agent[q].last.permit].used)
    BY <1>1 DEF LastKnown, PermitsStay
<1>4. TicketKnown(q) => /\ TicketKnown(q)'
                        /\ TicketSpent(q) => TicketSpent(q)'
                        /\ TicketDead(q) => TicketDead(q)'
    BY TicketStands
<1>5. /\ agent[q].step \in Spending \cup {"replaying"} => LastKnown(q)
      /\ agent[q].step = "ticketing" => TicketKnown(q)
    BY <1>1 DEF AgentKnown, AgentTyped, Ticketing
<1>6. Spendable(q)'
    BY <1>2, <1>3, <1>5 DEF Fate, Spendable
<1>7. Repeats(q)'
    BY <1>3, <1>5 DEF Fate, Repeats, Spending
<1>8. TicketTold(q)'
    BY <1>4, <1>5 DEF Fate, TicketTold
<1>9. TicketSettled(q)'
    BY <1>1, <1>4 DEF Fate, TicketSettled
<1>10. CrashTold(q)'
    BY <1>4 DEF Fate, CrashTold
<1> QED
    BY <1>6, <1>7, <1>8, <1>9, <1>10 DEF Fate

(* A new permit is issued.                                                 *)
LEMMA FateByIssue ==
    ASSUME Base, [RunnerNext]_runnerVars, NEW r \in Runs, Fate(r),
           Authorise(r) \/ BeginEscalation(r)
    PROVE  Fate(r)'
<1> DEFINE a == agent[r]
           b == agent'[r]
<1>1. AgentInv
    BY DEF Base
<1>2. a.step \in {"issue", "escalate"}
    BY <1>1, AuthoriseDoes, EscalateDoes
<1>3. LastOver(r) /\ a.outcome # "escalated"
    BY <1>2 DEF Fate, Spendable, TicketSettled, Spending, Done, After
<1>4. b.last = a.last => LastOver(r)'
    BY <1>3, LastOverStays
<1>5. CASE Authorise(r)
  <2>1. b.step = "execute" /\ b.retried = FALSE /\ b.outcome = a.outcome
    BY <1>1, <1>5, AuthoriseDoes
  <2> QED
    BY <1>3, <2>1 DEF Fate, Spendable, Repeats, TicketTold, TicketSettled, CrashTold, Spending
<1>6. CASE BeginEscalation(r)
  <2>1. CASE b.step = "ticket" /\ SameAttempt(a, b)
    <3>1. b.last = a.last /\ b.outcome = a.outcome
      BY <2>1 DEF SameAttempt, SameScript
    <3> QED
      BY <1>3, <1>4, <2>1, <3>1
      DEF Fate, Spendable, Repeats, TicketTold, TicketSettled, CrashTold, Spending
  <2>2. CASE UNCHANGED vars /\ AttemptEnds(a, b, "escalated") /\ a.proposal.order \notin DOMAIN orders
    <3>1. /\ b.last = a.last /\ b.proposal = a.proposal
          /\ b.step \in {"replay", "verify"}
      BY <2>2 DEF AttemptEnds, SameScript
    <3>2. b.proposal.order \notin DOMAIN orders'
      BY <2>2, <3>1 DEF vars, storeVars, resourceVars
    <3> QED
      BY <1>4, <3>1, <3>2
      DEF Fate, Spendable, Repeats, TicketTold, TicketSettled, CrashTold, Spending, Done, After
  <2>3. a.proposal.order \notin DOMAIN orders \/ b.step = "ticket"
    <3>1. ASSUME a.proposal.order \in DOMAIN orders PROVE b.step = "ticket"
      BY <1>1, <1>6, <3>1, GotoMoves DEF BeginEscalation
    <3> QED
      BY <3>1
  <2> QED
    BY <1>1, <1>6, <2>1, <2>2, <2>3, EscalateDoes DEF AttemptEnds
<1> QED
    BY <1>5, <1>6

(* A permit is presented.                                                  *)
LEMMA FateByPresent ==
    ASSUME Base, [RunnerNext]_runnerVars, NEW r \in Runs, Fate(r),
           Present1(r) \/ PresentTicket(r) \/ Replay(r)
    PROVE  Fate(r)'
<1> DEFINE a == agent[r]
           b == agent'[r]
<1>1. /\ SameAttempt(a, b)
      /\ permits' = permits
      /\ phase'[r] = "resolve"
      /\ answer'[r] = NULL
      /\ \/ a.step = "execute" /\ b.step = "executing"
         \/ a.step = "replay" /\ b.step = "replaying"
         \/ a.step = "ticket" /\ b.step = "ticketing"
    BY PresentDoes DEF storeVars
<1>2. /\ b.last = a.last /\ b.outcome = a.outcome /\ b.retried = a.retried
      /\ b.proposal = a.proposal
    BY <1>1 DEF SameAttempt, SameScript
<1>3. LastOver(r) => LastOver(r)'
    BY <1>2, LastOverStays
<1>4. Spendable(r)' /\ Repeats(r)' /\ TicketTold(r)' /\ CrashTold(r)'
    BY <1>1, <1>2, <1>3
    DEF Fate, Spendable, Repeats, TicketTold, CrashTold, Spending
<1>5. TicketSettled(r)'
  <2>1. CASE a.outcome # "escalated"
    BY <1>2, <2>1 DEF TicketSettled
  <2>2. CASE a.outcome = "escalated"
    <3>1. a.step = "replay" /\ b.step = "replaying"
      BY <1>1, <2>2 DEF Fate, TicketSettled, Done, After
    <3>2. sequence'[r] = sequence[r] /\ DOMAIN orders' = DOMAIN orders
      BY PresentDoes DEF storeVars, resourceVars
    <3>3. TicketKnown(r) => /\ TicketKnown(r)'
                            /\ TicketSpent(r) => TicketSpent(r)'
                            /\ TicketDead(r) => TicketDead(r)'
      BY <1>2, <3>2, TicketStands
    <3> QED
      BY <1>2, <2>2, <3>1, <3>2, <3>3 DEF Fate, TicketSettled, Done, After
  <2> QED
    BY <2>1, <2>2
<1> QED
    BY <1>4, <1>5 DEF Fate

(* A run crashes of a lost response, where it does not ask again.          *)
LEMMA CrashNeedsRetry ==
    ASSUME AgentInv, NEW r \in Runs, AfterExecute(r), agent'[r].step = "crashed",
           answer[r].kind # "raised"
    PROVE  agent[r].retried /\ answer[r].kind = "lost"
<1> DEFINE a == agent[r]
           kind == answer[r].kind
<1>1. DOMAIN agent = Runs /\ DOMAIN a = AgentFields
    BY DEF AgentInv, AgentKnown, AgentTyped
<1>2. ASSUME kind = "lost", ~a.retried PROVE FALSE
  <2>1. Move(r, [a EXCEPT !.step = "execute", !.retried = TRUE])
    BY <1>2, Zenon DEF AfterExecute
  <2> HIDE DEF a
  <2>2. agent'[r] = [a EXCEPT !.step = "execute", !.retried = TRUE]
    BY <1>1, <2>1, MoveDoes
  <2> QED
    BY <1>1, <2>2 DEF AgentFields
<1>3. kind # "lost" => FALSE
    BY AfterExecuteDoes DEF AttemptEnds, StaleGoesOn
<1> QED
    BY <1>2, <1>3

LEMMA TicketCrash ==
    ASSUME AgentInv, NEW r \in Runs, AfterTicket(r), agent'[r].step = "crashed"
    PROVE  answer[r].kind \in {"lost", "raised"}
<1> SUFFICES ASSUME answer[r].kind \notin {"lost", "raised"} PROVE FALSE
    OBVIOUS
<1> DEFINE a == agent[r]
<1>1. DOMAIN agent = Runs /\ DOMAIN a = AgentFields /\ a.left \in 0..MaxProposals
    BY DEF AgentInv, AgentKnown, AgentTyped
<1>2. Move(r, Ended(a, "escalated", a.reason))
    BY DEF AfterTicket, Escalated
<1>3. AttemptEnds(a, agent'[r], "escalated")
    BY <1>1, <1>2, MoveDoes, EndedEnds
<1> QED
    BY <1>3 DEF AttemptEnds

LEMMA ReplayCrash ==
    ASSUME AgentInv, NEW r \in Runs, agent'[r].step = "crashed", AfterReplay(r) \/ Verify(r)
    PROVE  AfterReplay(r) /\ answer[r].kind \in {"lost", "raised"}
<1>1. ~Verify(r)
    BY VerifyDoes
<1>2. ASSUME answer[r].kind \notin {"lost", "raised"} PROVE FALSE
  <2>1. Goto(r, "verify")
    BY <1>1, <1>2 DEF AfterReplay
  <2> QED
    BY <2>1, GotoMoves
<1> QED
    BY <1>1, <1>2

(* A step of the run itself.                                               *)
LEMMA FateByLocal ==
    ASSUME Base, CallInv, [RunnerNext]_runnerVars, NEW r \in Runs, Fate(r),
           \/ Propose(r) \/ ReadRecord(r) \/ Decide(r) \/ AfterExecute(r)
           \/ AfterTicket(r) \/ AfterReplay(r) \/ Verify(r)
    PROVE  Fate(r)'
<1> DEFINE a == agent[r]
           b == agent'[r]
<1>1. AgentInv /\ TypeOK /\ AgentKnown(r) /\ AnswerSound(r)
    BY DEF Base, Kept, AgentInv, CallInv
<1>2. /\ permits' = permits /\ DOMAIN orders' = DOMAIN orders
      /\ phase' = phase /\ answer' = answer /\ sequence' = sequence /\ call' = call
  <2>1. UNCHANGED vars
    BY <1>1, ProposeDoes, ReadDoes, DecideDoes, AfterExecuteDoes, AfterTicketDoes,
       AfterReplayDoes, VerifyDoes
  <2> QED
    BY <2>1 DEF vars, storeVars, executorVars, resourceVars
<1>3. LastOver(r) /\ b.last = a.last => LastOver(r)'
    BY LastOverStays
<1>4. a.outcome = "escalated" => a.step \in Done \cup {"crashed"}
    BY DEF Fate, TicketSettled
(* To a step before the next permit.                                       *)
<1>5. ASSUME b.step \in Before, b.last = a.last, LastOver(r), b.outcome # "escalated"
      PROVE  Fate(r)'
    BY <1>3, <1>5
    DEF Fate, Spendable, Repeats, TicketTold, TicketSettled, CrashTold, Before, Reading,
        Spending, Done, After
(* To the end of the attempts, for want of more or with an outcome.        *)
<1>6. ASSUME NEW outcome, outcome # "escalated", AttemptEnds(a, b, outcome), LastOver(r)
      PROVE  Fate(r)'
  <2>1. b.outcome = outcome /\ b.last = a.last /\ b.step \in {"propose", "replay", "verify"}
    BY <1>6 DEF AttemptEnds, SameScript
  <2> QED
    BY <1>3, <1>6, <2>1
    DEF Fate, Spendable, Repeats, TicketTold, TicketSettled, CrashTold, Spending
<1>7. CASE Propose(r)
  <2>1. a.step = "propose"
    BY <1>1, <1>7, ProposeDoes
  <2>2. LastOver(r) /\ a.outcome # "escalated"
    BY <1>4, <2>1 DEF Fate, Spendable, Spending, Done, After
  <2>3. CASE AttemptEnds(a, b, "denied")
    BY <1>6, <2>2, <2>3
  <2>4. CASE SameScript(a, b) /\ b.step = "order" /\ b.outcome = a.outcome
    BY <1>5, <2>2, <2>4 DEF SameScript, Before, Reading
  <2> QED
    BY <1>1, <1>7, <2>3, <2>4, ProposeDoes
<1>8. CASE ReadRecord(r)
  <2>1. a.step \in ReadSteps /\ SameAttempt(a, b) /\ b.step \in Reading
    BY <1>1, <1>8, ReadDoes
  <2>2. LastOver(r) /\ a.outcome # "escalated"
    BY <1>4, <2>1 DEF Fate, Spendable, Spending, Done, After, ReadSteps
  <2> QED
    BY <1>5, <2>1, <2>2 DEF SameAttempt, SameScript, Before
<1>9. CASE Decide(r)
  <2>1. a.step = "decide"
    BY <1>1, <1>9, DecideDoes
  <2>2. LastOver(r) /\ a.outcome # "escalated"
    BY <1>4, <2>1 DEF Fate, Spendable, Spending, Done, After
  <2>3. CASE AttemptEnds(a, b, "denied")
    BY <1>6, <2>2, <2>3
  <2>4. CASE b.step \in {"escalate", "issue"} /\ SameAttempt(a, b)
    BY <1>5, <2>2, <2>4 DEF SameAttempt, SameScript, Before
  <2> QED
    BY <1>1, <1>9, <2>3, <2>4, DecideDoes
<1>10. CASE AfterExecute(r)
  <2>1. a.step = "executing" /\ phase[r] = "idle" /\ answer[r] # NULL
    BY <1>1, <1>10, AfterExecuteDoes
  <2>2. /\ answer[r].kind # "rejected" => permits[a.last.permit].used
        /\ answer[r].kind # "raised"
    BY <1>1, <2>1 DEF AnswerSound
  <2>3. LastOver(r) /\ a.outcome # "escalated"
    BY <1>4, <2>1, <2>2 DEF Fate, Spendable, LastOver, Done, After
  <2>4. a.retried => answer[r].kind # "lost"
    BY <2>1 DEF Fate, Repeats
  <2>5. CASE /\ answer[r].kind = "lost" /\ b.step = "execute" /\ b.retried = TRUE
             /\ b.last = a.last /\ b.outcome = a.outcome
    BY <1>2, <2>2, <2>3, <2>5
    DEF Fate, Spendable, Repeats, TicketTold, TicketSettled, CrashTold, Spending
  <2>6. CASE \E outcome \in {"completed", "denied"} : AttemptEnds(a, b, outcome)
    BY <1>6, <2>3, <2>6
  <2>7. CASE StaleGoesOn(a, b)
    <3>1. /\ b.last = a.last /\ b.outcome = a.outcome
          /\ b.step \in {"propose", "escalate", "replay", "verify"}
      BY <2>7 DEF StaleGoesOn, SameScript
    <3> QED
      BY <1>3, <2>3, <3>1
      DEF Fate, Spendable, Repeats, TicketTold, TicketSettled, CrashTold, Spending
  <2>8. ~(b.step = "crashed" /\ answer[r].kind \in {"lost", "raised"})
    BY <1>1, <1>10, <2>2, <2>4, CrashNeedsRetry
  <2> QED
    BY <1>1, <1>10, <2>5, <2>6, <2>7, <2>8, AfterExecuteDoes
<1>11. CASE AfterTicket(r)
  <2>1. a.step = "ticketing" /\ phase[r] = "idle" /\ answer[r] # NULL /\ TicketKnown(r)
    BY <1>1, <1>11, AfterTicketDoes, HasPermit DEF Ticketing
  <2>2. LastOver(r) /\ TicketTold(r)
    BY <2>1 DEF Fate, Spendable, Spending
  <2>3. b.last = a.last /\ b.proposal = a.proposal
    BY <1>1, <1>11, AfterTicketDoes DEF AttemptEnds, SameAttempt, SameScript
  <2>4. /\ TicketKnown(r)'
        /\ TicketSpent(r) => TicketSpent(r)'
        /\ TicketDead(r) => TicketDead(r)'
    BY <1>2, <2>1, <2>3, TicketStands
  <2>5. CASE b.step = "crashed" /\ SameAttempt(a, b)
    <3>1. answer[r].kind = "lost"
      BY <1>1, <1>11, <2>1, <2>5, TicketCrash DEF AnswerSound
    <3>2. a.outcome # "escalated"
      BY <1>4, <2>1 DEF Done, After
    <3> QED
      BY <1>2, <1>3, <2>1, <2>2, <2>3, <2>4, <2>5, <3>1, <3>2
      DEF Fate, Spendable, Repeats, TicketTold, TicketSettled, CrashTold, Spending,
          SameAttempt
  <2>6. CASE AttemptEnds(a, b, "escalated")
    <3>1. b.outcome = "escalated" /\ b.step \in {"replay", "verify"}
      BY <2>6 DEF AttemptEnds
    <3> QED
      BY <1>3, <2>1, <2>2, <2>3, <2>4, <3>1
      DEF Fate, Spendable, Repeats, TicketTold, TicketSettled, CrashTold, Spending, Done, After
  <2> QED
    BY <1>1, <1>11, <2>5, <2>6, AfterTicketDoes
<1>12. CASE AfterReplay(r) \/ Verify(r)
  <2>1. /\ SameAttempt(a, b)
        /\ \/ a.step = "replaying" /\ b.step \in {"crashed", "verify"}
              /\ phase[r] = "idle" /\ answer[r] # NULL
           \/ a.step = "verify" /\ b.step = "finished"
    BY <1>1, <1>12, AfterReplayDoes, VerifyDoes
  <2>2. b.last = a.last /\ b.outcome = a.outcome /\ b.proposal = a.proposal
    BY <2>1 DEF SameAttempt, SameScript
  <2>3. b.step # "crashed"
    <3>1. a.step = "replaying" => answer[r].kind \notin {"lost", "raised"}
      BY <1>1, <2>1 DEF Fate, Repeats, AnswerSound
    <3> QED
      BY <1>1, <1>12, <2>1, <3>1, ReplayCrash
  <2>4. LastOver(r)'
    BY <1>3, <2>1, <2>2 DEF Fate, Spendable, Spending
  <2>5. TicketSettled(r)'
    <3>1. TicketKnown(r) => /\ TicketKnown(r)'
                            /\ TicketSpent(r) => TicketSpent(r)'
                            /\ TicketDead(r) => TicketDead(r)'
      BY <1>2, <2>2, TicketStands
    <3> QED
      BY <1>2, <2>1, <2>2, <2>3, <3>1 DEF Fate, TicketSettled, Done, After
  <2> QED
    BY <2>1, <2>3, <2>4, <2>5
    DEF Fate, Spendable, Repeats, TicketTold, CrashTold, Spending
<1> QED
    BY <1>7, <1>8, <1>9, <1>10, <1>11, <1>12

(* A call that ends has its answer.                                        *)
LEMMA CallIsAnswered ==
    ASSUME Base, NEW r \in Runs, CallSound(r), CallStep(r), phase'[r] = "idle"
    PROVE  Answers(r) /\ answer'[r].permit = call[r].permit
<1>1. TypeOK
    BY DEF Base, Kept
<1>2. ASSUME NEW kind, NEW reason, NEW result, CallEnds(r, kind, reason, result)
      PROVE  answer'[r].permit = call[r].permit
    BY <1>2 DEF CallEnds, Answer
<1>3. CASE Resolve(r)
    BY <1>1, <1>2, <1>3, ResolveAnswers, ResolveDoes
<1>4. CASE Lookup(r)
    BY <1>1, <1>2, <1>4, LookupAnswersSound, LookupDoes
<1>5. CASE CommitStale(r) \/ Respond(r)
    BY <1>1, <1>2, <1>5, EndAnswers, EndDoes
<1> QED
    BY <1>3, <1>4, <1>5, CommitAnswers, NoKeyIsTaken DEF CallStep

(* A spent permit has its record, and a call finds it.                     *)
LEMMA SpentIsStored ==
    ASSUME Base, NEW r \in Runs, phase[r] # "idle", permits[call[r].permit].used
    PROVE  call[r].row.key \in DOMAIN records
<1>1. call[r].permit \in DOMAIN permits /\ call[r].row.key = permits[call[r].permit].key
    BY CallIs
<1>2. /\ \A p \in DOMAIN permits : permits[p].used =>
            \E i \in DOMAIN mutation_log : mutation_log[i].by = p
      /\ \A i \in DOMAIN mutation_log : permits[mutation_log[i].by].key \in DOMAIN records
    BY DEF Base, Kept, LedgerInv, LedgerAgrees
<1>3. PICK i \in DOMAIN mutation_log : mutation_log[i].by = call[r].permit
    BY <1>1, <1>2
<1> QED
    BY <1>1, <1>2, <1>3

LEMMA RepeatsByCall ==
    ASSUME Base, CallInv, [RunnerNext]_runnerVars, NEW r \in Runs, CallDates(r), Fate(r),
           CallStep(r), UNCHANGED agent
    PROVE  Repeats(r)'
<1> DEFINE p == call[r].permit
           proposal == call[r].proposal
<1>1. /\ TypeOK /\ PermitsStay /\ CallOwned(r) /\ phase[r] # "idle"
      /\ p \in DOMAIN permits
    BY CallGoesOn, CallIs, AgentInvNext DEF Base, Kept, AgentInv, AgentKnown
<1> SUFFICES ASSUME \/ agent[r].step = "replaying"
                    \/ agent[r].step = "executing" /\ agent[r].retried
             PROVE  /\ phase'[r] \in {"idle", "resolve", "lookup"}
                    /\ phase'[r] = "lookup" =>
                          \/ permits'[agent[r].last.permit].used
                          \/ FirstFailedCheck(call'[r].row, call'[r].proposal,
                                              call'[r].target) # NULL
                    /\ phase'[r] = "idle" /\ answer'[r] # NULL => answer'[r].kind # "lost"
    BY DEF Repeats
<1>2. p = agent[r].last.permit /\ proposal = agent[r].last.proposal
    BY <1>1 DEF CallOwned
<1>3. permits[p].used \/ Dead(p, proposal)
  <2>1. agent[r].step = "replaying" => agent[r].last # NULL
    BY DEF Base, AgentInv, AgentKnown, AgentTyped
  <2> QED
    BY <1>2, <2>1 DEF Fate, Spendable, LastOver, Spending
<1>4. phase[r] \in {"resolve", "lookup"}
    BY <1>1 DEF Fate, Repeats
<1>5. ASSUME NEW kind, NEW reason, NEW result, CallEnds(r, kind, reason, result)
      PROVE  phase'[r] = "idle" /\ answer'[r].kind = kind
    BY <1>5 DEF CallEnds, Answer
<1>6. CASE Resolve(r)
  <2>1. \/ phase'[r] = "idle" /\ answer'[r].kind = "rejected"
        \/ phase'[r] = "lookup"
    BY <1>1, <1>5, <1>6, ResolveDoes
  <2>2. permits[p].used => permits'[p].used
    BY <1>1 DEF PermitsStay
  <2> QED
    BY <1>2, <1>3, <1>6, <2>1, <2>2, DeadIsRejected
<1>7. CASE Lookup(r)
  <2>1. phase[r] = "lookup"
    BY <1>7 DEF Lookup
  <2>2. \/ call[r].row.key \in DOMAIN records
        \/ FirstFailedCheck(call[r].row, proposal, call[r].target) # NULL
    BY <1>1, <1>2, <2>1, SpentIsStored DEF Fate, Repeats
  <2>3. phase'[r] = "idle" /\ answer'[r].kind \in {"replayed", "rejected"}
    BY <1>1, <1>5, <1>7, <2>2, LookupDoes
  <2> QED
    BY <2>3
<1> QED
    BY <1>4, <1>6, <1>7 DEF CallStep, Commit, CommitStale, CommitConflict, Respond

LEMMA FateByCall ==
    ASSUME ~SilentEdits, Base, CallInv, [RunnerNext]_runnerVars, NEW r \in Runs,
           CallDates(r), Fate(r), CallStep(r), UNCHANGED agent
    PROVE  Fate(r)'
<1> DEFINE a == agent[r]
           p == call[r].permit
           proposal == call[r].proposal
<1>1. /\ TypeOK /\ PermitsStay /\ CallOwned(r) /\ AgentKnown(r) /\ CallSound(r)
      /\ phase[r] # "idle" /\ sequence' = sequence
    BY CallGoesOn, AgentInvNext DEF Base, Kept, AgentInv, AgentKnown, CallInv
<1>2. LastOver(r) => LastOver(r)'
    BY LastOverStays
<1>3. TicketKnown(r) => /\ TicketKnown(r)'
                        /\ TicketSpent(r) => TicketSpent(r)'
                        /\ TicketDead(r) => TicketDead(r)'
    BY <1>1, TicketStands
<1>4. DOMAIN orders' = DOMAIN orders
  <2>1. [ClientNext]_vars
    BY RunnerIsClient DEF Base, Kept
  <2> QED
    BY <1>1, <2>1, RowsMoveOn DEF VersionsGrow
<1>5. ASSUME phase'[r] = "idle"
      PROVE  /\ answer'[r].permit = p
             /\ answer'[r].kind = "rejected" => Dead(p, proposal)
             /\ answer'[r].kind # "rejected" => permits[p].used
  <2>1. Answers(r) /\ answer'[r].permit = p
    BY <1>1, <1>5, CallIsAnswered
  <2>2. answer'[r].kind = "rejected" => Dead(p, proposal)
    BY <1>1, <1>5, RejectedIsDead
  <2> QED
    BY <2>1, <2>2 DEF Answers
<1>6. Spendable(r)'
  <2>1. ASSUME a.step = "executing", phase'[r] = "idle", answer'[r].kind = "rejected"
        PROVE  LastOver(r)'
    <3>1. LastOver(r)
      BY <1>1, <1>5, <2>1 DEF LastOver, CallOwned
    <3> QED
      BY <1>2, <3>1
  <2>2. ASSUME a.step \in Spending, a.retried PROVE permits'[a.last.permit].used
    BY <1>1, <2>2 DEF Fate, Spendable, AgentKnown, LastKnown, PermitsStay
  <2> QED
    BY <1>2, <2>1, <2>2 DEF Fate, Spendable
<1>7. Repeats(r)'
    BY RepeatsByCall
<1>8. TicketTold(r)'
  <2> SUFFICES ASSUME a.step = "ticketing", phase'[r] = "idle", answer'[r] # NULL
               PROVE  /\ answer'[r].permit = <<r, sequence'[r]>>
                      /\ IF answer'[r].kind = "rejected" THEN TicketDead(r)'
                                                        ELSE TicketSpent(r)'
    BY DEF TicketTold
  <2>1. /\ p = <<r, sequence[r]>>
        /\ proposal = TicketProposal(a.proposal.order)
        /\ TicketKnown(r)
    BY <1>1 DEF CallOwned, AgentKnown, Ticketing
  <2>2. /\ answer'[r].kind = "rejected" => TicketDead(r)
        /\ answer'[r].kind # "rejected" => TicketSpent(r)
    BY <1>5, <2>1 DEF TicketDead, TicketSpent
  <2> QED
    BY <1>1, <1>3, <1>5, <2>1, <2>2
<1>9. TicketSettled(r)'
    BY <1>3, <1>4 DEF Fate, TicketSettled
<1>10. CrashTold(r)'
    BY <1>1 DEF CrashTold, CallOwned
<1> QED
    BY <1>6, <1>7, <1>8, <1>9, <1>10 DEF Fate

LEMMA LossInvNext ==
    ASSUME ~SilentEdits, Base, CallInv, LossInv, [RunnerNext]_runnerVars
    PROVE  LossInv'
<1>1. \A q \in Runs : CallDates(q)'
    BY CallDatesNext DEF LossInv
<1>2. SUFFICES ASSUME NEW q \in Runs PROVE Fate(q)'
    BY <1>1 DEF LossInv
<1>3. CallDates(q) /\ Fate(q)
    BY DEF LossInv
<1>4. CASE RunStep(q)
    BY <1>3, <1>4, FateByLocal, FateByIssue, FateByPresent, FateByCall DEF RunStep
<1>5. ASSUME NEW r \in Runs, RunStep(r), r # q PROVE Fate(q)'
    BY <1>3, <1>5, OthersKeepStill, FateStays
<1>6. CASE (WorldStep /\ UNCHANGED <<executorVars, agent>>) \/ UNCHANGED runnerVars
  <2>1. UNCHANGED <<agent, phase, call, answer, sequence>>
    BY <1>6 DEF runnerVars, vars, executorVars
  <2> QED
    BY <1>3, <2>1, FateStays
<1> QED
    BY <1>4, <1>5, <1>6 DEF RunnerNext

LEMMA LossInvInit == RunnerInit => LossInv
<1> SUFFICES ASSUME RunnerInit, NEW r \in Runs PROVE CallDates(r) /\ Fate(r)
    BY DEF LossInv
<1>1. /\ phase[r] = "idle" /\ answer[r] = NULL
      /\ agent[r].step = "propose" /\ agent[r].last = NULL
      /\ agent[r].outcome = "denied"
    BY DEF RunnerInit, Init, ExecutorInit, Fresh
<1> QED
    BY <1>1 DEF CallDates, Fate, Spendable, LastOver, Repeats, TicketTold, TicketSettled,
                CrashTold, Spending

LEMMA LossInvHolds ==
    ASSUME ~SilentEdits
    PROVE  RunnerSpec => [](Base /\ CallInv /\ LossInv)
<1>1. RunnerInit => Base /\ CallInv /\ LossInv
    BY BaseInit, CallInvInit, LossInvInit
<1>2. Base /\ CallInv /\ LossInv /\ [RunnerNext]_runnerVars => Base' /\ CallInv' /\ LossInv'
    BY BaseNext, CallInvNext, LossInvNext
<1> QED
    BY <1>1, <1>2, PTL DEF RunnerSpec


-----------------------------------------------------------------------------
(* The promise of the boundary, with the runner as the caller.  What the   *)
(* runner asks for is a grant of PermitBoundary: its ceiling is an amount  *)
(* the script named, or none at all, and its number is within the script.  *)

(* Every proposal costs the script an entry and the issuer a number; the   *)
(* ticket of an escalation costs one more.                                 *)
Asks(r) ==
    LET a == agent[r]
    IN  /\ a.step \in Reading \cup {"issue"} =>
              /\ a.proposal \in Proposals(Actions, Amounts)
              /\ sequence[r] + a.left + 1 <= MaxProposals
        /\ a.step = "issue" => a.verdict.max \in Amounts
        /\ a.step \in {"propose", "escalate"} \cup Spending =>
              sequence[r] + a.left <= MaxProposals

AskInv == \A r \in Runs : Asks(r)

(* What is allowed may cost what was asked, or nothing.                    *)
LEMMA AllowedIsAmount ==
    ASSUME 0 \in Amounts, NEW proposal \in Proposals(Actions, Amounts), NEW s,
           Evaluate(proposal, s).decision = "allow"
    PROVE  Evaluate(proposal, s).max \in Amounts
<1>1. proposal \in Asked
    BY ExecutorAssumption, Zenon DEF Proposals, Asked
<1>2. proposal.amount # NULL => proposal.amount \in Amounts
    BY DEF Proposals
<1> QED
    BY <1>1, <1>2, AllowMeans

LEMMA AsksByLocal ==
    ASSUME Base, 0 \in Amounts, NEW r \in Runs, Asks(r),
           \/ Propose(r) \/ ReadRecord(r) \/ Decide(r) \/ AfterExecute(r)
           \/ AfterTicket(r) \/ AfterReplay(r) \/ Verify(r)
    PROVE  Asks(r)'
<1> DEFINE a == agent[r]
           b == agent'[r]
<1>1. AgentInv /\ a.left \in Nat /\ sequence[r] \in Nat /\ MaxProposals \in Nat
    BY RunnerAssumption DEF Base, Kept, AgentInv, AgentKnown, AgentTyped, TypeOK
<1>2. ASSUME UNCHANGED vars PROVE sequence' = sequence
    BY <1>2 DEF vars, executorVars
<1>3. ASSUME NEW outcome, AttemptEnds(a, b, outcome), outcome # "completed"
      PROVE  Asks(r)'
    BY <1>3 DEF AttemptEnds, Asks, Reading, Spending
<1>4. ASSUME b.step \in {"crashed", "verify", "finished"} PROVE Asks(r)'
    BY <1>4 DEF Asks, Reading, Spending
<1>5. CASE Propose(r)
  <2>1. a.step = "propose" /\ sequence' = sequence
    BY <1>1, <1>2, <1>5, ProposeDoes
  <2>2. CASE AttemptEnds(a, b, "denied")
    BY <1>3, <2>2
  <2>3. CASE /\ b.step = "order"
             /\ b.proposal \in Proposals(Actions, Amounts)
             /\ b.left \in 0..MaxProposals
             /\ b.left + 1 = a.left
    BY <1>1, <2>1, <2>3 DEF Asks, Reading, Spending
  <2> QED
    BY <1>1, <1>5, <2>2, <2>3, ProposeDoes
<1>6. CASE ReadRecord(r)
  <2>1. a.step \in Reading /\ b.step \in Reading /\ SameAttempt(a, b) /\ sequence' = sequence
    BY <1>1, <1>2, <1>6, ReadDoes DEF ReadSteps, Reading
  <2> QED
    BY <2>1 DEF Asks, SameAttempt, Reading, Spending
<1>7. CASE Decide(r)
  <2> DEFINE s == [a.snapshot EXCEPT !.now = now]
  <2>1. a.step = "decide" /\ sequence' = sequence
    BY <1>1, <1>2, <1>7, DecideDoes
  <2>2. /\ a.proposal \in Proposals(Actions, Amounts)
        /\ sequence[r] + a.left + 1 <= MaxProposals
    BY <2>1 DEF Asks, Reading
  <2>3. CASE AttemptEnds(a, b, "denied")
    BY <1>3, <2>3
  <2>4. CASE b.step = "escalate" /\ SameAttempt(a, b)
    BY <1>1, <2>1, <2>2, <2>4 DEF Asks, SameAttempt, Reading, Spending
  <2>5. CASE /\ b.step = "issue" /\ SameAttempt(a, b)
             /\ Evaluate(a.proposal, s).decision = "allow"
             /\ b.verdict = Evaluate(a.proposal, s)
    <3>1. b.verdict.max \in Amounts
      BY <2>2, <2>5, AllowedIsAmount
    <3> QED
      BY <1>1, <2>1, <2>2, <2>5, <3>1 DEF Asks, SameAttempt, Reading, Spending
  <2> QED
    BY <1>1, <1>7, <2>3, <2>4, <2>5, DecideDoes
<1>8. CASE AfterExecute(r)
  <2>1. a.step = "executing" /\ sequence' = sequence
    BY <1>1, <1>2, <1>8, AfterExecuteDoes
  <2>2. sequence[r] + a.left <= MaxProposals
    BY <2>1 DEF Asks, Spending
  <2>3. CASE b.step = "execute" /\ b.left = a.left
    BY <2>1, <2>2, <2>3 DEF Asks, Reading, Spending
  <2>4. CASE AttemptEnds(a, b, "completed")
    BY <1>1, <2>1, <2>2, <2>4 DEF AttemptEnds, Asks, Reading, Spending
  <2>5. CASE StaleGoesOn(a, b)
    BY <2>1, <2>2, <2>5 DEF StaleGoesOn, Asks, Reading, Spending
  <2> QED
    BY <1>1, <1>3, <1>4, <1>8, <2>3, <2>4, <2>5, AfterExecuteDoes
<1>9. CASE AfterTicket(r)
    BY <1>1, <1>3, <1>4, <1>9, AfterTicketDoes
<1>10. CASE AfterReplay(r) \/ Verify(r)
    BY <1>1, <1>4, <1>10, AfterReplayDoes, VerifyDoes
<1> QED
    BY <1>5, <1>6, <1>7, <1>8, <1>9, <1>10

LEMMA AsksByIssue ==
    ASSUME Base, NEW r \in Runs, Asks(r), Authorise(r) \/ BeginEscalation(r)
    PROVE  Asks(r)'
<1> DEFINE a == agent[r]
           b == agent'[r]
<1>1. /\ TypeOK /\ AgentInv /\ NumbersGrow
      /\ a.left \in Nat /\ sequence[r] \in Nat /\ MaxProposals \in Nat
    BY RunnerAssumption DEF Base, Kept, AgentInv, AgentKnown, AgentTyped, TypeOK
<1>2. CASE Authorise(r)
  <2>1. /\ a.step = "issue" /\ b.step = "execute" /\ b.left = a.left
        /\ sequence'[r] = sequence[r] + 1
    BY <1>1, <1>2, AuthoriseDoes, IssueDoes
  <2> QED
    BY <1>1, <2>1 DEF Asks, Reading, Spending
<1>3. CASE BeginEscalation(r)
  <2>1. b.step \in {"ticket", "replay", "verify"}
    BY <1>1, <1>3, EscalateDoes DEF AttemptEnds
  <2> QED
    BY <2>1 DEF Asks, Reading, Spending
<1> QED
    BY <1>2, <1>3

LEMMA AskInvNext ==
    ASSUME Base, 0 \in Amounts, AskInv, [RunnerNext]_runnerVars
    PROVE  AskInv'
<1> SUFFICES ASSUME NEW q \in Runs PROVE Asks(q)'
    BY DEF AskInv
<1>1. Asks(q) /\ TypeOK
    BY DEF AskInv, Base, Kept
<1>2. ASSUME agent'[q] = agent[q], sequence'[q] = sequence[q] PROVE Asks(q)'
    BY <1>1, <1>2 DEF Asks
<1>3. CASE RunStep(q)
  <2>1. CASE Present1(q) \/ PresentTicket(q) \/ Replay(q)
    <3>1. /\ agent'[q].left = agent[q].left
          /\ sequence' = sequence
          /\ \/ agent[q].step = "execute" /\ agent'[q].step = "executing"
             \/ agent'[q].step \in {"replaying", "ticketing"}
      BY <2>1, PresentDoes DEF SameAttempt
    <3> QED
      BY <1>1, <3>1 DEF Asks, Reading, Spending
  <2>2. CASE CallStep(q) /\ UNCHANGED agent
    BY <1>1, <1>2, <2>2, CallGoesOn
  <2> QED
    BY <1>1, <1>3, <2>1, <2>2, AsksByLocal, AsksByIssue DEF RunStep
<1>4. ASSUME NEW r \in Runs, RunStep(r), r # q PROVE Asks(q)'
    BY <1>2, <1>4, OthersKeepStill
<1>5. CASE (WorldStep /\ UNCHANGED <<executorVars, agent>>) \/ UNCHANGED runnerVars
    BY <1>2, <1>5 DEF runnerVars, vars, executorVars
<1> QED
    BY <1>3, <1>4, <1>5 DEF RunnerNext

LEMMA AskInvInit == RunnerInit => AskInv
<1> SUFFICES ASSUME RunnerInit, NEW r \in Runs PROVE Asks(r)
    BY DEF AskInv
<1>1. sequence[r] = 0
    BY DEF RunnerInit, Init, ExecutorInit
<1>2. agent[r].step = "propose" /\ agent[r].left \in 0..MaxProposals
    BY DEF RunnerInit, Fresh
<1> QED
    BY <1>1, <1>2, RunnerAssumption DEF Asks, Reading, Spending

LEMMA PromiseRun ==
    ASSUME Base, AskInv, 0 \in Amounts, MaxProposals < MaxPermits, [RunnerNext]_runnerVars
    PROVE  [Boundary!BoundaryNext]_Boundary!boundaryVars
<1>1. TypeOK /\ LedgerInv /\ RefundInv /\ AgentInv /\ PinInv
    BY DEF Base, Kept, RefundInv
<1>2. ASSUME NEW r \in Runs, ClientPresent(r) \/ CallStep(r) \/ UNCHANGED vars
      PROVE  [Boundary!BoundaryNext]_Boundary!boundaryVars
    BY <1>1, <1>2, PromiseClient
<1>3. ASSUME NEW r \in Runs, Authorise(r)
      PROVE  [Boundary!BoundaryNext]_Boundary!boundaryVars
  <2> DEFINE a == agent[r]
  <2>1. /\ a.step = "issue"
        /\ IssuePermit(r, a.proposal.action, a.proposal.order, a.verdict.version, a.verdict.max)
    BY <1>1, <1>3, AuthoriseDoes
  <2>2. /\ a.proposal \in Proposals(Actions, Amounts)
        /\ a.verdict.max \in Amounts
        /\ sequence[r] + a.left + 1 <= MaxProposals
    BY <2>1 DEF AskInv, Asks
  <2>3. a.proposal.action \in ActionName /\ a.proposal.order \in Orders
    BY <2>2, ExecutorAssumption DEF Proposals
  <2>4. sequence[r] + 1 \in 1..MaxPermits
    BY <1>1, <2>2, RunnerAssumption, ExecutorAssumption
       DEF AgentInv, AgentKnown, AgentTyped, TypeOK
  <2> QED
    BY <2>1, <2>2, <2>3, <2>4, PromisePermit
<1>4. ASSUME NEW r \in Runs, BeginEscalation(r)
      PROVE  [Boundary!BoundaryNext]_Boundary!boundaryVars
  <2> DEFINE o == agent[r].proposal.order
  <2>1. CASE IssuePermit(r, "create_support_ticket", o, orders[o].version, 0) /\ o \in DOMAIN orders
    <3>1. agent[r].step = "escalate" /\ sequence[r] + agent[r].left <= MaxProposals
      BY <1>1, <1>4, EscalateDoes DEF AskInv, Asks
    <3>2. sequence[r] + 1 \in 1..MaxPermits
      BY <1>1, <3>1, RunnerAssumption, ExecutorAssumption
         DEF AgentInv, AgentKnown, AgentTyped, TypeOK
    <3>3. o \in Orders /\ "create_support_ticket" \in ActionName
      BY <1>1, <2>1 DEF TypeOK, StoreTypeOK, IsTable, ActionName
    <3> QED
      BY <2>1, <3>2, <3>3, PromisePermit
  <2> QED
    BY <1>1, <1>2, <1>4, <2>1, EscalateDoes
<1>5. ASSUME NEW r \in Runs, RunStep(r)
      PROVE  [Boundary!BoundaryNext]_Boundary!boundaryVars
  <2>1. CASE Present1(r) \/ Replay(r) \/ PresentTicket(r)
    BY <1>1, <1>2, <2>1, PresentIsCall
  <2>2. CASE \/ Propose(r) \/ ReadRecord(r) \/ Decide(r) \/ AfterExecute(r)
             \/ AfterTicket(r) \/ AfterReplay(r) \/ Verify(r)
    BY <1>1, <1>2, <2>2, ProposeDoes, ReadDoes, DecideDoes, AfterExecuteDoes,
       AfterTicketDoes, AfterReplayDoes, VerifyDoes
  <2> QED
    BY <1>2, <1>3, <1>4, <1>5, <2>1, <2>2 DEF RunStep
<1>6. CASE (WorldStep /\ UNCHANGED <<executorVars, agent>>) \/ UNCHANGED runnerVars
    BY <1>1, <1>6, PromiseClient DEF runnerVars
<1> QED
    BY <1>5, <1>6 DEF RunnerNext

(* Runner implements PermitBoundary too: whatever a run proposes, reads,   *)
(* replans, escalates or replays, what it has done is that grants were     *)
(* made, each spent at most once and within its ceiling, and a payment was *)
(* paid back at most once.  The names and the ceilings that the boundary   *)
(* is instantiated with have to cover what a run asks for: as many permits *)
(* as its script has entries and one more for the ticket, and 0, which is  *)
(* the ceiling of a cancel and of a ticket (permits.py, runner.py:216-235  *)
(* and 277-304).                                                           *)
THEOREM RunKeepsPromise ==
    ASSUME 0 \in Amounts, MaxProposals < MaxPermits
    PROVE  RunnerSpec => KeepsPromise
<1>1. RunnerInit => Boundary!BoundaryInit
    BY PromiseInit DEF RunnerInit
<1>2. RunnerInit => Base /\ AskInv
    BY BaseInit, AskInvInit
<1>3. Base /\ AskInv /\ [RunnerNext]_runnerVars => Base' /\ AskInv'
    BY BaseNext, AskInvNext
<1>4. Base /\ AskInv /\ [RunnerNext]_runnerVars
        => [Boundary!BoundaryNext]_Boundary!boundaryVars
    BY PromiseRun
<1> QED
    BY <1>1, <1>2, <1>3, <1>4, PTL DEF RunnerSpec, KeepsPromise, Boundary!BoundarySpec
=============================================================================
