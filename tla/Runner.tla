------------------------------- MODULE Runner -------------------------------
(***************************************************************************)
(* One user request from proposal to report: src/app/agent/runner.py, with *)
(* the planner and the read tools it drives, on top of the policy and the  *)
(* executor.  A run is sequential; between any two of its steps the world, *)
(* the clock or another run may move.                                      *)
(*                                                                         *)
(* agent[r] holds the locals of Runner.run and Runner._attempt.            *)
(***************************************************************************)
EXTENDS Executor, Policy

CONSTANTS
    RefundPolicy,   \* the refund_policies row of every order: [limit, window]
    MaxProposals,   \* bound: length of a planner's script
    Flaky,          \* records whose read may give up (ReadUnavailable)
    AllowReplan,    \* values allow_replan_on_stale may take
    ChainProposals, \* values chain_proposals may take
    ReplayLast      \* values replay_last_permit may take

ASSUME RunnerAssumption ==
    /\ RefundPolicy \in [limit : Nat, window : Nat]
    /\ MaxProposals \in Nat
    /\ Flaky \subseteq {"order", "payment", "shipment", "refund_policy"}
    /\ AllowReplan \subseteq BOOLEAN
    /\ ChainProposals \subseteq BOOLEAN
    /\ ReplayLast \subseteq BOOLEAN

(* No record that is read is None.                                         *)
ASSUME RecordAssumption ==
    /\ NULL \notin [id : Orders, status : OrderStatus,
                     delivered : Int \cup {NULL}, version : Nat]
    /\ NULL \notin [order : Orders, status : PaymentStatus,
                     captured : Nat, version : Nat]
    /\ NULL \notin ShipmentRow
    /\ NULL # RefundPolicy

VARIABLE agent

runnerVars == <<vars, agent>>

Steps ==
    {"propose", "order", "payment", "shipment", "refund_policy", "decide",
     "issue", "execute", "executing", "escalate", "ticket", "ticketing",
     "replay", "replaying", "verify", "finished", "crashed"}

Outcome == {"completed", "denied", "escalated"}

-----------------------------------------------------------------------------
(* How the locals move on.  Each operator maps the record of one run.      *)

NoSnapshot ==
    [now |-> NULL, order |-> NULL, payment |-> NULL, shipment |-> NULL,
     refund_policy |-> NULL, read_failures |-> {}]

(* The replay a scenario asks for comes after the loops, then _verify.     *)
AfterLoops(a) ==
    IF a.replay /\ a.last # NULL THEN "replay" ELSE "verify"

(* An attempt is over; the chain loop goes on only after a success and     *)
(* while the planner has a proposal left.                                  *)
Ended(a, outcome, reason) ==
    [a EXCEPT !.outcome = outcome, !.reason = reason, !.chained = TRUE,
              !.attempt = 1, !.snapshot = NoSnapshot, !.verdict = NULL,
              !.step = IF a.chain /\ outcome = "completed" /\ a.left > 0
                         THEN "propose" ELSE AfterLoops(a)]

(* A mutated form: every stale attempt is replanned.                       *)
StaleAttempt_KeepsReplanning(a) ==
    IF ~a.replan THEN Ended(a, "denied", "stale_resource_version")
    ELSE IF a.chained THEN [a EXCEPT !.step = AfterLoops(a)]
    ELSE [a EXCEPT !.step = "propose", !.attempt = @ + 1,
                   !.snapshot = NoSnapshot, !.verdict = NULL]

(* STALE_RESOURCE_VERSION: replan once, then escalate, when replanning is  *)
(* allowed.  A follow-up in the chain loop only breaks the loop, and the   *)
(* outcome of the proposal before it stands.                               *)
StaleAttempt(a) ==
    IF ~a.replan THEN Ended(a, "denied", "stale_resource_version")
    ELSE IF a.chained THEN [a EXCEPT !.step = AfterLoops(a)]
    ELSE IF a.attempt = 1 THEN [a EXCEPT !.step = "propose", !.attempt = 2,
                                         !.snapshot = NoSnapshot, !.verdict = NULL]
    ELSE [a EXCEPT !.step = "escalate", !.reason = "stale_resource_version"]

Move(r, a) == agent' = [agent EXCEPT ![r] = a]

Goto(r, step) == Move(r, [agent[r] EXCEPT !.step = step])

-----------------------------------------------------------------------------
(* planner.propose and _validate.  The script's entries are untrusted: any *)
(* well-formed proposal or one that fails the schema gate, and None when   *)
(* the script has run out.                                                 *)

RejectedRaw(a) ==
    {"invalid_proposal"} \cup (IF a.left > 0 THEN {"unknown_action"} ELSE {})

Propose(r) ==
    LET a    == agent[r]
        left == IF a.left > 0 THEN a.left - 1 ELSE 0
    IN  /\ a.step = "propose"
        /\ \/ \E reason \in RejectedRaw(a) :
                Move(r, Ended([a EXCEPT !.left = left], "denied", reason))
           \/ /\ a.left > 0
              /\ \E proposal \in Proposals(Actions, Amounts) :
                    Move(r, [a EXCEPT !.left = left, !.proposal = proposal,
                                      !.step = "order"])
        /\ UNCHANGED vars

-----------------------------------------------------------------------------
(* _snapshot: the records the action needs, one read each, in this order.  *)
(* A read tool tries READ_MAX_ATTEMPTS times and then gives up.            *)

NextRead(action, name, order) ==
    CASE name = "order" ->
            IF "payment" \in RequiredRecords(action) THEN "payment"
            ELSE IF "shipment" \in RequiredRecords(action) THEN "shipment"
            ELSE "decide"
      [] name = "payment" ->
            IF order # NULL THEN "refund_policy" ELSE "decide"
      [] name \in {"shipment", "refund_policy"} -> "decide"

Fetch(name, o) ==
    CASE name = "order"         -> FetchOrder(o)
      [] name = "payment"       -> FetchPayment(o)
      [] name = "shipment"      -> FetchShipment(o)
      [] name = "refund_policy" -> RefundPolicy

Read(r, name) ==
    LET a        == agent[r]
        row      == Fetch(name, a.proposal.order)
        got      == [a.snapshot EXCEPT ![name] = row]
        gaveUp   == [a.snapshot EXCEPT !.read_failures = @ \cup {name}]
        then(s)  == Move(r, [a EXCEPT !.snapshot = s,
                        !.step = NextRead(a.proposal.action, name, s.order)])
    IN  /\ a.step = name
        /\ then(got) \/ (name \in Flaky /\ then(gaveUp))
        /\ UNCHANGED vars

ReadRecord(r) ==
    \E name \in {"order", "payment", "shipment", "refund_policy"} : Read(r, name)

-----------------------------------------------------------------------------
(* The clock is read last, then rules.evaluate decides.                    *)
Decide(r) ==
    LET a        == agent[r]
        snapshot == [a.snapshot EXCEPT !.now = now]
        verdict  == Evaluate(a.proposal, snapshot)
    IN  /\ a.step = "decide"
        /\ Move(r,
             CASE verdict.decision = "deny"     -> Ended(a, "denied", verdict.reason)
               [] verdict.decision = "escalate" ->
                    [a EXCEPT !.step = "escalate", !.reason = verdict.reason]
               [] verdict.decision = "allow"    ->
                    [a EXCEPT !.step = "issue", !.verdict = verdict,
                              !.snapshot = NoSnapshot])
        /\ UNCHANGED vars

-----------------------------------------------------------------------------
(* _execute_allowed: issue the permit, present it, retry once if the       *)
(* response was lost.                                                      *)

Authorise(r) ==
    LET a == agent[r]
    IN  /\ a.step = "issue"
        /\ IssuePermit(r, a.proposal.action, a.proposal.order,
                       a.verdict.version, a.verdict.max)
        /\ Move(r, [a EXCEPT !.step = "execute", !.retried = FALSE,
                             !.last = [permit |-> <<r, sequence[r] + 1>>,
                                       proposal |-> a.proposal]])
        /\ UNCHANGED <<phase, call, answer, emitted, calls>>

(* The call of execute() that a step of the runner makes.                  *)
Execute(r, step, p, proposal, waiting) ==
    /\ agent[r].step = step
    /\ Load(r, p, proposal)
    /\ Goto(r, waiting)
    /\ UNCHANGED calls

Present1(r) ==
    /\ agent[r].step = "execute"
    /\ Execute(r, "execute", agent[r].last.permit, agent[r].last.proposal, "executing")

Answered(r, step) ==
    /\ agent[r].step = step
    /\ phase[r] = "idle"
    /\ answer[r] # NULL

(* A mutated form: a lost response is not retried.                         *)
AfterExecute_NoRetry(r) ==
    /\ Answered(r, "executing")
    /\ Move(r, IF answer[r].kind \in {"lost", "raised"}
                 THEN [agent[r] EXCEPT !.step = "crashed"]
               ELSE IF answer[r].kind \in {"committed", "replayed"}
                 THEN Ended(agent[r], "completed", agent[r].verdict.reason)
               ELSE IF answer[r].reason = "stale_resource_version"
                 THEN StaleAttempt(agent[r])
               ELSE Ended(agent[r], "denied", answer[r].reason))
    /\ UNCHANGED vars

(* A mutated form: a lost response is retried with a permit of its own.    *)
AfterExecute_NewPermit(r) ==
    /\ Answered(r, "executing")
    /\ Move(r, IF answer[r].kind = "lost"
                 THEN [agent[r] EXCEPT !.step = "issue"]
               ELSE IF answer[r].kind \in {"committed", "replayed"}
                 THEN Ended(agent[r], "completed", agent[r].verdict.reason)
               ELSE Ended(agent[r], "denied", answer[r].reason))
    /\ UNCHANGED vars

(* ResponseTimeout is caught once, by the retry; anything else that leaves *)
(* execute() leaves run() too.                                             *)
AfterExecute(r) ==
    LET a == agent[r]
        kind == answer[r].kind
        reason == answer[r].reason
    IN  /\ Answered(r, "executing")
        /\ Move(r,
             IF kind = "lost" /\ ~a.retried
               THEN [a EXCEPT !.step = "execute", !.retried = TRUE]
             ELSE IF kind \in {"lost", "raised"}
               THEN [a EXCEPT !.step = "crashed"]
             ELSE IF kind \in {"committed", "replayed"}
               THEN Ended(a, "completed", a.verdict.reason)
             ELSE IF reason = "stale_resource_version"
               THEN StaleAttempt(a)
             ELSE Ended(a, "denied", reason))
        /\ UNCHANGED vars

-----------------------------------------------------------------------------
(* _escalate: the server reads the order itself, issues a ticket permit    *)
(* and spends it.  The result is not looked at, and no exception of the    *)
(* call is caught.                                                         *)

Escalated(a) == Ended(a, "escalated", a.reason)

(* A mutated form: the order is taken from the agent's own reads.          *)
BeginEscalation_AgentRead(r) ==
    LET a == agent[r]
        o == a.proposal.order
    IN  /\ a.step = "escalate"
        /\ IF a.snapshot.order # NULL
             THEN /\ IssuePermit(r, "create_support_ticket", o, a.snapshot.order.version, 0)
                  /\ Goto(r, "ticket")
                  /\ UNCHANGED <<phase, call, answer, emitted, calls>>
             ELSE Move(r, Escalated(a)) /\ UNCHANGED vars

BeginEscalation(r) ==
    LET a == agent[r]
        o == a.proposal.order
    IN  /\ a.step = "escalate"
        /\ IF o \in DOMAIN orders
             THEN /\ IssuePermit(r, "create_support_ticket", o, orders[o].version, 0)
                  /\ Goto(r, "ticket")
                  /\ UNCHANGED <<phase, call, answer, emitted, calls>>
             ELSE Move(r, Escalated(a)) /\ UNCHANGED vars

TicketProposal(o) ==
    [action |-> "create_support_ticket", order |-> o, amount |-> NULL]

PresentTicket(r) ==
    /\ agent[r].step = "ticket"
    /\ Execute(r, "ticket", <<r, sequence[r]>>,
               TicketProposal(agent[r].proposal.order), "ticketing")

AfterTicket(r) ==
    /\ Answered(r, "ticketing")
    /\ IF answer[r].kind \in {"lost", "raised"}
         THEN Goto(r, "crashed")
         ELSE Move(r, Escalated(agent[r]))
    /\ UNCHANGED vars

-----------------------------------------------------------------------------
(* _replay_last_permit: the permit of the last attempt, presented again.   *)

Replay(r) ==
    /\ agent[r].step = "replay"
    /\ Execute(r, "replay", agent[r].last.permit, agent[r].last.proposal, "replaying")

AfterReplay(r) ==
    /\ Answered(r, "replaying")
    /\ Goto(r, IF answer[r].kind \in {"lost", "raised"} THEN "crashed" ELSE "verify")
    /\ UNCHANGED vars

-----------------------------------------------------------------------------
(* _verify and _report: the report counts the run's own rows.              *)

TicketsOf(r) == { p \in DOMAIN tickets : p[1] = r }
RefundsOf(r) == { p \in DOMAIN refunds : p[1] = r }

Report(r) ==
    [outcome |-> agent[r].outcome, reason |-> agent[r].reason,
     mutation_count |-> Cardinality(MutationLogRows(r)),
     tickets |-> Cardinality(TicketsOf(r)),
     refunds |-> Cardinality(RefundsOf(r))]

Verify(r) ==
    /\ agent[r].step = "verify"
    /\ Move(r, [agent[r] EXCEPT !.step = "finished", !.report = Report(r)])
    /\ UNCHANGED vars

-----------------------------------------------------------------------------

Fresh(left, replan, chain, replay) ==
    [step |-> "propose", attempt |-> 1, chained |-> FALSE, retried |-> FALSE,
     left |-> left, replan |-> replan, chain |-> chain, replay |-> replay,
     proposal |-> NULL, snapshot |-> NoSnapshot, verdict |-> NULL, last |-> NULL,
     outcome |-> "denied", reason |-> "invalid_proposal", report |-> NULL]

RunnerInit ==
    /\ Init
    /\ agent \in [Runs -> { Fresh(left, replan, chain, replay) :
                              left \in 0..MaxProposals, replan \in AllowReplan,
                              chain \in ChainProposals, replay \in ReplayLast }]

RunStep(r) ==
    \/ Propose(r)
    \/ ReadRecord(r)
    \/ Decide(r)
    \/ Authorise(r)
    \/ Present1(r)
    \/ AfterExecute(r)
    \/ BeginEscalation(r)
    \/ PresentTicket(r)
    \/ AfterTicket(r)
    \/ Replay(r)
    \/ AfterReplay(r)
    \/ Verify(r)
    \/ CallStep(r) /\ UNCHANGED agent

RunnerNext ==
    \/ \E r \in Runs : RunStep(r)
    \/ WorldStep /\ UNCHANGED <<executorVars, agent>>

RunnerSpec == RunnerInit /\ [][RunnerNext]_runnerVars

(* A run is straight-line code with bounded loops: it keeps going.         *)
FairRunnerSpec == RunnerSpec /\ \A r \in Runs : WF_runnerVars(RunStep(r))

-----------------------------------------------------------------------------
(* Properties.                                                             *)

Finished(r) == agent[r].step = "finished"

(* A run is inside execute() exactly while it waits for an answer, and it  *)
(* makes at most two attempts at a proposal (the else branch of the        *)
(* attempt loop, runner.py:120-123, is never taken).                       *)
RunnerTypeOK ==
    /\ TypeOK
    /\ \A r \in Runs :
        LET a == agent[r]
        IN  /\ a.step \in Steps
            /\ a.attempt \in 1..2
            /\ a.outcome \in Outcome
            /\ a.left \in 0..MaxProposals
            /\ a.last # NULL => a.last.permit \in DOMAIN permits
            /\ phase[r] # "idle" => a.step \in {"executing", "ticketing", "replaying"}

(* Whatever was true of the row when the policy allowed the write is still *)
(* true of it when the write commits: a refund is within what is captured  *)
(* now and within the automatic limit, and the payment is still CAPTURED;  *)
(* a cancelled order was still cancellable (README, TOCTOU defence).       *)
PolicyHoldsAtCommit ==
    [][ mutation_log' # mutation_log =>
          LET row == mutation_log'[Len(mutation_log')]
              o   == row.resource[2]
          IN  /\ row.action = "issue_refund" =>
                    /\ payments[o].status = "CAPTURED"
                    /\ row.amount \in 1..payments[o].captured
                    /\ row.amount <= RefundLimit(RefundPolicy)
              /\ row.action = "cancel_order" =>
                    orders[o].status \in CancellableOrderStatuses ]_runnerVars

(* Of the executor's nine checks only the version and the expiry can stop  *)
(* a run: policy, permit and proposal agree on all the rest, whatever was  *)
(* edited since the reads, and no primary key is ever taken.  One request  *)
(* is an exception the code has: a cancel or a ticket that names an amount *)
(* is allowed by the policy with a ceiling of 0 and refused by check 6.    *)
OnlyStaleOrExpired ==
    \A r \in Runs : answer[r] # NULL =>
        /\ answer[r].kind # "raised"
        /\ answer[r].kind = "rejected" =>
             \/ answer[r].reason \in {"stale_resource_version", "permit_expired"}
             \/ /\ answer[r].reason = "permit_amount_exceeded"
                /\ agent[r].proposal.action # "issue_refund"
                /\ AmountOf(agent[r].proposal) > 0

(* README: a run is completed, "denied (nothing written at all) or         *)
(* escalated (exactly one support ticket, nothing else)".  Here the upper  *)
(* bounds, and one row, the last permit's, for a completed run.  A run     *)
(* that chains proposals reports only its last one (runner.py:136), so a   *)
(* denial may follow a commit there.                                       *)
OutcomeMatchesWrites ==
    \A r \in Runs : Finished(r) /\ ~agent[r].chain =>
        LET report == agent[r].report
        IN  /\ report.outcome = "denied" => report.mutation_count = 0
            /\ report.outcome = "escalated" =>
                    report.mutation_count = report.tickets /\ report.tickets <= 1
            /\ report.outcome = "completed" =>
                    /\ report.mutation_count = 1
                    /\ permits[agent[r].last.permit].used

(* An escalated run left its ticket, when there is an order to attach it   *)
(* to (runner.py:278, DESIGN.md sections 3b and 3c).                       *)
EscalationLeavesTicket ==
    \A r \in Runs :
        /\ Finished(r)
        /\ agent[r].outcome = "escalated"
        /\ agent[r].proposal.order \in DOMAIN orders
        => TicketsOf(r) # {}

(* A cancel does not land once the shipment has gone out (README, TOCTOU   *)
(* defence, demo c).                                                       *)
ShippedIsNotCancelled ==
    [][ \A o \in DOMAIN orders \cap DOMAIN shipments :
          orders'[o].status = "CANCELLED" /\ mutation_log' # mutation_log
            /\ orders[o].status # "CANCELLED"
          => shipments[o].status \notin ShippedOrLater ]_runnerVars

(* A run ends in one of three outcomes: nothing leaves run() but a report  *)
(* (README: "The run itself ends in exactly one of three outcomes").       *)
RunsReport == \A r \in Runs : agent[r].step # "crashed"

(* Every run comes to an end, whatever is edited, lost or timed out:       *)
(* retries, replans and the chain are bounded.                             *)
RunsEnd == \A r \in Runs : <>(agent[r].step \in {"finished", "crashed"})
=============================================================================
