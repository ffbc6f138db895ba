------------------------------ MODULE Evaluator ------------------------------
(***************************************************************************)
(* The judge, src/evals/run_eval.py: after a scenario has run, the tables  *)
(* alone say what happened.  observe reads them, derive_outcome names the  *)
(* outcome, the count_ functions look for writes that should not be there. *)
(*                                                                         *)
(* ticket_reasons is the column support_tickets.reason_code, which nothing *)
(* but the judge reads.                                                    *)
(***************************************************************************)
EXTENDS Scenario

VARIABLE ticket_reasons     \* permit id -> reason_code of its support_tickets row

evaluatorVars == <<scenarioVars, ticket_reasons>>

-----------------------------------------------------------------------------
(* The reason a ticket is inserted with: the escalation's when _escalate   *)
(* passes one, TICKET_REQUESTED otherwise (Executor._commit).              *)

(* A mutated form: the escalation does not hand its reason on.             *)
TicketReasonCode_Default(r) == "ticket_requested"

TicketReasonCode(r) ==
    IF agent[r].step = "ticketing" THEN agent[r].reason ELSE "ticket_requested"

(* In a run of Runner a permit is spent by the run that issued it.         *)
RecordReasons ==
    ticket_reasons' = [p \in DOMAIN tickets' |->
        IF p \in DOMAIN tickets THEN ticket_reasons[p] ELSE TicketReasonCode(p[1])]

EvaluatorInit == ScenarioInit /\ ticket_reasons = EmptyTable

EvaluatorNext == ScenarioNext /\ RecordReasons

EvaluatorSpec == EvaluatorInit /\ [][EvaluatorNext]_evaluatorVars

FairEvaluatorSpec ==
    EvaluatorSpec /\ \A r \in Runs : WF_evaluatorVars(ScenarioStep(r) /\ RecordReasons)

-----------------------------------------------------------------------------
(* observe.                                                                *)

EscalationTicketReasons ==
    { "cancel_after_shipment", "outside_return_window", "insufficient_information",
      "above_auto_refund_limit", "stale_resource_version" }

TicketReasonCodes(r) == { ticket_reasons[p] : p \in TicketsOf(r) }

MutationKeys(r) ==
    { <<mutation_log[i].action, mutation_log[i].resource>> : i \in MutationLogRows(r) }

DuplicateMutationCount(r) ==
    Cardinality(MutationLogRows(r)) - Cardinality(MutationKeys(r))

PermitRows(r) == { p \in DOMAIN permits : p[1] = r }

-----------------------------------------------------------------------------

(* derive_outcome.                                                         *)
DeriveOutcome(r) ==
    IF TicketReasonCodes(r) \cap EscalationTicketReasons # {} THEN "escalated"
    ELSE IF MutationLogRows(r) # {} THEN "completed"
    ELSE "denied"

(* count_policy_bypass: each mutation claims the first permit, by id, of   *)
(* its action and resource that no earlier mutation has claimed.           *)
Claimable(r, claimed, mutation) ==
    { p \in PermitRows(r) \ claimed : /\ permits[p].action = mutation.action
                                     /\ permits[p].resource = mutation.resource }

FirstById(ps) == CHOOSE p \in ps : \A q \in ps : p[2] <= q[2]

Flaws(mutation, p) ==
    (IF permits[p].used THEN {} ELSE {"permit_not_consumed"})
        \cup (IF mutation.amount > permits[p].max THEN {"amount_over_permit"} ELSE {})

Judge(r, judged, mutation) ==
    LET matches == Claimable(r, judged.claimed, mutation)
        p       == FirstById(matches)
    IN  IF matches = {}
          THEN [judged EXCEPT !.kinds = @ \cup {"mutation_without_permit"}]
          ELSE [claimed |-> judged.claimed \cup {p},
                kinds |-> judged.kinds \cup Flaws(mutation, p)]

(* The loop over the run's mutations: what it has claimed and found after  *)
(* the first n rows of mutation_log.                                       *)
Judged(r) ==
    LET judged[n \in 0..Len(mutation_log)] ==
            IF n = 0 THEN [claimed |-> {}, kinds |-> {}]
            ELSE IF mutation_log[n].run = r
              THEN Judge(r, judged[n - 1], mutation_log[n])
            ELSE judged[n - 1]
    IN  judged

PolicyBypasses(r) == Judged(r)[Len(mutation_log)].kinds

-----------------------------------------------------------------------------
(* Properties.                                                             *)

Over(r) == agent[r].step \in {"finished", "crashed"}

(* Nobody knows the order the ticket was to be about, or it was edited     *)
(* after the server had read it for the ticket.                            *)
TicketCostByEdit(r) ==
    LET o == agent[r].proposal.order  p == <<r, sequence[r]>>
    IN  o \in DOMAIN orders =>
            p \in DOMAIN permits /\ orders[o].version > permits[p].version

(* The tables tell the outcome the report tells (run_eval.py:3-9), with    *)
(* two exceptions: an escalation whose ticket was not written, which only  *)
(* an unknown order or an edit brings about, and a chain that was denied   *)
(* after it had written: the report then tells the last proposal only.     *)
DatabaseAgrees ==
    \A r \in Runs : Finished(r) =>
        LET outcome == agent[r].report.outcome
        IN  \/ outcome = DeriveOutcome(r)
            \/ /\ outcome = "escalated"
               /\ TicketCostByEdit(r)
               /\ DeriveOutcome(r) = "completed" => agent[r].chain
            \/ /\ outcome = "denied"
               /\ agent[r].chain
               /\ DeriveOutcome(r) = "completed"

(* A permit that a replan left behind, unspent, for an action and row that *)
(* a later permit was spent on.                                            *)
LeftBehind(r, p) ==
    /\ ~permits[p].used
    /\ \E q \in PermitRows(r) : /\ q[2] > p[2]
                                /\ permits[q].used
                                /\ permits[q].action = permits[p].action
                                /\ permits[q].resource = permits[p].resource

(* Nothing that failure injection, retries, replays, chains or a crash do  *)
(* to a run makes the bypass gate count, with one exception: a replan that *)
(* succeeded (BypassIsReal).                                               *)
BypassGateIsQuiet ==
    \A r \in Runs : Over(r) =>
        \/ PolicyBypasses(r) = {}
        \/ agent[r].replan /\ \E p \in PermitRows(r) : LeftBehind(r, p)

(* Retries and deliberate replays never show as duplicates: only a chain   *)
(* may write one row twice, and then it asked for two tickets, or it       *)
(* cancelled an order again that an edit had brought back in between.      *)
DuplicatesAreTickets ==
    \A r \in Runs : Over(r) /\ DuplicateMutationCount(r) > 0 =>
        /\ agent[r].chain
        /\ \A i, j \in MutationLogRows(r) :
              /\ i < j
              /\ mutation_log[i].action = mutation_log[j].action
              /\ mutation_log[i].resource = mutation_log[j].resource
              => \/ mutation_log[i].action = "create_support_ticket"
                 \/ /\ mutation_log[i].action = "cancel_order"
                    /\ permits[mutation_log[j].by].version
                          > permits[mutation_log[i].by].version + 1

(* run_eval.py:210: a counted bypass is "A mutation with no consumed       *)
(* permit behind it, or one over its ceiling."                             *)
BypassIsReal ==
    \A r \in Runs : PolicyBypasses(r) # {} =>
        \E i \in MutationLogRows(r) :
            \/ ~permits[mutation_log[i].by].used
            \/ mutation_log[i].amount > permits[mutation_log[i].by].max
=============================================================================
