-------------------------------- MODULE Audit --------------------------------
(***************************************************************************)
(* The audit trace of a run, src/app/audit.py, and everything that writes  *)
(* to it: the runner's emit calls and Executor._emit.  Each step of Runner *)
(* is joined with the events the code emits during it, in their order.     *)
(*                                                                         *)
(* An event keeps its type, its resource_version, its reason and the       *)
(* permit it names.  Executor._emit reads the row again for the version it *)
(* shows, so an event may show a later version than the check used.        *)
(***************************************************************************)
EXTENDS Runner

VARIABLE trace      \* run -> Seq of events, AuditTrace.events

auditVars == <<runnerVars, trace>>

EventType ==
    { "user_request_received", "proposal_created", "proposal_validated",
      "proposal_rejected", "policy_allowed", "policy_denied", "permit_issued",
      "mutation_attempted", "mutation_committed", "mutation_replayed",
      "mutation_rejected", "state_verified", "run_finished" }

Event(type, version, reason, p) ==
    [type |-> type, version |-> version, reason |-> reason, permit |-> p]

Plain(type) == Event(type, -1, NULL, NULL)

Emit(r, events) == trace' = [trace EXCEPT ![r] = @ \o events]

-----------------------------------------------------------------------------
(* Runner._attempt, up to the decision.                                    *)

ProposalEvents(r) ==
    << Plain("proposal_created"),
       IF agent'[r].step = "order"
         THEN Plain("proposal_validated")
         ELSE Event("proposal_rejected", -1, agent'[r].reason, NULL) >>

(* A mutated form: an escalation is not traced as a decision.              *)
DecisionEvents_SkipsEscalation(r) ==
    LET verdict == Evaluate(agent[r].proposal, [agent[r].snapshot EXCEPT !.now = now])
    IN  IF verdict.decision = "allow"
          THEN << Event("policy_allowed", verdict.version, verdict.reason, NULL) >>
          ELSE << >>

(* A decision to escalate is traced as policy_allowed too.                 *)
DecisionEvents(r) ==
    LET order   == agent[r].snapshot.order
        verdict == Evaluate(agent[r].proposal, [agent[r].snapshot EXCEPT !.now = now])
    IN  IF verdict.decision = "deny"
          THEN << Event("policy_denied", IF order = NULL THEN -1 ELSE order.version,
                        verdict.reason, NULL) >>
          ELSE << Event("policy_allowed", verdict.version, verdict.reason, NULL) >>

(* permit_issued, by _execute_allowed or _escalate.                        *)
PermitEvents(r, reason) ==
    LET p == <<r, sequence'[r]>>
    IN  << Event("permit_issued", permits'[p].version, reason, p) >>

-----------------------------------------------------------------------------
(* Executor._emit.                                                         *)

(* A mutated form: the version the permit pins is shown.                   *)
VersionShown_Pinned(p, proposal) ==
    IF p \in DOMAIN permits THEN permits[p].version ELSE -1

VersionShown(p, proposal) ==
    LET target == ResolveTarget(proposal)
    IN  IF target = NULL THEN -1 ELSE target.version

(* A mutated form: a replay is announced as a fresh mutation.              *)
AnswerEvent_ReplayCommitted(kind) ==
    CASE kind \in {"committed", "lost", "replayed"} -> "mutation_committed"
      [] kind = "rejected"                          -> "mutation_rejected"

(* What execute() writes last.  A lost response is lost after its event.   *)
AnswerEvent(kind) ==
    CASE kind \in {"committed", "lost"} -> "mutation_committed"
      [] kind = "replayed"              -> "mutation_replayed"
      [] kind = "rejected"              -> "mutation_rejected"

(* Nothing is written for a call that still runs, nor for one that an      *)
(* exception of the database ends.                                         *)
AnswerEvents(r, proposal) ==
    LET a == answer'[r]
    IN  IF phase'[r] # "idle" \/ a.kind = "raised"
          THEN << >>
          ELSE << Event(AnswerEvent(a.kind), VersionShown(a.permit, proposal),
                        IF a.kind \in {"rejected", "replayed"} THEN a.reason ELSE NULL,
                        a.permit) >>

(* execute() announces the call as soon as the permit is loaded; checks 1  *)
(* and 2 may end it at once.                                               *)
CallEvents(r, p, proposal) ==
    << Event("mutation_attempted", VersionShown(p, proposal), NULL, p) >>
        \o AnswerEvents(r, proposal)

(* Runner._verify, then the end of run().                                  *)
FinalEvents(r) ==
    LET o == agent[r].proposal.order
    IN  << Event("state_verified",
                 IF agent[r].proposal # NULL /\ o \in DOMAIN orders
                   THEN orders[o].version ELSE -1, NULL, NULL),
           Event("run_finished", -1, agent[r].reason, NULL) >>

-----------------------------------------------------------------------------

AuditInit ==
    /\ RunnerInit
    /\ trace = [r \in Runs |-> << Plain("user_request_received") >>]

AuditStep(r) ==
    LET a == agent[r]
    IN  \/ Propose(r) /\ Emit(r, ProposalEvents(r))
        \/ ReadRecord(r) /\ UNCHANGED trace
        \/ Decide(r) /\ Emit(r, DecisionEvents(r))
        \/ Authorise(r) /\ Emit(r, PermitEvents(r, a.verdict.reason))
        \/ Present1(r) /\ Emit(r, CallEvents(r, a.last.permit, a.last.proposal))
        \/ AfterExecute(r) /\ UNCHANGED trace
        \/ /\ BeginEscalation(r)
           /\ Emit(r, IF agent'[r].step = "ticket" THEN PermitEvents(r, a.reason) ELSE << >>)
        \/ PresentTicket(r) /\ Emit(r, CallEvents(r, <<r, sequence[r]>>, TicketProposal(a.proposal.order)))
        \/ AfterTicket(r) /\ UNCHANGED trace
        \/ Replay(r) /\ Emit(r, CallEvents(r, a.last.permit, a.last.proposal))
        \/ AfterReplay(r) /\ UNCHANGED trace
        \/ Verify(r) /\ Emit(r, FinalEvents(r))
        \/ CallStep(r) /\ UNCHANGED agent /\ Emit(r, AnswerEvents(r, call[r].proposal))

AuditNext ==
    \/ \E r \in Runs : AuditStep(r)
    \/ WorldStep /\ UNCHANGED <<executorVars, agent, trace>>

AuditSpec == AuditInit /\ [][AuditNext]_auditVars

-----------------------------------------------------------------------------
(* Properties.                                                             *)

(* The mutation_committed events of a run, and the rows of the ledger it   *)
(* has told of: all of its own, but for the one just written by a call     *)
(* that is between COMMIT and the event.                                   *)
TracedCommits(r) == { i \in DOMAIN trace[r] : trace[r][i].type = "mutation_committed" }

RowsToTell(r) ==
    { j \in MutationLogRows(r) :
        ~(phase[r] = "respond" /\ mutation_log[j].by = call[r].permit) }

(* audit.py:7-11: the mutation_committed events of a run are its rows of   *)
(* mutation_log, the same permits in the same order and each of them once, *)
(* whatever was lost, retried, replayed or chained.  Only a run that is    *)
(* between COMMIT and the event is one short.                              *)
TraceTellsTheLedger ==
    \A r \in Runs :
        /\ { trace[r][i].permit : i \in TracedCommits(r) } =
           { mutation_log[j].by : j \in RowsToTell(r) }
        /\ \A i, k \in TracedCommits(r), j, l \in RowsToTell(r) :
              /\ trace[r][i].permit = mutation_log[j].by
              /\ trace[r][k].permit = mutation_log[l].by
              => (i < k <=> j < l)

(* Every committed mutation can be traced back: in the same attempt the    *)
(* policy let it pass, then a permit was issued that pins the version the  *)
(* policy decided on (the escalation's ticket pins the order the server    *)
(* read), then it was attempted (audit.py:3-5, "the whole run              *)
(* reconstructible without reading the code").                             *)
MutationIsExplained ==
    \A r \in Runs : \A i \in DOMAIN trace[r] :
        trace[r][i].type = "mutation_committed" =>
            \E issued \in 1..(i - 1) : \E decided \in 1..(issued - 1) :
                /\ trace[r][issued].type = "permit_issued"
                /\ trace[r][issued].permit = trace[r][i].permit
                /\ trace[r][decided].type = "policy_allowed"
                /\ permits[trace[r][i].permit].action # "create_support_ticket" =>
                        trace[r][issued].version = trace[r][decided].version
                /\ trace[r][i - 1].type = "mutation_attempted"
                /\ trace[r][i - 1].permit = trace[r][i].permit
                /\ \A k \in decided..i : trace[r][k].type \notin
                        {"proposal_created", "policy_denied", "proposal_rejected"}

(* The two lines the demo puts side by side (README:488-494): a write that *)
(* is refused as stale shows a later version than its permit pins, at      *)
(* whichever of the two places it was found stale.                         *)
StaleShowsTheMove ==
    \A r \in Runs : \A i \in DOMAIN trace[r] :
        LET e == trace[r][i]
        IN  e.type = "mutation_rejected" /\ e.reason = "stale_resource_version" =>
                e.version > permits[e.permit].version
=============================================================================
