------------------------------ MODULE Scenario ------------------------------
(***************************************************************************)
(* One evaluation scenario: a run in a database of its own, disturbed by   *)
(* nothing but the clock and its FailureInjector (src/simulator/failures.  *)
(* py, src/app/tools/read_tools.py, runner.build_runner).  Where Runner    *)
(* lets any read give up, any response be lost and any row be edited at    *)
(* any time, here each happens when its counter says so.                   *)
(*                                                                         *)
(* injector[r] counts down what the code counts up.                        *)
(***************************************************************************)
EXTENDS Audit

CONSTANTS
    ReadMaxAttempts,    \* READ_MAX_ATTEMPTS
    FailureSpecs        \* the "failures" blocks a scenario may have

ReadNames == {"order", "payment", "shipment", "refund_policy"}

(* reads: calls of a read tool that fail; changes: StateChanges applied    *)
(* before the commit of an action, so often as times says; losses:         *)
(* responses lost after the commit of an action.                           *)
FailureSpec ==
    [reads : [ReadNames -> Nat], changes : [ActionName -> Nat],
     times : [ActionName -> Nat], losses : [ActionName -> Nat]]

(* Runner is left free to fail; the injector takes that freedom away.      *)
ASSUME ScenarioAssumption ==
    /\ ReadMaxAttempts \in Nat \ {0}
    /\ FailureSpecs \subseteq FailureSpec
    /\ Lossy = ActionName
    /\ Flaky = ReadNames

VARIABLE injector   \* run -> its FailureInjector, and where it stands

scenarioVars == <<auditVars, injector>>

Injector(spec) == [spec |-> spec, left |-> spec, tries |-> 0, pending |-> 0]

-----------------------------------------------------------------------------
(* ReadTools._call: up to READ_MAX_ATTEMPTS tries, each of which asks      *)
(* read_should_fail first.  The count of failed calls goes on from one     *)
(* read to the next and from one attempt to the next.                      *)

ReadFails(r, name) == injector[r].left.reads[name] > 0

(* A mutated form: the loop counts neither its tries nor the failures.     *)
CountReadFailure_Uncounted(r, name, tries) == UNCHANGED injector

CountReadFailure(r, name, tries) ==
    injector' = [injector EXCEPT ![r].left.reads[name] = @ - 1, ![r].tries = tries]

(* A mutated form: the first failure is final.                             *)
LastTry_First(r) == TRUE

LastTry(r) == injector[r].tries + 1 = ReadMaxAttempts

RetryRead(r) ==
    /\ agent[r].step \in ReadNames
    /\ ReadFails(r, agent[r].step)
    /\ ~LastTry(r)
    /\ CountReadFailure(r, agent[r].step, injector[r].tries + 1)
    /\ UNCHANGED auditVars

(* The read of this step gave up: ReadUnavailable.                         *)
GaveUp(r) == agent[r].step \in agent'[r].snapshot.read_failures

EndRead(r) ==
    /\ agent[r].step \in ReadNames
    /\ AuditStep(r)
    /\ IF ReadFails(r, agent[r].step)
         THEN /\ LastTry(r)
              /\ GaveUp(r)
              /\ CountReadFailure(r, agent[r].step, 0)
         ELSE /\ ~GaveUp(r)
              /\ injector' = [injector EXCEPT ![r].tries = 0]

-----------------------------------------------------------------------------
(* apply_pre_commit, between the checks and the transaction: one UPDATE    *)
(* after another.  A change that names no column, or a row that is not     *)
(* there, changes nothing.                                                 *)

Armed(r, action) ==
    /\ injector[r].left.changes[action] > 0
    /\ injector[r].left.times[action] > 0

Arm(r, action) ==
    injector' = [injector EXCEPT ![r].left.times[action] = @ - 1,
                                 ![r].pending = injector[r].left.changes[action]]

PassChecks(r) ==
    /\ phase[r] = "lookup"
    /\ AuditStep(r)
    /\ IF phase'[r] = "commit" /\ Armed(r, call[r].proposal.action)
         THEN Arm(r, call[r].proposal.action)
         ELSE UNCHANGED injector

ApplyChange(r) ==
    /\ injector[r].pending > 0
    /\ \/ \E o \in Orders : EditOrder(o) \/ EditPayment(o) \/ EditShipment(o)
       \/ UNCHANGED storeVars
    /\ injector' = [injector EXCEPT ![r].pending = @ - 1]
    /\ UNCHANGED <<executorVars, agent, trace>>

Write(r) ==
    /\ phase[r] = "commit"
    /\ injector[r].pending = 0
    /\ AuditStep(r)
    /\ UNCHANGED injector

-----------------------------------------------------------------------------
(* should_timeout_after_commit, asked after a fresh commit only.           *)

Deliver(r) ==
    LET action == call[r].proposal.action
        lost   == injector[r].left.losses[action] > 0
    IN  /\ phase[r] = "respond"
        /\ AuditStep(r)
        /\ answer'[r].kind = "lost" <=> lost
        /\ injector' = IF lost THEN [injector EXCEPT ![r].left.losses[action] = @ - 1]
                               ELSE injector

-----------------------------------------------------------------------------

ScenarioInit ==
    /\ AuditInit
    /\ injector \in [Runs -> {Injector(spec) : spec \in FailureSpecs}]

Undisturbed(r) ==
    /\ agent[r].step \notin ReadNames
    /\ phase[r] \in {"idle", "resolve"}
    /\ AuditStep(r)
    /\ UNCHANGED injector

ScenarioStep(r) ==
    \/ RetryRead(r)
    \/ EndRead(r)
    \/ PassChecks(r)
    \/ ApplyChange(r)
    \/ Write(r)
    \/ Deliver(r)
    \/ Undisturbed(r)

ScenarioNext ==
    \/ \E r \in Runs : ScenarioStep(r)
    \/ Tick /\ UNCHANGED <<executorVars, agent, trace, injector>>

ScenarioSpec == ScenarioInit /\ [][ScenarioNext]_scenarioVars

(* run_scenario runs to its end: straight-line code, bounded loops.        *)
FairScenarioSpec ==
    ScenarioSpec /\ \A r \in Runs : WF_scenarioVars(ScenarioStep(r))

-----------------------------------------------------------------------------
(* Properties.                                                             *)

(* Every record the last proposal needs has a row.                         *)
RowsExist(r) ==
    LET o == agent[r].proposal.order
    IN  /\ o \in DOMAIN orders
        /\ "shipment" \in RequiredRecords(agent[r].proposal.action) => o \in DOMAIN shipments

(* A read that fails fewer times than READ_MAX_ATTEMPTS does not cost the  *)
(* customer an answer: a run gives up for want of information only if a    *)
(* row is missing or some tool was to fail that often in all.  The count   *)
(* is kept across replans and chained proposals, so no sequence of short   *)
(* outages adds up (read_tools.py:1-6, failures.py:143-150).               *)
ShortOutageIsSurvived ==
    \A r \in Runs :
        agent[r].step = "finished" /\ agent[r].reason = "insufficient_information" =>
            \/ ~RowsExist(r)
            \/ \E name \in ReadNames : injector[r].spec.reads[name] >= ReadMaxAttempts

(* A run that ends with an exception was opening the ticket of an          *)
(* escalation, and the ticket is there: every other lost response is       *)
(* retried and answered from the record, however many are lost             *)
(* (runner.py:235-242 catches one timeout per permit, and a replay never   *)
(* times out, executor.py:89-96).                                          *)
CrashOnlyLosesTicket ==
    \A r \in Runs : agent[r].step = "crashed" =>
        /\ answer[r].kind = "lost"
        /\ answer[r].permit \in DOMAIN tickets
        /\ agent[r].last # NULL => answer[r].permit # agent[r].last.permit

(* An escalated run without a ticket asked about an order nobody knows, or *)
(* the order was edited after the server had read it for the ticket: no    *)
(* lost response, failed read, replan or chain costs the ticket            *)
(* (runner.py:277-278, "Escalation writes exactly one support ticket").    *)
OnlyAnEditCostsTheTicket ==
    \A r \in Runs :
        LET o == agent[r].proposal.order
        IN  /\ Finished(r)
            /\ agent[r].outcome = "escalated"
            /\ TicketsOf(r) = {}
            /\ o \in DOMAIN orders
            => /\ <<r, sequence[r]>> \in DOMAIN permits
               /\ orders[o].version > permits[<<r, sequence[r]>>].version
=============================================================================
