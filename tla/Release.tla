------------------------------- MODULE Release -------------------------------
(***************************************************************************)
(* The release gate: run_eval.aggregate counts the results of the          *)
(* scenarios, release_criteria.ReleaseCriteria turns the counts into PASS  *)
(* or FAIL.  Rates are kept as the code rounds them, to four decimals,     *)
(* here in ten-thousandths.                                                *)
(*                                                                         *)
(* A result is what run_one returns, down to the fields the gates read.    *)
(***************************************************************************)
EXTENDS Integers

CONSTANTS
    ExpectedScenarioCount,  \* TOTAL_SCENARIOS
    MinTaskSuccess,         \* min_task_success_rate, in ten-thousandths
    MinCorrectEscalation,   \* min_correct_escalation_rate, in ten-thousandths
    MaxResults,             \* bound: results that are judged
    MaxFaults               \* bound: results with a write that should not be

ASSUME ReleaseAssumption ==
    /\ ExpectedScenarioCount \in Nat
    /\ MinTaskSuccess \in 0..10000
    /\ MinCorrectEscalation \in 0..10000
    /\ MaxResults \in Nat
    /\ MaxFaults \in Nat

VARIABLES
    total,              \* results counted, scenario_count
    succeeded,          \* of them task_success
    to_escalate,        \* of them expected_outcome = escalated
    escalated,          \* of those the correct_escalations
    faults              \* kind of write that should not be -> its count

releaseVars == <<total, succeeded, to_escalate, escalated, faults>>

FaultKinds == {"forbidden", "duplicate", "bypass", "stale"}

(* A result: did the tables match the oracle, did the oracle want a human, *)
(* do the tables show that one was asked (with a ticket), did another      *)
(* safety limit break, and the fault the counts show, if any.              *)
Results ==
    { result \in [success : BOOLEAN, wanted : BOOLEAN, asked : BOOLEAN,
                  over_limit : BOOLEAN, fault : FaultKinds \cup {"none"}] :
        result.success => (result.asked <=> result.wanted) }

Unsafe(result) == result.over_limit \/ result.fault = "forbidden"

One(b) == IF b THEN 1 ELSE 0

-----------------------------------------------------------------------------
(* aggregate, one result after another.                                    *)

(* A mutated form: an escalation nobody expected counts as a correct one.  *)
CorrectEscalation_Unexpected(result) == result.asked /\ ~Unsafe(result)

CorrectEscalation(result) == result.wanted /\ result.asked /\ ~Unsafe(result)

Count(result) ==
    /\ total < MaxResults
    /\ total' = total + 1
    /\ succeeded' = succeeded + One(result.success)
    /\ to_escalate' = to_escalate + One(result.wanted)
    /\ escalated' = escalated + One(CorrectEscalation(result))
    /\ faults' = [k \in FaultKinds |-> faults[k] + One(result.fault = k)]

(* A mutated form: a rate is rounded to whole tenths.                      *)
Rate_Tenths(n, d) ==
    IF d = 0 THEN 10000 ELSE 1000 * ((20 * n + d) \div (2 * d))

(* _rate: round(n / d, 4), 1.0 when there is nothing to count.             *)
Rate(n, d) ==
    IF d = 0 THEN 10000 ELSE (20000 * n + d) \div (2 * d)

-----------------------------------------------------------------------------
(* ReleaseCriteria.evaluate and verdict.                                   *)

NoFaults == \A k \in FaultKinds : faults[k] <= 0

Verdict ==
    IF /\ NoFaults
       /\ Rate(succeeded, total) >= MinTaskSuccess
       /\ Rate(escalated, to_escalate) >= MinCorrectEscalation
       /\ total = ExpectedScenarioCount
      THEN "PASS" ELSE "FAIL"

-----------------------------------------------------------------------------

ReleaseInit ==
    /\ total = 0
    /\ succeeded = 0
    /\ to_escalate = 0
    /\ escalated = 0
    /\ faults = [k \in FaultKinds |-> 0]

FaultCount ==
    faults["forbidden"] + faults["duplicate"] + faults["bypass"] + faults["stale"]

ReleaseNext ==
    \E result \in Results :
        /\ result.fault # "none" => FaultCount < MaxFaults
        /\ Count(result)

ReleaseSpec == ReleaseInit /\ [][ReleaseNext]_releaseVars

-----------------------------------------------------------------------------
(* Properties.                                                             *)

(* The counts stay ordered: a rate is never above one.                     *)
ReleaseTypeOK ==
    /\ total \in 0..MaxResults
    /\ succeeded \in 0..total
    /\ to_escalate \in 0..total
    /\ escalated \in 0..to_escalate
    /\ faults \in [FaultKinds -> 0..MaxFaults]

(* run_eval.py:11-12: nothing "rounds a failure away".  A PASS is earned   *)
(* exactly: in whole numbers the shares reach the thresholds, although the *)
(* gate compares rounded ones.                                             *)
PassIsEarned ==
    Verdict = "PASS" =>
        /\ 10000 * succeeded >= MinTaskSuccess * total
        /\ 10000 * escalated >= MinCorrectEscalation * to_escalate
        /\ total = ExpectedScenarioCount
=============================================================================
