---------------------------- MODULE ReleaseProofs ----------------------------
(***************************************************************************)
(* What the release gate guarantees for any number of scenarios and any    *)
(* results.  The one delicate point is the rounding: a share just below a  *)
(* threshold may round up to it, but not with so few scenarios.            *)
(***************************************************************************)
EXTENDS Release, TLAPS

(* The counts and how they are ordered, whatever the bounds of a run.      *)
Counts ==
    /\ total \in Nat
    /\ succeeded \in Nat
    /\ to_escalate \in Nat
    /\ escalated \in Nat
    /\ succeeded <= total
    /\ escalated <= to_escalate
    /\ to_escalate <= total
    /\ faults \in [FaultKinds -> Nat]

Bounded == total <= MaxResults /\ FaultCount <= MaxFaults

ReleaseInv == Counts /\ Bounded

LEMMA OneIsBit == \A b \in BOOLEAN : One(b) \in {0, 1}
BY DEF One

LEMMA InitCounts == ReleaseInit => ReleaseInv
BY ReleaseAssumption DEF ReleaseInit, ReleaseInv, Counts, Bounded, FaultKinds, FaultCount, ReleaseAssumption

(* One result more: each count grows by at most one, a fault count too.    *)
LEMMA StepCounts == ReleaseInv /\ [ReleaseNext]_releaseVars => ReleaseInv'
<1> SUFFICES ASSUME ReleaseInv, [ReleaseNext]_releaseVars PROVE ReleaseInv'
  OBVIOUS
<1>1. CASE UNCHANGED releaseVars
  BY <1>1 DEF ReleaseInv, Counts, Bounded, FaultCount, releaseVars
<1>2. CASE ReleaseNext
  <2>1. PICK result \in Results :
            /\ result.fault # "none" => FaultCount < MaxFaults
            /\ Count(result)
    BY <1>2 DEF ReleaseNext
  <2>2. /\ result.success \in BOOLEAN
        /\ result.wanted \in BOOLEAN
        /\ result.fault \in FaultKinds \cup {"none"}
    BY DEF Results
  <2>3. One(result.success) \in {0, 1} /\ One(result.wanted) \in {0, 1}
    BY <2>2, OneIsBit
  <2>4. /\ One(CorrectEscalation(result)) \in {0, 1}
        /\ One(CorrectEscalation(result)) <= One(result.wanted)
    BY DEF One, CorrectEscalation
  <2>5. Counts'
    <3>1. faults' \in [FaultKinds -> Nat]
      BY <2>1 DEF Count, One, ReleaseInv, Counts
    <3> QED BY <2>1, <2>3, <2>4, <3>1 DEF Count, ReleaseInv, Counts
  <2>6. total' <= MaxResults
    BY <2>1, ReleaseAssumption DEF Count, ReleaseInv, Counts, ReleaseAssumption
  <2>7. FaultCount' <= MaxFaults
    <3>1. CASE result.fault = "none"
      <4>1. faults' = faults
        BY <2>1, <3>1 DEF Count, One, FaultKinds, ReleaseInv, Counts
      <4> QED BY <4>1 DEF FaultCount, ReleaseInv, Bounded
    <3>2. CASE result.fault \in FaultKinds
      <4>1. FaultCount' = FaultCount + 1
        BY <2>1, <3>2 DEF Count, One, FaultKinds, FaultCount, ReleaseInv, Counts
      <4>2. FaultCount \in Nat
        BY DEF FaultCount, FaultKinds, ReleaseInv, Counts
      <4> QED BY <2>1, <3>2, <4>1, <4>2, ReleaseAssumption DEF FaultKinds, ReleaseAssumption
    <3> QED BY <2>2, <3>1, <3>2
  <2> QED BY <2>5, <2>6, <2>7 DEF ReleaseInv, Bounded
<1> QED BY <1>1, <1>2

LEMMA CountsHold == ReleaseSpec => []ReleaseInv
<1> QED BY InitCounts, StepCounts, PTL DEF ReleaseSpec

(* The counts stay ordered and within their bounds.                        *)
THEOREM ReleaseTypeCorrect == ReleaseSpec => []ReleaseTypeOK
<1>1. ReleaseInv => ReleaseTypeOK
  <2> SUFFICES ASSUME ReleaseInv PROVE ReleaseTypeOK
    OBVIOUS
  <2>1. ASSUME NEW k \in FaultKinds PROVE faults[k] \in 0..MaxFaults
    BY ReleaseAssumption
    DEF ReleaseInv, Counts, Bounded, FaultCount, FaultKinds, ReleaseAssumption
  <2> QED BY <2>1, ReleaseAssumption DEF ReleaseInv, Counts, Bounded, ReleaseTypeOK, ReleaseAssumption
<1> QED BY <1>1, CountsHold, PTL

-----------------------------------------------------------------------------
(* Rounding.                                                               *)

LEMMA QuotientBound ==
    ASSUME NEW a \in Nat, NEW b \in Nat \ {0}, NEW t \in Nat, a \div b >= t
    PROVE  t * b <= a
<1> DEFINE q == a \div b
<1>1. q \in Int /\ q * b <= a
  BY Z3
<1>2. t * b <= q * b
  BY <1>1, Z3
<1> QED BY <1>1, <1>2, Z3

(* A threshold of whole tenths, at most 1999 results: the rounded share    *)
(* reaches it only when the exact one does.                                *)
LEMMA RoundingIsHarmless ==
    ASSUME NEW n \in Nat, NEW d \in Nat, NEW tenths \in 0..10,
           n <= d, d < 2000, Rate(n, d) >= 1000 * tenths
    PROVE  10000 * n >= 1000 * tenths * d
<1>1. CASE d = 0
  BY <1>1, Z3
<1>2. CASE d # 0
  <2>1. (20000 * n + d) \div (2 * d) >= 1000 * tenths
    BY <1>2 DEF Rate
  <2>2. (1000 * tenths) * (2 * d) <= 20000 * n + d
    BY <1>2, <2>1, QuotientBound, 20000 * n + d \in Nat, 2 * d \in Nat \ {0}, 1000 * tenths \in Nat
  <2>3. PICK m \in Nat : m = tenths * d
    OBVIOUS
  <2>4. 2000 * m <= 20000 * n + d
    BY <2>2, <2>3, Z3
  <2>5. 10 * n >= m
    BY <2>3, <2>4, Z3
  <2> QED BY <2>3, <2>5, Z3
<1> QED BY <1>1, <1>2

(* What release_criteria.py and the suite fix: both thresholds are 0.90,   *)
(* and the suite has far fewer than two thousand scenarios.                *)
ShippedThresholds ==
    /\ MinTaskSuccess = 9000
    /\ MinCorrectEscalation = 9000
    /\ ExpectedScenarioCount < 2000

(* A PASS is earned exactly, although the gates compare rounded rates.     *)
THEOREM PassesAreEarned == ShippedThresholds => (ReleaseSpec => []PassIsEarned)
<1> SUFFICES ASSUME ShippedThresholds PROVE ReleaseSpec => []PassIsEarned
  OBVIOUS
<1>1. ReleaseInv => PassIsEarned
  <2> SUFFICES ASSUME ReleaseInv, Verdict = "PASS"
               PROVE  /\ 10000 * succeeded >= MinTaskSuccess * total
                      /\ 10000 * escalated >= MinCorrectEscalation * to_escalate
                      /\ total = ExpectedScenarioCount
    BY DEF PassIsEarned
  <2>1. /\ Rate(succeeded, total) >= 9000
        /\ Rate(escalated, to_escalate) >= 9000
        /\ total = ExpectedScenarioCount
    BY DEF Verdict, ShippedThresholds
  <2>2. total < 2000 /\ to_escalate < 2000
    BY <2>1 DEF ShippedThresholds, ReleaseInv, Counts
  <2>3. 10000 * succeeded >= 9000 * total
    BY <2>1, <2>2, RoundingIsHarmless, 9 \in 0..10, 1000 * 9 = 9000 DEF ReleaseInv, Counts
  <2>4. 10000 * escalated >= 9000 * to_escalate
    BY <2>1, <2>2, RoundingIsHarmless, 9 \in 0..10, 1000 * 9 = 9000 DEF ReleaseInv, Counts
  <2> QED BY <2>1, <2>3, <2>4 DEF ShippedThresholds
<1> QED BY <1>1, CountsHold, PTL
=============================================================================
