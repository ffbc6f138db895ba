-------------------------- MODULE EvaluatorProofs --------------------------
(***************************************************************************)
(* What the judge of src/evals/run_eval.py reads in the tables of a run,   *)
(* proved for any orders, runs, prices, scripts, clocks and failures.      *)
(*                                                                         *)
(* The judge tells a mutation from its permits by action and row alone,    *)
(* and goes through both in their order.  It claims the permit each        *)
(* mutation was written under because a run writes under its latest permit *)
(* only (Latest), hence in the order of its permits (RowsInOrder).         *)
(*                                                                         *)
(* The reason of a ticket tells an escalation from a request (ReasonInv),  *)
(* so the outcome can be read in the tables; and a row is written twice    *)
(* only by a chain that asked for it twice (SpentInv, CancelInv).          *)
(***************************************************************************)
EXTENDS Evaluator, AuditProofs, WellFoundedInduction

-----------------------------------------------------------------------------
(* An evaluated scenario is a scenario.                                    *)

LEMMA EvaluationIsScenario == EvaluatorSpec => ScenarioSpec
<1>1. EvaluatorInit => ScenarioInit
    BY DEF EvaluatorInit
<1>2. [EvaluatorNext]_evaluatorVars => [ScenarioNext]_scenarioVars
    BY DEF EvaluatorNext, evaluatorVars
<1> QED
    BY <1>1, <1>2, PTL DEF EvaluatorSpec, ScenarioSpec

LEMMA EvaluationIsRun == EvaluatorSpec => AuditSpec /\ RunnerSpec
<1> QED
    BY EvaluationIsScenario, ScenarioIsRun, PTL

(* A set that holds 0 and the successor of each of its numbers holds all:  *)
(* there is no least number outside.                                       *)
LEMMA SetInduction ==
    ASSUME NEW S, 0 \in S, \A n \in Nat : n \in S => n + 1 \in S
    PROVE  Nat \subseteq S
<1> DEFINE T == Nat \ S
           R == OpToRel(<, Nat)
<1> SUFFICES ASSUME T # {} PROVE FALSE
    OBVIOUS
<1>1. IsWellFoundedOn(R, Nat)
    BY NatLessThanWellFounded, Zenon
<1>2. PICK x \in T : \A y \in T : ~(<<y, x>> \in R)
  <2>1. T \subseteq Nat
    OBVIOUS
  <2> HIDE DEF T, R
  <2> QED
    BY <1>1, <2>1, WFMin
<1>3. \A y \in Nat : y < x => <<y, x>> \in R
    BY Zenon DEF OpToRel
<1> HIDE DEF R
<1>4. x # 0 /\ x \in Nat
    OBVIOUS
<1>5. x - 1 \in Nat /\ x - 1 < x /\ (x - 1) + 1 = x
    BY <1>4
<1>6. x - 1 \notin T
    BY <1>2, <1>3, <1>5
<1> QED
    BY <1>4, <1>5, <1>6

-----------------------------------------------------------------------------
(* The permits of a run and their order.                                   *)

IsLatest(r) == agent[r].last.permit = <<r, sequence[r]>>

(* A permit is spent before the next is issued, but for one that nothing   *)
(* will be written under any more.                                         *)
Latest(r) ==
    LET a == agent[r]
    IN  /\ a.step \in Spending => IsLatest(r)
        /\ a.last # NULL /\ ~IsLatest(r) =>
              Gone(r) /\ (a.step \in {"replay", "replaying"} => CallFails(r))

(* A run that does not replan begins nothing new after a failure.          *)
AllSpent(r) ==
    ~agent[r].replan =>
        \A p \in PermitRows(r) :
            p[2] < sequence[r] \/ agent[r].step \in Before => permits[p].used

RowsInOrder(r) ==
    \A i, j \in MutationLogRows(r) :
        i < j => mutation_log[i].by[2] < mutation_log[j].by[2]

JudgeInv ==
    /\ RowsOwned
    /\ \A r \in Runs : Latest(r) /\ AllSpent(r) /\ RowsInOrder(r)

(* A step of a run that leaves the world and its permits alone.            *)
Local(r) ==
    Propose(r) \/ ReadRecord(r) \/ Decide(r) \/ AfterExecute(r)
        \/ AfterTicket(r) \/ AfterReplay(r) \/ Verify(r)

(* It begins something new only after a success, when it does not replan.  *)
LEMMA LocalDoes ==
    ASSUME AgentInv, NEW r \in Runs,
           Local(r) \/ (BeginEscalation(r) /\ UNCHANGED vars)
    PROVE  LET a == agent[r]  b == agent'[r]
           IN  /\ UNCHANGED vars
               /\ phase[r] = "idle"
               /\ b.last = a.last
               /\ b.replan = a.replan
               /\ b.step \in Spending => a.step \in Spending
               /\ ~a.replan /\ b.step \in Before =>
                     \/ a.step \in Before
                     \/ /\ a.step = "executing" /\ answer[r] # NULL
                        /\ answer[r].kind \in {"committed", "replayed"}
<1> DEFINE a == agent[r]
           b == agent'[r]
<1>0. AgentKnown(r) /\ DOMAIN agent = Runs /\ DOMAIN a = AgentFields
    BY DEF AgentInv, AgentKnown, AgentTyped
<1>1. ASSUME NEW outcome, AttemptEnds(a, b, outcome)
      PROVE  /\ b.last = a.last /\ b.replan = a.replan
             /\ b.step \notin Spending
             /\ b.step \in Before => outcome = "completed"
    BY <1>1 DEF AttemptEnds, SameScript, Spending, Before, Reading
<1>2. SameAttempt(a, b) => b.last = a.last /\ b.replan = a.replan
    BY DEF SameAttempt, SameScript
<1>3. CASE Propose(r)
  <2>1. a.step = "propose" /\ UNCHANGED vars
    BY <1>3, ProposeDoes
  <2>2. AttemptEnds(a, b, "denied") \/ (SameScript(a, b) /\ b.step = "order")
    BY <1>3, ProposeDoes
  <2>3. b.last = a.last /\ b.replan = a.replan /\ b.step \notin Spending
    BY <1>1, <2>2 DEF SameScript, Spending
  <2> QED
    BY <1>0, <2>1, <2>3, NoCallOutside DEF Before
<1>4. CASE ReadRecord(r)
  <2>1. a.step \in ReadSteps /\ UNCHANGED vars /\ SameAttempt(a, b) /\ b.step \in Reading
    BY <1>4, ReadDoes
  <2> QED
    BY <1>0, <1>2, <2>1, NoCallOutside DEF Before, Reading, ReadSteps, Spending
<1>5. CASE Decide(r)
  <2>1. a.step = "decide" /\ UNCHANGED vars
    BY <1>5, DecideDoes
  <2>2. AttemptEnds(a, b, "denied") \/ (SameAttempt(a, b) /\ b.step \in {"escalate", "issue"})
    BY <1>5, DecideDoes
  <2>3. b.last = a.last /\ b.replan = a.replan /\ b.step \notin Spending
    BY <1>1, <1>2, <2>2 DEF Spending
  <2> QED
    BY <1>0, <2>1, <2>3, NoCallOutside DEF Before, Reading
<1>6. CASE AfterExecute(r)
  <2>1. a.step = "executing" /\ phase[r] = "idle" /\ answer[r] # NULL /\ UNCHANGED vars
    BY <1>6, AfterExecuteDoes
  <2>2. \/ b = [a EXCEPT !.step = "execute", !.retried = TRUE]
        \/ b = [a EXCEPT !.step = "crashed"]
        \/ /\ answer[r].kind \in {"committed", "replayed"}
           /\ b = Ended(a, "completed", a.verdict.reason)
        \/ b = StaleAttempt(a)
        \/ b = Ended(a, "denied", answer[r].reason)
    <3>1. \A c : Move(r, c) => b = c
      BY <1>0, MoveDoes
    <3> QED
      BY <1>6, <3>1, Zenon DEF AfterExecute
  <2>3. ASSUME NEW outcome, NEW reason, b = Ended(a, outcome, reason)
        PROVE  AttemptEnds(a, b, outcome)
    BY <1>0, <2>3, EndedEnds DEF AgentKnown, AgentTyped
  <2>4. CASE b = StaleAttempt(a)
    <3>1. ~a.replan => b = Ended(a, "denied", "stale_resource_version")
      BY <2>4 DEF StaleAttempt
    <3>2. b = Ended(a, "denied", "stale_resource_version") \/ SameScript(a, b)
      BY <1>0, <2>4, StaleAttemptDoes
    <3>3. b.step \notin Spending
      <4>1. AfterLoops(a) \notin Spending
        BY AfterLoopsIs DEF Spending
      <4>2. b = Ended(a, "denied", "stale_resource_version")
                \/ b.step \in {"propose", "escalate", AfterLoops(a)}
        BY <1>0, <2>4, StaleAttemptDoes
      <4> QED
        BY <1>1, <2>3, <4>1, <4>2 DEF Spending
    <3> QED
      BY <1>1, <2>1, <2>3, <3>1, <3>2, <3>3 DEF SameScript
  <2>5. CASE \/ b = [a EXCEPT !.step = "execute", !.retried = TRUE]
             \/ b = [a EXCEPT !.step = "crashed"]
    <3>1. b.last = a.last /\ b.replan = a.replan /\ b.step \in {"execute", "crashed"}
      BY <1>0, <2>5 DEF AgentFields
    <3> QED
      BY <2>1, <3>1 DEF Before, Reading, Spending
  <2> QED
    BY <1>1, <2>1, <2>2, <2>3, <2>4, <2>5
<1>7. CASE AfterTicket(r)
  <2>1. a.step = "ticketing" /\ phase[r] = "idle" /\ UNCHANGED vars
    BY <1>7, AfterTicketDoes
  <2>2. AttemptEnds(a, b, "escalated") \/ (SameAttempt(a, b) /\ b.step = "crashed")
    BY <1>7, AfterTicketDoes
  <2> QED
    BY <1>1, <1>2, <2>1, <2>2 DEF Before, Reading, Spending
<1>8. CASE AfterReplay(r)
  <2>1. /\ phase[r] = "idle" /\ UNCHANGED vars
        /\ SameAttempt(a, b) /\ b.step \in {"crashed", "verify"}
    BY <1>8, AfterReplayDoes
  <2> QED
    BY <1>2, <2>1 DEF Before, Reading, Spending
<1>9. CASE Verify(r)
  <2>1. a.step = "verify" /\ UNCHANGED vars /\ SameAttempt(a, b) /\ b.step = "finished"
    BY <1>9, VerifyDoes
  <2> QED
    BY <1>0, <1>2, <2>1, NoCallOutside DEF Before, Reading, Spending
<1>10. CASE BeginEscalation(r) /\ UNCHANGED vars
  <2>1. a.step = "escalate"
    BY <1>10, EscalateDoes
  <2>2. AttemptEnds(a, b, "escalated") \/ (SameAttempt(a, b) /\ b.step = "ticket")
    BY <1>10, EscalateDoes
  <2> QED
    BY <1>0, <1>1, <1>2, <1>10, <2>1, <2>2, NoCallOutside DEF Before, Reading, Spending
<1> QED
  BY <1>3, <1>4, <1>5, <1>6, <1>7, <1>8, <1>9, <1>10 DEF Local

(* A call that is known to fail still is, when the run stands still.       *)
LEMMA FailsOn ==
    ASSUME Base, PermitsStay, NEW r \in Runs, CallFails(r),
           phase'[r] = phase[r], call'[r] = call[r]
    PROVE  CallFails(r)'
<1>1. phase[r] # "idle" => call[r].permit \in DOMAIN permits
    BY CallIs
<1> QED
    BY <1>1 DEF CallFails, PermitsStay

(* What was left behind stays behind, as long as the run gets no permit.   *)
LEMMA LatestStays ==
    ASSUME Base, PermitsStay, VersionsGrow, NEW r \in Runs, Latest(r),
           sequence'[r] = sequence[r], agent'[r].last = agent[r].last,
           agent'[r].step \in Spending => agent[r].step \in Spending,
           agent'[r].step \in {"replay", "replaying"} =>
              \/ CallFails(r)'
              \/ /\ agent[r].step \in {"replay", "replaying"}
                 /\ Gone(r) /\ CallFails(r) => CallFails(r)'
    PROVE  Latest(r)'
<1>1. agent[r].last # NULL => LastKnown(r)
    BY KnowsLast
<1>2. agent[r].last # NULL /\ Gone(r) => Gone(r)'
    BY <1>1, GoneStays DEF Base, Kept
<1> QED
    BY <1>2 DEF Latest, IsLatest

LEMMA LatestMoves ==
    ASSUME Base, CallInv, StoryInv, NEW r \in Runs, Latest(r), RunStep(r)
    PROVE  Latest(r)'
<1> DEFINE a == agent[r]
<1>0. PermitsStay /\ VersionsGrow
    BY StepKeeps DEF RunnerNext
<1>1. /\ TypeOK /\ AgentInv /\ PinInv /\ NumbersGrow /\ AgentKnown(r) /\ Story(r)
      /\ CallSound(r) /\ CallDates(r)
    BY DEF Base, Kept, AgentInv, StoryInv, RunTells, CallInv
<1>2. CASE Local(r) \/ (BeginEscalation(r) /\ UNCHANGED vars)
  <2>1. /\ UNCHANGED vars /\ phase[r] = "idle" /\ agent'[r].last = a.last
        /\ agent'[r].step \in Spending => a.step \in Spending
    BY <1>1, <1>2, LocalDoes
  <2>2. CallFails(r)' /\ sequence'[r] = sequence[r]
    BY <2>1 DEF CallFails, vars, executorVars
  <2> QED
    BY <1>0, <2>1, <2>2, LatestStays
<1>3. CASE Authorise(r)
  <2>1. IssuePermit(r, a.proposal.action, a.proposal.order, a.verdict.version, a.verdict.max)
        /\ agent'[r].last = [permit |-> <<r, sequence[r] + 1>>, proposal |-> a.proposal]
    BY <1>1, <1>3, AuthoriseDoes
  <2>2. sequence'[r] = sequence[r] + 1
    BY <1>1, <2>1, IssueDoes
  <2>3. IsLatest(r)'
    BY <2>1, <2>2 DEF IsLatest
  <2> QED
    BY <2>3 DEF Latest
<1>4. CASE BeginEscalation(r) /\ ~UNCHANGED vars
  <2>1. /\ a.step = "escalate" /\ agent'[r].step = "ticket" /\ agent'[r].last = a.last
        /\ LastGone(r)
    BY <1>1, <1>4, EscalateDoes DEF SameAttempt, SameScript, Story, Before
  <2>2. a.last # NULL => LastKnown(r)
    BY KnowsLast
  <2>3. a.last # NULL => Gone(r)'
    BY <1>0, <1>1, <2>1, <2>2, GoneStays DEF LastGone
  <2> QED
    BY <2>1, <2>3 DEF Latest, Spending
<1>5. CASE Present1(r) \/ PresentTicket(r) \/ Replay(r)
  <2>1. PICK step, p, proposal, waiting :
            /\ Execute(r, step, p, proposal, waiting)
            /\ waiting = "executing" => step = "execute"
            /\ waiting \in {"executing", "ticketing", "replaying"}
    BY <1>5, Zenon DEF Present1, PresentTicket, Replay
  <2>2. /\ a.step = step /\ Load(r, p, proposal) /\ agent'[r].step = waiting
        /\ agent'[r].last = a.last
    BY <1>1, <2>1, ExecuteDoes DEF SameAttempt, SameScript
  <2>3. sequence'[r] = sequence[r] /\ phase'[r] \in {"idle", "resolve"}
    BY <1>1, <2>2 DEF Load, GoTo, TypeOK
  <2>4. CallFails(r)'
    BY <2>3 DEF CallFails
  <2>5. agent'[r].step \in Spending => a.step \in Spending
    BY <2>1, <2>2 DEF Spending
  <2> QED
    BY <1>0, <2>2, <2>3, <2>4, <2>5, LatestStays
<1>6. CASE CallStep(r) /\ UNCHANGED agent
  <2>1. phase[r] # "idle" /\ sequence'[r] = sequence[r] /\ agent'[r] = a
    BY <1>1, <1>6, CallGoesOn
  <2>2. a.step # "replay"
    BY <2>1, KnowsLast
  <2>3. CallOver(r) => CallFails(r)'
    BY DEF CallOver, CallFails
  <2>4. a.step = "replaying" /\ Gone(r) /\ CallFails(r) => CallFails(r)'
    BY <1>0, <1>1, <1>6, <2>3, CallTells, FailsStill
  <2> QED
    BY <1>0, <2>1, <2>2, <2>4, LatestStays
<1> QED
    BY <1>2, <1>3, <1>4, <1>5, <1>6 DEF RunStep, Local

(* So a run writes under its latest permit.                                *)
LEMMA WritesUnderLatest ==
    ASSUME Base, NEW r \in Runs, Latest(r), Commit(r)
    PROVE  call[r].permit = <<r, sequence[r]>>
<1>1. phase[r] = "commit" /\ CallOwned(r)
    BY DEF Commit, Base, AgentInv, AgentKnown
<1>2. CASE agent[r].step = "executing"
    BY <1>1, <1>2 DEF CallOwned, Latest, IsLatest, Spending
<1>3. CASE agent[r].step = "ticketing"
    BY <1>1, <1>3 DEF CallOwned
<1>4. CASE agent[r].step = "replaying"
  <2>1. agent[r].last # NULL
    BY <1>4 DEF Base, AgentInv, AgentKnown, AgentTyped
  <2>2. ~CallFails(r)
    BY <1>1 DEF CallFails
  <2> QED
    BY <1>1, <1>4, <2>1, <2>2 DEF CallOwned, Latest, IsLatest
<1> QED
    BY <1>1, <1>2, <1>3, <1>4 DEF CallOwned

(* No permit of the run is issued, none becomes unspent.                   *)
LEMMA AllSpentStays ==
    ASSUME PermitsStay, NEW r, AllSpent(r), PermitRows(r)' = PermitRows(r),
           PermitRows(r) \subseteq DOMAIN permits,
           sequence'[r] = sequence[r], agent'[r].replan = agent[r].replan,
           agent'[r].step \in Before => agent[r].step \in Before
    PROVE  AllSpent(r)'
    BY DEF AllSpent, PermitsStay

(* One is, by a run that had spent all the others.                         *)
LEMMA AllSpentByIssue ==
    ASSUME Base, NEW r \in Runs, AllSpent(r), agent[r].step \in Before,
           agent'[r].step \notin Before, agent'[r].replan = agent[r].replan,
           NEW action, NEW o, NEW version, NEW max, IssuePermit(r, action, o, version, max)
    PROVE  AllSpent(r)'
<1>1. TypeOK /\ NumbersGrow
    BY DEF Base, Kept, AgentInv
<1>2. /\ DOMAIN permits' = DOMAIN permits \cup {<<r, sequence[r] + 1>>}
      /\ \A q \in DOMAIN permits : permits'[q] = permits[q]
      /\ sequence'[r] = sequence[r] + 1
    BY <1>1, IssueDoes
<1>3. sequence[r] \in Nat
    BY <1>1 DEF TypeOK
<1> SUFFICES ASSUME ~agent[r].replan, NEW p \in DOMAIN permits', p[1] = r,
                    p[2] < sequence[r] + 1
             PROVE  permits'[p].used
    BY <1>2 DEF AllSpent, PermitRows
<1>4. p # <<r, sequence[r] + 1>>
    BY <1>3
<1> QED
    BY <1>2, <1>4 DEF AllSpent, PermitRows

LEMMA OwnPermitRows ==
    ASSUME Base, NEW r \in Runs, RunStep(r)
    PROVE  /\ \A q \in Runs \ {r} : PermitRows(q)' = PermitRows(q)
           /\ \/ PermitRows(r)' = PermitRows(r)
              \/ ClientIssue(r)
<1>1. TypeOK /\ LedgerInv /\ NumbersGrow
    BY DEF Base, Kept, AgentInv
<1>2. \/ ClientIssue(r) \/ ClientPresent(r) \/ CallStep(r) \/ UNCHANGED vars
    BY RunIsClient DEF Base, Kept
<1>3. CASE ClientIssue(r)
  <2>1. PICK action, o, version, max : IssuePermit(r, action, o, version, max)
    BY <1>3 DEF ClientIssue
  <2>2. DOMAIN permits' = DOMAIN permits \cup {<<r, sequence[r] + 1>>}
    BY <1>1, <2>1, IssueDoes
  <2> QED
    BY <1>3, <2>2 DEF PermitRows
<1>4. CASE ClientPresent(r) \/ CallStep(r) \/ UNCHANGED vars
  <2>1. DOMAIN permits' = DOMAIN permits
    BY <1>1, <1>4, PermitsKept DEF ClientPresent, Load, vars, storeVars
  <2> QED
    BY <2>1 DEF PermitRows
<1> QED
    BY <1>2, <1>3, <1>4

LEMMA AllSpentMoves ==
    ASSUME Base, CallInv, NEW r \in Runs, Latest(r), AllSpent(r), RunStep(r)
    PROVE  AllSpent(r)'
<1> DEFINE a == agent[r]
<1>0. PermitsStay /\ VersionsGrow /\ PermitRows(r) \subseteq DOMAIN permits
    BY StepKeeps DEF RunnerNext, PermitRows
<1>1. TypeOK /\ AgentInv /\ NumbersGrow /\ AgentKnown(r) /\ AnswerSound(r) /\ DOMAIN a = AgentFields
        /\ DOMAIN agent = Runs
    BY DEF Base, Kept, AgentInv, AgentKnown, AgentTyped, CallInv
<1>2. CASE Local(r) \/ (BeginEscalation(r) /\ UNCHANGED vars)
  <2>1. /\ UNCHANGED vars /\ phase[r] = "idle" /\ agent'[r].replan = a.replan
        /\ ~a.replan /\ agent'[r].step \in Before =>
              \/ a.step \in Before
              \/ /\ a.step = "executing" /\ answer[r] # NULL
                 /\ answer[r].kind \in {"committed", "replayed"}
    BY <1>1, <1>2, LocalDoes
  <2>2. UNCHANGED permits /\ UNCHANGED sequence
    BY <2>1 DEF vars, storeVars, executorVars
  <2>3. /\ a.step = "executing" /\ answer[r] # NULL
        /\ answer[r].kind \in {"committed", "replayed"}
        => IsLatest(r) /\ permits[a.last.permit].used
    BY <1>1, <2>1 DEF AnswerSound, Latest, Spending
  <2> SUFFICES ASSUME ~a.replan, NEW p \in PermitRows(r),
                      p[2] < sequence[r] \/ agent'[r].step \in Before
               PROVE  permits[p].used
    BY <2>1, <2>2 DEF AllSpent, PermitRows
  <2>4. CASE p[2] < sequence[r] \/ a.step \in Before
    BY <2>4 DEF AllSpent
  <2>5. CASE ~(p[2] < sequence[r]) /\ a.step \notin Before
    <3>1. p \in PermitIds /\ p[1] = r /\ p[2] <= sequence[r] /\ sequence[r] \in Nat
      BY <1>1 DEF TypeOK, StoreTypeOK, IsTable, PermitRows, NumbersGrow
    <3>2. p = <<r, sequence[r]>>
      BY <2>5, <3>1 DEF PermitIds
    <3> QED
      BY <2>1, <2>3, <2>5, <3>2 DEF IsLatest
  <2> QED
    BY <2>4, <2>5
<1>3. CASE Authorise(r)
  <2>1. /\ a.step = "issue" /\ agent'[r].step = "execute"
        /\ IssuePermit(r, a.proposal.action, a.proposal.order, a.verdict.version, a.verdict.max)
    BY <1>1, <1>3, AuthoriseDoes
  <2>2. agent'[r].replan = a.replan
    <3>1. \E last : Move(r, [a EXCEPT !.step = "execute", !.retried = FALSE, !.last = last])
      BY <1>3 DEF Authorise
    <3>2. \E last : agent'[r] = [a EXCEPT !.step = "execute", !.retried = FALSE, !.last = last]
      BY <1>1, <3>1, MoveDoes
    <3> QED
      BY <1>1, <3>2 DEF AgentFields
  <2> QED
    BY <2>1, <2>2, AllSpentByIssue DEF Before, Reading
<1>4. CASE BeginEscalation(r) /\ ~UNCHANGED vars
  <2>1. /\ a.step = "escalate" /\ agent'[r].step = "ticket" /\ agent'[r].replan = a.replan
        /\ IssuePermit(r, "create_support_ticket", a.proposal.order,
                       orders[a.proposal.order].version, 0)
    BY <1>1, <1>4, EscalateDoes DEF SameAttempt, SameScript
  <2> QED
    BY <2>1, AllSpentByIssue DEF Before, Reading
<1>5. CASE Present1(r) \/ PresentTicket(r) \/ Replay(r)
  <2>1. PICK step, p, proposal, waiting :
            /\ Execute(r, step, p, proposal, waiting)
            /\ waiting \in {"executing", "ticketing", "replaying"}
    BY <1>5, Zenon DEF Present1, PresentTicket, Replay
  <2>2. Load(r, p, proposal) /\ agent'[r].step = waiting /\ agent'[r].replan = a.replan
    BY <1>1, <2>1, ExecuteDoes DEF SameAttempt, SameScript
  <2>3. UNCHANGED permits /\ UNCHANGED sequence
    BY <2>2 DEF Load, storeVars
  <2> QED
    BY <1>0, <2>1, <2>2, <2>3, AllSpentStays DEF Before, Reading, PermitRows
<1>6. CASE CallStep(r) /\ UNCHANGED agent
  <2>1. sequence' = sequence /\ DOMAIN permits' = DOMAIN permits
    BY <1>1, <1>6, CallGoesOn, PermitsKept DEF Base, Kept
  <2> QED
    BY <1>0, <1>6, <2>1, AllSpentStays DEF PermitRows
<1> QED
    BY <1>2, <1>3, <1>4, <1>5, <1>6 DEF RunStep, Local

(* The rows of a run come in the order of its permits.                     *)
LEMMA InOrderStill ==
    ASSUME NEW r, RowsInOrder(r), MutationLogRows(r)' = MutationLogRows(r),
           \A j \in MutationLogRows(r) : mutation_log'[j] = mutation_log[j]
    PROVE  RowsInOrder(r)'
    BY DEF RowsInOrder

LEMMA InOrderByCommit ==
    ASSUME Base, NEW r \in Runs, RowsOwned, Latest(r), RowsInOrder(r), Commit(r)
    PROVE  RowsInOrder(r)'
<1> DEFINE n == Len(mutation_log) + 1
<1>0. TypeOK /\ LedgerInv /\ NumbersGrow
    BY DEF Base, Kept, AgentInv
<1>1. /\ \A j \in DOMAIN mutation_log :
            /\ j \in Nat /\ j < n
            /\ mutation_log'[j] = mutation_log[j]
            /\ mutation_log[j].by # call[r].permit
      /\ mutation_log'[n].by = call[r].permit
      /\ MutationLogRows(r)' = MutationLogRows(r) \cup {n}
    BY <1>0, CommitAddsRow
<1>2. call[r].permit = <<r, sequence[r]>> /\ sequence[r] \in Nat
    BY <1>0, WritesUnderLatest DEF TypeOK
<1>3. n \in Int
    BY <1>0 DEF TypeOK, StoreTypeOK
<1> HIDE DEF n
<1>4. \A j \in MutationLogRows(r) :
        j \in DOMAIN mutation_log /\ mutation_log[j].by[2] < sequence[r]
  <2> SUFFICES ASSUME NEW j \in MutationLogRows(r)
               PROVE  j \in DOMAIN mutation_log /\ mutation_log[j].by[2] < sequence[r]
    OBVIOUS
  <2> DEFINE p == mutation_log[j].by
  <2>1. j \in DOMAIN mutation_log /\ p[1] = r /\ p \in DOMAIN permits
    BY <1>0 DEF MutationLogRows, RowsOwned, LedgerInv, LedgerAgrees
  <2>2. p \in PermitIds /\ p[2] <= sequence[r]
    BY <1>0, <2>1 DEF TypeOK, StoreTypeOK, IsTable, NumbersGrow
  <2>3. p # <<r, sequence[r]>>
    BY <1>1, <1>2, <2>1
  <2> QED
    BY <1>2, <2>1, <2>2, <2>3 DEF PermitIds
<1>5. ASSUME NEW i \in MutationLogRows(r)', NEW j \in MutationLogRows(r)', i < j
      PROVE  mutation_log'[i].by[2] < mutation_log'[j].by[2]
  <2>1. i \in MutationLogRows(r) /\ i \in DOMAIN mutation_log
    BY <1>1, <1>3, <1>4, <1>5
  <2>2. CASE j = n
    BY <1>1, <1>2, <1>4, <2>1, <2>2
  <2>3. CASE j \in MutationLogRows(r)
    BY <1>1, <1>4, <1>5, <2>1, <2>3 DEF RowsInOrder
  <2> QED
    BY <1>1, <2>2, <2>3
<1> QED
    BY <1>5 DEF RowsInOrder

LEMMA JudgeInvNext ==
    ASSUME Base, CallInv, StoryInv, JudgeInv, [AuditNext]_auditVars
    PROVE  JudgeInv'
<1>1. [RunnerNext]_runnerVars
    BY AuditIsRun
<1>2. PermitsStay /\ VersionsGrow /\ TypeOK /\ LedgerInv
    BY <1>1, StepKeeps
<1>3. RowsOwned'
    BY <1>1, RowsOwnedNext DEF JudgeInv
<1>4. \A q \in Runs : Latest(q) /\ AllSpent(q) /\ RowsInOrder(q) /\ PermitRows(q) \subseteq DOMAIN permits
    BY DEF JudgeInv, PermitRows
<1>5. ASSUME NEW q \in Runs, agent'[q] = agent[q], phase'[q] = phase[q], call'[q] = call[q],
             sequence'[q] = sequence[q], PermitRows(q)' = PermitRows(q)
      PROVE  Latest(q)' /\ AllSpent(q)'
    BY <1>2, <1>4, <1>5, FailsOn, LatestStays, AllSpentStays
<1>6. ASSUME NEW r \in Runs, AuditStep(r) PROVE JudgeInv'
  <2>1. RunStep(r)
    BY <1>6 DEF AuditStep, RunStep
  <2>2. Latest(r)' /\ AllSpent(r)'
    BY <1>4, <2>1, LatestMoves, AllSpentMoves
  <2>3. ASSUME NEW q \in Runs \ {r} PROVE Latest(q)' /\ AllSpent(q)'
    BY <1>5, <2>1, OthersKeepStill, OwnPermitRows
  <2>4. ASSUME NEW q \in Runs PROVE RowsInOrder(q)'
    <3>1. CASE Commit(r)
      <4>1. CASE q = r
        BY <1>4, <3>1, <4>1, InOrderByCommit DEF JudgeInv
      <4>2. CASE q # r
        <5>1. /\ MutationLogRows(q)' = MutationLogRows(q)
              /\ \A j \in DOMAIN mutation_log : mutation_log'[j] = mutation_log[j]
          BY <1>2, <3>1, <4>2, CommitAddsRow
        <5> QED
          BY <1>4, <5>1, InOrderStill DEF MutationLogRows
      <4> QED
        BY <4>1, <4>2
    <3>2. CASE UNCHANGED mutation_log
      BY <1>4, <3>2, InOrderStill DEF MutationLogRows
    <3> QED
      BY <2>1, <3>1, <3>2, OnlyItsCommitWrites
  <2> QED
    BY <1>3, <2>2, <2>3, <2>4 DEF JudgeInv
<1>7. CASE (WorldStep /\ UNCHANGED <<executorVars, agent, trace>>) \/ UNCHANGED auditVars
  <2>1. UNCHANGED <<agent, phase, call, sequence, mutation_log, permits>>
    BY <1>7 DEF auditVars, runnerVars, vars, executorVars, storeVars, WorldStep, EditOrder,
                EditPayment, EditShipment, Tick, ledgerVars
  <2>2. \A q \in Runs : RowsInOrder(q)'
    BY <1>4, <2>1, InOrderStill DEF MutationLogRows
  <2>3. \A q \in Runs : Latest(q)' /\ AllSpent(q)'
    BY <1>5, <2>1 DEF PermitRows
  <2> QED
    BY <1>3, <2>2, <2>3 DEF JudgeInv
<1> QED
    BY <1>6, <1>7 DEF AuditNext

LEMMA JudgeInvInit == AuditInit => JudgeInv
<1> SUFFICES ASSUME AuditInit PROVE JudgeInv
    OBVIOUS
<1>1. DOMAIN mutation_log = {} /\ permits = EmptyTable
    BY DEF AuditInit, RunnerInit, Init, StoreInit
<1>2. DOMAIN permits = {}
    BY <1>1 DEF EmptyTable
<1>3. \A r \in Runs : agent[r].last = NULL /\ agent[r].step = "propose"
    BY DEF AuditInit, RunnerInit, Fresh
<1> QED
    BY <1>1, <1>2, <1>3 DEF JudgeInv, RowsOwned, Latest, AllSpent, RowsInOrder,
                            MutationLogRows, PermitRows, Spending

LEMMA JudgeInvHolds == AuditSpec => [](Base /\ CallInv /\ StoryInv /\ JudgeInv)
<1>1. AuditInit => RunnerInit
    BY DEF AuditInit
<1>2. [AuditNext]_auditVars => [RunnerNext]_runnerVars
    BY AuditIsRun
<1>3. AuditSpec => RunnerSpec
    BY <1>1, <1>2, PTL DEF AuditSpec, RunnerSpec
<1>4. Base /\ CallInv /\ StoryInv /\ JudgeInv /\ [AuditNext]_auditVars => JudgeInv'
    BY JudgeInvNext
<1> QED
    BY <1>3, <1>4, JudgeInvInit, StoryHolds, CallInvHolds, PTL DEF AuditSpec

-----------------------------------------------------------------------------
(* The loop of count_policy_bypass.                                        *)

(* Every permit up to the last one spent on an action and row was spent.   *)
NoneLeftBehind(r) == \A p \in PermitRows(r) : ~LeftBehind(r, p)

(* What the loop should have in hand after the first n rows.               *)
RowsUpTo(r, n) == { j \in MutationLogRows(r) : j <= n }

RightClaims(r, n) == [claimed |-> { mutation_log[j].by : j \in RowsUpTo(r, n) }, kinds |-> {}]

(* A mutation claims the permit it was written under.                      *)
LEMMA ClaimsItsPermit ==
    ASSUME Base, RowsOwned, NEW r \in Runs, RowsInOrder(r), NoneLeftBehind(r),
           NEW n \in MutationLogRows(r)
    PROVE  Judge(r, RightClaims(r, n - 1), mutation_log[n]) = RightClaims(r, n)
<1> DEFINE q == mutation_log[n].by
           claimed == RightClaims(r, n - 1).claimed
           matches == Claimable(r, claimed, mutation_log[n])
<1>0. TypeOK /\ LedgerInv
    BY DEF Base, Kept
<1>1. \A j \in MutationLogRows(r) :
        /\ j \in DOMAIN mutation_log /\ j \in Nat
        /\ mutation_log[j].by \in PermitRows(r)
        /\ permits[mutation_log[j].by].used
  <2>1. DOMAIN mutation_log \subseteq Nat
    BY <1>0 DEF TypeOK, StoreTypeOK
  <2>2. \A j \in DOMAIN mutation_log :
            /\ mutation_log[j].by \in DOMAIN permits
            /\ permits[mutation_log[j].by].used
            /\ mutation_log[j].by[1] = mutation_log[j].run
    BY <1>0 DEF RowsOwned, LedgerInv, LedgerAgrees
  <2> QED
    BY <2>1, <2>2 DEF MutationLogRows, PermitRows
<1>2. \A j \in MutationLogRows(r) : mutation_log[j].by = q => j = n
    BY <1>0, <1>1 DEF LedgerInv, LedgerAgrees
<1>3. /\ permits[q].used
      /\ mutation_log[n].action = permits[q].action
      /\ mutation_log[n].resource = permits[q].resource
      /\ mutation_log[n].amount <= permits[q].max
    BY <1>0, <1>1 DEF LedgerInv, EveryRowIsAuthorised
<1>4. claimed = { mutation_log[j].by : j \in RowsUpTo(r, n - 1) }
    BY DEF RightClaims
<1>5. q \in matches
  <2>1. q \notin claimed
    BY <1>1, <1>2, <1>4 DEF RowsUpTo
  <2> QED
    BY <1>1, <1>3, <2>1 DEF Claimable
<1>6. ASSUME NEW p \in matches PROVE q[2] <= p[2] /\ (p[2] <= q[2] => p = q)
  <2>1. /\ p \in PermitRows(r) /\ p \notin claimed
        /\ permits[p].action = permits[q].action
        /\ permits[p].resource = permits[q].resource
    BY <1>3 DEF Claimable
  <2>2. p \in PermitIds /\ q \in PermitIds /\ p[1] = r /\ q[1] = r
    BY <1>0, <1>1, <2>1 DEF PermitRows, TypeOK, StoreTypeOK, IsTable
  <2>3. ~(p[2] < q[2])
    <3> SUFFICES ASSUME p[2] < q[2] PROVE FALSE
      OBVIOUS
    <3>1. permits[p].used
      BY <1>1, <1>3, <2>1, <2>2 DEF NoneLeftBehind, LeftBehind, PermitIds
    <3>2. PICK j \in DOMAIN mutation_log : mutation_log[j].by = p
      BY <1>0, <2>1, <3>1 DEF LedgerInv, LedgerAgrees, PermitRows
    <3>3. j \in MutationLogRows(r)
      BY <2>2, <3>2 DEF RowsOwned, MutationLogRows
    <3>4. ~(j <= n - 1)
      BY <1>4, <2>1, <3>2, <3>3 DEF RowsUpTo
    <3>5. ~(n < j)
      BY <2>2, <3>2, <3>3 DEF RowsInOrder, PermitIds
    <3>6. j = n
      BY <1>1, <3>3, <3>4, <3>5
    <3> QED
      BY <2>2, <3>2, <3>6 DEF PermitIds
  <2> QED
    BY <2>2, <2>3 DEF PermitIds
<1> HIDE DEF matches, claimed
<1>7. FirstById(matches) = q
  <2>1. q \in matches /\ \A p \in matches : q[2] <= p[2]
    BY <1>5, <1>6
  <2>2. FirstById(matches) \in matches /\ \A p \in matches : FirstById(matches)[2] <= p[2]
    BY <2>1, Zenon DEF FirstById
  <2>3. PICK p : p = FirstById(matches)
    OBVIOUS
  <2>4. p \in matches /\ p[2] <= q[2]
    BY <2>1, <2>2, <2>3
  <2> QED
    BY <1>6, <2>3, <2>4
<1>8. Flaws(mutation_log[n], q) = {}
  <2>1. mutation_log[n] \in LogRow /\ permits[q] \in PermitRow
    BY <1>0, <1>1 DEF TypeOK, StoreTypeOK, IsTable, PermitRows
  <2>2. mutation_log[n].amount \in Int /\ permits[q].max \in Int
    BY <2>1 DEF LogRow, PermitRow
  <2> QED
    BY <1>3, <2>2 DEF Flaws
<1>9. Judge(r, RightClaims(r, n - 1), mutation_log[n]) = [claimed |-> claimed \cup {q}, kinds |-> {}]
  <2>1. RightClaims(r, n - 1) = [claimed |-> claimed, kinds |-> {}]
    BY DEF RightClaims, claimed
  <2>2. Claimable(r, claimed, mutation_log[n]) # {}
    BY <1>5 DEF matches
  <2> QED
    BY <1>7, <1>8, <2>1, <2>2 DEF Judge, matches
<1>10. claimed \cup {q} = { mutation_log[j].by : j \in RowsUpTo(r, n) }
  <2>1. RowsUpTo(r, n) = RowsUpTo(r, n - 1) \cup {n}
    BY <1>1 DEF RowsUpTo
  <2> QED
    BY <1>4, <2>1
<1> QED
    BY <1>9, <1>10 DEF RightClaims

(* The loop as a function of the number of rows it has been through.       *)
IsJudged(r, judged) ==
    judged = [n \in 0..Len(mutation_log) |->
                IF n = 0 THEN [claimed |-> {}, kinds |-> {}]
                ELSE IF mutation_log[n].run = r
                  THEN Judge(r, judged[n - 1], mutation_log[n])
                ELSE judged[n - 1]]

LEMMA JudgedIs == \A r : Judged(r) = CHOOSE judged : IsJudged(r, judged)
    BY DEF Judged, IsJudged

LEMMA JudgedRightly ==
    ASSUME Base, RowsOwned, NEW r \in Runs, RowsInOrder(r), NoneLeftBehind(r)
    PROVE  \A n \in 0..Len(mutation_log) : Judged(r)[n] = RightClaims(r, n)
<1> DEFINE len == Len(mutation_log)
           right == [n \in 0..len |-> RightClaims(r, n)]
           judged == Judged(r)
<1>0. len \in Nat /\ DOMAIN mutation_log = 1..len
    BY DEF Base, Kept, TypeOK, StoreTypeOK
<1>1. RightClaims(r, 0) = [claimed |-> {}, kinds |-> {}]
  <2>1. RowsUpTo(r, 0) = {}
    BY <1>0 DEF RowsUpTo, MutationLogRows
  <2> QED
    BY <2>1 DEF RightClaims
<1>2. ASSUME NEW n \in 1..len, mutation_log[n].run = r
      PROVE  Judge(r, RightClaims(r, n - 1), mutation_log[n]) = RightClaims(r, n)
    BY <1>0, <1>2, ClaimsItsPermit DEF MutationLogRows
<1>3. ASSUME NEW n \in 1..len, mutation_log[n].run # r
      PROVE  RightClaims(r, n) = RightClaims(r, n - 1)
  <2>1. RowsUpTo(r, n) = RowsUpTo(r, n - 1)
    BY <1>0, <1>3 DEF RowsUpTo, MutationLogRows
  <2> QED
    BY <2>1 DEF RightClaims
<1> HIDE DEF len
<1>4. IsJudged(r, right)
  <2>1. ASSUME NEW n \in 0..len
        PROVE  RightClaims(r, n) =
                 IF n = 0 THEN [claimed |-> {}, kinds |-> {}]
                 ELSE IF mutation_log[n].run = r
                   THEN Judge(r, right[n - 1], mutation_log[n])
                 ELSE right[n - 1]
    <3>1. n # 0 => n \in 1..len /\ n - 1 \in 0..len
      BY <1>0
    <3>2. n # 0 => right[n - 1] = RightClaims(r, n - 1)
      BY <3>1
    <3> QED
      BY <1>1, <1>2, <1>3, <3>1, <3>2
  <2> QED
    BY <2>1 DEF IsJudged, len
<1>5. IsJudged(r, judged)
  <2>1. judged = CHOOSE f : IsJudged(r, f)
    BY JudgedIs
  <2> HIDE DEF judged, right
  <2> QED
    BY <1>4, <2>1, Zenon
<1> HIDE DEF judged, right
<1>6. ASSUME NEW n \in 0..len
      PROVE  judged[n] =
                 IF n = 0 THEN [claimed |-> {}, kinds |-> {}]
                 ELSE IF mutation_log[n].run = r
                   THEN Judge(r, judged[n - 1], mutation_log[n])
                 ELSE judged[n - 1]
    BY <1>5 DEF IsJudged, len
<1> DEFINE S == { n \in Nat : n <= len => judged[n] = RightClaims(r, n) }
<1>7. 0 \in S
  <2>1. 0 \in 0..len
    BY <1>0
  <2>2. judged[0] = [claimed |-> {}, kinds |-> {}]
    BY <1>6, <2>1
  <2> QED
    BY <1>1, <2>2
<1>8. ASSUME NEW n \in Nat, n \in S PROVE n + 1 \in S
  <2> SUFFICES ASSUME n + 1 <= len PROVE judged[n + 1] = RightClaims(r, n + 1)
    OBVIOUS
  <2>1. PICK m \in 1..len : m = n + 1
    BY <1>0
  <2>2. m \in 0..len /\ m # 0 /\ m - 1 = n
    BY <1>0, <2>1
  <2>3. judged[m - 1] = RightClaims(r, m - 1)
    BY <1>0, <1>8, <2>1, <2>2
  <2>4. CASE mutation_log[m].run = r
    BY <1>2, <1>6, <2>1, <2>2, <2>3, <2>4
  <2>5. CASE mutation_log[m].run # r
    BY <1>3, <1>6, <2>1, <2>2, <2>3, <2>5
  <2> QED
    BY <2>4, <2>5
<1>9. Nat \subseteq S
  <2> HIDE DEF S
  <2> QED
    BY <1>7, <1>8, SetInduction
<1>10. \A n \in 0..len : judged[n] = RightClaims(r, n)
    BY <1>0, <1>9
<1> QED
    BY <1>10 DEF judged, len

(* Nothing that failures, retries, replays, chains, edits or a crash do to *)
(* a run makes count_policy_bypass count: its loop claims for every        *)
(* mutation the permit that was spent on it (run_eval.py:213-237).  A      *)
(* replan is the one exception, and then it left an unspent permit behind  *)
(* for the very action and row of a later one.                             *)
THEOREM BypassGateStaysQuiet == EvaluatorSpec => []BypassGateIsQuiet
<1>1. Base /\ JudgeInv => BypassGateIsQuiet
  <2> SUFFICES ASSUME Base, JudgeInv, NEW r \in Runs
               PROVE  \/ PolicyBypasses(r) = {}
                      \/ agent[r].replan /\ \E p \in PermitRows(r) : LeftBehind(r, p)
    BY DEF BypassGateIsQuiet
  <2>1. RowsOwned /\ AllSpent(r) /\ RowsInOrder(r)
    BY DEF JudgeInv
  <2>2. CASE NoneLeftBehind(r)
    <3>1. Len(mutation_log) \in 0..Len(mutation_log)
      BY DEF Base, Kept, TypeOK, StoreTypeOK
    <3>2. Judged(r)[Len(mutation_log)] = RightClaims(r, Len(mutation_log))
      BY <2>1, <2>2, <3>1, JudgedRightly
    <3> QED
      BY <3>2 DEF PolicyBypasses, RightClaims
  <2>3. CASE ~NoneLeftBehind(r)
    <3>1. PICK p \in PermitRows(r) : LeftBehind(r, p)
      BY <2>3 DEF NoneLeftBehind
    <3>2. PICK q \in PermitRows(r) : q[2] > p[2]
      BY <3>1 DEF LeftBehind
    <3>3. /\ p \in PermitIds /\ q \in PermitIds /\ sequence[r] \in Nat
          /\ q[2] <= sequence[r]
      BY DEF Base, Kept, AgentInv, NumbersGrow, TypeOK, StoreTypeOK, IsTable, PermitRows
    <3>4. p[2] < sequence[r] /\ ~permits[p].used
      BY <3>1, <3>2, <3>3 DEF PermitIds, LeftBehind
    <3> QED
      BY <2>1, <3>1, <3>4 DEF AllSpent
  <2> QED
    BY <2>2, <2>3
<1> QED
    BY <1>1, EvaluationIsRun, JudgeInvHolds, PTL

-----------------------------------------------------------------------------
(* The reasons of the tickets.                                             *)

(* Where a run may be when it has opened the ticket of an escalation.      *)
Escalating(r) ==
    \/ agent[r].step \in {"ticketing", "crashed"}
    \/ agent[r].step \in Done /\ agent[r].outcome = "escalated"

(* A ticket tells by its reason whether an escalation opened it, and the   *)
(* outcome of a run tells whether one did.                                 *)
Reasoned(r) ==
    LET a == agent[r]  p == <<r, sequence[r]>>
    IN  /\ a.step \in {"escalate"} \cup Ticketing => a.reason \in EscalationTicketReasons
        /\ \A t \in TicketsOf(r) :
              ticket_reasons[t] \in EscalationTicketReasons => Escalating(r)
        /\ a.step = "ticket" => p \notin TicketsOf(r)
        /\ \/ a.step = "ticketing"
           \/ a.step \in Done /\ a.outcome = "escalated" /\ a.proposal.order \in DOMAIN orders
           => (p \in TicketsOf(r) => ticket_reasons[p] \in EscalationTicketReasons)
        /\ a.step \in Done /\ a.outcome = "escalated" /\ ~a.chain =>
              \A t \in TicketsOf(r) : ticket_reasons[t] \in EscalationTicketReasons
        /\ a.outcome = "completed" => MutationLogRows(r) # {}
        /\ a.step = "finished" => a.report = Report(r)

ReasonInv == \A r \in Runs : Reasoned(r)

(* The tables hold of a run what they held.                                *)
NothingNew(r) ==
    /\ TicketsOf(r)' = TicketsOf(r)
    /\ RefundsOf(r)' = RefundsOf(r)
    /\ MutationLogRows(r)' = MutationLogRows(r)
    /\ \A t \in TicketsOf(r) : ticket_reasons'[t] = ticket_reasons[t]
    /\ DOMAIN orders' = DOMAIN orders

LEMMA OnlyCommitInserts ==
    ASSUME Base, NEW r \in Runs, RunStep(r)
    PROVE  Commit(r) \/ UNCHANGED <<refunds, tickets, mutation_log>>
<1>1. ClientIssue(r) \/ ClientPresent(r) \/ CallStep(r) \/ UNCHANGED vars
    BY RunIsClient DEF Base, Kept
<1> QED
    BY <1>1 DEF ClientIssue, IssuePermit, ClientPresent, Load, CallStep, Resolve, Lookup,
                CommitStale, CommitConflict, Respond, vars, storeVars

(* A commit inserts at most the ticket of its permit, and a row.           *)
LEMMA CommitInserts ==
    ASSUME Base, NEW r \in Runs, Commit(r), RecordReasons
    PROVE  LET p == call[r].permit
           IN  /\ p[1] = r
               /\ \A q \in Runs \ {r} : TicketsOf(q)' = TicketsOf(q) /\ RefundsOf(q)' = RefundsOf(q)
               /\ TicketsOf(r) \subseteq TicketsOf(r)'
               /\ TicketsOf(r)' \subseteq TicketsOf(r) \cup {p}
               /\ \A t \in DOMAIN tickets : ticket_reasons'[t] = ticket_reasons[t]
               /\ p \in TicketsOf(r)' \ TicketsOf(r) => ticket_reasons'[p] = TicketReasonCode(r)
<1> DEFINE p == call[r].permit
<1>1. p[1] = r
    BY CallIs DEF Commit
<1>2. PICK n, row : CommitWrites(r, n, row)
    BY CommitDoes DEF Base, Kept, LedgerInv
<1>3. /\ DOMAIN tickets' = DOMAIN tickets \/ DOMAIN tickets' = DOMAIN tickets \cup {p}
      /\ DOMAIN refunds' = DOMAIN refunds \/ DOMAIN refunds' = DOMAIN refunds \cup {p}
    BY <1>2 DEF CommitWrites
<1> HIDE DEF p
<1>4. /\ \A t \in DOMAIN tickets : ticket_reasons'[t] = ticket_reasons[t]
      /\ p \in DOMAIN tickets' \ DOMAIN tickets => ticket_reasons'[p] = TicketReasonCode(p[1])
    BY <1>3 DEF RecordReasons
<1>5. \A q \in Runs \ {r} : TicketsOf(q)' = TicketsOf(q) /\ RefundsOf(q)' = RefundsOf(q)
    BY <1>1, <1>3 DEF TicketsOf, RefundsOf
<1> QED
    BY <1>1, <1>3, <1>4, <1>5 DEF TicketsOf, p

LEMMA UntouchedIsNothingNew ==
    ASSUME UNCHANGED <<refunds, tickets, mutation_log>>, DOMAIN orders' = DOMAIN orders,
           RecordReasons, NEW q
    PROVE  NothingNew(q)
    BY DEF NothingNew, TicketsOf, RefundsOf, MutationLogRows, RecordReasons

LEMMA OthersNothingNew ==
    ASSUME Base, NEW r \in Runs, RunStep(r), RecordReasons, NEW q \in Runs \ {r}
    PROVE  NothingNew(q)
<1>1. DOMAIN orders' = DOMAIN orders /\ TypeOK /\ LedgerInv
    BY StepKeeps DEF RunnerNext, VersionsGrow
<1>2. CASE Commit(r)
  <2>1. MutationLogRows(q)' = MutationLogRows(q)
    BY <1>1, <1>2, CommitAddsRow
  <2>2. TicketsOf(q) \subseteq DOMAIN tickets
    BY DEF TicketsOf
  <2> QED
    BY <1>1, <1>2, <2>1, <2>2, CommitInserts DEF NothingNew
<1> QED
    BY <1>1, <1>2, OnlyCommitInserts, UntouchedIsNothingNew

LEMMA ReasonedStays ==
    ASSUME NEW r, Reasoned(r), NothingNew(r),
           agent'[r] = agent[r], sequence'[r] = sequence[r]
    PROVE  Reasoned(r)'
<1>1. Escalating(r)' <=> Escalating(r)
    BY DEF Escalating
<1>2. Report(r)' = Report(r)
    BY DEF Report, NothingNew
<1> QED
    BY <1>1, <1>2 DEF Reasoned, NothingNew

(* The steps at which a run has not begun to escalate.                     *)
Working == {"propose", "issue"} \cup Reading \cup Spending

(* On its way to a step before, or to an end that is no escalation.        *)
LEMMA ReasonedGoesOn ==
    ASSUME NEW r, Reasoned(r), NothingNew(r), agent[r].step \in Working,
           agent'[r].step \notin Ticketing \cup {"finished"},
           agent'[r].outcome # "escalated",
           agent'[r].outcome = "completed" =>
                agent[r].outcome = "completed" \/ MutationLogRows(r) # {},
           agent'[r].step = "escalate" => agent'[r].reason \in EscalationTicketReasons
    PROVE  Reasoned(r)'
<1>1. ~Escalating(r)
    BY DEF Escalating, Working, Done, After, Reading, Spending
<1> QED
    BY <1>1 DEF Reasoned, NothingNew, Ticketing

(* A policy that escalates names a reason of its own, and so does a run    *)
(* whose attempts were stale.                                              *)
LEMMA EscalatesWithReason ==
    ASSUME NEW proposal \in Asked, NEW s, Evaluate(proposal, s).decision = "escalate"
    PROVE  Evaluate(proposal, s).reason \in EscalationTicketReasons
<1>1. proposal.action \in {"cancel_order", "issue_refund", "create_support_ticket"}
    BY DEF Asked, Proposals, ActionName
<1>2. /\ \A reason : Deny(reason).decision = "deny"
      /\ \A reason, order : Escalate(reason, order).reason = reason
      /\ \A reason, max, resource, version :
            Allow(reason, max, resource, version).decision = "allow"
    BY DEF Deny, Escalate, Allow
<1> DEFINE E == EscalationTicketReasons
<1>3. {"cancel_after_shipment", "outside_return_window", "insufficient_information",
       "above_auto_refund_limit"} \subseteq E
    BY DEF EscalationTicketReasons
<1> HIDE DEF E
<1>4. EvaluateCancel(proposal, s).decision = "escalate" => EvaluateCancel(proposal, s).reason \in E
    BY <1>2, <1>3 DEF EvaluateCancel
<1>5. EvaluateRefund(proposal, s).decision = "escalate" => EvaluateRefund(proposal, s).reason \in E
    BY <1>2, <1>3 DEF EvaluateRefund
<1>6. EvaluateTicket(proposal, s).decision # "escalate"
    BY <1>2 DEF EvaluateTicket
<1> QED
    BY <1>1, <1>2, <1>3, <1>4, <1>5, <1>6 DEF Evaluate, E

(* A run that is not at its end has not escalated.                         *)
LEMMA NotYetEscalated ==
    ASSUME LossInv, NEW r \in Runs, agent[r].outcome = "escalated"
    PROVE  agent[r].step \in Done \cup {"crashed"}
    BY DEF LossInv, Fate, TicketSettled

LEMMA UnchangedIsNothingNew ==
    ASSUME UNCHANGED vars, RecordReasons, NEW q
    PROVE  NothingNew(q)
<1>1. UNCHANGED <<refunds, tickets, mutation_log, orders>>
    BY DEF vars, storeVars
<1> QED
    BY <1>1, UntouchedIsNothingNew

LEMMA ReasonedByDecide ==
    ASSUME Base, LossInv, NEW r \in Runs, Reasoned(r), RecordReasons,
           Propose(r) \/ ReadRecord(r) \/ Decide(r)
    PROVE  Reasoned(r)'
<1> DEFINE a == agent[r]
           b == agent'[r]
           verdict == Evaluate(a.proposal, [a.snapshot EXCEPT !.now = now])
<1>0. AgentInv /\ AgentTyped(a) /\ DOMAIN agent = Runs
    BY DEF Base, AgentInv, AgentKnown
<1>1. /\ UNCHANGED vars
      /\ a.step \in Working
      /\ \/ AttemptEnds(a, b, "denied")
         \/ b.outcome = a.outcome /\ b.step \in Working \cup {"escalate"}
      /\ b.step = "escalate" => Decide(r) /\ a.step = "decide" /\ verdict.decision = "escalate"
  <2>1. CASE Propose(r)
    BY <1>0, <2>1, ProposeDoes DEF Working, Reading, AttemptEnds
  <2>2. CASE ReadRecord(r)
    BY <1>0, <2>2, ReadDoes DEF Working, Reading, ReadSteps, SameAttempt
  <2>3. CASE Decide(r)
    BY <1>0, <2>3, DecideDoes DEF Working, Reading, SameAttempt, AttemptEnds
  <2> QED
    BY <2>1, <2>2, <2>3
<1>2. a.outcome # "escalated"
    BY <1>1, NotYetEscalated DEF Working, Reading, Spending, Done, After
<1>3. b.step = "escalate" => b.reason \in EscalationTicketReasons
  <2> SUFFICES ASSUME b.step = "escalate" PROVE b.reason \in EscalationTicketReasons
    OBVIOUS
  <2>1. /\ DOMAIN a = AgentFields /\ a.proposal \in Asked
        /\ verdict.decision = "escalate"
    BY <1>0, <1>1 DEF AgentTyped, AtWork, Reading
  <2> HIDE DEF verdict
  <2>2. b = [a EXCEPT !.step = "escalate", !.reason = verdict.reason]
    BY <1>0, <1>1, <2>1, MoveDoes DEF Decide, verdict
  <2>3. b.reason = verdict.reason
    BY <2>1, <2>2 DEF AgentFields
  <2> QED
    BY <2>1, <2>3, EscalatesWithReason DEF verdict
<1>4. NothingNew(r)
    BY <1>1, UnchangedIsNothingNew
<1>5. /\ b.step \notin Ticketing \cup {"finished"}
      /\ b.outcome # "escalated"
      /\ b.outcome = "completed" => a.outcome = "completed"
    BY <1>1, <1>2 DEF AttemptEnds, Working, Reading, Spending, Ticketing
<1> QED
    BY <1>1, <1>3, <1>4, <1>5, ReasonedGoesOn

LEMMA ReasonedByAnswer ==
    ASSUME Base, CallInv, LossInv, RowsOwned, NEW r \in Runs, Reasoned(r), RecordReasons,
           AfterExecute(r)
    PROVE  Reasoned(r)'
<1> DEFINE a == agent[r]
           b == agent'[r]
           kind == answer[r].kind
<1>0. /\ AgentInv /\ AgentTyped(a) /\ DOMAIN agent = Runs /\ DOMAIN a = AgentFields
      /\ LedgerInv /\ AnswerSound(r)
    BY DEF Base, Kept, AgentInv, AgentKnown, AgentTyped, CallInv
<1>1. /\ UNCHANGED vars /\ a.step = "executing" /\ phase[r] = "idle" /\ answer[r] # NULL
      /\ \/ kind \in {"committed", "replayed"} /\ AttemptEnds(a, b, "completed")
         \/ AttemptEnds(a, b, "denied")
         \/ b.outcome = a.outcome /\ b.step \in {"execute", "crashed"}
         \/ StaleGoesOn(a, b)
    BY <1>0, AfterExecuteDoes DEF SameAttempt
<1>2. a.outcome # "escalated"
    BY <1>1, NotYetEscalated DEF Done, After
<1>3. kind \in {"committed", "replayed"} => MutationLogRows(r) # {}
  <2> SUFFICES ASSUME kind \in {"committed", "replayed"} PROVE MutationLogRows(r) # {}
    OBVIOUS
  <2>1. LastKnown(r)
    BY <1>1, KnowsLast DEF Spending
  <2>2. a.last.permit \in SpentBy(r)
    BY <1>0, <1>1, <2>1 DEF AnswerSound, LastKnown, SpentBy
  <2> QED
    BY <1>0, <2>2, RowsAreSpent
<1>4. b.step = "escalate" => b.reason \in EscalationTicketReasons
  <2> SUFFICES ASSUME b.step = "escalate" PROVE b.reason = "stale_resource_version"
    BY DEF EscalationTicketReasons
  <2>1. /\ ~(b = [a EXCEPT !.step = "execute", !.retried = TRUE])
        /\ ~(b = [a EXCEPT !.step = "crashed"])
    BY <1>0 DEF AgentFields
  <2>2. \A outcome, reason : b # Ended(a, outcome, reason)
    BY <1>0, EndedTells
  <2>3. \A c : Move(r, c) => b = c
    BY <1>0, MoveDoes
  <2>4. b = StaleAttempt(a)
    BY <2>1, <2>2, <2>3, Zenon DEF AfterExecute
  <2>5. AfterLoops(a) # "escalate"
    BY AfterLoopsIs
  <2> QED
    BY <1>0, <2>2, <2>4, <2>5 DEF StaleAttempt, AgentFields
<1>5. NothingNew(r)
    BY <1>1, UnchangedIsNothingNew
<1>6. /\ a.step \in Working
      /\ b.step \notin Ticketing \cup {"finished"}
      /\ b.outcome # "escalated"
      /\ b.outcome = "completed" => a.outcome = "completed" \/ kind \in {"committed", "replayed"}
    BY <1>1, <1>2 DEF AttemptEnds, StaleGoesOn, Working, Spending, Ticketing
<1> QED
    BY <1>3, <1>4, <1>5, <1>6, ReasonedGoesOn

(* The permit of the ticket is a new one.                                  *)
LEMMA ReasonedByIssue ==
    ASSUME Base, LossInv, WriteInv, NEW r \in Runs, Reasoned(r), RecordReasons,
           Authorise(r) \/ BeginEscalation(r)
    PROVE  Reasoned(r)'
<1> DEFINE a == agent[r]
           b == agent'[r]
<1>0. /\ AgentInv /\ NumbersGrow /\ DOMAIN agent = Runs /\ DOMAIN a = AgentFields
      /\ LedgerInv /\ TypeOK
    BY DEF Base, Kept, AgentInv, AgentKnown, AgentTyped
<1>1. CASE Authorise(r)
  <2>1. /\ a.step = "issue" /\ b.step = "execute" /\ b.outcome = a.outcome
        /\ \E action, o, version, max : IssuePermit(r, action, o, version, max)
    BY <1>0, <1>1, AuthoriseDoes
  <2>2. UNCHANGED <<refunds, tickets, mutation_log, orders>>
    BY <2>1 DEF IssuePermit, resourceVars
  <2>3. NothingNew(r)
    BY <2>2, UntouchedIsNothingNew
  <2>4. a.outcome # "escalated"
    BY <2>1, NotYetEscalated DEF Done, After
  <2> QED
    BY <2>1, <2>3, <2>4, ReasonedGoesOn DEF Working, Ticketing
<1>2. CASE BeginEscalation(r) /\ ~UNCHANGED vars
  <2>1. /\ a.step = "escalate" /\ b.step = "ticket" /\ SameAttempt(a, b)
        /\ \E action, o, version, max : IssuePermit(r, action, o, version, max)
    BY <1>0, <1>2, EscalateDoes
  <2>2. sequence'[r] = sequence[r] + 1 /\ UNCHANGED <<refunds, tickets, mutation_log, orders>>
    <3>1. PICK action, o, version, max : IssuePermit(r, action, o, version, max)
      BY <2>1
    <3>2. sequence'[r] = sequence[r] + 1
      BY <1>0, <3>1, IssueDoes
    <3> QED
      BY <3>1, <3>2 DEF IssuePermit, resourceVars
  <2>3. NothingNew(r)
    BY <2>2, UntouchedIsNothingNew
  <2>4. <<r, sequence'[r]>> \notin TicketsOf(r)
    <3>1. sequence[r] \in Nat
      BY <1>0 DEF TypeOK
    <3>2. DOMAIN tickets \subseteq DOMAIN permits
      BY <1>0 DEF LedgerInv, RowsKnown
    <3> QED
      BY <1>0, <2>2, <3>1, <3>2 DEF NumbersGrow, TicketsOf
  <2>5. b.reason = a.reason
    <3>1. Goto(r, "ticket") \/ Move(r, Escalated(a))
      BY <1>2 DEF BeginEscalation
    <3>2. b = [a EXCEPT !.step = "ticket"] \/ b = Ended(a, "escalated", a.reason)
      BY <1>0, <3>1, MoveDoes DEF Goto, Escalated
    <3> QED
      BY <1>0, <3>2, EndedTells DEF AgentFields
  <2>6. ~Escalating(r) /\ a.outcome # "escalated"
    BY <2>1, NotYetEscalated DEF Escalating, Done, After
  <2> QED
    BY <2>1, <2>3, <2>4, <2>5, <2>6 DEF Reasoned, NothingNew, SameAttempt, Ticketing, Done, After
<1>3. CASE BeginEscalation(r) /\ UNCHANGED vars
  <2>1. a.step = "escalate"
    BY <1>0, <1>3, EscalateDoes
  <2>2. a.proposal.order \notin DOMAIN orders
    <3>1. \A action, o, version, max : IssuePermit(r, action, o, version, max) =>
              sequence'[r] = sequence[r] + 1 /\ sequence[r] \in Nat
      BY <1>0, IssueDoes DEF TypeOK
    <3>2. sequence' = sequence
      BY <1>3 DEF vars, executorVars
    <3> QED
      BY <1>3, <3>1, <3>2 DEF BeginEscalation
  <2>3. b = Ended(a, "escalated", a.reason)
    BY <1>0, <1>3, <2>2, MoveDoes DEF BeginEscalation, Escalated
  <2>4. AttemptEnds(a, b, "escalated") /\ b.step \in {"replay", "verify"}
    <3>1. a.left \in 0..MaxProposals
      BY <1>0 DEF AgentInv, AgentKnown, AgentTyped
    <3>2. AttemptEnds(a, b, "escalated")
      BY <1>0, <2>3, <3>1, EndedEnds
    <3> QED
      BY <3>2 DEF AttemptEnds
  <2>5. ~a.chain => TicketsOf(r) = {}
    <3>1. ~a.chain => SpentBy(r) = {}
      BY <2>1 DEF WriteInv, Written, Before
    <3> QED
      BY <1>0, <3>1, RowsAreSpent DEF WriteInv
  <2>6. NothingNew(r)
    BY <1>3, UnchangedIsNothingNew
  <2>7. ~Escalating(r)
    BY <2>1 DEF Escalating, Done, After
  <2> QED
    BY <2>2, <2>4, <2>5, <2>6, <2>7
       DEF Reasoned, NothingNew, AttemptEnds, SameScript, Ticketing, Done, After
<1> QED
    BY <1>1, <1>2, <1>3

LEMMA ReasonedByTicket ==
    ASSUME Base, LossInv, WriteInv, NEW r \in Runs, Reasoned(r), RecordReasons,
           PresentTicket(r) \/ AfterTicket(r)
    PROVE  Reasoned(r)'
<1> DEFINE a == agent[r]
           b == agent'[r]
           p == <<r, sequence[r]>>
<1>0. /\ AgentInv /\ DOMAIN agent = Runs /\ DOMAIN a = AgentFields /\ a.left \in 0..MaxProposals
      /\ LedgerInv /\ TypeOK
    BY DEF Base, Kept, AgentInv, AgentKnown, AgentTyped
<1>1. a.step \in Ticketing
    BY <1>0, AfterTicketDoes DEF Ticketing, PresentTicket
<1>2. a.outcome # "escalated"
    BY <1>1, NotYetEscalated DEF Ticketing, Done, After
<1>3. CASE PresentTicket(r)
  <2>1. /\ a.step = "ticket" /\ b = [a EXCEPT !.step = "ticketing"]
        /\ Load(r, p, TicketProposal(a.proposal.order))
    BY <1>0, <1>3, MoveDoes DEF PresentTicket, Execute, Goto
  <2>2. b.step = "ticketing" /\ b.reason = a.reason /\ b.outcome = a.outcome
    BY <1>0, <2>1 DEF AgentFields
  <2>3. NothingNew(r) /\ UNCHANGED sequence
    BY <2>1, UntouchedIsNothingNew DEF Load, storeVars
  <2>4. Escalating(r)'
    BY <2>2 DEF Escalating
  <2> QED
    BY <1>2, <2>1, <2>2, <2>3, <2>4 DEF Reasoned, NothingNew, Ticketing, Done, After
<1>4. CASE AfterTicket(r)
  <2>1. /\ a.step = "ticketing" /\ UNCHANGED vars
        /\ b = [a EXCEPT !.step = "crashed"] \/ b = Ended(a, "escalated", a.reason)
    BY <1>0, <1>4, MoveDoes DEF AfterTicket, Answered, Goto, Escalated
  <2>2. NothingNew(r) /\ sequence' = sequence
    BY <2>1, UnchangedIsNothingNew DEF vars, executorVars
  <2>3. CASE b = [a EXCEPT !.step = "crashed"]
    <3>1. b.step = "crashed" /\ b.outcome = a.outcome
      BY <1>0, <2>3 DEF AgentFields
    <3>2. Escalating(r)'
      BY <3>1 DEF Escalating
    <3> QED
      BY <1>2, <2>2, <3>1, <3>2 DEF Reasoned, NothingNew, Ticketing, Done, After
  <2>4. CASE b = Ended(a, "escalated", a.reason)
    <3>1. AttemptEnds(a, b, "escalated")
      BY <1>0, <2>4, EndedEnds
    <3>2. /\ b.step \in {"replay", "verify"} /\ b.outcome = "escalated" /\ b.chain = a.chain
          /\ b.proposal = a.proposal
      BY <3>1 DEF AttemptEnds, SameScript
    <3>3. Escalating(r)'
      BY <3>2 DEF Escalating, Done, After
    <3>4. ~a.chain => TicketsOf(r) \subseteq {p}
      <4>1. ~a.chain => SpentBy(r) \subseteq {p}
        BY <2>1 DEF WriteInv, Written
      <4> QED
        BY <1>0, <4>1, RowsAreSpent DEF WriteInv
    <3> QED
      BY <2>1, <2>2, <3>2, <3>3, <3>4 DEF Reasoned, NothingNew, Ticketing, Done, After
  <2> QED
    BY <2>1, <2>3, <2>4
<1> QED
    BY <1>3, <1>4

(* A replay that is waiting, answered or reported changes no outcome.      *)
LEMMA ReasonedAtEnd ==
    ASSUME NEW r, Reasoned(r), NothingNew(r), UNCHANGED sequence,
           agent[r].step \in After, agent'[r].step \in Done \cup {"crashed"},
           SameAttempt(agent[r], agent'[r]),
           agent'[r].step = "finished" => agent'[r].report = Report(r)'
    PROVE  Reasoned(r)'
<1>1. Escalating(r) => Escalating(r)'
    BY DEF Escalating, SameAttempt, Done, After
<1>2. DOMAIN orders' = DOMAIN orders
    BY DEF NothingNew
<1> QED
    BY <1>1, <1>2 DEF Reasoned, NothingNew, SameAttempt, SameScript, Ticketing, Done, After

LEMMA ReasonedByEnd ==
    ASSUME Base, NEW r \in Runs, Reasoned(r), RecordReasons,
           Replay(r) \/ AfterReplay(r) \/ Verify(r)
    PROVE  Reasoned(r)'
<1> DEFINE a == agent[r]
           b == agent'[r]
<1>0. AgentInv
    BY DEF Base
<1>1. CASE Replay(r)
  <2>1. PICK p, proposal : Execute(r, "replay", p, proposal, "replaying")
    BY <1>1 DEF Replay
  <2>2. /\ a.step = "replay" /\ b.step = "replaying" /\ SameAttempt(a, b)
        /\ Load(r, p, proposal)
    BY <1>0, <2>1, ExecuteDoes
  <2>3. NothingNew(r) /\ UNCHANGED sequence
    BY <2>2, UntouchedIsNothingNew DEF Load, storeVars
  <2> QED
    BY <2>2, <2>3, ReasonedAtEnd DEF Done, After
<1>2. CASE AfterReplay(r)
  <2>1. /\ a.step = "replaying" /\ b.step \in {"crashed", "verify"} /\ SameAttempt(a, b)
        /\ UNCHANGED vars
    BY <1>0, <1>2, AfterReplayDoes
  <2>2. NothingNew(r) /\ UNCHANGED sequence
    BY <2>1, UnchangedIsNothingNew DEF vars, executorVars
  <2> QED
    BY <2>1, <2>2, ReasonedAtEnd DEF Done, After
<1>3. CASE Verify(r)
  <2>1. /\ a.step = "verify" /\ b.step = "finished" /\ SameAttempt(a, b)
        /\ b.report = Report(r) /\ UNCHANGED vars
    BY <1>0, <1>3, VerifyDoes
  <2>2. NothingNew(r) /\ UNCHANGED sequence
    BY <2>1, UnchangedIsNothingNew DEF vars, executorVars
  <2>3. b.report = Report(r)'
    <3>1. b.outcome = a.outcome /\ b.reason = a.reason
      <4>1. DOMAIN a = AgentFields /\ DOMAIN agent = Runs
        BY <1>0 DEF AgentInv, AgentKnown, AgentTyped
      <4>2. PICK report : b = [a EXCEPT !.step = "finished", !.report = report]
        BY <1>3, <4>1, MoveDoes DEF Verify
      <4> QED
        BY <4>1, <4>2 DEF AgentFields
    <3> QED
      BY <2>1, <2>2, <3>1 DEF Report, NothingNew
  <2> QED
    BY <2>1, <2>2, <2>3, ReasonedAtEnd DEF Done, After
<1> QED
    BY <1>1, <1>2, <1>3

LEMMA ReasonedByCommit ==
    ASSUME Base, LossInv, WriteInv, NEW r \in Runs, Reasoned(r), RecordReasons,
           Commit(r), UNCHANGED agent
    PROVE  Reasoned(r)'
<1> DEFINE a == agent[r]
           p == call[r].permit
           E == EscalationTicketReasons
<1>0. TypeOK /\ LedgerInv /\ phase[r] = "commit" /\ sequence' = sequence /\ CallOwned(r)
    BY DEF Base, Kept, Commit, AgentInv, AgentKnown
<1>1. /\ TicketsOf(r) \subseteq TicketsOf(r)'
      /\ TicketsOf(r)' \subseteq TicketsOf(r) \cup {p}
      /\ \A t \in TicketsOf(r) : ticket_reasons'[t] = ticket_reasons[t]
      /\ p \in TicketsOf(r)' \ TicketsOf(r) => ticket_reasons'[p] = TicketReasonCode(r)
    BY CommitInserts DEF TicketsOf
<1>2. MutationLogRows(r)' # {}
    BY <1>0, CommitAddsRow
<1>3. Escalating(r)' <=> Escalating(r)
    BY DEF Escalating
<1>4. DOMAIN orders' = DOMAIN orders
    BY StepKeeps DEF VersionsGrow, RunnerNext, RunStep, CallStep
<1> HIDE DEF p
<1>5. CASE a.step = "ticketing"
  <2>1. TicketReasonCode(r) \in E /\ Escalating(r)
    BY <1>5 DEF TicketReasonCode, Reasoned, Ticketing, Escalating
  <2>2. a.outcome # "escalated"
    BY <1>5, NotYetEscalated DEF Done, After
  <2> QED
    BY <1>0, <1>1, <1>2, <1>3, <1>5, <2>1, <2>2 DEF Reasoned, Done, After, Ticketing
<1>6. CASE a.step \in {"executing", "replaying"}
  <2>1. TicketReasonCode(r) \notin E
    BY <1>6 DEF TicketReasonCode, EscalationTicketReasons
  <2>2. ASSUME NEW t \in TicketsOf(r)', t # p \/ ticket_reasons'[t] \in E
        PROVE  t \in TicketsOf(r) /\ ticket_reasons'[t] = ticket_reasons[t]
    BY <1>1, <2>1, <2>2
  <2>3. a.step \in Done /\ a.outcome = "escalated" /\ a.proposal.order \in DOMAIN orders =>
            <<r, sequence[r]>> # p
    <3>1. a.step \in Done => a.step = "replaying" /\ p = a.last.permit
      BY <1>0, <1>6 DEF CallOwned, Done, After, p
    <3>2. a.step \in Done /\ a.outcome = "escalated" /\ a.proposal.order \in DOMAIN orders =>
              TicketKnown(r)
      BY DEF LossInv, Fate, TicketSettled
    <3>3. a.step = "replaying" => a.last # NULL
      BY DEF Base, AgentInv, AgentKnown, AgentTyped
    <3> QED
      BY <3>1, <3>2, <3>3 DEF TicketKnown
  <2>4. ~(a.step \in Done /\ a.outcome = "escalated" /\ ~a.chain)
    BY <1>0, <1>6 DEF WriteInv, Written, Settled, Done, After
  <2> QED
    BY <1>0, <1>2, <1>3, <1>4, <1>6, <2>2, <2>3, <2>4 DEF Reasoned, Ticketing
<1> QED
    BY <1>0, <1>5, <1>6 DEF CallOwned

LEMMA ReasonedByRun ==
    ASSUME Base, CallInv, LossInv, WriteInv, NEW r \in Runs, Reasoned(r), RecordReasons,
           RunStep(r)
    PROVE  Reasoned(r)'
<1>1. CASE Present1(r)
  <2>1. PICK p, proposal : Execute(r, "execute", p, proposal, "executing")
    BY <1>1 DEF Present1
  <2>2. /\ agent[r].step = "execute" /\ agent'[r].step = "executing"
        /\ agent'[r].outcome = agent[r].outcome /\ Load(r, p, proposal)
    BY <2>1, ExecuteDoes DEF Base, SameAttempt
  <2>3. NothingNew(r)
    BY <2>2, UntouchedIsNothingNew DEF Load, storeVars
  <2>4. agent[r].outcome # "escalated"
    BY <2>2, NotYetEscalated DEF Done, After
  <2> QED
    BY <2>2, <2>3, <2>4, ReasonedGoesOn DEF Working, Spending, Ticketing
<1>2. CASE CallStep(r) /\ UNCHANGED agent /\ ~Commit(r)
  <2>1. UNCHANGED <<refunds, tickets, mutation_log>>
    BY <1>2, OnlyCommitInserts
  <2>2. DOMAIN orders' = DOMAIN orders
    BY StepKeeps DEF VersionsGrow, RunnerNext
  <2>3. sequence' = sequence
    BY <1>2, CallGoesOn DEF Base, Kept
  <2> QED
    BY <1>2, <2>1, <2>2, <2>3, UntouchedIsNothingNew, ReasonedStays
<1>3. RowsOwned
    BY DEF WriteInv
<1> QED
    BY <1>1, <1>2, <1>3, ReasonedByDecide, ReasonedByAnswer, ReasonedByIssue, ReasonedByTicket,
       ReasonedByEnd, ReasonedByCommit DEF RunStep

LEMMA ReasonInvNext ==
    ASSUME Base, CallInv, LossInv, WriteInv, ReasonInv, [EvaluatorNext]_evaluatorVars
    PROVE  ReasonInv'
<1>1. [RunnerNext]_runnerVars
  <2>1. [ScenarioNext]_scenarioVars
    BY DEF EvaluatorNext, evaluatorVars
  <2>2. [AuditNext]_auditVars
    BY <2>1, ScenarioIsAudit
  <2> QED
    BY <2>2, AuditIsRun
<1>2. DOMAIN orders' = DOMAIN orders
    BY <1>1, StepKeeps DEF VersionsGrow
<1>3. ASSUME RecordReasons, NEW r \in Runs, RunStep(r), NEW q \in Runs PROVE Reasoned(q)'
  <2>1. CASE q = r
    BY <1>3, <2>1, ReasonedByRun DEF ReasonInv
  <2>2. CASE q # r
    BY <1>3, <2>2, OthersKeepStill, OthersNothingNew, ReasonedStays DEF ReasonInv
  <2> QED
    BY <2>1, <2>2
<1>4. ASSUME RecordReasons, WorldStep, UNCHANGED <<executorVars, agent>>, NEW q \in Runs
      PROVE  Reasoned(q)'
  <2>1. UNCHANGED <<refunds, tickets, mutation_log>>
    BY <1>4 DEF WorldStep, EditOrder, EditPayment, EditShipment, Tick, ledgerVars
  <2>2. NothingNew(q)
    BY <1>2, <1>4, <2>1, UntouchedIsNothingNew
  <2> QED
    BY <1>4, <2>2, ReasonedStays DEF ReasonInv, executorVars
<1>5. ASSUME RecordReasons, UNCHANGED runnerVars, NEW q \in Runs PROVE Reasoned(q)'
  <2>1. UNCHANGED <<vars, agent, sequence>>
    BY <1>5 DEF runnerVars, vars, executorVars
  <2> QED
    BY <1>5, <2>1, UnchangedIsNothingNew, ReasonedStays DEF ReasonInv
<1>6. ASSUME UNCHANGED evaluatorVars, NEW q \in Runs PROVE Reasoned(q)'
  <2>1. UNCHANGED <<vars, agent, ticket_reasons>>
    BY <1>6 DEF evaluatorVars, scenarioVars, auditVars, runnerVars
  <2>2. UNCHANGED <<refunds, tickets, mutation_log, orders, sequence>>
    BY <2>1 DEF vars, storeVars, executorVars
  <2>3. NothingNew(q)
    BY <2>1, <2>2 DEF NothingNew, TicketsOf, RefundsOf, MutationLogRows
  <2> QED
    BY <2>1, <2>2, <2>3, ReasonedStays DEF ReasonInv
<1>7. RecordReasons \/ UNCHANGED evaluatorVars
    BY DEF EvaluatorNext
<1> QED
    BY <1>1, <1>3, <1>4, <1>5, <1>6, <1>7 DEF ReasonInv, RunnerNext

LEMMA ReasonInvInit == EvaluatorInit => ReasonInv
<1> SUFFICES ASSUME EvaluatorInit PROVE ReasonInv
    OBVIOUS
<1>1. DOMAIN tickets = {}
    BY DEF EvaluatorInit, ScenarioInit, AuditInit, RunnerInit, Init, StoreInit, EmptyTable
<1>2. \A r \in Runs : agent[r].step = "propose" /\ agent[r].outcome = "denied"
    BY DEF EvaluatorInit, ScenarioInit, AuditInit, RunnerInit, Fresh
<1> QED
    BY <1>1, <1>2 DEF ReasonInv, Reasoned, TicketsOf, Ticketing, Done, After

(* What a finished run reports, the judge reads in the tables.             *)
LEMMA TablesTell ==
    ASSUME MaxNow <= PermitTTL, Base, LossInv, WriteInv, NEW r \in Runs, Reasoned(r),
           agent[r].step = "finished"
    PROVE  LET a == agent[r]
               E == TicketReasonCodes(r) \cap EscalationTicketReasons
           IN  /\ a.report.outcome = a.outcome
               /\ a.outcome \in Outcome
               /\ E # {} => a.outcome = "escalated"
               /\ a.outcome = "completed" => MutationLogRows(r) # {}
               /\ a.outcome = "denied" /\ MutationLogRows(r) # {} => a.chain
               /\ a.outcome = "escalated" /\ E = {} =>
                     TicketCostByEdit(r) /\ (MutationLogRows(r) # {} => a.chain)
<1> DEFINE a == agent[r]
           p == <<r, sequence[r]>>
           o == a.proposal.order
           rows == MutationLogRows(r)
           E == TicketReasonCodes(r) \cap EscalationTicketReasons
<1>0. /\ LedgerInv /\ TypeOK /\ RowsOwned /\ PinInv
      /\ ~a.chain => Reported(r)
    BY DEF Base, Kept, WriteInv, Written
<1>1. /\ a.report = Report(r)
      /\ \A t \in TicketsOf(r) : ticket_reasons[t] \in EscalationTicketReasons => Escalating(r)
      /\ a.outcome = "completed" => rows # {}
    BY DEF Reasoned
<1>2. a.outcome \in Outcome
    BY DEF Base, AgentInv, AgentKnown, AgentTyped
<1>3. a.report.outcome = a.outcome /\ a.report.mutation_count = Cardinality(rows)
    BY <1>1 DEF Report
<1>4. E # {} => a.outcome = "escalated"
    BY <1>1 DEF TicketReasonCodes, Escalating
<1>5. IsFiniteSet(rows)
  <2>1. rows \subseteq 1..Len(mutation_log) /\ Len(mutation_log) \in Nat
    BY <1>0 DEF TypeOK, StoreTypeOK, MutationLogRows
  <2>2. IsFiniteSet(1..Len(mutation_log))
    BY <2>1, FS_Interval
  <2> HIDE DEF rows
  <2> QED
    BY <2>1, <2>2, FS_Subset
<1>6. Cardinality(rows) = 0 => rows = {}
    BY <1>5, FS_EmptySet
<1>7. a.outcome = "denied" /\ rows # {} => a.chain
    BY <1>0, <1>3, <1>6 DEF Reported
<1>8. ASSUME a.outcome = "escalated", E = {}, ~a.chain PROVE rows = {}
  <2>1. TicketsOf(r) = {}
    BY <1>8 DEF Reasoned, TicketReasonCodes, Done, After
  <2>2. a.report.tickets = 0
    BY <1>1, <2>1, FS_EmptySet DEF Report
  <2> QED
    BY <1>0, <1>3, <1>6, <1>8, <2>2 DEF Reported
<1>9. ASSUME a.outcome = "escalated", E = {}, o \in DOMAIN orders
      PROVE  p \in DOMAIN permits /\ orders[o].version > permits[p].version
  <2>1. p \in TicketsOf(r) => ticket_reasons[p] \in EscalationTicketReasons
    BY <1>9 DEF Reasoned, Done
  <2>2. p \notin TicketsOf(r)
    BY <1>9, <2>1 DEF TicketReasonCodes
  <2>3. p \notin DOMAIN tickets
    BY <2>2 DEF TicketsOf
  <2> QED
    BY <1>9, <2>3, TicketOutdated DEF Done
<1>10. a.outcome = "escalated" /\ E = {} => TicketCostByEdit(r)
    BY <1>9 DEF TicketCostByEdit
<1> QED
    BY <1>1, <1>2, <1>3, <1>4, <1>7, <1>8, <1>10

(* The tables of a finished scenario tell the outcome its report tells     *)
(* (run_eval.py:3-9, derive_outcome), with two exceptions: an escalation   *)
(* whose ticket an unknown order or an edit cost, and a chain that was     *)
(* denied after it had written.  Every edit moves the version, and the     *)
(* clock does not outrun a permit: an expired one costs the ticket too.    *)
THEOREM TablesAgree ==
    ASSUME ~SilentEdits, MaxNow <= PermitTTL
    PROVE  EvaluatorSpec => []DatabaseAgrees
<1>1. Base /\ LossInv /\ WriteInv /\ ReasonInv => DatabaseAgrees
  <2> SUFFICES ASSUME Base, LossInv, WriteInv, NEW r \in Runs, Reasoned(r),
                      agent[r].step = "finished"
               PROVE  LET outcome == agent[r].report.outcome
                      IN  \/ outcome = DeriveOutcome(r)
                          \/ /\ outcome = "escalated"
                             /\ TicketCostByEdit(r)
                             /\ DeriveOutcome(r) = "completed" => agent[r].chain
                          \/ /\ outcome = "denied"
                             /\ agent[r].chain
                             /\ DeriveOutcome(r) = "completed"
    BY DEF DatabaseAgrees, Finished, ReasonInv
  <2> QED
    BY TablesTell DEF DeriveOutcome, Outcome
<1>2. RunnerInit => WriteInv
    BY WriteInvInit
<1>3. Base /\ CallInv /\ WriteInv /\ [RunnerNext]_runnerVars => WriteInv'
    BY WriteInvNext DEF RetriesInTime
<1>4. Base /\ CallInv /\ LossInv /\ WriteInv /\ ReasonInv /\ [EvaluatorNext]_evaluatorVars
        => ReasonInv'
    BY ReasonInvNext
<1>5. RunnerSpec => [](Base /\ CallInv /\ LossInv)
    BY LossInvHolds
<1>6. RunnerSpec => []WriteInv
    BY <1>2, <1>3, <1>5, PTL DEF RunnerSpec
<1> QED
    BY <1>1, <1>4, <1>5, <1>6, ReasonInvInit, EvaluationIsRun, PTL DEF EvaluatorSpec


-----------------------------------------------------------------------------
(* What a run writes twice.                                                *)

(* A run that does not chain begins again only when it was told that its   *)
(* row had moved on.                                                       *)
LEMMA BeginsAgain ==
    ASSUME AgentInv, NEW r \in Runs,
           Local(r) \/ (BeginEscalation(r) /\ UNCHANGED vars)
    PROVE  LET a == agent[r]  b == agent'[r]
           IN  /\ b.chain = a.chain
               /\ b.step # "executing"
               /\ ~a.chain /\ b.step \in Before =>
                     \/ a.step \in Before
                     \/ /\ a.step = "executing" /\ answer[r] # NULL
                        /\ answer[r].reason = "stale_resource_version"
<1> DEFINE a == agent[r]
           b == agent'[r]
<1>1. ASSUME NEW outcome, AttemptEnds(a, b, outcome)
      PROVE  /\ b.chain = a.chain
             /\ b.step # "executing"
             /\ ~a.chain => b.step \notin Before
    BY <1>1 DEF AttemptEnds, SameScript, Before, Reading
<1>2. SameAttempt(a, b) => b.chain = a.chain
    BY DEF SameAttempt, SameScript
<1>3. CASE Propose(r)
  <2>1. a.step = "propose"
    BY <1>3, ProposeDoes
  <2>2. AttemptEnds(a, b, "denied") \/ (SameScript(a, b) /\ b.step = "order")
    BY <1>3, ProposeDoes
  <2> QED
    BY <1>1, <2>1, <2>2 DEF SameScript, Before
<1>4. CASE ReadRecord(r)
  <2>1. a.step \in ReadSteps /\ SameAttempt(a, b) /\ b.step \in Reading
    BY <1>4, ReadDoes
  <2> QED
    BY <1>2, <2>1 DEF Before, Reading, ReadSteps
<1>5. CASE Decide(r)
  <2>1. a.step = "decide"
    BY <1>5, DecideDoes
  <2>2. AttemptEnds(a, b, "denied") \/ (SameAttempt(a, b) /\ b.step \in {"escalate", "issue"})
    BY <1>5, DecideDoes
  <2> QED
    BY <1>1, <1>2, <2>1, <2>2 DEF Before, Reading
<1>6. CASE AfterExecute(r)
  <2>1. a.step = "executing" /\ answer[r] # NULL
    BY <1>6, AfterExecuteDoes
  <2>2. \/ b.step = "execute" /\ b.chain = a.chain
        \/ b.step = "crashed" /\ SameAttempt(a, b)
        \/ \E outcome : AttemptEnds(a, b, outcome)
        \/ answer[r].reason = "stale_resource_version" /\ StaleGoesOn(a, b)
    BY <1>6, AfterExecuteDoes
  <2>3. StaleGoesOn(a, b) => b.chain = a.chain /\ b.step # "executing"
    BY DEF StaleGoesOn, SameScript
  <2> QED
    BY <1>1, <1>2, <2>1, <2>2, <2>3 DEF Before, Reading
<1>7. CASE AfterTicket(r)
  <2>1. AttemptEnds(a, b, "escalated") \/ (SameAttempt(a, b) /\ b.step = "crashed")
    BY <1>7, AfterTicketDoes
  <2> QED
    BY <1>1, <1>2, <2>1 DEF Before, Reading
<1>8. CASE AfterReplay(r) \/ Verify(r)
  <2>1. SameAttempt(a, b) /\ b.step \in {"crashed", "verify", "finished"}
    BY <1>8, AfterReplayDoes, VerifyDoes
  <2> QED
    BY <1>2, <2>1 DEF Before, Reading
<1>9. CASE BeginEscalation(r) /\ UNCHANGED vars
  <2>1. a.step = "escalate"
    BY <1>9, EscalateDoes
  <2>2. AttemptEnds(a, b, "escalated") \/ (SameAttempt(a, b) /\ b.step = "ticket")
    BY <1>9, EscalateDoes
  <2> QED
    BY <1>1, <1>2, <2>1, <2>2 DEF Before, Reading
<1> QED
  BY <1>3, <1>4, <1>5, <1>6, <1>7, <1>8, <1>9 DEF Local

(* That is not what a call for a spent permit is told.                     *)
LEMMA StaleIsUnspent ==
    ASSUME Base, NEW r \in Runs, CallSound(r), CallStep(r), phase'[r] = "idle",
           answer'[r].reason = "stale_resource_version"
    PROVE  ~permits[call[r].permit].used /\ UNCHANGED permits
<1>1. TypeOK /\ phase[r] # "idle"
    BY CallGoesOn DEF Base, Kept
<1>2. ASSUME NEW kind, NEW reason, NEW result, CallEnds(r, kind, reason, result)
      PROVE  reason = "stale_resource_version"
    BY <1>2 DEF CallEnds, Answer
<1>3. NULL # "stale_resource_version" /\ NULL # "permit_amount_exceeded"
    BY ReasonAssumption DEF RejectionReasons
<1>4. CASE Resolve(r)
    BY <1>1, <1>2, <1>4, ResolveDoes
<1>5. CASE Lookup(r)
  <2>1. call[r].row.key \notin DOMAIN records /\ UNCHANGED permits
    BY <1>1, <1>2, <1>5, LookupDoes DEF storeVars
  <2> QED
    BY <1>1, <2>1, SpentIsStored
<1>6. CASE CommitStale(r)
  <2>1. phase[r] = "commit" /\ UNCHANGED permits
    BY <1>1, <1>6, EndDoes DEF storeVars
  <2>2. call[r].row.key \notin DOMAIN records
    BY <2>1 DEF CallSound
  <2> QED
    BY <1>1, <2>1, <2>2, SpentIsStored
<1>7. CASE CommitConflict(r) \/ Respond(r)
    BY <1>1, <1>2, <1>3, <1>7, EndDoes
<1>8. ~Commit(r)
    BY <1>1 DEF Commit, GoTo, TypeOK
<1> QED
    BY <1>4, <1>5, <1>6, <1>7, <1>8 DEF CallStep

(* Without a chain the latest permit is the only one that may be spent,    *)
(* and it is not when the run begins again.                                *)
OneSpent(r) ==
    LET a == agent[r]
    IN  ~a.chain =>
          /\ SpentBy(r) \subseteq {<<r, sequence[r]>>}
          /\ a.step \in Before => SpentBy(r) = {}
          /\ a.step = "executing" /\ phase[r] = "idle" /\ answer[r] # NULL
                /\ answer[r].reason = "stale_resource_version" => SpentBy(r) = {}

SpentInv == \A r \in Runs : OneSpent(r)

LEMMA OneSpentStays ==
    ASSUME NEW r, OneSpent(r), SpentBy(r)' = SpentBy(r), agent'[r] = agent[r],
           phase'[r] = phase[r], answer'[r] = answer[r], sequence'[r] = sequence[r]
    PROVE  OneSpent(r)'
    BY DEF OneSpent

LEMMA OneSpentMoves ==
    ASSUME Base, CallInv, NEW r \in Runs, Latest(r), OneSpent(r), RunStep(r)
    PROVE  OneSpent(r)'
<1> DEFINE a == agent[r]
           b == agent'[r]
<1>1. /\ TypeOK /\ LedgerInv /\ AgentInv /\ NumbersGrow /\ AgentKnown(r) /\ CallSound(r)
      /\ DOMAIN agent = Runs /\ DOMAIN a = AgentFields
    BY DEF Base, Kept, AgentInv, AgentKnown, AgentTyped, CallInv
<1>2. ASSUME phase[r] = "idle" PROVE SpentBy(r)' = SpentBy(r)
    BY <1>2, SpentMoves DEF Commit
<1>3. CASE Local(r) \/ (BeginEscalation(r) /\ UNCHANGED vars)
  <2>1. UNCHANGED vars /\ phase[r] = "idle"
    BY <1>1, <1>3, LocalDoes
  <2>2. SpentBy(r)' = SpentBy(r) /\ sequence' = sequence
    BY <1>2, <2>1 DEF vars, executorVars
  <2> QED
    BY <1>1, <1>3, <2>1, <2>2, BeginsAgain DEF OneSpent
<1>4. CASE Authorise(r)
  <2>1. a.step = "issue" /\ b.step = "execute" /\ b.chain = a.chain
    BY <1>1, <1>4, AuthoriseDoes
  <2>2. SpentBy(r)' = SpentBy(r)
    BY <1>1, <1>2, <2>1, NoCallOutside
  <2> QED
    BY <2>1, <2>2 DEF OneSpent, Before, Reading
<1>5. CASE BeginEscalation(r) /\ ~UNCHANGED vars
  <2>1. a.step = "escalate" /\ b.step = "ticket" /\ b.chain = a.chain
    BY <1>1, <1>5, EscalateDoes DEF SameAttempt, SameScript
  <2>2. SpentBy(r)' = SpentBy(r)
    BY <1>1, <1>2, <2>1, NoCallOutside
  <2> QED
    BY <2>1, <2>2 DEF OneSpent, Before, Reading
<1>6. CASE Present1(r) \/ PresentTicket(r) \/ Replay(r)
  <2>1. PICK step, p, proposal, waiting :
            /\ Execute(r, step, p, proposal, waiting)
            /\ waiting \in {"executing", "ticketing", "replaying"}
    BY <1>6, Zenon DEF Present1, PresentTicket, Replay
  <2>2. Load(r, p, proposal) /\ b.step = waiting /\ b.chain = a.chain
    BY <1>1, <2>1, ExecuteDoes DEF SameAttempt, SameScript
  <2>3. phase[r] = "idle" /\ sequence' = sequence
    BY <2>2 DEF Load
  <2>4. phase'[r] = "idle" /\ answer'[r] # NULL => answer'[r].reason # "stale_resource_version"
    BY <1>1, <2>2 DEF Load, GoTo, Answer, TypeOK
  <2> QED
    BY <1>2, <2>1, <2>2, <2>3, <2>4 DEF OneSpent, Before, Reading
<1>7. CASE CallStep(r) /\ UNCHANGED agent
  <2>1. phase[r] # "idle" /\ sequence' = sequence /\ CallOwned(r)
    BY <1>1, <1>7, CallGoesOn DEF AgentKnown
  <2>2. a.step \notin Before
    BY <2>1 DEF CallOwned, Before, Reading
  <2>3. SpentBy(r) \subseteq {<<r, sequence[r]>>} => SpentBy(r)' \subseteq {<<r, sequence[r]>>}
    BY SpentMoves, WritesUnderLatest
  <2>4. ASSUME a.step = "executing", phase'[r] = "idle",
               answer'[r].reason = "stale_resource_version",
               SpentBy(r) \subseteq {<<r, sequence[r]>>}
        PROVE  SpentBy(r)' = {}
    <3>1. ~permits[call[r].permit].used /\ UNCHANGED permits
      BY <1>1, <1>7, <2>4, StaleIsUnspent
    <3>2. call[r].permit = <<r, sequence[r]>>
      BY <2>1, <2>4 DEF CallOwned, Latest, IsLatest, Spending
    <3> QED
      BY <2>4, <3>1, <3>2 DEF SpentBy
  <2> QED
    BY <1>7, <2>1, <2>2, <2>3, <2>4 DEF OneSpent
<1> QED
    BY <1>3, <1>4, <1>5, <1>6, <1>7 DEF RunStep, Local

LEMMA OneSpentNext ==
    ASSUME Base, CallInv, JudgeInv, SpentInv, [RunnerNext]_runnerVars
    PROVE  SpentInv'
<1>1. ASSUME NEW r \in Runs, RunStep(r), NEW q \in Runs PROVE OneSpent(q)'
  <2>1. CASE q = r
    BY <1>1, <2>1, OneSpentMoves DEF JudgeInv, SpentInv
  <2>2. CASE q # r
    BY <1>1, <2>2, OthersKeepStill, SpentMoves, OneSpentStays DEF SpentInv
  <2> QED
    BY <2>1, <2>2
<1>2. CASE (WorldStep /\ UNCHANGED <<executorVars, agent>>) \/ UNCHANGED runnerVars
  <2>1. UNCHANGED <<agent, phase, answer, sequence, permits>>
    BY <1>2 DEF runnerVars, vars, executorVars, storeVars, WorldStep, EditOrder,
                EditPayment, EditShipment, Tick, ledgerVars
  <2> QED
    BY <2>1, OneSpentStays DEF SpentBy, SpentInv
<1> QED
    BY <1>1, <1>2 DEF RunnerNext, SpentInv

(* So it writes at most one row, and nothing twice.                        *)
LEMMA NoChainNoDuplicate ==
    ASSUME TypeOK, LedgerInv, RowsOwned, NEW r \in Runs, OneSpent(r), ~agent[r].chain
    PROVE  DuplicateMutationCount(r) = 0
<1> DEFINE rows == MutationLogRows(r)
<1>1. \A i, j \in rows : i = j
  <2>1. SpentBy(r) \subseteq {<<r, sequence[r]>>}
    BY DEF OneSpent
  <2> QED
    BY <2>1, RowsAreSpent
<1>2. CASE rows = {}
  <2>1. MutationKeys(r) = {}
    BY <1>2 DEF MutationKeys
  <2> QED
    BY <1>2, <2>1, FS_EmptySet DEF DuplicateMutationCount
<1>3. CASE rows # {}
  <2>1. PICK i : rows = {i}
    BY <1>1, <1>3
  <2>2. MutationKeys(r) = {<<mutation_log[i].action, mutation_log[i].resource>>}
    BY <2>1 DEF MutationKeys
  <2>3. Cardinality(rows) = 1 /\ Cardinality(MutationKeys(r)) = 1
    BY <2>1, <2>2, FS_Singleton
  <2> QED
    BY <2>3 DEF DuplicateMutationCount
<1> QED
    BY <1>2, <1>3


(* An order that the agent cancelled has moved on from the version that    *)
(* was cancelled, and by an edit if it is not cancelled any more.          *)
CancelRows == { i \in DOMAIN mutation_log : mutation_log[i].action = "cancel_order" }

Cancelled(i) ==
    LET o       == mutation_log[i].resource[2]
        version == permits[mutation_log[i].by].version
    IN  /\ mutation_log[i].resource = Order(o)
        /\ o \in DOMAIN orders
        /\ version \in Nat
        /\ version < orders[o].version
        /\ orders[o].version = version + 1 => orders[o].status = "CANCELLED"

CancelledAgain(i, j) ==
    permits[mutation_log[j].by].version > permits[mutation_log[i].by].version + 1

CancelInv ==
    /\ \A i \in CancelRows : Cancelled(i)
    /\ \A i, j \in CancelRows :
          i < j /\ mutation_log[i].resource = mutation_log[j].resource => CancelledAgain(i, j)

LEMMA CancelledStays ==
    ASSUME LedgerInv, PermitsStay, VersionsGrow, VersionsTell,
           NEW i \in DOMAIN mutation_log, mutation_log'[i] = mutation_log[i], Cancelled(i)
    PROVE  Cancelled(i)'
<1> DEFINE o == mutation_log[i].resource[2]
           v == permits[mutation_log[i].by].version
<1>1. /\ o \in DOMAIN orders /\ v \in Nat /\ v < orders[o].version
      /\ orders[o].version = v + 1 => orders[o].status = "CANCELLED"
      /\ mutation_log[i].resource = Order(o)
    BY DEF Cancelled
<1>2. permits'[mutation_log[i].by].version = v
    BY DEF LedgerInv, LedgerAgrees, PermitsStay
<1>3. /\ o \in DOMAIN orders'
      /\ orders[o].version \in Nat /\ orders'[o].version \in Nat
      /\ orders[o].version <= orders'[o].version
      /\ orders'[o].version = orders[o].version => orders'[o] = orders[o]
    BY <1>1 DEF VersionsGrow, VersionsTell
<1>4. v < orders'[o].version
    BY <1>1, <1>3
<1>5. orders'[o].version = v + 1 => orders'[o].status = "CANCELLED"
    BY <1>1, <1>3
<1> HIDE DEF o, v
<1> QED
    BY <1>1, <1>2, <1>3, <1>4, <1>5 DEF Cancelled, o, v

(* The commit of a cancellation finds an order that may be cancelled.      *)
LEMMA CancelDoes ==
    ASSUME ~SilentEdits, Base, NEW r \in Runs, Commit(r),
           call[r].proposal.action = "cancel_order"
    PROVE  LET o == call[r].proposal.order  v == permits[call[r].permit].version
           IN  /\ o \in DOMAIN orders
               /\ v \in Nat
               /\ orders[o].version = v
               /\ orders[o].status # "CANCELLED"
               /\ orders'[o].version = v + 1
               /\ orders'[o].status = "CANCELLED"
               /\ DOMAIN orders' = DOMAIN orders
               /\ call[r].row.resource = Order(o)
<1> DEFINE o == call[r].proposal.order
           v == call[r].row.version
<1>1. TypeOK /\ phase[r] # "idle"
    BY DEF Base, Kept, Commit
<1>2. v = permits[call[r].permit].version /\ call[r].row.resource = Order(o)
    BY <1>1, CallIs DEF ResourceOf
<1>3. CancelOrder(r, call[r].permit, o, v)
    BY DEF Commit, WriteTool
<1>4. /\ o \in DOMAIN orders /\ orders[o].version = v
      /\ orders' = [orders EXCEPT ![o].status = "CANCELLED", ![o].version = @ + 1]
    BY <1>3 DEF CancelOrder, OrderAtVersion
<1>5. orders[o] \in OrderRow
    BY <1>1, <1>4 DEF TypeOK, StoreTypeOK, IsTable
<1>6. orders[o].status \in CancellableOrderStatuses
    BY CommitIsPinned
<1> HIDE DEF o, v
<1>7. v \in Nat /\ orders'[o].version = v + 1 /\ orders'[o].status = "CANCELLED"
        /\ DOMAIN orders' = DOMAIN orders
    BY <1>4, <1>5 DEF OrderRow
<1> QED
    BY <1>2, <1>4, <1>6, <1>7 DEF CancellableOrderStatuses, o, v

LEMMA CancelInvByCommit ==
    ASSUME ~SilentEdits, Base, CancelInv, NEW r \in Runs, Commit(r),
           PermitsStay, VersionsGrow, VersionsTell
    PROVE  CancelInv'
<1> DEFINE n == Len(mutation_log) + 1
           o == call[r].proposal.order
           v == permits[call[r].permit].version
<1>1. TypeOK /\ LedgerInv /\ phase[r] # "idle"
    BY DEF Base, Kept, Commit
<1>2. /\ \A j \in DOMAIN mutation_log : /\ j \in Nat /\ j < n
                                        /\ mutation_log'[j] = mutation_log[j]
      /\ DOMAIN mutation_log' = DOMAIN mutation_log \cup {n}
      /\ mutation_log'[n].by = call[r].permit
      /\ mutation_log'[n].action = call[r].proposal.action
      /\ mutation_log'[n].resource = call[r].row.resource
    BY <1>1, CommitAddsRow
<1>3. n \in Nat
    BY <1>1 DEF TypeOK, StoreTypeOK
<1>4. /\ \A i \in DOMAIN mutation_log :
            permits'[mutation_log[i].by].version = permits[mutation_log[i].by].version
      /\ permits'[call[r].permit].version = v
    BY <1>1, CallIs DEF LedgerInv, LedgerAgrees, PermitsStay
<1> HIDE DEF n
<1>5. \A i \in DOMAIN mutation_log : i \in CancelRows' <=> i \in CancelRows
    BY <1>2 DEF CancelRows
<1>6. \A i \in CancelRows' : i \in CancelRows \/ i = n
    BY <1>2 DEF CancelRows
<1>7. CancelRows \subseteq DOMAIN mutation_log
    BY DEF CancelRows
<1>8. n \in CancelRows' => call[r].proposal.action = "cancel_order"
    BY <1>2 DEF CancelRows
<1>9. ASSUME NEW i \in CancelRows' PROVE Cancelled(i)'
  <2>1. CASE i \in CancelRows
    BY <1>1, <1>2, <1>7, <2>1, CancelledStays DEF CancelInv
  <2>2. CASE i = n
    <3>1. /\ o \in DOMAIN orders' /\ v \in Nat
          /\ orders'[o].version = v + 1
          /\ orders'[o].status = "CANCELLED"
          /\ call[r].row.resource = Order(o)
      BY <1>8, <1>9, <2>2, CancelDoes
    <3> HIDE DEF o, v
    <3>2. mutation_log'[n].resource = Order(o) /\ mutation_log'[n].resource[2] = o
      BY <1>2, <3>1 DEF Order
    <3>3. permits'[mutation_log'[n].by].version = v
      BY <1>2, <1>4
    <3> QED
      BY <2>2, <3>1, <3>2, <3>3 DEF Cancelled
  <2> QED
    BY <1>6, <1>9, <2>1, <2>2
<1>10. ASSUME NEW i \in CancelRows', NEW j \in CancelRows', i < j,
              mutation_log'[i].resource = mutation_log'[j].resource
       PROVE  CancelledAgain(i, j)'
  <2>1. i \in CancelRows
    BY <1>2, <1>3, <1>6, <1>7, <1>10
  <2>2. CASE j \in CancelRows
    <3>1. CancelledAgain(i, j)
      BY <1>2, <1>7, <1>10, <2>1, <2>2 DEF CancelInv
    <3> QED
      BY <1>2, <1>4, <1>7, <2>1, <2>2, <3>1 DEF CancelledAgain
  <2>3. CASE j = n
    <3> DEFINE u == permits[mutation_log[i].by].version
    <3>1. /\ v \in Nat /\ orders[o].version = v /\ orders[o].status # "CANCELLED"
          /\ call[r].row.resource = Order(o)
      BY <1>8, <1>10, <2>3, CancelDoes
    <3>2. mutation_log[i].resource = Order(o)
      BY <1>2, <1>7, <1>10, <2>1, <2>3, <3>1
    <3>3. u \in Nat /\ u < orders[o].version
            /\ (orders[o].version = u + 1 => orders[o].status = "CANCELLED")
      BY <2>1, <3>2 DEF CancelInv, Cancelled, Order
    <3> HIDE DEF u, o, v
    <3>4. v > u + 1
      BY <3>1, <3>3
    <3>5. /\ permits'[mutation_log'[i].by].version = u
          /\ permits'[mutation_log'[n].by].version = v
      BY <1>2, <1>4, <1>7, <2>1 DEF u
    <3> QED
      BY <2>3, <3>4, <3>5 DEF CancelledAgain
  <2> QED
    BY <1>6, <1>10, <2>2, <2>3
<1> QED
    BY <1>9, <1>10 DEF CancelInv

LEMMA CancelInvNext ==
    ASSUME ~SilentEdits, Base, CancelInv, [RunnerNext]_runnerVars
    PROVE  CancelInv'
<1>1. TypeOK /\ LedgerInv /\ AgentInv /\ PinInv /\ [ClientNext]_vars
    BY RunnerIsClient DEF Base, Kept
<1>2. PermitsStay /\ VersionsGrow /\ VersionsTell
    BY <1>1, AgentInvNext, RowsMoveOn
<1>3. CASE mutation_log' = mutation_log
  <2>1. CancelRows' = CancelRows /\ CancelRows \subseteq DOMAIN mutation_log
    BY <1>3 DEF CancelRows
  <2>2. \A i \in CancelRows : Cancelled(i)'
    BY <1>1, <1>2, <1>3, <2>1, CancelledStays DEF CancelInv
  <2>3. \A i \in CancelRows :
            permits'[mutation_log[i].by].version = permits[mutation_log[i].by].version
    BY <1>1, <1>2, <2>1 DEF LedgerInv, LedgerAgrees, PermitsStay
  <2> QED
    BY <1>3, <2>1, <2>2, <2>3 DEF CancelInv, CancelledAgain
<1>4. CASE mutation_log' # mutation_log
    BY <1>1, <1>2, <1>4, OnlyCommitsWrite, CancelInvByCommit
<1> QED
    BY <1>3, <1>4

(* A payment is refunded once.                                             *)
LEMMA NoRefundTwice ==
    ASSUME Base, NEW i \in DOMAIN mutation_log, NEW j \in DOMAIN mutation_log,
           mutation_log[i].action = "issue_refund",
           mutation_log[j].action = "issue_refund",
           mutation_log[i].resource = mutation_log[j].resource
    PROVE  i = j
<1> DEFINE p == mutation_log[i].by
           o == mutation_log[i].resource[2]
<1>1. LedgerInv /\ RefundedOnce /\ PinInv
    BY DEF Base, Kept, RefundInv
<1>2. /\ p \in DOMAIN permits
      /\ permits[p].action = "issue_refund"
      /\ permits[p].resource = mutation_log[i].resource
    BY <1>1 DEF LedgerInv, LedgerAgrees, EveryRowIsAuthorised
<1>3. PermitPinned(p)
    BY <1>1, <1>2 DEF PinInv
<1>4. o \in DOMAIN payments /\ mutation_log[i].resource = Payment(o)
    BY <1>2, <1>3 DEF PermitPinned, Pinned, ResourceOf
<1> QED
    BY <1>1, <1>4 DEF RefundedOnce, RefundRowsOf

(* Retries and deliberate replays never show as duplicates                 *)
(* (count_duplicate_mutations): only a chain writes one row twice, and     *)
(* then it asked for two tickets, or it cancelled an order again that an   *)
(* edit had brought back in between.  Every edit moves the version.        *)
THEOREM RetriesNeverShow ==
    ASSUME ~SilentEdits
    PROVE  EvaluatorSpec => []DuplicatesAreTickets
<1>1. ASSUME Base, JudgeInv, SpentInv, CancelInv
      PROVE  DuplicatesAreTickets
  <2> SUFFICES ASSUME NEW r \in Runs, DuplicateMutationCount(r) > 0
               PROVE  /\ agent[r].chain
                      /\ \A i, j \in MutationLogRows(r) :
                            /\ i < j
                            /\ mutation_log[i].action = mutation_log[j].action
                            /\ mutation_log[i].resource = mutation_log[j].resource
                            => \/ mutation_log[i].action = "create_support_ticket"
                               \/ /\ mutation_log[i].action = "cancel_order"
                                  /\ CancelledAgain(i, j)
    BY DEF DuplicatesAreTickets, CancelledAgain
  <2>1. TypeOK /\ LedgerInv /\ RowsOwned
    BY <1>1 DEF Base, Kept, JudgeInv
  <2>2. agent[r].chain
    BY <1>1, <2>1, NoChainNoDuplicate DEF SpentInv
  <2>3. ASSUME NEW i \in MutationLogRows(r), NEW j \in MutationLogRows(r), i < j,
               mutation_log[i].action = mutation_log[j].action,
               mutation_log[i].resource = mutation_log[j].resource
        PROVE  \/ mutation_log[i].action = "create_support_ticket"
               \/ mutation_log[i].action = "cancel_order" /\ CancelledAgain(i, j)
    <3>1. i \in DOMAIN mutation_log /\ j \in DOMAIN mutation_log /\ i # j
      <4>1. DOMAIN mutation_log \subseteq Nat
        BY <2>1 DEF TypeOK, StoreTypeOK
      <4>2. i \in DOMAIN mutation_log /\ j \in DOMAIN mutation_log
        BY DEF MutationLogRows
      <4>3. i \in Nat /\ j \in Nat
        BY <4>1, <4>2
      <4>4. i # j
        BY <2>3, <4>3
      <4> QED
        BY <4>2, <4>4
    <3>2. mutation_log[i].action \in ActionName
      <4>1. mutation_log \in Seq(LogRow)
        BY <2>1 DEF TypeOK, StoreTypeOK
      <4>2. mutation_log[i] \in LogRow
        BY <3>1, <4>1
      <4> QED
        BY <4>2 DEF LogRow
    <3>3. mutation_log[i].action # "issue_refund"
      BY <1>1, <2>3, <3>1, NoRefundTwice
    <3>4. mutation_log[i].action = "cancel_order" => CancelledAgain(i, j)
      BY <1>1, <2>3, <3>1 DEF CancelInv, CancelRows
    <3> QED
      BY <3>2, <3>3, <3>4 DEF ActionName
  <2> QED
    BY <2>2, <2>3
<1>2. RunnerInit => CancelInv /\ SpentInv
  <2> SUFFICES ASSUME RunnerInit PROVE CancelInv /\ SpentInv
    OBVIOUS
  <2>1. DOMAIN mutation_log = {} /\ permits = EmptyTable
    BY DEF RunnerInit, Init, StoreInit
  <2>2. DOMAIN permits = {}
    BY <2>1 DEF EmptyTable
  <2> QED
    BY <2>1, <2>2 DEF CancelInv, CancelRows, SpentInv, OneSpent, SpentBy
<1>3. EvaluatorSpec => [](Base /\ CallInv /\ JudgeInv)
    BY EvaluationIsRun, JudgeInvHolds, PTL
<1>4. EvaluatorSpec => []SpentInv
    BY <1>2, <1>3, OneSpentNext, EvaluationIsRun, PTL DEF RunnerSpec
<1>5. EvaluatorSpec => []CancelInv
    BY <1>2, <1>3, CancelInvNext, EvaluationIsRun, PTL DEF RunnerSpec
<1> QED
    BY <1>1, <1>3, <1>4, <1>5, PTL
=============================================================================
